----------------------------- MODULE MCCluster -----------------------------
(***************************************************************************)
(* The components of libdmsg and of the hammer2 service daemon, for TLC.   *)
(* Each is checked alone: a behaviour is one of a single component (part), *)
(* chosen at the start, and the state of the others stays as it is.        *)
(***************************************************************************)
EXTENDS DmsgStream, DmsgTrans, DmsgSpan, DmsgCrypto, ClusterAutoconn, ClusterVolconf

CONSTANT Parts      \* the components to check

VARIABLE part

\* A message without auxiliary data, one with a larger header and little, and
\* one with more than the staging buffer holds.
MsgSizes == {[h |-> 2, a |-> 0], [h |-> 3, a |-> 1], [h |-> 2, a |-> 7]}

\* Three routers in a cycle; 1 does not accept spans of the node from 2.
Triangle == {<<1, 2>>, <<2, 3>>, <<1, 3>>}
MaskedTo1 == {<<2, 1>>}

ClusterInit ==
    /\ part \in Parts
    /\ StreamInit /\ TransInit /\ SpanInit /\ AutoconnInit /\ VolconfInit
    /\ IF part = "handshake" THEN \E cfg \in [Ends -> Configs] : HandshakeInit(cfg)
       ELSE HandshakeInit([s \in Ends |-> "broken"])

OnStream(A) ==
    part = "stream" /\ A
    /\ UNCHANGED <<part, transVars, spanVars, hcVars, autoconnVars, vcVars>>
OnTrans(A) ==
    part = "trans" /\ A
    /\ UNCHANGED <<part, streamVars, spanVars, hcVars, autoconnVars, vcVars>>
OnSpan(A) ==
    part = "span" /\ A
    /\ UNCHANGED <<part, streamVars, transVars, hcVars, autoconnVars, vcVars>>
OnHandshake(A) ==
    part = "handshake" /\ A
    /\ UNCHANGED <<part, streamVars, transVars, spanVars, autoconnVars, vcVars>>
OnAutoconn(A) ==
    part = "autoconn" /\ A
    /\ UNCHANGED <<part, streamVars, transVars, spanVars, hcVars, vcVars>>
OnVolconf(A) ==
    part = "volconf" /\ A
    /\ UNCHANGED <<part, streamVars, transVars, spanVars, hcVars, autoconnVars>>

ClusterNext ==
    \/ OnStream(StreamNext(MsgSizes))
    \/ OnTrans(TransNext)
    \/ OnSpan(SpanNext)
    \/ OnHandshake(HandshakeNext)
    \/ OnAutoconn(AutoconnNext)
    \/ OnVolconf(VolconfNext)

clusterVars == <<part, streamVars, transVars, spanVars, hcVars, autoconnVars, vcVars>>

\* Each thread of the component that runs goes on as long as it can: StreamFair,
\* SpanFair, HandshakeFair, AutoconnFair and VolconfFair.
ClusterFair ==
    /\ WF_streamVars(part = "stream" /\ (PollTx \/ ClearPipe \/ Flush))
    /\ WF_streamVars(part = "stream" /\ (PollRx \/ IoqRead))
    /\ \A v \in Routers : WF_spanVars(part = "span" /\ RouterStep(v))
    /\ \A s \in Ends : WF_hcVars(part = "handshake" /\ HandshakeEnd(s))
    /\ WF_autoconnVars(part = "autoconn" /\ Tick)
    /\ WF_autoconnVars(part = "autoconn" /\ AutoconnStep)
    /\ \A h \in Hosts : WF_autoconnVars(part = "autoconn" /\ HostStep(h))
    /\ WF_vcVars(part = "volconf" /\ VolThread)
    /\ WF_vcVars(part = "volconf" /\ MsgThread)
    /\ WF_vcVars(part = "volconf" /\ IocomEnds)

ClusterSpec == ClusterInit /\ [][ClusterNext]_clusterVars /\ ClusterFair
=============================================================================
