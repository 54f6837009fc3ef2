------------------------------ MODULE DmsgSpan ------------------------------
(***************************************************************************)
(* The spanning tree protocol of libdmsg (msg_lnk.c), for one advertised   *)
(* node.  A router keeps the spans that it has received, its links, sorted *)
(* by distance, and relays the best one over every connection whose peer   *)
(* has sent LNK_CONN.  The scan that brings the relays up to date runs     *)
(* later, when a signal asks for it; the end of a span takes the relays of *)
(* it with it at once, and the loss of a connection is seen by each side,  *)
(* and for each transaction, at its own time.                              *)
(*                                                                         *)
(* Spans are transactions: a span is named by a number that is free again  *)
(* when neither side nor the connection knows it.                          *)
(***************************************************************************)
EXTENDS Integers, Sequences, FiniteSets, TLC

CONSTANTS Routers,      \* numbers: the processes that run the protocol
          Cables,       \* pairs <<v, u>>, v < u: the possible connections
          Home,         \* the router that the advertised node is attached to
          Masked,       \* pairs <<v, u>>: u does not accept such spans from v
          SPAN_MAXDIST,
          MaxChanges    \* bound: changes of the topology

ASSUME SpanAssumption ==
    /\ Routers \subseteq Nat /\ Home \in Routers
    /\ \A c \in Cables : c[1] < c[2] /\ {c[1], c[2]} \subseteq Routers
    /\ SPAN_MAXDIST \in Nat /\ MaxChanges \in Nat

Edges == Cables \cup {<<c[2], c[1]>> : c \in Cables}
Local == -1                      \* where the node's own span comes from

VARIABLES up,        \* cables in place
          conn,      \* <<v, u>>: v has u's LNK_CONN open
          links,     \* links[v]: received spans
          relays,    \* relays[v]: relayed spans
          chan,      \* chan[<<v, u>>]: messages from v to u
          signal,    \* routers asked for a scan
          changes
spanVars == <<up, conn, links, relays, chan, signal, changes>>

Conn == [op |-> "conn"]
SpanInit ==
    /\ up = Cables
    /\ conn = {}
    /\ links = [v \in Routers |-> {}] /\ relays = [v \in Routers |-> {}]
    /\ chan = [e \in Edges |-> <<Conn>>]
    /\ signal = {} /\ changes = 0

Cable(v, u) == IF v < u THEN <<v, u>> ELSE <<u, v>>
Up(v, u) == Cable(v, u) \in up

\* h2span_link_cmp: ties are broken by rnss and by address, here by name.
Better(a, b) == \/ a.dist < b.dist
                \/ a.dist = b.dist /\ a.from < b.from
                \/ a.dist = b.dist /\ a.from = b.from /\ a.id < b.id
Best(L) == CHOOSE a \in L : \A b \in L \ {a} : Better(a, b)
Src(a) == <<a.from, a.id>>

\* A number that neither side of the connection knows.
Fresh(v, u) ==
    LET busy == {r.id : r \in {r \in relays[v] : r.to = u}}
                \cup {a.id : a \in {a \in links[u] : a.from = v}}
                \cup {chan[<<v, u>>][i].id : i \in {i \in DOMAIN chan[<<v, u>>] :
                                                     chan[<<v, u>>][i].op # "conn"}}
    IN CHOOSE k \in 0..Cardinality(busy) :
         k \notin busy /\ \A j \in 0..(k - 1) : j \in busy

\* dmsg_relay_scan_specific: the filters for the best link.
Wanted(v, u, L) ==
    /\ L # {}
    /\ Best(L).dist <= SPAN_MAXDIST
    /\ Best(L).from # u
    /\ <<v, u>> \notin Masked

Old(v, u) == {r \in relays[v] : r.to = u}
\* The relays to u after the scan, and the messages sent for it: the new relay
\* is opened before the ones in excess are closed.
Kept(v, u) == {r \in Old(v, u) : links[v] # {} /\ r.src = Src(Best(links[v]))}
Opened(v, u) ==
    IF Kept(v, u) # {} \/ ~Wanted(v, u, links[v]) THEN {}
    ELSE {[to |-> u, id |-> Fresh(v, u), src |-> Src(Best(links[v]))]}
Excess(v, u) == Old(v, u) \ Kept(v, u)
\* dmsg_relay_delete and dmsg_generate_relay: the messages that they write.
RECURSIVE Deletes(_)
Deletes(R) == IF R = {} THEN <<>>
              ELSE LET r == CHOOSE r \in R : TRUE
                   IN <<[op |-> "delete", id |-> r.id]>> \o Deletes(R \ {r})
\* Mutant: the distance is not counted up.
CreatesSame(v, u) == [r \in Opened(v, u) |->
                        [op |-> "create", id |-> r.id, dist |-> Best(links[v]).dist]]
Creates(v, u) == [r \in Opened(v, u) |->
                    [op |-> "create", id |-> r.id, dist |-> Best(links[v]).dist + 1]]
News(v, u) == (IF Opened(v, u) = {} THEN <<>>
               ELSE <<Creates(v, u)[CHOOSE r \in Opened(v, u) : TRUE]>>)
              \o Deletes(Excess(v, u))

Peers(v) == {u \in Routers : <<v, u>> \in conn}
\* Mutant: every scan asks for the next.
ScanAgain(v) ==
    /\ v \in signal
    /\ relays' = [relays EXCEPT ![v] =
                    UNION {Kept(v, u) \cup Opened(v, u) : u \in Peers(v)}]
    /\ chan' = [e \in Edges |->
                 IF e[1] = v /\ e[2] \in Peers(v) /\ Up(v, e[2])
                 THEN chan[e] \o News(v, e[2]) ELSE chan[e]]
    /\ UNCHANGED <<signal, up, conn, links, changes>>

\* dmsg_msg_lnk_signal and dmsg_relay_scan, over all connections.
Scan(v) ==
    /\ v \in signal
    /\ signal' = signal \ {v}
    /\ relays' = [relays EXCEPT ![v] =
                    UNION {Kept(v, u) \cup Opened(v, u) : u \in Peers(v)}]
    /\ chan' = [e \in Edges |->
                 IF e[1] = v /\ e[2] \in Peers(v) /\ Up(v, e[2])
                 THEN chan[e] \o News(v, e[2]) ELSE chan[e]]
    /\ UNCHANGED <<up, conn, links, changes>>

\* dmsg_lnk_span with DELETE: the relays of the link are closed, and a scan is
\* asked for if the node has other links.
DropLink(v, a, ch) ==
    LET gone == {r \in relays[v] : r.src = Src(a)} IN
    /\ links' = [links EXCEPT ![v] = @ \ {a}]
    /\ relays' = [relays EXCEPT ![v] = @ \ gone]
    /\ chan' = [e \in Edges |->
                 IF e[1] = v /\ Up(v, e[2])
                 THEN ch[e] \o Deletes({r \in gone : r.to = e[2]}) ELSE ch[e]]
    /\ signal' = IF links[v] \ {a} # {} THEN signal \cup {v} ELSE signal

AddLink(v, a, ch) ==
    /\ links' = [links EXCEPT ![v] = @ \cup {a}]
    /\ signal' = signal \cup {v}
    /\ chan' = ch
    /\ UNCHANGED relays

\* The next message from u: LNK_CONN, or the start or the end of a span.
SpanReceive(v, u) ==
    /\ chan[<<u, v>>] # <<>>
    /\ LET m == Head(chan[<<u, v>>])
           rest == [chan EXCEPT ![<<u, v>>] = Tail(@)] IN
       \/ /\ m.op = "conn"
          /\ conn' = conn \cup {<<v, u>>} /\ signal' = signal \cup {v}
          /\ chan' = rest /\ UNCHANGED <<links, relays>>
       \/ /\ m.op = "create"
          /\ AddLink(v, [from |-> u, id |-> m.id, dist |-> m.dist], rest)
          /\ UNCHANGED conn
       \/ /\ m.op = "delete"
          /\ \E a \in links[v] : Src(a) = <<u, m.id>> /\ DropLink(v, a, rest)
          /\ UNCHANGED conn
    /\ UNCHANGED <<up, changes>>

\* The advertised node comes and goes at its own router.
Own == [from |-> Local, id |-> 0, dist |-> 0]
Attach2Home ==
    /\ changes < MaxChanges /\ Own \notin links[Home]
    /\ AddLink(Home, Own, chan)
    /\ changes' = changes + 1 /\ UNCHANGED <<up, conn>>
DetachFromHome ==
    /\ changes < MaxChanges /\ Own \in links[Home]
    /\ DropLink(Home, Own, chan)
    /\ changes' = changes + 1 /\ UNCHANGED <<up, conn>>

\* A connection is lost: each side may still get a part of what was sent.
Cut2(c) ==
    /\ c \in up /\ changes < MaxChanges
    /\ up' = up \ {c}
    /\ \E k \in 0..Len(chan[c]), j \in 0..Len(chan[<<c[2], c[1]>>]) :
         chan' = [chan EXCEPT ![c] = SubSeq(@, 1, k), ![<<c[2], c[1]>>] = SubSeq(@, 1, j)]
    /\ changes' = changes + 1
    /\ UNCHANGED <<conn, links, relays, signal>>

\* The failure of the connection reaches the transactions of one side: a span
\* received, a relay, or LNK_CONN, which takes the relays left with it.
FailSpan(v, a) ==
    /\ a.from # Local /\ ~Up(v, a.from) /\ chan[<<a.from, v>>] = <<>>
    /\ DropLink(v, a, chan)
    /\ UNCHANGED <<up, conn, changes>>
\* dmsg_lnk_relay: the failure reaches a relay.
FailRelay(v, r) ==
    /\ ~Up(v, r.to) /\ chan[<<r.to, v>>] = <<>>
    /\ relays' = [relays EXCEPT ![v] = @ \ {r}]
    /\ UNCHANGED <<up, conn, links, chan, signal, changes>>
FailConn(v, u) ==
    /\ <<v, u>> \in conn /\ ~Up(v, u) /\ chan[<<u, v>>] = <<>>
    /\ conn' = conn \ {<<v, u>>}
    /\ relays' = [relays EXCEPT ![v] = {r \in @ : r.to # u}]
    /\ UNCHANGED <<up, links, chan, signal, changes>>

RouterStep(v) ==
    \/ Scan(v)
    \/ \E u \in Routers : <<u, v>> \in Edges /\ (SpanReceive(v, u) \/ FailConn(v, u))
    \/ \E a \in links[v] : FailSpan(v, a)
    \/ \E r \in relays[v] : FailRelay(v, r)
SpanNext ==
    \/ \E v \in Routers : RouterStep(v)
    \/ Attach2Home \/ DetachFromHome
    \/ \E c \in Cables : Cut2(c)
SpanFair == \A v \in Routers : WF_spanVars(RouterStep(v))
SpanSpec == SpanInit /\ [][SpanNext]_spanVars /\ SpanFair

-----------------------------------------------------------------------------
Settled ==
    /\ signal = {} /\ \A e \in Edges : chan[e] = <<>>
    /\ \A v \in Routers : \A a \in links[v] : a.from = Local \/ Up(v, a.from)
    /\ \A e \in conn : Up(e[1], e[2])

\* The routers that a span relayed k times can reach.
RECURSIVE Within(_)
Within(k) == IF k = 0 THEN {v \in Routers : Own \in links[v]}
             ELSE Within(k - 1) \cup
                  {u \in Routers : \E v \in Within(k - 1) :
                      <<v, u>> \in Edges /\ Up(v, u) /\ <<v, u>> \notin Masked}

\* When nothing is on the way and no scan is due, every router's best link has
\* the length of the shortest path to the node that is in place, and a router
\* that no path reaches has no link, whatever the routers went through.
ShortestPaths ==
    Settled =>
        \A v \in Routers, k \in 0..(SPAN_MAXDIST + 1) :
            (links[v] # {} /\ Best(links[v]).dist = k)
                <=> (v \in Within(k) /\ (k > 0 => v \notin Within(k - 1)))

\* A relay has its source, a span that is still open, and the source is never
\* the connection that the relay goes to: no span is told to where it came from.
RelaysSourced ==
    \A v \in Routers : \A r \in relays[v] :
        r.src[1] # r.to /\ \E a \in links[v] : Src(a) = r.src

\* The routers come to rest after the last change: a span whose node is gone
\* does not go round a cycle of routers for ever.
Settles == []<>(changes = MaxChanges => Settled)

\* The relays of dmsg_relay_scan all have an open source on another
\* connection, and when the routers are at rest they make shortest paths.
SpanSound == ShortestPaths /\ RelaysSourced
=============================================================================
