-------------------------- MODULE ClusterVolconf --------------------------
(***************************************************************************)
(* Volume configurations in the hammer2 service daemon (cmd_service.c).    *)
(* The thread of a connection hands each VOLCONF message to a thread of    *)
(* the volume (hammer2_volconf_thread), which keeps one connection to the  *)
(* host the configuration names; when the connection's transaction is      *)
(* closed it stops that thread and waits for it.                           *)
(*                                                                         *)
(* One volume.  confmtx is held by the volume's thread from its test of    *)
(* ctl to the unlock or the cond_wait, which is one step here but for the  *)
(* clearing of a flag: ctl is also stored to without the mutex, so the     *)
(* read and the write are two steps.  A configuration is a host, or 0 for  *)
(* none.                                                                   *)
(***************************************************************************)
EXTENDS Integers

CONSTANTS VcHosts,    \* hosts a configuration may name
          MaxVolconf, \* bound: VOLCONF messages
          HupWakes    \* subset of BOOLEAN: may closing the pipe end the
                      \* connection's thread (poll reports POLLIN with the
                      \* hang-up), may it not (Linux)

ASSUME VolconfAssumption == MaxVolconf \in Nat /\ HupWakes \subseteq BOOLEAN

VARIABLES vcCtl,    \* subset of {"stop", "update"}
          vcPend, vcRun,
          vcState,  \* H2MC_*
          vcIocom,  \* the connection's thread
          vcT,      \* the volume's thread
          vcOld,    \* what it read of ctl
          vcM,      \* the thread that handles the messages
          vcSent

vcVars == <<vcCtl, vcPend, vcRun, vcState, vcIocom, vcT, vcOld, vcM, vcSent>>

VolconfInit ==
  /\ vcCtl = {} /\ vcPend = 0 /\ vcRun = 0 /\ vcState = "stopped"
  /\ vcIocom = "none" /\ vcT = "none" /\ vcOld = {} /\ vcM = "idle" /\ vcSent = 0

-----------------------------------------------------------------------------
(* hammer2_usrmsg_handler.                                                 *)

\* DMSG_LNK_HAMMER2_VOLCONF, under the mutex.
Volconf(h) ==
  /\ vcM = "idle" /\ vcSent < MaxVolconf /\ vcT # "clear"
  /\ vcPend' = h /\ vcCtl' = vcCtl \cup {"update"}
  /\ vcSent' = vcSent + 1 /\ vcM' = "start"
  /\ UNCHANGED <<vcRun, vcState, vcIocom, vcT, vcOld>>

StartThread ==
  /\ vcM = "start" /\ vcM' = "signal"
  /\ vcT' = IF vcT = "none" THEN "check" ELSE vcT
  /\ UNCHANGED <<vcCtl, vcPend, vcRun, vcState, vcIocom, vcOld, vcSent>>

\* pthread_cond_signal wakes the thread if it waits, and is lost otherwise.
Signal ==
  /\ vcM \in {"signal", "stopsignal"}
  /\ vcT' = IF vcT = "wait" THEN "check" ELSE vcT
  /\ vcM' = IF vcM = "signal" THEN "idle" ELSE "join"
  /\ UNCHANGED <<vcCtl, vcPend, vcRun, vcState, vcIocom, vcOld, vcSent>>

\* The transaction is closed: ctl is stored to without the mutex.
CloseConn ==
  /\ vcM = "idle"
  /\ IF vcT = "none" THEN vcM' = "freed" /\ UNCHANGED vcCtl
     ELSE vcCtl' = {"stop"} /\ vcM' = "stopsignal"
  /\ UNCHANGED <<vcPend, vcRun, vcState, vcIocom, vcT, vcOld, vcSent>>

JoinThread ==
  /\ vcM = "join" /\ vcT = "exited" /\ vcM' = "freed"
  /\ UNCHANGED <<vcCtl, vcPend, vcRun, vcState, vcIocom, vcT, vcOld, vcSent>>

-----------------------------------------------------------------------------
(* hammer2_volconf_thread.                                                 *)

CheckCtl ==
  /\ vcT = "check"
  /\ vcT' = IF "stop" \in vcCtl THEN "laststop"
            ELSE IF "update" \in vcCtl THEN "clear" ELSE "tail"
  /\ vcOld' = IF vcT' = "clear" THEN vcCtl ELSE {}
  /\ UNCHANGED <<vcCtl, vcPend, vcRun, vcState, vcIocom, vcM, vcSent>>

\* ctl &= ~H2CONFCTL_UPDATE, and the comparison.
ClearUpdate ==
  /\ vcT = "clear"
  /\ vcCtl' = vcOld \ {"update"}
  /\ vcT' = IF vcRun = vcPend THEN "check" ELSE "stop"
  /\ vcOld' = {}
  /\ UNCHANGED <<vcPend, vcRun, vcState, vcIocom, vcM, vcSent>>

\* hammer2_volconf_stop of a running connection: close the pipe and join.
StopGoesTo(last) == IF last THEN "lastjoin" ELSE "join"

StopConn(last) ==
  /\ vcT = IF last THEN "laststop" ELSE "stop"
  /\ IF vcState = "running"
     THEN /\ vcT' = StopGoesTo(last)
          /\ \E wakes \in HupWakes :
               vcIocom' = IF wakes /\ vcIocom = "running" THEN "ending" ELSE vcIocom
          /\ UNCHANGED vcState
     ELSE vcT' = (IF last THEN "exited" ELSE "copy") /\ vcState' = "stopped" /\ UNCHANGED vcIocom
  /\ UNCHANGED <<vcCtl, vcPend, vcRun, vcOld, vcM, vcSent>>

JoinConn(last) ==
  /\ vcT = IF last THEN "lastjoin" ELSE "join"
  /\ vcIocom = "ended"
  /\ vcIocom' = "none" /\ vcState' = "stopped"
  /\ vcT' = IF last THEN "exited" ELSE "copy"
  /\ UNCHANGED <<vcCtl, vcPend, vcRun, vcOld, vcM, vcSent>>

\* copy_run = copy_pend, without the mutex.
CopyPend ==
  /\ vcT = "copy" /\ vcRun' = vcPend
  /\ vcT' = IF vcPend = 0 THEN "tail" ELSE "connect"
  /\ UNCHANGED <<vcCtl, vcPend, vcState, vcIocom, vcOld, vcM, vcSent>>

\* hammer2_volconf_start: dmsg_connect succeeds or fails.
StartConn ==
  \/ vcState' = "running" /\ vcIocom' = "running"
  \/ vcState' = "connect" /\ UNCHANGED vcIocom

Connect1 ==
  /\ vcT = "connect" /\ vcT' = "tail"
  /\ StartConn
  /\ UNCHANGED <<vcCtl, vcPend, vcRun, vcOld, vcM, vcSent>>

\* Mutant: the flag is cleared when the update is done.
TailOfLoopClears ==
  /\ vcT = "tail"
  /\ IF vcState = "connect" THEN StartConn /\ vcT' = "check"
     ELSE vcT' = "wait" /\ UNCHANGED <<vcState, vcIocom>>
  /\ vcCtl' = vcCtl \ {"update"}
  /\ UNCHANGED <<vcPend, vcRun, vcOld, vcM, vcSent>>

\* Try again and sleep, or wait for a signal.
TailOfLoop ==
  /\ vcT = "tail"
  /\ IF vcState = "connect" THEN StartConn /\ vcT' = "check"
     ELSE vcT' = "wait" /\ UNCHANGED <<vcState, vcIocom>>
  /\ UNCHANGED <<vcCtl, vcPend, vcRun, vcOld, vcM, vcSent>>

IocomEnds ==
  /\ vcIocom = "ending" /\ vcIocom' = "ended"
  /\ UNCHANGED <<vcCtl, vcPend, vcRun, vcState, vcT, vcOld, vcM, vcSent>>

\* The handshake of the connection fails.
IocomFails ==
  /\ vcIocom = "running" /\ vcIocom' = "ended"
  /\ UNCHANGED <<vcCtl, vcPend, vcRun, vcState, vcT, vcOld, vcM, vcSent>>

VolconfEnded == vcM = "freed" /\ UNCHANGED vcVars

VolThread ==
  \/ CheckCtl \/ ClearUpdate \/ CopyPend \/ Connect1 \/ TailOfLoop
  \/ \E last \in BOOLEAN : StopConn(last) \/ JoinConn(last)

MsgThread == StartThread \/ Signal \/ JoinThread

VolconfNext ==
  \/ VolThread \/ MsgThread \/ CloseConn \/ IocomEnds \/ IocomFails \/ VolconfEnded
  \/ \E h \in VcHosts \cup {0} : Volconf(h)

\* Every thread that can run does.
VolconfFair == WF_vcVars(VolThread) /\ WF_vcVars(MsgThread) /\ WF_vcVars(IocomEnds)

VolconfSpec == VolconfInit /\ [][VolconfNext]_vcVars /\ VolconfFair

-----------------------------------------------------------------------------
(* Properties.                                                             *)

\* When the message thread frees the configuration, the volume's thread and
\* its connection are gone.
FreedAlone == vcM = "freed" => vcT \in {"none", "exited"} /\ vcIocom = "none"

\* The volume never has two connections: none is started while the thread of
\* the last one has not been joined.
OneConnection == [][vcIocom' = "running" =>
                      vcIocom \in {"none", "running"}
                      /\ (vcIocom = "running" => vcState = "running")]_vcVars

\* A configuration that has not been put to use is always still flagged, so
\* the next signal makes up for one that was lost.
PendingFlagged ==
  vcT = "wait" /\ vcM = "idle" /\ vcRun # vcPend => "update" \in vcCtl

\* cmd_service.c, on the closing of a connection: "Deleting connection, clean
\* out all volume configs": the handler gets to the end.
CloseCompletes == (vcM = "stopsignal") ~> (vcM = "freed")

\* The threads of a volume's configuration: one connection at a time, the
\* configuration freed only when both threads are gone, and no new
\* configuration forgotten while the thread waits.
VolconfSafe == [](FreedAlone /\ PendingFlagged) /\ OneConnection
=============================================================================
