--------------------------- MODULE ClusterAutoconn ---------------------------
(***************************************************************************)
(* The autoconn threads of the hammer2 cluster service.  One thread polls  *)
(* the file that lists the hosts to connect to, reads it line by line,     *)
(* throws the scan away if the file changed under it, and starts and stops *)
(* a thread per host.  That thread connects, runs the message service of   *)
(* the connection until it ends, and tries again until it is stopped.      *)
(***************************************************************************)
EXTENDS Integers

CONSTANTS Hosts,
          MaxClock     \* bound: the file changes before this second only

ASSUME AutoconnAssumption == MaxClock \in Nat

VARIABLES file,      \* the file: there, which inode, its hosts and its mtime
          clock,     \* seconds
          apc,       \* where autoconn_thread is
          fp, unread, stamp, lmod, foundLast,
          autolist,  \* host -> stage, state, stopme
          staged,    \* history: the hosts of the last scan that was taken
          versions,  \* history: the hosts in the file at the end of each second
          cpcs       \* host -> where its connect thread is
autoconnVars == <<file, clock, apc, fp, unread, stamp, lmod, foundLast, autolist, staged, versions, cpcs>>

NoFile == [ino |-> 0, hosts |-> {}, mtime |-> 0]
AutoconnInit ==
    /\ file = [there |-> FALSE, ino |-> 1, hosts |-> {}, mtime |-> 0] /\ clock = 1
    /\ apc = "poll" /\ fp = NoFile /\ unread = {} /\ stamp = 0 /\ lmod = 0
    /\ foundLast = FALSE /\ autolist = <<>> /\ staged = {}
    /\ versions = [t \in 0..MaxClock |-> {}]
    /\ cpcs = [h \in Hosts |-> "none"]

-----------------------------------------------------------------------------
(* The administrator: the file is created, edited in place, removed.       *)
Put(hs) ==
    /\ clock < MaxClock /\ (file.there => hs # file.hosts)
    /\ LET ino == IF file.there THEN file.ino ELSE CHOOSE i \in {1, 2} : i # fp.ino IN
       /\ file' = [there |-> TRUE, ino |-> ino, hosts |-> hs, mtime |-> clock]
       /\ fp' = IF fp.ino = ino THEN [fp EXCEPT !.hosts = hs, !.mtime = clock] ELSE fp
    /\ versions' = [versions EXCEPT ![clock] = hs]
    /\ UNCHANGED <<clock, apc, unread, stamp, lmod, foundLast, autolist, staged, cpcs>>
Remove ==
    /\ file.there /\ clock < MaxClock
    /\ file' = [file EXCEPT !.there = FALSE]
    /\ UNCHANGED <<clock, apc, fp, unread, stamp, lmod, foundLast, autolist, staged, versions, cpcs>>
Tick ==
    /\ clock < MaxClock /\ clock' = clock + 1
    /\ UNCHANGED <<file, apc, fp, unread, stamp, lmod, foundLast, autolist, staged, versions, cpcs>>

-----------------------------------------------------------------------------
(* autoconn_thread.                                                        *)
\* Mutant: the staging of the last scan stays.
UnstagedKeeps == autolist
Unstaged == [h \in DOMAIN autolist |-> [autolist[h] EXCEPT !.stage = FALSE]]

ScanFile(f, t) ==
    /\ fp' = f /\ stamp' = t /\ apc' = "scan"
    /\ unread' = IF f = NoFile THEN {} ELSE Hosts
    /\ autolist' = Unstaged
    /\ UNCHANGED foundLast

\* stat.  That the file has gone is taken at the second look.
Poll ==
    /\ apc = "poll"
    /\ IF file.there
       THEN /\ file.mtime # lmod /\ stamp' = file.mtime /\ apc' = "open"
            /\ UNCHANGED <<fp, unread, foundLast, autolist>>
       ELSE /\ lmod # 0
            /\ IF foundLast
               THEN foundLast' = FALSE /\ UNCHANGED <<apc, fp, unread, stamp, autolist>>
               ELSE ScanFile(NoFile, 0)
    /\ UNCHANGED <<file, clock, lmod, staged, versions, cpcs>>

\* fopen, of the file that is there by now.  A file that has just come is
\* looked at again later, and so is one with the current second as its mtime.
OpenHosts ==
    /\ apc = "open"
    /\ IF file.there /\ foundLast /\ clock # stamp
       THEN ScanFile([ino |-> file.ino, hosts |-> file.hosts, mtime |-> file.mtime], stamp)
       ELSE /\ apc' = "poll" /\ stamp' = 0 /\ foundLast' = (foundLast \/ file.there)
            /\ UNCHANGED <<fp, unread, autolist>>
    /\ UNCHANGED <<file, clock, lmod, staged, versions, cpcs>>

\* A line of the file, as it is when it is read.
ReadLine(h) ==
    /\ apc = "scan" /\ h \in unread
    /\ unread' = unread \ {h}
    /\ autolist' = IF h \notin fp.hosts THEN autolist
                   ELSE [k \in DOMAIN autolist \cup {h} |->
                           IF k # h THEN autolist[k]
                           ELSE IF h \in DOMAIN autolist THEN [autolist[h] EXCEPT !.stage = TRUE]
                           ELSE [stage |-> TRUE, state |-> "INACTIVE", stopme |-> FALSE]]
    /\ UNCHANGED <<file, clock, apc, fp, stamp, lmod, foundLast, staged, versions, cpcs>>

\* Mutant: the file is not looked at again after the scan.
ChangedNever == FALSE
\* fstat after the scan.
Changed == fp.ino # 0 /\ fp.mtime # stamp

\* The new staging of the entries: start, stop or forget.
Start(h) == autolist[h].stage /\ autolist[h].state = "INACTIVE"
Stop(h) == ~autolist[h].stage /\ autolist[h].state = "ACTIVE"
Forget(h) == ~autolist[h].stage /\ autolist[h].state = "INACTIVE"
ScanDone ==
    /\ apc = "scan" /\ unread = {}
    /\ apc' = "poll" /\ fp' = NoFile /\ stamp' = 0
    /\ IF Changed THEN UNCHANGED <<lmod, autolist, staged, cpcs>>
       ELSE /\ lmod' = stamp
            /\ staged' = {h \in DOMAIN autolist : autolist[h].stage}
            /\ autolist' = [h \in {h \in DOMAIN autolist : ~Forget(h)} |->
                             IF Start(h) THEN [autolist[h] EXCEPT !.state = "ACTIVE", !.stopme = FALSE]
                             ELSE IF Stop(h) THEN [autolist[h] EXCEPT !.stopme = TRUE]
                             ELSE autolist[h]]
            /\ cpcs' = [h \in Hosts |->
                         IF h \in DOMAIN autolist /\ Start(h) THEN "connect" ELSE cpcs[h]]
    /\ UNCHANGED <<file, clock, unread, foundLast, versions>>

-----------------------------------------------------------------------------
(* autoconn_connect_thread and the service of its connection, which ends   *)
(* when the pipe is written or the handshake fails, and not when the       *)
(* connection is lost.                                                     *)
hostRest == <<file, clock, apc, fp, unread, stamp, lmod, foundLast, staged, versions>>
TestStopme(h) ==
    /\ cpcs[h] = "connect"
    /\ IF autolist[h].stopme
       THEN cpcs' = [cpcs EXCEPT ![h] = "none"] /\ autolist' = [autolist EXCEPT ![h].state = "INACTIVE"]
       ELSE cpcs' = [cpcs EXCEPT ![h] = "dial"] /\ UNCHANGED autolist
    /\ UNCHANGED hostRest
\* dmsg_connect, which may fail.
Connect(h) ==
    /\ cpcs[h] = "dial"
    /\ \E next \in {"serve", "connect"} : cpcs' = [cpcs EXCEPT ![h] = next]
    /\ UNCHANGED <<hostRest, autolist>>
HandshakeFails(h) ==
    /\ cpcs[h] = "serve"
    /\ cpcs' = [cpcs EXCEPT ![h] = "connect"]
    /\ UNCHANGED <<hostRest, autolist>>
Lost(h) ==
    /\ cpcs[h] = "serve" /\ clock < MaxClock
    /\ cpcs' = [cpcs EXCEPT ![h] = "dead"]
    /\ UNCHANGED <<hostRest, autolist>>
ServiceEnds(h) ==
    /\ cpcs[h] \in {"serve", "dead"} /\ autolist[h].stopme
    /\ cpcs' = [cpcs EXCEPT ![h] = "connect"]
    /\ UNCHANGED <<hostRest, autolist>>

AutoconnStep == Poll \/ OpenHosts \/ ScanDone \/ \E h \in Hosts : ReadLine(h)
HostStep(h) == TestStopme(h) \/ Connect(h) \/ ServiceEnds(h)
AutoconnNext ==
    \/ AutoconnStep \/ Tick \/ Remove
    \/ \E hs \in SUBSET Hosts : Put(hs)
    \/ \E h \in Hosts : HostStep(h) \/ HandshakeFails(h) \/ Lost(h)
AutoconnFair ==
    /\ WF_autoconnVars(Tick) /\ WF_autoconnVars(AutoconnStep)
    /\ \A h \in Hosts : WF_autoconnVars(HostStep(h))
AutoconnSpec == AutoconnInit /\ [][AutoconnNext]_autoconnVars /\ AutoconnFair

-----------------------------------------------------------------------------
InFile == IF file.there THEN file.hosts ELSE {}

\* The hosts that are connected to are the ones that the file listed when its
\* mtime was the synchronised one: no scan of a file that was being written is
\* ever taken, although lines are read one by one and the mtime counts seconds.
ScanIsFile == staged = versions[lmod]

\* A host that is out of the file for good is disconnected in the end.
HostsDropped == []<>(clock = MaxClock => \A h \in Hosts \ InFile : cpcs[h] = "none")

\* "This list will be retried until a connection can be established": a host
\* that is in the file for good is being connected to, or is connected.
HostsConnected ==
    \A h \in Hosts :
      []<>(clock = MaxClock /\ h \in InFile => cpcs[h] \in {"connect", "dial", "serve"})
=============================================================================
