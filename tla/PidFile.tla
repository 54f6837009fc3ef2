------------------------------ MODULE PidFile ------------------------------
(***************************************************************************)
(* Pid files: flopen.c and pidfile.c of libutil, their use by hammer       *)
(* cleanup (one file per process, held while a PFS is worked on) and by    *)
(* hammer abort-cleanup, which signals the processes whose file is locked. *)
(*                                                                         *)
(* A directory maps names to inodes; a lock (flock) belongs to an inode    *)
(* and is held through an open descriptor.  open, flock, stat, unlink,     *)
(* close and kill are single steps.  The name is the process's own         *)
(* (hammer.cleanup.<pid>) or, as the library allows, one for everybody.    *)
(***************************************************************************)
EXTENDS Integers, FiniteSets

CONSTANTS Cleaners,   \* processes that hold a pid file while they work
          Aborters,   \* hammer abort-cleanup processes
          MaxPfs      \* bound: the PFSs a cleaner works on

ASSUME PidAssumption == MaxPfs \in Nat \ {0} /\ Cleaners \cap Aborters = {}

VARIABLES pfName,     \* cleaner -> the name of its pid file
          pfDir,      \* name -> inode, 0 when there is no such file
          pfLock,     \* process -> the inode it has locked, or 0
          pfFd,       \* process -> the inode its descriptor refers to, or 0
          pfPc, pfLeft,
          abTodo,     \* aborter -> names readdir has yet to return
          abName,     \* aborter -> the cleaner whose file it looks at
          abSteady    \* aborter -> cleaners at work, listed, ever since opendir

pidVars == <<pfName, pfDir, pfLock, pfFd, pfPc, pfLeft, abTodo, abName, abSteady>>

Procs == Cleaners \cup Aborters

PidInit(shared) ==
  /\ pfName = [p \in Cleaners |-> IF shared THEN CHOOSE q \in Cleaners : TRUE ELSE p]
  /\ pfDir = [p \in Cleaners |-> 0]
  /\ pfLock = [p \in Procs |-> 0] /\ pfFd = [p \in Procs |-> 0]
  /\ pfPc = [p \in Procs |-> "idle"]
  /\ pfLeft = [p \in Cleaners |-> MaxPfs]
  /\ abTodo = [a \in Aborters |-> {}] /\ abName = [a \in Aborters |-> {}]
  /\ abSteady = [a \in Aborters |-> {}]

Shared == \E p \in Cleaners : pfName[p] # p

Lockable(p) == \A q \in Procs \ {p} : pfLock[q] # pfFd[p]

Goto(p, pc) == pfPc' = [pfPc EXCEPT ![p] = pc]
CloseFd(p) == pfFd' = [pfFd EXCEPT ![p] = 0] /\ pfLock' = [pfLock EXCEPT ![p] = 0]
Unsteady(p) == abSteady' = [a \in Aborters |-> abSteady[a] \ {p}]

\* An inode number is free again once no name and no descriptor refers to it.
NewInode ==
  LET used == {pfDir[p] : p \in Cleaners} \cup {pfFd[p] : p \in Procs}
  IN CHOOSE i \in 1 .. Cardinality(Procs) + Cardinality(Cleaners) + 1 : i \notin used

-----------------------------------------------------------------------------
(* flopen(path, O_CREAT | O_TRUNC | O_NONBLOCK).                           *)

OpenFile(p) ==
  /\ pfPc[p] = "idle" /\ pfLeft[p] > 0
  /\ LET n == pfName[p] IN
     IF pfDir[n] = 0
     THEN /\ pfDir' = [pfDir EXCEPT ![n] = NewInode]
          /\ pfFd' = [pfFd EXCEPT ![p] = NewInode]
     ELSE /\ pfFd' = [pfFd EXCEPT ![p] = pfDir[n]] /\ UNCHANGED pfDir
  /\ Goto(p, "flock")
  /\ UNCHANGED <<pfName, pfLock, pfLeft, abTodo, abName, abSteady>>

\* A lock held elsewhere ends pidfile_open with EEXIST; hammer cleanup warns
\* and works on without a pid file.
FlockFile(p) ==
  /\ pfPc[p] = "flock"
  /\ IF Lockable(p)
     THEN /\ pfLock' = [pfLock EXCEPT ![p] = pfFd[p]] /\ Goto(p, "stat")
          /\ UNCHANGED pfFd
     ELSE CloseFd(p) /\ Goto(p, IF Shared THEN "refused" ELSE "bare")
  /\ UNCHANGED <<pfName, pfDir, pfLeft, abTodo, abName, abSteady>>

\* Mutant: any file of that name will do.
SameFileAny(p) == pfDir[pfName[p]] # 0

\* The file of that name must still be the one that was locked.
SameFile(p) == pfDir[pfName[p]] # 0 /\ pfDir[pfName[p]] = pfFd[p]

StatFile(p) ==
  /\ pfPc[p] = "stat"
  /\ IF SameFile(p) THEN Goto(p, "work") /\ UNCHANGED <<pfFd, pfLock>>
     ELSE CloseFd(p) /\ Goto(p, "idle")
  /\ UNCHANGED <<pfName, pfDir, pfLeft, abTodo, abName, abSteady>>

\* _pidfile_remove: unlink by name, then close.
UnlinkFile(p) ==
  /\ pfPc[p] = "work"
  /\ pfDir' = [pfDir EXCEPT ![pfName[p]] = 0]
  /\ Goto(p, "close") /\ Unsteady(p)
  /\ UNCHANGED <<pfName, pfLock, pfFd, pfLeft, abTodo, abName>>

CloseFile(p) ==
  /\ pfPc[p] \in {"close", "bare", "refused"}
  /\ CloseFd(p) /\ Goto(p, "idle")
  /\ pfLeft' = [pfLeft EXCEPT ![p] = @ - 1]
  /\ UNCHANGED <<pfName, pfDir, abTodo, abName, abSteady>>

\* A process ends wherever it is; its file stays.
Die(p) ==
  /\ pfPc[p] # "dead"
  /\ Goto(p, "dead") /\ CloseFd(p) /\ Unsteady(p)
  /\ UNCHANGED <<pfName, pfDir, pfLeft, abTodo, abName>>

-----------------------------------------------------------------------------
(* hammer_cmd_abort_cleanup.                                               *)

\* readdir returns the entries there are, and may return ones made later.
AbortOpendir(a) ==
  /\ ~Shared /\ pfPc[a] = "idle"
  /\ \E late \in SUBSET Cleaners :
       abTodo' = [abTodo EXCEPT ![a] = late \cup {p \in Cleaners : pfDir[p] # 0}]
  /\ abSteady' = [abSteady EXCEPT ![a] =
                    {p \in Cleaners : pfPc[p] = "work" /\ pfDir[p] = pfFd[p]}]
  /\ Goto(a, "readdir")
  /\ UNCHANGED <<pfName, pfDir, pfLock, pfFd, pfLeft, abName>>

\* A file that is gone is skipped.
AbortReaddir(a, p) ==
  /\ pfPc[a] = "readdir"
  /\ p \in abTodo[a]
  /\ abTodo' = [abTodo EXCEPT ![a] = @ \ {p}]
  /\ IF pfDir[p] = 0 THEN UNCHANGED <<pfFd, abName, pfPc>>
     ELSE /\ pfFd' = [pfFd EXCEPT ![a] = pfDir[p]]
          /\ abName' = [abName EXCEPT ![a] = {p}]
          /\ Goto(a, "try")
  /\ UNCHANGED <<pfName, pfDir, pfLock, pfLeft, abSteady>>

TryOutcome(a) == IF Lockable(a) THEN "unlock" ELSE "kill"

AbortTry(a) ==
  /\ pfPc[a] = "try"
  /\ pfLock' = [pfLock EXCEPT ![a] = IF Lockable(a) THEN pfFd[a] ELSE 0]
  /\ Goto(a, TryOutcome(a))
  /\ UNCHANGED <<pfName, pfDir, pfFd, pfLeft, abTodo, abName, abSteady>>

\* SIGTERM ends the cleaner, or finds no such process.
AbortKill(a, p) ==
  /\ pfPc[a] = "kill" /\ p \in abName[a]
  /\ pfPc' = [pfPc EXCEPT ![a] = "unlock", ![p] = "dead"]
  /\ pfFd' = [pfFd EXCEPT ![p] = 0] /\ pfLock' = [pfLock EXCEPT ![p] = 0]
  /\ Unsteady(p)
  /\ UNCHANGED <<pfName, pfDir, pfLeft, abTodo, abName>>

AbortUnlock(a) ==
  /\ pfPc[a] = "unlock" /\ CloseFd(a) /\ Goto(a, "unlink")
  /\ UNCHANGED <<pfName, pfDir, pfLeft, abTodo, abName, abSteady>>

\* By name, whatever file has that name by now.
AbortUnlink(a, p) ==
  /\ pfPc[a] = "unlink" /\ p \in abName[a]
  /\ pfDir' = [pfDir EXCEPT ![p] = 0]
  /\ abName' = [abName EXCEPT ![a] = {}]
  /\ abSteady' = [b \in Aborters |-> abSteady[b] \ (IF b = a THEN {} ELSE {p})]
  /\ Goto(a, "readdir")
  /\ UNCHANGED <<pfName, pfLock, pfFd, pfLeft, abTodo>>

AbortClosedir(a) ==
  /\ pfPc[a] = "readdir" /\ abTodo[a] = {} /\ Goto(a, "done")
  /\ UNCHANGED <<pfName, pfDir, pfLock, pfFd, pfLeft, abTodo, abName, abSteady>>

PidEnded ==
  /\ \A p \in Cleaners : pfPc[p] = "dead" \/ (pfPc[p] = "idle" /\ pfLeft[p] = 0)
  /\ \A a \in Aborters : pfPc[a] = "done" \/ Shared
  /\ UNCHANGED pidVars

PidNext ==
  \/ \E p \in Cleaners : OpenFile(p) \/ FlockFile(p) \/ StatFile(p)
                         \/ UnlinkFile(p) \/ CloseFile(p) \/ Die(p)
  \/ \E a \in Aborters : AbortOpendir(a) \/ AbortTry(a) \/ AbortUnlock(a) \/ AbortClosedir(a)
  \/ \E a \in Aborters, p \in Cleaners :
       AbortReaddir(a, p) \/ AbortKill(a, p) \/ AbortUnlink(a, p)
  \/ PidEnded

PidSpec == (\E shared \in BOOLEAN : PidInit(shared)) /\ [][PidNext]_pidVars

-----------------------------------------------------------------------------
(* Properties.                                                             *)

\* Where processes share one pid file, at most one of them is past
\* pidfile_open and before the unlink of pidfile_remove, although the holder
\* unlinks the file while others have it open and wait for the lock.
OneHolder ==
  Shared => \A p, q \in Cleaners : pfPc[p] = "work" /\ pfPc[q] = "work" => p = q

\* hammer abort-cleanup signals every cleaner that was at work when it read
\* the directory and whose file stayed listed, unless the cleaner ended by
\* itself.
AbortReaches == \A a \in Aborters : pfPc[a] = "done" => abSteady[a] = {}

\* hammer.8 says of abort-cleanup that it "will terminate all active cleanup
\* processes": a cleaner at work has its pid file in the directory, so that
\* the command can find it.
ActiveListed ==
  \A p \in Cleaners : pfPc[p] \in {"work", "bare"} => pfDir[pfName[p]] # 0

\* A shared pid file has one holder at a time (flopen, pidfile_remove), and
\* abort-cleanup signals every cleaner that was at work when it read the
\* directory and whose file stayed listed.
PidSafe == OneHolder /\ AbortReaches
=============================================================================
