--------------------------- MODULE ProcessTheorems ---------------------------
(***************************************************************************)
(* Proofs about processes and threads that run side by side.               *)
(*                                                                         *)
(* The cluster service: the life of a volume's connection in the hammer2   *)
(* daemon (ClusterVolconf), for any hosts, any number of VOLCONF messages  *)
(* and either behaviour of the hang-up; its scan of the file of hosts      *)
(* (ClusterAutoconn), for any hosts and any time; and the handshake of a   *)
(* libdmsg connection (DmsgCrypto), for any number and size of blocks and  *)
(* every pair of configurations.                                           *)
(*                                                                         *)
(* Pid files (PidFile), for any number of processes that hold one, any     *)
(* number of hammer abort-cleanup processes and any number of PFSs: one    *)
(* shared file has one holder, and abort-cleanup reaches the cleaners      *)
(* whose files it lists.                                                   *)
(***************************************************************************)
EXTENDS ClusterVolconf, ClusterAutoconn, DmsgCrypto, PidFile, TLAPS

-----------------------------------------------------------------------------
(* Pid files.                                                              *)

PidType ==
  /\ pfName \in [Cleaners -> Cleaners] /\ DOMAIN pfDir = Cleaners
  /\ DOMAIN pfLock = Procs /\ DOMAIN pfFd = Procs /\ DOMAIN pfPc = Procs
  /\ DOMAIN abTodo = Aborters /\ DOMAIN abName = Aborters
  /\ abSteady \in [Aborters -> SUBSET Cleaners]

\* The names are all the same or all different, and nobody aborts the
\* processes that share one.
SharedInv ==
  Shared => /\ \A p, q \in Cleaners : pfName[p] = pfName[q]
            /\ \A a \in Aborters : pfPc[a] = "idle"

\* A lock excludes every other, and a process past flock holds that of its
\* descriptor.
LockInv ==
  /\ \A p, q \in Procs : pfLock[p] # 0 /\ pfLock[p] = pfLock[q] => p = q
  /\ \A p \in Cleaners : pfPc[p] \in {"stat", "work"} => pfLock[p] = pfFd[p]
  /\ \A p \in Cleaners : pfPc[p] = "work" => pfFd[p] # 0

\* The shared file of a process at work is the one in the directory.
WorkInv ==
  Shared => \A p \in Cleaners : pfPc[p] = "work" => pfDir[pfName[p]] = pfFd[p]

\* A cleaner that an aborter has yet to reach is at work with its file listed,
\* and the aborter will come to the file or is at it.
SteadyInv ==
  \A a \in Aborters :
    /\ \A p \in abSteady[a] :
         /\ pfPc[p] = "work" /\ pfDir[p] = pfFd[p]
         /\ \/ p \in abTodo[a]
            \/ /\ pfPc[a] \in {"try", "kill"} /\ p \in abName[a]
               /\ pfPc[a] = "try" => pfFd[a] = pfDir[p]
    /\ \A p, q \in abName[a] : p = q
    /\ pfPc[a] \in {"try", "kill", "unlock", "unlink"} => abName[a] \cap abTodo[a] = {}
    /\ abSteady[a] # {} => ~Shared
    /\ pfPc[a] = "done" => abTodo[a] = {}

PidInv == PidType /\ SharedInv /\ LockInv /\ WorkInv /\ SteadyInv

\* The invariant holds before the first process opens its file.
LEMMA PidInitial == ASSUME NEW shared \in BOOLEAN, PidInit(shared) PROVE PidInv
<1> DEFINE c == CHOOSE q \in Cleaners : TRUE
<1>1. pfName = [p \in Cleaners |-> IF shared THEN c ELSE p]
  BY DEF PidInit
<1>2. pfName \in [Cleaners -> Cleaners]
  BY <1>1
<1>3. PidType
  BY <1>2 DEF PidInit, PidType
<1>4. SharedInv
  BY <1>1 DEF PidInit, SharedInv, Shared, Procs
<1>5. LockInv
  BY DEF PidInit, LockInv, Procs
<1>6. WorkInv
  BY DEF PidInit, WorkInv, Procs
<1>7. SteadyInv
  BY DEF PidInit, SteadyInv, Procs
<1> QED
  BY <1>3, <1>4, <1>5, <1>6, <1>7 DEF PidInv

\* Cleaners are not aborters.
LEMMA Kinds == /\ Cleaners \subseteq Procs /\ Aborters \subseteq Procs
               /\ \A p \in Cleaners : p \notin Aborters
  BY PidAssumption DEF Procs

\* Whether the file is shared is settled at the start.
LEMMA SharedStays == ASSUME UNCHANGED pfName PROVE Shared' = Shared
  BY DEF Shared

\* flopen opens the file, which is there or is made.
LEMMA PidOpenStep == ASSUME PidInv, NEW p \in Cleaners, OpenFile(p) PROVE PidInv'
<1> USE Kinds DEF PidInv, PidType
<1>1. /\ pfPc[p] = "idle" /\ pfPc' = [pfPc EXCEPT ![p] = "flock"]
      /\ UNCHANGED <<pfName, pfLock, abTodo, abName, abSteady>>
      /\ DOMAIN pfDir' = Cleaners /\ DOMAIN pfFd' = Procs
      /\ \A q \in Procs \ {p} : pfFd'[q] = pfFd[q]
      /\ \A q \in Cleaners : pfDir[q] # 0 => pfDir'[q] = pfDir[q]
      /\ \A q \in Cleaners : q # pfName[p] => pfDir'[q] = pfDir[q]
  BY DEF OpenFile, Goto
<1>2. PidType'
  BY <1>1
<1>3. SharedInv'
  BY <1>1, SharedStays, Zenon DEF SharedInv
<1>4. LockInv'
  BY <1>1 DEF LockInv
<1>5. WorkInv'
  <2> SUFFICES ASSUME Shared, NEW q \in Cleaners, pfPc'[q] = "work"
               PROVE  pfDir'[pfName[q]] = pfFd'[q]
    BY SharedStays, <1>1, Zenon DEF WorkInv
  <2>1. q # p /\ pfPc[q] = "work" /\ pfFd'[q] = pfFd[q] /\ pfName[q] \in Cleaners
    BY <1>1
  <2>2. pfDir[pfName[q]] = pfFd[q] /\ pfFd[q] # 0
    BY <2>1 DEF WorkInv, LockInv
  <2> QED
    BY <1>1, <2>1, <2>2
<1>6. SteadyInv'
  BY <1>1, SharedStays DEF SteadyInv, LockInv
<1> QED
  BY <1>2, <1>3, <1>4, <1>5, <1>6

\* flock takes the lock that nobody has, or closes the file.
LEMMA FlockStep == ASSUME PidInv, NEW p \in Cleaners, FlockFile(p) PROVE PidInv'
<1> USE Kinds DEF PidInv, PidType
<1>1. /\ pfPc[p] = "flock" /\ DOMAIN pfPc' = Procs
      /\ pfPc'[p] \in {"stat", "refused", "bare"} /\ \A q \in Procs \ {p} : pfPc'[q] = pfPc[q]
      /\ UNCHANGED <<pfName, pfDir, abTodo, abName, abSteady>>
      /\ DOMAIN pfLock' = Procs /\ DOMAIN pfFd' = Procs
      /\ \A q \in Procs \ {p} : pfFd'[q] = pfFd[q] /\ pfLock'[q] = pfLock[q]
  BY DEF FlockFile, Goto, CloseFd
<1>2. \/ pfLock'[p] = 0 /\ pfPc'[p] # "stat"
      \/ pfLock'[p] = pfFd'[p] /\ \A q \in Procs \ {p} : pfLock[q] # pfLock'[p]
  BY DEF FlockFile, Goto, CloseFd, Lockable
<1>3. PidType'
  BY <1>1
<1>4. SharedInv'
  BY <1>1, SharedStays, Zenon DEF SharedInv
<1>5. LockInv'
  BY <1>1, <1>2 DEF LockInv
<1>6. WorkInv'
  BY <1>1, SharedStays, Zenon DEF WorkInv
<1>7. SteadyInv'
  BY <1>1, SharedStays DEF SteadyInv
<1> QED
  BY <1>3, <1>4, <1>5, <1>6, <1>7

\* The file that was locked is the one of that name, or flopen starts again.
LEMMA StatStep == ASSUME PidInv, NEW p \in Cleaners, StatFile(p) PROVE PidInv'
<1> USE Kinds DEF PidInv, PidType
<1>1. /\ pfPc[p] = "stat" /\ DOMAIN pfPc' = Procs
      /\ pfPc'[p] \in {"work", "idle"} /\ \A q \in Procs \ {p} : pfPc'[q] = pfPc[q]
      /\ UNCHANGED <<pfName, pfDir, abTodo, abName, abSteady>>
      /\ DOMAIN pfLock' = Procs /\ DOMAIN pfFd' = Procs
      /\ \A q \in Procs \ {p} : pfFd'[q] = pfFd[q] /\ pfLock'[q] = pfLock[q]
  BY DEF StatFile, Goto, CloseFd
<1>2. \/ pfLock'[p] = 0 /\ pfPc'[p] # "work"
      \/ /\ pfLock'[p] = pfLock[p] /\ pfFd'[p] = pfFd[p]
         /\ pfDir[pfName[p]] # 0 /\ pfDir[pfName[p]] = pfFd[p]
  BY DEF StatFile, Goto, CloseFd, SameFile
<1>3. PidType'
  BY <1>1
<1>4. SharedInv'
  BY <1>1, SharedStays, Zenon DEF SharedInv
<1>5. LockInv'
  BY <1>1, <1>2 DEF LockInv
<1>6. WorkInv'
  BY <1>1, <1>2, SharedStays, Zenon DEF WorkInv
<1>7. SteadyInv'
  BY <1>1, SharedStays DEF SteadyInv
<1> QED
  BY <1>3, <1>4, <1>5, <1>6, <1>7

\* The holder unlinks the file.
LEMMA UnlinkStep == ASSUME PidInv, NEW p \in Cleaners, UnlinkFile(p) PROVE PidInv'
<1> USE Kinds DEF PidInv, PidType
<1>1. /\ pfPc[p] = "work" /\ pfPc' = [pfPc EXCEPT ![p] = "close"]
      /\ pfDir' = [pfDir EXCEPT ![pfName[p]] = 0]
      /\ abSteady' = [a \in Aborters |-> abSteady[a] \ {p}]
      /\ UNCHANGED <<pfName, pfLock, pfFd, abTodo, abName>>
  BY DEF UnlinkFile, Goto, Unsteady
<1>2. PidType'
  BY <1>1
<1>3. SharedInv'
  BY <1>1, SharedStays, Zenon DEF SharedInv
<1>4. LockInv'
  BY <1>1 DEF LockInv
<1>5. WorkInv'
  <2> SUFFICES ASSUME Shared, NEW q \in Cleaners, pfPc'[q] = "work" PROVE FALSE
    BY SharedStays, <1>1, Zenon DEF WorkInv
  <2>1. q # p /\ pfPc[q] = "work" /\ pfName[q] = pfName[p]
    BY <1>1 DEF SharedInv
  <2>2. pfFd[q] = pfFd[p]
    BY <2>1, <1>1 DEF WorkInv
  <2> QED
    BY <2>1, <2>2, <1>1 DEF LockInv
<1>6. SteadyInv'
  <2>1. ASSUME NEW a \in Aborters, NEW q \in abSteady'[a]
        PROVE  /\ q \in abSteady[a] /\ q \in Cleaners /\ q # p
               /\ pfPc'[q] = pfPc[q] /\ pfPc'[a] = pfPc[a] /\ pfDir'[q] = pfDir[q]
    <3>1. q \in abSteady[a] /\ q # p /\ q \in Cleaners
      BY <1>1, <2>1
    <3>2. ~Shared
      BY <3>1 DEF SteadyInv
    <3> QED
      BY <1>1, <3>1, <3>2 DEF Shared
  <2> QED
    BY <1>1, <2>1, SharedStays DEF SteadyInv
<1> QED
  BY <1>2, <1>3, <1>4, <1>5, <1>6

\* A descriptor is closed, and its lock is gone.
LEMMA CloseStep == ASSUME PidInv, NEW p \in Cleaners, CloseFile(p) PROVE PidInv'
<1> USE Kinds DEF PidInv, PidType
<1>1. /\ pfPc[p] \in {"close", "bare", "refused"} /\ pfPc' = [pfPc EXCEPT ![p] = "idle"]
      /\ pfFd' = [pfFd EXCEPT ![p] = 0] /\ pfLock' = [pfLock EXCEPT ![p] = 0]
      /\ UNCHANGED <<pfName, pfDir, abTodo, abName, abSteady>>
  BY DEF CloseFile, Goto, CloseFd
<1>2. PidType'
  BY <1>1
<1>3. SharedInv'
  BY <1>1, SharedStays, Zenon DEF SharedInv
<1>4. LockInv'
  BY <1>1 DEF LockInv
<1>5. WorkInv'
  BY <1>1, SharedStays, Zenon DEF WorkInv
<1>6. SteadyInv'
  BY <1>1, SharedStays DEF SteadyInv
<1> QED
  BY <1>2, <1>3, <1>4, <1>5, <1>6

\* A process ends by itself.
LEMMA DieStep == ASSUME PidInv, NEW p \in Cleaners, Die(p) PROVE PidInv'
<1> USE Kinds DEF PidInv, PidType
<1>1. /\ pfPc' = [pfPc EXCEPT ![p] = "dead"]
      /\ pfFd' = [pfFd EXCEPT ![p] = 0] /\ pfLock' = [pfLock EXCEPT ![p] = 0]
      /\ abSteady' = [a \in Aborters |-> abSteady[a] \ {p}]
      /\ UNCHANGED <<pfName, pfDir, abTodo, abName>>
  BY DEF Die, Goto, CloseFd, Unsteady
<1>2. PidType'
  BY <1>1
<1>3. SharedInv'
  <2>1. \A a \in Aborters : pfPc'[a] = pfPc[a]
    BY <1>1
  <2> QED
    BY <1>1, <2>1, SharedStays, Zenon DEF SharedInv
<1>4. LockInv'
  BY <1>1 DEF LockInv
<1>5. WorkInv'
  BY <1>1, SharedStays, Zenon DEF WorkInv
<1>6. SteadyInv'
  BY <1>1, SharedStays DEF SteadyInv
<1> QED
  BY <1>2, <1>3, <1>4, <1>5, <1>6

\* hammer abort-cleanup begins: the cleaners at work whose files are there.
LEMMA OpendirStep == ASSUME PidInv, NEW a \in Aborters, AbortOpendir(a) PROVE PidInv'
<1> USE Kinds DEF PidInv, PidType
<1>1. /\ ~Shared /\ pfPc' = [pfPc EXCEPT ![a] = "readdir"]
      /\ UNCHANGED <<pfName, pfDir, pfLock, pfFd, abName>>
      /\ DOMAIN abTodo' = Aborters /\ \A b \in Aborters \ {a} : abTodo'[b] = abTodo[b]
      /\ {p \in Cleaners : pfDir[p] # 0} \subseteq abTodo'[a]
      /\ abSteady' = [abSteady EXCEPT ![a] =
                        {p \in Cleaners : pfPc[p] = "work" /\ pfDir[p] = pfFd[p]}]
  BY DEF AbortOpendir, Goto
<1>2. PidType'
  BY <1>1
<1>3. SharedInv' /\ WorkInv'
  BY <1>1, SharedStays DEF SharedInv, WorkInv
<1>4. LockInv'
  BY <1>1 DEF LockInv
<1>5. SteadyInv'
  BY <1>1, SharedStays DEF SteadyInv, LockInv
<1> QED
  BY <1>2, <1>3, <1>4, <1>5

\* The next name: its file is opened, or is gone.
LEMMA ReaddirStep ==
  ASSUME PidInv, NEW a \in Aborters, NEW p \in Cleaners, AbortReaddir(a, p) PROVE PidInv'
<1> USE Kinds DEF PidInv, PidType
<1>1. /\ pfPc[a] = "readdir" /\ p \in abTodo[a]
      /\ abTodo' = [abTodo EXCEPT ![a] = @ \ {p}]
      /\ UNCHANGED <<pfName, pfDir, pfLock, abSteady>>
      /\ DOMAIN pfPc' = Procs /\ DOMAIN pfFd' = Procs /\ DOMAIN abName' = Aborters
      /\ \A q \in Procs \ {a} : pfPc'[q] = pfPc[q] /\ pfFd'[q] = pfFd[q]
      /\ \A b \in Aborters \ {a} : abName'[b] = abName[b]
  BY DEF AbortReaddir, Goto
<1>2. \/ pfDir[p] = 0 /\ UNCHANGED <<pfPc, pfFd, abName>>
      \/ pfPc'[a] = "try" /\ pfFd'[a] = pfDir[p] /\ abName'[a] = {p}
  BY DEF AbortReaddir, Goto
<1>3. ~Shared
  BY <1>1 DEF SharedInv
<1>4. PidType'
  BY <1>1
<1>5. SharedInv' /\ WorkInv'
  BY <1>1, <1>3, SharedStays DEF SharedInv, WorkInv
<1>6. LockInv'
  BY <1>1 DEF LockInv
<1>7. SteadyInv'
  <2>1. ASSUME NEW b \in Aborters, b # a
        PROVE  /\ pfPc'[b] = pfPc[b] /\ pfFd'[b] = pfFd[b] /\ abTodo'[b] = abTodo[b]
               /\ abName'[b] = abName[b]
    BY <1>1, <2>1
  <2>2. \A q \in Cleaners : pfPc'[q] = pfPc[q] /\ pfFd'[q] = pfFd[q]
    BY <1>1
  <2>3. p \in abSteady[a] => pfDir[p] # 0
    BY DEF SteadyInv, LockInv
  <2>4. /\ \A q, r \in abName'[a] : q = r
        /\ pfPc'[a] \in {"try", "kill", "unlock", "unlink"} => abName'[a] \cap abTodo'[a] = {}
        /\ pfPc'[a] # "done"
    <3>1. CASE UNCHANGED <<pfPc, abName>>
      BY <1>1, <3>1 DEF SteadyInv
    <3>2. CASE pfPc'[a] = "try" /\ abName'[a] = {p}
      BY <1>1, <3>2
    <3> QED
      BY <1>2, <3>1, <3>2
  <2>5. ASSUME NEW q \in abSteady[a]
        PROVE  /\ pfPc'[q] = "work" /\ pfDir'[q] = pfFd'[q]
               /\ \/ q \in abTodo'[a]
                  \/ /\ pfPc'[a] \in {"try", "kill"} /\ q \in abName'[a]
                     /\ pfPc'[a] = "try" => pfFd'[a] = pfDir'[q]
    BY <1>1, <1>2, <2>2, <2>3 DEF SteadyInv
  <2> QED
    BY <1>1, <1>3, <2>1, <2>2, <2>4, <2>5, SharedStays DEF SteadyInv
<1> QED
  BY <1>4, <1>5, <1>6, <1>7

\* The try for the lock: a cleaner at work has it.
LEMMA TryStep == ASSUME PidInv, NEW a \in Aborters, AbortTry(a) PROVE PidInv'
<1> USE Kinds DEF PidInv, PidType
<1>1. /\ pfPc[a] = "try"
      /\ pfLock' = [pfLock EXCEPT ![a] = IF Lockable(a) THEN pfFd[a] ELSE 0]
      /\ pfPc' = [pfPc EXCEPT ![a] = IF Lockable(a) THEN "unlock" ELSE "kill"]
      /\ UNCHANGED <<pfName, pfDir, pfFd, abTodo, abName, abSteady>>
  BY DEF AbortTry, Goto, TryOutcome
<1>2. ~Shared
  BY <1>1 DEF SharedInv
<1>3. PidType'
  BY <1>1
<1>4. SharedInv' /\ WorkInv'
  BY <1>1, <1>2, SharedStays DEF SharedInv, WorkInv
<1>5. LockInv'
  BY <1>1 DEF LockInv, Lockable
<1>6. SteadyInv'
  <2>1. ASSUME NEW p \in abSteady[a], p \notin abTodo[a] PROVE ~Lockable(a)
    <3>1. pfLock[p] = pfFd[a] /\ p \in Procs \ {a}
      BY <2>1, <1>1 DEF SteadyInv, LockInv
    <3> QED
      BY <3>1 DEF Lockable
  <2>2. /\ \A p \in Cleaners : pfPc'[p] = pfPc[p]
        /\ \A b \in Aborters : b # a => pfPc'[b] = pfPc[b]
        /\ pfPc'[a] = "unlock" \/ pfPc'[a] = "kill"
        /\ ~Lockable(a) => pfPc'[a] = "kill"
    BY <1>1
  <2>3. ASSUME NEW b \in Aborters, NEW p \in abSteady[b]
        PROVE  /\ pfPc'[p] = "work" /\ pfDir'[p] = pfFd'[p]
               /\ \/ p \in abTodo'[b]
                  \/ /\ pfPc'[b] \in {"try", "kill"} /\ p \in abName'[b]
                     /\ pfPc'[b] = "try" => pfFd'[b] = pfDir'[p]
    <3>1. /\ p \in Cleaners /\ pfPc[p] = "work" /\ pfDir[p] = pfFd[p]
          /\ \/ p \in abTodo[b]
             \/ /\ pfPc[b] \in {"try", "kill"} /\ p \in abName[b]
                /\ pfPc[b] = "try" => pfFd[b] = pfDir[p]
      BY Zenon DEF SteadyInv
    <3>2. CASE b = a
      <4>1. p \in abTodo[a] \/ (pfPc'[a] = "kill" /\ p \in abName[a])
        BY <2>1, <2>2, <3>1, <3>2, Zenon
      <4>2. "kill" # "try"
        OBVIOUS
      <4> QED
        BY <1>1, <2>2, <3>1, <3>2, <4>1, <4>2, Zenon
    <3>3. CASE b # a
      BY <1>1, <2>2, <3>1, <3>3, Zenon
    <3> QED
      BY <3>2, <3>3
  <2>4. ASSUME NEW b \in Aborters
        PROVE  /\ \A p, q \in abName'[b] : p = q
               /\ pfPc'[b] \in {"try", "kill", "unlock", "unlink"} => abName'[b] \cap abTodo'[b] = {}
               /\ abSteady'[b] # {} => ~Shared'
               /\ pfPc'[b] = "done" => abTodo'[b] = {}
    <3>1. /\ \A p, q \in abName[b] : p = q
          /\ pfPc[b] \in {"try", "kill", "unlock", "unlink"} => abName[b] \cap abTodo[b] = {}
          /\ pfPc[b] = "done" => abTodo[b] = {}
      BY Zenon DEF SteadyInv
    <3>2. pfPc[a] \in {"try", "kill", "unlock", "unlink"} /\ pfPc'[a] # "done"
      BY <1>1, <2>2
    <3>3. ~Shared'
      BY <1>1, <1>2, SharedStays
    <3> QED
      BY <1>1, <2>2, <3>1, <3>2, <3>3, Zenon
  <2> QED
    BY <1>1, <2>3, <2>4, Zenon DEF SteadyInv
<1> QED
  BY <1>3, <1>4, <1>5, <1>6

\* The signal ends the cleaner.
LEMMA KillStep ==
  ASSUME PidInv, NEW a \in Aborters, NEW p \in Cleaners, AbortKill(a, p) PROVE PidInv'
<1> USE Kinds DEF PidInv, PidType
<1>1. /\ pfPc[a] = "kill" /\ p \in abName[a]
      /\ pfPc' = [pfPc EXCEPT ![a] = "unlock", ![p] = "dead"]
      /\ pfFd' = [pfFd EXCEPT ![p] = 0] /\ pfLock' = [pfLock EXCEPT ![p] = 0]
      /\ abSteady' = [b \in Aborters |-> abSteady[b] \ {p}]
      /\ UNCHANGED <<pfName, pfDir, abTodo, abName>>
  BY DEF AbortKill, Unsteady
<1>2. ~Shared
  BY <1>1 DEF SharedInv
<1>3. PidType'
  BY <1>1
<1>4. SharedInv' /\ WorkInv'
  BY <1>1, <1>2, SharedStays DEF SharedInv, WorkInv
<1>5. LockInv'
  BY <1>1 DEF LockInv
<1>6. SteadyInv'
  BY <1>1, <1>2, SharedStays DEF SteadyInv
<1> QED
  BY <1>3, <1>4, <1>5, <1>6

\* The aborter closes the file.
LEMMA UnlockStep == ASSUME PidInv, NEW a \in Aborters, AbortUnlock(a) PROVE PidInv'
<1> USE Kinds DEF PidInv, PidType
<1>1. /\ pfPc[a] = "unlock" /\ pfPc' = [pfPc EXCEPT ![a] = "unlink"]
      /\ pfFd' = [pfFd EXCEPT ![a] = 0] /\ pfLock' = [pfLock EXCEPT ![a] = 0]
      /\ UNCHANGED <<pfName, pfDir, abTodo, abName, abSteady>>
  BY DEF AbortUnlock, Goto, CloseFd
<1>2. ~Shared
  BY <1>1 DEF SharedInv
<1>3. PidType'
  BY <1>1
<1>4. SharedInv' /\ WorkInv'
  BY <1>1, <1>2, SharedStays DEF SharedInv, WorkInv
<1>5. LockInv'
  BY <1>1 DEF LockInv
<1>6. SteadyInv'
  BY <1>1, <1>2, SharedStays, SMT, Z3, Zenon DEF SteadyInv
<1> QED
  BY <1>3, <1>4, <1>5, <1>6

\* The aborter unlinks the name.
LEMMA AbortUnlinkStep ==
  ASSUME PidInv, NEW a \in Aborters, NEW p \in Cleaners, AbortUnlink(a, p) PROVE PidInv'
<1> USE Kinds DEF PidInv, PidType
<1>1. /\ pfPc[a] = "unlink" /\ p \in abName[a]
      /\ pfPc' = [pfPc EXCEPT ![a] = "readdir"]
      /\ pfDir' = [pfDir EXCEPT ![p] = 0]
      /\ abName' = [abName EXCEPT ![a] = {}]
      /\ abSteady' = [b \in Aborters |-> abSteady[b] \ (IF b = a THEN {} ELSE {p})]
      /\ UNCHANGED <<pfName, pfLock, pfFd, abTodo>>
  BY DEF AbortUnlink, Goto
<1>2. ~Shared
  BY <1>1 DEF SharedInv
<1>3. PidType'
  BY <1>1
<1>4. SharedInv' /\ WorkInv'
  BY <1>1, <1>2, SharedStays DEF SharedInv, WorkInv
<1>5. LockInv'
  BY <1>1 DEF LockInv
<1>6. SteadyInv'
  <2>1. p \notin abSteady[a]
    BY <1>1 DEF SteadyInv
  <2>2. \A b \in Aborters : abSteady'[b] = abSteady[b] \ {p}
    BY <1>1, <2>1
  <2>3. ASSUME NEW b \in Aborters, NEW q \in abSteady'[b]
        PROVE  /\ pfPc'[q] = "work" /\ pfDir'[q] = pfFd'[q]
               /\ \/ q \in abTodo'[b]
                  \/ /\ pfPc'[b] \in {"try", "kill"} /\ q \in abName'[b]
                     /\ pfPc'[b] = "try" => pfFd'[b] = pfDir'[q]
    BY <1>1, <2>2 DEF SteadyInv
  <2> QED
    BY <1>1, <1>2, <2>2, <2>3, SharedStays, SMT, Z3, Zenon DEF SteadyInv
<1> QED
  BY <1>3, <1>4, <1>5, <1>6

\* The end of the directory.
LEMMA ClosedirStep == ASSUME PidInv, NEW a \in Aborters, AbortClosedir(a) PROVE PidInv'
<1> USE Kinds DEF PidInv, PidType
<1>1. /\ pfPc[a] = "readdir" /\ abTodo[a] = {} /\ pfPc' = [pfPc EXCEPT ![a] = "done"]
      /\ UNCHANGED <<pfName, pfDir, pfLock, pfFd, abTodo, abName, abSteady>>
  BY DEF AbortClosedir, Goto
<1>2. ~Shared
  BY <1>1 DEF SharedInv
<1>3. PidType'
  BY <1>1
<1>4. SharedInv' /\ WorkInv'
  BY <1>1, <1>2, SharedStays DEF SharedInv, WorkInv
<1>5. LockInv'
  BY <1>1 DEF LockInv
<1>6. SteadyInv'
  BY <1>1, <1>2, SharedStays, SMT, Z3, Zenon DEF SteadyInv
<1> QED
  BY <1>3, <1>4, <1>5, <1>6

\* Every step preserves the invariant.
LEMMA PidStep == PidInv /\ [PidNext]_pidVars => PidInv'
<1> SUFFICES ASSUME PidInv, [PidNext]_pidVars PROVE PidInv'
  OBVIOUS
<1>1. CASE UNCHANGED pidVars
  BY <1>1 DEF pidVars, PidInv, PidType, SharedInv, LockInv, WorkInv, SteadyInv, Shared
<1>2. CASE PidNext
  BY <1>1, <1>2, PidOpenStep, FlockStep, StatStep, UnlinkStep, CloseStep, DieStep, OpendirStep,
     ReaddirStep, TryStep, KillStep, UnlockStep, AbortUnlinkStep, ClosedirStep, Zenon
     DEF PidNext, PidEnded
<1> QED
  BY <1>1, <1>2

\* pidfile_open: of any number of processes that share a pid file, at most one
\* is past it.
THEOREM OneHolderThm == PidSpec => []OneHolder
<1>1. ASSUME PidInv PROVE OneHolder
  <2> SUFFICES ASSUME Shared, NEW p \in Cleaners, NEW q \in Cleaners,
                      pfPc[p] = "work", pfPc[q] = "work"
               PROVE  p = q
    BY DEF OneHolder
  <2>1. pfFd[p] = pfFd[q] /\ pfFd[p] # 0
    BY <1>1 DEF PidInv, SharedInv, WorkInv, LockInv
  <2> QED
    BY <1>1, <2>1, Kinds DEF PidInv, LockInv
<1>2. (\E shared \in BOOLEAN : PidInit(shared)) => PidInv
  BY PidInitial
<1> QED
  BY <1>1, <1>2, PidStep, PTL DEF PidSpec

\* hammer_cmd_abort_cleanup: the command signals every cleaner that was at work
\* when it read the directory and whose file stayed listed.
THEOREM AbortReachesThm == PidSpec => []AbortReaches
<1>1. PidInv => AbortReaches
  BY DEF PidInv, SteadyInv, AbortReaches
<1>2. (\E shared \in BOOLEAN : PidInit(shared)) => PidInv
  BY PidInitial
<1> QED
  BY <1>1, <1>2, PidStep, PTL DEF PidSpec

\* Pid files do what their users rely on: one holder of a shared file, and an
\* abort-cleanup that reaches the cleaners (flopen, pidfile_remove,
\* hammer_cmd_abort_cleanup).
THEOREM PidSafeThm == PidSpec => []PidSafe
<1>1. OneHolder /\ AbortReaches => PidSafe
  BY DEF PidSafe
<1> QED
  BY <1>1, OneHolderThm, AbortReachesThm, PTL

-----------------------------------------------------------------------------
(* ClusterVolconf.                                                         *)

VcType ==
  /\ vcCtl \subseteq {"stop", "update"} /\ vcOld \subseteq {"update"}
  /\ vcState \in {"stopped", "connect", "running"}
  /\ vcIocom \in {"none", "running", "ending", "ended"}
  /\ vcT \in {"none", "check", "clear", "tail", "wait", "stop", "join", "copy",
              "connect", "laststop", "lastjoin", "exited"}
  /\ vcM \in {"idle", "start", "signal", "stopsignal", "join", "freed"}

\* The connection's thread exists exactly while the state says so, and it is
\* stopped wherever the volume's thread has stopped it.
ConnInv ==
  /\ vcState = "running" <=> vcIocom # "none"
  /\ vcT \in {"copy", "connect", "none", "exited"} => vcState = "stopped"
  /\ vcT \in {"join", "lastjoin"} => vcState = "running"

\* The order to stop is there from CloseConn on, and the volume's thread ends
\* for nothing else.
StopInv ==
  /\ "stop" \in vcCtl \/ vcT \in {"laststop", "lastjoin", "exited"} =>
       vcM \in {"stopsignal", "join", "freed"}
  /\ vcM = "freed" => vcT \in {"none", "exited"}
  /\ vcT = "none" => vcM \in {"idle", "start", "freed"}

\* A configuration not in use is flagged, or the thread is on its way to it.
FlagInv ==
  vcRun # vcPend =>
    \/ "update" \in vcCtl
    \/ vcT \in {"clear", "stop", "join", "copy"}
    \/ vcM \in {"stopsignal", "join", "freed"}

VcInv == VcType /\ ConnInv /\ StopInv /\ FlagInv

\* The invariant holds before the first VOLCONF message.
LEMMA VcInitial == VolconfInit => VcInv
  BY DEF VolconfInit, VcInv, VcType, ConnInv, StopInv, FlagInv

\* Every step of the two threads, of the connection and of the peer preserves
\* the invariant.
LEMMA VcStep == VcInv /\ [VolconfNext]_vcVars => VcInv'
<1> SUFFICES ASSUME VcInv, [VolconfNext]_vcVars PROVE VcInv'
  OBVIOUS
<1> USE DEF VcInv, VcType, ConnInv, StopInv, FlagInv
<1>1. ASSUME NEW h, Volconf(h) PROVE VcInv'
  BY <1>1 DEF Volconf
<1>2. CASE StartThread
  BY <1>2 DEF StartThread
<1>3. CASE Signal
  BY <1>3 DEF Signal
<1>4. CASE CloseConn
  BY <1>4, Zenon DEF CloseConn
<1>5. CASE JoinThread
  BY <1>5 DEF JoinThread
<1>6. CASE CheckCtl
  BY <1>6 DEF CheckCtl
<1>7. CASE ClearUpdate
  BY <1>7 DEF ClearUpdate
<1>8. ASSUME NEW last \in BOOLEAN, StopConn(last) PROVE VcInv'
  BY <1>8 DEF StopConn, StopGoesTo
<1>9. ASSUME NEW last \in BOOLEAN, JoinConn(last) PROVE VcInv'
  BY <1>9 DEF JoinConn
<1>10. CASE CopyPend
  BY <1>10 DEF CopyPend
<1>11. CASE Connect1
  BY <1>11 DEF Connect1, StartConn
<1>12. CASE TailOfLoop
  BY <1>12 DEF TailOfLoop, StartConn
<1>13. CASE IocomEnds
  BY <1>13 DEF IocomEnds
<1>14. CASE IocomFails
  BY <1>14 DEF IocomFails
<1>15. CASE UNCHANGED vcVars
  BY <1>15 DEF vcVars
<1> QED
  BY <1>1, <1>2, <1>3, <1>4, <1>5, <1>6, <1>7, <1>8, <1>9, <1>10, <1>11, <1>12, <1>13, Zenon,
     <1>14, <1>15 DEF VolconfNext, VolThread, MsgThread, VolconfEnded

\* When hammer2_usrmsg_handler frees a volume's configuration, the volume's
\* thread and its connection are gone.
THEOREM FreedAloneThm == VolconfSpec => []FreedAlone
<1>1. VcInv => FreedAlone
  BY DEF VcInv, VcType, ConnInv, StopInv, FreedAlone
<1> QED
  BY VcInitial, VcStep, <1>1, PTL DEF VolconfSpec

\* A configuration that has not been put to use when hammer2_volconf_thread
\* waits is still flagged for the next signal.
THEOREM PendingFlaggedThm == VolconfSpec => []PendingFlagged
<1>1. VcInv => PendingFlagged
  BY DEF VcInv, FlagInv, PendingFlagged
<1> QED
  BY VcInitial, VcStep, <1>1, PTL DEF VolconfSpec

\* hammer2_volconf_start never runs while the thread of an earlier connection
\* of the volume has not been joined.
THEOREM OneConnectionThm == VolconfSpec => OneConnection
<1> DEFINE Step == vcIocom' = "running" =>
                     vcIocom \in {"none", "running"}
                     /\ (vcIocom = "running" => vcState = "running")
<1>1. VcInv /\ [VolconfNext]_vcVars => [Step]_vcVars
  <2> SUFFICES ASSUME VcInv, VolconfNext PROVE Step
    OBVIOUS
  <2> USE DEF VcInv, VcType, ConnInv
  <2>1. CASE TailOfLoop
    BY <2>1 DEF TailOfLoop, StartConn
  <2>2. CASE Connect1
    BY <2>2 DEF Connect1, StartConn
  <2>3. ASSUME NEW last \in BOOLEAN, StopConn(last) PROVE Step
    BY <2>3 DEF StopConn, StopGoesTo
  <2>4. ASSUME NEW last \in BOOLEAN, JoinConn(last) PROVE Step
    BY <2>4 DEF JoinConn
  <2>5. CASE UNCHANGED vcIocom
    BY <2>5
  <2>6. CASE IocomEnds \/ IocomFails
    BY <2>6 DEF IocomEnds, IocomFails
  <2> QED
    BY <2>1, <2>2, <2>3, <2>4, <2>5, <2>6
       DEF VolconfNext, VolThread, MsgThread, VolconfEnded, vcVars, Volconf, StartThread,
           Signal, CloseConn, JoinThread, CheckCtl, ClearUpdate, CopyPend
<1>2. OneConnection <=> [][Step]_vcVars
  BY DEF OneConnection
<1> QED
  BY VcInitial, VcStep, <1>1, <1>2, PTL DEF VolconfSpec

\* The threads of a volume's configuration never get in each other's way
\* (hammer2_volconf_thread, hammer2_volconf_start and _stop).
THEOREM VolconfSafeThm == VolconfSpec => VolconfSafe
  BY FreedAloneThm, PendingFlaggedThm, OneConnectionThm, PTL DEF VolconfSafe

-----------------------------------------------------------------------------
(* ClusterAutoconn.                                                        *)

Entries == [stage : BOOLEAN, state : {"INACTIVE", "ACTIVE"}, stopme : BOOLEAN]

AcType ==
  /\ file \in [there : BOOLEAN, ino : {1, 2}, hosts : SUBSET Hosts, mtime : Nat]
  /\ fp \in [ino : {0, 1, 2}, hosts : SUBSET Hosts, mtime : Nat]
  /\ clock \in Nat \ {0} /\ stamp \in Nat /\ lmod \in Nat
  /\ unread \subseteq Hosts /\ apc \in {"poll", "open", "scan"}
  /\ versions \in [0 .. MaxClock -> SUBSET Hosts]
  /\ DOMAIN autolist \subseteq Hosts /\ \A h \in DOMAIN autolist : autolist[h] \in Entries

\* The file is as it was left in the second of its mtime, and seconds that are
\* over stay as they are.
FileInv ==
  /\ file.mtime <= clock /\ file.mtime <= MaxClock /\ file.hosts = versions[file.mtime]
  /\ versions[0] = {} /\ lmod < clock /\ lmod <= MaxClock

StagedNow == {h \in DOMAIN autolist : autolist[h].stage}

\* A scan whose file has not changed has staged the lines it has read, and
\* they are those of the second of the stamp.
ScanInv ==
  apc = "scan" =>
    /\ stamp < clock /\ stamp <= MaxClock
    /\ fp.ino = 0 => stamp = 0 /\ fp.hosts = {}
    /\ ~Changed => fp.hosts = versions[stamp] /\ StagedNow = fp.hosts \ unread

\* The stamp of a file that is about to be opened is not in the future.
OpenInv == apc = "open" => stamp <= clock /\ stamp <= MaxClock

AcInv == AcType /\ FileInv /\ OpenInv /\ ScanInv /\ ScanIsFile

\* The invariant holds before the service looks for the file.
LEMMA AcInitial == AutoconnInit => AcInv
  BY AutoconnAssumption
     DEF AutoconnInit, AcInv, AcType, FileInv, OpenInv, ScanInv, ScanIsFile, NoFile, Changed

\* The file is edited, also under a scan that has it open: a scan of a file
\* that was edited will be found changed.
LEMMA PutStep == ASSUME AcInv, NEW hs \in SUBSET Hosts, Put(hs) PROVE AcInv'
<1> USE AutoconnAssumption DEF AcInv, AcType
<1> DEFINE ino == IF file.there THEN file.ino ELSE CHOOSE i \in {1, 2} : i # fp.ino
<1>1. ino \in {1, 2}
  <2>1. \E i \in {1, 2} : i # fp.ino
    OBVIOUS
  <2> QED
    BY <2>1
<1> HIDE DEF ino
<1>2. /\ clock < MaxClock
      /\ file' = [there |-> TRUE, ino |-> ino, hosts |-> hs, mtime |-> clock]
      /\ fp' = IF fp.ino = ino THEN [fp EXCEPT !.hosts = hs, !.mtime = clock] ELSE fp
      /\ versions' = [versions EXCEPT ![clock] = hs]
      /\ UNCHANGED <<clock, apc, unread, stamp, lmod, autolist, staged>>
  BY DEF Put, ino
<1>3. \A t \in 0 .. MaxClock : t < clock => versions'[t] = versions[t]
  BY <1>2
<1>4. versions'[clock] = hs
  BY <1>2
<1>5. AcType'
  BY <1>1, <1>2, Zenon
<1>6. FileInv'
  BY <1>2, <1>3, <1>4 DEF FileInv
<1>7. ScanIsFile' /\ OpenInv'
  BY <1>2, <1>3 DEF ScanIsFile, FileInv, OpenInv
<1>8. ScanInv'
  <2> SUFFICES ASSUME apc = "scan" PROVE ScanInv'
    BY <1>2 DEF ScanInv
  <2>1. stamp < clock /\ stamp \in 0 .. MaxClock /\ versions'[stamp] = versions[stamp]
    BY <1>3 DEF ScanInv
  <2>2. CASE fp.ino = ino
    BY <1>1, <1>2, <2>1, <2>2 DEF ScanInv, Changed
  <2>3. CASE fp.ino # ino
    <3>1. fp' = fp /\ Changed' = Changed /\ StagedNow' = StagedNow
      BY <1>2, <2>3 DEF Changed, StagedNow
    <3> QED
      BY <1>2, <2>1, <3>1, Zenon DEF ScanInv
  <2> QED
    BY <2>2, <2>3
<1> QED
  BY <1>5, <1>6, <1>7, <1>8

\* Clearing the mark of a host leaves an unmarked host.
LEMMA UnstageEntry ==
  ASSUME NEW e \in Entries
  PROVE  [e EXCEPT !.stage = FALSE] \in Entries /\ ~[e EXCEPT !.stage = FALSE].stage
<1>1. [e EXCEPT !.stage = FALSE] \in Entries
  BY Zenon DEF Entries
<1>2. ~[e EXCEPT !.stage = FALSE].stage
  BY DEF Entries
<1> QED
  BY <1>1, <1>2

\* A scan starts without staged hosts, on a file that is as the stamp says or
\* will be found changed.
LEMMA ScanStarts ==
  ASSUME AcInv, NEW f \in [ino : {0, 1, 2}, hosts : SUBSET Hosts, mtime : Nat],
         NEW t \in Nat, t < clock, t <= MaxClock, ScanFile(f, t),
         f = NoFile => t = 0, f.ino = 0 => f = NoFile, f.mtime = t => f.hosts = versions[t],
         UNCHANGED <<file, clock, lmod, staged, versions>>
  PROVE  AcInv'
<1> USE AutoconnAssumption DEF AcInv, AcType
<1>1. /\ fp' = f /\ stamp' = t /\ apc' = "scan" /\ autolist' = Unstaged
      /\ unread' = IF f = NoFile THEN {} ELSE Hosts
  BY DEF ScanFile
<1>2. DOMAIN autolist' = DOMAIN autolist
      /\ \A h \in DOMAIN autolist : autolist'[h] \in Entries /\ ~autolist'[h].stage
  BY <1>1, UnstageEntry, Zenon DEF Unstaged
<1>3. StagedNow' = {}
  BY <1>2 DEF StagedNow
<1>4. AcType'
  BY <1>1, <1>2
<1>5. FileInv' /\ ScanIsFile' /\ OpenInv'
  BY <1>1 DEF FileInv, ScanIsFile, OpenInv
<1>6. f.hosts \ unread' = {} /\ (f.ino = 0 => t = 0 /\ f.hosts = {})
  BY <1>1 DEF NoFile
<1>7. ~Changed' => f.hosts = versions[t]
  <2>1. CASE f.ino = 0
    BY <2>1 DEF NoFile, FileInv
  <2>2. CASE f.ino # 0
    BY <1>1, <2>2 DEF Changed
  <2> QED
    BY <2>1, <2>2
<1> QED
  BY <1>1, <1>3, <1>4, <1>5, <1>6, <1>7 DEF ScanInv

\* stat finds the file or not.
LEMMA PollStep == ASSUME AcInv, Poll PROVE AcInv'
<1> USE AutoconnAssumption DEF AcInv, AcType
<1>0. apc = "poll" /\ UNCHANGED <<file, clock, lmod, staged, versions>>
  BY DEF Poll
<1>1. CASE file.there
  <2>1. stamp' = file.mtime /\ apc' = "open" /\ UNCHANGED <<fp, unread, autolist>>
    BY <1>1 DEF Poll
  <2> QED
    BY <1>0, <2>1 DEF FileInv, OpenInv, ScanInv, ScanIsFile
<1>2. CASE ~file.there /\ foundLast
  <2>1. UNCHANGED <<apc, fp, unread, stamp, autolist>>
    BY <1>2 DEF Poll
  <2> QED
    BY <1>0, <2>1 DEF FileInv, OpenInv, ScanInv, ScanIsFile
<1>3. CASE ~file.there /\ ~foundLast
  <2>1. ScanFile(NoFile, 0)
    BY <1>3 DEF Poll
  <2>2. /\ NoFile \in [ino : {0, 1, 2}, hosts : SUBSET Hosts, mtime : Nat]
        /\ NoFile.hosts = versions[0]
    BY DEF NoFile, FileInv
  <2> QED
    BY <1>0, <2>1, <2>2, ScanStarts
<1> QED
  BY <1>1, <1>2, <1>3

\* fopen, of whatever file is there by now.
LEMMA OpenStep == ASSUME AcInv, OpenHosts PROVE AcInv'
<1> USE AutoconnAssumption DEF AcInv, AcType
<1>0. apc = "open" /\ UNCHANGED <<file, clock, lmod, staged, versions>>
  BY DEF OpenHosts
<1>1. CASE file.there /\ foundLast /\ clock # stamp
  <2> DEFINE f == [ino |-> file.ino, hosts |-> file.hosts, mtime |-> file.mtime]
  <2>1. ScanFile(f, stamp)
    BY <1>1 DEF OpenHosts
  <2>2. /\ f \in [ino : {0, 1, 2}, hosts : SUBSET Hosts, mtime : Nat]
        /\ f.ino # 0 /\ f # NoFile /\ (f.mtime = stamp => f.hosts = versions[stamp])
    BY DEF NoFile, FileInv
  <2>3. stamp \in Nat /\ stamp < clock /\ stamp <= MaxClock
    BY <1>0, <1>1 DEF OpenInv
  <2> HIDE DEF f
  <2> QED
    BY <1>0, <2>1, <2>2, <2>3, ScanStarts
<1>2. CASE ~(file.there /\ foundLast /\ clock # stamp)
  <2>1. apc' = "poll" /\ stamp' = 0 /\ UNCHANGED <<fp, unread, autolist>>
    BY <1>2 DEF OpenHosts
  <2> QED
    BY <1>0, <2>1 DEF FileInv, OpenInv, ScanInv, ScanIsFile
<1> QED
  BY <1>1, <1>2

\* A line is read, and its host staged.
LEMMA LineStep == ASSUME AcInv, NEW h \in Hosts, ReadLine(h) PROVE AcInv'
<1> USE DEF AcInv, AcType
<1>1. /\ apc = "scan" /\ h \in unread /\ unread' = unread \ {h}
      /\ UNCHANGED <<file, clock, apc, fp, stamp, lmod, staged, versions>>
  BY DEF ReadLine
<1>2. /\ DOMAIN autolist' \subseteq Hosts /\ \A k \in DOMAIN autolist' : autolist'[k] \in Entries
      /\ StagedNow' = StagedNow \cup ({h} \cap fp.hosts)
  <2>1. CASE h \notin fp.hosts
    BY <2>1 DEF ReadLine, StagedNow
  <2>2. CASE h \in fp.hosts
    <3>1. /\ DOMAIN autolist' = DOMAIN autolist \cup {h}
          /\ \A k \in DOMAIN autolist : k # h => autolist'[k] = autolist[k]
          /\ autolist'[h] \in Entries /\ autolist'[h].stage
      BY <2>2, Zenon DEF ReadLine, Entries
    <3> QED
      BY <2>2, <3>1 DEF StagedNow
  <2> QED
    BY <2>1, <2>2
<1>3. AcType'
  BY <1>1, <1>2
<1>4. FileInv' /\ ScanIsFile' /\ OpenInv'
  BY <1>1 DEF FileInv, ScanIsFile, OpenInv
<1>5. Changed' = Changed
  BY <1>1 DEF Changed
<1>6. ScanInv'
  BY <1>1, <1>2, <1>5, Zenon DEF ScanInv
<1> QED
  BY <1>3, <1>4, <1>6

\* The end of a scan: thrown away if the file changed, else taken.
LEMMA DoneStep == ASSUME AcInv, ScanDone PROVE AcInv'
<1> USE AutoconnAssumption DEF AcInv, AcType
<1>1. /\ apc = "scan" /\ unread = {} /\ apc' = "poll" /\ fp' = NoFile /\ stamp' = 0
      /\ UNCHANGED <<file, clock, unread, versions>>
  BY Zenon DEF ScanDone
<1>2. ScanInv' /\ OpenInv'
  BY <1>1, Zenon DEF ScanInv, OpenInv
<1>3. CASE Changed
  <2>1. UNCHANGED <<lmod, autolist, staged>>
    BY <1>3 DEF ScanDone
  <2> QED
    BY <1>1, <1>2, <2>1, Zenon DEF FileInv, ScanIsFile, NoFile
<1>4. CASE ~Changed
  <2>1. lmod' = stamp /\ staged' = StagedNow
    BY <1>4, Zenon DEF ScanDone, StagedNow
  <2>2. DOMAIN autolist' \subseteq Hosts /\ \A h \in DOMAIN autolist' : autolist'[h] \in Entries
    <3>1. /\ DOMAIN autolist' \subseteq DOMAIN autolist
          /\ \A h \in DOMAIN autolist' :
               \/ autolist'[h] = [autolist[h] EXCEPT !.state = "ACTIVE", !.stopme = FALSE]
               \/ autolist'[h] = [autolist[h] EXCEPT !.stopme = TRUE]
               \/ autolist'[h] = autolist[h]
      BY <1>4, ZenonT(60) DEF ScanDone
    <3>2. ASSUME NEW e \in Entries
          PROVE  /\ [e EXCEPT !.state = "ACTIVE", !.stopme = FALSE] \in Entries
                 /\ [e EXCEPT !.stopme = TRUE] \in Entries
      BY Zenon DEF Entries
    <3>3. \A h \in DOMAIN autolist : h \in Hosts /\ autolist[h] \in Entries
      OBVIOUS
    <3> QED
      BY <3>1, <3>2, <3>3, Zenon
  <2>3. AcType'
    BY <1>1, <2>1, <2>2 DEF NoFile
  <2>4. FileInv'
    BY <1>1, <2>1 DEF FileInv, ScanInv
  <2>5. ScanIsFile'
    BY <1>1, <1>4, <2>1 DEF ScanIsFile, ScanInv
  <2> QED
    BY <1>2, <2>3, <2>4, <2>5, Zenon
<1> QED
  BY <1>3, <1>4, Zenon

\* A connection's thread goes on, or ends for good: of the list only the state
\* of its entry changes.
LEMMA TestStep == ASSUME AcInv, NEW h \in Hosts, TestStopme(h) PROVE AcInv'
<1> USE DEF AcInv, AcType
<1>1. UNCHANGED <<file, clock, apc, fp, unread, stamp, lmod, staged, versions>>
  BY DEF TestStopme, hostRest
<1>2. /\ DOMAIN autolist' = DOMAIN autolist
      /\ \A k \in DOMAIN autolist : autolist'[k] \in Entries /\ autolist'[k].stage = autolist[k].stage
  BY DEF TestStopme, Entries
<1>3. StagedNow' = StagedNow /\ Changed' = Changed
  BY <1>1, <1>2 DEF StagedNow, Changed
<1> QED
  BY <1>1, <1>2, <1>3, Zenon DEF FileInv, OpenInv, ScanInv, ScanIsFile

\* Every step preserves the invariant; the others change nothing it is about
\* but the clock.
LEMMA AcStep == AcInv /\ [AutoconnNext]_autoconnVars => AcInv'
<1> SUFFICES ASSUME AcInv, [AutoconnNext]_autoconnVars PROVE AcInv'
  OBVIOUS
<1>1. CASE Tick
  <2>1. /\ clock' = clock + 1
        /\ UNCHANGED <<file, apc, fp, unread, stamp, lmod, autolist, staged, versions>>
    BY <1>1 DEF Tick
  <2>2. Changed' = Changed /\ StagedNow' = StagedNow
    BY <2>1 DEF Changed, StagedNow
  <2> QED
    BY <2>1, <2>2, AutoconnAssumption DEF AcInv, AcType, FileInv, OpenInv, ScanInv, ScanIsFile
<1>2. CASE Remove
  <2>1. /\ file' = [file EXCEPT !.there = FALSE]
        /\ UNCHANGED <<clock, apc, fp, unread, stamp, lmod, autolist, staged, versions>>
    BY <1>2 DEF Remove
  <2>2. Changed' = Changed /\ StagedNow' = StagedNow
    BY <2>1 DEF Changed, StagedNow
  <2> QED
    BY <2>1, <2>2, Zenon DEF AcInv, AcType, FileInv, OpenInv, ScanInv, ScanIsFile
<1>3. ASSUME UNCHANGED <<file, clock, apc, fp, unread, stamp, lmod, autolist, staged, versions>>
      PROVE  AcInv'
  <2>1. Changed' = Changed /\ StagedNow' = StagedNow
    BY <1>3 DEF Changed, StagedNow
  <2> QED
    BY <1>3, <2>1 DEF AcInv, AcType, FileInv, OpenInv, ScanInv, ScanIsFile
<1>4. CASE UNCHANGED autoconnVars
  BY <1>3, <1>4 DEF autoconnVars
<1>5. ASSUME NEW h \in Hosts, Connect(h) \/ ServiceEnds(h) \/ HandshakeFails(h) \/ Lost(h)
      PROVE  AcInv'
  BY <1>3, <1>5 DEF Connect, ServiceEnds, HandshakeFails, Lost, hostRest
<1> QED
  BY <1>1, <1>2, <1>4, <1>5, PutStep, PollStep, OpenStep, LineStep, DoneStep, TestStep
     DEF AutoconnNext, AutoconnStep, HostStep

\* autoconn_thread: whatever is edited while it reads, the hosts that are
\* connected to are the ones the file listed at the end of the second of the
\* mtime that counts as synchronised.
THEOREM ScanIsFileThm == AutoconnSpec => []ScanIsFile
<1>1. AcInv => ScanIsFile
  BY DEF AcInv
<1> QED
  BY AcInitial, AcStep, <1>1, PTL DEF AutoconnSpec

-----------------------------------------------------------------------------
(* DmsgCrypto.                                                             *)

\* What can be on its way to s: a piece of the other end's handshake, or of its
\* ordinary messages.
Sent(s) == {Piece(OtherEnd(s)), Junk}

PcType ==
  /\ hcCfg \in [Ends -> Configs]
  /\ hcPc \in [Ends -> {"start", "plain", "failed", "idle", "write", "read", "crypted"}]

WireType ==
  /\ DOMAIN hcWire = Ends /\ DOMAIN hcGot = Ends
  /\ \A s \in Ends : hcWire[s] \in Seq(Sent(s)) /\ hcGot[s] \in Seq(Sent(s))

\* An end that encrypts has the keys of a peer that has its own.
KeyInv ==
  /\ DOMAIN hcRx = Ends /\ DOMAIN hcTx = Ends
  /\ \A s \in Ends :
       /\ hcPc[s] = "plain" => hcCfg[s] = "none"
       /\ hcPc[s] = "crypted" =>
            hcRx[s] = OtherEnd(s) /\ hcTx[s] = s /\ hcCfg[OtherEnd(s)] = "pub"

HcInv == PcType /\ WireType /\ KeyInv

\* The other end of the other end is the end itself.
LEMMA TwoEnds ==
  \A s \in Ends : OtherEnd(s) \in Ends /\ OtherEnd(OtherEnd(s)) = s /\ s # OtherEnd(s)
  BY DEF Ends, OtherEnd

\* A handshake has at least one piece.
LEMMA SomeUnits == HandUnits \in Nat /\ HandUnits >= 1
<1>1. HandBlocks \in Nat /\ BlockUnits \in Nat /\ HandBlocks >= 1 /\ BlockUnits >= 1
  BY CryptoAssumption
<1> QED
  BY <1>1 DEF HandUnits

\* The handshake of an end is a sequence of its pieces.
LEMMA HandPiecesType == ASSUME NEW s \in Ends PROVE HandPieces(s) \in Seq(Sent(OtherEnd(s)))
<1>1. Piece(s) \in Sent(OtherEnd(s))
  BY TwoEnds DEF Sent
<1>2. HandPieces(s) \in [1 .. HandUnits -> Sent(OtherEnd(s))] /\ HandUnits \in Nat
  BY <1>1, SomeUnits DEF HandPieces
<1> QED
  BY <1>2

\* Nothing has been written at the start.
LEMMA HcInitial == ASSUME NEW cfg \in [Ends -> Configs], HandshakeInit(cfg) PROVE HcInv
  BY DEF HandshakeInit, HcInv, PcType, WireType, KeyInv, Ends

\* What two sequences of the same kind make is a sequence of that kind.
LEMMA Joined == ASSUME NEW S, NEW w \in Seq(S), NEW g \in Seq(S) PROVE g \o w \in Seq(S)
  OBVIOUS

\* So is a sequence with one more piece.
LEMMA Added == ASSUME NEW S, NEW w \in Seq(S), NEW p \in S PROVE Append(w, p) \in Seq(S)
  OBVIOUS

\* A piece of a sequence is of its kind.
LEMMA PieceOf == ASSUME NEW S, NEW w \in Seq(S), NEW n \in 1 .. Len(w) PROVE w[n] \in S
  OBVIOUS

\* Taking the first pieces of a sequence leaves two sequences of the same kind.
LEMMA Cut ==
  ASSUME NEW S, NEW w \in Seq(S), NEW g \in Seq(S), NEW n \in 1 .. Len(w)
  PROVE  g \o SubSeq(w, 1, n) \in Seq(S) /\ SubSeq(w, n + 1, Len(w)) \in Seq(S)
<1>1. SubSeq(w, 1, n) \in Seq(S)
  OBVIOUS
<1>2. SubSeq(w, n + 1, Len(w)) \in Seq(S)
  OBVIOUS
<1> QED
  BY <1>1, <1>2, Joined, Zenon

\* What verifies was written by the other end, with the right keys.
LEMMA VerifiedMeans ==
  ASSUME WireType, NEW s \in Ends, Len(hcGot[s]) = HandUnits, Verified(s)
  PROVE  hcGot[s][1].sess = OtherEnd(s) /\ hcCfg[OtherEnd(s)] = "pub"
<1>1. 1 \in 1 .. HandUnits
  BY SomeUnits
<1>2. hcGot[s][1].key = "good" /\ hcGot[s][1].sess # "none"
  BY <1>1, Zenon DEF Verified
<1>3. hcGot[s][1] \in Sent(s)
  BY <1>1, PieceOf, Zenon DEF WireType
<1>4. hcGot[s][1] = Piece(OtherEnd(s))
  <2>1. Junk.key = "bad"
    BY Zenon DEF Junk
  <2>2. hcGot[s][1] # Junk
    BY <1>2, <2>1, Zenon
  <2> QED
    BY <1>3, <2>2, Zenon DEF Sent
<1>5. /\ Piece(OtherEnd(s)).sess = OtherEnd(s)
      /\ Piece(OtherEnd(s)).key = "good" => hcCfg[OtherEnd(s)] = "pub"
  BY DEF Piece
<1> QED
  BY ONLY <1>2, <1>4, <1>5

\* The pieces of an end depend on its files only.
LEMMA SentStays == ASSUME UNCHANGED hcCfg, NEW s \in Ends PROVE Sent(s)' = Sent(s)
  BY Zenon DEF Sent, Piece, Junk

\* A step that writes and reads nothing leaves what is on the wire.
LEMMA WireStays == ASSUME WireType, UNCHANGED <<hcCfg, hcWire, hcGot>> PROVE WireType'
<1>1. \A s \in Ends : Sent(s)' = Sent(s)
  BY SentStays
<1> QED
  BY <1>1 DEF WireType

\* A step that changes neither an end's place nor its keys leaves the keys.
LEMMA KeysStay == ASSUME KeyInv, UNCHANGED <<hcCfg, hcPc, hcRx, hcTx>> PROVE KeyInv'
<1>1. DOMAIN hcRx' = Ends /\ DOMAIN hcTx' = Ends
  BY DEF KeyInv
<1>2. ASSUME NEW s \in Ends
      PROVE  /\ hcPc'[s] = "plain" => hcCfg'[s] = "none"
             /\ hcPc'[s] = "crypted" =>
                  hcRx'[s] = OtherEnd(s) /\ hcTx'[s] = s /\ hcCfg'[OtherEnd(s)] = "pub"
  BY Zenon DEF KeyInv
<1> QED
  BY ONLY <1>1, <1>2 DEF KeyInv

\* An end that goes on without keys is bound by nothing but its .none file.
LEMMA KeysGoOn ==
  ASSUME KeyInv, PcType, NEW s \in Ends, NEW pc, hcPc' = [hcPc EXCEPT ![s] = pc],
         pc # "crypted", pc = "plain" => hcCfg[s] = "none",
         UNCHANGED <<hcCfg, hcRx, hcTx>>
  PROVE  KeyInv'
<1>1. ASSUME NEW t \in Ends, t # s PROVE hcPc'[t] = hcPc[t]
  BY <1>1 DEF PcType
<1>2. hcPc'[s] = pc
  BY DEF PcType
<1> QED
  BY <1>1, <1>2 DEF KeyInv

\* Every step of either end preserves the invariant.
LEMMA HcStep == HcInv /\ [HandshakeNext]_hcVars => HcInv'
<1> SUFFICES ASSUME PcType, WireType, KeyInv, [HandshakeNext]_hcVars
             PROVE  PcType' /\ WireType' /\ KeyInv'
  BY DEF HcInv
<1>1. ASSUME NEW s \in Ends, Choose(s) PROVE PcType' /\ WireType' /\ KeyInv'
  <2> DEFINE pc == CASE hcCfg[s] = "none" -> "plain" [] hcCfg[s] = "broken" -> "failed"
                     [] hcCfg[s] = "silent" -> "idle" [] OTHER -> "write"
  <2>1. hcPc' = [hcPc EXCEPT ![s] = pc] /\ UNCHANGED <<hcCfg, hcWire, hcGot, hcRx, hcTx>>
    BY <1>1 DEF Choose
  <2>2. hcCfg[s] \in Configs
    BY DEF PcType
  <2>3. /\ pc \in {"plain", "failed", "idle", "write"}
        /\ pc = "plain" => hcCfg[s] = "none"
    BY ONLY <2>2 DEF Configs
  <2> HIDE DEF pc
  <2>4. PcType'
    BY <2>1, <2>3 DEF PcType
  <2>5. KeyInv'
    BY <2>1, <2>3, KeysGoOn, Zenon
  <2> QED
    BY <2>1, <2>4, <2>5, WireStays
<1>2. ASSUME NEW s \in Ends, WriteHandshake(s) PROVE PcType' /\ WireType' /\ KeyInv'
  <2>1. /\ hcWire' = [hcWire EXCEPT ![OtherEnd(s)] = @ \o HandPieces(s)]
        /\ hcPc' = [hcPc EXCEPT ![s] = "read"]
        /\ UNCHANGED <<hcCfg, hcGot, hcRx, hcTx>>
    BY <1>2 DEF WriteHandshake
  <2>2. hcWire[OtherEnd(s)] \o HandPieces(s) \in Seq(Sent(OtherEnd(s)))
    BY HandPiecesType, TwoEnds, Joined, Zenon DEF WireType
  <2>3. \A t \in Ends : hcWire'[t] \in Seq(Sent(t))
    BY <2>1, <2>2, TwoEnds DEF WireType
  <2>4. WireType'
    BY <2>1, <2>3, SentStays DEF WireType
  <2>5. KeyInv'
    BY <2>1, KeysGoOn, Zenon
  <2>6. PcType'
    BY <2>1 DEF PcType
  <2> QED
    BY <2>4, <2>5, <2>6
<1>3. ASSUME NEW s \in Ends, NEW n \in 1 .. BlockUnits, ReadHandshake(s, n)
      PROVE  PcType' /\ WireType' /\ KeyInv'
  <2>1. /\ n \in 1 .. Len(hcWire[s])
        /\ hcGot' = [hcGot EXCEPT ![s] = @ \o SubSeq(hcWire[s], 1, n)]
        /\ hcWire' = [hcWire EXCEPT ![s] = SubSeq(@, n + 1, Len(@))]
        /\ UNCHANGED <<hcCfg, hcPc, hcRx, hcTx>>
    BY <1>3 DEF ReadHandshake
  <2>2. /\ hcGot[s] \o SubSeq(hcWire[s], 1, n) \in Seq(Sent(s))
        /\ SubSeq(hcWire[s], n + 1, Len(hcWire[s])) \in Seq(Sent(s))
    BY <2>1, Cut DEF WireType
  <2>3. \A t \in Ends : hcWire'[t] \in Seq(Sent(t)) /\ hcGot'[t] \in Seq(Sent(t))
    BY <2>1, <2>2 DEF WireType
  <2>4. WireType'
    BY <2>1, <2>3, SentStays DEF WireType
  <2>5. PcType'
    BY <2>1 DEF PcType
  <2> QED
    BY <2>1, <2>4, <2>5, KeysStay
<1>4. ASSUME NEW s \in Ends, Validate(s) PROVE PcType' /\ WireType' /\ KeyInv'
  <2>1. UNCHANGED <<hcCfg, hcWire, hcGot>> /\ Len(hcGot[s]) = HandUnits
    BY <1>4 DEF Validate
  <2>2. CASE Verified(s)
    <3>1. /\ hcRx' = [hcRx EXCEPT ![s] = hcGot[s][1].sess]
          /\ hcTx' = [hcTx EXCEPT ![s] = s]
          /\ hcPc' = [hcPc EXCEPT ![s] = "crypted"]
      BY <1>4, <2>2 DEF Validate, Session
    <3>2. hcGot[s][1].sess = OtherEnd(s) /\ hcCfg[OtherEnd(s)] = "pub"
      BY <2>1, <2>2, VerifiedMeans
    <3>3. PcType'
      BY <2>1, <3>1 DEF PcType
    <3>4. ASSUME NEW t \in Ends, t # s
          PROVE  hcPc'[t] = hcPc[t] /\ hcRx'[t] = hcRx[t] /\ hcTx'[t] = hcTx[t]
      BY <3>1, <3>4 DEF PcType, KeyInv
    <3>5. /\ hcPc'[s] = "crypted" /\ hcRx'[s] = OtherEnd(s) /\ hcTx'[s] = s
          /\ DOMAIN hcRx' = Ends /\ DOMAIN hcTx' = Ends
      BY <3>1, <3>2 DEF PcType, KeyInv
    <3>6. KeyInv'
      <4>1. ASSUME NEW t \in Ends
            PROVE  /\ hcPc'[t] = "plain" => hcCfg'[t] = "none"
                   /\ hcPc'[t] = "crypted" =>
                        hcRx'[t] = OtherEnd(t) /\ hcTx'[t] = t /\ hcCfg'[OtherEnd(t)] = "pub"
        <5>1. CASE t = s
          BY <2>1, <3>2, <3>5, <5>1, Zenon
        <5>2. CASE t # s
          <6>1. /\ hcPc'[t] = hcPc[t] /\ hcRx'[t] = hcRx[t] /\ hcTx'[t] = hcTx[t]
                /\ hcCfg' = hcCfg
            BY <2>1, <3>4, <5>2, Zenon
          <6>2. /\ hcPc[t] = "plain" => hcCfg[t] = "none"
                /\ hcPc[t] = "crypted" =>
                     hcRx[t] = OtherEnd(t) /\ hcTx[t] = t /\ hcCfg[OtherEnd(t)] = "pub"
            BY Zenon DEF KeyInv
          <6> QED
            BY <6>1, <6>2, Zenon
        <5> QED
          BY <5>1, <5>2, Zenon
      <4> QED
        BY ONLY <3>5, <4>1, Zenon DEF KeyInv
    <3> QED
      BY <2>1, <3>3, <3>6, WireStays
  <2>3. CASE ~Verified(s)
    <3>1. hcPc' = [hcPc EXCEPT ![s] = "failed"] /\ UNCHANGED <<hcRx, hcTx>>
      BY <1>4, <2>3 DEF Validate
    <3>2. PcType'
      BY <2>1, <3>1 DEF PcType
    <3> QED
      BY <2>1, <3>1, <3>2, KeysGoOn, WireStays, Zenon
  <2> QED
    BY <2>2, <2>3
<1>5. ASSUME NEW s \in Ends, ReadEof(s) PROVE PcType' /\ WireType' /\ KeyInv'
  <2>1. /\ hcPc' = [hcPc EXCEPT ![s] = "failed"]
        /\ UNCHANGED <<hcCfg, hcWire, hcGot, hcRx, hcTx>>
    BY <1>5 DEF ReadEof
  <2>2. PcType'
    BY <2>1 DEF PcType
  <2> QED
    BY <2>1, <2>2, KeysGoOn, WireStays, Zenon
<1>6. ASSUME NEW s \in Ends, SendPlain(s) PROVE PcType' /\ WireType' /\ KeyInv'
  <2>1. /\ hcWire' = [hcWire EXCEPT ![OtherEnd(s)] = Append(@, Junk)]
        /\ UNCHANGED <<hcCfg, hcPc, hcGot, hcRx, hcTx>>
    BY <1>6 DEF SendPlain
  <2>2. Append(hcWire[OtherEnd(s)], Junk) \in Seq(Sent(OtherEnd(s)))
    BY TwoEnds, Added DEF Sent, WireType
  <2>3. \A t \in Ends : hcWire'[t] \in Seq(Sent(t))
    BY <2>1, <2>2, TwoEnds DEF WireType
  <2>4. WireType'
    BY <2>1, <2>3, SentStays DEF WireType
  <2>5. PcType'
    BY <2>1 DEF PcType
  <2> QED
    BY <2>1, <2>4, <2>5, KeysStay
<1>7. CASE UNCHANGED hcVars
  <2>1. PcType'
    BY <1>7 DEF hcVars, PcType
  <2> QED
    BY <1>7, <2>1, WireStays, KeysStay DEF hcVars
<1> QED
  BY <1>1, <1>2, <1>3, <1>4, <1>5, <1>6, <1>7 DEF HandshakeNext

\* dmsg_crypto_negotiate: two ends that are both through use matching session
\* keys, one for each direction.
THEOREM SessionsPairThm == HandshakeSpec => []SessionsPair
<1>1. (\E cfg \in [Ends -> Configs] : HandshakeInit(cfg)) => HcInv
  BY HcInitial
<1>2. HcInv => SessionsPair
  BY TwoEnds DEF HcInv, KeyInv, SessionsPair, Ends, OtherEnd
<1> QED
  BY <1>1, <1>2, HcStep, PTL DEF HandshakeSpec

\* dmsg_crypto_negotiate: no end encrypts towards an end that does not.
THEOREM ModesAgreeThm == HandshakeSpec => []ModesAgree
<1>1. (\E cfg \in [Ends -> Configs] : HandshakeInit(cfg)) => HcInv
  BY HcInitial
<1>2. HcInv => ModesAgree
  BY TwoEnds DEF HcInv, KeyInv, ModesAgree
<1> QED
  BY <1>1, <1>2, HcStep, PTL DEF HandshakeSpec

\* What dmsg_crypto_negotiate lets through is safe to use.
THEOREM HandshakeSafeThm == HandshakeSpec => []HandshakeSafe
<1>1. SessionsPair /\ ModesAgree => HandshakeSafe
  BY DEF HandshakeSafe
<1> QED
  BY <1>1, SessionsPairThm, ModesAgreeThm, PTL
=============================================================================
