--------------------------- MODULE CleanupTheorems ---------------------------
(***************************************************************************)
(* Theorems about the jobs of hammer cleanup: the lock of the PFS keeps    *)
(* their commands apart, and so their periods and the snapshots.           *)
(***************************************************************************)
EXTENDS Cleanup, TLAPS

\* What a job's record is after each kind of update.
LEMMA JobUpdates ==
    ASSUME NEW r \in JobType, NEW t \in Nat, NEW e \in {"ok", "err", "killed"},
           NEW pc \in {"idle", "migrate", "setconfig", "stat", "mkdir", "cpdup", "rm", "lock", "dir",
                       "expire_links", "expire_meta", "wait", "dead"}
    PROVE  /\ [r EXCEPT !.pc = pc] \in JobType
           /\ [r EXCEPT !.lock = TRUE, !.pc = pc] \in JobType
           /\ [r EXCEPT !.i = r.i + 1, !.pc = pc] \in JobType
           /\ [r EXCEPT !.disabled = TRUE, !.i = r.i + 1] \in JobType
           /\ [r EXCEPT !.savet = t, !.pc = pc] \in JobType
           /\ [r EXCEPT !.res = e] \in JobType
           /\ [r EXCEPT !.i = r.i + 1, !.pc = pc, !.res = e] \in JobType
<1>1. r.i + 1 \in Nat \ {0}
  BY DEF JobType
<1>2. [r EXCEPT !.pc = pc] \in JobType
  BY DEF JobType
<1>3. [r EXCEPT !.lock = TRUE, !.pc = pc] \in JobType
  BY Zenon DEF JobType
<1>4. [r EXCEPT !.i = r.i + 1, !.pc = pc] \in JobType
  BY <1>1, Zenon DEF JobType
<1>5. [r EXCEPT !.disabled = TRUE, !.i = r.i + 1] \in JobType
  BY <1>1, Zenon DEF JobType
<1>6. [r EXCEPT !.savet = t, !.pc = pc] \in JobType
  BY Zenon DEF JobType
<1>7. [r EXCEPT !.res = e] \in JobType
  BY DEF JobType
<1>8. [r EXCEPT !.i = r.i + 1, !.pc = pc, !.res = e] \in JobType
  BY <1>1, Zenon DEF JobType
<1> QED BY <1>2, <1>3, <1>4, <1>5, <1>6, <1>7, <1>8

\* The commands of Snapshots that take a step end or go on; none becomes another.
LEMMA WorkOp ==
    ASSUME DOMAIN cmd = Cmds, \A c \in Cmds : "op" \in DOMAIN cmd[c], NEW c \in Cmds, Work(c) \/ Die(c)
    PROVE  /\ DOMAIN cmd' = Cmds /\ \A d \in Cmds : "op" \in DOMAIN cmd'[d]
           /\ \A d \in Cmds \ {c} : cmd'[d] = cmd[d]
           /\ cmd[c].op # "none" /\ cmd'[c].op \in {cmd[c].op, "none"}
           /\ now' = now
<1>1. "op" \in DOMAIN Idle /\ Idle.op = "none"
  BY DEF Idle
<1>2. ASSUME Exit(c)
      PROVE  /\ DOMAIN cmd' = Cmds /\ \A d \in Cmds : "op" \in DOMAIN cmd'[d]
             /\ \A d \in Cmds \ {c} : cmd'[d] = cmd[d]
             /\ cmd'[c].op \in {cmd[c].op, "none"}
  BY <1>1, <1>2 DEF Exit
<1>3. ASSUME NEW pc, Goto(c, pc)
      PROVE  /\ DOMAIN cmd' = Cmds /\ \A d \in Cmds : "op" \in DOMAIN cmd'[d]
             /\ \A d \in Cmds \ {c} : cmd'[d] = cmd[d]
             /\ cmd'[c].op \in {cmd[c].op, "none"}
  BY <1>3 DEF Goto
<1>4. CASE SyncTid(c)
  BY <1>4 DEF SyncTid, At
<1>5. CASE OpenDir(c) \/ ScanDir(c)
  BY <1>5 DEF OpenDir, ScanDir, At
<1>6. CASE ScanMeta(c)
  BY <1>3, <1>6 DEF ScanMeta
<1>7. CASE AddMeta(c) \/ RemoveLink(c)
  BY <1>3, <1>7 DEF AddMeta, RemoveLink, At
<1>8. CASE DelMeta(c)
  BY <1>2, <1>3, <1>8 DEF DelMeta, At
<1>9. CASE Symlink(c) \/ Unlink(c) \/ Prune(c) \/ Die(c)
  BY <1>2, <1>9 DEF Symlink, Unlink, Prune, Die, At
<1> QED BY <1>4, <1>5, <1>6, <1>7, <1>8, <1>9 DEF Work

\* A step of one job leaves the others as they are: it is enough to look at it,
\* and at the lock if it takes it.
LEMMA JobMoves ==
    ASSUME CleanupIInv, NEW j \in Jobs, NEW r \in JobType, job' = [job EXCEPT ![j] = r],
           DOMAIN cmd' = Cmds, \A c \in Cmds : "op" \in DOMAIN cmd'[c],
           \A k \in Jobs \ {j} : cmd'[k] = cmd[k],
           UNCHANGED <<now, period>>, good' \in [Dirs -> Nat],
           r.lock => job[j].lock \/ \A k \in Jobs : ~job[k].lock,
           JobOk(r, cmd'[j].op)
    PROVE  CleanupIInv'
<1>1. CleanupType /\ OneLock /\ job \in [Jobs -> JobType]
  BY DEF CleanupIInv, CleanupType
<1>2. job' \in [Jobs -> JobType] /\ job'[j] = r /\ \A k \in Jobs \ {j} : job'[k] = job[k]
  BY <1>1
<1>3. CleanupType'
  BY <1>1, <1>2 DEF CleanupType
<1>4. OneLock'
  BY <1>1, <1>2 DEF OneLock
<1>5. ASSUME NEW k \in Jobs PROVE JobOk(job[k], cmd[k].op)'
  <2>1. \A q, op : JobOk(q, op) => JobOk(q, op)'
    BY DEF JobOk, DueAt
  <2>2. CASE k = j
    BY <1>2, <2>1, <2>2
  <2>3. CASE k # j
    BY <1>2, <2>1, <2>3 DEF CleanupIInv
  <2> QED BY <2>2, <2>3
<1> QED BY <1>3, <1>4, <1>5 DEF CleanupIInv

\* A job that is not yet at its directives goes on.
LEMMA EarlyStep ==
    ASSUME CleanupIInv, NEW j \in Jobs, job[j].pc \notin {"wait", "dead"},
           NEW pc \in {"migrate", "setconfig", "stat", "mkdir", "cpdup", "rm", "lock"},
           JobGoto(j, pc), UNCHANGED <<now, cmd, period, good>>
    PROVE  CleanupIInv'
<1> DEFINE r == [job[j] EXCEPT !.pc = pc]
<1>1. job[j] \in JobType /\ CleanupType /\ JobOk(job[j], cmd[j].op)
  BY DEF CleanupIInv, CleanupType
<1>2. r \in JobType
  BY <1>1, JobUpdates, Zenon
<1>3. job' = [job EXCEPT ![j] = r]
  BY DEF JobGoto
<1>4. r.pc = pc /\ r.lock = job[j].lock /\ r.disabled = job[j].disabled /\ r.i = job[j].i
  BY <1>1 DEF JobType
<1>5. JobOk(r, cmd[j].op)
  BY <1>1, <1>4 DEF JobOk, Running
<1> HIDE DEF r
<1> QED BY <1>1, <1>2, <1>3, <1>4, <1>5, JobMoves, Zenon DEF CleanupType

\* A job without a command may end at any time.
LEMMA QuitStep ==
    ASSUME CleanupIInv, NEW j \in Jobs, Quit(j), cmd'[j].op = "none",
           DOMAIN cmd' = Cmds, \A c \in Cmds : "op" \in DOMAIN cmd'[c],
           \A k \in Jobs \ {j} : cmd'[k] = cmd[k],
           UNCHANGED <<now, period>>, good' \in [Dirs -> Nat]
    PROVE  CleanupIInv'
<1>1. NoJob \in JobType
  BY DEF NoJob, JobType
<1>2. NoJob.pc = "idle" /\ ~NoJob.lock /\ ~NoJob.disabled
  BY DEF NoJob
<1>3. JobOk(NoJob, "none")
  BY <1>2 DEF JobOk, Running
<1>4. job' = [job EXCEPT ![j] = NoJob]
  BY DEF Quit
<1> QED BY <1>1, <1>2, <1>3, <1>4, JobMoves, Zenon

\* The PFS's lock is free, or the job ends.
LEMMA LockStep == ASSUME CleanupIInv, NEW j \in Jobs, Lock(j) PROVE CleanupIInv'
<1> DEFINE r == [job[j] EXCEPT !.lock = TRUE, !.pc = "dir"]
<1>1. /\ job[j] \in JobType /\ CleanupType /\ JobOk(job[j], cmd[j].op) /\ job[j].pc = "lock"
      /\ UNCHANGED <<now, cmd, period, good>>
  BY DEF CleanupIInv, CleanupType, Lock, JobAt, vars
<1>2. cmd[j].op = "none"
  BY <1>1 DEF JobOk
<1>3. CASE Quit(j)
  BY <1>1, <1>2, <1>3, QuitStep DEF CleanupType
<1>4. CASE job' = [job EXCEPT ![j] = r] /\ \A k \in Jobs : ~job[k].lock
  <2>1. r \in JobType
    BY <1>1, JobUpdates, Zenon
  <2>2. r.pc = "dir" /\ r.lock = TRUE /\ r.disabled = job[j].disabled /\ r.i = job[j].i
    BY <1>1 DEF JobType
  <2>3. JobOk(r, cmd[j].op)
    BY <1>1, <1>2, <2>2 DEF JobOk, Running
  <2> HIDE DEF r
  <2> QED BY <1>1, <1>4, <2>1, <2>3, JobMoves, Zenon DEF CleanupType
<1> QED BY <1>3, <1>4, Zenon DEF Lock

\* Past a directive that asked for no snapshots the job stays past it.
LEMMA DisabledStays == ASSUME NEW n \in Nat, Disabled(n) PROVE Disabled(n + 1)
  BY DEF Disabled

\* The next directive is read.
LEMMA NextStep ==
    ASSUME CleanupIInv, NEW j \in Jobs, job[j].pc \in Running \cup {"dir"}, cmd[j].op = "none",
           NextDirective(j), UNCHANGED <<now, cmd, period, good>>
    PROVE  CleanupIInv'
<1> DEFINE r == [job[j] EXCEPT !.i = job[j].i + 1, !.pc = "dir"]
<1>1. /\ job[j] \in JobType /\ CleanupType /\ JobOk(job[j], cmd[j].op)
  BY DEF CleanupIInv, CleanupType
<1>2. r \in JobType
  BY <1>1, JobUpdates, Zenon
<1>3. job' = [job EXCEPT ![j] = r]
  BY Zenon DEF NextDirective
<1>4. r.pc = "dir" /\ r.lock = job[j].lock /\ r.disabled = job[j].disabled /\ r.i = job[j].i + 1
  BY <1>1 DEF JobType
<1>5. job[j].i \in Nat
  BY <1>1 DEF JobType
<1>6. JobOk(r, cmd[j].op)
  BY <1>1, <1>4, <1>5, DisabledStays DEF JobOk, Running
<1> HIDE DEF r
<1> QED BY <1>1, <1>2, <1>3, <1>4, <1>6, JobMoves, Zenon DEF CleanupType

\* The configuration is a sequence of directives with periods.
LEMMA ConfigType ==
    ASSUME NEW i \in 1..Len(Config)
    PROVE  Config[i].cmd \in Dirs /\ Config[i].period \in Nat /\ Config[i].arg2 \in Nat
<1>0. ASSUME NEW S, NEW s \in Seq(S), NEW k \in 1..Len(s) PROVE s[k] \in S
  OBVIOUS
<1>1. Config[i] \in [cmd : {"snapshots", "prune", "reblock"}, period : Nat, arg2 : Nat]
  BY <1>0, CleanupAssumption, Zenon
<1>2. Config[i].cmd \in {Config[k].cmd : k \in 1..Len(Config)}
  OBVIOUS
<1> QED BY <1>1, <1>2 DEF Dirs

\* check_period: a directive that is due now was due at the time saved.
LEMMA DueNow ==
    ASSUME CleanupIInv, NEW i \in 1..Len(Config), Due(Config[i])
    PROVE  DueAt(Config[i], now)
<1>1. /\ Config[i].cmd \in Dirs /\ now \in Nat
      /\ period[Config[i].cmd] \in Nat /\ period[Config[i].cmd] <= now
  BY ConfigType DEF CleanupIInv, CleanupType
<1> QED BY <1>1 DEF Due, DueAt

\* A directive is about to be run, or its softlinks to be expired.
LEMMA RunStep ==
    ASSUME CleanupIInv, NEW j \in Jobs, job[j].pc = "dir", job[j].i \in 1..Len(Config),
           NEW pc \in Running, Due(Directive(j)), Directive(j).period # 0,
           job' = [job EXCEPT ![j].savet = now, ![j].pc = pc],
           cmd'[j].op = "none" \/ pc = "wait",
           cmd'[j].op = "everything" => job[j].disabled,
           DOMAIN cmd' = Cmds, \A c \in Cmds : "op" \in DOMAIN cmd'[c],
           \A k \in Jobs \ {j} : cmd'[k] = cmd[k], UNCHANGED <<now, period, good>>
    PROVE  CleanupIInv'
<1> DEFINE r == [job[j] EXCEPT !.savet = now, !.pc = pc]
<1>1. job[j] \in JobType /\ CleanupType /\ JobOk(job[j], cmd[j].op)
  BY DEF CleanupIInv, CleanupType
<1>2. r \in JobType
  BY <1>1, JobUpdates, Zenon DEF CleanupType, Running
<1>3. job' = [job EXCEPT ![j] = r]
  BY Zenon
<1>4. /\ r.pc = pc /\ r.lock = job[j].lock /\ r.disabled = job[j].disabled
      /\ r.i = job[j].i /\ r.savet = now
  BY <1>1 DEF JobType
<1>5. DueAt(Config[r.i], r.savet) /\ Config[r.i].period # 0
  BY <1>4, DueNow DEF Directive
<1>6. job[j].lock /\ (job[j].disabled => Disabled(job[j].i))
  BY <1>1 DEF JobOk
<1>7. JobOk(r, cmd'[j].op)
  BY <1>4, <1>5, <1>6 DEF JobOk, Running
<1>8. good' \in [Dirs -> Nat] /\ UNCHANGED <<now, period>>
  BY <1>1 DEF CleanupType
<1> HIDE DEF r
<1> QED BY <1>2, <1>3, <1>6, <1>7, <1>8, JobMoves, Zenon

\* The snapshots directive is skipped, disabled, or begun.
LEMMA SnapshotsStep == ASSUME CleanupIInv, NEW j \in Jobs, SnapshotsDirective(j) PROVE CleanupIInv'
<1>1. /\ job[j] \in JobType /\ CleanupType /\ JobOk(job[j], cmd[j].op) /\ job[j].pc = "dir"
      /\ UNCHANGED <<now, cmd, period, good>> /\ job[j].i <= Len(Config)
      /\ Config[job[j].i].cmd = "snapshots"
  BY DEF CleanupIInv, CleanupType, SnapshotsDirective, Reading, Directive, JobAt, vars
<1>2. cmd[j].op = "none" /\ job[j].i \in Nat \ {0} /\ job[j].lock
  BY <1>1 DEF JobOk, JobType
<1>3. job[j].i \in 1..Len(Config)
  BY <1>1, <1>2, CleanupAssumption
<1>4. CASE Directive(j).period = 0 /\ JobGoto(j, "expire_links")
  <2> DEFINE r == [job[j] EXCEPT !.pc = "expire_links"]
  <2>1. r \in JobType
    BY <1>1, JobUpdates, Zenon
  <2>2. job' = [job EXCEPT ![j] = r]
    BY <1>4 DEF JobGoto
  <2>3. r.pc = "expire_links" /\ r.lock = job[j].lock /\ r.disabled = job[j].disabled /\ r.i = job[j].i
    BY <1>1 DEF JobType
  <2>4. JobOk(r, cmd[j].op)
    BY <1>1, <1>2, <1>3, <1>4, <2>3 DEF JobOk, Running, Directive
  <2> HIDE DEF r
  <2> QED BY <1>1, <1>2, <2>1, <2>2, <2>4, JobMoves, Zenon DEF CleanupType
<1>5. CASE Directive(j).period = 0 /\ job' = [job EXCEPT ![j].disabled = TRUE, ![j].i = @ + 1]
  <2> DEFINE r == [job[j] EXCEPT !.disabled = TRUE, !.i = job[j].i + 1]
  <2>1. r \in JobType
    BY <1>1, JobUpdates, Zenon
  <2>2. job' = [job EXCEPT ![j] = r]
    BY <1>5, Zenon
  <2>3. r.pc = "dir" /\ r.lock = job[j].lock /\ r.i = job[j].i + 1
    BY <1>1 DEF JobType
  <2>4. Disabled(r.i)
    BY <1>1, <1>2, <1>3, <1>5, <2>3 DEF Disabled, Directive
  <2>5. JobOk(r, cmd[j].op)
    BY <1>1, <1>2, <2>3, <2>4 DEF JobOk, Running
  <2> HIDE DEF r
  <2> QED BY <1>1, <1>2, <2>1, <2>2, <2>5, JobMoves, Zenon DEF CleanupType
<1>6. CASE /\ Directive(j).period # 0 /\ Due(Directive(j))
           /\ job' = [job EXCEPT ![j].savet = now, ![j].pc = "expire_links"]
  BY <1>1, <1>2, <1>3, <1>6, RunStep, Zenon DEF CleanupType, Running
<1>7. CASE NextDirective(j)
  BY <1>1, <1>2, <1>7, NextStep
<1> QED BY <1>4, <1>5, <1>6, <1>7, Zenon DEF SnapshotsDirective

\* A job goes on with the directive it runs.
LEMMA StayStep ==
    ASSUME CleanupIInv, NEW j \in Jobs, NEW pc \in Running, job[j].pc \in Running, JobGoto(j, pc),
           cmd'[j].op = "none" \/ pc = "wait", cmd'[j].op # "everything",
           pc = "wait" => Directive(j).period # 0,
           DOMAIN cmd' = Cmds, \A c \in Cmds : "op" \in DOMAIN cmd'[c],
           \A k \in Jobs \ {j} : cmd'[k] = cmd[k], UNCHANGED <<now, period, good>>
    PROVE  CleanupIInv'
<1> DEFINE r == [job[j] EXCEPT !.pc = pc]
<1>1. job[j] \in JobType /\ CleanupType /\ JobOk(job[j], cmd[j].op)
  BY DEF CleanupIInv, CleanupType
<1>2. r \in JobType
  BY <1>1, JobUpdates, Zenon DEF Running
<1>3. job' = [job EXCEPT ![j] = r]
  BY DEF JobGoto
<1>4. /\ r.pc = pc /\ r.lock = job[j].lock /\ r.disabled = job[j].disabled
      /\ r.i = job[j].i /\ r.savet = job[j].savet
  BY <1>1 DEF JobType
<1>5. JobOk(r, cmd'[j].op)
  BY <1>1, <1>4 DEF JobOk, Running, Directive
<1> HIDE DEF r
<1> QED BY <1>1, <1>2, <1>3, <1>4, <1>5, JobMoves, Zenon DEF CleanupType

\* A child is started in the slot of its job.
LEMMA ChildOp ==
    ASSUME CleanupType, NEW j \in Cmds, NEW e, "op" \in DOMAIN e, cmd' = [cmd EXCEPT ![j] = e]
    PROVE  /\ DOMAIN cmd' = Cmds /\ \A c \in Cmds : "op" \in DOMAIN cmd'[c]
           /\ \A k \in Cmds \ {j} : cmd'[k] = cmd[k]
           /\ cmd'[j].op = e.op
  BY DEF CleanupType

\* Old snapshots are expired; if the period has passed, one is taken.
LEMMA ExpireStep ==
    ASSUME CleanupIInv, NEW j \in Jobs, ExpireLinks(j) \/ ExpireMeta(j)
    PROVE  CleanupIInv'
<1>1. /\ CleanupType /\ JobOk(job[j], cmd[j].op) /\ job[j].pc \in {"expire_links", "expire_meta"}
      /\ UNCHANGED <<now, period, good>>
  BY DEF CleanupIInv, ExpireLinks, ExpireMeta, JobAt
<1>2. cmd[j].op = "none" /\ job[j].pc \in Running
  BY <1>1 DEF JobOk, Running
<1>3. CASE JobGoto(j, "expire_meta") /\ cmd' = cmd
  BY <1>1, <1>2, <1>3, StayStep DEF CleanupType, Running
<1>4. CASE NextDirective(j) /\ cmd' = cmd
  BY <1>1, <1>2, <1>4, NextStep
<1>5. CASE Directive(j).period # 0 /\ JobGoto(j, "wait") /\ Child(j, "snapshot")
  <2> DEFINE e == [Idle EXCEPT !.op = "snapshot", !.pc = FirstPc("snapshot")]
  <2>1. "op" \in DOMAIN e /\ e.op = "snapshot"
    BY DEF Idle
  <2>2. cmd' = [cmd EXCEPT ![j] = e] /\ j \in Cmds
    BY <1>5, CleanupAssumption DEF Child
  <2> HIDE DEF e
  <2>3. /\ DOMAIN cmd' = Cmds /\ \A c \in Cmds : "op" \in DOMAIN cmd'[c]
        /\ \A k \in Cmds \ {j} : cmd'[k] = cmd[k]
        /\ cmd'[j].op = "snapshot"
    BY <1>1, <2>1, <2>2, ChildOp, Zenon
  <2> QED BY <1>1, <1>2, <1>5, <2>3, StayStep, CleanupAssumption DEF Running
<1> QED BY <1>3, <1>4, <1>5 DEF ExpireLinks, ExpireMeta

\* prune, reblock and the like are skipped or begun.
LEMMA OtherStep == ASSUME CleanupIInv, NEW j \in Jobs, OtherDirective(j) PROVE CleanupIInv'
<1>1. /\ CleanupType /\ JobOk(job[j], cmd[j].op) /\ job[j].pc = "dir" /\ job[j].i <= Len(Config)
      /\ UNCHANGED <<now, period, good>> /\ job[j] \in JobType /\ j \in Cmds
  BY CleanupAssumption DEF CleanupIInv, CleanupType, OtherDirective, Reading, JobAt
<1>2. cmd[j].op = "none" /\ job[j].i \in 1..Len(Config)
  BY <1>1, CleanupAssumption DEF JobOk, JobType
<1>3. CASE NextDirective(j) /\ cmd' = cmd
  BY <1>1, <1>2, <1>3, NextStep
<1>4. ASSUME Directive(j).period # 0, Due(Directive(j)),
             job' = [job EXCEPT ![j].savet = now, ![j].pc = "wait"],
             NEW e, "op" \in DOMAIN e, cmd' = [cmd EXCEPT ![j] = e],
             e.op = "everything" => job[j].disabled
      PROVE  CleanupIInv'
  <2>1. /\ DOMAIN cmd' = Cmds /\ \A c \in Cmds : "op" \in DOMAIN cmd'[c]
        /\ \A k \in Cmds \ {j} : cmd'[k] = cmd[k]
        /\ cmd'[j].op = e.op
    BY <1>1, <1>4, ChildOp, Zenon
  <2>2. \A k \in Jobs \ {j} : cmd'[k] = cmd[k]
    BY <2>1, CleanupAssumption
  <2> QED BY <1>1, <1>2, <1>4, <2>1, <2>2, RunStep, Zenon DEF Running
<1>5. ASSUME NEW op, NEW pc
      PROVE  /\ "op" \in DOMAIN [Idle EXCEPT !.op = op, !.pc = pc]
             /\ [Idle EXCEPT !.op = op, !.pc = pc].op = op
             /\ "op" \in DOMAIN [Idle EXCEPT !.op = op]
             /\ [Idle EXCEPT !.op = op].op = op
  BY DEF Idle
<1>6. ASSUME Directive(j).period # 0, Due(Directive(j)),
             job' = [job EXCEPT ![j].savet = now, ![j].pc = "wait"],
             \/ cmd' = [cmd EXCEPT ![j] = [Idle EXCEPT !.op = "reblock"]]
             \/ job[j].disabled /\ Child(j, "everything")
             \/ Child(j, "prune")
             \/ PruneRoot(j)
      PROVE  CleanupIInv'
  <2>1. CASE cmd' = [cmd EXCEPT ![j] = [Idle EXCEPT !.op = "reblock"]]
    BY <1>4, <1>5, <1>6, <2>1, Zenon
  <2>2. CASE job[j].disabled /\ Child(j, "everything")
    BY <1>4, <1>5, <1>6, <2>2, Zenon DEF Child
  <2>3. CASE Child(j, "prune")
    BY <1>4, <1>5, <1>6, <2>3, Zenon DEF Child
  <2>4. CASE PruneRoot(j)
    BY <1>4, <1>5, <1>6, <2>4, Zenon DEF PruneRoot
  <2> QED BY <1>6, <2>1, <2>2, <2>3, <2>4
<1> QED BY <1>3, <1>6 DEF OtherDirective

\* The command of a job has ended: the job notes how, or is dead and gone.
LEMMA EndStep ==
    ASSUME CleanupIInv, NEW j \in Jobs, NEW res \in {"ok", "err", "killed"}, ChildEnds(j, res),
           cmd[j].op # "none", cmd'[j].op = "none",
           DOMAIN cmd' = Cmds, \A c \in Cmds : "op" \in DOMAIN cmd'[c],
           \A k \in Jobs \ {j} : cmd'[k] = cmd[k], UNCHANGED <<now, period>>
    PROVE  CleanupIInv'
<1> DEFINE r == [job[j] EXCEPT !.res = res]
<1>1. job[j] \in JobType /\ CleanupType /\ JobOk(job[j], cmd[j].op)
  BY DEF CleanupIInv, CleanupType
<1>2. good' \in [Dirs -> Nat]
  <2>1. CASE good' = good
    BY <1>1, <2>1 DEF CleanupType
  <2>2. CASE job[j].pc = "wait" /\ good' = [good EXCEPT ![Directive(j).cmd] = job[j].savet]
    BY <1>1, <2>2, Zenon DEF CleanupType, JobType
  <2> QED BY <2>1, <2>2 DEF ChildEnds, JobAt
<1>3. CASE Quit(j)
  BY <1>2, <1>3, QuitStep
<1>4. CASE job[j].pc # "dead" /\ job' = [job EXCEPT ![j].res = res]
  <2>1. r \in JobType
    BY <1>1, JobUpdates, Zenon
  <2>2. job' = [job EXCEPT ![j] = r]
    BY <1>4
  <2>3. /\ r.pc = job[j].pc /\ r.lock = job[j].lock /\ r.disabled = job[j].disabled
        /\ r.i = job[j].i /\ r.savet = job[j].savet
    BY <1>1 DEF JobType
  <2>4. JobOk(r, "none")
    BY <1>1, <2>3 DEF JobOk
  <2> HIDE DEF r
  <2> QED BY <1>1, <1>2, <2>1, <2>2, <2>3, <2>4, JobMoves, Zenon
<1> QED BY <1>3, <1>4 DEF ChildEnds, JobAt

\* A command of a job takes a step, fails, or ends.
LEMMA ChildStep ==
    ASSUME CleanupIInv, NEW j \in Jobs, ChildWorks(j) \/ ReblockEnds(j) \/ ChildFails(j)
    PROVE  CleanupIInv'
<1>1. CleanupType /\ j \in Cmds /\ DOMAIN cmd = Cmds /\ \A c \in Cmds : "op" \in DOMAIN cmd[c]
  BY CleanupAssumption DEF CleanupIInv, CleanupType
<1>2. CASE ChildWorks(j)
  <2>1. /\ DOMAIN cmd' = Cmds /\ \A d \in Cmds : "op" \in DOMAIN cmd'[d]
        /\ \A d \in Cmds \ {j} : cmd'[d] = cmd[d]
        /\ cmd[j].op # "none" /\ cmd'[j].op \in {cmd[j].op, "none"}
        /\ now' = now
    BY <1>1, <1>2, WorkOp DEF ChildWorks
  <2>2. CASE cmd'[j].op # "none"
    <3>1. UNCHANGED <<job, good, period, now>> /\ cmd'[j].op = cmd[j].op
      BY <1>2, <2>1, <2>2 DEF ChildWorks
    <3>2. \A k \in Jobs : cmd'[k].op = cmd[k].op
      BY <2>1, <3>1, CleanupAssumption
    <3>3. CleanupType' /\ OneLock'
      BY <1>1, <2>1, <3>1 DEF CleanupType, CleanupIInv, OneLock
    <3>4. \A q, op : JobOk(q, op) => JobOk(q, op)'
      BY <3>1, Zenon DEF JobOk, DueAt
    <3>5. \A k \in Jobs : JobOk(job[k], cmd[k].op)'
      BY <3>1, <3>2, <3>4 DEF CleanupIInv
    <3> QED BY <3>1, <3>3, <3>5 DEF CleanupIInv
  <2>3. CASE cmd'[j].op = "none"
    <3>1. UNCHANGED period /\ \E res \in {"ok", "err", "killed"} : ChildEnds(j, res)
      BY <1>2, <2>3 DEF ChildWorks
    <3> QED BY <2>1, <2>3, <3>1, EndStep, CleanupAssumption
  <2> QED BY <2>2, <2>3
<1>3. CASE ReblockEnds(j)
  <2>1. "op" \in DOMAIN Idle /\ Idle.op = "none"
    BY DEF Idle
  <2>2. /\ cmd[j].op # "none" /\ cmd' = [cmd EXCEPT ![j] = Idle] /\ ChildEnds(j, "ok")
        /\ UNCHANGED <<now, period>>
    BY <1>3 DEF ReblockEnds, Exit
  <2>3. /\ DOMAIN cmd' = Cmds /\ \A d \in Cmds : "op" \in DOMAIN cmd'[d]
        /\ \A d \in Cmds \ {j} : cmd'[d] = cmd[d]
        /\ cmd'[j].op = "none"
    BY <1>1, <2>1, <2>2, ChildOp
  <2> QED BY <2>2, <2>3, EndStep, CleanupAssumption
<1>4. CASE ChildFails(j)
  <2>1. PICK res \in {"ok", "err", "killed"} : ChildEnds(j, res)
    BY <1>4, CleanupAssumption DEF ChildFails
  <2>2. /\ cmd[j].op # "none" /\ cmd' = [cmd EXCEPT ![j] = Idle] /\ UNCHANGED <<now, period>>
    BY <1>4 DEF ChildFails, Die, Exit
  <2>3. "op" \in DOMAIN Idle /\ Idle.op = "none"
    BY DEF Idle
  <2>4. /\ DOMAIN cmd' = Cmds /\ \A d \in Cmds : "op" \in DOMAIN cmd'[d]
        /\ \A d \in Cmds \ {j} : cmd'[d] = cmd[d]
        /\ cmd'[j].op = "none"
    BY <1>1, <2>2, <2>3, ChildOp
  <2> QED BY <2>1, <2>2, <2>4, EndStep, CleanupAssumption
<1> QED BY <1>2, <1>3, <1>4

\* waitpid has returned and the period is saved.  No other job runs a
\* directive, so none depends on the period that changes.
LEMMA WaitStep == ASSUME CleanupIInv, NEW j \in Jobs, Wait(j) PROVE CleanupIInv'
<1> DEFINE r == [job[j] EXCEPT !.i = job[j].i + 1, !.pc = "dir", !.res = "ok"]
<1>1. /\ job[j] \in JobType /\ CleanupType /\ JobOk(job[j], cmd[j].op) /\ OneLock
      /\ job[j].pc = "wait" /\ cmd[j].op = "none" /\ UNCHANGED <<now, cmd, good>>
  BY DEF CleanupIInv, CleanupType, Wait, JobAt, vars
<1>2. /\ job[j].lock /\ job[j].i \in 1..Len(Config) /\ DueAt(Directive(j), job[j].savet)
      /\ Directive(j).cmd \in Dirs /\ job[j].savet \in Nat
  BY <1>1, ConfigType DEF JobOk, Running, JobType, Directive
<1>3. period' = period \/ period' = [period EXCEPT ![Directive(j).cmd] = job[j].savet]
  BY DEF Wait
<1>4. period' \in [Dirs -> Nat] /\ \A d \in Dirs : period'[d] <= now
  BY <1>1, <1>2, <1>3, Zenon DEF CleanupType, CleanupIInv, DueAt
<1>5. r \in JobType
  BY <1>1, JobUpdates, Zenon
<1>6. job' = [job EXCEPT ![j] = r]
  BY Zenon DEF Wait
<1>7. r.pc = "dir" /\ r.lock = job[j].lock /\ r.disabled = job[j].disabled /\ r.i = job[j].i + 1
  BY <1>1 DEF JobType
<1> HIDE DEF r
<1>8. job' \in [Jobs -> JobType] /\ job'[j] = r /\ \A k \in Jobs \ {j} : job'[k] = job[k]
  BY <1>1, <1>5, <1>6 DEF CleanupType
<1>9. CleanupType' /\ OneLock'
  BY <1>1, <1>4, <1>7, <1>8 DEF CleanupType, OneLock
<1>10. ASSUME NEW k \in Jobs PROVE JobOk(job[k], cmd[k].op)'
  <2>1. CASE k = j
    <3>1. r.disabled => Disabled(r.i)
      BY <1>1, <1>2, <1>7, DisabledStays DEF JobOk
    <3>2. cmd'[k].op = "none" /\ job'[k] = r
      BY <1>1, <1>8, <2>1
    <3> QED BY <1>2, <1>7, <3>1, <3>2, Zenon DEF JobOk, Running
  <2>2. CASE k # j
    <3>1. ~job[k].lock /\ JobOk(job[k], cmd[k].op) /\ job'[k] = job[k] /\ cmd' = cmd
      BY <1>1, <1>2, <1>8, <2>2 DEF OneLock, CleanupIInv
    <3> QED BY <3>1 DEF JobOk
  <2> QED BY <2>1, <2>2
<1> QED BY <1>1, <1>4, <1>9, <1>10 DEF CleanupIInv

\* A job ends after the last directive, or is killed; a command it was waiting
\* for runs on and keeps the lock.
LEMMA EndOfJob == ASSUME CleanupIInv, NEW j \in Jobs, Finished(j) \/ Kill(j) PROVE CleanupIInv'
<1>1. /\ job[j] \in JobType /\ CleanupType /\ JobOk(job[j], cmd[j].op)
      /\ UNCHANGED <<now, cmd, period, good>>
  BY DEF CleanupIInv, CleanupType, Finished, Kill, vars
<1>2. CASE Quit(j) /\ cmd[j].op = "none"
  BY <1>1, <1>2, QuitStep DEF CleanupType
<1>3. CASE cmd[j].op # "none" /\ JobGoto(j, "dead")
  <2> DEFINE r == [job[j] EXCEPT !.pc = "dead"]
  <2>1. r \in JobType
    BY <1>1, JobUpdates, Zenon
  <2>2. job' = [job EXCEPT ![j] = r]
    BY <1>3 DEF JobGoto
  <2>3. r.pc = "dead" /\ r.lock = job[j].lock /\ r.disabled = job[j].disabled /\ r.i = job[j].i
    BY <1>1 DEF JobType
  <2>4. JobOk(r, cmd[j].op)
    BY <1>1, <2>3 DEF JobOk, Running
  <2> HIDE DEF r
  <2> QED BY <1>1, <2>1, <2>2, <2>3, <2>4, JobMoves, Zenon DEF CleanupType
<1>4. Finished(j) => Quit(j) /\ cmd[j].op = "none"
  BY <1>1 DEF Finished, JobAt, JobOk
<1> QED BY <1>2, <1>3, <1>4 DEF Kill

\* A step of a job.
LEMMA JobStepInv == ASSUME CleanupIInv, NEW j \in Jobs, JobStep(j) PROVE CleanupIInv'
<1>1. CleanupType /\ JobOk(job[j], cmd[j].op)
  BY DEF CleanupIInv
<1>2. CASE StartJob(j) \/ MigrateSnapshots(j) \/ SetConfig(j) \/ StatNew(j) \/ Mkdir(j) \/ RemoveOld(j)
  <2>1. job[j].pc \notin {"wait", "dead"} /\ UNCHANGED <<now, cmd, period, good>>
    BY <1>2 DEF StartJob, MigrateSnapshots, SetConfig, StatNew, Mkdir, RemoveOld, JobAt, vars
  <2>2. PICK pc \in {"migrate", "setconfig", "stat", "mkdir", "cpdup", "rm", "lock"} : JobGoto(j, pc)
    BY <1>2 DEF StartJob, MigrateSnapshots, SetConfig, StatNew, Mkdir, RemoveOld
  <2> QED BY <2>1, <2>2, EarlyStep
<1>3. CASE Cpdup(j)
  <2>1. job[j].pc = "cpdup" /\ UNCHANGED <<now, cmd, period, good>>
    BY <1>3 DEF Cpdup, JobAt
  <2>2. cmd[j].op = "none"
    BY <1>1, <2>1 DEF JobOk
  <2>3. CASE Quit(j)
    BY <1>1, <2>1, <2>2, <2>3, QuitStep DEF CleanupType
  <2>4. CASE JobGoto(j, "rm")
    BY <2>1, <2>4, EarlyStep
  <2> QED BY <1>3, <2>3, <2>4 DEF Cpdup
<1> QED BY <1>2, <1>3, LockStep, SnapshotsStep, ExpireStep, OtherStep, WaitStep, EndOfJob,
           ChildStep DEF JobStep

\* What goes on outside the jobs: writes, the clock, and users' commands.
LEMMA OutsideStep ==
    ASSUME CleanupIInv, UNCHANGED jvars, now' \in Nat, now <= now',
           DOMAIN cmd' = Cmds, \A c \in Cmds : "op" \in DOMAIN cmd'[c],
           \A k \in Jobs : cmd'[k] = cmd[k]
    PROVE  CleanupIInv'
<1>1. CleanupType /\ UNCHANGED <<job, period, good>>
  BY DEF CleanupIInv, jvars
<1>2. CleanupType' /\ OneLock'
  BY <1>1 DEF CleanupType, CleanupIInv, OneLock
<1>3. \A d \in Dirs : period'[d] <= now'
  BY <1>1 DEF CleanupType, CleanupIInv
<1>4. ASSUME NEW k \in Jobs PROVE JobOk(job[k], cmd[k].op)'
  <2>1. job[k].savet \in Nat /\ now \in Nat /\ JobOk(job[k], cmd[k].op)
    BY <1>1 DEF CleanupType, JobType, CleanupIInv
  <2>2. job'[k] = job[k] /\ cmd'[k] = cmd[k]
    BY <1>1
  <2>3. \A d : DueAt(d, job[k].savet) => DueAt(d, job[k].savet)'
    <3>1. job[k].savet <= now => job[k].savet <= now'
      BY <2>1
    <3> QED BY <1>1, <2>2, <3>1 DEF DueAt
  <2> QED BY <2>1, <2>2, <2>3, Zenon DEF JobOk
<1> QED BY <1>2, <1>3, <1>4 DEF CleanupIInv

\* Every step keeps the invariant.
LEMMA CleanupStep == ASSUME CleanupIInv, [CleanupNext]_allvars PROVE CleanupIInv'
<1>1. /\ CleanupType /\ now \in Nat /\ DOMAIN cmd = Cmds
      /\ \A c \in Cmds : "op" \in DOMAIN cmd[c]
  BY DEF CleanupIInv, CleanupType
<1>2. CASE (Write \/ Tick) /\ UNCHANGED jvars
  <2>1. (now' = now \/ now' = now + 1) /\ cmd' = cmd
    <3>1. Write => now' = now /\ cmd' = cmd
      BY Zenon DEF Write
    <3>2. Tick => now' = now + 1 /\ cmd' = cmd
      BY DEF Tick
    <3> QED BY <1>2, <3>1, <3>2
  <2>2. now' \in Nat /\ now <= now'
    BY <1>1, <2>1
  <2> QED BY <1>1, <1>2, <2>1, <2>2, OutsideStep
<1>3. ASSUME NEW c \in Cmds \ Jobs, UserStep(c) PROVE CleanupIInv'
  <2>1. /\ now' = now /\ DOMAIN cmd' = Cmds /\ \A d \in Cmds : "op" \in DOMAIN cmd'[d]
        /\ \A d \in Cmds \ {c} : cmd'[d] = cmd[d]
    <3>1. CASE Step(c)
      BY <1>1, <1>3, <3>1, WorkOp DEF Step
    <3>2. ASSUME NEW op \in Ops, Begin(c, op)
          PROVE  /\ now' = now /\ DOMAIN cmd' = Cmds /\ \A d \in Cmds : "op" \in DOMAIN cmd'[d]
                 /\ \A d \in Cmds \ {c} : cmd'[d] = cmd[d]
      <4>1. PICK l : cmd' = [cmd EXCEPT ![c] =
                   [Idle EXCEPT !.op = op, !.pc = FirstPc(op), !.name = l.name, !.tid = l.tid]]
        BY <3>2, Zenon DEF Begin
      <4> DEFINE e == [Idle EXCEPT !.op = op, !.pc = FirstPc(op), !.name = l.name, !.tid = l.tid]
      <4>2. "op" \in DOMAIN e
        BY DEF Idle
      <4>3. cmd' = [cmd EXCEPT ![c] = e] /\ now' = now
        BY <3>2, <4>1, Zenon DEF Begin
      <4> HIDE DEF e
      <4> QED BY <1>1, <1>3, <4>2, <4>3, ChildOp
    <3> QED BY <1>3, <3>1, <3>2 DEF UserStep
  <2>2. \A k \in Jobs : cmd'[k] = cmd[k]
    BY <1>3, <2>1, CleanupAssumption
  <2>3. UNCHANGED jvars
    BY <1>3 DEF UserStep
  <2> QED BY <1>1, <2>1, <2>2, <2>3, OutsideStep
<1>4. CASE UNCHANGED allvars
  <2>1. now' = now /\ cmd' = cmd /\ UNCHANGED jvars
    BY <1>4 DEF allvars, vars
  <2> QED BY <1>1, <2>1, OutsideStep
<1> QED BY <1>2, <1>3, <1>4, JobStepInv DEF CleanupNext

\* The jobs start idle, without the lock.
LEMMA CleanupInitial == CleanupInit => CleanupIInv
<1> SUFFICES ASSUME CleanupInit PROVE CleanupIInv
  OBVIOUS
<1>1. now \in Nat /\ "op" \in DOMAIN Idle /\ Idle.op = "none" /\ NoJob \in JobType
  <2>1. now \in Nat
    BY SnapshotsAssumption DEF CleanupInit, Times
  <2>2. "op" \in DOMAIN Idle /\ Idle.op = "none"
    BY DEF Idle
  <2>3. NoJob \in JobType
    BY DEF NoJob, JobType
  <2> QED BY <2>1, <2>2, <2>3
<1>2. NoJob.pc = "idle" /\ ~NoJob.lock /\ ~NoJob.disabled
  BY DEF NoJob
<1>3. /\ cmd = [c \in Cmds |-> Idle] /\ job = [k \in Jobs |-> NoJob]
      /\ period = [d \in Dirs |-> 0] /\ good = [d \in Dirs |-> 0]
  BY DEF CleanupInit
<1>4. CleanupType /\ OneLock
  BY <1>1, <1>2, <1>3 DEF CleanupType, OneLock
<1>5. \A k \in Jobs : JobOk(job[k], cmd[k].op)
  BY <1>1, <1>2, <1>3, CleanupAssumption DEF JobOk, Running
<1> QED BY <1>1, <1>3, <1>4, <1>5 DEF CleanupIInv
-----------------------------------------------------------------------------
\* do_cleanup's flock: the commands of two jobs never work on the PFS at once,
\* those that outlive a killed job included, and none is prune-everything unless
\* the job has read a snapshots directive that asks for none.
THEOREM JobsExclusive == CleanupSpec => []CleanupSafe
<1>1. ASSUME CleanupIInv PROVE CleanupSafe
  <2>1. PfsExclusive
    BY <1>1 DEF PfsExclusive, CleanupIInv, JobOk, OneLock
  <2>2. EverythingAfterDisabled
    BY <1>1 DEF EverythingAfterDisabled, CleanupIInv, JobOk, Disabled
  <2> QED BY <2>1, <2>2 DEF CleanupSafe
<1>2. CleanupIInv /\ [CleanupNext]_allvars => CleanupIInv'
  BY CleanupStep
<1> QED BY <1>1, <1>2, CleanupInitial, PTL DEF CleanupSpec

\* The configuration names no directive twice.
DistinctDirectives ==
    \A i, k \in 1..Len(Config) : Config[i].cmd = Config[k].cmd => i = k

\* Only a job that has waited for its command saves a period.
LEMMA PeriodChanges ==
    ASSUME [CleanupNext]_allvars, period' # period
    PROVE  \E j \in Jobs : Wait(j)
<1>1. ~UNCHANGED jvars
  BY DEF jvars
<1>2. PICK j \in Jobs : JobStep(j)
  BY <1>1 DEF CleanupNext, UserStep, allvars
<1>3. ~(StartJob(j) \/ MigrateSnapshots(j) \/ SetConfig(j) \/ StatNew(j) \/ Mkdir(j)
        \/ Cpdup(j) \/ RemoveOld(j) \/ Lock(j))
  BY DEF StartJob, MigrateSnapshots, SetConfig, StatNew, Mkdir, Cpdup, RemoveOld, Lock
<1>4. ~(SnapshotsDirective(j) \/ ExpireLinks(j) \/ ExpireMeta(j) \/ OtherDirective(j))
  BY DEF SnapshotsDirective, ExpireLinks, ExpireMeta, OtherDirective
<1>5. ~(Finished(j) \/ Kill(j) \/ ChildWorks(j) \/ ReblockEnds(j) \/ ChildFails(j))
  BY DEF Finished, Kill, ChildWorks, ReblockEnds, ChildFails
<1> QED BY <1>2, <1>3, <1>4, <1>5 DEF JobStep

\* check_period and save_period: between two runs of a directive that are saved
\* its period passes, although the check and the save are far apart and other
\* jobs check and save in between.
THEOREM PeriodsPass == ASSUME DistinctDirectives PROVE CleanupSpec => OncePerPeriod
<1>1. ASSUME CleanupIInv, [CleanupNext]_allvars PROVE PeriodKept
  <2> SUFFICES ASSUME NEW i \in 1..Len(Config), period'[Config[i].cmd] # period[Config[i].cmd]
               PROVE  \/ period[Config[i].cmd] = 0
                      \/ period'[Config[i].cmd] - period[Config[i].cmd] >= Config[i].period
    BY DEF PeriodKept
  <2>1. PICK j \in Jobs : Wait(j)
    BY <1>1, PeriodChanges
  <2>2. /\ JobOk(job[j], cmd[j].op) /\ job[j].pc = "wait" /\ CleanupType
        /\ \/ period' = period
           \/ period' = [period EXCEPT ![Directive(j).cmd] = job[j].savet]
    BY <1>1, <2>1 DEF CleanupIInv, Wait, JobAt
  <2>3. /\ job[j].i \in 1..Len(Config) /\ Config[job[j].i].period # 0
        /\ DueAt(Config[job[j].i], job[j].savet)
    BY <2>2 DEF JobOk, Running
  <2>4. Config[i].cmd \in Dirs /\ period \in [Dirs -> Nat]
    BY <2>2, ConfigType DEF CleanupType
  <2>5. Config[i].cmd = Directive(j).cmd /\ period'[Config[i].cmd] = job[j].savet
    BY <2>2, <2>4
  <2>6. i = job[j].i
    BY <2>3, <2>5 DEF Directive, DistinctDirectives
  <2> QED BY <2>3, <2>5, <2>6 DEF DueAt
<1>2. CleanupIInv /\ [CleanupNext]_allvars => CleanupIInv'
  BY CleanupStep
<1> QED BY <1>1, <1>2, CleanupInitial, PTL DEF CleanupSpec, OncePerPeriod
-----------------------------------------------------------------------------
\* A step that saves nothing and after which no further job has ended its
\* command keeps GoodInv.
LEMMA GoodFrame ==
    ASSUME GoodInv, UNCHANGED <<period, good>>,
           \A k \in Jobs : \/ job'[k] = job[k] /\ cmd'[k].op = cmd[k].op
                           \/ job'[k].pc # "wait" \/ cmd'[k].op # "none"
    PROVE  GoodInv'
<1>1. \A r : ExitStatus(r)' = ExitStatus(r)
  BY DEF ExitStatus
<1>2. SnapshotRetried'
  BY DEF GoodInv, SnapshotRetried
<1>3. \A k \in Jobs : EndedWell(k)' => EndedWell(k) /\ job'[k] = job[k]
  BY <1>1 DEF EndedWell
<1> QED BY <1>2, <1>3 DEF GoodInv, Directive

\* The steps of a job but for the end of a command and the wait for it.
LEMMA GoodJob ==
    ASSUME CleanupIInv, GoodInv, NEW j \in Jobs, JobStep(j),
           ~(Wait(j) \/ ChildWorks(j) \/ ReblockEnds(j) \/ ChildFails(j))
    PROVE  GoodInv'
<1>1. /\ CleanupType /\ job \in [Jobs -> JobType] /\ DOMAIN cmd = Cmds /\ j \in Cmds
      /\ job[j] \in JobType
  BY CleanupAssumption DEF CleanupIInv, CleanupType
<1>2. ASSUME NEW r, job' = [job EXCEPT ![j] = r], r.pc # "wait", cmd' = cmd,
             UNCHANGED <<period, good>>
      PROVE  GoodInv'
  <2>1. job'[j] = r /\ \A k \in Jobs \ {j} : job'[k] = job[k]
    BY <1>1, <1>2
  <2> QED BY <1>2, <2>1, GoodFrame
<1>3. ASSUME NEW e, cmd' = [cmd EXCEPT ![j] = e], e.op # "none", UNCHANGED <<period, good>>,
             \A k \in Jobs \ {j} : job'[k] = job[k]
      PROVE  GoodInv'
  <2>1. cmd'[j] = e /\ \A k \in Jobs \ {j} : cmd'[k] = cmd[k]
    BY <1>1, <1>3, CleanupAssumption
  <2> QED BY <1>3, <2>1, GoodFrame
<1>4. ASSUME NEW pc, JobGoto(j, pc), pc # "wait", cmd' = cmd, UNCHANGED <<period, good>>
      PROVE  GoodInv'
  <2>1. [job[j] EXCEPT !.pc = pc].pc = pc /\ job' = [job EXCEPT ![j] = [job[j] EXCEPT !.pc = pc]]
    BY <1>1, <1>4 DEF JobGoto, JobType
  <2> QED BY <1>2, <1>4, <2>1, Zenon
<1>5. ASSUME Quit(j), cmd' = cmd, UNCHANGED <<period, good>> PROVE GoodInv'
  <2>1. NoJob.pc # "wait"
    BY DEF NoJob
  <2> QED BY <1>2, <1>5, <2>1, Zenon DEF Quit
<1>6. ASSUME NextDirective(j), cmd' = cmd, UNCHANGED <<period, good>> PROVE GoodInv'
  <2> DEFINE r == [job[j] EXCEPT !.i = job[j].i + 1, !.pc = "dir"]
  <2>1. r.pc = "dir" /\ job' = [job EXCEPT ![j] = r]
    BY <1>1, <1>6, Zenon DEF NextDirective, JobType
  <2> HIDE DEF r
  <2> QED BY <1>2, <1>6, <2>1, Zenon
<1>7. CASE StartJob(j) \/ MigrateSnapshots(j) \/ SetConfig(j) \/ StatNew(j) \/ Mkdir(j) \/ RemoveOld(j)
  BY <1>4, <1>7, Zenon DEF StartJob, MigrateSnapshots, SetConfig, StatNew, Mkdir, RemoveOld, vars
<1>8. CASE Cpdup(j)
  BY <1>4, <1>5, <1>8 DEF Cpdup
<1>9. CASE Lock(j)
  <2> DEFINE r == [job[j] EXCEPT !.lock = TRUE, !.pc = "dir"]
  <2>1. r.pc = "dir"
    BY <1>1 DEF JobType
  <2>2. Quit(j) \/ job' = [job EXCEPT ![j] = r]
    BY <1>9, Zenon DEF Lock
  <2>3. cmd' = cmd /\ UNCHANGED <<period, good>>
    BY <1>9 DEF Lock, vars
  <2> HIDE DEF r
  <2> QED BY <1>2, <1>5, <2>1, <2>2, <2>3
<1>10. CASE SnapshotsDirective(j)
  <2> DEFINE r == [job[j] EXCEPT !.disabled = TRUE, !.i = job[j].i + 1]
             s == [job[j] EXCEPT !.savet = now, !.pc = "expire_links"]
  <2>1. r.pc = job[j].pc /\ job[j].pc = "dir" /\ s.pc = "expire_links"
    BY <1>1, <1>10 DEF JobType, SnapshotsDirective, Reading, JobAt
  <2>2. \/ JobGoto(j, "expire_links") \/ NextDirective(j)
        \/ job' = [job EXCEPT ![j] = r] \/ job' = [job EXCEPT ![j] = s]
    BY <1>10, Zenon DEF SnapshotsDirective
  <2>3. cmd' = cmd /\ UNCHANGED <<period, good>>
    BY <1>10 DEF SnapshotsDirective, vars
  <2> HIDE DEF r, s
  <2> QED BY <1>2, <1>4, <1>6, <2>1, <2>2, <2>3
<1>11. CASE ExpireLinks(j)
  BY <1>4, <1>11 DEF ExpireLinks
<1>12. ASSUME NEW op, NEW pc, op # "none", UNCHANGED <<period, good>>,
              \A k \in Jobs \ {j} : job'[k] = job[k],
              \/ cmd' = [cmd EXCEPT ![j] = [Idle EXCEPT !.op = op, !.pc = pc]]
              \/ cmd' = [cmd EXCEPT ![j] = [Idle EXCEPT !.op = op]]
       PROVE  GoodInv'
  <2> DEFINE e == [Idle EXCEPT !.op = op, !.pc = pc]
             f == [Idle EXCEPT !.op = op]
  <2>1. e.op = op /\ f.op = op
    BY DEF Idle
  <2>2. cmd' = [cmd EXCEPT ![j] = e] \/ cmd' = [cmd EXCEPT ![j] = f]
    BY <1>12
  <2> HIDE DEF e, f
  <2> QED BY <1>3, <1>12, <2>1, <2>2
<1>13. CASE ExpireMeta(j)
  <2>1. UNCHANGED <<period, good>>
    BY <1>13 DEF ExpireMeta
  <2>2. CASE NextDirective(j) /\ cmd' = cmd
    BY <1>6, <2>1, <2>2
  <2>3. CASE JobGoto(j, "wait") /\ Child(j, "snapshot")
    <3>1. \A k \in Jobs \ {j} : job'[k] = job[k]
      BY <1>1, <2>3 DEF JobGoto
    <3> QED BY <1>12, <2>1, <2>3, <3>1, Zenon DEF Child
  <2> QED BY <1>13, <2>2, <2>3 DEF ExpireMeta
<1>14. CASE OtherDirective(j)
  <2>1. UNCHANGED <<period, good>>
    BY <1>14 DEF OtherDirective
  <2>2. CASE NextDirective(j) /\ cmd' = cmd
    BY <1>6, <2>1, <2>2
  <2>3. CASE /\ job' = [job EXCEPT ![j].savet = now, ![j].pc = "wait"]
             /\ \/ cmd' = [cmd EXCEPT ![j] = [Idle EXCEPT !.op = "reblock"]]
                \/ Child(j, "everything") \/ Child(j, "prune") \/ PruneRoot(j)
    <3>1. \A k \in Jobs \ {j} : job'[k] = job[k]
      BY <1>1, <2>3
    <3>2. CASE cmd' = [cmd EXCEPT ![j] = [Idle EXCEPT !.op = "reblock"]]
      BY <1>12, <2>1, <3>1, <3>2, Zenon
    <3>3. CASE Child(j, "everything")
      BY <1>12, <2>1, <3>1, <3>3, Zenon DEF Child
    <3>4. CASE Child(j, "prune")
      BY <1>12, <2>1, <3>1, <3>4, Zenon DEF Child
    <3>5. CASE PruneRoot(j)
      <4> DEFINE p == IF Version3 THEN "scanmeta" ELSE "ioctl"
      <4>1. cmd' = [cmd EXCEPT ![j] = [Idle EXCEPT !.op = "prune", !.pc = p]]
        BY <3>5 DEF PruneRoot
      <4> HIDE DEF p
      <4> QED BY <1>12, <2>1, <3>1, <4>1, Zenon
    <3> QED BY <2>3, <3>2, <3>3, <3>4, <3>5
  <2> QED BY <1>14, <2>2, <2>3 DEF OtherDirective
<1>15. CASE Finished(j)
  BY <1>5, <1>15 DEF Finished, vars
<1>16. CASE Kill(j)
  BY <1>4, <1>5, <1>16 DEF Kill, vars
<1> QED BY <1>7, <1>8, <1>9, <1>10, <1>11, <1>13, <1>14, <1>15, <1>16 DEF JobStep

\* The command of a job ends.  It is the only one that holds the lock, so the
\* record of no other job that waits is touched.
LEMMA GoodEnds ==
    ASSUME CleanupIInv, GoodInv, NEW j \in Jobs, NEW res \in {"ok", "err"}, ChildEnds(j, res),
           cmd[j].op # "none", \A k \in Jobs \ {j} : cmd'[k] = cmd[k], period' = period
    PROVE  GoodInv'
<1>1. /\ CleanupType /\ job \in [Jobs -> JobType] /\ job[j] \in JobType
      /\ JobOk(job[j], cmd[j].op) /\ good \in [Dirs -> Nat] /\ OneLock
  BY DEF CleanupIInv, CleanupType
<1>2. job[j].lock /\ job[j].pc \in {"wait", "dead"}
  BY <1>1 DEF JobOk
<1>3. \A k \in Jobs \ {j} : job'[k] = job[k] /\ job[k].pc # "wait"
  <2>1. \A k \in Jobs \ {j} : job'[k] = job[k]
    BY <1>1 DEF ChildEnds, Quit
  <2>2. \A k \in Jobs \ {j} : ~job[k].lock /\ JobOk(job[k], cmd[k].op)
    BY <1>1, <1>2 DEF OneLock, CleanupIInv
  <2> QED BY <2>1, <2>2 DEF JobOk, Running
<1>4. CASE job[j].pc = "dead"
  <2>1. good' = good /\ job'[j] = NoJob
    BY <1>1, <1>4 DEF ChildEnds, JobAt, Quit
  <2>2. NoJob.pc # "wait"
    BY DEF NoJob
  <2> QED BY <1>3, <2>1, <2>2, GoodFrame
<1>5. CASE job[j].pc = "wait"
  <2> DEFINE r == [job[j] EXCEPT !.res = res]
  <2>1. job'[j] = r
    BY <1>1, <1>5 DEF ChildEnds, JobAt
  <2>2. r.i = job[j].i /\ r.savet = job[j].savet /\ r.res = res
    BY <1>1 DEF JobType
  <2> HIDE DEF r
  <2>3. Directive(j)' = Directive(j)
    BY <2>1, <2>2 DEF Directive
  <2>4. CASE res = "err"
    <3>1. good' = good
      BY <2>4 DEF ChildEnds
    <3>2. ExitStatus(job[j].res)' # 0
      BY <2>1, <2>2, <2>4 DEF ExitStatus
    <3>3. SnapshotRetried'
      BY <3>1 DEF GoodInv, SnapshotRetried
    <3> QED BY <1>3, <3>2, <3>3 DEF GoodInv, EndedWell
  <2>5. CASE res = "ok"
    <3>1. good' = [good EXCEPT ![Directive(j).cmd] = job[j].savet]
      BY <1>5, <2>5 DEF ChildEnds, JobAt
    <3>2. /\ Directive(j).cmd \in Dirs /\ period[Directive(j).cmd] <= job[j].savet
          /\ period \in [Dirs -> Nat]
      BY <1>1, <1>5, ConfigType, Zenon DEF JobOk, Running, DueAt, Directive, CleanupType
    <3>3. good'[Directive(j).cmd] = job[j].savet
      BY <1>1, <3>1, <3>2
    <3>4. SnapshotRetried'
      BY <1>1, <3>1, <3>2 DEF GoodInv, SnapshotRetried
    <3> QED BY <1>3, <2>1, <2>2, <2>3, <3>3, <3>4 DEF GoodInv, EndedWell
  <2> QED BY <2>4, <2>5
<1> QED BY <1>2, <1>4, <1>5

\* A job saves the period of its directive: that of the snapshots directive
\* only if the command ended well.
LEMMA GoodWait == ASSUME CleanupIInv, GoodInv, NEW j \in Jobs, Wait(j) PROVE GoodInv'
<1>1. /\ CleanupType /\ job \in [Jobs -> JobType] /\ job[j] \in JobType /\ good' = good /\ cmd' = cmd
      /\ JobOk(job[j], cmd[j].op) /\ job[j].pc = "wait" /\ cmd[j].op = "none"
      /\ period \in [Dirs -> Nat]
  BY DEF CleanupIInv, CleanupType, Wait, JobAt, vars
<1>2. Directive(j).cmd \in Dirs
  BY <1>1, ConfigType DEF JobOk, Running, Directive
<1> DEFINE r == [job[j] EXCEPT !.i = job[j].i + 1, !.pc = "dir", !.res = "ok"]
<1>3. r.pc = "dir" /\ job' = [job EXCEPT ![j] = r]
  BY <1>1 DEF Wait, JobType
<1> HIDE DEF r
<1>4. job'[j].pc = "dir" /\ \A k \in Jobs \ {j} : job'[k] = job[k]
  BY <1>1, <1>3
<1>5. SnapshotRetried'
  <2>1. CASE period' = period
    BY <1>1, <2>1 DEF GoodInv, SnapshotRetried
  <2>2. CASE period' = [period EXCEPT ![Directive(j).cmd] = job[j].savet] /\ Directive(j).cmd # "snapshots"
    BY <1>1, <2>2 DEF GoodInv, SnapshotRetried
  <2>3. CASE /\ period' = [period EXCEPT ![Directive(j).cmd] = job[j].savet]
             /\ Directive(j).cmd = "snapshots" /\ ExitStatus(job[j].res) = 0
    <3>1. good[Directive(j).cmd] = job[j].savet /\ job[j].savet \in Nat
      BY <1>1, <2>3 DEF GoodInv, EndedWell, JobType
    <3>2. period'["snapshots"] = job[j].savet
      BY <1>1, <1>2, <2>3
    <3>3. period'["snapshots"] <= good'["snapshots"]
      BY <1>1, <2>3, <3>1, <3>2
    <3> QED BY <3>3 DEF SnapshotRetried
  <2> QED BY <2>1, <2>2, <2>3 DEF Wait
<1>6. \A k \in Jobs : EndedWell(k)' => k # j /\ EndedWell(k)
  BY <1>1, <1>4 DEF EndedWell, ExitStatus
<1>7. \A k \in Jobs \ {j} : Directive(k)' = Directive(k)
  BY <1>4 DEF Directive
<1>8. ASSUME NEW k \in Jobs, EndedWell(k)' PROVE (good[Directive(k).cmd] = job[k].savet)'
  <2>1. k # j /\ EndedWell(k) /\ job'[k] = job[k] /\ Directive(k)' = Directive(k)
    BY <1>4, <1>6, <1>7, <1>8
  <2>2. good[Directive(k).cmd] = job[k].savet
    BY <2>1 DEF GoodInv
  <2> QED BY <1>1, <2>1, <2>2
<1> QED BY <1>5, <1>8 DEF GoodInv

\* Every step keeps GoodInv.
LEMMA GoodStep ==
    ASSUME "killed" \notin Results, CleanupIInv, GoodInv, [CleanupNext]_allvars
    PROVE  GoodInv'
<1>1. /\ CleanupType /\ DOMAIN cmd = Cmds /\ \A c \in Cmds : "op" \in DOMAIN cmd[c]
      /\ Jobs \subseteq Cmds
  BY CleanupAssumption DEF CleanupIInv, CleanupType
<1>2. ASSUME UNCHANGED jvars, \A k \in Jobs : cmd'[k] = cmd[k] PROVE GoodInv'
  BY <1>2, GoodFrame DEF jvars
<1>3. CASE (Write \/ Tick) /\ UNCHANGED jvars
  <2>1. cmd' = cmd
    BY <1>3, Zenon DEF Write, Tick
  <2> QED BY <1>2, <1>3, <2>1
<1>4. ASSUME NEW c \in Cmds \ Jobs, UserStep(c) PROVE GoodInv'
  <2>1. \A d \in Cmds \ {c} : cmd'[d] = cmd[d]
    <3>1. CASE Step(c)
      BY <1>1, <1>4, <3>1, WorkOp DEF Step
    <3>2. ASSUME NEW op \in Ops, Begin(c, op) PROVE \A d \in Cmds \ {c} : cmd'[d] = cmd[d]
      BY <1>1, <1>4, <3>2 DEF Begin
    <3> QED BY <1>4, <3>1, <3>2 DEF UserStep
  <2> QED BY <1>1, <1>2, <1>4, <2>1 DEF UserStep
<1>5. ASSUME NEW j \in Jobs, ChildWorks(j) PROVE GoodInv'
  <2>1. /\ cmd[j].op # "none" /\ cmd'[j].op \in {cmd[j].op, "none"}
        /\ \A d \in Cmds \ {j} : cmd'[d] = cmd[d]
    BY <1>1, <1>5, WorkOp, Zenon DEF ChildWorks
  <2>2. CASE cmd'[j].op # "none"
    <3>1. UNCHANGED <<job, good, period>>
      BY <1>5, <2>2 DEF ChildWorks
    <3> QED BY <1>1, <2>1, <2>2, <3>1, GoodFrame
  <2>3. CASE cmd'[j].op = "none"
    <3>1. period' = period /\ \E res \in {"ok", "err"} : ChildEnds(j, res)
      BY <1>5, <2>3 DEF ChildWorks
    <3> QED BY <1>1, <2>1, <3>1, GoodEnds
  <2> QED BY <2>2, <2>3
<1>6. ASSUME NEW j \in Jobs, ReblockEnds(j) \/ ChildFails(j) PROVE GoodInv'
  <2>1. cmd[j].op # "none" /\ Exit(j) /\ period' = period
    BY <1>6 DEF ReblockEnds, ChildFails, Die
  <2>2. \E res \in {"ok", "err"} : ChildEnds(j, res)
    BY <1>6, CleanupAssumption DEF ReblockEnds, ChildFails
  <2>3. \A k \in Jobs \ {j} : cmd'[k] = cmd[k]
    BY <1>1, <2>1 DEF Exit
  <2> QED BY <2>1, <2>2, <2>3, GoodEnds
<1>7. ASSUME NEW j \in Jobs, JobStep(j) PROVE GoodInv'
  BY <1>5, <1>6, <1>7, GoodJob, GoodWait
<1>8. CASE UNCHANGED allvars
  BY <1>2, <1>8 DEF allvars, vars
<1> QED BY <1>3, <1>4, <1>7, <1>8 DEF CleanupNext

\* create_snapshot hands its status on: when children are not killed, no period
\* is saved for a snapshots run that failed, so the next job tries again.
THEOREM FailedSnapshotRetried ==
    ASSUME "killed" \notin Results PROVE CleanupSpec => []SnapshotRetried
<1>1. CleanupInit => GoodInv
  <2> SUFFICES ASSUME CleanupInit PROVE GoodInv
    OBVIOUS
  <2>1. \A k \in Jobs : job[k].pc # "wait"
    BY DEF CleanupInit, NoJob
  <2>2. SnapshotRetried
    BY DEF CleanupInit, SnapshotRetried
  <2> QED BY <2>1, <2>2 DEF GoodInv, EndedWell
<1>2. CleanupIInv /\ GoodInv /\ [CleanupNext]_allvars => CleanupIInv' /\ GoodInv'
  BY CleanupStep, GoodStep
<1>3. GoodInv => SnapshotRetried
  BY DEF GoodInv
<1> QED BY <1>1, <1>2, <1>3, CleanupInitial, PTL DEF CleanupSpec
=============================================================================
