------------------------------- MODULE Cleanup -------------------------------
(***************************************************************************)
(* hammer cleanup: jobs of do_cleanup on one PFS.  A job migrates the      *)
(* snapshots directory of an upgraded filesystem, locks the PFS and runs   *)
(* the directives of the configuration, each as a child process (runcmd)   *)
(* that it waits for.  A job and its child share a slot: the child of job  *)
(* j is cmd[j] of Snapshots.  A job may be killed while its child runs on. *)
(***************************************************************************)
EXTENDS Snapshots, Sequences

CONSTANTS Jobs,     \* slots of cleanup jobs; the rest of Cmds are users' commands
          Config,   \* the directives: <<[cmd, period, arg2], ...>>
          Old,      \* the softlinks of the old snapshots directory, {} for none
          Results   \* how a child may end

ASSUME CleanupAssumption ==
    /\ Jobs \subseteq Cmds
    /\ Config \in Seq([cmd : {"snapshots", "prune", "reblock"}, period : Nat, arg2 : Nat])
    /\ Old \subseteq Links
    /\ Results \subseteq {"ok", "err", "killed"}

VARIABLES job,       \* the jobs
          period,    \* the .period files of the directives, 0 for none
          good,      \* history: the start times of the last successful runs
          old,       \* the softlinks left in the old snapshots directory
          oldcfg,    \* the old directory has a config file
          newdir     \* the new snapshots directory exists
jvars == <<job, period, good, old, oldcfg, newdir>>
allvars == <<vars, jvars>>

Dirs == {Config[i].cmd : i \in 1..Len(Config)}
NoJob == [pc |-> "idle", i |-> 1, disabled |-> FALSE, savet |-> 0, lock |-> FALSE, res |-> "ok"]

\* An old snapshots directory was there before the jobs: its snapshots lie in the
\* past, and the file may have been rewritten since.
CleanupInit ==
    /\ gone = {} /\ links = {} /\ meta = {} /\ doomed = {}
    /\ cmd = [c \in Cmds |-> Idle]
    /\ IF Old = {}
       THEN now = 1 /\ tid = 1 /\ recs = {[cre |-> 1, del |-> 0, died |-> 0]}
       ELSE /\ now \in Times \ {0} /\ tid \in Tids \ {0}
            /\ \A l \in Old : l.name < now /\ l.tid < tid
            /\ recs = {[cre |-> 1, del |-> tid, died |-> 1],
                       [cre |-> tid, del |-> 0, died |-> 0]}
    /\ job = [j \in Jobs |-> NoJob]
    /\ period = [d \in Dirs |-> 0] /\ good = [d \in Dirs |-> 0]
    /\ old = Old /\ oldcfg = (Old # {}) /\ newdir = (Old = {})

JobAt(j, pc) == job[j].pc = pc
JobGoto(j, pc) == job' = [job EXCEPT ![j].pc = pc]
Quit(j) == job' = [job EXCEPT ![j] = NoJob]
Directive(j) == Config[job[j].i]
-----------------------------------------------------------------------------
\* The config file of the old directory is opened, if there is one.
StartJob(j) ==
    /\ JobAt(j, "idle") /\ cmd[j].op = "none"
    /\ JobGoto(j, IF oldcfg THEN "migrate" ELSE "stat")
    /\ UNCHANGED <<vars, period, good, old, oldcfg, newdir>>

\* migrate_snapshots: the softlinks with a date in their name (name # 0) are
\* recorded in the meta-data.
MigrateSnapshots(j) ==
    /\ JobAt(j, "migrate")
    /\ meta' = meta \cup {[tid |-> l.tid, ts |-> l.name] : l \in {l \in old : l.name # 0}}
    /\ JobGoto(j, "setconfig")
    /\ UNCHANGED <<now, tid, recs, gone, links, doomed, cmd, period, good, old, oldcfg, newdir>>

\* The configuration is in the meta-data: the old file goes.
SetConfig(j) ==
    /\ JobAt(j, "setconfig")
    /\ oldcfg' = FALSE
    /\ JobGoto(j, "stat")
    /\ UNCHANGED <<vars, period, good, old, newdir>>

StatNew(j) ==
    /\ JobAt(j, "stat")
    /\ JobGoto(j, IF newdir THEN "lock" ELSE "mkdir")
    /\ UNCHANGED <<vars, period, good, old, oldcfg, newdir>>

Mkdir(j) ==
    /\ JobAt(j, "mkdir")
    /\ newdir' = TRUE
    /\ JobGoto(j, "cpdup")
    /\ UNCHANGED <<vars, period, good, old, oldcfg>>

\* WEXITSTATUS of a child that a signal ended is 0.
ExitStatus(res) == IF res = "err" THEN 1 ELSE 0

\* Mutant: the copy counts as done when it failed.
CpdupUnchecked(j) ==
    /\ JobAt(j, "cpdup")
    /\ \E X \in SUBSET old : links' = links \cup X
    /\ JobGoto(j, "rm")
    /\ UNCHANGED <<now, tid, recs, gone, meta, doomed, cmd, period, good, old, oldcfg, newdir>>

\* cpdup copies all, or fails or is killed on the way.
Cpdup(j) ==
    /\ JobAt(j, "cpdup")
    /\ \E res \in Results, X \in SUBSET old :
         /\ res = "ok" => X = old
         /\ links' = links \cup X
         /\ IF ExitStatus(res) # 0 THEN Quit(j) ELSE JobGoto(j, "rm")
    /\ UNCHANGED <<now, tid, recs, gone, meta, doomed, cmd, period, good, old, oldcfg, newdir>>

RemoveOld(j) ==
    /\ JobAt(j, "rm")
    /\ old' = {}
    /\ JobGoto(j, "lock")
    /\ UNCHANGED <<vars, period, good, oldcfg, newdir>>
-----------------------------------------------------------------------------
\* Mutant: a job goes on without the lock.
LockIgnored(j) ==
    /\ JobAt(j, "lock")
    /\ job' = [job EXCEPT ![j].lock = TRUE, ![j].pc = "dir"]
    /\ UNCHANGED <<vars, period, good, old, oldcfg, newdir>>

\* flock(LOCK_EX|LOCK_NB) on the PFS's root directory.
Lock(j) ==
    /\ JobAt(j, "lock")
    /\ IF \E k \in Jobs : job[k].lock THEN Quit(j)
       ELSE job' = [job EXCEPT ![j].lock = TRUE, ![j].pc = "dir"]
    /\ UNCHANGED <<vars, period, good, old, oldcfg, newdir>>

\* check_period
Due(d) == period[d.cmd] = 0 \/ now - period[d.cmd] >= d.period

NextDirective(j) == job' = [job EXCEPT ![j].i = @ + 1, ![j].pc = "dir"]

Reading(j, name) == JobAt(j, "dir") /\ job[j].i <= Len(Config) /\ Directive(j).cmd = name

\* check_softlinks
AnySnapshots == links # {} \/ meta # {}

SnapshotsDirective(j) ==
    /\ Reading(j, "snapshots")
    /\ LET d == Directive(j) IN
       \/ /\ d.period = 0 /\ d.arg2 # 0 /\ AnySnapshots
          /\ JobGoto(j, "expire_links")
       \/ /\ d.period = 0 /\ ~(d.arg2 # 0 /\ AnySnapshots)
          /\ job' = [job EXCEPT ![j].disabled = TRUE, ![j].i = @ + 1]
       \/ /\ d.period # 0 /\ Due(d)
          /\ job' = [job EXCEPT ![j].savet = now, ![j].pc = "expire_links"]
       \/ /\ d.period # 0 /\ ~Due(d)
          /\ NextDirective(j)
    /\ UNCHANGED <<vars, period, good, old, oldcfg, newdir>>

\* cleanup_softlinks: the softlinks whose name is a date older than the retention.
ExpireLinks(j) ==
    /\ JobAt(j, "expire_links")
    /\ LET X == {l \in links : l.name # 0 /\ now - l.name > Directive(j).arg2} IN
       links' = links \ X /\ doomed' = doomed \cup {l.tid : l \in X}
    /\ JobGoto(j, "expire_meta")
    /\ UNCHANGED <<now, tid, recs, gone, meta, cmd, period, good, old, oldcfg, newdir>>

Child(j, op) == cmd' = [cmd EXCEPT ![j] = [Idle EXCEPT !.op = op, !.pc = FirstPc(op)]]

\* ... and the meta-data snapshots; then the new snapshot is taken.
ExpireMeta(j) ==
    /\ JobAt(j, "expire_meta")
    /\ LET X == {m \in meta : now - m.ts > Directive(j).arg2} IN
       /\ meta' = IF Version3 THEN meta \ X ELSE meta
       /\ doomed' = IF Version3 THEN doomed \cup {m.tid : m \in X} ELSE doomed
    /\ IF Directive(j).period = 0 THEN NextDirective(j) /\ cmd' = cmd
       ELSE JobGoto(j, "wait") /\ Child(j, "snapshot")
    /\ UNCHANGED <<now, tid, recs, gone, links, period, good, old, oldcfg, newdir>>

\* hammer prune of a directory without snapshot softlinks is given the PFS's
\* root instead, where none are expected.
PruneRoot(j) ==
    cmd' = [cmd EXCEPT ![j] = [Idle EXCEPT !.op = "prune",
                                           !.pc = IF Version3 THEN "scanmeta" ELSE "ioctl"]]

OtherDirective(j) ==
    /\ Reading(j, "prune") \/ Reading(j, "reblock")
    /\ LET d == Directive(j) IN
       \/ /\ d.period = 0 \/ ~Due(d)
          /\ NextDirective(j) /\ cmd' = cmd
       \/ /\ d.period # 0 /\ Due(d)
          /\ job' = [job EXCEPT ![j].savet = now, ![j].pc = "wait"]
          /\ \/ d.cmd = "reblock" /\ cmd' = [cmd EXCEPT ![j] = [Idle EXCEPT !.op = "reblock"]]
             \/ d.cmd = "prune" /\ job[j].disabled /\ Child(j, "everything")
             \/ d.cmd = "prune" /\ ~job[j].disabled /\ links # {} /\ Child(j, "prune")
             \/ d.cmd = "prune" /\ ~job[j].disabled /\ links = {} /\ PruneRoot(j)
    /\ UNCHANGED <<now, tid, recs, gone, links, meta, doomed, period, good, old, oldcfg, newdir>>
-----------------------------------------------------------------------------
\* The child has ended with res.  The PFS's lock is held through the child's
\* descriptor until then, also when the job is dead.
ChildEnds(j, res) ==
    /\ IF JobAt(j, "dead") THEN Quit(j) ELSE job' = [job EXCEPT ![j].res = res]
    /\ good' = IF res = "ok" /\ JobAt(j, "wait")
               THEN [good EXCEPT ![Directive(j).cmd] = job[j].savet] ELSE good

ChildWorks(j) ==
    /\ Work(j)
    /\ IF cmd'[j].op # "none" THEN UNCHANGED <<job, good>>
       ELSE ChildEnds(j, IF At(j, "snapshot", "symlink") /\ Clash(j) THEN "err" ELSE "ok")
    /\ UNCHANGED <<period, old, oldcfg, newdir>>

\* rebalance, reblock, recopy and dedup work elsewhere.
ReblockEnds(j) ==
    /\ cmd[j].op = "reblock"
    /\ Exit(j) /\ ChildEnds(j, "ok")
    /\ UNCHANGED <<now, tid, recs, gone, links, meta, doomed, period, old, oldcfg, newdir>>

ChildFails(j) ==
    /\ Die(j)
    /\ \E res \in Results \ {"ok"} : ChildEnds(j, res)
    /\ UNCHANGED <<period, old, oldcfg, newdir>>

\* Mutant: the status of the snapshot command is ignored too.
WaitIgnores(j) ==
    /\ JobAt(j, "wait") /\ cmd[j].op = "none"
    /\ period' = [period EXCEPT ![Directive(j).cmd] = job[j].savet]
    /\ job' = [job EXCEPT ![j].i = @ + 1, ![j].pc = "dir", ![j].res = "ok"]
    /\ UNCHANGED <<vars, good, old, oldcfg, newdir>>

\* waitpid: only create_snapshot hands the status on, the others return 0.
Wait(j) ==
    /\ JobAt(j, "wait") /\ cmd[j].op = "none"
    /\ LET d == Directive(j).cmd
           r == IF d = "snapshots" THEN ExitStatus(job[j].res) ELSE 0 IN
       period' = IF r = 0 THEN [period EXCEPT ![d] = job[j].savet] ELSE period
    /\ job' = [job EXCEPT ![j].i = @ + 1, ![j].pc = "dir", ![j].res = "ok"]
    /\ UNCHANGED <<vars, good, old, oldcfg, newdir>>

Finished(j) ==
    /\ JobAt(j, "dir") /\ job[j].i > Len(Config)
    /\ Quit(j)
    /\ UNCHANGED <<vars, period, good, old, oldcfg, newdir>>

\* Mutant: the child does not inherit the descriptor that holds the lock.
KillCloexec(j) ==
    /\ job[j].pc \notin {"idle", "dead"}
    /\ IF cmd[j].op = "none" THEN Quit(j)
       ELSE job' = [job EXCEPT ![j].pc = "dead", ![j].lock = FALSE]
    /\ UNCHANGED <<vars, period, good, old, oldcfg, newdir>>

\* The job is killed (abort-cleanup sends SIGTERM); its child is not.
Kill(j) ==
    /\ job[j].pc \notin {"idle", "dead"}
    /\ IF cmd[j].op = "none" THEN Quit(j) ELSE JobGoto(j, "dead")
    /\ UNCHANGED <<vars, period, good, old, oldcfg, newdir>>

JobStep(j) ==
    \/ StartJob(j) \/ MigrateSnapshots(j) \/ SetConfig(j) \/ StatNew(j) \/ Mkdir(j)
    \/ Cpdup(j) \/ RemoveOld(j) \/ Lock(j)
    \/ SnapshotsDirective(j) \/ ExpireLinks(j) \/ ExpireMeta(j) \/ OtherDirective(j)
    \/ Wait(j) \/ Finished(j) \/ Kill(j)
    \/ ChildWorks(j) \/ ReblockEnds(j) \/ ChildFails(j)

UserStep(c) ==
    /\ Step(c) \/ \E op \in Ops : Begin(c, op)
    /\ UNCHANGED jvars

CleanupNext ==
    \/ (Write \/ Tick) /\ UNCHANGED jvars
    \/ \E j \in Jobs : JobStep(j)
    \/ \E c \in Cmds \ Jobs : UserStep(c)

CleanupSpec == CleanupInit /\ [][CleanupNext]_allvars
-----------------------------------------------------------------------------
\* No two jobs' commands ever work on the PFS at the same time, those that
\* outlive their job included: what the lock on the PFS is for.
PfsExclusive ==
    \A j, k \in Jobs : cmd[j].op # "none" /\ cmd[k].op # "none" => j = k

\* A directive's period passes between two runs that are saved, however many
\* jobs there are.
PeriodKept ==
    \A i \in 1..Len(Config) : LET d == Config[i].cmd IN
        period'[d] # period[d] =>
            period[d] = 0 \/ period'[d] - period[d] >= Config[i].period
OncePerPeriod == [][PeriodKept]_allvars

\* "Store the start time of the last successful operation."
PeriodOfSuccess == \A d \in Dirs : period[d] <= good[d]

\* A snapshot run that ended with an error is tried again.
SnapshotRetried ==
    "snapshots" \in Dirs => period["snapshots"] <= good["snapshots"]

\* Snapshots of the old directory with a date in their name keep their data even
\* if the directory is lost: "this way the pruning code won't lose track of them".
MigratedIntact ==
    \A l \in Old, g \in gone : l.name = 0 \/ l.tid \in doomed \/ ~VisibleAt(g.v, l.tid)

\* The same for every softlink of the old directory ("Their data will be retained
\* ... for as long as the softlink exists").
OldIntact ==
    \A l \in Old \cap (old \cup links), g \in gone : l.tid \in doomed \/ ~VisibleAt(g.v, l.tid)

\* The migration loses no softlink of the old directory.
OldLinksKept == \A l \in Old : l \in old \cup links \/ l.tid \in doomed

\* prune-everything is used when "the snapshots directive has a period of 0 and a
\* retention time of 0".
EverythingWhenDisabled ==
    \A j \in Jobs : cmd[j].op = "everything" =>
        \E i \in 1..Len(Config) : Config[i].cmd = "snapshots"
                                   /\ Config[i].period = 0 /\ Config[i].arg2 = 0

\* A job uses prune-everything only after a snapshots directive with a period
\* of 0: never when cleanup is to make snapshots, and never before it has looked.
EverythingAfterDisabled ==
    \A j \in Jobs : cmd[j].op = "everything" =>
        \E i \in 1..job[j].i - 1 : Config[i].cmd = "snapshots" /\ Config[i].period = 0

\* The jobs of one PFS exclude each other, and none uses prune-everything
\* unless cleanup has been told to make no snapshots.
CleanupSafe == PfsExclusive /\ EverythingAfterDisabled
-----------------------------------------------------------------------------
(* Inductive invariants.                                                   *)

JobType == [pc : {"idle", "migrate", "setconfig", "stat", "mkdir", "cpdup", "rm", "lock", "dir",
                  "expire_links", "expire_meta", "wait", "dead"},
            i : Nat \ {0}, disabled : BOOLEAN, savet : Nat, lock : BOOLEAN,
            res : {"ok", "err", "killed"}]

CleanupType ==
    /\ now \in Nat
    /\ DOMAIN cmd = Cmds /\ \A c \in Cmds : "op" \in DOMAIN cmd[c]
    /\ job \in [Jobs -> JobType] /\ period \in [Dirs -> Nat] /\ good \in [Dirs -> Nat]

Running == {"expire_links", "expire_meta", "wait"}

Disabled(n) == \E i \in 1..n - 1 : Config[i].cmd = "snapshots" /\ Config[i].period = 0

\* The directive d was due at t, which has come.
DueAt(d, t) ==
    /\ period[d.cmd] <= t /\ t <= now
    /\ period[d.cmd] = 0 \/ t - period[d.cmd] >= d.period

\* A job r that runs directives has the lock of the PFS, and so has a command
\* that outlives its job; the directive it runs was due when it began.
JobOk(r, op) ==
    /\ r.pc \in Running \cup {"dir"} => r.lock
    /\ op # "none" => r.lock /\ r.pc \in {"wait", "dead"}
    /\ r.disabled \/ op = "everything" => Disabled(r.i)
    /\ r.pc \in Running =>
         /\ r.i \in 1..Len(Config)
         /\ r.pc = "wait" => Config[r.i].period # 0
         /\ Config[r.i].period # 0 => DueAt(Config[r.i], r.savet)

OneLock == \A j, k \in Jobs : job[j].lock /\ job[k].lock => j = k

CleanupIInv ==
    /\ CleanupType /\ OneLock
    /\ \A d \in Dirs : period[d] <= now
    /\ \A j \in Jobs : JobOk(job[j], cmd[j].op)

EndedWell(j) == job[j].pc = "wait" /\ cmd[j].op = "none" /\ ExitStatus(job[j].res) = 0

\* The start of a run that ended well is on record when its period file is
\* written.
GoodInv ==
    /\ \A j \in Jobs : EndedWell(j) => good[Directive(j).cmd] = job[j].savet
    /\ SnapshotRetried
=============================================================================
