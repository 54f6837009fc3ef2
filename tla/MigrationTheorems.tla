-------------------------- MODULE MigrationTheorems --------------------------
(***************************************************************************)
(* Theorems about what the jobs of hammer cleanup leave of the snapshots:  *)
(* they keep the data of those that are recorded, and migrate an old       *)
(* snapshots directory without loss of data or softlinks.                  *)
(***************************************************************************)
EXTENDS CleanupTheorems, SnapshotTheorems

\* The setting in which cleanup manages the snapshots: a version 3 filesystem, a
\* configuration that makes snapshots, and users who may remove snapshots and
\* prune.  There may be an old snapshots directory to migrate, whose softlinks
\* have a date in their names.
Manages ==
    /\ Plain /\ Ops \cap {"snapshot", "everything"} = {}
    /\ ~Disabled(Len(Config) + 1)
    /\ \A l \in Old : l.name # 0

\* The snapshots of the old directory are in the meta-data, or have been.
Migrated == {l.tid : l \in Old} \subseteq Known

\* A command that has found no snapshot and makes none.
Quiet(e) == e.op \in {"none", "prune"} /\ e.todo = {} /\ e.scan = {}

\* Nobody has begun to migrate the old directory: no snapshot is in sight.
Untouched ==
    /\ oldcfg /\ old = Old /\ meta = {} /\ links = {} /\ gone = {}
    /\ \A j \in Jobs : job[j].pc \in {"idle", "migrate"}
    /\ \A c \in Cmds : Quiet(cmd[c])

MigrationInv ==
    /\ old \subseteq Old /\ \A l \in Old : l.tid <= tid
    /\ Migrated \/ Untouched

\* The jobs' commands and the users' together keep what Snapshots needs.
KeepInv ==
    /\ SnapInv /\ CleanupIInv /\ MigrationInv
    /\ \A c \in Cmds \ Jobs : cmd[c].op \in Ops \cup {"none"}

\* A step of a command, of a job or of a user.
LEMMA WorkKeeps == ASSUME SnapInv, Plain, NEW c \in Cmds, Work(c) \/ Die(c) PROVE SnapInv'
BY SyncTidInv, AddMetaInv, RemoveLinkInv, SymlinkInv, DelMetaInv, UnlinkInv, OpenDirInv,
   ScanDirInv, ScanMetaInv, PruneInv, DieInv DEF Work

\* No command forgets a snapshot that was in the meta-data.
LEMMA KnownGrows ==
    ASSUME SnapInv, NEW c \in Cmds, Work(c) \/ Die(c)
    PROVE  Known \subseteq Known' /\ tid' \in {tid, tid + 1}
<1>1. OwnInv
  BY DEF SnapInv
<1>2. tid' \in {tid, tid + 1} /\ doomed' = doomed
  BY DEF Work, SyncTid, AddMeta, RemoveLink, Symlink, DelMeta, Unlink, OpenDir, ScanDir, ScanMeta,
         Prune, Die
<1>3. \A m \in meta : m \in meta' \/ m.tid \in doomed
  <2>1. CASE AddMeta(c)
    BY <2>1 DEF AddMeta
  <2>2. CASE DelMeta(c)
    <3>1. cmd[c].tid \in doomed
      BY <1>1, <2>2 DEF OwnInv, DelMeta, At
    <3> QED BY <2>2, <3>1 DEF DelMeta
  <2>3. CASE ScanMeta(c)
    BY <1>1, <2>3 DEF ScanMeta, OwnInv
  <2>4. CASE SyncTid(c) \/ RemoveLink(c) \/ Symlink(c) \/ Unlink(c) \/ OpenDir(c) \/ ScanDir(c)
             \/ Prune(c) \/ Die(c)
    BY <2>4 DEF SyncTid, RemoveLink, Symlink, Unlink, OpenDir, ScanDir, Prune, Die
  <2> QED BY <2>1, <2>2, <2>3, <2>4 DEF Work
<1> QED BY <1>2, <1>3 DEF Known

\* A prune that has found no snapshot has no range.
LEMMA NoRanges == ASSUME NEW ts PROVE Elms({}, ts) = {}
<1>1. {x.tid : x \in {}} = {}
  OBVIOUS
<1>2. \A y : Kept({}, y) = {}
  BY DEF Kept
<1>3. Ranges({}) = {}
  BY DEF Ranges, Teeth
<1> QED BY <1>1, <1>2, <1>3 DEF Elms

\* Before the migration the users' prunes find no snapshot and take nothing.
LEMMA QuietWork ==
    ASSUME SnapInv, Plain, Untouched, NEW c \in Cmds, Work(c) \/ Die(c)
    PROVE  meta' = {} /\ links' = {} /\ gone' = {} /\ \A d \in Cmds : Quiet(cmd'[d])
<1>1. /\ cmd \in [Cmds -> CmdType] /\ \A d \in Cmds : Quiet(cmd[d])
      /\ meta = {} /\ links = {} /\ gone = {}
  BY Zenon DEF SnapInv, TypeOK, Untouched
<1>2. cmd[c].op \in {"none", "prune"} /\ cmd[c].todo = {} /\ cmd[c].scan = {}
  BY <1>1 DEF Quiet
<1>3. ASSUME Exit(c) PROVE \A d \in Cmds : Quiet(cmd'[d])
  <2>1. Quiet(Idle)
    BY DEF Idle, Quiet
  <2> QED BY <1>1, <1>3, <2>1 DEF Exit
<1>4. ASSUME NEW e, Quiet(e), cmd' = [cmd EXCEPT ![c] = e] PROVE \A d \in Cmds : Quiet(cmd'[d])
  BY <1>1, <1>4
<1>5. CASE OpenDir(c)
  <2> DEFINE e == [cmd[c] EXCEPT !.pc = "scandir", !.todo = links]
  <2>1. Quiet(e)
    BY <1>1, <1>2 DEF Quiet, CmdType
  <2>2. cmd' = [cmd EXCEPT ![c] = e]
    BY <1>5, Zenon DEF OpenDir
  <2> HIDE DEF e
  <2> QED BY <1>1, <1>4, <1>5, <2>1, <2>2 DEF OpenDir
<1>6. CASE ScanDir(c)
  <2>1. PICK X \in SUBSET (cmd[c].todo \cup links) :
          cmd' = [cmd EXCEPT ![c].pc = IF Version3 THEN "scanmeta" ELSE "ioctl",
                             ![c].todo = {}, ![c].scan = FromLinks(X)]
    BY <1>6, Zenon DEF ScanDir
  <2>2. FromLinks(X) = {}
    BY <1>1, <1>2, Zenon DEF FromLinks, Plain
  <2> DEFINE e == [cmd[c] EXCEPT !.pc = IF Version3 THEN "scanmeta" ELSE "ioctl",
                                 !.todo = {}, !.scan = FromLinks(X)]
  <2>3. Quiet(e)
    BY <1>1, <1>2, <2>2 DEF Quiet, CmdType
  <2>4. cmd' = [cmd EXCEPT ![c] = e]
    BY <2>1, Zenon
  <2> HIDE DEF e
  <2> QED BY <1>1, <1>4, <1>6, <2>3, <2>4 DEF ScanDir
<1>7. CASE ScanMeta(c)
  <2> DEFINE e == [cmd[c] EXCEPT !.pc = "ioctl", !.scan = @ \cup meta]
  <2>1. Quiet(e)
    BY <1>1, <1>2 DEF Quiet, CmdType
  <2>2. cmd' = [cmd EXCEPT ![c] = e] /\ meta' = meta /\ UNCHANGED <<links, gone>>
    BY <1>2, <1>7, Zenon DEF ScanMeta
  <2> HIDE DEF e
  <2> QED BY <1>1, <1>4, <2>1, <2>2
<1>8. CASE Prune(c)
  <2>1. PICK ts :
          LET dead == {v \in recs : v.del # 0 /\
                          \/ cmd[c].op = "everything"
                          \/ \E r \in Elms(cmd[c].scan, ts) : Prunes(r, v)} IN
          \E D \in SUBSET dead : gone' = gone \cup {[v |-> v, at |-> now] : v \in D}
    BY <1>8, Zenon DEF Prune
  <2>2. Elms(cmd[c].scan, ts) = {} /\ cmd[c].op # "everything"
    BY <1>2, NoRanges
  <2>3. \E D \in SUBSET {} : gone' = gone \cup {[v |-> v, at |-> now] : v \in D}
    BY <2>1, <2>2
  <2>4. gone' = {}
    BY <1>1, <2>3
  <2> QED BY <1>1, <1>3, <1>8, <2>4 DEF Prune
<1>9. CASE Die(c)
  BY <1>1, <1>3, <1>9, Zenon DEF Die
<1>10. ~(SyncTid(c) \/ AddMeta(c) \/ RemoveLink(c) \/ Symlink(c) \/ DelMeta(c) \/ Unlink(c))
  BY <1>2 DEF SyncTid, AddMeta, RemoveLink, Symlink, DelMeta, Unlink, At
<1> QED BY <1>5, <1>6, <1>7, <1>8, <1>9, <1>10 DEF Work

\* A command that a job has just started: snapshot, prune with or without the
\* scan of the directory, or one that works elsewhere.
NewChild(e) ==
    /\ e.op \in {"snapshot", "prune", "reblock"}
    /\ e.pc \in {"done", "synctid", "opendir", "scanmeta"} /\ e.todo = {} /\ e.scan = {}

\* A job expires the softlinks X and the meta-data snapshots Y, which then count
\* as removed, and may start a command: snapshot only if there is no other.
LEMMA TurnKeeps ==
    ASSUME SnapInv, NEW X \in SUBSET links, NEW Y \in SUBSET meta,
           links' = links \ X, meta' = meta \ Y,
           doomed' = doomed \cup {l.tid : l \in X} \cup {m.tid : m \in Y},
           UNCHANGED <<now, tid, recs, gone>>,
           NEW c \in Cmds, cmd' \in [Cmds -> CmdType], \A d \in Cmds \ {c} : cmd'[d] = cmd[d],
           \/ cmd'[c] = cmd[c]
           \/ /\ NewChild(cmd'[c])
              /\ cmd'[c].op = "snapshot" => \A d \in Cmds \ {c} : cmd[d].op # "snapshot"
    PROVE  SnapInv' /\ Known' = Known
<1>1. TypeOK /\ KnownInv /\ GoneInv /\ PendingInv /\ OwnInv /\ ScanInv /\ IntactInv
  BY DEF SnapInv
<1>2. links \subseteq Links /\ meta \subseteq [tid : Tids, ts : Times] /\ doomed \subseteq Tids
  BY <1>1 DEF TypeOK
<1>3. doomed' \subseteq Tids
  BY <1>2 DEF Links
<1>4. TypeOK'
  BY <1>1, <1>2, <1>3 DEF TypeOK
<1>5. Known' = Known
  <2>1. {l.tid : l \in X} \subseteq Known
    BY <1>1, Zenon DEF KnownInv
  <2>2. {m.tid : m \in Y} \subseteq Known /\ doomed \subseteq Known
    BY DEF Known
  <2>3. Known' \subseteq Known
    BY <2>1, <2>2 DEF Known
  <2>4. Known \subseteq Known'
    BY DEF Known
  <2> QED BY <2>3, <2>4, Zenon
<1>6. doomed \subseteq doomed' /\ links' \subseteq links /\ meta' \subseteq meta
  OBVIOUS
<1>7. \A d \in Cmds : cmd'[d] = cmd[d] \/ NewChild(cmd'[d])
  OBVIOUS
<1>8. KnownInv'
  BY <1>1, <1>5, <1>6, <1>7 DEF KnownInv, NewChild
<1>9. GoneInv' /\ PendingInv'
  BY <1>1, <1>5, <1>7 DEF GoneInv, PendingInv, At, NewChild
<1>10. OwnInv'
  <2>1. \A d, e \in Cmds : cmd'[d].op = "snapshot" /\ cmd'[e].op = "snapshot" => d = e
    BY <1>1 DEF OwnInv
  <2>2. \A d \in Cmds : cmd'[d].op = "snapshot" /\ cmd'[d].pc \in {"remove", "symlink"} =>
                          cmd'[d].tid \in Known'
    BY <1>1, <1>5, <1>7, Zenon DEF OwnInv, NewChild
  <2>3. \A d \in Cmds : /\ cmd'[d].op = "snaprm" => cmd'[d].tid \in doomed'
                        /\ cmd'[d].op # "everything"
    BY <1>1, <1>6, <1>7 DEF OwnInv, NewChild
  <2> QED BY <2>1, <2>2, <2>3 DEF OwnInv
<1>11. ScanInv'
  BY <1>1, <1>6, <1>7 DEF ScanInv, At, NewChild
<1>12. IntactInv'
  BY <1>1, <1>6 DEF IntactInv
<1> QED BY <1>4, <1>5, <1>8, <1>9, <1>10, <1>11, <1>12 DEF SnapInv

\* The lock of the PFS makes the snapshot commands of the jobs take turns.
LEMMA OneSnapshotJob ==
    ASSUME KeepInv, Manages, NEW j \in Jobs, job[j].lock
    PROVE  \A d \in Cmds \ {j} : cmd[d].op # "snapshot"
<1>1. \A k \in Jobs \ {j} : cmd[k].op = "none"
  <2>1. \A k \in Jobs \ {j} : ~job[k].lock /\ JobOk(job[k], cmd[k].op)
    BY DEF KeepInv, CleanupIInv, OneLock
  <2> QED BY <2>1 DEF JobOk
<1>2. \A c \in Cmds \ Jobs : cmd[c].op # "snapshot"
  BY DEF KeepInv, Manages
<1> QED BY <1>1, <1>2

\* The commands a job may start.
LEMMA ChildType ==
    ASSUME NEW op \in {"snapshot", "prune", "reblock"},
           NEW pc \in {"done", "synctid", "opendir", "scanmeta"}, NEW e,
           e = [Idle EXCEPT !.op = op, !.pc = pc] \/ e = [Idle EXCEPT !.op = op]
    PROVE  e \in CmdType /\ NewChild(e)
<1>1. 0 \in Tids /\ 0 \in Times
  BY SnapshotsAssumption DEF Tids, Times
<1>2. Idle \in CmdType /\ Idle.pc = "done" /\ Idle.todo = {} /\ Idle.scan = {}
  BY <1>1 DEF Idle, CmdType, Pcs
<1>3. CASE e = [Idle EXCEPT !.op = op, !.pc = pc]
  <2>1. e \in CmdType
    BY <1>2, <1>3, Zenon DEF CmdType, Pcs
  <2>2. e.op = op /\ e.pc = pc /\ e.todo = Idle.todo /\ e.scan = Idle.scan
    BY <1>2, <1>3 DEF CmdType
  <2> QED BY <1>2, <2>1, <2>2 DEF NewChild
<1>4. CASE e = [Idle EXCEPT !.op = op]
  <2>1. e \in CmdType
    BY <1>2, <1>4 DEF CmdType, Pcs
  <2>2. e.op = op /\ e.pc = Idle.pc /\ e.todo = Idle.todo /\ e.scan = Idle.scan
    BY <1>2, <1>4 DEF CmdType
  <2> QED BY <1>2, <2>1, <2>2 DEF NewChild
<1> QED BY <1>3, <1>4

\* A job that has the lock expires snapshots or starts its command, or both.
LEMMA StartKeeps ==
    ASSUME KeepInv, Manages, NEW j \in Jobs, job[j].pc \in Running \cup {"dir"},
           NEW X \in SUBSET links, NEW Y \in SUBSET meta,
           links' = links \ X, meta' = meta \ Y,
           doomed' = doomed \cup {l.tid : l \in X} \cup {m.tid : m \in Y},
           UNCHANGED <<now, tid, recs, gone>>,
           cmd' = cmd \/ \E e \in CmdType : NewChild(e) /\ cmd' = [cmd EXCEPT ![j] = e]
    PROVE  SnapInv' /\ Known' = Known
<1>1. job[j].lock
  BY DEF KeepInv, CleanupIInv, JobOk
<1>2. \A d \in Cmds \ {j} : cmd[d].op # "snapshot"
  BY <1>1, OneSnapshotJob
<1>3. SnapInv /\ j \in Cmds /\ cmd \in [Cmds -> CmdType]
  BY CleanupAssumption DEF KeepInv, SnapInv, TypeOK
<1>4. /\ cmd' \in [Cmds -> CmdType] /\ \A d \in Cmds \ {j} : cmd'[d] = cmd[d]
      /\ cmd'[j] = cmd[j] \/ NewChild(cmd'[j])
  BY <1>3
<1>5. \/ cmd'[j] = cmd[j]
      \/ /\ NewChild(cmd'[j])
         /\ cmd'[j].op = "snapshot" => \A d \in Cmds \ {j} : cmd[d].op # "snapshot"
  BY <1>2, <1>4
<1> QED BY <1>3, <1>4, <1>5, TurnKeeps, Zenon

\* A directive expires snapshots or starts its command; none is prune-everything.
LEMMA DirectiveKeeps ==
    ASSUME KeepInv, Manages, NEW j \in Jobs, ExpireLinks(j) \/ ExpireMeta(j) \/ OtherDirective(j)
    PROVE  SnapInv' /\ Known' = Known
<1>1. SnapInv /\ CleanupIInv /\ j \in Cmds /\ Version3
  BY CleanupAssumption DEF KeepInv, Manages, Plain
<1>2. {} \in SUBSET links /\ {} \in SUBSET meta /\ {l.tid : l \in {}} = {}
  OBVIOUS
<1>3. CASE ExpireLinks(j)
  <2> DEFINE X == {l \in links : l.name # 0 /\ now - l.name > Directive(j).arg2}
  <2>1. /\ links' = links \ X /\ doomed' = doomed \cup {l.tid : l \in X}
        /\ UNCHANGED <<now, tid, recs, gone, meta, cmd>> /\ job[j].pc = "expire_links"
    BY <1>3, Zenon DEF ExpireLinks, JobAt
  <2>2. X \in SUBSET links
    OBVIOUS
  <2> HIDE DEF X
  <2>3. meta' = meta \ {} /\ doomed' = doomed \cup {l.tid : l \in X} \cup {m.tid : m \in {}}
    BY <2>1
  <2> QED BY <1>2, <2>1, <2>2, <2>3, StartKeeps, Zenon DEF Running
<1>4. CASE ExpireMeta(j)
  <2> DEFINE Y == {m \in meta : now - m.ts > Directive(j).arg2}
             e == [Idle EXCEPT !.op = "snapshot", !.pc = "synctid"]
  <2>1. /\ meta' = meta \ Y /\ doomed' = doomed \cup {m.tid : m \in Y}
        /\ UNCHANGED <<now, tid, recs, gone, links>> /\ job[j].pc = "expire_meta"
        /\ cmd' = cmd \/ Child(j, "snapshot")
    BY <1>1, <1>4 DEF ExpireMeta, JobAt
  <2>2. Y \in SUBSET meta
    OBVIOUS
  <2>3. Child(j, "snapshot") => cmd' = [cmd EXCEPT ![j] = e]
    BY DEF Child, FirstPc
  <2>4. e \in CmdType /\ NewChild(e)
    BY ChildType
  <2> HIDE DEF Y, e
  <2>5. links' = links \ {} /\ doomed' = doomed \cup {l.tid : l \in {}} \cup {m.tid : m \in Y}
    BY <2>1
  <2>6. cmd' = cmd \/ \E f \in CmdType : NewChild(f) /\ cmd' = [cmd EXCEPT ![j] = f]
    BY <2>1, <2>3, <2>4
  <2> QED BY <1>2, <2>1, <2>2, <2>5, <2>6, StartKeeps, Zenon DEF Running
<1>5. CASE OtherDirective(j)
  <2>1. /\ UNCHANGED <<now, tid, recs, gone, links, meta, doomed>> /\ job[j].pc = "dir"
        /\ job[j].i <= Len(Config)
    BY <1>5 DEF OtherDirective, Reading, JobAt
  <2>2. ~job[j].disabled
    <3>1. JobOk(job[j], cmd[j].op) /\ job[j].i \in Nat /\ Len(Config) \in Nat
      <4>1. JobOk(job[j], cmd[j].op) /\ job[j] \in JobType
        BY <1>1 DEF CleanupIInv, CleanupType
      <4>2. job[j].i \in Nat
        BY <4>1 DEF JobType
      <4>3. Len(Config) \in Nat
        BY CleanupAssumption
      <4> QED BY <4>1, <4>2, <4>3
    <3>2. 1..job[j].i - 1 \subseteq 1..(Len(Config) + 1) - 1
      <4> DEFINE a == job[j].i
                 b == Len(Config)
      <4>1. a \in Nat /\ b \in Nat /\ a <= b
        BY <2>1, <3>1
      <4> HIDE DEF a, b
      <4>2. 1..a - 1 \subseteq 1..(b + 1) - 1
        BY <4>1
      <4> QED BY <4>2 DEF a, b
    <3>3. ~Disabled(job[j].i)
      BY <3>2 DEF Manages, Disabled
    <3> QED BY <3>1, <3>3 DEF JobOk
  <2>3. \/ cmd' = cmd \/ cmd' = [cmd EXCEPT ![j] = [Idle EXCEPT !.op = "reblock"]]
        \/ Child(j, "prune") \/ PruneRoot(j)
    BY <1>5, <2>2 DEF OtherDirective
  <2>4. cmd' = cmd \/ \E e \in CmdType : NewChild(e) /\ cmd' = [cmd EXCEPT ![j] = e]
    <3>1. CASE cmd' = [cmd EXCEPT ![j] = [Idle EXCEPT !.op = "reblock"]]
      <4> DEFINE e == [Idle EXCEPT !.op = "reblock"]
      <4>1. e \in CmdType /\ NewChild(e)
        BY ChildType
      <4> HIDE DEF e
      <4> QED BY <3>1, <4>1, Zenon DEF e
    <3>2. CASE Child(j, "prune")
      <4> DEFINE e == [Idle EXCEPT !.op = "prune", !.pc = "opendir"]
      <4>1. e \in CmdType /\ NewChild(e)
        BY ChildType
      <4>2. cmd' = [cmd EXCEPT ![j] = e]
        BY <3>2 DEF Child, FirstPc
      <4> HIDE DEF e
      <4> QED BY <4>1, <4>2, Zenon
    <3>3. CASE PruneRoot(j)
      <4> DEFINE e == [Idle EXCEPT !.op = "prune", !.pc = "scanmeta"]
      <4>1. e \in CmdType /\ NewChild(e)
        BY ChildType
      <4>2. cmd' = [cmd EXCEPT ![j] = e]
        BY <1>1, <3>3 DEF PruneRoot
      <4> HIDE DEF e
      <4> QED BY <4>1, <4>2, Zenon
    <3> QED BY <2>3, <3>1, <3>2, <3>3
  <2>5. links' = links \ {} /\ meta' = meta \ {}
        /\ doomed' = doomed \cup {l.tid : l \in {}} \cup {m.tid : m \in {}}
    BY <2>1
  <2> QED BY <1>2, <2>1, <2>4, <2>5, StartKeeps, Zenon
<1> QED BY <1>3, <1>4, <1>5

\* The migration records the snapshots of the old directory: before it there is
\* none, and a second job that does it again finds them recorded or removed.
LEMMA MigrateKeeps ==
    ASSUME KeepInv, Manages, NEW j \in Jobs, MigrateSnapshots(j)
    PROVE  SnapInv' /\ Migrated' /\ Known \subseteq Known'
<1> DEFINE M == {[tid |-> l.tid, ts |-> l.name] : l \in {l \in old : l.name # 0}}
<1>1. meta' = meta \cup M /\ UNCHANGED <<now, tid, recs, gone, links, doomed, cmd>>
  BY DEF MigrateSnapshots
<1>2. /\ TypeOK /\ KnownInv /\ GoneInv /\ PendingInv /\ OwnInv /\ ScanInv /\ IntactInv
      /\ MigrationInv
  BY DEF KeepInv, SnapInv
<1>3. \A m \in M : m \in [tid : Tids, ts : Times] /\ \E l \in Old : m.tid = l.tid
  <2>1. \A l \in old : l \in Old /\ l.tid \in Tids /\ l.name \in Times
    BY <1>2, CleanupAssumption DEF MigrationInv, Links
  <2> QED BY <2>1
<1>4. Untouched => \A l \in Old : \E m \in M : m.tid = l.tid
  <2> SUFFICES ASSUME Untouched, NEW l \in Old PROVE \E m \in M : m.tid = l.tid
    OBVIOUS
  <2>1. l \in old /\ l.name # 0
    BY DEF Untouched, Manages
  <2>2. [tid |-> l.tid, ts |-> l.name] \in M
    BY <2>1
  <2> QED BY <2>2, Zenon
<1> HIDE DEF M
<1>5. TypeOK'
  BY <1>1, <1>2, <1>3 DEF TypeOK
<1>6. Known' = Known \cup {m.tid : m \in M}
  BY <1>1 DEF Known
<1>7. Migrated'
  BY <1>2, <1>4, <1>6 DEF Migrated, MigrationInv
<1>8. KnownInv'
  <2>1. \A m \in M : m.tid <= tid
    BY <1>2, <1>3 DEF MigrationInv
  <2>2. \A t \in Known' : t <= tid'
    BY <1>1, <1>2, <1>6, <2>1 DEF KnownInv
  <2> QED BY <1>1, <1>2, <1>6, <2>2 DEF KnownInv
<1>9. CASE Migrated
  <2>1. \A m \in M : m.tid \in Known
    BY <1>3, <1>9 DEF Migrated
  <2>2. \A m \in M : m.tid \in doomed \/ \E n \in meta : n.tid = m.tid
    BY <2>1 DEF Known
  <2>3. Known' = Known
    BY <1>6, <2>1
  <2>4. GoneInv' /\ PendingInv' /\ OwnInv'
    BY <1>1, <1>2, <2>3 DEF GoneInv, PendingInv, OwnInv, At
  <2>5. \A m \in meta' : m.tid \in doomed \/ \E n \in meta : n.tid = m.tid
    BY <1>1, <2>2
  <2>6. ScanInv'
    BY <1>1, <1>2, <2>5 DEF ScanInv, At
  <2>7. IntactInv'
    BY <1>1, <1>2, <2>5 DEF IntactInv
  <2> QED BY <1>5, <1>6, <1>7, <1>8, <2>4, <2>6, <2>7 DEF SnapInv
<1>10. CASE Untouched
  <2>1. gone = {} /\ \A c \in Cmds : cmd[c].op \in {"none", "prune"} /\ cmd[c].scan = {}
    BY <1>10 DEF Untouched, Quiet
  <2>2. GoneInv' /\ PendingInv' /\ OwnInv' /\ ScanInv' /\ IntactInv'
    BY <1>1, <2>1 DEF GoneInv, PendingInv, OwnInv, ScanInv, IntactInv, At
  <2> QED BY <1>5, <1>6, <1>7, <1>8, <2>2 DEF SnapInv
<1> QED BY <1>2, <1>9, <1>10 DEF MigrationInv

\* cpdup copies softlinks whose snapshots are recorded by then.
LEMMA CopyKeeps ==
    ASSUME KeepInv, Manages, NEW j \in Jobs, Cpdup(j)
    PROVE  SnapInv' /\ Known' = Known
<1>1. PICK X \in SUBSET old : links' = links \cup X
  BY DEF Cpdup
<1>2. UNCHANGED <<now, tid, recs, gone, meta, doomed, cmd>> /\ job[j].pc = "cpdup"
  BY DEF Cpdup, JobAt
<1>3. /\ TypeOK /\ KnownInv /\ GoneInv /\ PendingInv /\ OwnInv /\ ScanInv /\ IntactInv
      /\ MigrationInv
  BY DEF KeepInv, SnapInv
<1>4. X \subseteq Old /\ Migrated
  BY <1>2, <1>3 DEF MigrationInv, Untouched
<1>5. X \subseteq Links /\ \A l \in X : l.tid \in Known
  BY <1>4, CleanupAssumption DEF Migrated
<1>6. Known' = Known
  BY <1>2 DEF Known
<1>7. TypeOK'
  BY <1>1, <1>2, <1>3, <1>5, Zenon DEF TypeOK
<1>8. KnownInv'
  BY <1>1, <1>2, <1>3, <1>5, <1>6 DEF KnownInv
<1>9. GoneInv' /\ PendingInv' /\ OwnInv' /\ ScanInv' /\ IntactInv'
  BY <1>2, <1>3, <1>6, Zenon DEF GoneInv, PendingInv, OwnInv, ScanInv, IntactInv, At
<1> QED BY <1>6, <1>7, <1>8, <1>9 DEF SnapInv

\* The steps of a job keep what Snapshots needs.
LEMMA JobKeeps ==
    ASSUME KeepInv, Manages, NEW j \in Jobs, JobStep(j)
    PROVE  SnapInv' /\ Known \subseteq Known' /\ tid' \in {tid, tid + 1}
<1>1. SnapInv /\ j \in Cmds /\ Plain
  BY CleanupAssumption DEF KeepInv, Manages
<1>2. CASE StartJob(j) \/ SetConfig(j) \/ StatNew(j) \/ Mkdir(j) \/ RemoveOld(j) \/ Lock(j)
           \/ SnapshotsDirective(j) \/ Wait(j) \/ Finished(j) \/ Kill(j)
  <2>1. UNCHANGED vars
    BY <1>2 DEF StartJob, SetConfig, StatNew, Mkdir, RemoveOld, Lock, SnapshotsDirective, Wait,
                Finished, Kill
  <2>2. Known' = Known /\ tid' = tid
    BY <2>1 DEF Known, vars
  <2> QED BY <1>1, <2>1, <2>2, OutsideInv
<1>3. CASE MigrateSnapshots(j)
  BY <1>3, MigrateKeeps, Zenon DEF MigrateSnapshots
<1>4. CASE Cpdup(j)
  BY <1>4, CopyKeeps DEF Cpdup
<1>5. CASE ExpireLinks(j) \/ ExpireMeta(j) \/ OtherDirective(j)
  <2>1. tid' = tid
    BY <1>5 DEF ExpireLinks, ExpireMeta, OtherDirective
  <2> QED BY <1>5, <2>1, DirectiveKeeps
<1>6. CASE ChildWorks(j) \/ ReblockEnds(j) \/ ChildFails(j)
  <2>1. Work(j) \/ Die(j)
    BY <1>6, Zenon DEF ChildWorks, ReblockEnds, ChildFails, Die
  <2> QED BY <1>1, <2>1, WorkKeeps, KnownGrows
<1> QED BY <1>2, <1>3, <1>4, <1>5, <1>6 DEF JobStep

\* Until a job has migrated the old directory none gets beyond it.
LEMMA JobUntouched ==
    ASSUME KeepInv, Manages, Untouched, NEW j \in Jobs, JobStep(j)
    PROVE  Untouched' \/ Migrated'
<1>1. /\ oldcfg /\ old = Old /\ job[j].pc \in {"idle", "migrate"} /\ cmd[j].op = "none"
      /\ job \in [Jobs -> JobType] /\ JobOk(job[j], cmd[j].op)
  <2>1. JobOk(job[j], cmd[j].op) /\ job \in [Jobs -> JobType] /\ job[j].pc \in {"idle", "migrate"}
    BY DEF KeepInv, CleanupIInv, CleanupType, Untouched
  <2> QED BY <2>1, Zenon DEF JobOk, Untouched
<1>2. CASE MigrateSnapshots(j)
  BY <1>2, MigrateKeeps
<1>3. CASE StartJob(j) \/ Kill(j)
  <2>1. UNCHANGED <<vars, old, oldcfg>>
    BY <1>3, Zenon DEF StartJob, Kill
  <2>2. \A k \in Jobs : job'[k] = job[k] \/ job'[k].pc \in {"idle", "migrate"}
    <3>1. CASE StartJob(j)
      <4>1. job' = [job EXCEPT ![j].pc = "migrate"]
        BY <1>1, <3>1 DEF StartJob, JobGoto
      <4> QED BY <1>1, <4>1 DEF JobType
    <3>2. CASE Kill(j)
      <4>1. job' = [job EXCEPT ![j] = NoJob]
        BY <1>1, <3>2, Zenon DEF Kill, Quit
      <4> QED BY <1>1, <4>1 DEF NoJob
    <3> QED BY <1>3, <3>1, <3>2
  <2> QED BY <2>1, <2>2, Zenon DEF Untouched, vars
<1>4. CASE SetConfig(j) \/ StatNew(j) \/ Mkdir(j) \/ Cpdup(j) \/ RemoveOld(j) \/ Lock(j)
           \/ SnapshotsDirective(j) \/ ExpireLinks(j) \/ ExpireMeta(j) \/ OtherDirective(j)
           \/ Wait(j) \/ Finished(j)
  BY <1>1, <1>4, Zenon DEF SetConfig, StatNew, Mkdir, Cpdup, RemoveOld, Lock, SnapshotsDirective,
                    ExpireLinks, ExpireMeta, OtherDirective, Wait, Finished, JobAt, Reading
<1>5. CASE ChildWorks(j) \/ ReblockEnds(j) \/ ChildFails(j)
  <2>1. Work(j) \/ Die(j)
    BY <1>5, Zenon DEF ChildWorks, ReblockEnds, ChildFails, Die
  <2>2. j \in Cmds /\ DOMAIN cmd = Cmds /\ \A c \in Cmds : "op" \in DOMAIN cmd[c]
    BY CleanupAssumption, Zenon DEF KeepInv, CleanupIInv, CleanupType
  <2> QED BY <1>1, <2>1, <2>2, WorkOp
<1> QED BY <1>2, <1>3, <1>4, <1>5 DEF JobStep

\* A step of a job touches no user's command.
LEMMA JobsApart ==
    ASSUME CleanupType, NEW j \in Jobs, JobStep(j), NEW c \in Cmds \ Jobs
    PROVE  cmd'[c] = cmd[c]
<1>1. /\ j \in Cmds /\ c # j /\ DOMAIN cmd = Cmds
      /\ \A d \in Cmds : "op" \in DOMAIN cmd[d]
  BY CleanupAssumption DEF CleanupType
<1>2. CASE ChildWorks(j) \/ ReblockEnds(j) \/ ChildFails(j)
  <2>1. Work(j) \/ Die(j)
    BY <1>2 DEF ChildWorks, ReblockEnds, ChildFails, Die
  <2> QED BY <1>1, <2>1, WorkOp
<1>3. CASE ExpireMeta(j) \/ OtherDirective(j)
  <2>1. cmd' = cmd \/ \E e : cmd' = [cmd EXCEPT ![j] = e]
    BY <1>3 DEF ExpireMeta, OtherDirective, Child, PruneRoot
  <2> QED BY <1>1, <2>1
<1>4. CASE StartJob(j) \/ MigrateSnapshots(j) \/ SetConfig(j) \/ StatNew(j) \/ Mkdir(j)
           \/ Cpdup(j) \/ RemoveOld(j) \/ Lock(j)
  BY <1>4 DEF StartJob, MigrateSnapshots, SetConfig, StatNew, Mkdir, Cpdup, RemoveOld, Lock, vars
<1>5. CASE SnapshotsDirective(j) \/ ExpireLinks(j) \/ Wait(j) \/ Finished(j) \/ Kill(j)
  BY <1>5 DEF SnapshotsDirective, ExpireLinks, Wait, Finished, Kill, vars
<1> QED BY <1>2, <1>3, <1>4, <1>5, Zenon DEF JobStep

\* The migration is over once it has been done: the snapshots stay known.
LEMMA MigrationStep ==
    ASSUME KeepInv, Known \subseteq Known', tid' \in {tid, tid + 1}, old' \in {old, {}},
           Untouched => Untouched' \/ Migrated'
    PROVE  MigrationInv'
<1>1. MigrationInv /\ tid \in Nat
  BY TidsAreNat DEF KeepInv, SnapInv
<1>2. \A l \in Old : l.tid \in Nat
  BY CleanupAssumption, SnapshotsAssumption DEF Links, Tids
<1>3. old' \subseteq Old
  BY <1>1 DEF MigrationInv
<1>4. \A l \in Old : l.tid <= tid'
  BY <1>1, <1>2 DEF MigrationInv
<1>5. Migrated => Migrated'
  BY DEF Migrated
<1>6. Migrated' \/ Untouched'
  BY <1>1, <1>5 DEF MigrationInv
<1> QED BY <1>3, <1>4, <1>6 DEF MigrationInv

\* Every step keeps KeepInv.
LEMMA KeepStep == ASSUME KeepInv, Manages, [CleanupNext]_allvars PROVE KeepInv'
<1>1. /\ SnapInv /\ CleanupIInv /\ CleanupType /\ Plain
      /\ \A c \in Cmds \ Jobs : cmd[c].op \in Ops \cup {"none"}
      /\ DOMAIN cmd = Cmds /\ \A c \in Cmds : "op" \in DOMAIN cmd[c]
  BY DEF KeepInv, CleanupIInv, CleanupType, Manages
<1>2. CleanupIInv'
  BY <1>1, CleanupStep
<1>3. ASSUME NEW j \in Jobs, JobStep(j) PROVE KeepInv'
  <2>1. SnapInv' /\ Known \subseteq Known' /\ tid' \in {tid, tid + 1}
    BY <1>3, JobKeeps
  <2>2. old' \in {old, {}}
    <3>1. CASE StartJob(j) \/ MigrateSnapshots(j) \/ SetConfig(j) \/ StatNew(j) \/ Mkdir(j)
               \/ Cpdup(j) \/ RemoveOld(j) \/ Lock(j)
      BY <3>1 DEF StartJob, MigrateSnapshots, SetConfig, StatNew, Mkdir, Cpdup, RemoveOld, Lock
    <3>2. CASE SnapshotsDirective(j) \/ ExpireLinks(j) \/ ExpireMeta(j) \/ OtherDirective(j)
               \/ Wait(j)
      BY <3>2 DEF SnapshotsDirective, ExpireLinks, ExpireMeta, OtherDirective, Wait
    <3>3. CASE Finished(j) \/ Kill(j) \/ ChildWorks(j) \/ ReblockEnds(j) \/ ChildFails(j)
      BY <3>3, Zenon DEF Finished, Kill, ChildWorks, ReblockEnds, ChildFails
    <3> QED BY <1>3, <3>1, <3>2, <3>3 DEF JobStep
  <2>3. MigrationInv'
    BY <1>3, <2>1, <2>2, JobUntouched, MigrationStep
  <2>4. \A c \in Cmds \ Jobs : cmd'[c] = cmd[c]
    BY <1>1, <1>3, JobsApart
  <2> QED BY <1>1, <1>2, <2>1, <2>3, <2>4 DEF KeepInv
<1>4. CASE ((Write \/ Tick) /\ UNCHANGED jvars) \/ UNCHANGED allvars
  <2>1. SnapInv'
    BY <1>1, <1>4, OutsideInv DEF allvars
  <2>2. UNCHANGED <<cmd, jvars, meta, doomed, links, gone>> /\ tid' \in {tid, tid + 1}
    BY <1>4, Zenon DEF Write, Tick, allvars, vars
  <2>3. Known' = Known /\ (Untouched => Untouched')
    BY <2>2 DEF Known, Untouched, jvars
  <2>4. MigrationInv'
    BY <2>2, <2>3, MigrationStep DEF jvars
  <2> QED BY <1>1, <1>2, <2>1, <2>2, <2>4 DEF KeepInv
<1>5. ASSUME NEW c \in Cmds \ Jobs, UserStep(c) PROVE KeepInv'
  <2>1. UNCHANGED jvars /\ old' = old /\ oldcfg' = oldcfg /\ job' = job
    BY <1>5 DEF UserStep, jvars
  <2>2. CASE Step(c)
    <3>1. /\ \A d \in Cmds \ {c} : cmd'[d] = cmd[d]
          /\ cmd'[c].op \in {cmd[c].op, "none"}
      BY <1>1, <1>5, <2>2, WorkOp DEF Step
    <3>2. SnapInv' /\ Known \subseteq Known' /\ tid' \in {tid, tid + 1}
      BY <1>1, <1>5, <2>2, WorkKeeps, KnownGrows DEF Step
    <3>3. ASSUME Untouched PROVE Untouched'
      <4>1. meta' = {} /\ links' = {} /\ gone' = {} /\ \A d \in Cmds : Quiet(cmd'[d])
        BY <1>1, <1>5, <2>2, <3>3, QuietWork DEF Step
      <4> QED BY <2>1, <3>3, <4>1 DEF Untouched
    <3>4. MigrationInv'
      BY <2>1, <3>2, <3>3, MigrationStep
    <3> QED BY <1>1, <1>2, <3>1, <3>2, <3>4 DEF KeepInv
  <2>3. ASSUME NEW op \in Ops, Begin(c, op) PROVE KeepInv'
    <3>1. op # "everything" /\ op # "snapshot" /\ op \in {"snaprm", "prune"}
      BY SnapshotsAssumption DEF Manages
    <3>2. SnapInv'
      BY <1>1, <1>5, <2>3, <3>1, BeginInv
    <3>3. PICK l \in IF op = "snaprm" THEN links ELSE {[name |-> 0, tid |-> 0]} :
            /\ cmd' = [cmd EXCEPT ![c] =
                 [Idle EXCEPT !.op = op, !.pc = FirstPc(op), !.name = l.name, !.tid = l.tid]]
            /\ doomed' = IF op = "snaprm" THEN doomed \cup {l.tid} ELSE doomed
      BY <2>3, Zenon DEF Begin
    <3>4. UNCHANGED <<tid, gone, links, meta>> /\ doomed \subseteq doomed'
      BY <2>3, <3>3 DEF Begin
    <3> DEFINE e == [Idle EXCEPT !.op = op, !.pc = FirstPc(op), !.name = l.name, !.tid = l.tid]
    <3>5. e.op = op /\ e.todo = {} /\ e.scan = {}
      BY DEF Idle
    <3>6. cmd' = [cmd EXCEPT ![c] = e]
      BY <3>3
    <3> HIDE DEF e
    <3>7. cmd'[c] = e /\ \A d \in Cmds \ {c} : cmd'[d] = cmd[d]
      BY <1>1, <1>5, <3>6
    <3>8. Known \subseteq Known'
      BY <3>4 DEF Known
    <3>9. ASSUME Untouched PROVE Untouched'
      <4>1. links = {}
        BY <3>9 DEF Untouched
      <4>2. op = "prune"
        BY <3>1, <3>3, <4>1
      <4>3. \A d \in Cmds : Quiet(cmd'[d])
        BY <3>5, <3>7, <3>9, <4>2 DEF Untouched, Quiet
      <4> QED BY <2>1, <3>4, <3>9, <4>3 DEF Untouched
    <3>10. MigrationInv'
      BY <2>1, <3>4, <3>8, <3>9, MigrationStep
    <3> QED BY <1>1, <1>2, <3>2, <3>5, <3>7, <3>10 DEF KeepInv
  <2> QED BY <1>5, <2>2, <2>3 DEF UserStep
<1> QED BY <1>3, <1>4, <1>5 DEF CleanupNext

\* Every variable starts with a value of its type.
LEMMA CleanupInitType == ASSUME CleanupInit PROVE TypeOK
<1>1. /\ links = {} /\ meta = {} /\ doomed = {} /\ gone = {} /\ cmd = [c \in Cmds |-> Idle]
  BY DEF CleanupInit
<1>2. CASE Old = {}
  <2>1. Init
    BY <1>1, <1>2 DEF Init, CleanupInit
  <2> QED BY <2>1, InitType
<1>3. CASE Old # {}
  <2>1. {0, 1} \subseteq Tids /\ {0, 1} \subseteq Times
    BY SnapshotsAssumption DEF Tids, Times
  <2>2. Idle \in CmdType
    BY <2>1 DEF Idle, CmdType, Pcs
  <2>3. /\ now \in Times /\ tid \in Tids
        /\ recs = {[cre |-> 1, del |-> tid, died |-> 1], [cre |-> tid, del |-> 0, died |-> 0]}
    BY <1>3 DEF CleanupInit
  <2>4. recs \subseteq [cre : Tids, del : Tids, died : Times]
    BY <2>1, <2>3
  <2> QED BY <1>1, <2>1, <2>2, <2>3, <2>4 DEF TypeOK
<1> QED BY <1>2, <1>3

\* do_cleanup starts with nothing recorded, and perhaps an old directory.
LEMMA KeepInitial == ASSUME Manages, CleanupInit PROVE KeepInv
<1>1. /\ links = {} /\ meta = {} /\ doomed = {} /\ gone = {} /\ cmd = [c \in Cmds |-> Idle]
      /\ job = [j \in Jobs |-> NoJob] /\ old = Old /\ oldcfg = (Old # {})
  BY DEF CleanupInit
<1>2. Idle.op = "none" /\ Idle.todo = {} /\ Idle.scan = {} /\ NoJob.pc = "idle"
  BY DEF Idle, NoJob
<1>3. TypeOK
  BY CleanupInitType
<1>4. \A c \in Cmds : cmd[c].op = "none" /\ cmd[c].todo = {} /\ cmd[c].scan = {}
  BY <1>1, <1>2
<1>5. SnapInv
  BY <1>1, <1>3, <1>4, Zenon DEF SnapInv, KnownInv, GoneInv, PendingInv, OwnInv, ScanInv, IntactInv,
     Known, At
<1>6. MigrationInv
  <2>1. CASE Old = {}
    BY <1>1, <2>1, Zenon DEF MigrationInv, Migrated
  <2>2. CASE Old # {}
    <3>1. \A l \in Old : l.tid < tid /\ l.tid \in Nat /\ tid \in Nat
      BY <2>2, CleanupAssumption, SnapshotsAssumption DEF CleanupInit, Links, Tids
    <3>2. Untouched
      BY <1>1, <1>2, <1>4, <2>2, Zenon DEF Untouched, Quiet
    <3>3. \A l \in Old : l.tid <= tid
      BY <3>1
    <3> QED BY <1>1, <3>2, <3>3 DEF MigrationInv
  <2> QED BY <2>1, <2>2
<1> QED BY <1>4, <1>5, <1>6, CleanupInitial DEF KeepInv

\* do_cleanup as a whole: whatever the jobs and the users' snaprm and prune
\* commands do, and whenever they fail or are killed, no prune takes data that a
\* recorded snapshot shows.  The lock of the PFS is what keeps the jobs' snapshot
\* commands one at a time, which SnapshotsSurvivePrune has to assume.
THEOREM CleanupKeepsSnapshots == ASSUME Manages PROVE CleanupSpec => []SnapshotsIntact
<1>1. CleanupInit => KeepInv
  BY KeepInitial
<1>2. KeepInv => SnapshotsIntact
  <2> SUFFICES ASSUME KeepInv, NEW s \in Recorded \ doomed, NEW g \in gone
               PROVE  ~VisibleAt(g.v, s)
    BY DEF SnapshotsIntact
  <2>1. s \in Known
    BY DEF KeepInv, SnapInv, KnownInv, Recorded, Known
  <2>2. PICK m \in meta : m.tid = s
    BY <2>1 DEF Known
  <2>3. m.tid \in doomed \/ ~VisibleAt(g.v, m.tid)
    BY DEF KeepInv, SnapInv, IntactInv
  <2> QED BY <2>2, <2>3
<1>3. KeepInv /\ [CleanupNext]_allvars => KeepInv'
  BY KeepStep
<1> QED BY <1>1, <1>2, <1>3, PTL DEF CleanupSpec

\* migrate_snapshots comes before anything that could prune: wherever the jobs
\* that migrate an old snapshots directory stop, and whatever then becomes of the
\* directory, its snapshots keep their data until they expire or are removed.
THEOREM MigrationKeepsData == ASSUME Manages PROVE CleanupSpec => []MigratedIntact
<1>1. CleanupInit => KeepInv
  BY KeepInitial
<1>2. KeepInv => MigratedIntact
  <2> SUFFICES ASSUME KeepInv, NEW l \in Old, NEW g \in gone, l.tid \notin doomed
               PROVE  ~VisibleAt(g.v, l.tid)
    BY DEF MigratedIntact
  <2>1. l.tid \in Known
    BY DEF KeepInv, MigrationInv, Migrated, Untouched
  <2>2. PICK m \in meta : m.tid = l.tid
    BY <2>1 DEF Known
  <2>3. m.tid \in doomed \/ ~VisibleAt(g.v, m.tid)
    BY DEF KeepInv, SnapInv, IntactInv
  <2> QED BY <2>2, <2>3
<1>3. KeepInv /\ [CleanupNext]_allvars => KeepInv'
  BY KeepStep
<1> QED BY <1>1, <1>2, <1>3, PTL DEF CleanupSpec
-----------------------------------------------------------------------------
\* No child is killed by a signal, which cleanup would count as success, and
\* snaprm is used only where a name of the old directory stands for one softlink.
CopyChecked ==
    /\ "killed" \notin Results
    /\ "snaprm" \in Ops => \A k, l \in Old : k.name = l.name => k = l

\* The softlinks of the old directory are in the new one, or were removed there.
OldCopied == \A l \in Old : l \in links \/ l.tid \in doomed

Newer(n) == \A l \in Old : l.name < n

\* A command that unlinks by name takes no softlink of the old directory, unless
\* that is the one it was asked to remove.
NamesOk(e) ==
    /\ e.op = "snapshot" => e.pc = "synctid" \/ Newer(e.name)
    /\ e.op = "snaprm" => \A l \in Old : l.name = e.name => l.tid \in doomed

LinksInv ==
    /\ TypeOK /\ CleanupIInv /\ Newer(now) /\ old \in {Old, {}} /\ OldLinksKept
    /\ \A l \in links : Newer(l.name) \/ l \in Old
    /\ \A c \in Cmds : NamesOk(cmd[c])
    /\ \A c \in Cmds : cmd[c].op = "snaprm" => "snaprm" \in Ops
    /\ \A j \in Jobs : job[j].pc = "rm" => OldCopied

\* Every variable keeps its type.
LEMMA CleanupTypes ==
    ASSUME TypeOK, old \in {Old, {}}, [CleanupNext]_allvars
    PROVE  TypeOK'
<1>1. /\ links \subseteq Links /\ meta \subseteq [tid : Tids, ts : Times] /\ doomed \subseteq Tids
      /\ cmd \in [Cmds -> CmdType] /\ Idle \in CmdType /\ old \subseteq Links
  <2>1. 0 \in Tids /\ 0 \in Times
    BY SnapshotsAssumption DEF Tids, Times
  <2>2. Idle \in CmdType
    BY <2>1, Zenon DEF Idle, CmdType, Pcs
  <2> QED BY <2>2, CleanupAssumption DEF TypeOK
<1>2. ASSUME [Next]_vars PROVE TypeOK'
  BY <1>2, NextType
<1>3. ASSUME NEW j \in Jobs, JobStep(j) PROVE TypeOK'
  <2>1. j \in Cmds
    BY CleanupAssumption
  <2>2. ASSUME NEW op \in {"snapshot", "prune", "everything", "reblock"}, NEW pc \in Pcs
        PROVE  [Idle EXCEPT !.op = op, !.pc = pc] \in CmdType
    BY <1>1, Zenon DEF CmdType
  <2>3. ASSUME NEW op \in {"snapshot", "prune", "everything"}, Child(j, op)
        PROVE  cmd' \in [Cmds -> CmdType]
    <3> DEFINE e == [Idle EXCEPT !.op = op, !.pc = FirstPc(op)]
    <3>1. FirstPc(op) \in Pcs
      BY DEF FirstPc, Pcs
    <3>2. e \in CmdType
      BY <2>2, <3>1, Zenon
    <3>3. cmd' = [cmd EXCEPT ![j] = e]
      BY <2>3 DEF Child
    <3> HIDE DEF e
    <3> QED BY <1>1, <2>1, <3>2, <3>3
  <2>4. CASE StartJob(j) \/ SetConfig(j) \/ StatNew(j) \/ Mkdir(j) \/ RemoveOld(j) \/ Lock(j)
             \/ SnapshotsDirective(j) \/ Wait(j) \/ Finished(j) \/ Kill(j)
    <3>1. UNCHANGED vars
      BY <2>4 DEF StartJob, SetConfig, StatNew, Mkdir, RemoveOld, Lock, SnapshotsDirective, Wait,
                  Finished, Kill
    <3> QED BY <1>2, <3>1
  <2>5. CASE MigrateSnapshots(j)
    <3>1. \A l \in old : [tid |-> l.tid, ts |-> l.name] \in [tid : Tids, ts : Times]
      BY <1>1 DEF Links
    <3>2. meta' \subseteq [tid : Tids, ts : Times]
      BY <1>1, <2>5, <3>1, Zenon DEF MigrateSnapshots
    <3> QED BY <2>5, <3>2 DEF MigrateSnapshots, TypeOK
  <2>6. CASE Cpdup(j)
    <3>1. links' \subseteq Links
      BY <1>1, <2>6 DEF Cpdup
    <3> QED BY <2>6, <3>1 DEF Cpdup, TypeOK
  <2>7. CASE ExpireLinks(j)
    <3>1. links' \subseteq links /\ \A t \in doomed' : t \in doomed \/ \E l \in links : t = l.tid
      BY <2>7, Zenon DEF ExpireLinks
    <3>2. links' \subseteq Links /\ doomed' \subseteq Tids
      BY <1>1, <3>1 DEF Links
    <3> QED BY <2>7, <3>2 DEF ExpireLinks, TypeOK
  <2>8. CASE ExpireMeta(j)
    <3>1. meta' \subseteq meta /\ \A t \in doomed' : t \in doomed \/ \E m \in meta : t = m.tid
      BY <2>8, Zenon DEF ExpireMeta
    <3>2. meta' \subseteq [tid : Tids, ts : Times] /\ doomed' \subseteq Tids
      BY <1>1, <3>1
    <3>3. cmd' \in [Cmds -> CmdType]
      BY <1>1, <2>3, <2>8 DEF ExpireMeta
    <3> QED BY <2>8, <3>2, <3>3 DEF ExpireMeta, TypeOK
  <2>9. CASE OtherDirective(j)
    <3>1. \/ cmd' = cmd \/ cmd' = [cmd EXCEPT ![j] = [Idle EXCEPT !.op = "reblock"]]
          \/ Child(j, "everything") \/ Child(j, "prune") \/ PruneRoot(j)
      BY <2>9 DEF OtherDirective
    <3>2. [Idle EXCEPT !.op = "reblock"] \in CmdType
      BY <1>1 DEF CmdType
    <3>3. PruneRoot(j) => cmd' \in [Cmds -> CmdType]
      <4> DEFINE e == [Idle EXCEPT !.op = "prune", !.pc = IF Version3 THEN "scanmeta" ELSE "ioctl"]
      <4>1. e \in CmdType
        BY <2>2, Zenon DEF Pcs
      <4>2. PruneRoot(j) => cmd' = [cmd EXCEPT ![j] = e]
        BY DEF PruneRoot
      <4> HIDE DEF e
      <4> QED BY <1>1, <2>1, <4>1, <4>2
    <3>4. cmd' \in [Cmds -> CmdType]
      BY <1>1, <2>1, <2>3, <3>1, <3>2, <3>3
    <3> QED BY <2>9, <3>4 DEF OtherDirective, TypeOK
  <2>10. CASE ChildWorks(j) \/ ReblockEnds(j) \/ ChildFails(j)
    <3>1. Work(j) \/ Die(j)
      BY <2>10, Zenon DEF ChildWorks, ReblockEnds, ChildFails, Die
    <3> QED BY <1>2, <2>1, <3>1 DEF Next, Step
  <2> QED BY <1>3, <2>4, <2>5, <2>6, <2>7, <2>8, <2>9, <2>10 DEF JobStep
<1>4. CASE (Write \/ Tick) \/ UNCHANGED allvars
  BY <1>2, <1>4 DEF Next, allvars
<1>5. ASSUME NEW c \in Cmds \ Jobs, UserStep(c) PROVE TypeOK'
  BY <1>2, <1>5 DEF UserStep, Next
<1> QED BY <1>3, <1>4, <1>5 DEF CleanupNext

\* The names of the old directory are times.
LEMMA OldNames == \A l \in Old : l.name \in Nat
<1>1. Times \subseteq Nat
  BY SnapshotsAssumption DEF Times
<1>2. \A l \in Links : l.name \in Times
  BY DEF Links
<1> QED BY <1>1, <1>2, CleanupAssumption, Zenon

\* What a step of the commands may do to the softlinks: one of the old directory
\* goes only if it is asked to.
LinkStep ==
    /\ now <= now' /\ doomed \subseteq doomed'
    /\ \A l \in links \cap Old : l \in links' \/ l.tid \in doomed'
    /\ \A l \in links' : l \in links \/ Newer(l.name) \/ l \in Old

\* The names the commands hold after a step.
NamesKept ==
    /\ \A c \in Cmds : NamesOk(cmd[c])'
    /\ \A c \in Cmds : cmd'[c].op = "snaprm" => "snaprm" \in Ops

\* What a step may do to the old directory: it goes only after the copy.
OldStep ==
    /\ old' \in {old, {}} /\ (old' = old \/ OldCopied)
    /\ \A j \in Jobs : job'[j].pc = "rm" => job[j].pc = "rm" \/ OldCopied'

\* What a step has to do to the softlinks and the commands to keep LinksInv.
LEMMA LinksFrame ==
    ASSUME LinksInv, TypeOK', CleanupIInv', LinkStep, NamesKept, OldStep
    PROVE  LinksInv'
<1> USE DEF LinkStep, NamesKept, OldStep
<1>1. OldCopied => OldCopied'
  BY DEF OldCopied
<1>2. OldLinksKept'
  <2> SUFFICES ASSUME NEW l \in Old PROVE l \in old' \cup links' \/ l.tid \in doomed'
    BY DEF OldLinksKept
  <2>1. l \in old \/ l \in links \/ l.tid \in doomed
    BY DEF LinksInv, OldLinksKept
  <2>2. OldCopied => l \in links' \/ l.tid \in doomed'
    BY <1>1 DEF OldCopied
  <2> QED BY <2>1, <2>2
<1>3. Newer(now')
  <2>1. now \in Nat /\ now' \in Nat /\ Newer(now)
    BY Zenon DEF LinksInv, CleanupIInv, CleanupType
  <2>2. \A n, a, b \in Nat : n < a /\ a <= b => n < b
    OBVIOUS
  <2> QED BY <2>1, <2>2, OldNames DEF Newer
<1>4. old' \in {Old, {}}
  BY DEF LinksInv
<1>5. \A l \in links' : Newer(l.name) \/ l \in Old
  BY DEF LinksInv
<1>6. \A j \in Jobs : job'[j].pc = "rm" => OldCopied'
  BY <1>1 DEF LinksInv
<1>7. Newer(now)' /\ \A l \in links' : Newer(l.name)' \/ l \in Old
  BY <1>3, <1>5 DEF Newer
<1> QED BY <1>2, <1>4, <1>6, <1>7, Zenon DEF LinksInv

\* A command that goes on under another name, or ends, keeps the names right.
LEMMA NamesStep ==
    ASSUME LinksInv, doomed \subseteq doomed', NEW c \in Cmds,
           \A d \in Cmds \ {c} : cmd'[d] = cmd[d], NamesOk(cmd[c])',
           cmd'[c].op = "snaprm" => "snaprm" \in Ops
    PROVE  NamesKept
<1>1. \A d \in Cmds : NamesOk(cmd[d])
  BY Zenon DEF LinksInv
<1>2. \A d \in Cmds \ {c} : NamesOk(cmd[d])'
  BY <1>1 DEF NamesOk, Newer
<1> QED BY <1>2, Zenon DEF LinksInv, NamesKept

\* The commands of Snapshots: one that makes a softlink unlinks a name newer than
\* the old directory, one that removes a softlink was asked to.
LEMMA WorkLinks ==
    ASSUME LinksInv, NEW c \in Cmds, Work(c) \/ Die(c)
    PROVE  LinkStep /\ NamesKept
<1>1. /\ cmd \in [Cmds -> CmdType] /\ NamesOk(cmd[c]) /\ Newer(now)
      /\ cmd[c].op = "snaprm" => "snaprm" \in Ops
  BY Zenon DEF LinksInv, TypeOK
<1>2. doomed' = doomed /\ now' = now
  BY DEF Work, SyncTid, AddMeta, RemoveLink, Symlink, DelMeta, Unlink, OpenDir, ScanDir, ScanMeta,
         Prune, Die
<1>3. /\ \A d \in Cmds \ {c} : cmd'[d] = cmd[d]
      /\ cmd'[c].op \in {cmd[c].op, "none"}
  <2>1. DOMAIN cmd = Cmds /\ \A d \in Cmds : "op" \in DOMAIN cmd[d]
    BY Zenon DEF LinksInv, CleanupIInv, CleanupType
  <2> QED BY <2>1, WorkOp
<1>4. NamesOk(cmd[c])'
  <2>1. CASE cmd'[c].op \notin {"snapshot", "snaprm"}
    BY <2>1, Zenon DEF NamesOk
  <2>2. CASE SyncTid(c)
    <3>1. cmd'[c].name = now
      BY <1>1, <2>2 DEF SyncTid, CmdType
    <3>2. cmd'[c].op # "snaprm"
      BY <1>3, <2>2 DEF SyncTid, At
    <3> QED BY <1>1, <3>1, <3>2, Zenon DEF NamesOk, Newer
  <2>3. CASE AddMeta(c) \/ RemoveLink(c)
    <3>1. /\ cmd'[c].name = cmd[c].name /\ cmd'[c].op # "snaprm"
          /\ cmd[c].op = "snapshot" /\ cmd[c].pc # "synctid"
      BY <1>1, <1>3, <2>3 DEF AddMeta, RemoveLink, Goto, At, CmdType
    <3> QED BY <1>1, <3>1, Zenon DEF NamesOk, Newer
  <2>4. CASE DelMeta(c)
    <3>1. cmd[c].op = "snaprm" /\ (Goto(c, "unlink") \/ Exit(c))
      BY <2>4 DEF DelMeta, At
    <3>2. cmd'[c].op = "none" \/ (cmd'[c].op = "snaprm" /\ cmd'[c].name = cmd[c].name)
      BY <1>1, <3>1 DEF Goto, Exit, Idle, CmdType
    <3> QED BY <1>1, <1>2, <3>1, <3>2, Zenon DEF NamesOk
  <2>5. CASE Symlink(c) \/ Unlink(c) \/ Die(c)
    <3>1. Exit(c)
      BY <2>5, Zenon DEF Symlink, Unlink, Die
    <3>2. cmd'[c].op = "none"
      BY <1>1, <3>1 DEF Exit, Idle
    <3> QED BY <2>1, <3>2
  <2>6. CASE OpenDir(c) \/ ScanDir(c) \/ ScanMeta(c) \/ Prune(c)
    <3>1. cmd[c].op \in {"prune", "everything"}
      BY <2>6 DEF OpenDir, ScanDir, ScanMeta, Prune, At
    <3> QED BY <1>3, <2>1, <3>1
  <2> QED BY <2>2, <2>3, <2>4, <2>5, <2>6 DEF Work
<1>5. NamesKept
  BY <1>1, <1>2, <1>3, <1>4, NamesStep, Zenon
<1>6. /\ \A l \in links \cap Old : l \in links' \/ l.tid \in doomed'
      /\ \A l \in links' : l \in links \/ Newer(l.name) \/ l \in Old
  <2>1. CASE RemoveLink(c)
    <3>1. links' = {l \in links : l.name # cmd[c].name} /\ Newer(cmd[c].name)
      BY <1>1, <2>1 DEF RemoveLink, NamesOk, At
    <3>2. \A n \in Nat : ~(n < n)
      OBVIOUS
    <3>3. \A l \in Old : l.name # cmd[c].name
      BY <3>1, <3>2, OldNames DEF Newer
    <3> QED BY <3>1, <3>3
  <2>2. CASE Symlink(c)
    <3>1. Newer(cmd[c].name)
      BY <1>1, <2>2, Zenon DEF Symlink, NamesOk, At
    <3> QED BY <2>2, <3>1 DEF Symlink
  <2>3. CASE Unlink(c)
    <3>1. /\ links' = {l \in links : l.name # cmd[c].name}
          /\ \A l \in Old : l.name = cmd[c].name => l.tid \in doomed
      BY <1>1, <2>3, Zenon DEF Unlink, NamesOk, At
    <3> QED BY <1>2, <3>1, Zenon
  <2>4. CASE SyncTid(c) \/ AddMeta(c) \/ DelMeta(c) \/ OpenDir(c) \/ ScanDir(c) \/ ScanMeta(c)
             \/ Prune(c) \/ Die(c)
    <3>1. links' = links
      BY <2>4 DEF SyncTid, AddMeta, DelMeta, OpenDir, ScanDir, ScanMeta, Prune, Die
    <3> QED BY <3>1
  <2> QED BY <2>1, <2>2, <2>3, <2>4 DEF Work
<1>7. now <= now'
  BY <1>2 DEF LinksInv, CleanupIInv, CleanupType
<1> QED BY <1>2, <1>5, <1>6, <1>7 DEF LinkStep

\* Only cpdup takes a job to the removal of the old directory.
LEMMA RemovalAfterCopy ==
    ASSUME CleanupType, NEW j \in Jobs, JobStep(j), ~Cpdup(j), NEW k \in Jobs, job'[k].pc = "rm"
    PROVE  job[k].pc = "rm"
<1>1. job \in [Jobs -> JobType] /\ NoJob.pc = "idle"
  BY Zenon DEF CleanupType, NoJob
<1>2. ASSUME Quit(j) PROVE job[k].pc = "rm"
  BY <1>1, <1>2 DEF Quit
<1>3. ASSUME NEW pc, pc # "rm", JobGoto(j, pc) PROVE job[k].pc = "rm"
  BY <1>1, <1>3 DEF JobGoto, JobType
<1>4. CASE StartJob(j) \/ MigrateSnapshots(j) \/ SetConfig(j) \/ StatNew(j) \/ Mkdir(j)
           \/ RemoveOld(j) \/ ExpireLinks(j)
  BY <1>3, <1>4, Zenon DEF StartJob, MigrateSnapshots, SetConfig, StatNew, Mkdir, RemoveOld, ExpireLinks
<1>5. CASE Lock(j) \/ Finished(j) \/ Kill(j)
  <2>1. \/ Quit(j) \/ JobGoto(j, "dead")
        \/ job' = [job EXCEPT ![j].lock = TRUE, ![j].pc = "dir"]
    BY <1>5, Zenon DEF Lock, Finished, Kill
  <2>2. CASE job' = [job EXCEPT ![j].lock = TRUE, ![j].pc = "dir"]
    BY <1>1, <2>2 DEF JobType
  <2> QED BY <1>2, <1>3, <2>1, <2>2, Zenon
<1>6. CASE SnapshotsDirective(j)
  <2>1. \/ JobGoto(j, "expire_links")
        \/ job' = [job EXCEPT ![j].disabled = TRUE, ![j].i = @ + 1]
        \/ job' = [job EXCEPT ![j].savet = now, ![j].pc = "expire_links"]
        \/ NextDirective(j)
    BY <1>6, Zenon DEF SnapshotsDirective
  <2>2. CASE job' = [job EXCEPT ![j].disabled = TRUE, ![j].i = @ + 1]
    BY <1>1, <2>2 DEF JobType
  <2>3. CASE job' = [job EXCEPT ![j].savet = now, ![j].pc = "expire_links"]
    BY <1>1, <2>3 DEF JobType
  <2>4. CASE NextDirective(j)
    BY <1>1, <2>4 DEF NextDirective, JobType
  <2> QED BY <1>3, <2>1, <2>2, <2>3, <2>4, Zenon
<1>7. CASE ExpireMeta(j) \/ OtherDirective(j)
  <2>1. \/ NextDirective(j) \/ JobGoto(j, "wait")
        \/ job' = [job EXCEPT ![j].savet = now, ![j].pc = "wait"]
    BY <1>7 DEF ExpireMeta, OtherDirective
  <2>2. CASE NextDirective(j)
    BY <1>1, <2>2 DEF NextDirective, JobType
  <2>3. CASE job' = [job EXCEPT ![j].savet = now, ![j].pc = "wait"]
    BY <1>1, <2>3 DEF JobType
  <2> QED BY <1>3, <2>1, <2>2, <2>3
<1>8. CASE Wait(j)
  <2>1. job' = [job EXCEPT ![j].i = @ + 1, ![j].pc = "dir", ![j].res = "ok"]
    BY <1>8 DEF Wait
  <2> QED BY <1>1, <2>1 DEF JobType
<1>9. CASE ChildWorks(j) \/ ReblockEnds(j) \/ ChildFails(j)
  <2>1. job' = job \/ \E res : ChildEnds(j, res)
    BY <1>9, Zenon DEF ChildWorks, ReblockEnds, ChildFails
  <2>2. job' = job \/ Quit(j) \/ \E res : job' = [job EXCEPT ![j].res = res]
    BY <2>1 DEF ChildEnds
  <2>3. ASSUME NEW res, job' = [job EXCEPT ![j].res = res] PROVE job[k].pc = "rm"
    BY <1>1, <2>3 DEF JobType
  <2> QED BY <1>2, <2>2, <2>3
<1> QED BY <1>4, <1>5, <1>6, <1>7, <1>8, <1>9, Zenon DEF JobStep

\* The steps of a job: the copy is complete before the old directory goes, and
\* what expires is asked to go.
LEMMA JobLinks ==
    ASSUME LinksInv, CopyChecked, NEW j \in Jobs, JobStep(j), TypeOK', CleanupIInv'
    PROVE  LinksInv'
<1>1. /\ now \in Nat /\ j \in Cmds /\ CleanupType /\ old \in {Old, {}} /\ OldLinksKept
      /\ DOMAIN cmd = Cmds /\ \A c \in Cmds : NamesOk(cmd[c])
      /\ \A k \in Jobs : job[k].pc = "rm" => OldCopied
  BY CleanupAssumption, Zenon DEF LinksInv, CleanupIInv, CleanupType
<1>0. now <= now
  BY <1>1
<1>2. ~Cpdup(j) => \A k \in Jobs : job'[k].pc = "rm" => job[k].pc = "rm"
  BY <1>1, RemovalAfterCopy, Zenon
<1>3. ASSUME UNCHANGED cmd, doomed \subseteq doomed'
      PROVE  NamesKept
  BY <1>3 DEF LinksInv, NamesKept, NamesOk, Newer
<1>4. ASSUME NEW e, cmd' = [cmd EXCEPT ![j] = e], doomed \subseteq doomed',
             e.op \in {"snapshot", "prune", "everything", "reblock"},
             e.op = "snapshot" => e.pc = "synctid"
      PROVE  NamesKept
  <2>1. cmd'[j] = e /\ \A d \in Cmds \ {j} : cmd'[d] = cmd[d]
    BY <1>1, <1>4, Zenon
  <2>2. NamesOk(cmd[j])'
    BY <1>4, <2>1 DEF NamesOk
  <2> QED BY <1>1, <1>4, <2>1, <2>2, NamesStep, Zenon
<1>5. ASSUME NEW op \in {"snapshot", "prune", "everything"}, Child(j, op), doomed \subseteq doomed'
      PROVE  NamesKept
  <2> DEFINE e == [Idle EXCEPT !.op = op, !.pc = FirstPc(op)]
  <2>1. e.op = op /\ e.pc = FirstPc(op) /\ (op = "snapshot" => FirstPc(op) = "synctid")
    BY DEF Idle, FirstPc
  <2>2. cmd' = [cmd EXCEPT ![j] = e]
    BY <1>5 DEF Child
  <2> HIDE DEF e
  <2> QED BY <1>4, <1>5, <2>1, <2>2, Zenon
<1>6. CASE /\ \/ StartJob(j) \/ SetConfig(j) \/ StatNew(j) \/ Mkdir(j) \/ Lock(j)
              \/ SnapshotsDirective(j) \/ Wait(j) \/ Finished(j) \/ Kill(j) \/ MigrateSnapshots(j)
           /\ ~Cpdup(j)
  <2>1. UNCHANGED <<now, links, doomed, cmd, old>>
    BY <1>6 DEF StartJob, SetConfig, StatNew, Mkdir, Lock, SnapshotsDirective, Wait, Finished, Kill,
                MigrateSnapshots, vars
  <2>2. LinkStep
    BY <1>0, <2>1, Zenon DEF LinkStep
  <2>3. OldStep
    BY <1>2, <1>6, <2>1, Zenon DEF OldStep
  <2> QED BY <1>3, <2>1, <2>2, <2>3, LinksFrame
<1>7. CASE RemoveOld(j)
  <2>1. UNCHANGED <<now, links, doomed, cmd>> /\ old' = {} /\ job[j].pc = "rm"
    BY <1>7, Zenon DEF RemoveOld, JobAt, vars
  <2>2. OldCopied /\ ~Cpdup(j)
    BY <1>1, <2>1 DEF Cpdup, JobAt
  <2>3. LinkStep
    BY <1>0, <2>1, Zenon DEF LinkStep
  <2>4. OldStep
    BY <1>2, <2>1, <2>2, Zenon DEF OldStep
  <2> QED BY <1>3, <2>1, <2>3, <2>4, LinksFrame
<1>8. CASE Cpdup(j)
  <2>1. PICK res \in Results, X \in SUBSET old :
          /\ res = "ok" => X = old
          /\ links' = links \cup X
          /\ IF ExitStatus(res) # 0 THEN Quit(j) ELSE JobGoto(j, "rm")
    BY <1>8 DEF Cpdup
  <2>2. UNCHANGED <<now, doomed, cmd, old>> /\ X \subseteq Old
    BY <1>1, <1>8 DEF Cpdup
  <2>3. job \in [Jobs -> JobType] /\ NoJob.pc = "idle"
    BY <1>1, Zenon DEF CleanupType, NoJob
  <2>4. \A k \in Jobs : job'[k].pc = "rm" => job[k].pc = "rm" \/ OldCopied'
    <3>1. CASE ExitStatus(res) # 0
      <4>1. job' = [job EXCEPT ![j] = NoJob]
        BY <2>1, <3>1 DEF Quit
      <4> QED BY <2>3, <4>1
    <3>2. CASE ExitStatus(res) = 0
      <4>1. res = "ok"
        BY <3>2, CleanupAssumption DEF ExitStatus, CopyChecked
      <4>2. OldCopied'
        BY <1>1, <2>1, <2>2, <4>1, Zenon DEF OldCopied, OldLinksKept
      <4> QED BY <4>2, Zenon
    <3> QED BY <3>1, <3>2, Zenon
  <2>5. /\ \A l \in links \cap Old : l \in links' \/ l.tid \in doomed'
        /\ \A l \in links' : l \in links \/ Newer(l.name) \/ l \in Old
    BY <2>1, <2>2
  <2>6. LinkStep
    BY <1>0, <2>2, <2>5, Zenon DEF LinkStep
  <2>7. OldStep
    BY <2>2, <2>4, Zenon DEF OldStep
  <2> QED BY <1>3, <2>2, <2>6, <2>7, LinksFrame
<1>9. CASE ExpireLinks(j)
  <2>1. /\ UNCHANGED <<now, cmd, old>> /\ doomed \subseteq doomed' /\ links' \subseteq links
        /\ \A l \in links : l \in links' \/ l.tid \in doomed'
        /\ ~Cpdup(j)
    BY <1>9, Zenon DEF ExpireLinks, Cpdup, JobAt
  <2>2. LinkStep
    BY <1>0, <2>1, Zenon DEF LinkStep
  <2>3. OldStep
    BY <1>2, <2>1 DEF OldStep
  <2> QED BY <1>3, <2>1, <2>2, <2>3, LinksFrame
<1>10. CASE ExpireMeta(j) \/ OtherDirective(j)
  <2>1. UNCHANGED <<now, links, old>> /\ doomed \subseteq doomed' /\ ~Cpdup(j)
    BY <1>10 DEF ExpireMeta, OtherDirective, Cpdup, JobAt, Reading
  <2>2. \/ cmd' = cmd \/ cmd' = [cmd EXCEPT ![j] = [Idle EXCEPT !.op = "reblock"]]
        \/ Child(j, "snapshot") \/ Child(j, "everything") \/ Child(j, "prune") \/ PruneRoot(j)
    BY <1>10 DEF ExpireMeta, OtherDirective
  <2>3. NamesKept
    <3>1. CASE cmd' = [cmd EXCEPT ![j] = [Idle EXCEPT !.op = "reblock"]]
      <4> DEFINE e == [Idle EXCEPT !.op = "reblock"]
      <4>1. e.op = "reblock" /\ cmd' = [cmd EXCEPT ![j] = e]
        BY <3>1 DEF Idle
      <4> HIDE DEF e
      <4> QED BY <1>4, <2>1, <4>1, Zenon
    <3>2. CASE PruneRoot(j)
      <4> DEFINE e == [Idle EXCEPT !.op = "prune", !.pc = IF Version3 THEN "scanmeta" ELSE "ioctl"]
      <4>1. e.op = "prune" /\ cmd' = [cmd EXCEPT ![j] = e]
        BY <3>2 DEF PruneRoot, Idle
      <4> HIDE DEF e
      <4> QED BY <1>4, <2>1, <4>1, Zenon
    <3> QED BY <1>3, <1>5, <2>1, <2>2, <3>1, <3>2
  <2>4. LinkStep
    BY <1>0, <2>1, Zenon DEF LinkStep
  <2>5. OldStep
    BY <1>2, <2>1 DEF OldStep
  <2> QED BY <2>3, <2>4, <2>5, LinksFrame
<1>11. CASE ChildWorks(j) \/ ReblockEnds(j) \/ ChildFails(j)
  <2>1. (Work(j) \/ Die(j)) /\ old' = old
    BY <1>11, Zenon DEF ChildWorks, ReblockEnds, ChildFails, Die
  <2>2. CASE Cpdup(j)
    BY <1>8, <2>2
  <2>3. CASE ~Cpdup(j)
    <3>1. LinkStep /\ NamesKept
      BY <1>1, <2>1, WorkLinks
    <3>2. OldStep
      BY <1>2, <2>1, <2>3 DEF OldStep
    <3> QED BY <3>1, <3>2, LinksFrame
  <2> QED BY <2>2, <2>3
<1> QED BY <1>6, <1>7, <1>8, <1>9, <1>10, <1>11 DEF JobStep

\* The migration of an old snapshots directory loses no softlink: the jobs remove
\* the directory only after a complete copy, and no snapshot made or removed
\* meanwhile takes the name of one that was copied.
THEOREM MigrationKeepsSoftlinks == ASSUME CopyChecked PROVE CleanupSpec => []OldLinksKept
<1>1. ASSUME CleanupInit PROVE LinksInv
  <2>1. /\ links = {} /\ meta = {} /\ doomed = {} /\ gone = {} /\ cmd = [c \in Cmds |-> Idle]
        /\ job = [j \in Jobs |-> NoJob] /\ old = Old
    BY <1>1 DEF CleanupInit
  <2>2. Idle.op = "none" /\ NoJob.pc = "idle"
    BY DEF Idle, NoJob
  <2>3. TypeOK
    BY <1>1, CleanupInitType
  <2>4. Newer(now)
    BY <1>1 DEF CleanupInit, Newer
  <2>5. \A c \in Cmds : cmd[c].op = "none"
    BY <2>1, <2>2
  <2> QED BY <1>1, <2>1, <2>2, <2>3, <2>4, <2>5, CleanupInitial, Zenon DEF LinksInv, OldLinksKept, NamesOk
<1>2. ASSUME LinksInv, [CleanupNext]_allvars PROVE LinksInv'
  <2>1. TypeOK' /\ CleanupIInv'
    BY <1>2, CleanupTypes, CleanupStep DEF LinksInv
  <2>2. now \in Nat /\ DOMAIN cmd = Cmds /\ cmd \in [Cmds -> CmdType]
    BY <1>2 DEF LinksInv, CleanupIInv, CleanupType, TypeOK
  <2>3. CASE ((Write \/ Tick) /\ UNCHANGED jvars) \/ UNCHANGED allvars
    <3>1. UNCHANGED <<links, doomed, cmd, old, job>> /\ now' \in {now, now + 1}
      BY <2>3, Zenon DEF Write, Tick, allvars, vars, jvars
    <3>2. now <= now'
      BY <2>2, <3>1
    <3>3. NamesKept
      BY <1>2, <3>1 DEF LinksInv, NamesKept, NamesOk, Newer
    <3>4. LinkStep /\ OldStep
      BY <3>1, <3>2 DEF LinkStep, OldStep
    <3> QED BY <1>2, <2>1, <3>3, <3>4, LinksFrame
  <2>4. ASSUME NEW c \in Cmds \ Jobs, UserStep(c) PROVE LinksInv'
    <3>1. OldStep
      BY <2>4 DEF UserStep, jvars, OldStep
    <3>2. CASE Step(c)
      <4>1. LinkStep /\ NamesKept
        BY <1>2, <3>2, WorkLinks DEF Step
      <4> QED BY <1>2, <2>1, <3>1, <4>1, LinksFrame
    <3>3. ASSUME NEW op \in Ops, Begin(c, op) PROVE LinksInv'
      <4>1. PICK l \in IF op = "snaprm" THEN links ELSE {[name |-> 0, tid |-> 0]} :
              /\ cmd' = [cmd EXCEPT ![c] =
                   [Idle EXCEPT !.op = op, !.pc = FirstPc(op), !.name = l.name, !.tid = l.tid]]
              /\ doomed' = IF op = "snaprm" THEN doomed \cup {l.tid} ELSE doomed
        BY <3>3, Zenon DEF Begin
      <4>2. UNCHANGED <<now, links>> /\ doomed \subseteq doomed'
        BY <3>3, <4>1 DEF Begin
      <4> DEFINE e == [Idle EXCEPT !.op = op, !.pc = FirstPc(op), !.name = l.name, !.tid = l.tid]
      <4>3. e.op = op /\ e.pc = FirstPc(op) /\ e.name = l.name
        BY DEF Idle
      <4>4. cmd' = [cmd EXCEPT ![c] = e]
        BY <4>1
      <4> HIDE DEF e
      <4>5. cmd'[c] = e /\ \A d \in Cmds \ {c} : cmd'[d] = cmd[d]
        BY <2>2, <2>4, <4>4
      <4>6. op = "snapshot" => FirstPc(op) = "synctid"
        BY DEF FirstPc
      <4>7. ASSUME op = "snaprm", NEW k \in Old, k.name = l.name PROVE k.tid \in doomed'
        <5>1. l \in links /\ l.tid \in doomed'
          BY <4>1, <4>7
        <5>2. Newer(l.name) \/ l \in Old
          BY <1>2, <5>1 DEF LinksInv
        <5>3. k.name \in Nat
          BY OldNames
        <5>4. ~Newer(l.name)
          BY <4>7, <5>3 DEF Newer
        <5>5. k = l
          BY <4>7, <5>2, <5>4 DEF CopyChecked
        <5> QED BY <5>1, <5>5
      <4>8. NamesOk(cmd[c])'
        BY <4>3, <4>5, <4>6, <4>7 DEF NamesOk
      <4>9. NamesKept
        BY <1>2, <2>4, <4>2, <4>3, <4>5, <4>8, NamesStep, Zenon
      <4>10. LinkStep
        BY <2>2, <4>2 DEF LinkStep
      <4> QED BY <1>2, <2>1, <3>1, <4>9, <4>10, LinksFrame
    <3> QED BY <2>4, <3>2, <3>3 DEF UserStep
  <2> QED BY <1>2, <2>1, <2>3, <2>4, JobLinks DEF CleanupNext
<1>3. LinksInv => OldLinksKept
  BY DEF LinksInv
<1> QED BY <1>1, <1>2, <1>3, PTL DEF CleanupSpec
=============================================================================
