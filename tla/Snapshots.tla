------------------------------ MODULE Snapshots ------------------------------
(***************************************************************************)
(* The snapshot and prune commands on one PFS.  A snapshot is a softlink   *)
(* holding a transaction id and, in version 3+ filesystems, a meta-data    *)
(* record.  Each hammer process is a slot of Cmds and takes the steps that *)
(* other processes can observe: the ioctls, and the directory operations.  *)
(* The filesystem's own part (transactions, meta-data records, the prune)  *)
(* is the kernel's and is external.                                        *)
(***************************************************************************)
EXTENDS Naturals, FiniteSets, PruneRanges

CONSTANTS Cmds,        \* slots for hammer processes
          Ops,         \* the commands users run
          Version3,    \* the filesystem has version 3 or later
          PruneMin,    \* the PFS's prune_min, 0 for none
          PfsLink,     \* the directory also holds the softlink of a master PFS
          OneSnapshotter,   \* no two snapshot commands run at the same time
          MaxTid, MaxNow    \* bounds on transactions and on the clock

ASSUME SnapshotsAssumption ==
    /\ Ops \subseteq {"snapshot", "snaprm", "prune", "everything"}
    /\ {Version3, PfsLink, OneSnapshotter} \subseteq BOOLEAN
    /\ PruneMin \in Nat /\ MaxTid \in Nat \ {0} /\ MaxNow \in Nat \ {0}

VARIABLES now,     \* time(NULL)
          tid,     \* the last transaction id
          recs,    \* the versions of a file, [cre, del, died]; del = 0 while live
          gone,    \* history: the versions pruned, with the time of the prune
          links,   \* the softlinks of the snapshots directory, [name, tid, ct]
          meta,    \* the meta-data snapshots, [tid, ts]
          doomed,  \* history: the snapshots someone has asked to remove
          cmd      \* the running commands
vars == <<now, tid, recs, gone, links, meta, doomed, cmd>>

Tids == 0..MaxTid
Times == 0..MaxNow
\* strtoull("-1") of a master PFS's softlink @@-1:nnnnn
PfsTid == MaxTid + 1
Links == [name : Times, tid : Tids, ct : Times]
Snaps == [tid : 0..PfsTid, ts : Times]
Pcs == {"done", "synctid", "add_meta", "remove", "symlink", "del_meta", "unlink",
        "opendir", "scandir", "scanmeta", "ioctl"}
CmdType == [op : {"none", "snapshot", "snaprm", "prune", "everything", "reblock"}, pc : Pcs,
            tid : Tids, name : Times, todo : SUBSET Links, scan : SUBSET Snaps]
Idle == [op |-> "none", pc |-> "done", tid |-> 0, name |-> 0, todo |-> {}, scan |-> {}]

TypeOK ==
    /\ now \in Times /\ tid \in Tids
    /\ recs \subseteq [cre : Tids, del : Tids, died : Times]
    /\ gone \subseteq [v : [cre : Tids, del : Tids, died : Times], at : Times]
    /\ links \subseteq Links
    /\ meta \subseteq [tid : Tids, ts : Times] /\ doomed \subseteq Tids
    /\ cmd \in [Cmds -> CmdType]

Init ==
    /\ now = 1 /\ tid = 1
    /\ recs = {[cre |-> 1, del |-> 0, died |-> 0]} /\ gone = {}
    /\ links = {} /\ meta = {} /\ doomed = {}
    /\ cmd = [c \in Cmds |-> Idle]

-----------------------------------------------------------------------------
\* External: the file is rewritten.
Write ==
    /\ tid < MaxTid
    /\ tid' = tid + 1
    /\ recs' = {IF v.del = 0 THEN [v EXCEPT !.del = tid + 1, !.died = now] ELSE v : v \in recs}
                 \cup {[cre |-> tid + 1, del |-> 0, died |-> 0]}
    /\ UNCHANGED <<now, gone, links, meta, doomed, cmd>>

Tick ==
    /\ now < MaxNow /\ now' = now + 1
    /\ UNCHANGED <<tid, recs, gone, links, meta, doomed, cmd>>

At(c, op, pc) == cmd[c].op = op /\ cmd[c].pc = pc
Goto(c, pc) == cmd' = [cmd EXCEPT ![c].pc = pc]
Exit(c) == cmd' = [cmd EXCEPT ![c] = Idle]

FirstPc(op) ==
    CASE op = "snapshot" -> "synctid" [] op = "snaprm" -> "del_meta"
      [] op = "prune" -> "opendir" [] op = "everything" -> "scanmeta"

\* A command begins; snaprm has read the softlink it is given.
Begin(c, op) ==
    /\ cmd[c].op = "none"
    /\ op = "snapshot" /\ OneSnapshotter => \A d \in Cmds : cmd[d].op # "snapshot"
    /\ \E l \in IF op = "snaprm" THEN links ELSE {[name |-> 0, tid |-> 0]} :
         /\ cmd' = [cmd EXCEPT ![c] =
                   [Idle EXCEPT !.op = op, !.pc = FirstPc(op), !.name = l.name, !.tid = l.tid]]
         /\ doomed' = IF op = "snaprm" THEN doomed \cup {l.tid} ELSE doomed
    /\ UNCHANGED <<now, tid, recs, gone, links, meta>>
-----------------------------------------------------------------------------
\* HAMMERIOC_SYNCTID flushes the filesystem and gives the snapshot its
\* transaction id; the softlink's name is the time.
SyncTid(c) ==
    /\ At(c, "snapshot", "synctid")
    /\ tid < MaxTid /\ tid' = tid + 1
    /\ cmd' = [cmd EXCEPT ![c].tid = tid + 1, ![c].name = now,
                          ![c].pc = IF Version3 THEN "add_meta" ELSE "remove"]
    /\ UNCHANGED <<now, recs, gone, links, meta, doomed>>

\* Mutant: the timestamp is left in microseconds.
AddMetaMicros(c) ==
    /\ At(c, "snapshot", "add_meta")
    /\ meta' = meta \cup {[tid |-> cmd[c].tid, ts |-> now * 1000000]}
    /\ Goto(c, "remove")
    /\ UNCHANGED <<now, tid, recs, gone, links, doomed>>

\* HAMMERIOC_ADD_SNAPSHOT, with the time of the call.
AddMeta(c) ==
    /\ At(c, "snapshot", "add_meta")
    /\ meta' = meta \cup {[tid |-> cmd[c].tid, ts |-> now]}
    /\ Goto(c, "remove")
    /\ UNCHANGED <<now, tid, recs, gone, links, doomed>>

RemoveLink(c) ==
    /\ At(c, "snapshot", "remove")
    /\ links' = {l \in links : l.name # cmd[c].name}
    /\ Goto(c, "symlink")
    /\ UNCHANGED <<now, tid, recs, gone, meta, doomed>>

\* Another process has made a softlink of the same name: the command fails.
Clash(c) == \E l \in links : l.name = cmd[c].name

Symlink(c) ==
    /\ At(c, "snapshot", "symlink")
    /\ links' = IF Clash(c) THEN links
                ELSE links \cup {[name |-> cmd[c].name, tid |-> cmd[c].tid, ct |-> now]}
    /\ Exit(c)
    /\ UNCHANGED <<now, tid, recs, gone, meta, doomed>>

\* snaprm <softlink>: HAMMERIOC_DEL_SNAPSHOT, then the softlink.
DelMeta(c) ==
    /\ At(c, "snaprm", "del_meta")
    /\ IF Version3
       THEN meta' = {m \in meta : m.tid # cmd[c].tid} /\ Goto(c, "unlink")
       ELSE meta' = meta /\ Exit(c)
    /\ UNCHANGED <<now, tid, recs, gone, links, doomed>>

Unlink(c) ==
    /\ At(c, "snaprm", "unlink")
    /\ links' = {l \in links : l.name # cmd[c].name}
    /\ Exit(c)
    /\ UNCHANGED <<now, tid, recs, gone, meta, doomed>>
-----------------------------------------------------------------------------
\* The directory scan: a softlink that comes or goes while readdir is under
\* way may or may not be seen.
OpenDir(c) ==
    /\ At(c, "prune", "opendir")
    /\ cmd' = [cmd EXCEPT ![c].pc = "scandir", ![c].todo = links]
    /\ UNCHANGED <<now, tid, recs, gone, links, meta, doomed>>

FromLinks(X) ==
    {[tid |-> l.tid, ts |-> l.ct] : l \in X}
        \cup IF PfsLink THEN {[tid |-> PfsTid, ts |-> 1]} ELSE {}

ScanDir(c) ==
    /\ At(c, "prune", "scandir")
    /\ \E X \in SUBSET (cmd[c].todo \cup links) :
         /\ cmd[c].todo \cap links \subseteq X
         /\ cmd' = [cmd EXCEPT ![c].pc = IF Version3 THEN "scanmeta" ELSE "ioctl",
                               ![c].todo = {}, ![c].scan = FromLinks(X)]
    /\ UNCHANGED <<now, tid, recs, gone, links, meta, doomed>>

\* Mutant: the meta-data snapshots are left out of the prune.
ScanMetaIgnored(c) ==
    /\ cmd[c].op \in {"prune", "everything"} /\ cmd[c].pc = "scanmeta"
    /\ Goto(c, "ioctl")
    /\ UNCHANGED <<now, tid, recs, gone, links, meta, doomed>>

\* prune adds the meta-data snapshots to its list, prune-everything deletes them.
ScanMeta(c) ==
    /\ cmd[c].op \in {"prune", "everything"} /\ cmd[c].pc = "scanmeta"
    /\ IF cmd[c].op = "prune"
       THEN /\ cmd' = [cmd EXCEPT ![c].pc = "ioctl", ![c].scan = @ \cup meta]
            /\ meta' = meta
       ELSE Goto(c, "ioctl") /\ meta' = IF Version3 THEN {} ELSE meta
    /\ UNCHANGED <<now, tid, recs, gone, links, doomed>>

IsYoung(ts) == ts # 0 /\ now - ts < PruneMin

\* The ranges of finalize: one timestamp of each duplicate survives the sort.
Elms(scan, ts) ==
    LET S == {x.tid : x \in scan}
        young == IF PruneMin = 0 THEN {} ELSE {s \in S : IsYoung(ts[s])} IN
    Ranges(Kept(S, young))

\* HAMMERIOC_PRUNE: a timer or a signal may stop it before it has seen all.
Prune(c) ==
    /\ cmd[c].op \in {"prune", "everything"} /\ cmd[c].pc = "ioctl"
    /\ \E ts \in [{x.tid : x \in cmd[c].scan} -> {x.ts : x \in cmd[c].scan}] :
         /\ \A s \in DOMAIN ts : [tid |-> s, ts |-> ts[s]] \in cmd[c].scan
         /\ LET dead == {v \in recs : v.del # 0 /\
                            \/ cmd[c].op = "everything"
                            \/ \E r \in Elms(cmd[c].scan, ts) : Prunes(r, v)} IN
            \E D \in SUBSET dead :
              /\ recs' = recs \ D
              /\ gone' = gone \cup {[v |-> v, at |-> now] : v \in D}
    /\ Exit(c)
    /\ UNCHANGED <<now, tid, links, meta, doomed>>

\* A command fails (err) or is killed between two steps.
Die(c) ==
    /\ cmd[c].op # "none"
    /\ Exit(c)
    /\ UNCHANGED <<now, tid, recs, gone, links, meta, doomed>>

Work(c) ==
    \/ SyncTid(c) \/ AddMeta(c) \/ RemoveLink(c) \/ Symlink(c)
    \/ DelMeta(c) \/ Unlink(c)
    \/ OpenDir(c) \/ ScanDir(c) \/ ScanMeta(c) \/ Prune(c)

Step(c) == Work(c) \/ Die(c)

Next == Write \/ Tick \/ \E c \in Cmds : Step(c) \/ \E op \in Ops : Begin(c, op)

Spec == Init /\ [][Next]_vars
-----------------------------------------------------------------------------
Recorded == {l.tid : l \in links} \cup {m.tid : m \in meta}

\* No prune has taken a version that a recorded snapshot shows, unless
\* its removal was asked for ("Their data will
\* be retained across prune operations").
SnapshotsIntact == \A s \in Recorded \ doomed, g \in gone : ~VisibleAt(g.v, s)

\* The same for the meta-data snapshots alone, whatever commands are run:
\* prune-everything "will delete all snapshots recorded in file system meta-data".
MetaIntact == \A m \in meta, g \in gone : ~VisibleAt(g.v, m.tid)

\* "history is guaranteed to be saved at least this time interval"
PruneMinKept == \A g \in gone : g.at - g.v.died >= PruneMin

\* "... and all history after the latest snapshot": what was superseded after
\* every snapshot on record is still there.
LatestKept ==
    [][\A g \in gone' \ gone : \E s \in Recorded \cup doomed : g.v.del < s]_vars
=============================================================================
