----------------------------- MODULE SnapshotInv -----------------------------
(***************************************************************************)
(* Inductive invariants of Snapshots.                                      *)
(***************************************************************************)
EXTENDS Snapshots

\* A version 3 filesystem with only snapshots in the directory.
Plain == Version3 /\ ~PfsLink

\* The setting of the guarantee: moreover there is one snapshot command at a
\* time, and nobody prunes everything.
Managed == Plain /\ OneSnapshotter /\ "everything" \notin Ops

\* The transaction ids that are or have been snapshots in the meta-data.
Known == {m.tid : m \in meta} \cup doomed

KnownInv ==
    /\ \A t \in Known : t <= tid
    /\ \A l \in links : l.tid \in Known
    /\ \A c \in Cmds : \A l \in cmd[c].todo : l.tid \in Known
    /\ \A c \in Cmds : \A x \in cmd[c].scan : x.tid \in Known

GoneInv == \A g \in gone : g.v.del # 0 /\ g.v.del <= tid

\* A snapshot that has its transaction id and no record yet is newer than any
\* snapshot a prune can have seen, and than anything pruned.
PendingInv ==
    \A c \in Cmds : At(c, "snapshot", "add_meta") =>
        /\ cmd[c].tid <= tid
        /\ \A t \in Known : t < cmd[c].tid
        /\ \A g \in gone : g.v.del < cmd[c].tid

OwnInv ==
    /\ \A c, d \in Cmds : cmd[c].op = "snapshot" /\ cmd[d].op = "snapshot" => c = d
    /\ \A c \in Cmds : cmd[c].op = "snapshot" /\ cmd[c].pc \in {"remove", "symlink"} =>
                          cmd[c].tid \in Known
    /\ \A c \in Cmds : cmd[c].op = "snaprm" => cmd[c].tid \in doomed
    /\ \A c \in Cmds : cmd[c].op # "everything"

\* A prune about to start has seen every recorded snapshot, except newer ones.
ScanInv ==
    \A c \in Cmds : At(c, "prune", "ioctl") =>
        \A m \in meta : m.tid \in doomed
                          \/ m.tid \in {x.tid : x \in cmd[c].scan}
                          \/ \A x \in cmd[c].scan : x.tid < m.tid

IntactInv == \A m \in meta, g \in gone : m.tid \in doomed \/ ~VisibleAt(g.v, m.tid)

SnapInv ==
    TypeOK /\ KnownInv /\ GoneInv /\ PendingInv /\ OwnInv /\ ScanInv /\ IntactInv

\* A version is never superseded by the transaction of a snapshot, recorded or
\* about to be: what is superseded before the end of a range is superseded
\* before the snapshot at its end.
FreshInv ==
    \A v \in recs :
        /\ v.del <= tid
        /\ v.del # 0 => /\ v.del \notin Known
                        /\ \A c \in Cmds : At(c, "snapshot", "add_meta") => v.del # cmd[c].tid

\* The time t is no earlier than the deaths that transaction s can see.
Covers(t, s) == \A v \in recs : v.del # 0 /\ v.del <= s => v.died <= t

\* A timestamp t fit for a snapshot at s.
Fit(t, s) == t # 0 /\ s <= tid /\ Covers(t, s)

\* A snapshot's timestamp is no earlier than what happened before it, wherever
\* the snapshot is recorded or remembered.
MinInv ==
    /\ TypeOK /\ now # 0
    /\ \A v \in recs : v.died <= now /\ v.del <= tid
    /\ \A m \in meta : Fit(m.ts, m.tid)
    /\ \A l \in links : Fit(l.ct, l.tid)
    /\ \A c \in Cmds : cmd[c].tid <= tid /\ cmd[c].op # "everything"
    /\ \A c \in Cmds : \A l \in cmd[c].todo : Fit(l.ct, l.tid)
    /\ \A c \in Cmds : \A x \in cmd[c].scan : Fit(x.ts, x.tid)
    /\ PruneMinKept

\* The inductive invariants: what keeps the snapshots' data, what keeps
\* prune-min, and what keeps the history after the latest snapshot.
PruneIInv == SnapInv /\ MinInv /\ FreshInv
=============================================================================
