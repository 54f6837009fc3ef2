------------------------------ MODULE MirrorInv ------------------------------
(***************************************************************************)
(* Why mirroring in two-way mode is correct: the inductive invariant of    *)
(* Mirror when TwoWayPipeOpt is set, and the abstract specification it     *)
(* implements.                                                             *)
(***************************************************************************)
EXTENDS Mirror

Sync == INSTANCE MirrorSync WITH FirstTid <- SyncBegTid

\* In every mode the two processes implement the abstract synchronization:
\* what update_pfs_snapshot publishes is complete on the target.
ImplementsSync == Sync!SyncSpec

-----------------------------------------------------------------------------
InFlight(x) == \E j \in 1..Len(toTgt) : x \in toTgt[j].recs

\* The filesystems: no record at or before sync_beg_tid or after sync_end_tid,
\* and nothing on the target or under way that the source does not have.
FsInv ==
    /\ SyncBegTid <= srcEnd /\ tgtEnd <= srcEnd
    /\ \A x \in src : SyncBegTid < x.tid /\ x.tid <= srcEnd
    /\ \A j \in 1..Len(toTgt) : toTgt[j].recs \subseteq src

\* Message i on the link is one of the records of a round, or the one that
\* ends it, which is last and carries no record.
InBody(i) ==
    \/ toTgt[i].type = "REC"
    \/ /\ i = Len(toTgt) /\ toTgt[i].recs = {}
       /\ toTgt[i].type = IF rd.didwork THEN "SYNC" ELSE "IDLE"

\* Where the target stands in the stream, and what the link then holds.
\* The range it was given is always the source's current one.
WrPhase ==
    /\ wr.pc = "again" =>
         \/ toTgt = <<>>
         \/ Len(toTgt) = 1 /\ toTgt[1].type \in {"PFSD", "TERM"}
    /\ wr.pc \in {"own_pfsd", "update"} => toTgt = <<>>
    /\ wr.pc = "range" /\ toTgt # <<>> =>
         toTgt[1] = PFSD(rd.tid_end) /\ \A i \in 2..Len(toTgt) : InBody(i)
    /\ wr.pc = "records" => \A i \in 1..Len(toTgt) : InBody(i)
    /\ wr.pc = "final" => Len(toTgt) = 1 /\ toTgt[1].type # "REC" /\ InBody(1)
    /\ wr.pc \in {"records", "final", "update"} => wr.tid_end = rd.tid_end

\* What the target has answered: at most the one record the source waits for,
\* and nobody has met a record of an unexpected type.
ReplyInv ==
    /\ rd.pc \notin {"wait_pfsd", "wait_update"} /\ ~Down(rd) => toSrc = <<>>
    /\ rd.pc = "wait_pfsd" /\ toSrc # <<>> =>
         Len(toSrc) = 1 /\ toSrc[1].type = "PFSD"
    /\ rd.pc = "wait_update" /\ toSrc # <<>> =>
         Len(toSrc) = 1 /\ toSrc[1] = UPDATE(rd.tid_end)
    /\ rd.pc \notin {"proto", "cycle"} /\ wr.pc # "proto"

\* Where the source stands, while the target is alive.
RdPhase ==
    /\ rd.pc \in {"again", "wait_source", "term"} => wr.pc = "again" /\ toTgt = <<>>
    /\ rd.pc = "wait_pfsd" =>
         \/ wr.pc = "again" /\ Len(toTgt) = 1 /\ toTgt[1].type = "PFSD" /\ toSrc = <<>>
         \/ wr.pc = "own_pfsd" /\ toSrc = <<>>
         \/ /\ wr.pc = "range" /\ toTgt = <<>>
            /\ toSrc # <<>> /\ toSrc[1].end = tgtEnd
    /\ rd.pc = "range" =>
         wr.pc = "range" /\ toTgt = <<>> /\ rd.tid_beg = tgtEnd + 1
    /\ rd.pc \in {"bulk", "done"} =>
         /\ wr.pc \in {"range", "records"}
         /\ \A i \in 1..Len(toTgt) : toTgt[i].type \in {"PFSD", "REC"}
         /\ wr.pc = "range" => toTgt # <<>>
    /\ rd.pc = "wait_update" =>
         \/ /\ wr.pc \in {"range", "records", "final", "update"} /\ toSrc = <<>>
            /\ wr.pc = "range" => toTgt # <<>>
            /\ wr.pc = "update" /\ rd.didwork => tgtEnd = rd.tid_end
         \/ /\ wr.pc = "again" /\ toTgt = <<>> /\ toSrc # <<>>
            /\ rd.didwork => tgtEnd = rd.tid_end

\* While a round does work, whatever the target still lacks up to the end of
\* the range is on the link or still to be scanned; once SYNC is on the link
\* it is on the link.
RoundInv ==
    /\ rd.pc \in {"wait_pfsd", "range"} => rd.key_beg = 1
    /\ rd.pc = "bulk" => rd.didwork
    /\ rd.pc \in {"bulk", "done"} /\ rd.didwork =>
         /\ tgtEnd < rd.tid_end
         /\ \A x \in src : x.tid <= rd.tid_end =>
              \/ x \in tgt \/ InFlight(x)
              \/ x \in InRange(rd.tid_beg, rd.tid_end, rd.key_beg)
    /\ rd.pc = "done" /\ ~rd.interrupted /\ rd.didwork => rd.key_beg = NKeys + 1

SyncInv ==
    \A i \in 1..Len(toTgt) : toTgt[i].type = "SYNC" =>
        /\ tgtEnd < rd.tid_end
        /\ \A x \in src : x.tid <= rd.tid_end => x \in tgt \/ InFlight(x)

\* The histogram: nothing in it, stale entries included, exceeds its last
\* slice, and after the last slice the target has it all.
HistInv ==
    /\ \A k \in 0..(HIST_COUNT + 1) : hist[k] <= srcEnd
    /\ rd.tid_end <= srcEnd
    /\ rd.histmax # 0 => \A k \in 0..(HIST_COUNT + 1) : hist[k] <= hist[rd.histmax]
    /\ rd.histogram /\ rd.pc \in {"again", "wait_pfsd", "range", "wait_source"} =>
         /\ rd.histindex <= rd.histmax
         /\ rd.histindex = rd.histmax /\ ~Down(wr) => tgtEnd >= hist[rd.histmax]
         /\ rd.histmax # 0 /\ rd.streaming # 0
    /\ rd.histogram /\ rd.pc \in {"bulk", "done", "wait_update"} =>
         /\ rd.histindex \in 1..rd.histmax /\ rd.didwork
         /\ rd.streaming # 0 /\ rd.tid_end = hist[rd.histindex]

TwoWayInv ==
    TwoWayPipeOpt =>
        /\ SyncedMeansComplete /\ FsInv /\ HistInv /\ ReplyInv
        /\ ~Down(wr) => WrPhase /\ RdPhase /\ RoundInv /\ SyncInv

\* The inductive invariant: with the types, TwoWayInv is preserved by every
\* step of either process, by every crash and by every restart.
IInv == TypeOK /\ TwoWayInv
=============================================================================
