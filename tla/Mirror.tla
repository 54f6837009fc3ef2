------------------------------- MODULE Mirror -------------------------------
(***************************************************************************)
(* The HAMMER mirroring stream: `hammer mirror-read` (the source process,  *)
(* rd) and `hammer mirror-write` (the target process, wr) of               *)
(* sbin/hammer/cmd_mirror.c, the link between them, and the parent that    *)
(* starts and restarts the pair (mirror-copy, mirror-stream).              *)
(*                                                                         *)
(* Persistent state, which survives a dead process: the records of the     *)
(* source PFS and its sync_end_tid, those of the target PFS, and the cycle *)
(* file.  A record is a modification: the TID that made it and the B-Tree  *)
(* key it is found under.  The stream carries PFSD, REC, SYNC, IDLE, TERM  *)
(* and UPDATE records; a REC message is one write(2) of a batch of them.   *)
(*                                                                         *)
(* External, modelled from its use here: the HAMMER VFS behind the ioctls  *)
(* MIRROR_READ, MIRROR_WRITE, GET/SET_PSEUDOFS and WAI_PSEUDOFS.           *)
(* Not covered: loss of the target machine's unflushed data, pruning on    *)
(* the source, records damaged on the link (both sides exit on a bad CRC), *)
(* the begin TID a user may give to mirror-read.                           *)
(***************************************************************************)
EXTENDS Integers, Sequences, FiniteSets

CONSTANTS
    TwoWayPipeOpt,  \* -2, or implied by mirror-copy and mirror-stream
    FullDuplex,     \* can both ends of a two-way link be read and written
    Streaming,      \* 1: mirror-read-stream / mirror-stream, 0: one transfer
    BulkOpt,        \* -B: do not split the transfer with a histogram
    TimeoutOpt,     \* -t: may the timer interrupt the bulk loop
    CycleOpt,       \* -c: is there a cycle file
    ForceYesOpt,    \* -y: do not ask before creating the slave PFS
    HIST_COUNT,     \* buckets of the histogram
    SplitupOpt,     \* -S: records per slice of a histogram
    PipeCap,        \* bound: messages the link holds before write(2) blocks
    NKeys,          \* bound: B-Tree keys
    MaxTid,         \* bound: last transaction of the source
    MaxCrash        \* bound: processes killed

ASSUME OptAssumption ==
    /\ {TwoWayPipeOpt, FullDuplex, BulkOpt, TimeoutOpt, CycleOpt,
        ForceYesOpt} \subseteq BOOLEAN
    /\ Streaming \in {0, 1}

ASSUME BoundAssumption ==
    /\ HIST_COUNT \in Nat \ {0} /\ SplitupOpt \in Nat \ {0}
    /\ PipeCap \in Nat \ {0} /\ NKeys \in Nat \ {0}
    /\ MaxTid \in Nat \ {0} /\ MaxCrash \in Nat

VARIABLES
    src,      \* records of the source PFS whose flush cycle has completed
    srcEnd,   \* its sync_end_tid
    tgt,      \* records of the target PFS
    tgtEnd,   \* its sync_end_tid, 0 while the PFS does not exist
    cycle,    \* the cycle file
    toTgt,    \* the link, source to target
    toSrc,    \* the link, target to source
    rd,       \* locals of hammer_cmd_mirror_read
    hist,     \* its histogram_ary[].tid
    wr,       \* locals of hammer_cmd_mirror_write
    crashes   \* processes killed so far

vars == <<src, srcEnd, tgt, tgtEnd, cycle, toTgt, toSrc, rd, hist, wr, crashes>>
fs == <<src, srcEnd, tgt, tgtEnd>>

Tids == 0..MaxTid
Keys == 1..NKeys
Records == [tid : Tids, key : Keys]

\* Keys a scan can stand at: the next key to read, NKeys + 1 once it is over.
ScanKeys == 1..(NKeys + 1)

\* init_pfsd: a PFS begins with sync_beg_tid = sync_end_tid = 1.
SyncBegTid == 1

\* A cycle file that does not exist, and the tid of one cut short.
NoCycle == [key |-> 0, tid |-> 0]
NoTid == 0

PFSD(t) == [type |-> "PFSD", end |-> t, recs |-> {}]
REC(S) == [type |-> "REC", end |-> 0, recs |-> S]
UPDATE(t) == [type |-> "UPDATE", end |-> t, recs |-> {}]
Plain(ty) == [type |-> ty, end |-> 0, recs |-> {}]

Down(p) == p.pc \in {"exited", "failed", "proto"}

RdInit == [pc |-> "again", streaming |-> Streaming, histogram |-> FALSE,
           histindex |-> 0, histmax |-> 0, tid_beg |-> 0, tid_end |-> 0,
           key_beg |-> 1, didwork |-> FALSE, interrupted |-> FALSE]
WrInit == [pc |-> "again", tid_end |-> 0]

\* histogram_ary is one 16MB allocation, which the allocator maps fresh.
HistInit == [k \in 0..(HIST_COUNT + 1) |-> 0]

Init ==
    /\ src = {} /\ srcEnd = SyncBegTid
    /\ tgt = {} /\ tgtEnd \in {0, SyncBegTid}
    /\ cycle = NoCycle
    /\ toTgt = <<>> /\ toSrc = <<>>
    /\ rd = RdInit /\ hist = HistInit /\ wr = WrInit
    /\ crashes = 0

-----------------------------------------------------------------------------
(* The source filesystem. *)

\* A flush cycle completes: one more transaction, under any set of keys.
SourceFlush ==
    /\ srcEnd < MaxTid
    /\ srcEnd' = srcEnd + 1
    /\ \E K \in SUBSET Keys :
         src' = src \cup {[tid |-> srcEnd + 1, key |-> k] : k \in K}
    /\ UNCHANGED <<tgt, tgtEnd, cycle, toTgt, toSrc, rd, hist, wr, crashes>>

\* Mutant: the end of the range taken as exclusive.
InRangeExclusive(beg, end, k) ==
    {x \in src : x.tid >= beg /\ x.tid < end /\ x.key >= k}

\* What a scan of [beg, end] has still to return from key k on.
InRange(beg, end, k) ==
    {x \in src : x.tid >= beg /\ x.tid <= end /\ x.key >= k}

-----------------------------------------------------------------------------
(* generate_histogram *)

Boundary(i, beg, end) == beg + (i * (end - beg)) \div HIST_COUNT

\* Mutant: no correction for a tid on a boundary.
BucketNaive(tid, beg, end) == ((tid - beg) * HIST_COUNT) \div (end - beg)

\* The bucket a tid is counted in: one on a boundary belongs to the bucket
\* before, since a slice includes its end.
BucketOf(tid, beg, end) ==
    LET i == ((tid - beg) * HIST_COUNT) \div (end - beg)
    IN  IF tid = Boundary(i, beg, end) /\ i # 0 THEN i - 1 ELSE i

\* Records counted in the buckets i..j.
Counted(i, j, beg, end) ==
    Cardinality({x \in InRange(beg, end, 1) :
                    BucketOf(x.tid, beg, end) \in i..j})

LastCut(C, i) ==
    CHOOSE c \in C \cup {0} :
        c < i /\ \A d \in C \cup {0} : d < i => d <= c

\* C is the set of buckets the reduction loop opens a new slice at: those
\* where the current slice has reached SplitupOpt.
IsCuts(C, beg, end) ==
    \A i \in 1..(HIST_COUNT - 1) :
        i \in C <=> Counted(LastCut(C, i), i - 1, beg, end) >= SplitupOpt

\* The k-th cut, HIST_COUNT (the end of the range) after the last of them.
NthCut(C, k) ==
    LET S == {c \in C : Cardinality({d \in C : d <= c}) = k}
    IN  IF S = {} THEN HIST_COUNT ELSE CHOOSE c \in S : TRUE

\* histogram_ary after the reduction; entries past the last keep their value.
Reduced(C, beg, end) ==
    [k \in 0..(HIST_COUNT + 1) |->
        IF k = 0 THEN beg
        ELSE IF k <= Cardinality(C) + 1 THEN Boundary(NthCut(C, k), beg, end)
        ELSE hist[k]]

-----------------------------------------------------------------------------
(* The link.  write(2) blocks while the link is full and kills or fails the *)
(* writer once the reader is gone; read(2) gives end of file once the       *)
(* writer is gone and everything it wrote has been read.                    *)

\* mirror_copy gives each child one end of a pipe(2) as both stdin and
\* stdout; where pipes are unidirectional neither child has the end it needs.
LinkUsable == TwoWayPipeOpt => FullDuplex

CanSend == LinkUsable /\ ~Down(wr) /\ Len(toTgt) < PipeCap
CanReply == ~Down(rd)

-----------------------------------------------------------------------------
(* hammer_cmd_mirror_read *)

\* Mutant: one TID is left out.
BeginAfterNext(t) == t + 2

\* The first TID of a range that follows one that ended with t.
BeginAfter(t) == t + 1

\* again: a header that tells the target the shared uuid.  tid_beg is only
\* known now when the target will not be asked for it.
RdHello ==
    /\ rd.pc = "again" /\ CanSend
    /\ toTgt' = Append(toTgt, PFSD(srcEnd))
    /\ rd' = [rd EXCEPT
         !.pc = IF TwoWayPipeOpt THEN "wait_pfsd" ELSE "range",
         !.key_beg = 1,
         !.tid_end = 0,
         !.tid_beg = IF ~TwoWayPipeOpt /\ rd.streaming # 0 /\ rd.histogram
                     THEN BeginAfter(hist[rd.histindex]) ELSE 0]
    /\ UNCHANGED <<fs, cycle, toSrc, hist, wr, crashes>>

\* Two-way: begin after the target's current snapshot.
RdTargetPfsd ==
    /\ rd.pc = "wait_pfsd" /\ toSrc # <<>>
    /\ toSrc' = Tail(toSrc)
    /\ rd' = IF Head(toSrc).type = "PFSD"
             THEN [rd EXCEPT !.pc = "range", !.tid_beg = BeginAfter(Head(toSrc).end)]
             ELSE [rd EXCEPT !.pc = "proto"]
    /\ UNCHANGED <<fs, cycle, toTgt, hist, wr, crashes>>

\* hammer_get_cycle, called outside two-way and histogram mode: the key and
\* the tid to resume at.
WithCycle(r) ==
    IF TwoWayPipeOpt \/ r.histogram \/ ~CycleOpt \/ cycle = NoCycle
    THEN r
    ELSE [r EXCEPT !.key_beg = cycle.key,
                   !.tid_beg = IF cycle.tid = NoTid THEN @ ELSE cycle.tid]

\* Mutant: a range of two TIDs counts as nothing to do.
NoWorkEarly(r) == r.tid_beg >= r.tid_end - 1

\* Nothing to do if begin equals end.
NoWork(r) == r.tid_beg >= r.tid_end

StartScan(r) ==
    IF NoWork(r)
    THEN [r EXCEPT !.pc = "done", !.didwork = FALSE, !.histogram = FALSE]
    ELSE [r EXCEPT !.pc = "bulk", !.didwork = TRUE]

\* The header that gives the target the TID range, from slice r.histindex of
\* histogram h when there is one, and the decision whether there is work.
SendRange(r, h) ==
    LET r1 == IF r.streaming # 0 /\ r.histogram
              THEN [r EXCEPT !.histindex = @ + 1,
                             !.tid_end = h[r.histindex + 1]]
              ELSE r
    IN  /\ toTgt' = Append(toTgt, PFSD(r1.tid_end))
        /\ rd' = StartScan(WithCycle(r1))

\* The source's own header bounds the range; without -B the first round of a
\* transfer slices it, and a plain mirror-read then pretends to stream.
RdRange ==
    /\ rd.pc = "range" /\ CanSend
    /\ LET beg == IF rd.tid_beg < SyncBegTid THEN SyncBegTid ELSE rd.tid_beg
           r == [rd EXCEPT !.tid_beg = beg, !.tid_end = srcEnd]
           sliced == [r EXCEPT !.histogram = TRUE, !.histindex = 0,
                        !.streaming = IF @ = 0 THEN -1 ELSE @]
       IN  \/ /\ rd.histogram \/ BulkOpt
              /\ SendRange(r, hist)
              /\ UNCHANGED hist
           \/ /\ ~rd.histogram /\ ~BulkOpt /\ beg >= srcEnd
              /\ SendRange([sliced EXCEPT !.histmax = 0], hist)
              /\ UNCHANGED hist
           \/ /\ ~rd.histogram /\ ~BulkOpt /\ beg < srcEnd
              /\ \E C \in SUBSET (1..(HIST_COUNT - 1)) :
                   /\ IsCuts(C, beg, srcEnd)
                   /\ hist' = Reduced(C, beg, srcEnd)
                   /\ SendRange([sliced EXCEPT !.histmax = Cardinality(C) + 1],
                                hist')
    /\ UNCHANGED <<fs, cycle, toSrc, wr, crashes>>

\* One MIRROR_READ and the write of what it returned: the records of the
\* range up to some key.  An empty answer ends the loop, and so may the timer.
RdBulk ==
    /\ rd.pc = "bulk"
    /\ \E k \in ScanKeys, late \in BOOLEAN :
         LET left == InRange(rd.tid_beg, rd.tid_end, rd.key_beg)
             batch == {x \in left : x.key < k}
         IN  /\ late => TimeoutOpt
             /\ \/ /\ left = {} /\ k = NKeys + 1
                   /\ UNCHANGED toTgt
                \/ /\ batch # {} /\ CanSend
                   /\ toTgt' = Append(toTgt, REC(batch))
             /\ rd' = [rd EXCEPT
                         !.key_beg = k,
                         !.interrupted = late,
                         !.pc = IF late \/ left = {} THEN "done" ELSE "bulk"]
    /\ UNCHANGED <<fs, cycle, toSrc, hist, wr, crashes>>

\* What follows a round: the next slice, the end of a sliced mirror-read, the
\* wait for the source to change, or the end.
NextRound(r) ==
    IF r.streaming = 0 \/ r.interrupted THEN [r EXCEPT !.pc = "term"]
    ELSE IF r.histogram /\ r.histindex # r.histmax THEN [r EXCEPT !.pc = "again"]
    ELSE IF r.streaming < 0 THEN [r EXCEPT !.streaming = 0, !.pc = "term"]
    ELSE [r EXCEPT !.pc = "wait_source"]

\* done: the termination record, unless interrupted.
RdDone ==
    /\ rd.pc = "done"
    /\ \/ /\ ~rd.interrupted /\ CanSend
          /\ toTgt' = Append(toTgt, Plain(IF rd.didwork THEN "SYNC" ELSE "IDLE"))
       \/ /\ rd.interrupted
          /\ UNCHANGED toTgt
    /\ rd' = [rd EXCEPT !.pc = IF TwoWayPipeOpt THEN "wait_update" ELSE "cycle"]
    /\ UNCHANGED <<fs, cycle, toSrc, hist, wr, crashes>>

\* One way, the cycle file is written with the scan's position and the
\* unchanged tid_beg.
RdCycle ==
    /\ rd.pc = "cycle"
    /\ cycle' = IF CycleOpt
                THEN [key |-> rd.key_beg, tid |-> rd.tid_beg] ELSE cycle
    /\ rd' = NextRound(rd)
    /\ UNCHANGED <<fs, toTgt, toSrc, hist, wr, crashes>>

\* Two-way: the target's acknowledgement, and the cycle file from it.
RdUpdate ==
    /\ rd.pc = "wait_update" /\ toSrc # <<>>
    /\ toSrc' = Tail(toSrc)
    /\ rd' = IF Head(toSrc).type = "UPDATE"
             THEN NextRound(rd) ELSE [rd EXCEPT !.pc = "proto"]
    /\ cycle' = CASE ~CycleOpt \/ Head(toSrc).type # "UPDATE" -> cycle
                  [] OTHER -> IF rd.interrupted
                              THEN [key |-> rd.key_beg, tid |-> rd.tid_beg]
                              ELSE [key |-> 1, tid |-> Head(toSrc).end]
    /\ UNCHANGED <<fs, toTgt, hist, wr, crashes>>

\* WAI_PSEUDOFS returns once the source's sync_end_tid is not tid_end.
RdWait ==
    /\ rd.pc = "wait_source" /\ srcEnd # rd.tid_end
    /\ rd' = [rd EXCEPT !.pc = "again"]
    /\ UNCHANGED <<fs, cycle, toTgt, toSrc, hist, wr, crashes>>

\* WAI_PSEUDOFS fails: the stream is terminated in an orderly way.
RdWaitFails ==
    /\ rd.pc = "wait_source" /\ crashes < MaxCrash
    /\ rd' = [rd EXCEPT !.pc = "term"]
    /\ crashes' = crashes + 1
    /\ UNCHANGED <<fs, cycle, toTgt, toSrc, hist, wr>>

RdTerm ==
    /\ rd.pc = "term" /\ CanSend
    /\ toTgt' = Append(toTgt, Plain("TERM"))
    /\ rd' = [rd EXCEPT !.pc = "exited"]
    /\ UNCHANGED <<fs, cycle, toSrc, hist, wr, crashes>>

\* A write to a dead target or to the wrong end of a pipe, and end of file
\* where an answer is due.
RdFails ==
    /\ \/ /\ \/ rd.pc \in {"again", "range", "term"}
             \/ rd.pc = "done" /\ ~rd.interrupted
             \/ rd.pc = "bulk" /\ InRange(rd.tid_beg, rd.tid_end, rd.key_beg) # {}
          /\ ~LinkUsable \/ Down(wr)
       \/ rd.pc \in {"wait_pfsd", "wait_update"} /\ toSrc = <<>> /\ Down(wr)
    /\ rd' = [rd EXCEPT !.pc = "failed"]
    /\ UNCHANGED <<fs, cycle, toTgt, toSrc, hist, wr, crashes>>

-----------------------------------------------------------------------------
(* hammer_cmd_mirror_write *)

\* again: the initial packet.  The slave PFS is created if it is not there,
\* with the user's consent.
WrHello ==
    /\ wr.pc = "again" /\ LinkUsable /\ toTgt # <<>>
    /\ toTgt' = Tail(toTgt)
    /\ \/ /\ wr' = [wr EXCEPT !.pc =
                CASE Head(toTgt).type = "TERM" -> "exited"
                  [] Head(toTgt).type = "PFSD" ->
                       IF TwoWayPipeOpt THEN "own_pfsd" ELSE "range"
                  [] OTHER -> "proto"]
          /\ tgtEnd' = IF Head(toTgt).type = "PFSD" /\ tgtEnd = 0
                       THEN SyncBegTid ELSE tgtEnd
       \/ /\ Head(toTgt).type = "PFSD" /\ tgtEnd = 0 /\ ~ForceYesOpt
          /\ wr' = [wr EXCEPT !.pc = "failed"]
          /\ UNCHANGED tgtEnd
    /\ UNCHANGED <<src, srcEnd, tgt, cycle, toSrc, rd, hist, crashes>>

\* Two-way: our own header, whose sync_end_tid the source begins after.
WrOwnPfsd ==
    /\ wr.pc = "own_pfsd" /\ CanReply
    /\ toSrc' = Append(toSrc, PFSD(tgtEnd))
    /\ wr' = [wr EXCEPT !.pc = "range", !.tid_end = tgtEnd]
    /\ UNCHANGED <<fs, cycle, toTgt, rd, hist, crashes>>

\* Mutant: the range of the header is not kept.
WrRangeKeepsTid ==
    /\ wr.pc = "range" /\ toTgt # <<>>
    /\ toTgt' = Tail(toTgt)
    /\ wr' = [wr EXCEPT !.pc = IF Head(toTgt).type = "PFSD" THEN "records"
                              ELSE "exited"]
    /\ UNCHANGED <<fs, cycle, toSrc, rd, hist, crashes>>

\* The header with the TID range of the stream.
WrRange ==
    /\ wr.pc = "range" /\ toTgt # <<>>
    /\ toTgt' = Tail(toTgt)
    /\ wr' = [wr EXCEPT
         !.pc = CASE Head(toTgt).type = "TERM" -> "exited"
                  [] Head(toTgt).type = "PFSD" -> "records"
                  [] OTHER -> "proto",
         !.tid_end = Head(toTgt).end]
    /\ UNCHANGED <<fs, cycle, toSrc, rd, hist, crashes>>

\* read_mrecords and MIRROR_WRITE, until a record of another type is next.
WrRecords ==
    /\ wr.pc = "records" /\ toTgt # <<>>
    /\ \/ /\ Head(toTgt).type = "REC"
          /\ tgt' = tgt \cup Head(toTgt).recs
          /\ toTgt' = Tail(toTgt)
          /\ UNCHANGED wr
       \/ /\ Head(toTgt).type # "REC"
          /\ wr' = [wr EXCEPT !.pc = IF Head(toTgt).type = "PFSD"
                                     THEN "proto" ELSE "final"]
          /\ UNCHANGED <<tgt, toTgt>>
    /\ UNCHANGED <<src, srcEnd, tgtEnd, cycle, toSrc, rd, hist, crashes>>

\* update_pfs_snapshot: SYNC moves the target's sync_end_tid to the end of
\* the range.
Published(m) == IF m.type = "SYNC" THEN wr.tid_end ELSE tgtEnd

\* The termination record.
WrFinal ==
    /\ wr.pc = "final"
    /\ toTgt' = Tail(toTgt)
    /\ tgtEnd' = Published(Head(toTgt))
    /\ wr' = [wr EXCEPT !.pc =
         CASE Head(toTgt).type = "TERM" -> "exited"
           [] Head(toTgt).type \in {"SYNC", "IDLE"} ->
                IF TwoWayPipeOpt THEN "update" ELSE "again"
           [] OTHER -> "proto"]
    /\ UNCHANGED <<src, srcEnd, tgt, cycle, toSrc, rd, hist, crashes>>

\* Two-way: report back to the originator.
WrUpdate ==
    /\ wr.pc = "update" /\ CanReply
    /\ toSrc' = Append(toSrc, UPDATE(wr.tid_end))
    /\ wr' = [wr EXCEPT !.pc = "again"]
    /\ UNCHANGED <<fs, cycle, toTgt, rd, hist, crashes>>

\* Mutant: end of file does not end the target.
WrFailsNoEof ==
    /\ \/ wr.pc = "again" /\ ~LinkUsable
       \/ wr.pc \in {"own_pfsd", "update"} /\ ~CanReply
    /\ wr' = [wr EXCEPT !.pc = "failed"]
    /\ UNCHANGED <<fs, cycle, toTgt, toSrc, rd, hist, crashes>>

\* End of file, a read from the wrong end of a pipe, a write to a dead source.
WrFails ==
    /\ \/ wr.pc = "again" /\ ~LinkUsable
       \/ wr.pc \in {"again", "range", "records"} /\ toTgt = <<>> /\ Down(rd)
       \/ wr.pc \in {"own_pfsd", "update"} /\ ~CanReply
    /\ wr' = [wr EXCEPT !.pc = "failed"]
    /\ UNCHANGED <<fs, cycle, toTgt, toSrc, rd, hist, crashes>>

-----------------------------------------------------------------------------
(* Processes that die, and the next run of the pair. *)

\* What hammer_set_cycle leaves if it is cut short: an empty file, which the
\* next run removes, or one that holds the key and no tid.
TornCycle ==
    LET key == IF TwoWayPipeOpt /\ ~rd.interrupted THEN 1 ELSE rd.key_beg
        writes == rd.pc = "cycle" \/ (rd.pc = "wait_update" /\ toSrc # <<>>)
    IN  IF CycleOpt /\ writes
        THEN {NoCycle, [key |-> key, tid |-> NoTid]} ELSE {}

RdCrash ==
    /\ ~Down(rd) /\ crashes < MaxCrash
    /\ rd' = [rd EXCEPT !.pc = "failed"]
    /\ cycle' \in {cycle} \cup TornCycle
    /\ crashes' = crashes + 1
    /\ UNCHANGED <<fs, toTgt, toSrc, hist, wr>>

WrCrash ==
    /\ ~Down(wr) /\ crashes < MaxCrash
    /\ wr' = [wr EXCEPT !.pc = "failed"]
    /\ crashes' = crashes + 1
    /\ UNCHANGED <<fs, cycle, toTgt, toSrc, rd, hist>>

\* mirror_copy waits for both children; mirror-stream then starts over, other
\* commands are run again by the user.
Restart ==
    /\ Down(rd) /\ Down(wr)
    /\ toTgt' = <<>> /\ toSrc' = <<>>
    /\ rd' = RdInit /\ hist' = HistInit /\ wr' = WrInit
    /\ UNCHANGED <<fs, cycle, crashes>>

Reader == RdHello \/ RdTargetPfsd \/ RdRange \/ RdBulk \/ RdDone \/ RdCycle
          \/ RdUpdate \/ RdWait \/ RdTerm \/ RdFails
Writer == WrHello \/ WrOwnPfsd \/ WrRange \/ WrRecords \/ WrFinal \/ WrUpdate
          \/ WrFails

Next == SourceFlush \/ Reader \/ Writer \/ RdWaitFails \/ RdCrash \/ WrCrash
        \/ Restart

Spec == Init /\ [][Next]_vars

\* A process that can run does; mirror-stream's parent starts over.
Fairness == WF_vars(Reader) /\ WF_vars(Writer)
            /\ (Streaming = 1 => WF_vars(Restart))
FairSpec == Spec /\ Fairness

-----------------------------------------------------------------------------
(* Properties *)

Messages == [type : {"PFSD", "REC", "SYNC", "IDLE", "TERM", "UPDATE"},
             end : Tids, recs : SUBSET Records]

RdPcs == {"again", "wait_pfsd", "range", "bulk", "done", "cycle", "wait_update",
          "wait_source", "term", "exited", "failed", "proto"}
WrPcs == {"again", "own_pfsd", "range", "records", "final", "update",
          "exited", "failed", "proto"}

CycleType == [key : 0..(NKeys + 1), tid : 0..(MaxTid + 1)]
RdType == [pc : RdPcs, streaming : {-1, 0, 1}, histogram : BOOLEAN,
           histindex : 0..(HIST_COUNT + 1), histmax : 0..HIST_COUNT,
           tid_beg : 0..(MaxTid + 1), tid_end : Tids, key_beg : ScanKeys,
           didwork : BOOLEAN, interrupted : BOOLEAN]
WrType == [pc : WrPcs, tid_end : Tids]

\* Types of all state.  histindex never leaves histogram_ary, which the code
\* allocates with HIST_COUNT + 2 entries and indexes without a test.
TypeOK ==
    /\ src \subseteq Records /\ srcEnd \in Tids
    /\ tgt \subseteq Records /\ tgtEnd \in Tids
    /\ cycle \in CycleType
    /\ toTgt \in Seq(Messages) /\ toSrc \in Seq(Messages)
    /\ rd \in RdType
    /\ hist \in [0..(HIST_COUNT + 1) -> Tids]
    /\ wr \in WrType
    /\ crashes \in 0..MaxCrash

\* The target's sync_end_tid is only ever moved (update_pfs_snapshot) to a TID
\* up to which the target holds every record of the source, whatever process
\* died in between and wherever the next run resumed.
SyncedMeansComplete == \A x \in src : x.tid <= tgtEnd => x \in tgt

\* The target never claims a TID whose flush cycle on the source has not
\* completed, even from an entry of histogram_ary left by an older histogram.
TargetNotAhead == tgtEnd <= srcEnd

\* Neither side ever meets a record type it does not expect: errx on an
\* unexpected type is unreachable with and without crashes and timers.
NoProtocolError == rd.pc # "proto" /\ wr.pc # "proto"

\* In histogram mode a round that scans works on a slice of the current
\* histogram, never on an entry past its last.
SliceIsCurrent == rd.pc = "bulk" /\ rd.histogram => rd.histindex <= rd.histmax

\* Every slice but the last carries at least SplitupOpt records: what
\* generate_histogram counts in a slice's buckets is what the scan of the
\* slice, which includes its end, will send.
SlicesFilled ==
    rd.histogram =>
        \A k \in 1..(rd.histmax - 1) :
            SplitupOpt <= Cardinality({x \in src :
                /\ x.tid <= hist[k]
                /\ IF k = 1 THEN x.tid >= hist[0] ELSE x.tid > hist[k - 1]})

\* Two-way: the source is at most one round ahead of the target, and an
\* UPDATE the source takes is the answer to the range it sent last.
UpdateAnswersRange ==
    TwoWayPipeOpt /\ rd.pc = "wait_update" =>
        \A i \in 1..Len(toSrc) :
            toSrc[i].type = "UPDATE" /\ toSrc[i].end = rd.tid_end /\ i = 1

\* What the two processes rely on without a check of their own: the target is
\* never ahead of the source, every record and every UPDATE is the one that
\* is expected, and a scan is of a slice that generate_histogram has filled.
ProtocolSafe ==
    /\ TargetNotAhead /\ NoProtocolError /\ UpdateAnswersRange
    /\ SliceIsCurrent /\ SlicesFilled

\* A transfer that was not interrupted and reports success has brought the
\* target to the end of its range, but for a last lone TID.
SuccessWithinOne ==
    rd.pc = "exited" /\ wr.pc = "exited" /\ ~rd.interrupted /\ BulkOpt =>
        tgtEnd >= rd.tid_end - 1

\* In two-way mode the target's synchronization point never moves back.
SyncForward == [][TwoWayPipeOpt => tgtEnd' >= tgtEnd]_vars

\* mirror-stream: once the source is quiet and processes stop dying, the
\* target catches up to the last TID but one, for good.
CatchesUp == <>[](tgtEnd >= srcEnd - 1)

\* A timer that fires ends the transfer.
TimerStops == rd.interrupted ~> Down(rd)

\* A sliced or whole mirror-read that ends with success has exhausted the
\* TID range it set out to transfer.
SuccessMeansExhausted ==
    rd.pc = "exited" /\ wr.pc = "exited" /\ ~rd.interrupted =>
        tgtEnd >= IF BulkOpt THEN rd.tid_end ELSE hist[rd.histmax]

=============================================================================
