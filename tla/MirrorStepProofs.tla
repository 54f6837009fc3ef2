-------------------------- MODULE MirrorStepProofs --------------------------
(***************************************************************************)
(* The invariance proof step by step: flush cycles of the source, every    *)
(* step of mirror-read but the one that chooses the range of a round (see  *)
(* MirrorTheorems), every step of mirror-write, and the restart of the     *)
(* pair preserve IInv in two-way mode.  Each lemma first says what the     *)
(* step does to the locals and to the link, and then takes the conjuncts   *)
(* the step can disturb.                                                   *)
(***************************************************************************)
EXTENDS MirrorInv, TLAPS

-----------------------------------------------------------------------------
(* Links as sequences, and messages. *)

\* What write(2) does to a link.
LEMMA AppendFacts ==
    ASSUME NEW S, NEW s \in Seq(S), NEW e \in S
    PROVE  /\ Append(s, e) \in Seq(S) /\ Append(s, e) # <<>>
           /\ Len(Append(s, e)) = Len(s) + 1
           /\ \A i \in 1..Len(s) : Append(s, e)[i] = s[i]
           /\ Append(s, e)[Len(s) + 1] = e
           /\ Len(s) \in Nat /\ (s = <<>> <=> Len(s) = 0)
  OBVIOUS

\* The messages on a link.
LEMMA LenFacts ==
    ASSUME NEW S, NEW s \in Seq(S)
    PROVE  /\ Len(s) \in Nat /\ (s = <<>> <=> Len(s) = 0)
           /\ \A i \in 1..Len(s) : s[i] \in S
<1>1. Len(s) \in Nat
  OBVIOUS
<1>2. s = <<>> <=> Len(s) = 0
  OBVIOUS
<1>3. \A i \in 1..Len(s) : s[i] \in S
  OBVIOUS
<1> QED BY <1>1, <1>2, <1>3

\* What read(2) does to a link that is not empty.
LEMMA TailFacts ==
    ASSUME NEW S, NEW s \in Seq(S), s # <<>>
    PROVE  /\ Tail(s) \in Seq(S) /\ Head(s) = s[1] /\ s[1] \in S
           /\ Len(s) \in Nat \ {0} /\ Len(Tail(s)) = Len(s) - 1
           /\ \A i \in 1..(Len(s) - 1) : Tail(s)[i] = s[i + 1]
           /\ (Tail(s) = <<>> <=> Len(s) = 1)
<1>1. Len(s) \in Nat \ {0} /\ Head(s) = s[1]
  OBVIOUS
<1>2. s[1] \in S
  BY <1>1
<1>3. Tail(s) \in Seq(S) /\ Len(Tail(s)) = Len(s) - 1
  BY <1>1
<1>4. \A i \in 1..(Len(s) - 1) : Tail(s)[i] = s[i + 1]
  BY <1>1
<1>5. Tail(s) = <<>> <=> Len(Tail(s)) = 0
  BY <1>3, LenFacts
<1> QED BY <1>1, <1>2, <1>3, <1>4, <1>5

\* The messages the two processes send have the type of a message.
LEMMA MessageTypes ==
    /\ \A t \in Tids : PFSD(t) \in Messages /\ UPDATE(t) \in Messages
    /\ \A R \in SUBSET Records : REC(R) \in Messages
    /\ \A ty \in {"SYNC", "IDLE", "TERM"} : Plain(ty) \in Messages
  BY BoundAssumption DEF Messages, PFSD, UPDATE, REC, Plain, Tids

-----------------------------------------------------------------------------
(* The source and mirror-read. *)

\* A flush cycle of the source preserves the invariant: its records lie beyond
\* every range under way.
LEMMA SourceFlushInv ==
    ASSUME TwoWayPipeOpt, IInv, SourceFlush PROVE IInv'
<1> USE DEF IInv, TwoWayInv
<1>1. /\ srcEnd \in Nat /\ srcEnd' = srcEnd + 1 /\ srcEnd' \in Tids
      /\ tgtEnd \in Nat
      /\ UNCHANGED <<tgt, tgtEnd, cycle, toTgt, toSrc, rd, hist, wr, crashes>>
  BY BoundAssumption DEF SourceFlush, TypeOK, Tids
<1>2. PICK K \in SUBSET Keys :
        src' = src \cup {[tid |-> srcEnd + 1, key |-> k] : k \in K}
  BY DEF SourceFlush
<1>3. /\ src \subseteq src' /\ src' \subseteq Records
      /\ \A x \in src' : x \in src \/ x.tid = srcEnd + 1
  BY <1>1, <1>2 DEF TypeOK, Records
<1>4. TypeOK'
  BY <1>1, <1>3 DEF TypeOK
<1>5. SyncedMeansComplete'
  BY <1>1, <1>3 DEF SyncedMeansComplete, FsInv
<1>6. FsInv'
  <2>1. \A x \in src' : SyncBegTid < x.tid /\ x.tid <= srcEnd'
    BY <1>1, <1>3 DEF FsInv, TypeOK, Records, Tids, SyncBegTid
  <2>2. \A j \in 1..Len(toTgt) : toTgt[j].recs \subseteq src'
    BY <1>3 DEF FsInv
  <2> QED BY <1>1, <2>1, <2>2 DEF FsInv, SyncBegTid
<1>7. HistInv'
  <2>1. \A k \in 0..(HIST_COUNT + 1) : hist[k] \in Nat
    BY BoundAssumption DEF TypeOK, Tids
  <2>2. \A k \in 0..(HIST_COUNT + 1) : hist[k] <= srcEnd + 1
    BY <1>1, <2>1 DEF HistInv
  <2>3. rd.tid_end <= srcEnd + 1
    BY <1>1 DEF HistInv, TypeOK, RdType, Tids
  <2> QED BY <1>1, <2>2, <2>3 DEF HistInv, Down
<1>8. ReplyInv'
  BY <1>1 DEF ReplyInv, Down
<1>9. ~Down(wr) => WrPhase' /\ RdPhase'
  BY <1>1 DEF WrPhase, InBody, RdPhase
<1>10. rd.tid_end <= srcEnd /\ rd.tid_end \in Nat
  BY DEF HistInv, TypeOK, RdType, Tids
<1>11. \A x \in src' : x.tid <= rd.tid_end => x \in src
  BY <1>1, <1>3, <1>10
<1>12. ~Down(wr) => RoundInv'
  BY <1>1, <1>3, <1>11 DEF RoundInv, InFlight, InRange
<1>13. ~Down(wr) => SyncInv'
  BY <1>1, <1>11 DEF SyncInv, InFlight
<1> QED BY <1>1, <1>4, <1>5, <1>6, <1>7, <1>8, <1>9, <1>12, <1>13 DEF Down

\* The header that opens a round preserves the invariant.
LEMMA RdHelloInv ==
    ASSUME TwoWayPipeOpt, IInv, RdHello PROVE IInv'
<1> USE DEF IInv, TwoWayInv
<1>1. /\ rd \in RdType /\ rd.pc = "again" /\ ~Down(wr)
      /\ rd' = [rd EXCEPT !.pc = "wait_pfsd", !.key_beg = 1, !.tid_end = 0,
                          !.tid_beg = 0]
      /\ UNCHANGED <<src, srcEnd, tgt, tgtEnd, cycle, toSrc, hist, wr, crashes>>
  BY DEF RdHello, CanSend, TypeOK, fs
<1>2. wr.pc = "again" /\ toTgt = <<>> /\ toSrc = <<>>
  BY <1>1 DEF RdPhase, ReplyInv, Down
<1>3. PFSD(srcEnd) \in Messages
  BY MessageTypes DEF TypeOK
<1>4. toTgt' \in Seq(Messages) /\ Len(toTgt') = 1 /\ toTgt'[1] = PFSD(srcEnd)
  BY <1>2, <1>3, AppendFacts DEF RdHello, TypeOK
<1>5. rd' \in RdType
  <2>1. "wait_pfsd" \in RdPcs /\ 1 \in ScanKeys /\ 0 \in Tids /\ 0 \in 0..(MaxTid + 1)
    BY BoundAssumption DEF RdPcs, Tids, ScanKeys
  <2> QED BY <1>1, <2>1, Zenon DEF RdType
<1>6. TypeOK'
  BY <1>1, <1>4, <1>5 DEF TypeOK
<1>7. FsInv' /\ SyncedMeansComplete'
  BY <1>1, <1>4 DEF FsInv, SyncedMeansComplete, PFSD
<1>8. HistInv'
  BY <1>1 DEF HistInv, Down, RdType, FsInv, SyncBegTid, TypeOK, Tids
<1>9. ReplyInv'
  BY <1>1, <1>2 DEF ReplyInv, RdType, Down
<1>10. WrPhase' /\ RdPhase' /\ RoundInv' /\ SyncInv'
  BY <1>1, <1>2, <1>4 DEF WrPhase, InBody, RdPhase, RoundInv, SyncInv, RdType, PFSD
<1> QED BY <1>1, <1>6, <1>7, <1>8, <1>9, <1>10

\* The target's header is the one the source expects.
LEMMA RdTargetPfsdInv ==
    ASSUME TwoWayPipeOpt, IInv, RdTargetPfsd PROVE IInv'
<1> USE DEF IInv, TwoWayInv
<1>1. /\ rd \in RdType /\ rd.pc = "wait_pfsd" /\ toSrc # <<>>
      /\ toSrc \in Seq(Messages) /\ toSrc' = Tail(toSrc)
      /\ UNCHANGED <<src, srcEnd, tgt, tgtEnd, cycle, toTgt, hist, wr, crashes>>
  BY DEF RdTargetPfsd, TypeOK, fs
<1>2. Len(toSrc) = 1 /\ toSrc[1].type = "PFSD"
  BY <1>1 DEF ReplyInv
<1>3. Head(toSrc) = toSrc[1] /\ toSrc[1] \in Messages /\ toSrc' = <<>>
      /\ toSrc' \in Seq(Messages)
  BY <1>1, <1>2, TailFacts
<1>4. rd' = [rd EXCEPT !.pc = "range", !.tid_beg = toSrc[1].end + 1]
  BY <1>2, <1>3 DEF RdTargetPfsd, BeginAfter
<1>5. rd' \in RdType
  <2>1. "range" \in RdPcs /\ toSrc[1].end + 1 \in 0..(MaxTid + 1)
    BY <1>3, BoundAssumption DEF RdPcs, Messages, Tids
  <2> QED BY <1>1, <1>4, <2>1, Zenon DEF RdType
<1>6. TypeOK'
  BY <1>1, <1>3, <1>5 DEF TypeOK
<1>7. FsInv' /\ SyncedMeansComplete'
  BY <1>1 DEF FsInv, SyncedMeansComplete
<1>8. HistInv'
  BY <1>1, <1>4 DEF HistInv, Down, RdType
<1>9. ReplyInv'
  BY <1>1, <1>3, <1>4 DEF ReplyInv, RdType, Down
<1>10. ~Down(wr) => WrPhase' /\ RdPhase' /\ RoundInv' /\ SyncInv'
  BY <1>1, <1>4 DEF WrPhase, InBody, RdPhase, RoundInv, SyncInv, RdType, InFlight
<1> QED BY <1>1, <1>6, <1>7, <1>8, <1>9, <1>10 DEF Down

\* While the source sends a round, everything on the link after the range
\* header is records.
LEMMA BodyFacts ==
    ASSUME TwoWayPipeOpt, IInv, ~Down(wr), rd.pc \in {"bulk", "done"}
    PROVE  /\ wr.pc \in {"range", "records"} /\ Len(toTgt) \in Nat
           /\ wr.pc = "range" => Len(toTgt) >= 1 /\ toTgt[1] = PFSD(rd.tid_end)
           /\ wr.pc = "records" => wr.tid_end = rd.tid_end
           /\ \A i \in 1..Len(toTgt) :
                wr.pc = "records" \/ i # 1 => toTgt[i].type = "REC"
<1>1. WrPhase /\ RdPhase /\ toTgt \in Seq(Messages)
  BY DEF IInv, TwoWayInv, TypeOK
<1>2. /\ wr.pc \in {"range", "records"}
      /\ wr.pc = "range" => toTgt # <<>>
      /\ \A i \in 1..Len(toTgt) : toTgt[i].type \in {"PFSD", "REC"}
  BY <1>1 DEF RdPhase
<1>3. Len(toTgt) \in Nat /\ (toTgt # <<>> => Len(toTgt) >= 1)
  BY <1>1, LenFacts
<1>4. /\ wr.pc = "range" => toTgt[1] = PFSD(rd.tid_end)
      /\ wr.pc = "range" => \A i \in 2..Len(toTgt) : InBody(i)
      /\ wr.pc = "records" => \A i \in 1..Len(toTgt) : InBody(i)
      /\ wr.pc = "records" => wr.tid_end = rd.tid_end
  BY <1>1, <1>2 DEF WrPhase
<1>5. \A i \in 1..Len(toTgt) : InBody(i) => toTgt[i].type = "REC"
  BY <1>2 DEF InBody
<1>6. \A i \in 1..Len(toTgt) : i # 1 => i \in 2..Len(toTgt)
  BY <1>3
<1>7. \A i \in 1..Len(toTgt) : wr.pc = "records" \/ i # 1 => InBody(i)
  BY <1>2, <1>4, <1>6
<1>8. \A i \in 1..Len(toTgt) :
        wr.pc = "records" \/ i # 1 => toTgt[i].type = "REC"
  BY <1>5, <1>7
<1> QED BY <1>2, <1>3, <1>4, <1>8

\* A batch leaves the range still to be scanned and enters the link.
LEMMA RdBulkInv ==
    ASSUME TwoWayPipeOpt, IInv, RdBulk PROVE IInv'
<1> USE DEF IInv, TwoWayInv
<1> DEFINE left == InRange(rd.tid_beg, rd.tid_end, rd.key_beg)
           batch(k) == {x \in left : x.key < k}
<1>1. /\ rd \in RdType /\ rd.pc = "bulk" /\ toTgt \in Seq(Messages)
      /\ UNCHANGED <<src, srcEnd, tgt, tgtEnd, cycle, toSrc, hist, wr, crashes>>
  BY DEF RdBulk, TypeOK, fs
<1>2. PICK k \in ScanKeys, late \in BOOLEAN :
        /\ \/ left = {} /\ k = NKeys + 1 /\ UNCHANGED toTgt
           \/ CanSend /\ toTgt' = Append(toTgt, REC(batch(k)))
        /\ rd' = [rd EXCEPT !.key_beg = k, !.interrupted = late,
                            !.pc = IF late \/ left = {} THEN "done" ELSE "bulk"]
  BY Zenon DEF RdBulk
<1>3. /\ rd'.pc \in {"bulk", "done"} /\ rd'.key_beg = k /\ rd'.interrupted = late
      /\ rd'.pc = "done" => late \/ left = {}
      /\ rd'.streaming = rd.streaming /\ rd'.histogram = rd.histogram
      /\ rd'.histindex = rd.histindex /\ rd'.histmax = rd.histmax
      /\ rd'.tid_beg = rd.tid_beg /\ rd'.tid_end = rd.tid_end
      /\ rd'.didwork = rd.didwork
  BY <1>1, <1>2 DEF RdType
<1>4. rd' \in RdType
  <2>1. "bulk" \in RdPcs /\ "done" \in RdPcs
    BY DEF RdPcs
  <2> QED BY <1>1, <1>2, <2>1, Zenon DEF RdType
<1>5. batch(k) \in SUBSET Records /\ batch(k) \subseteq src
  BY DEF InRange, TypeOK
<1>6. REC(batch(k)) \in Messages
  BY <1>5, MessageTypes
<1>7. /\ Len(toTgt) \in Nat
      /\ \/ left = {} /\ k = NKeys + 1 /\ toTgt' = toTgt
         \/ /\ Len(toTgt') = Len(toTgt) + 1 /\ toTgt' # <<>> /\ ~Down(wr)
            /\ \A i \in 1..Len(toTgt) : toTgt'[i] = toTgt[i]
            /\ toTgt'[Len(toTgt) + 1] = REC(batch(k))
      /\ toTgt' \in Seq(Messages)
  BY <1>1, <1>2, <1>6, AppendFacts, LenFacts DEF CanSend
<1>8. TypeOK'
  BY <1>1, <1>4, <1>7 DEF TypeOK
<1>9. SyncedMeansComplete'
  BY <1>1 DEF SyncedMeansComplete
<1>10. FsInv'
  <2>1. \A j \in 1..Len(toTgt) : toTgt[j].recs \subseteq src
    BY DEF FsInv
  <2>2. \A j \in 1..Len(toTgt') : toTgt'[j].recs \subseteq src
    BY <1>5, <1>7, <2>1 DEF REC
  <2> QED BY <1>1, <2>2 DEF FsInv
<1>11. HistInv'
  BY <1>1, <1>3 DEF HistInv, Down
<1>12. ReplyInv'
  BY <1>1, <1>3 DEF ReplyInv, Down
<1>13. ASSUME ~Down(wr) PROVE WrPhase' /\ RdPhase'
  <2>1. RdPhase'
    <3>1. /\ wr.pc \in {"range", "records"}
          /\ wr.pc = "range" => toTgt # <<>>
          /\ \A i \in 1..Len(toTgt) : toTgt[i].type \in {"PFSD", "REC"}
      BY <1>1, <1>13 DEF RdPhase
    <3>2. \A i \in 1..Len(toTgt') : toTgt'[i].type \in {"PFSD", "REC"}
      BY <1>7, <3>1 DEF REC
    <3>3. wr.pc = "range" => toTgt' # <<>>
      BY <1>7, <3>1
    <3> QED BY <1>1, <1>3, <3>1, <3>2, <3>3 DEF RdPhase
  <2>2. WrPhase'
    <3>1. /\ wr.pc \in {"range", "records"}
          /\ wr.pc = "range" => Len(toTgt) >= 1 /\ toTgt[1] = PFSD(rd.tid_end)
          /\ wr.pc = "records" => wr.tid_end = rd.tid_end
          /\ \A i \in 1..Len(toTgt) :
               wr.pc = "records" \/ i # 1 => toTgt[i].type = "REC"
      BY <1>1, <1>13, BodyFacts
    <3> HIDE DEF IInv, TwoWayInv, left, batch
    <3>2. \A i \in 1..Len(toTgt') :
            wr.pc = "records" \/ i # 1 => toTgt'[i].type = "REC"
      BY <1>7, <3>1, SMT, Z3, Zenon DEF REC
    <3>3. wr.pc = "range" => toTgt'[1] = PFSD(rd.tid_end)
      BY <1>7, <3>1
    <3>4. /\ wr.pc = "range" => \A i \in 2..Len(toTgt') : InBody(i)'
          /\ wr.pc = "records" => \A i \in 1..Len(toTgt') : InBody(i)'
      BY <1>7, <3>2 DEF InBody
    <3> QED BY <1>1, <1>3, <3>1, <3>3, <3>4 DEF WrPhase
  <2> QED BY <2>1, <2>2
<1>14. ASSUME ~Down(wr) PROVE RoundInv'
  <2>1. rd.didwork /\ tgtEnd < rd.tid_end
    BY <1>1, <1>14 DEF RoundInv
  <2>2. ASSUME NEW x \in src, x.tid <= rd.tid_end
        PROVE  x \in tgt \/ InFlight(x)' \/ (x \in left /\ x.key >= k)
    <3>1. x \in tgt \/ InFlight(x) \/ x \in left
      BY <1>1, <1>14, <2>1, <2>2 DEF RoundInv
    <3>2. InFlight(x) => InFlight(x)'
      <4> HIDE DEF IInv, TwoWayInv, left, batch
      <4> QED BY <1>7 DEF InFlight
    <3>3. x.key \in Keys /\ k \in Int
      BY <2>2 DEF TypeOK, Records, ScanKeys
    <3>4. CASE x \in left /\ x.key < k
      <4>1. x \in batch(k) /\ left # {}
        BY <3>4
      <4> HIDE DEF IInv, TwoWayInv, left, batch
      <4>2. /\ Len(toTgt) + 1 \in 1..Len(toTgt')
            /\ toTgt'[Len(toTgt) + 1] = REC(batch(k))
        BY <1>7, <4>1
      <4> QED BY <4>1, <4>2 DEF InFlight, REC
    <3> QED BY <3>1, <3>2, <3>3, <3>4 DEF Keys
  <2>3. \A x \in left : x.key >= k => x \in InRange(rd.tid_beg, rd.tid_end, k)
    BY DEF InRange
  <2>4. rd'.pc = "done" /\ ~late => k = NKeys + 1
    <3>1. left = {} => batch(k) = {} /\ InRange(rd.tid_beg, rd.tid_end, rd.key_beg) = {}
      OBVIOUS
    <3> QED BY <1>2, <1>3, <1>7, <3>1 DEF RdBulk
  <2> QED BY <1>1, <1>3, <2>1, <2>2, <2>3, <2>4 DEF RoundInv, InRange
<1>15. ASSUME ~Down(wr) PROVE SyncInv'
  <2>1. \A i \in 1..Len(toTgt) : toTgt[i].type \in {"PFSD", "REC"}
    BY <1>1, <1>15 DEF RdPhase
  <2> HIDE DEF IInv, TwoWayInv
  <2>2. \A i \in 1..Len(toTgt') : toTgt'[i].type \in {"PFSD", "REC"}
    BY <1>7, <2>1 DEF REC
  <2> QED BY <2>2 DEF SyncInv
<1> QED BY <1>1, <1>8, <1>9, <1>10, <1>11, <1>12, <1>13, <1>14, <1>15 DEF Down

\* The termination record: when SYNC enters the link nothing is left to scan.
LEMMA RdDoneInv ==
    ASSUME TwoWayPipeOpt, IInv, RdDone PROVE IInv'
<1> USE DEF IInv, TwoWayInv
<1> DEFINE last == Plain(IF rd.didwork THEN "SYNC" ELSE "IDLE")
<1>1. /\ rd \in RdType /\ rd.pc = "done" /\ toTgt \in Seq(Messages)
      /\ rd' = [rd EXCEPT !.pc = "wait_update"]
      /\ \/ ~rd.interrupted /\ ~Down(wr) /\ toTgt' = Append(toTgt, last)
         \/ rd.interrupted /\ toTgt' = toTgt
      /\ UNCHANGED <<src, srcEnd, tgt, tgtEnd, cycle, toSrc, hist, wr, crashes>>
  BY DEF RdDone, CanSend, TypeOK, fs
<1>2. /\ rd'.pc = "wait_update" /\ rd'.key_beg = rd.key_beg
      /\ rd'.interrupted = rd.interrupted
      /\ rd'.streaming = rd.streaming /\ rd'.histogram = rd.histogram
      /\ rd'.histindex = rd.histindex /\ rd'.histmax = rd.histmax
      /\ rd'.tid_beg = rd.tid_beg /\ rd'.tid_end = rd.tid_end
      /\ rd'.didwork = rd.didwork
  BY <1>1 DEF RdType
<1>3. rd' \in RdType
  <2>1. "wait_update" \in RdPcs
    BY DEF RdPcs
  <2> QED BY <1>1, <2>1 DEF RdType
<1>4. last \in Messages /\ last.recs = {}
      /\ last.type = IF rd.didwork THEN "SYNC" ELSE "IDLE"
  BY MessageTypes DEF Plain
<1> HIDE DEF last
<1>5. /\ Len(toTgt) \in Nat /\ toTgt' \in Seq(Messages)
      /\ \/ rd.interrupted /\ toTgt' = toTgt
         \/ /\ ~rd.interrupted /\ ~Down(wr)
            /\ Len(toTgt') = Len(toTgt) + 1 /\ toTgt' # <<>>
            /\ \A i \in 1..Len(toTgt) : toTgt'[i] = toTgt[i]
            /\ toTgt'[Len(toTgt) + 1] = last
  <2>1. /\ Append(toTgt, last) \in Seq(Messages) /\ Append(toTgt, last) # <<>>
        /\ Len(Append(toTgt, last)) = Len(toTgt) + 1
        /\ \A i \in 1..Len(toTgt) : Append(toTgt, last)[i] = toTgt[i]
        /\ Append(toTgt, last)[Len(toTgt) + 1] = last
        /\ Len(toTgt) \in Nat
    BY <1>1, <1>4, AppendFacts
  <2> QED BY <1>1, <2>1, Zenon
<1>6. TypeOK'
  BY <1>1, <1>3, <1>5 DEF TypeOK
<1>7. SyncedMeansComplete'
  BY <1>1 DEF SyncedMeansComplete
<1>8. FsInv'
  BY <1>1, <1>4, <1>5 DEF FsInv
<1>9. HistInv'
  BY <1>1, <1>2 DEF HistInv, Down
<1>10. ReplyInv'
  BY <1>1, <1>2 DEF ReplyInv, Down
<1>11. ASSUME ~Down(wr) PROVE WrPhase' /\ RdPhase'
  <2>1. /\ wr.pc \in {"range", "records"} /\ toSrc = <<>>
        /\ wr.pc = "range" => Len(toTgt) >= 1 /\ toTgt[1] = PFSD(rd.tid_end)
        /\ wr.pc = "records" => wr.tid_end = rd.tid_end
        /\ \A i \in 1..Len(toTgt) :
             wr.pc = "records" \/ i # 1 => toTgt[i].type = "REC"
    <3>1. toSrc = <<>>
      BY <1>1 DEF ReplyInv, Down
    <3> QED BY <1>1, <1>11, <3>1, BodyFacts
  <2>2. wr.pc = "range" => toTgt' # <<>> /\ toTgt'[1] = PFSD(rd.tid_end)
    <3>1. Len(toTgt) >= 1 => toTgt # <<>>
      OBVIOUS
    <3> QED BY <1>5, <2>1, <3>1
  <2>3. \A i \in 1..Len(toTgt') :
          wr.pc = "records" \/ i # 1 =>
             \/ toTgt'[i].type = "REC"
             \/ i = Len(toTgt') /\ toTgt'[i] = last
    BY <1>5, <2>1
  <2>4. RdPhase'
    BY <1>1, <1>2, <2>1, <2>2 DEF RdPhase
  <2>5. WrPhase'
    BY <1>1, <1>2, <1>4, <2>1, <2>2, <2>3 DEF WrPhase, InBody
  <2> QED BY <2>4, <2>5
<1>12. RoundInv'
  BY <1>2 DEF RoundInv
<1>13. ASSUME ~Down(wr) PROVE SyncInv'
  <2>1. \A i \in 1..Len(toTgt) : toTgt[i].type # "SYNC"
    BY <1>1, <1>13 DEF RdPhase
  <2>2. CASE rd.didwork /\ ~rd.interrupted
    <3>1. rd.key_beg = NKeys + 1 /\ tgtEnd < rd.tid_end
      BY <1>1, <1>13, <2>2 DEF RoundInv
    <3>2. \A x \in src : x.key < NKeys + 1
      BY BoundAssumption DEF TypeOK, Records, Keys
    <3>3. InRange(rd.tid_beg, rd.tid_end, rd.key_beg) = {}
      BY <3>1, <3>2, BoundAssumption DEF InRange, TypeOK, Records, Keys
    <3>4. \A x \in src : x.tid <= rd.tid_end => x \in tgt \/ InFlight(x)
      BY <1>1, <1>13, <2>2, <3>3 DEF RoundInv
    <3>5. \A x : InFlight(x) => InFlight(x)'
      BY <1>5 DEF InFlight
    <3> QED BY <1>1, <1>2, <3>1, <3>4, <3>5 DEF SyncInv
  <2>3. CASE ~(rd.didwork /\ ~rd.interrupted)
    <3>1. \A i \in 1..Len(toTgt') : toTgt'[i].type # "SYNC"
      BY <1>4, <1>5, <2>1, <2>3
    <3> QED BY <3>1 DEF SyncInv
  <2> QED BY <2>2, <2>3
<1> QED BY <1>1, <1>6, <1>7, <1>8, <1>9, <1>10, <1>11, <1>12, <1>13 DEF Down

\* Two-way, mirror-read never writes the cycle file of the one-way mode.
LEMMA RdCycleInv ==
    ASSUME TwoWayPipeOpt, IInv, RdCycle PROVE IInv'
  BY DEF IInv, TwoWayInv, ReplyInv, RdCycle

\* What follows a round keeps the histogram and the range.
LEMMA NextRoundFacts ==
    ASSUME NEW r \in RdType
    PROVE  /\ NextRound(r) \in RdType
           /\ NextRound(r).pc \in {"again", "wait_source", "term"}
           /\ NextRound(r).pc # "term" =>
                /\ r.streaming # 0
                /\ r.histogram => NextRound(r).pc = "again" \/ r.histindex = r.histmax
           /\ NextRound(r).pc # "term" => NextRound(r).streaming = r.streaming
           /\ NextRound(r).histogram = r.histogram
           /\ NextRound(r).histindex = r.histindex
           /\ NextRound(r).histmax = r.histmax
           /\ NextRound(r).tid_end = r.tid_end
<1>1. /\ {"again", "wait_source", "term"} \subseteq RdPcs
      /\ 0 \in {-1, 0, 1}
  BY DEF RdPcs
<1>2. \A p \in RdPcs : [r EXCEPT !.pc = p] \in RdType
  BY DEF RdType
<1>3. [r EXCEPT !.streaming = 0, !.pc = "term"] \in RdType
  BY <1>1, Zenon DEF RdType
<1>4. NextRound(r) \in RdType
  BY <1>1, <1>2, <1>3 DEF NextRound
<1> QED BY <1>4 DEF NextRound, RdType

\* The UPDATE the source takes preserves the invariant.
LEMMA RdUpdateInv ==
    ASSUME TwoWayPipeOpt, IInv, RdUpdate PROVE IInv'
<1> USE DEF IInv, TwoWayInv
<1>1. /\ rd \in RdType /\ rd.pc = "wait_update" /\ toSrc # <<>>
      /\ toSrc \in Seq(Messages) /\ toSrc' = Tail(toSrc)
      /\ UNCHANGED <<src, srcEnd, tgt, tgtEnd, toTgt, hist, wr, crashes>>
  BY DEF RdUpdate, TypeOK, fs
<1>2. Len(toSrc) = 1 /\ toSrc[1] = UPDATE(rd.tid_end)
  BY <1>1 DEF ReplyInv
<1>3. /\ Head(toSrc) = toSrc[1] /\ toSrc' = <<>> /\ toSrc' \in Seq(Messages)
      /\ Head(toSrc).type = "UPDATE" /\ Head(toSrc).end = rd.tid_end
  BY <1>1, <1>2, TailFacts DEF UPDATE
<1>4. rd' = NextRound(rd)
  BY <1>3 DEF RdUpdate
<1>5. /\ rd' \in RdType
      /\ rd'.pc \in {"again", "wait_source", "term"}
      /\ rd'.pc # "term" =>
           /\ rd.streaming # 0 /\ rd'.streaming = rd.streaming
           /\ rd.histogram => rd'.pc = "again" \/ rd.histindex = rd.histmax
      /\ rd'.histogram = rd.histogram /\ rd'.histindex = rd.histindex
      /\ rd'.histmax = rd.histmax /\ rd'.tid_end = rd.tid_end
  BY <1>1, <1>4, NextRoundFacts
<1>6. cycle' \in CycleType
  <2>1. /\ rd.key_beg \in 0..(NKeys + 1) /\ rd.tid_beg \in 0..(MaxTid + 1)
        /\ rd.tid_end \in 0..(MaxTid + 1) /\ 1 \in 0..(NKeys + 1)
    BY <1>1, BoundAssumption DEF RdType, ScanKeys, Tids
  <2>2. \/ cycle' = cycle
        \/ cycle' = [key |-> rd.key_beg, tid |-> rd.tid_beg]
        \/ cycle' = [key |-> 1, tid |-> rd.tid_end]
    BY <1>3 DEF RdUpdate
  <2>3. cycle \in CycleType
    BY DEF TypeOK
  <2> QED BY <2>1, <2>2, <2>3 DEF CycleType
<1>7. TypeOK'
  BY <1>1, <1>3, <1>5, <1>6, Zenon DEF TypeOK
<1>8. FsInv' /\ SyncedMeansComplete'
  BY <1>1 DEF FsInv, SyncedMeansComplete
<1>9. ~Down(wr) => /\ wr.pc = "again" /\ toTgt = <<>>
                   /\ rd.didwork => tgtEnd = rd.tid_end
  BY <1>1 DEF RdPhase
<1>10. HistInv'
  <2>1. /\ \A k \in 0..(HIST_COUNT + 1) : hist[k] <= srcEnd
        /\ rd.tid_end <= srcEnd
        /\ rd.histmax # 0 => \A k \in 0..(HIST_COUNT + 1) : hist[k] <= hist[rd.histmax]
        /\ rd.histogram => /\ rd.histindex \in 1..rd.histmax /\ rd.didwork
                           /\ rd.tid_end = hist[rd.histindex]
    BY <1>1 DEF HistInv
  <2>2. tgtEnd \in Nat /\ rd.histmax \in Nat
    BY <1>1, BoundAssumption DEF TypeOK, Tids, RdType
  <2>3. rd.histogram => rd.histmax # 0 /\ rd.histindex <= rd.histmax
    BY <2>1, <2>2
  <2>4. rd.histogram /\ rd.histindex = rd.histmax /\ ~Down(wr) =>
           tgtEnd >= hist[rd.histmax]
    BY <1>9, <2>1, <2>2
  <2>5. Down(wr') = Down(wr)
    BY <1>1
  <2> QED BY <1>1, <1>5, <2>1, <2>3, <2>4, <2>5 DEF HistInv
<1>11. ReplyInv'
  BY <1>1, <1>3, <1>5 DEF ReplyInv, Down
<1>12. ASSUME ~Down(wr) PROVE WrPhase' /\ RdPhase' /\ RoundInv' /\ SyncInv'
  <2>1. wr'.pc = "again" /\ toTgt' = <<>>
    BY <1>1, <1>9, <1>12
  <2>2. WrPhase' /\ RdPhase'
    BY <1>5, <2>1 DEF WrPhase, RdPhase
  <2>3. RoundInv'
    BY <1>5 DEF RoundInv
  <2> HIDE DEF IInv, TwoWayInv
  <2>4. 1..Len(toTgt') = {}
    BY <2>1
  <2>5. SyncInv'
    BY <2>4 DEF SyncInv
  <2> QED BY <2>2, <2>3, <2>5
<1> QED BY <1>1, <1>7, <1>8, <1>10, <1>11, <1>12 DEF Down

\* The wait for the source to change preserves the invariant.
LEMMA RdWaitInv ==
    ASSUME TwoWayPipeOpt, IInv, RdWait \/ RdWaitFails PROVE IInv'
<1> USE DEF IInv, TwoWayInv
<1>1. /\ rd \in RdType /\ rd.pc = "wait_source"
      /\ \E p \in {"again", "term"} : rd' = [rd EXCEPT !.pc = p]
      /\ crashes' \in 0..MaxCrash
      /\ UNCHANGED <<src, srcEnd, tgt, tgtEnd, cycle, toTgt, toSrc, hist, wr>>
  BY BoundAssumption DEF RdWait, RdWaitFails, TypeOK, fs
<1>2. PICK p \in {"again", "term"} : rd' = [rd EXCEPT !.pc = p]
  BY <1>1
<1>3. /\ rd'.pc = p
      /\ rd'.streaming = rd.streaming /\ rd'.histogram = rd.histogram
      /\ rd'.histindex = rd.histindex /\ rd'.histmax = rd.histmax
      /\ rd'.tid_end = rd.tid_end
  BY <1>1, <1>2 DEF RdType
<1>4. p \in RdPcs
  BY DEF RdPcs
<1>5. rd' \in RdType
  BY <1>1, <1>2, <1>4 DEF RdType
<1>6. TypeOK'
  BY <1>1, <1>5 DEF TypeOK
<1>7. FsInv' /\ SyncedMeansComplete' /\ HistInv' /\ ReplyInv'
  BY <1>1, <1>3 DEF FsInv, SyncedMeansComplete, HistInv, ReplyInv, Down
<1>8. ~Down(wr) => wr.pc = "again" /\ toTgt = <<>>
  BY <1>1 DEF RdPhase
<1>9. ~Down(wr) => WrPhase' /\ RdPhase' /\ RoundInv' /\ SyncInv'
  BY <1>1, <1>3, <1>8 DEF WrPhase, InBody, RdPhase, RoundInv, SyncInv
<1> QED BY <1>1, <1>6, <1>7, <1>9 DEF Down

\* The TERM record preserves the invariant.
LEMMA RdTermInv ==
    ASSUME TwoWayPipeOpt, IInv, RdTerm PROVE IInv'
<1> USE DEF IInv, TwoWayInv
<1>1. /\ rd \in RdType /\ rd.pc = "term" /\ ~Down(wr) /\ toTgt \in Seq(Messages)
      /\ rd' = [rd EXCEPT !.pc = "exited"]
      /\ toTgt' = Append(toTgt, Plain("TERM"))
      /\ UNCHANGED <<src, srcEnd, tgt, tgtEnd, cycle, toSrc, hist, wr, crashes>>
  BY DEF RdTerm, CanSend, TypeOK, fs
<1>2. wr.pc = "again" /\ toTgt = <<>>
  BY <1>1 DEF RdPhase
<1>3. Plain("TERM") \in Messages
  BY MessageTypes
<1>4. toTgt' \in Seq(Messages) /\ Len(toTgt') = 1 /\ toTgt'[1] = Plain("TERM")
  BY <1>1, <1>2, <1>3, AppendFacts
<1>5. rd'.pc = "exited" /\ rd'.tid_end = rd.tid_end /\ rd'.histmax = rd.histmax
  BY <1>1 DEF RdType
<1>6. "exited" \in RdPcs
  BY DEF RdPcs
<1>7. rd' \in RdType
  BY <1>1, <1>6, Zenon DEF RdType
<1>8. TypeOK'
  BY <1>1, <1>4, <1>7 DEF TypeOK
<1>9. FsInv' /\ SyncedMeansComplete' /\ HistInv' /\ ReplyInv'
  BY <1>1, <1>4, <1>5 DEF FsInv, SyncedMeansComplete, HistInv, ReplyInv, Down, Plain
<1>10. WrPhase' /\ RdPhase' /\ RoundInv' /\ SyncInv'
  BY <1>1, <1>2, <1>4, <1>5 DEF WrPhase, InBody, RdPhase, RoundInv, SyncInv, Plain
<1> QED BY <1>8, <1>9, <1>10

\* A source that dies leaves the invariant true whatever it was doing.
LEMMA RdPcInv ==
    ASSUME TwoWayPipeOpt, IInv, NEW p \in {"failed", "exited"},
           rd' = [rd EXCEPT !.pc = p],
           UNCHANGED <<src, srcEnd, tgt, tgtEnd, toTgt, toSrc, hist, wr>>,
           cycle' \in CycleType, crashes' \in 0..MaxCrash,
           p = "exited" => Down(wr)
    PROVE  IInv'
<1> USE DEF IInv, TwoWayInv
<1>1. /\ rd \in RdType /\ rd'.pc = p
      /\ rd'.tid_end = rd.tid_end /\ rd'.histmax = rd.histmax
      /\ rd'.didwork = rd.didwork
  BY DEF TypeOK, RdType
<1>2. p \in RdPcs
  BY DEF RdPcs
<1>3. rd' \in RdType
  BY <1>1, <1>2 DEF RdType
<1>4. TypeOK'
  BY <1>3 DEF TypeOK
<1>5. FsInv' /\ SyncedMeansComplete' /\ HistInv' /\ ReplyInv'
  BY <1>1 DEF FsInv, SyncedMeansComplete, HistInv, ReplyInv, Down
<1>6. ~Down(wr) => WrPhase' /\ RdPhase' /\ RoundInv' /\ SyncInv'
  BY <1>1 DEF WrPhase, InBody, RdPhase, RoundInv, SyncInv, InFlight
<1> QED BY <1>4, <1>5, <1>6 DEF Down

\* A failed read or write of the source preserves the invariant.
LEMMA RdFailsInv ==
    ASSUME TwoWayPipeOpt, IInv, RdFails PROVE IInv'
<1>1. /\ cycle \in CycleType /\ crashes \in 0..MaxCrash
      /\ rd' = [rd EXCEPT !.pc = "failed"] /\ UNCHANGED <<cycle, crashes>>
      /\ UNCHANGED <<src, srcEnd, tgt, tgtEnd, toTgt, toSrc, hist, wr>>
  BY DEF RdFails, IInv, TypeOK, fs
<1> QED BY <1>1, RdPcInv

\* A killed source preserves the invariant, torn cycle file included.
LEMMA RdCrashInv ==
    ASSUME TwoWayPipeOpt, IInv, RdCrash PROVE IInv'
<1>1. /\ rd \in RdType /\ cycle \in CycleType /\ crashes \in 0..MaxCrash
      /\ rd' = [rd EXCEPT !.pc = "failed"]
      /\ cycle' \in {cycle} \cup TornCycle
      /\ crashes' = crashes + 1 /\ crashes < MaxCrash
      /\ UNCHANGED <<src, srcEnd, tgt, tgtEnd, toTgt, toSrc, hist, wr>>
  BY DEF RdCrash, IInv, TypeOK, fs
<1>2. crashes' \in 0..MaxCrash
  BY <1>1, BoundAssumption
<1>3. /\ rd.key_beg \in 0..(NKeys + 1) /\ {0, 1} \subseteq 0..(NKeys + 1)
      /\ 0 \in 0..(MaxTid + 1)
  BY <1>1, BoundAssumption DEF RdType, ScanKeys
<1>4. cycle' \in CycleType
  BY <1>1, <1>3 DEF TornCycle, CycleType, NoCycle, NoTid
<1> QED BY <1>1, <1>2, <1>4, RdPcInv

-----------------------------------------------------------------------------
(* mirror-write, the initial state and the restart of the pair. *)

\* Taking the first header, and creating the PFS, preserves the invariant.
LEMMA WrHelloInv ==
    ASSUME TwoWayPipeOpt, IInv, WrHello PROVE IInv'
<1> USE DEF IInv, TwoWayInv
<1>1. /\ wr \in WrType /\ wr.pc = "again" /\ toTgt \in Seq(Messages) /\ toTgt # <<>>
      /\ toTgt' = Tail(toTgt)
      /\ UNCHANGED <<src, srcEnd, tgt, cycle, toSrc, rd, hist, crashes>>
  BY DEF WrHello, TypeOK
<1>2. ~Down(wr)
  BY <1>1 DEF Down
<1>3. Len(toTgt) = 1 /\ toTgt[1].type \in {"PFSD", "TERM"}
  BY <1>1, <1>2 DEF WrPhase, InBody
<1>4. Head(toTgt) = toTgt[1] /\ toTgt' = <<>> /\ toTgt' \in Seq(Messages)
  BY <1>1, <1>3, TailFacts
<1>5. /\ rd.pc = "wait_pfsd" \/ Down(rd)
      /\ rd.pc = "wait_pfsd" => toTgt[1].type = "PFSD" /\ toSrc = <<>>
  BY <1>1, <1>2, <1>3 DEF RdPhase, ReplyInv, Down, TypeOK, RdType, RdPcs
<1>6. /\ \E p \in {"exited", "own_pfsd", "failed"} : wr' = [wr EXCEPT !.pc = p]
      /\ toTgt[1].type = "PFSD" => wr'.pc # "exited"
      /\ tgtEnd' = tgtEnd \/ (tgtEnd = 0 /\ tgtEnd' = SyncBegTid)
  BY <1>1, <1>3, <1>4 DEF WrHello, WrType
<1>7. PICK p \in {"exited", "own_pfsd", "failed"} : wr' = [wr EXCEPT !.pc = p]
  BY <1>6
<1>8. wr'.pc = p /\ p \in WrPcs
  BY <1>1, <1>7 DEF WrType, WrPcs
<1>9. wr' \in WrType
  BY <1>1, <1>7, <1>8 DEF WrType
<1>10. tgtEnd \in Nat /\ tgtEnd' \in Tids /\ tgtEnd' \in Nat /\ tgtEnd' >= tgtEnd
  BY <1>6, BoundAssumption DEF TypeOK, Tids, SyncBegTid
<1>11. TypeOK'
  BY <1>1, <1>4, <1>9, <1>10 DEF TypeOK
<1>12. SyncedMeansComplete'
  <2>1. \A x \in src : x.tid \in Nat /\ SyncBegTid < x.tid
    BY BoundAssumption DEF FsInv, TypeOK, Records, Tids
  <2> QED BY <1>1, <1>6, <2>1 DEF SyncedMeansComplete, SyncBegTid
<1>13. FsInv' /\ ReplyInv'
  BY <1>1, <1>4, <1>6, <1>8 DEF FsInv, ReplyInv, Down
<1>14. HistInv'
  <2>1. \A k \in 0..(HIST_COUNT + 1) : hist[k] \in Nat
    BY BoundAssumption DEF TypeOK, Tids
  <2>2. rd.histmax \in 0..(HIST_COUNT + 1)
    BY BoundAssumption DEF TypeOK, RdType
  <2> QED BY <1>1, <1>2, <1>10, <2>1, <2>2 DEF HistInv
<1>15. ASSUME p = "own_pfsd" PROVE WrPhase' /\ RdPhase' /\ RoundInv' /\ SyncInv'
  <2>1. wr'.pc = "own_pfsd" /\ Len(toTgt') = 0 /\ rd' = rd /\ toSrc' = toSrc
    BY <1>1, <1>4, <1>8, <1>15, Zenon
  <2>2. rd.pc \in {"wait_pfsd", "exited", "failed", "proto"}
    BY <1>5 DEF Down
  <2>3. WrPhase'
    BY <1>4, <2>1 DEF WrPhase
  <2>4. RdPhase'
    BY <1>5, <2>1, <2>2 DEF RdPhase
  <2>5. RoundInv'
    BY <1>2, <2>1, <2>2 DEF RoundInv
  <2>6. SyncInv'
    BY <2>1 DEF SyncInv
  <2> QED BY <2>3, <2>4, <2>5, <2>6
<1> QED BY <1>8, <1>11, <1>12, <1>13, <1>14, <1>15 DEF Down

\* The target's own header preserves the invariant.
LEMMA WrOwnPfsdInv ==
    ASSUME TwoWayPipeOpt, IInv, WrOwnPfsd PROVE IInv'
<1> USE DEF IInv, TwoWayInv
<1>1. /\ wr \in WrType /\ wr.pc = "own_pfsd" /\ ~Down(rd) /\ toSrc \in Seq(Messages)
      /\ toSrc' = Append(toSrc, PFSD(tgtEnd))
      /\ wr' = [wr EXCEPT !.pc = "range", !.tid_end = tgtEnd]
      /\ UNCHANGED <<src, srcEnd, tgt, tgtEnd, cycle, toTgt, rd, hist, crashes>>
  BY DEF WrOwnPfsd, CanReply, TypeOK, fs
<1>2. ~Down(wr)
  BY <1>1 DEF Down
<1>3. toTgt = <<>> /\ rd.pc = "wait_pfsd" /\ toSrc = <<>>
  BY <1>1, <1>2 DEF WrPhase, InBody, RdPhase, ReplyInv, Down, TypeOK, RdType, RdPcs
<1>4. PFSD(tgtEnd) \in Messages
  BY MessageTypes DEF TypeOK
<1>5. /\ toSrc' \in Seq(Messages) /\ Len(toSrc') = 1 /\ toSrc'[1] = PFSD(tgtEnd)
      /\ toSrc' # <<>>
  BY <1>1, <1>3, <1>4, AppendFacts
<1>6. wr'.pc = "range"
  BY <1>1 DEF WrType
<1>7. wr' \in WrType
  <2>1. "range" \in WrPcs /\ tgtEnd \in Tids
    BY DEF WrPcs, TypeOK
  <2> QED BY <1>1, <2>1, Zenon DEF WrType
<1>8. TypeOK'
  BY <1>1, <1>5, <1>7 DEF TypeOK
<1>9. FsInv' /\ SyncedMeansComplete' /\ HistInv' /\ ReplyInv'
  BY <1>1, <1>2, <1>3, <1>5, <1>6
     DEF FsInv, SyncedMeansComplete, HistInv, ReplyInv, Down, PFSD
<1>10. WrPhase' /\ RdPhase' /\ RoundInv' /\ SyncInv'
  BY <1>1, <1>2, <1>3, <1>5, <1>6 DEF WrPhase, InBody, RdPhase, RoundInv, SyncInv, PFSD
<1> QED BY <1>8, <1>9, <1>10

\* The range the target takes is the source's current one.
LEMMA WrRangeInv ==
    ASSUME TwoWayPipeOpt, IInv, WrRange PROVE IInv'
<1> USE DEF IInv, TwoWayInv
<1>1. /\ wr \in WrType /\ wr.pc = "range" /\ toTgt \in Seq(Messages) /\ toTgt # <<>>
      /\ toTgt' = Tail(toTgt)
      /\ UNCHANGED <<src, srcEnd, tgt, tgtEnd, cycle, toSrc, rd, hist, crashes>>
  BY DEF WrRange, TypeOK, fs
<1>2. ~Down(wr)
  BY <1>1 DEF Down
<1>3. /\ toTgt' \in Seq(Messages) /\ Head(toTgt) = toTgt[1]
      /\ Len(toTgt) \in Nat \ {0} /\ Len(toTgt') = Len(toTgt) - 1
      /\ \A i \in 1..(Len(toTgt) - 1) : toTgt'[i] = toTgt[i + 1]
  BY <1>1, TailFacts
<1>4. toTgt[1] = PFSD(rd.tid_end)
  BY <1>1, <1>2 DEF WrPhase
<1>5. wr' = [wr EXCEPT !.pc = "records", !.tid_end = rd.tid_end]
  <2>1. Head(toTgt).type = "PFSD" /\ Head(toTgt).end = rd.tid_end
    BY <1>3, <1>4 DEF PFSD
  <2> QED BY <2>1, Zenon DEF WrRange
<1>6. wr'.pc = "records" /\ wr'.tid_end = rd.tid_end
  BY <1>1, <1>5 DEF WrType
<1>7. wr' \in WrType
  <2>1. "records" \in WrPcs /\ rd.tid_end \in Tids
    BY DEF WrPcs, TypeOK, RdType
  <2> QED BY <1>1, <1>5, <2>1, Zenon DEF WrType
<1>8. TypeOK'
  BY <1>1, <1>3, <1>7 DEF TypeOK
<1>9. SyncedMeansComplete' /\ HistInv' /\ ReplyInv'
  BY <1>1, <1>2, <1>6 DEF SyncedMeansComplete, HistInv, ReplyInv, Down
<1>10. FsInv'
  BY <1>1, <1>3 DEF FsInv
<1>11. rd.pc \in {"bulk", "done", "wait_update"} \/ Down(rd)
  BY <1>1, <1>2 DEF RdPhase, ReplyInv, Down, TypeOK, RdType, RdPcs
<1>12. \A i \in 1..Len(toTgt') : toTgt'[i] = toTgt[i + 1] /\ i + 1 \in 1..Len(toTgt)
  BY <1>3
<1>13. WrPhase'
  <2>1. \A i \in 1..Len(toTgt') : i + 1 \in 2..Len(toTgt)
    BY <1>3
  <2>2. \A i \in 1..Len(toTgt') : InBody(i + 1)
    BY <1>1, <1>2, <2>1, Zenon DEF WrPhase
  <2>3. \A i \in 1..Len(toTgt') : InBody(i)'
    <3> SUFFICES ASSUME NEW i \in 1..Len(toTgt') PROVE InBody(i)'
      OBVIOUS
    <3>1. InBody(i + 1) /\ toTgt'[i] = toTgt[i + 1] /\ rd' = rd
      BY <1>1, <1>12, <2>2
    <3>2. i + 1 = Len(toTgt) => i = Len(toTgt')
      BY <1>3
    <3> QED BY <3>1, <3>2 DEF InBody
  <2> QED BY <1>6, <1>1, <2>3 DEF WrPhase
<1>14. RdPhase'
  BY <1>1, <1>2, <1>6, <1>11, <1>12 DEF RdPhase, Down
<1>15. \A x : InFlight(x) => InFlight(x)'
  <2> SUFFICES ASSUME NEW x, NEW j \in 1..Len(toTgt), x \in toTgt[j].recs
               PROVE  \E i \in 1..Len(toTgt') : x \in toTgt'[i].recs
    BY DEF InFlight
  <2>1. j # 1
    BY <1>4 DEF PFSD
  <2>2. j - 1 \in 1..Len(toTgt') /\ toTgt'[j - 1] = toTgt[j]
    BY <1>3, <2>1
  <2> QED BY <2>2
<1>16. RoundInv'
  BY <1>1, <1>2, <1>11, <1>15 DEF RoundInv, InRange
<1>17. SyncInv'
  BY <1>1, <1>2, <1>12, <1>15, Zenon DEF SyncInv
<1> QED BY <1>8, <1>9, <1>10, <1>13, <1>14, <1>16, <1>17

\* Writing a batch preserves the invariant: what leaves the link is on the target.
LEMMA WrRecordsInv ==
    ASSUME TwoWayPipeOpt, IInv, WrRecords PROVE IInv'
<1> USE DEF IInv, TwoWayInv
<1>1. /\ wr \in WrType /\ wr.pc = "records" /\ toTgt \in Seq(Messages)
      /\ toTgt # <<>>
      /\ UNCHANGED <<src, srcEnd, tgtEnd, cycle, toSrc, rd, hist, crashes>>
  BY DEF WrRecords, TypeOK
<1>2. ~Down(wr)
  BY <1>1 DEF Down
<1>3. /\ Tail(toTgt) \in Seq(Messages) /\ Head(toTgt) = toTgt[1]
      /\ toTgt[1] \in Messages
      /\ Len(toTgt) \in Nat \ {0} /\ Len(Tail(toTgt)) = Len(toTgt) - 1
      /\ \A i \in 1..(Len(toTgt) - 1) : Tail(toTgt)[i] = toTgt[i + 1]
  BY <1>1, TailFacts
<1>4. rd.pc \in {"bulk", "done", "wait_update"} \/ Down(rd)
  BY <1>1, <1>2 DEF RdPhase, ReplyInv, Down, TypeOK, RdType, RdPcs
<1>5. HistInv' /\ ReplyInv'
  <2>1. wr'.pc \in {"records", "final"}
    BY <1>1, <1>2, <1>3 DEF WrRecords, WrPhase, InBody, WrType
  <2> QED BY <1>1, <1>2, <2>1 DEF HistInv, ReplyInv, Down
<1>6. CASE /\ toTgt[1].type = "REC" /\ tgt' = tgt \cup toTgt[1].recs
           /\ toTgt' = Tail(toTgt) /\ wr' = wr
  <2>1. toTgt[1].recs \subseteq Records
    BY <1>3 DEF Messages
  <2>2. TypeOK'
    BY <1>1, <1>3, <1>6, <2>1 DEF TypeOK
  <2>3. SyncedMeansComplete'
    BY <1>1, <1>6 DEF SyncedMeansComplete
  <2>4. FsInv'
    BY <1>1, <1>3, <1>6 DEF FsInv
  <2>5. \A i \in 1..Len(toTgt') : toTgt'[i] = toTgt[i + 1] /\ i + 1 \in 1..Len(toTgt)
    BY <1>3, <1>6
  <2>6. WrPhase'
    <3>1. \A i \in 1..Len(toTgt') : InBody(i + 1)
      BY <1>1, <1>2, <2>5 DEF WrPhase
    <3>2. \A i \in 1..Len(toTgt') : InBody(i)'
      <4> SUFFICES ASSUME NEW i \in 1..Len(toTgt') PROVE InBody(i)'
        OBVIOUS
      <4>1. InBody(i + 1) /\ toTgt'[i] = toTgt[i + 1] /\ rd' = rd
        BY <1>1, <2>5, <3>1
      <4>2. i + 1 = Len(toTgt) => i = Len(toTgt')
        <5>1. Len(toTgt') = Len(toTgt) - 1 /\ Len(toTgt) \in Nat /\ i \in Nat
          BY <1>3, <1>6
        <5> QED BY <5>1
      <4> QED BY <4>1, <4>2 DEF InBody
    <3> QED BY <1>1, <1>2, <1>6, <3>2 DEF WrPhase
  <2>7. RdPhase'
    BY <1>1, <1>2, <1>4, <1>6, <2>5 DEF RdPhase, Down
  <2>8. \A x : InFlight(x) => x \in tgt' \/ InFlight(x)'
    <3> SUFFICES ASSUME NEW x, NEW j \in 1..Len(toTgt), x \in toTgt[j].recs
                 PROVE  x \in tgt' \/ \E i \in 1..Len(toTgt') : x \in toTgt'[i].recs
      BY DEF InFlight
    <3>1. CASE j = 1
      BY <1>6, <3>1
    <3>2. CASE j # 1
      <4>1. j - 1 \in 1..Len(toTgt') /\ toTgt'[j - 1] = toTgt[j]
        BY <1>3, <1>6, <3>2
      <4> QED BY <4>1
    <3> QED BY <3>1, <3>2
  <2>9. tgt \subseteq tgt'
    BY <1>6
  <2>10. RoundInv'
    BY <1>1, <1>2, <1>4, <2>8, <2>9 DEF RoundInv, InRange
  <2>11. SyncInv'
    BY <1>1, <1>2, <2>5, <2>8, <2>9, Zenon DEF SyncInv
  <2> QED BY <1>5, <2>2, <2>3, <2>4, <2>6, <2>7, <2>10, <2>11
<1>7. CASE /\ toTgt[1].type # "REC" /\ tgt' = tgt /\ toTgt' = toTgt
           /\ wr' = [wr EXCEPT !.pc = IF toTgt[1].type = "PFSD"
                                      THEN "proto" ELSE "final"]
  <2>1. Len(toTgt) = 1 /\ toTgt[1].type \in {"SYNC", "IDLE"}
    BY <1>1, <1>2, <1>3, <1>7 DEF WrPhase, InBody
  <2>2. wr' = [wr EXCEPT !.pc = "final"]
    BY <1>7, <2>1
  <2>3. wr'.pc = "final" /\ wr'.tid_end = wr.tid_end /\ "final" \in WrPcs
    BY <1>1, <2>2 DEF WrType, WrPcs
  <2>4. wr' \in WrType
    BY <1>1, <2>2, <2>3 DEF WrType
  <2>5. TypeOK'
    BY <1>1, <1>7, <2>4 DEF TypeOK
  <2>6. SyncedMeansComplete' /\ FsInv'
    BY <1>1, <1>7 DEF SyncedMeansComplete, FsInv
  <2>7. WrPhase'
    BY <1>1, <1>2, <1>3, <1>7, <2>1, <2>3 DEF WrPhase, InBody
  <2>8. rd.pc = "wait_update" \/ Down(rd)
    BY <1>1, <1>2, <1>3, <1>4, <2>1 DEF RdPhase
  <2>9. RdPhase' /\ RoundInv' /\ SyncInv'
    BY <1>1, <1>2, <1>7, <2>3, <2>8 DEF RdPhase, RoundInv, SyncInv, InFlight, Down
  <2> QED BY <1>5, <2>5, <2>6, <2>7, <2>9
<1> QED BY <1>1, <1>3, <1>6, <1>7 DEF WrRecords

\* SYNC publishes only what is complete, and IDLE publishes nothing.
LEMMA WrFinalInv ==
    ASSUME TwoWayPipeOpt, IInv, WrFinal PROVE IInv'
<1> USE DEF IInv, TwoWayInv
<1>1. /\ wr \in WrType /\ wr.pc = "final" /\ toTgt \in Seq(Messages)
      /\ toTgt' = Tail(toTgt)
      /\ UNCHANGED <<src, srcEnd, tgt, cycle, toSrc, rd, hist, crashes>>
  BY DEF WrFinal, TypeOK
<1>2. ~Down(wr)
  BY <1>1 DEF Down
<1>3. /\ Len(toTgt) = 1 /\ toTgt[1].recs = {} /\ wr.tid_end = rd.tid_end
      /\ toTgt[1].type = IF rd.didwork THEN "SYNC" ELSE "IDLE"
  BY <1>1, <1>2 DEF WrPhase, InBody
<1>4. Head(toTgt) = toTgt[1] /\ toTgt' = <<>> /\ toTgt' \in Seq(Messages)
  <2>1. toTgt # <<>>
    BY <1>3
  <2> QED BY <1>1, <1>3, <2>1, TailFacts
<1>5. /\ wr' = [wr EXCEPT !.pc = "update"]
      /\ tgtEnd' = IF rd.didwork THEN rd.tid_end ELSE tgtEnd
  BY <1>3, <1>4 DEF WrFinal, Published
<1>6. wr'.pc = "update" /\ wr'.tid_end = wr.tid_end /\ "update" \in WrPcs
  BY <1>1, <1>5 DEF WrType, WrPcs
<1>7. wr' \in WrType
  BY <1>1, <1>5, <1>6 DEF WrType
<1>8. tgtEnd \in Tids /\ rd.tid_end \in Tids /\ rd.tid_end <= srcEnd
  BY DEF TypeOK, RdType, HistInv
<1>9. TypeOK'
  BY <1>1, <1>4, <1>5, <1>7, <1>8 DEF TypeOK
<1>10. rd.pc = "wait_update" \/ Down(rd)
  BY <1>1, <1>2 DEF RdPhase, ReplyInv, Down, TypeOK, RdType, RdPcs
<1>11. rd.didwork => \A x \in src : x.tid <= rd.tid_end => x \in tgt
  BY <1>2, <1>3 DEF SyncInv, InFlight
<1>12. SyncedMeansComplete'
  BY <1>1, <1>5, <1>11 DEF SyncedMeansComplete
<1>13. FsInv' /\ ReplyInv'
  BY <1>1, <1>4, <1>5, <1>6, <1>8 DEF FsInv, ReplyInv, Down
<1>14. HistInv'
  BY <1>1, <1>10 DEF HistInv, Down
<1>15. WrPhase' /\ RdPhase' /\ RoundInv' /\ SyncInv'
  BY <1>1, <1>2, <1>3, <1>4, <1>5, <1>6, <1>10
     DEF WrPhase, InBody, RdPhase, RoundInv, SyncInv, Down
<1> QED BY <1>9, <1>12, <1>13, <1>14, <1>15

\* The UPDATE record preserves the invariant.
LEMMA WrUpdateInv ==
    ASSUME TwoWayPipeOpt, IInv, WrUpdate PROVE IInv'
<1> USE DEF IInv, TwoWayInv
<1>1. /\ wr \in WrType /\ wr.pc = "update" /\ ~Down(rd) /\ toSrc \in Seq(Messages)
      /\ toSrc' = Append(toSrc, UPDATE(wr.tid_end))
      /\ wr' = [wr EXCEPT !.pc = "again"]
      /\ UNCHANGED <<src, srcEnd, tgt, tgtEnd, cycle, toTgt, rd, hist, crashes>>
  BY DEF WrUpdate, CanReply, TypeOK, fs
<1>2. ~Down(wr)
  BY <1>1 DEF Down
<1>3. /\ toTgt = <<>> /\ rd.pc = "wait_update" /\ toSrc = <<>>
      /\ wr.tid_end = rd.tid_end
      /\ rd.didwork => tgtEnd = rd.tid_end
  BY <1>1, <1>2 DEF WrPhase, InBody, RdPhase, ReplyInv, Down, TypeOK, RdType, RdPcs
<1>4. UPDATE(wr.tid_end) \in Messages
  BY <1>1, MessageTypes DEF WrType
<1>5. /\ toSrc' \in Seq(Messages) /\ Len(toSrc') = 1
      /\ toSrc'[1] = UPDATE(rd.tid_end) /\ toSrc' # <<>>
  BY <1>1, <1>3, <1>4, AppendFacts
<1>6. wr'.pc = "again"
  BY <1>1 DEF WrType
<1>7. wr' \in WrType
  <2>1. "again" \in WrPcs
    BY DEF WrPcs
  <2> QED BY <1>1, <2>1 DEF WrType
<1>8. TypeOK'
  BY <1>1, <1>5, <1>7 DEF TypeOK
<1>9. FsInv' /\ SyncedMeansComplete' /\ HistInv' /\ ReplyInv'
  BY <1>1, <1>2, <1>3, <1>5, <1>6
     DEF FsInv, SyncedMeansComplete, HistInv, ReplyInv, Down
<1>10. WrPhase' /\ RdPhase' /\ RoundInv' /\ SyncInv'
  BY <1>1, <1>2, <1>3, <1>5, <1>6 DEF WrPhase, InBody, RdPhase, RoundInv, SyncInv
<1> QED BY <1>8, <1>9, <1>10

\* A target that dies leaves the invariant true whatever it was doing.
LEMMA WrPcInv ==
    ASSUME TwoWayPipeOpt, IInv, wr' = [wr EXCEPT !.pc = "failed"],
           UNCHANGED <<src, srcEnd, tgt, tgtEnd, cycle, toTgt, toSrc, rd, hist>>,
           crashes' \in 0..MaxCrash
    PROVE  IInv'
<1> USE DEF IInv, TwoWayInv
<1>1. wr \in WrType /\ wr'.pc = "failed" /\ "failed" \in WrPcs
  BY DEF TypeOK, WrType, WrPcs
<1>2. wr' \in WrType
  BY <1>1 DEF WrType
<1>3. TypeOK'
  BY <1>2 DEF TypeOK
<1>4. Down(wr')
  BY <1>1 DEF Down
<1>5. FsInv' /\ SyncedMeansComplete' /\ ReplyInv'
  BY <1>1 DEF FsInv, SyncedMeansComplete, ReplyInv, Down
<1>6. HistInv'
  BY <1>4 DEF HistInv
<1> QED BY <1>3, <1>4, <1>5, <1>6

\* A failed read or write of the target, or its death, preserves the invariant.
LEMMA WrFailsInv ==
    ASSUME TwoWayPipeOpt, IInv, WrFails \/ WrCrash PROVE IInv'
<1>1. /\ crashes' \in 0..MaxCrash /\ wr' = [wr EXCEPT !.pc = "failed"]
      /\ UNCHANGED <<src, srcEnd, tgt, tgtEnd, cycle, toTgt, toSrc, rd, hist>>
  BY BoundAssumption DEF WrFails, WrCrash, IInv, TypeOK, fs
<1> QED BY <1>1, WrPcInv

\* The locals and links a run of the pair starts with have their types.
LEMMA FreshTypes ==
    RdInit \in RdType /\ WrInit \in WrType /\ <<>> \in Seq(Messages)
    /\ HistInit \in [0..(HIST_COUNT + 1) -> Tids]
<1>1. /\ "again" \in RdPcs /\ Streaming \in {-1, 0, 1}
      /\ 0 \in 0..(HIST_COUNT + 1) /\ 0 \in 0..HIST_COUNT
      /\ 0 \in 0..(MaxTid + 1) /\ 0 \in Tids /\ 1 \in ScanKeys /\ FALSE \in BOOLEAN
  BY OptAssumption, BoundAssumption DEF RdPcs, Tids, ScanKeys
<1>2. "again" \in WrPcs
  BY DEF WrPcs
<1> QED BY <1>1, <1>2 DEF RdInit, RdType, WrInit, WrType, HistInit

\* What holds in every state a pair of processes starts in.
LEMMA FreshInv ==
    ASSUME toTgt = <<>>, toSrc = <<>>, rd = RdInit, hist = HistInit, wr = WrInit,
           TwoWayPipeOpt, srcEnd \in Nat,
           SyncedMeansComplete, SyncBegTid <= srcEnd, tgtEnd <= srcEnd,
           \A x \in src : SyncBegTid < x.tid /\ x.tid <= srcEnd
    PROVE  TwoWayInv
<1>1. /\ rd.pc = "again" /\ rd.tid_end = 0 /\ rd.histmax = 0 /\ ~rd.histogram
      /\ wr.pc = "again"
  BY DEF RdInit, WrInit
<1>2. FsInv /\ HistInv /\ ReplyInv
  BY <1>1 DEF FsInv, HistInv, HistInit, ReplyInv, Down
<1>3. WrPhase /\ RdPhase /\ RoundInv /\ SyncInv
  <2>1. toTgt = <<>> /\ Len(toTgt) = 0
    OBVIOUS
  <2>2. WrPhase
    BY <1>1, <2>1 DEF WrPhase
  <2>3. RdPhase
    BY <1>1, <2>1 DEF RdPhase
  <2>4. RoundInv
    BY <1>1 DEF RoundInv
  <2>5. SyncInv
    BY <2>1 DEF SyncInv
  <2> QED BY <2>2, <2>3, <2>4, <2>5
<1> QED BY <1>2, <1>3 DEF TwoWayInv

\* The invariant holds initially.
LEMMA InitInv ==
    ASSUME TwoWayPipeOpt, Init PROVE IInv
<1>1. 0 \in Tids /\ 1 \in Tids /\ 0 \in 0..MaxCrash /\ NoCycle \in CycleType
  BY BoundAssumption DEF Tids, NoCycle, CycleType
<1>2. TypeOK
  BY <1>1, FreshTypes DEF Init, TypeOK, SyncBegTid
<1>3. TwoWayInv
  BY FreshInv DEF Init, SyncBegTid, SyncedMeansComplete
<1> QED BY <1>2, <1>3 DEF IInv

\* A new run of the pair starts from the invariant's initial conditions: all it
\* keeps is what the filesystems and the cycle file hold.
LEMMA RestartInv ==
    ASSUME TwoWayPipeOpt, IInv, Restart PROVE IInv'
<1>1. /\ toTgt' = <<>> /\ toSrc' = <<>> /\ rd' = RdInit /\ hist' = HistInit
      /\ wr' = WrInit /\ UNCHANGED <<src, srcEnd, tgt, tgtEnd, cycle, crashes>>
  BY DEF Restart, fs
<1>2. TypeOK'
  BY <1>1, FreshTypes DEF IInv, TypeOK
<1>3. srcEnd' \in Nat
  BY <1>1, BoundAssumption DEF IInv, TypeOK, Tids
<1>4. SyncedMeansComplete' /\ FsInv
  BY <1>1 DEF IInv, TwoWayInv, SyncedMeansComplete
<1>5. /\ rd'.pc = "again" /\ rd'.tid_end = 0 /\ rd'.histmax = 0 /\ ~rd'.histogram
      /\ wr'.pc = "again"
  BY <1>1 DEF RdInit, WrInit
<1>6. FsInv' /\ HistInv' /\ ReplyInv'
  BY <1>1, <1>3, <1>4, <1>5 DEF FsInv, HistInv, HistInit, ReplyInv, Down
<1>7. WrPhase' /\ RdPhase' /\ RoundInv' /\ SyncInv'
  <2>1. toTgt' = <<>> /\ Len(toTgt') = 0
    BY <1>1
  <2>2. WrPhase'
    BY <1>5, <2>1 DEF WrPhase
  <2>3. RdPhase'
    BY <1>5, <2>1 DEF RdPhase
  <2>4. RoundInv'
    BY <1>5 DEF RoundInv
  <2>5. SyncInv'
    BY <2>1 DEF SyncInv
  <2> QED BY <2>2, <2>3, <2>4, <2>5
<1> QED BY <1>2, <1>4, <1>6, <1>7 DEF IInv, TwoWayInv
=============================================================================
