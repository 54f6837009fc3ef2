---------------------------- MODULE HammerDedup ----------------------------
(***************************************************************************)
(* hammer dedup and hammer dedup-simulate.  The B-Tree is scanned for data *)
(* records, once to warm the cache and then in one or more passes; a tree  *)
(* indexed by CRC remembers one record of every CRC met, and a record with *)
(* a known CRC is offered to the kernel as a duplicate of it.  Records of  *)
(* one CRC with different data move to a subtree indexed by SHA-256.  When *)
(* the trees outgrow the memory limit, the pass is cut down to a prefix of *)
(* its CRC range and a further pass takes the rest.  A timeout ends a run, *)
(* which leaves a cycle file for the next run to resume from.              *)
(*                                                                         *)
(* A data value is a triple <<crc, length, id>> and a block is a pair of   *)
(* the data that it holds and a number.                                    *)
(***************************************************************************)
EXTENDS Integers, Sequences, FiniteSetsExt, Functions, TLC

CONSTANTS CrcMod,      \* CRCs are 0 .. CrcMod-1 (2^32)
          MemLimit,    \* entries of the trees that fit into memory (-m)
          MaxFails     \* failures of the kernel calls in one run

ASSUME DedupAssumption == CrcMod \in Nat \ {0} /\ MemLimit \in Nat \ {0} /\ MaxFails \in Nat

VARIABLES dpc,         \* "pre", "main", "pass2", "done" or "out"
          simulate,    \* dedup-simulate
          drecs,       \* the data of the records, in key order
          where,       \* the block that each record refers to
          cycle,       \* cycle file: the first record to scan, 0 if there is none
          from, next,  \* the first record of this run, and the next of this scan
          crcStart, dd,\* DedupCrcStart, and the state of the pass
          dfails,      \* history: kernel calls that failed for a data value
          trimmed,     \* history: the memory limit was met
          examined     \* history: records looked at since the last complete run
dedupVars == <<dpc, simulate, drecs, where, cycle, from, next, crcStart, dd, dfails,
               trimmed, examined>>

CrcOf(d) == d[1]
LenOf(d) == d[2]

\* tree: CRC -> entry; an entry with a SHA subtree is fictitious.
Fresh == [tree |-> <<>>, crcEnd |-> 0, pass2 |-> <<>>, ref |-> 0, alloc |-> 0, skipped |-> 0]

DedupInit(ds, blocks, sim) ==
    /\ dpc = IF sim THEN "main" ELSE "pre"
    /\ simulate = sim /\ drecs = ds /\ where = blocks
    /\ cycle = 0 /\ from = 1 /\ next = 1 /\ crcStart = 0 /\ dd = Fresh
    /\ dfails = [d \in Range(ds) |-> 0] /\ trimmed = FALSE /\ examined = {}

Leaf(i) == [rec |-> i, off |-> where[i]]
DataAt(l) == drecs[l.rec]

\* Mutant: the CRC at which the last pass stopped is left out.
InRangeOpen(c) ==
    crcStart # dd.crcEnd => c > crcStart /\ (dd.crcEnd # 0 => c < dd.crcEnd)

\* count_btree_elm and the filter of scan_pfs.
InRange(c) ==
    crcStart # dd.crcEnd => c >= crcStart /\ (dd.crcEnd # 0 => c < dd.crcEnd)

\* Halve the CRC range and drop the entries above it.
Entries(t) == Cardinality(DOMAIN t) +
              MapThenSumSet(LAMBDA c : Cardinality(DOMAIN t[c].sha), DOMAIN t)
HalfRange(end) == (crcStart + ((end - crcStart - 1) % CrcMod) \div 2) % CrcMod
Cut(s) == LET e == HalfRange(s.crcEnd)
          IN [s EXCEPT !.crcEnd = e, !.tree = Restrict(@, {c \in DOMAIN @ : c < e})]
RECURSIVE Trim(_)
Trim(s) == IF Entries(s.tree) <= MemLimit THEN s ELSE Trim(Cut(s))
TrimOnce(s) == IF Entries(s.tree) <= MemLimit THEN s ELSE Cut(s)

Single(l) == [leaf |-> l, blks |-> 1, size |-> LenOf(DataAt(l))]
Counted(e, l) == [e EXCEPT !.blks = @ + 1, !.size = @ + LenOf(DataAt(l))]
NewEntry(l) == Single(l) @@ [sha |-> <<>>]
Fictitious(e) == e.sha # <<>>

\* deduplicate: what the kernel answers for two records.
Answers(p, q) ==
    IF p.off = q.off THEN {"same"}
    ELSE IF DataAt(p) = DataAt(q) THEN {"ok", "tech", "underflow"} ELSE {"cmp", "tech"}

Early(s, l) == [s EXCEPT !.alloc = @ + LenOf(DataAt(l)), !.ref = @ + LenOf(DataAt(l))]
Pass2Insert(s, l) ==
    IF dpc = "pass2" THEN Early(s, l)
    ELSE [s EXCEPT !.pass2 = Append(@, l), !.skipped = @ + LenOf(DataAt(l))]
Insert(s, c, e) == [s EXCEPT !.tree = (c :> e) @@ @]

\* The outcome of one record: the state after it, the record that the kernel
\* made share p's block (0 if none) and whether a kernel call failed.
Outcome(s, p, failed) == [state |-> s, partner |-> p, failed |-> failed]

\* upgrade_chksum: the data of a block cannot be read.
Unread(s, l) == Outcome(Pass2Insert(s, l), 0, TRUE)

\* A record whose CRC leads to an ordinary entry e.  Different lengths and
\* different data make the entry fictitious; reading either block may fail.
Collision(s, l, e) ==
    LET c == CrcOf(DataAt(l))
        old == [leaf |-> e.leaf, blks |-> e.blks, size |-> e.size]
        half == Insert(s, c, [e EXCEPT !.sha = DataAt(e.leaf) :> old])
        full == Insert(s, c, [e EXCEPT !.sha = (DataAt(e.leaf) :> old) @@ (DataAt(l) :> Single(l))])
    IN {Outcome(full, 0, FALSE), Unread(s, l), Unread(half, l)}

MatchCrc(s, l, e) ==
    LET c == CrcOf(DataAt(l)) IN
    IF LenOf(DataAt(e.leaf)) # LenOf(DataAt(l)) THEN Collision(s, l, e)
    ELSE UNION {CASE a \in {"same", "ok"} ->
                       {Outcome(Insert(s, c, Counted(e, l)), IF a = "ok" THEN e.leaf.rec ELSE 0, FALSE)}
                  [] a = "tech" -> {Outcome(Pass2Insert(s, l), 0, TRUE)}
                  [] a = "underflow" ->
                       {Outcome(Insert(s, c, Counted([e EXCEPT !.leaf = l], l)), 0, TRUE)}
                  [] a = "cmp" -> Collision(s, l, e) : a \in Answers(e.leaf, l)}

\* A record whose CRC leads to a fictitious entry: SHA-256 tells the data apart.
\* The digest is taken from an entry with the same block, or by reading the data.
MatchSha(s, l, e) ==
    LET c == CrcOf(DataAt(l))
        d == DataAt(l)
        put(x) == Insert(s, c, [e EXCEPT !.sha = (d :> x) @@ @])
        known == \E x \in DOMAIN e.sha : e.sha[x].leaf.off = l.off
    IN (IF known THEN {} ELSE {Unread(s, l)}) \cup
       IF d \notin DOMAIN e.sha THEN {Outcome(put(Single(l)), 0, FALSE)}
       ELSE LET x == e.sha[d] IN
            {CASE a \in {"same", "ok"} ->
                    Outcome(put(Counted(x, l)), IF a = "ok" THEN x.leaf.rec ELSE 0, FALSE)
               [] a = "tech" -> Outcome(Pass2Insert(s, l), 0, TRUE)
               [] a = "underflow" -> Outcome(put(Counted([x EXCEPT !.leaf = l], l)), 0, TRUE)
             : a \in Answers(x.leaf, l)}

\* process_btree_elm.
Process(s0, l) ==
    LET s == Trim(s0)
        c == CrcOf(DataAt(l)) IN
    IF c \notin DOMAIN s.tree THEN {Outcome(Insert(s, c, NewEntry(l)), 0, FALSE)}
    ELSE IF Fictitious(s.tree[c]) THEN MatchSha(s, l, s.tree[c])
    ELSE MatchCrc(s, l, s.tree[c])

\* collect_btree_elm of dedup-simulate: CRCs only.
Collect(s0, l) ==
    LET s == TrimOnce(s0)
        c == CrcOf(DataAt(l))
    IN {Outcome(Insert(s, c, IF c \in DOMAIN s.tree THEN Counted(s.tree[c], l) ELSE NewEntry(l)),
                0, FALSE)}

Look(l, s1) ==
    \E o \in IF simulate THEN Collect(s1, l) ELSE Process(s1, l) :
        /\ o.failed => FoldFunction(+, 0, dfails) < MaxFails
        /\ dd' = o.state
        /\ where' = IF o.partner # 0 THEN [where EXCEPT ![l.rec] = where[o.partner]] ELSE where
        /\ dfails' = IF o.failed THEN [dfails EXCEPT ![DataAt(l)] = @ + 1] ELSE dfails
        /\ trimmed' = (trimmed \/ Entries(s1.tree) > MemLimit)
        /\ examined' = examined \cup {l.rec}

\* One record of scan_pfs.
ScanPre ==
    /\ dpc = "pre" /\ next <= Len(drecs)
    /\ next' = next + 1
    /\ UNCHANGED <<dpc, simulate, drecs, where, cycle, from, crcStart, dd, dfails, trimmed, examined>>

ScanMain ==
    /\ dpc = "main" /\ next <= Len(drecs)
    /\ next' = next + 1
    /\ IF InRange(CrcOf(drecs[next])) THEN Look(Leaf(next), dd)
       ELSE UNCHANGED <<where, dd, dfails, trimmed, examined>>
    /\ UNCHANGED <<dpc, simulate, drecs, cycle, from, crcStart>>

\* The pre-pass is over, or a main pass: then its pass 2 follows.
ScanEnd ==
    /\ dpc \in {"pre", "main"} /\ next > Len(drecs)
    /\ dpc' = (IF dpc = "pre" THEN "main" ELSE "pass2")
    /\ next' = IF dpc = "pre" THEN from ELSE next
    /\ UNCHANGED <<simulate, drecs, where, cycle, from, crcStart, dd, dfails, trimmed, examined>>

\* Records whose kernel calls failed are tried once more.
Pass2 ==
    /\ dpc = "pass2" /\ dd.pass2 # <<>>
    /\ LET l == Head(dd.pass2)
           tried == [dd EXCEPT !.pass2 = Tail(@)]
       IN \E o \in Process(tried, l) :
            LET early == o.state.ref # tried.ref IN
            /\ o.failed => FoldFunction(+, 0, dfails) < MaxFails
            /\ dd' = IF early THEN o.state
                     ELSE [o.state EXCEPT !.skipped = @ - LenOf(DataAt(l))]
            /\ where' = IF o.partner # 0 THEN [where EXCEPT ![l.rec] = where[o.partner]] ELSE where
            /\ dfails' = IF o.failed THEN [dfails EXCEPT ![DataAt(l)] = @ + 1] ELSE dfails
            /\ trimmed' = (trimmed \/ Entries(tried.tree) > MemLimit)
    /\ UNCHANGED <<dpc, simulate, drecs, cycle, from, next, crcStart, examined>>

\* The statistics of the trees are added up and the trees freed.
EntryStats(e) ==
    LET es == IF Fictitious(e) THEN {<<d, e.sha[d]>> : d \in DOMAIN e.sha} ELSE {<<0, e>>}
    IN [ref |-> MapThenSumSet(LAMBDA x : x[2].size, es),
        alloc |-> MapThenSumSet(LAMBDA x : x[2].size \div x[2].blks, es)]
PassEnd ==
    /\ dpc = "pass2" /\ dd.pass2 = <<>>
    /\ dpc' = IF dd.crcEnd # 0 THEN "main" ELSE "done"
    /\ dd' = [Fresh EXCEPT
         !.ref = dd.ref + MapThenSumSet(LAMBDA c : EntryStats(dd.tree[c]).ref, DOMAIN dd.tree),
         !.alloc = dd.alloc + MapThenSumSet(LAMBDA c : EntryStats(dd.tree[c]).alloc, DOMAIN dd.tree),
         !.skipped = dd.skipped]
    /\ crcStart' = dd.crcEnd
    /\ next' = from
    /\ cycle' = IF dd.crcEnd # 0 \/ simulate THEN cycle ELSE 0
    /\ UNCHANGED <<simulate, drecs, where, from, dfails, trimmed, examined>>

\* SIGALRM or an interrupt, seen after a batch of records.
Timeout ==
    /\ dpc \in {"pre", "main"} /\ next > from /\ ~simulate
    /\ cycle' = next
    /\ dpc' = "out"
    /\ UNCHANGED <<simulate, drecs, where, from, next, crcStart, dd, dfails, trimmed, examined>>

\* The next run of hammer dedup.
Resume ==
    /\ dpc = "out"
    /\ dpc' = "pre"
    /\ from' = (IF cycle = 0 THEN 1 ELSE cycle) /\ next' = from'
    /\ crcStart' = 0 /\ dd' = Fresh /\ trimmed' = FALSE
    /\ dfails' = [d \in DOMAIN dfails |-> 0]
    /\ UNCHANGED <<simulate, drecs, where, cycle, examined>>

DedupNext == ScanPre \/ ScanMain \/ ScanEnd \/ Pass2 \/ PassEnd \/ Timeout \/ Resume

-----------------------------------------------------------------------------
Total == FoldFunction(LAMBDA d, t : t + LenOf(d), 0, drecs)

\* When a run that looked at the whole file system is over, every data value is
\* held in one block, plus one for every kernel call that failed for it,
\* however the memory limit cut the CRCs into passes.
DedupConverges ==
    dpc = "done" /\ from = 1 /\ ~simulate =>
        \A d \in Range(drecs) :
            Cardinality({where[i] : i \in {j \in DOMAIN drecs : drecs[j] = d}}) <= 1 + dfails[d]

\* The statistics account for every byte of the records once; records can only
\* be counted twice when the memory limit cut a pass.
RefAccounted ==
    dpc = "done" /\ from = 1 =>
        /\ dd.ref >= Total
        /\ ~trimmed => dd.ref = Total
        /\ dd.skipped <= dd.ref /\ dd.alloc <= dd.ref

\* Every pass starts at a higher CRC than the one before it, so the passes end.
PassesAdvance ==
    [][dpc = "pass2" /\ dpc' = "main" => crcStart' > crcStart]_dedupVars

\* "unable to complete the operation it will write out the current object id so
\* the next run can pick up where it left off": when a run completes, the runs
\* since the last complete one have looked at every record between them.
ResumeLooksAtAll == dpc = "done" => examined = DOMAIN drecs

\* hammer dedup under a memory limit: the passes move forward, and when they
\* end duplicates are gone and the statistics account for every byte.
DedupSafe == [](DedupConverges /\ RefAccounted) /\ PassesAdvance
=============================================================================
