--------------------------- MODULE HammerFreemap ---------------------------
(***************************************************************************)
(* The freemap of a HAMMER file system, as newfs_hammer builds it and as   *)
(* hammer checkmap and hammer recover read it back.  Layer 2 has an entry  *)
(* for every big-block: the zone that owns it, its append offset and its   *)
(* free bytes.  Layer 1 has an entry for every Radix2 big-blocks: the      *)
(* big-block that holds their layer 2 entries, and how many are free.  The *)
(* root volume's header keeps two totals, the array of UNDO big-blocks and *)
(* the next offset of every zone.                                          *)
(*                                                                         *)
(* A big-block is <<volume, number>>.  Offsets inside one are in units of  *)
(* which BufUnits make a buffer and BigUnits a big-block.                  *)
(***************************************************************************)
EXTENDS Integers, Sequences, FiniteSets, FiniteSetsExt

CONSTANTS MaxVols,     \* bound: volumes given to newfs_hammer
          MaxSize,     \* bound: big-blocks of a volume
          Radix2,      \* layer 2 entries in a big-block (HAMMER_BLOCKMAP_RADIX2)
          MinUndo,     \* HAMMER_MIN_UNDO_BIGBLOCKS
          MaxUndo,     \* HAMMER_MAX_UNDO_BIGBLOCKS
          MinBlocks,   \* the 10GB that needs -f below it, in big-blocks
          BufUnits, BigUnits

\* Layer 1's own big-block, all of layer 2 and the UNDO FIFO together take
\* less than the range of one layer 1 entry: 1 + 1024 + 128 of 2^19.
ASSUME FreemapAssumption ==
    /\ MaxVols \in Nat \ {0} /\ MaxSize \in Nat /\ Radix2 \in Nat \ {0}
    /\ MinUndo \in Nat /\ MaxUndo \in Nat \ {0} /\ MinBlocks \in Nat
    /\ BufUnits \in Nat \ {0} /\ BigUnits \in Nat /\ BigUnits % BufUnits = 0
    /\ BigUnits > 2 * BufUnits
    /\ 1 + (MaxSize + Radix2 - 1) \div Radix2 + MaxUndo < Radix2

\* Zone numbers; a free big-block has zone 0.
FREE == 0
UNDO == 3
FREEMAP == 4
BTREE == 8
META == 9
UNAVAIL == 15

Unavail == <<-1, -1>>    \* HAMMER_BLOCKMAP_UNAVAIL

VARIABLES volEnd,    \* vol_free_end of each volume, in big-blocks
          opts,      \* [force, undo]: -f and the size of -u (0: not given)
          fpc,       \* what newfs_hammer does next
          vol,       \* the volume being formatted
          freeOff,   \* vol_free_off of each volume
          predicted, \* history: what count_freemap said of the root volume
          l1, l2,    \* the two layers
          stat,      \* vol0_stat_freebigblocks and vol0_stat_bigblocks
          undo,      \* vol0_undo_array
          nextOff,   \* next_offset of the zones
          req,       \* what format_root_directory still allocates
          chunks     \* history: what it has allocated
fmVars == <<volEnd, opts, fpc, vol, freeOff, predicted, l1, l2, stat, undo,
            nextOff, req, chunks>>

Vols == DOMAIN volEnd
L1Of(b) == <<b[1], b[2] \div Radix2>>

\* phys_offset from 0 to vol_free_end, rounded up to what an entry covers.
L1Range(v) == {<<v, i>> : i \in 0..(volEnd[v] + Radix2 - 1) \div Radix2 - 1}
L2Range(i) == {<<i[1], n>> : n \in i[2] * Radix2..(i[2] + 1) * Radix2 - 1}

\* The root node, the root inode and the data of the root PFS.
RootDirectory ==
    <<[zone |-> BTREE, len |-> 1], [zone |-> META, len |-> 1],
      [zone |-> META, len |-> 1]>>

FmInit(ends, o) ==
    /\ volEnd = ends /\ opts = o /\ fpc = "count" /\ vol = 0
    /\ freeOff = [v \in Vols |-> 0] /\ predicted = 0
    /\ l1 = << >> /\ l2 = << >> /\ stat = [free |-> 0, total |-> 0]
    /\ undo = <<>> /\ nextOff = << >> /\ chunks = {}
    /\ req = RootDirectory

Room(v, n) == freeOff[v] + n <= volEnd[v]

Exit(how) ==
    /\ fpc' = how
    /\ UNCHANGED <<volEnd, opts, vol, freeOff, predicted, l1, l2, stat, undo,
                   nextOff, req, chunks>>

CountFreemap(v) ==
    LET reserved == (IF v = 0 THEN 1 ELSE 0) + Cardinality(L1Range(v)) IN
    Cardinality({b \in UNION {L2Range(i) : i \in L1Range(v)} :
                    b[2] >= reserved /\ b[2] < volEnd[v]})

CheckSize ==
    /\ fpc = "count"
    /\ IF ~Room(0, 1) THEN Exit("noroom")
       ELSE IF CountFreemap(0) < MinBlocks /\ ~opts.force THEN Exit("toosmall")
       ELSE /\ fpc' = "freemap" /\ predicted' = CountFreemap(0)
            /\ UNCHANGED <<volEnd, opts, vol, freeOff, l1, l2, stat, undo, nextOff,
                           req, chunks>>

\* Layer 1 takes the first big-block and covers every possible volume.
FormatFreemap ==
    /\ fpc = "freemap"
    /\ IF ~Room(0, 1) THEN Exit("noroom")
       ELSE /\ l1' = [i \in (0..MaxVols - 1) \X (0..MaxSize) |->
                         [phys |-> Unavail, free |-> 0]]
            /\ freeOff' = [freeOff EXCEPT ![0] = @ + 1]
            /\ fpc' = "initialize"
            /\ UNCHANGED <<volEnd, opts, vol, predicted, l2, stat, undo, nextOff,
                           req, chunks>>

\* Mutant: the last big-block of the freemap looks free.
EntryOffByOne(v, off, b) ==
    IF b[2] < off - 1 THEN [zone |-> FREEMAP, append |-> BigUnits, free |-> 0]
    ELSE IF b[2] < volEnd[v] THEN [zone |-> FREE, append |-> 0, free |-> BigUnits]
    ELSE [zone |-> UNAVAIL, append |-> BigUnits, free |-> 0]

\* Layer 2 of one big-block, once vol_free_off has passed all of the freemap.
Entry(v, off, b) ==
    IF b[2] < off THEN [zone |-> FREEMAP, append |-> BigUnits, free |-> 0]
    ELSE IF b[2] < volEnd[v] THEN [zone |-> FREE, append |-> 0, free |-> BigUnits]
    ELSE [zone |-> UNAVAIL, append |-> BigUnits, free |-> 0]

\* The layer 2 big-blocks come from the volume itself, in the order of layer 1.
InitializeFreemap ==
    LET off == freeOff[vol] + Cardinality(L1Range(vol))
        new == [b \in UNION {L2Range(i) : i \in L1Range(vol)} |->
                   Entry(vol, off, b)]
        Free(i) == Cardinality({b \in L2Range(i) : new[b].zone = FREE})
        count == Cardinality({b \in DOMAIN new : new[b].zone = FREE}) IN
    /\ fpc = "initialize"
    /\ IF ~Room(vol, 1) \/ off > volEnd[vol] THEN Exit("noroom")
       ELSE /\ l1' = [i \in DOMAIN l1 |-> IF i \notin L1Range(vol) THEN l1[i]
                         ELSE [phys |-> <<vol, freeOff[vol] + i[2]>>,
                               free |-> Free(i)]]
            /\ l2' = [b \in DOMAIN l2 \cup DOMAIN new |->
                         IF b \in DOMAIN new THEN new[b] ELSE l2[b]]
            /\ freeOff' = [freeOff EXCEPT ![vol] = off]
            /\ IF vol = 0
               THEN /\ stat' = [stat EXCEPT !.free = count]
                    /\ nextOff' = [z \in BTREE..UNAVAIL |-> 0]
                    /\ fpc' = "undo"
               ELSE /\ stat' = [free |-> stat.free + count,
                                total |-> stat.total + count]
                    /\ fpc' = "next" /\ UNCHANGED nextOff
            /\ UNCHANGED <<volEnd, opts, vol, predicted, undo, req, chunks>>

\* Without -u the FIFO takes 0.1% of the volume, MinUndo big-blocks at least.
UndoLimit ==
    LET asked == IF opts.undo # 0 THEN opts.undo ELSE Max({volEnd[0] \div 1000, MinUndo})
    IN Min({Max({asked, 1}), MaxUndo})

TakeUndo(b) ==
    /\ l1' = [l1 EXCEPT ![L1Of(b)].free = @ - 1]
    /\ l2' = [l2 EXCEPT ![b] = [zone |-> UNDO, append |-> BigUnits, free |-> 0]]
    /\ stat' = [stat EXCEPT !.free = @ - 1]

AllocUndoBigblock ==
    LET b == <<0, freeOff[0]>> IN
    /\ fpc = "undo" /\ Len(undo) < UndoLimit
    /\ IF ~Room(0, 1) THEN Exit("noroom")
       ELSE IF l1[L1Of(b)].phys = Unavail \/ l2[b].zone # FREE THEN Exit("assert")
       ELSE /\ TakeUndo(b)
            /\ undo' = Append(undo, b)
            /\ freeOff' = [freeOff EXCEPT ![0] = @ + 1]
            /\ UNCHANGED <<volEnd, opts, fpc, vol, predicted, nextOff, req, chunks>>

FormatUndomapDone ==
    /\ fpc = "undo" /\ Len(undo) = UndoLimit
    /\ stat' = [stat EXCEPT !.total = stat.free]
    /\ fpc' = "root"
    /\ UNCHANGED <<volEnd, opts, vol, freeOff, predicted, l1, l2, undo, nextOff, req,
                   chunks>>

\* An allocation that would cross a buffer starts at the next one.
Skipped(off, len) ==
    IF off \div BufUnits = (off + len - 1) \div BufUnits THEN off
    ELSE ((off + len - 1) \div BufUnits) * BufUnits

\* A free big-block is claimed; one of another zone is passed over.
Ownable(entry, z) == entry.zone \in {FREE, z}

\* One turn of alloc_blockmap's loop, for the request at the head of req.
AllocBlockmap ==
    LET z == Head(req).zone
        len == Head(req).len
        off == Skipped(nextOff[z], len)
        b == <<0, off \div BigUnits>>
        unit == off % BigUnits
        claimed == l2[b].zone = FREE IN
    /\ fpc = "root" /\ req # <<>>
    /\ IF l1[L1Of(b)].phys = Unavail THEN Exit("assert")
       ELSE IF unit = 0 /\ l1[L1Of(b)].free = 0 THEN Exit("assert")
       ELSE IF l2[b].zone = UNAVAIL THEN Exit("noroom")
       ELSE IF ~Ownable(l2[b], z)
       THEN /\ nextOff' = [nextOff EXCEPT ![z] = (off \div BigUnits + 1) * BigUnits]
            /\ UNCHANGED <<volEnd, opts, fpc, vol, freeOff, predicted, l1, l2,
                           stat, undo, req, chunks>>
       ELSE IF l2[b].append # unit THEN Exit("assert")
       ELSE /\ l1' = IF claimed THEN [l1 EXCEPT ![L1Of(b)].free = @ - 1] ELSE l1
            /\ stat' = IF claimed THEN [stat EXCEPT !.free = @ - 1] ELSE stat
            /\ l2' = [l2 EXCEPT ![b] = [zone |-> z, append |-> (off + len) % BigUnits,
                                        free |-> @.free - len]]
            /\ nextOff' = [nextOff EXCEPT ![z] = off + len]
            /\ chunks' = chunks \cup {[zone |-> z, off |-> off, len |-> len]}
            /\ req' = Tail(req)
            /\ UNCHANGED <<volEnd, opts, fpc, vol, freeOff, predicted, undo>>

\* format_volume of the root volume is over; the others follow.
NextVolume ==
    /\ \/ fpc = "root" /\ req = <<>>
       \/ fpc = "next"
    /\ IF vol + 1 \in Vols
       THEN vol' = vol + 1 /\ fpc' = "initialize"
       ELSE vol' = vol /\ fpc' = "done"
    /\ UNCHANGED <<volEnd, opts, freeOff, predicted, l1, l2, stat, undo, nextOff, req,
                   chunks>>

Exited == {"noroom", "toosmall", "assert", "done"}

FmNext ==
    \/ CheckSize \/ FormatFreemap \/ InitializeFreemap \/ AllocUndoBigblock
    \/ FormatUndomapDone \/ AllocBlockmap \/ NextVolume

-----------------------------------------------------------------------------
\* The other tools read the image that newfs_hammer leaves.

\* blockmap_lookup of a big-block that should belong to zone z: 0 or an error.
BlockmapLookup(z, b) ==
    IF l1[L1Of(b)].phys = Unavail THEN -6 ELSE IF l2[b].zone # z THEN -8 ELSE 0

Ref(z, b, off, len) == [zone |-> z, blk |-> b, off |-> off, len |-> len]

\* What checkmap collects from the freemap, the B-Tree and the UNDO FIFO.
CheckFreemap ==
    {Ref(FREEMAP, <<0, 0>>, 0, BigUnits)}
    \cup {Ref(FREEMAP, l1[i].phys, 0, BigUnits) :
             i \in {j \in DOMAIN l1 : l1[j].phys # Unavail}}
CheckBtree ==
    {Ref(c.zone, <<0, c.off \div BigUnits>>, c.off % BigUnits, c.len) : c \in chunks}
CheckUndo == {Ref(UNDO, undo[n], 0, BigUnits) : n \in DOMAIN undo}
Refs == CheckFreemap \cup CheckBtree \cup CheckUndo

\* The first reference to a big-block gives the zone it is expected in; the
\* freemap is collected first and the UNDO FIFO last.
CollectOrder(z) == CASE z = FREEMAP -> 1 [] z = BTREE -> 2 [] z = META -> 3 [] z = UNDO -> 4
TrackZone(b) ==
    LET zones == {r.zone : r \in {q \in Refs : q.blk = b}} IN
    CHOOSE z \in zones : \A y \in zones : CollectOrder(z) <= CollectOrder(y)
TrackFree(b) ==
    BigUnits - MapThenSumSet(LAMBDA r : r.len, {q \in Refs : q.blk = b})

\* The big-blocks dump_collect complains of.
CheckmapErrors ==
    {b \in {r.blk : r \in Refs} :
        l2[b].zone # TrackZone(b) \/ l2[b].free # TrackFree(b)}

Pos(b) == b[1] * (MaxSize + Radix2) + b[2]

\* scan_raw_limit: the last big-block in use, or offset 0 when nothing is, or
\* when some entry fails its CRC.  Translated to zone 2, offset 0 is not 0.
LastUsed(badCrc) ==
    IF badCrc # {} THEN 0
    ELSE Max({0} \cup {Pos(b) : b \in {c \in DOMAIN l2 :
                                         l2[c].zone \notin {FREE, FREEMAP, UNAVAIL}}})

\* scan_bigblocks collects the big-blocks of the B-Tree zone.
ZoneTree == {b \in DOMAIN l2 : l2[b].zone = BTREE}

\* Whether hammer recover reads unit u of big-block b.
RecoverReads(mode, badCrc, b, u) ==
    LET known == mode # "full" /\ b \in ZoneTree
        trusted == known /\ b \notin badCrc /\ L1Of(b) \notin badCrc IN
    /\ mode # "full" => Pos(b) < LastUsed(badCrc) + 1
    /\ (mode = "quick" /\ ZoneTree # {}) => known
    /\ trusted => (u \div BufUnits) * BufUnits < l2[b].append

-----------------------------------------------------------------------------
Formatted == fpc \in {"undo", "root", "next", "done"}
FreeIn(S) == Cardinality({b \in S : l2[b].zone = FREE})
InZones == Cardinality({b \in DOMAIN l2 : l2[b].zone \in {BTREE, META}})

\* alloc_undo_bigblock, alloc_blockmap and initialize_freemap keep three
\* counts of the same big-blocks: layer 2's zones, layer 1's blocks_free and
\* vol0_stat_freebigblocks always agree.
FreeCountsAgree ==
    Formatted =>
        /\ \A i \in DOMAIN l1 :
             l1[i].free = IF l1[i].phys = Unavail THEN 0 ELSE FreeIn(L2Range(i))
        /\ stat.free = FreeIn(DOMAIN l2)

\* What count_freemap promises before anything is written, when main decides
\* whether the volume is large enough, is what formatting then finds.
PredictionHolds ==
    (Formatted /\ vol = 0) => predicted = stat.free + Len(undo) + InZones

\* vol0_stat_bigblocks counts what is neither freemap nor UNDO.
TotalHolds == fpc \in {"root", "next", "done"} => stat.total = stat.free + InZones

\* hammer checkmap finds nothing to complain of on a new file system: every
\* big-block that the freemap, the B-Tree or the UNDO FIFO uses belongs to that
\* zone in layer 2, has the free bytes left that it should, and is used once.
NewfsPassesCheckmap ==
    fpc = "done" =>
        /\ CheckmapErrors = {}
        /\ \A r \in Refs : BlockmapLookup(r.zone, r.blk) = 0

\* newfs_hammer runs into an assertion of alloc_blockmap only when no big-block
\* of the root volume is left.
AbortsOnlyWhenFull == fpc = "assert" => stat.free = 0

Nodes == {c \in chunks : c.zone = BTREE}

\* hammer recover reads every B-Tree node of an intact image in each of its
\* modes, and of any image with the full keyword.
RecoverReadsNodes ==
    fpc = "done" =>
        \A c \in Nodes, mode \in {"default", "full", "quick"} :
            RecoverReads(mode, {}, <<0, c.off \div BigUnits>>, c.off % BigUnits)

\* hammer.8: without a keyword, recover stops at the last big-block in use "if
\* such big-block is detectable"; the comment in cmd_recover.c asks that "all
\* layer1/2 entries have correct CRC values".  With one bad CRC it therefore
\* still has to read every B-Tree node.
RecoverReadsNodesBadCrc ==
    fpc = "done" =>
        \A c \in Nodes, x \in {i \in DOMAIN l1 : l1[i].phys # Unavail} :
            RecoverReads("default", {x}, <<0, c.off \div BigUnits>>, c.off % BigUnits)

\* The file system that newfs_hammer makes is sound: the space it predicts,
\* the counts it keeps beside each other and the freemap it writes agree, as
\* hammer checkmap and hammer recover read them back; and it stops half way
\* only when the root volume is full.
NewfsSound ==
    /\ PredictionHolds /\ TotalHolds /\ FreeCountsAgree
    /\ AbortsOnlyWhenFull /\ NewfsPassesCheckmap /\ RecoverReadsNodes
=============================================================================
