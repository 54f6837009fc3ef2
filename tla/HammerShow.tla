----------------------------- MODULE HammerShow -----------------------------
(***************************************************************************)
(* hammer show and show-undo (cmd_show.c, with the zone statistics of      *)
(* misc.c): a walk over the B-Tree from its root that reports damaged      *)
(* nodes, elements and records, optionally directed by a search key, and a *)
(* scan of the UNDO FIFO.                                                  *)
(*                                                                         *)
(* A key is a sequence of NumFields fields, of which the last stands for   *)
(* create_tid; the code's has five.  An internal node has count elements   *)
(* and the right boundary.  The tree is any the media may hold, except     *)
(* that no child pointer leads back to an ancestor.                        *)
(***************************************************************************)
EXTENDS Integers, Sequences, FiniteSets, SequencesExt

CONSTANTS NumFields,
          MaxMirror,             \* HAMMER_MAX_TID
          MaxInternal, MaxLeaf,  \* elements of a node
          UndoAlign,             \* HAMMER_UNDO_ALIGN in units of HAMMER_HEAD_ALIGN
          UndoEnd                \* bound: alloc_offset of the UNDO FIFO

ASSUME ShowAssumption ==
    /\ {NumFields, MaxInternal, MaxLeaf, UndoAlign} \subseteq Nat \ {0}
    /\ MaxMirror \in Nat /\ UndoEnd \in Nat

RootNode == 1         \* vol0_btree_root
NoOff == 0

VARIABLES shTree,    \* the nodes on the media, by offset
          shOpt,     \* [limit, base, filter, quiet, seven]
          shPc,
          shStack,   \* the calls of print_btree_node: [off, next]
          shBad,     \* num_bad_node, num_bad_elm, num_bad_rec
          shOut,     \* the leaf elements printed: <<off, index>>
          shBits,    \* l1_max and l1_bits: per volume, the bits of each layer1
          shBlocks,  \* big-blocks counted
          shUndo,    \* scan_offset
          shHeads    \* history: offsets of the UNDO FIFO that were looked at

shVars == <<shTree, shOpt, shPc, shStack, shBad, shOut, shBits, shBlocks, shUndo,
            shHeads>>

ShowInit(tree, opt, pc) ==
    /\ shTree = tree /\ shOpt = opt /\ shPc = pc /\ shStack = <<>>
    /\ shBad = [node |-> 0, elm |-> 0, rec |-> 0] /\ shOut = {}
    /\ shBits = <<>> /\ shBlocks = 0 /\ shUndo = 0 /\ shHeads = {}

-----------------------------------------------------------------------------
(* Keys.  A create_tid of 0 is later than any other.                       *)

FieldBefore(k, x, y) ==
    IF k < NumFields THEN x < y ELSE x # y /\ x # 0 /\ (y = 0 \/ x < y)

\* hammer_btree_cmp and test_btree_search, on the first fields.
Before(key, base, fields) ==
    \E k \in 1..fields : /\ FieldBefore(k, key[k], base[k])
                         /\ \A j \in 1..k - 1 : key[j] = base[j]
KeyLess(a, b) == Before(a, b, NumFields)

\* Mutant: the right boundary itself is let through.
TestLrClosed(key, lbe, rbe) ==
    IF KeyLess(key, lbe) THEN {"L"} ELSE IF KeyLess(rbe, key) THEN {"R"} ELSE {}

TestLr(key, lbe, rbe) ==
    IF KeyLess(key, lbe) THEN {"L"} ELSE IF ~KeyLess(key, rbe) THEN {"R"} ELSE {}

TestRbnLr(key, lbe, rbe) ==
    IF KeyLess(key, lbe) THEN {"L"} ELSE IF KeyLess(rbe, key) THEN {"R"} ELSE {}

Searching == shOpt.limit > 0
SearchLess(base, key) == Before(base, key, shOpt.limit)

\* test_btree_out_of_range
OutOfRange(elm, next) ==
    \/ SearchLess(shOpt.base, elm.key)
    \/ IF shOpt.limit >= NumFields THEN ~SearchLess(shOpt.base, next.key)
                                   ELSE SearchLess(next.key, shOpt.base)

-----------------------------------------------------------------------------
(* The checks on a node, an element and a record.                          *)

Internal(n) == n.type = "I"
LeafNode(n) == n.type = "L"
LastElm(n) == n.count + (IF Internal(n) THEN 1 ELSE 0)

\* test_node_count; an empty node reads its parent.
BadCount(n) ==
    \/ ~Internal(n) /\ ~LeafNode(n)
    \/ n.count > (IF Internal(n) THEN MaxInternal ELSE MaxLeaf)
    \/ n.count = 0 /\ shTree[n.parent].count # 1
CountFaults(n) ==
    (Internal(n) \/ LeafNode(n)) /\ n.count = 0 /\ n.parent \notin DOMAIN shTree

BadNode(n, mirror) == ~n.crc \/ n.mirror > mirror \/ BadCount(n)

\* get_elm_flags; bounds is {} at the root, else {[lbe, rbe]}.
InternalFlags(off, i, bounds) ==
    LET n == shTree[off]
        e == n.elms[i]
        rbn == i = n.count + 1
    IN (IF e.mirror > n.mirror THEN {"M"} ELSE {})
       \cup (IF rbn THEN (IF e.sub # NoOff THEN {"C"} ELSE {})
             ELSE IF e.sub \notin DOMAIN shTree THEN {"C"}
             ELSE IF shTree[e.sub].parent # off THEN {"C"} ELSE {})
       \cup (IF rbn THEN (IF e.btype = "N"
                          THEN UNION {TestRbnLr(e.key, b.lbe, b.rbe) : b \in bounds}
                          ELSE {"T"})
             ELSE IF e.btype \in {"I", "L"}
                  THEN UNION {TestLr(e.key, b.lbe, b.rbe) : b \in bounds} ELSE {"T"})

LeafFlags(off, i, bounds) ==
    LET n == shTree[off]
        e == n.elms[i]
        create == e.key[NumFields]
    IN (IF e.data = NoOff \/ e.len = 0 THEN {"C"} ELSE {})
       \cup (IF \/ n.mirror = 0 /\ ~(n.parent = NoOff /\ n.count = 2)
                \/ n.mirror # 0 /\ (create > n.mirror \/ e.delete > n.mirror)
             THEN {"M"} ELSE {})
       \cup (IF e.btype = "R" THEN UNION {TestLr(e.key, b.lbe, b.rbe) : b \in bounds}
                              ELSE {"T"})

ElmFlags(off, i, bounds) ==
    CASE Internal(shTree[off]) -> InternalFlags(off, i, bounds)
      [] LeafNode(shTree[off]) -> LeafFlags(off, i, bounds)
      [] OTHER -> {"T"}

\* check_data_crc: from version seven the new checksum is tried first.
BadData(e) ==
    \/ e.data = NoOff \/ e.len = 0
    \/ e.inode /\ ~e.size
    \/ ~(e.crc = "old" \/ (e.crc = "iscsi" /\ shOpt.seven))

Records(n) == {i \in 1..n.count : LeafNode(n) /\ n.elms[i].btype = "R"}

\* print_record asserts what the flags have just reported.
RecordAsserts(n) ==
    shOpt.quiet < 2 /\ \E i \in Records(n) : n.elms[i].data = NoOff \/ n.elms[i].len = 0

-----------------------------------------------------------------------------
(* Zone statistics: one bit per big-block, in arrays that grow.            *)

Layers(bits, vol) == IF vol \in DOMAIN bits THEN Len(bits[vol]) ELSE 0

ExtendLayer1Bits(bits, vol, layer) ==
    [v \in DOMAIN bits \cup {vol} |->
       IF v # vol THEN bits[v]
       ELSE [l \in 1..layer + 1 |-> IF l <= Layers(bits, vol) THEN bits[vol][l] ELSE {}]]

SetLayerBits(bits, at) == [bits EXCEPT ![at.vol][at.l1 + 1] = @ \cup {at.l2}]

\* hammer_add_zone_stat, at [vol, l1, l2].
AddZoneStat(s, at) ==
    LET bits == IF at.l1 >= Layers(s.bits, at.vol)
                THEN ExtendLayer1Bits(s.bits, at.vol, at.l1) ELSE s.bits
        new  == at.l2 \notin bits[at.vol][at.l1 + 1]
    IN [bits   |-> SetLayerBits(bits, at),
        blocks |-> s.blocks + (IF new THEN 1 ELSE 0)]

\* The node, then its records in order.
NodeStats(n) ==
    LET s[i \in 0..n.count] ==
          IF i = 0 THEN AddZoneStat([bits |-> shBits, blocks |-> shBlocks], n.at)
          ELSE IF i \in Records(n) THEN AddZoneStat(s[i - 1], n.elms[i].at) ELSE s[i - 1]
    IN s[n.count]

-----------------------------------------------------------------------------
(* The walk.                                                               *)

\* print_btree_node up to its children.
PrintNode(off, mirror, bounds, stack) ==
    IF off \notin DOMAIN shTree
    THEN shPc' = "fault" /\ UNCHANGED <<shStack, shBad, shOut, shBits, shBlocks>>
    ELSE LET n == shTree[off] IN
         IF CountFaults(n) \/ RecordAsserts(n)
         THEN shPc' = "fault" /\ UNCHANGED <<shStack, shBad, shOut, shBits, shBlocks>>
         ELSE /\ shPc' = "walk"
              /\ shStack' = Append(stack, [off |-> off, next |-> 1])
              /\ shBad' = [node |-> shBad.node + (IF BadNode(n, mirror) THEN 1 ELSE 0),
                           elm |-> shBad.elm + Cardinality({i \in 1..LastElm(n) :
                                     ElmFlags(off, i, bounds) # {}}),
                           rec |-> shBad.rec + Cardinality({i \in Records(n) :
                                     BadData(n.elms[i])})]
              /\ shOut' = shOut \cup {<<off, i>> : i \in Records(n)}
              /\ LET s == NodeStats(n) IN shBits' = s.bits /\ shBlocks' = s.blocks

PrintBtree ==
    /\ shPc = "start"
    /\ PrintNode(RootNode, MaxMirror, {}, shStack)
    /\ UNCHANGED <<shTree, shOpt, shUndo, shHeads>>

Top == shStack[Len(shStack)]
Descends(n, i) ==
    /\ n.elms[i].sub # NoOff
    /\ ~(Searching /\ shOpt.filter # 0 /\ OutOfRange(n.elms[i], n.elms[i + 1]))
Children ==
    {i \in Top.next..shTree[Top.off].count :
       Internal(shTree[Top.off]) /\ Descends(shTree[Top.off], i)}

PrintSubtree ==
    /\ shPc = "walk" /\ Children # {}
    /\ LET n == shTree[Top.off]
           i == CHOOSE i \in Children : \A j \in Children : i <= j
           e == n.elms[i]
       IN PrintNode(e.sub, e.mirror, {[lbe |-> e.key, rbe |-> n.elms[i + 1].key]},
                    [shStack EXCEPT ![Len(shStack)].next = i + 1])
    /\ UNCHANGED <<shTree, shOpt, shUndo, shHeads>>

\* Mutant: the search goes on after the key is found.
NextFilterKept == shOpt.filter

\* By default the first subtree printed ends the search.
NextFilter == IF Searching /\ shOpt.filter = -1 THEN 0 ELSE shOpt.filter

Return ==
    /\ shPc = "walk" /\ Children = {}
    /\ shStack' = SubSeq(shStack, 1, Len(shStack) - 1)
    /\ IF Len(shStack) = 1
       THEN shPc' = "done" /\ UNCHANGED shOpt
       ELSE shOpt' = [shOpt EXCEPT !.filter = NextFilter] /\ UNCHANGED shPc
    /\ UNCHANGED <<shTree, shBad, shOut, shBits, shBlocks, shUndo, shHeads>>

UndoStep(size) ==
    IF size = 0 \/ size > UndoAlign - (shUndo % UndoAlign)
    THEN (shUndo \div UndoAlign + 1) * UndoAlign ELSE shUndo + size

\* hammer_cmd_show_undo: the heads hold any size, and an unaligned one (here
\* 0 as well) is skipped.
ShowUndo(size) ==
    /\ shPc = "undo" /\ shUndo < UndoEnd
    /\ shHeads' = shHeads \cup {shUndo}
    /\ shUndo' = UndoStep(size)
    /\ UNCHANGED <<shTree, shOpt, shPc, shStack, shBad, shOut, shBits, shBlocks>>

ShowNext ==
    \/ PrintBtree \/ PrintSubtree \/ Return
    \/ \E size \in 0..2 * UndoAlign : ShowUndo(size)

ShowOver == shPc \in {"done", "fault"} \/ (shPc = "undo" /\ shUndo >= UndoEnd)

-----------------------------------------------------------------------------
(* Properties.                                                             *)

\* The elements that lead to a node from the root: [off, i].
Leading(off) ==
    {r \in [off : DOMAIN shTree, i : 1..MaxInternal] :
       /\ Internal(shTree[r.off]) /\ r.i <= shTree[r.off].count
       /\ shTree[r.off].elms[r.i].sub = off}
Above(off) ==
    LET up[k \in 0..Cardinality(DOMAIN shTree)] ==
          IF k = 0 THEN Leading(off)
          ELSE up[k - 1] \cup UNION {Leading(r.off) : r \in up[k - 1]}
    IN up[Cardinality(DOMAIN shTree)]

\* What the walk without a search comes to.
Walked == {off \in DOMAIN shTree : off = RootNode \/ \E r \in Above(off) : r.off = RootNode}
AllRecords == {x \in Walked \X (1..MaxLeaf) : x[2] \in Records(shTree[x[1]])}
RecordAt(x) == shTree[x[1]].elms[x[2]]

Silent == shBad = [node |-> 0, elm |-> 0, rec |-> 0]
WholeWalk == shPc = "done" /\ ~Searching

\* When show reports nothing, every record lies between the boundaries of all
\* the elements that lead to it, so that a lookup finds its leaf, and none of
\* them has a mirror_tid older than the record's creation or deletion, so
\* that a mirroring run does not pass it over; the code compares each node
\* with its parent only.
CleanIsSound ==
    WholeWalk /\ Silent =>
        \A x \in AllRecords : \A r \in Above(x[1]) :
            LET e == RecordAt(x)
                n == shTree[r.off]
            IN /\ ~KeyLess(e.key, n.elms[r.i].key) /\ KeyLess(e.key, n.elms[r.i + 1].key)
               /\ e.key[NumFields] <= n.elms[r.i].mirror /\ e.delete <= n.elms[r.i].mirror

\* The boundaries and the records below a node, from left to right.
InOrder(off) ==
    LET walk[k \in 0..Cardinality(DOMAIN shTree), o \in DOMAIN shTree] ==
          LET n == shTree[o] IN
          IF k = 0 \/ ~Internal(n)
          THEN [i \in 1..n.count |-> [key |-> n.elms[i].key, rec |-> TRUE]]
          ELSE FlattenSeq([i \in 1..n.count + 1 |->
                 <<[key |-> n.elms[i].key, rec |-> FALSE]>>
                 \o (IF i <= n.count THEN walk[k - 1, n.elms[i].sub] ELSE <<>>)])
    IN walk[Cardinality(DOMAIN shTree), off]
TreeSorted ==
    /\ \A off \in DOMAIN shTree : Internal(shTree[off]) =>
         \A i \in 1..shTree[off].count : shTree[off].elms[i].sub \in DOMAIN shTree
    /\ LET s == InOrder(RootNode) IN
       \A i \in 1..Len(s) - 1 : IF s[i].rec THEN KeyLess(s[i].key, s[i + 1].key)
                                           ELSE ~KeyLess(s[i + 1].key, s[i].key)

\* Keys that ascend from left to right over the whole tree are not reported.
SortedIsQuiet ==
    WholeWalk /\ TreeSorted =>
        \A off \in DOMAIN shTree : \A r \in Leading(off) :
            LET n == shTree[r.off]
                b == {[lbe |-> n.elms[r.i].key, rbe |-> n.elms[r.i + 1].key]}
            IN \A i \in 1..LastElm(shTree[off]) : ElmFlags(off, i, b) \cap {"L", "R"} = {}

\* Whatever the filter, a search prints every record that matches its key.
SearchFinds ==
    shPc = "done" /\ Searching /\ TreeSorted =>
        \A x \in AllRecords :
            LET key == RecordAt(x).key IN
            ~SearchLess(key, shOpt.base) /\ ~SearchLess(shOpt.base, key) => x \in shOut

\* Internal nodes begin where the element that leads to them does.
Tight ==
    \A off \in DOMAIN shTree : Internal(shTree[off]) =>
        \A r \in Leading(off) : shTree[off].elms[1].key = shTree[r.off].elms[r.i].key

\* hammer.8, show: "the dump will search for the key printing nodes as it
\* recurses down, and then will iterate forwards."  The root begins before every
\* key.
SeekGoesOn ==
    shPc = "done" /\ Searching /\ shOpt.filter # 1 /\ TreeSorted
    /\ ~SearchLess(shOpt.base, shTree[RootNode].elms[1].key) =>
        \A x \in AllRecords : ~SearchLess(RecordAt(x).key, shOpt.base) => x \in shOut

\* Unless told to filter, a search prints the records from its key on, in a
\* tree without gaps between the boundaries of parent and child.
SeekPrintsRest == Searching /\ Tight => SeekGoesOn

\* The statistics count every big-block with a node or a record once.
StatsExact ==
    WholeWalk => shBlocks = Cardinality({shTree[off].at : off \in Walked}
                                        \cup {RecordAt(x).at : x \in AllRecords})

\* show-undo looks at the head of every aligned block of the FIFO, whatever
\* sizes the heads hold.
UndoBoundaries ==
    shPc = "undo" /\ shUndo >= UndoEnd =>
        \A off \in 0..UndoEnd - 1 : off % UndoAlign = 0 => off \in shHeads

\* What hammer show and show-undo print can be relied on: no report means that
\* every record can be found and mirrored, ascending keys are not reported,
\* the statistics count every big-block once, and show-undo looks at the head
\* of every aligned block of the FIFO.
ShowSound == CleanIsSound /\ SortedIsQuiet /\ StatsExact /\ UndoBoundaries

\* hammer show with a search key prints every record that matches and, unless
\* told to filter, goes on to the records behind it.
ShowSeeks == SearchFinds /\ SeekPrintsRest
=============================================================================
