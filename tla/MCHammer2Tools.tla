--------------------------- MODULE MCHammer2Tools ---------------------------
(***************************************************************************)
(* The tools that work on a HAMMER2 filesystem alone, for TLC.  They share *)
(* no state: a behaviour is one of a single program (prog), chosen at the  *)
(* start, and the state of the other components stays as it is.            *)
(***************************************************************************)
EXTENDS Hammer2Volumes, Hammer2Fsck, Hammer2Repair

CONSTANTS Programs,       \* the programs to check
          Sizes, Areas,   \* sizes of the devices; of the -b and -r options
          MaxBad,         \* bound: damaged blocks of a filesystem to be verified
          Caches          \* values of fsck_hammer2 -c

VARIABLE prog

-----------------------------------------------------------------------------
(* fsck_hammer2: two headers with two roots that share most of the blocks, *)
(* two of which are reached along two paths.                               *)

Blk(off, type, name, kids) ==
  [off |-> off, type |-> type, bytes |-> 1, name |-> name,
   suproot |-> name = 0 /\ type = "inode", kids |-> kids, good |-> TRUE, read |-> TRUE]
Media == << Blk(1, "inode", 0, <<3, 4>>), Blk(2, "inode", 0, <<5, 4>>),
            Blk(3, "inode", 1, <<6>>), Blk(4, "inode", 2, <<6, 7>>), Blk(3, "inode", 1, <<7>>),
            Blk(6, "indirect", 0, <<8>>), Blk(7, "data", 0, <<>>), Blk(7, "data", 0, <<>>),
            Blk(9, "node", 0, <<10>>), Blk(10, "leaf", 0, <<>>),
            [Blk(0, "empty", 0, <<>>) EXCEPT !.bytes = 0] >>
WithDamage(bad, unread) ==
  [b \in DOMAIN Media |-> [Media[b] EXCEPT !.good = b \notin bad, !.read = b \notin unread]]
VolHdr(tid, crc, f, v) ==
  [magic |-> TRUE, crc |-> crc, tid |-> tid, freemap |-> f, volume |-> v]
FsckStarts(bad, unread, crc, force, best, pfs, c) ==
  FsckInit(<<VolHdr(17, TRUE, <<9>>, <<1>>), VolHdr(18, crc, <<9, 11>>, <<2, 11>>)>>,
           WithDamage(bad, unread),
           [force |-> force, best |-> best, pfs |-> pfs # "no",
            names |-> IF pfs = "some" THEN {2} ELSE {}, empty |-> best, cache |-> c])

-----------------------------------------------------------------------------
(* reconstruct and destroy: two headers, inodes, an indirect block,        *)
(* directory entries with short and long names, data and the freemap.      *)

Short(n) == [n |-> n, long |-> FALSE]
Long(n) == [n |-> n, long |-> TRUE]
LeafBlock(pay) == [pay |-> pay, ents |-> <<>>]
Ref(m, b, type, key) == [blk |-> b, type |-> type, chk |-> <<m[b].pay, m[b].ents>>, key |-> key]
Leaves ==
  [a \in {9, 10, 11, 12, 14} |->
    CASE a = 9 -> LeafBlock(Short("data")) [] a = 10 -> LeafBlock(Long("l"))
      [] a = 11 -> LeafBlock(Short("i5")) [] a = 12 -> LeafBlock(Short("i5"))
      [] a = 14 -> LeafBlock(Short("leaf"))]
Level1Blocks ==
  [a \in DOMAIN Leaves \cup {8, 13} |->
    CASE a = 8 -> [pay |-> Short("ind"),
                   ents |-> <<[blk |-> 0, type |-> "dirent", chk |-> Short("s"), key |-> Short("s")],
                              Ref(Leaves, 10, "dirent", Long("l")),
                              Ref(Leaves, 9, "data", Short("0"))>>]
      [] a = 13 -> [pay |-> Short("node"), ents |-> <<Ref(Leaves, 14, "leaf", Short("0"))>>]
      [] OTHER -> Leaves[a]]
Level2Blocks ==
  [a \in DOMAIN Level1Blocks \cup {6, 7} |->
    IF a \in {6, 7}
    THEN [pay |-> Short("i1"),
          ents |-> <<Ref(Level1Blocks, a + 5, "inode", Short("0")),
                     Ref(Level1Blocks, 8, "indirect", Short("0"))>>]
    ELSE Level1Blocks[a]]
RepairHdr(v) == HeaderCrcs([vol |-> <<Ref(Level2Blocks, v, "inode", Short("0"))>>,
                            fm |-> <<Ref(Level2Blocks, 13, "node", Short("0"))>>,
                            s0 |-> 0, s1 |-> 0, vh |-> 0])
RepairMedia == [a \in DOMAIN Level2Blocks \cup {1, 2} |->
                  IF a \in {1, 2} THEN RepairHdr(a + 5) ELSE Level2Blocks[a]]
DestroyArgs ==
  {[kind |-> "inode", src |-> Short("i5"), dst |-> Short("i6")],
   [kind |-> "dirent", src |-> Short("s"), dst |-> Short("t")],
   [kind |-> "dirent", src |-> Short("s"), dst |-> Long("m")],
   [kind |-> "dirent", src |-> Long("l"), dst |-> Long("m")],
   [kind |-> "dirent", src |-> Long("l"), dst |-> Short("t")]}

-----------------------------------------------------------------------------
\* The components that do not run have one state.
ToolsInit ==
  /\ prog \in Programs
  /\ \E s \in [Devs -> IF prog = "volumes" THEN Sizes ELSE {0}] : VolumesInit(s)
  /\ IF prog = "fsck"
     THEN \E bad \in {s \in SUBSET (1 .. 10) : Cardinality(s) <= MaxBad},
             unread \in {{}, {3}, {6}}, crc, force, best \in BOOLEAN,
             pfs \in {"no", "all", "some"}, c \in Caches :
            FsckStarts(bad, unread, crc, force, best, pfs, c)
     ELSE FsckStarts({}, {}, TRUE, FALSE, FALSE, "no", 0)
  /\ \E z \in IF prog = "repair" THEN 1 .. NumZones ELSE {1} : RepairInit(RepairMedia, z)

\* newfs_hammer2 has come to an end, or was stopped by an assertion.
ToolsNext ==
  \/ prog = "volumes" /\ VolumesNext(Areas) /\ UNCHANGED <<fsckVars, repairVars>>
  \/ prog = "volumes" /\ mkfs.pc \notin {"misc", "inode", "header"}
     /\ UNCHANGED <<volVars, fsckVars, repairVars>>
  \/ prog = "fsck" /\ FsckNext /\ UNCHANGED <<volVars, repairVars>>
  \/ prog = "repair" /\ RepairNext(DestroyArgs) /\ UNCHANGED <<volVars, fsckVars>>

toolsVars == <<prog, volVars, fsckVars, repairVars>>
ToolsSpec == ToolsInit /\ [][ToolsNext /\ UNCHANGED prog]_toolsVars
=============================================================================
