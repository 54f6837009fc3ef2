--------------------------- MODULE MCHammerTools ---------------------------
(***************************************************************************)
(* The tools that work on a HAMMER filesystem alone, for TLC.  They share  *)
(* no state: a behaviour is one of a single program, chosen at the start,  *)
(* and the state of the other components stays as it is.                   *)
(***************************************************************************)
EXTENDS HammerFreemap, HammerCache, HammerRecover, HammerDedup, HammerHistory,
        HammerPfs, PidFile, Softprune, HammerVolumes, HammerShow

CONSTANTS Programs,   \* the programs to check
          RootFirst,  \* hammer recover meets the root directory's inode first
          DedupStops  \* hammer dedup may be stopped by its timer

VARIABLE prog

-----------------------------------------------------------------------------
(* What the programs work on.                                              *)

\* newfs_hammer: any volumes, and the -f and -u options its checks accept.
FreemapStarts ==
    \E n \in 1..MaxVols :
        \E ends \in [0..n - 1 -> 0..MaxSize], f \in BOOLEAN, u \in 0..MaxUndo :
            /\ u = 0 \/ u >= MinUndo \/ f
            /\ FmInit(ends, [force |-> f, undo |-> u])

\* hammer recover: records of a directory in the root with two files in it.
RecRec(type, obj) ==
    [type |-> type, obj |-> obj, deleted |-> FALSE, readable |-> TRUE, parent |-> 0,
     size |-> 0, isfile |-> FALSE, off |-> 0, nonzero |-> 0, entry |-> 0, name |-> 0]
RecInode(obj, parent, isfile, size) ==
    [RecRec("inode", obj) EXCEPT !.parent = parent, !.isfile = isfile, !.size = size]
RecData(obj, off, nonzero) ==
    [RecRec("data", obj) EXCEPT !.off = off, !.nonzero = nonzero]
RecDirent(obj, entry, name) ==
    [RecRec("direntry", obj) EXCEPT !.entry = entry, !.name = name]
RootInode == RecInode(1, 0, FALSE, 0)
MediaRecords ==
    {RootInode, RecInode(2, 1, FALSE, 0), RecInode(3, 2, TRUE, 3), RecInode(4, 2, TRUE, 1),
     RecData(3, 0, 2), RecData(3, 2, 1), RecData(4, 0, 1),
     RecDirent(1, 2, 7), RecDirent(2, 3, 8), RecDirent(2, 4, 9)}
RecoverSteps ==
    \/ RootFirst /\ RootInode \in todo /\ RecoverElm(RootInode)
    \/ (RootFirst => RootInode \notin todo) /\ RecNext
    \/ todo = {} /\ UNCHANGED recVars

\* hammer dedup: five records with data of equal and of different CRCs.
DedupData == {<<1, 1, 1>>, <<1, 2, 1>>, <<4, 2, 1>>, <<6, 1, 1>>, <<6, 1, 2>>}
DedupStarts(ds, sim) == DedupInit(ds, [n \in 1..5 |-> <<ds[n], n>>], sim)

\* undo and hammer history: a file that is renamed over by another one, with
\* more changes than the ioctl returns at a time.
Chg(k, t) == [key |-> k, tid |-> t]
HistoryOf(old, new) ==
    [o \in 0..2 |-> CASE o = 0 -> {Chg(0, 1), Chg(0, 4), Chg(1, 5)}
                      [] o = 1 -> old [] o = 2 -> new]
Histories ==
    {HistoryOf(old, new) :
        old \in {{Chg(-1, 1), Chg(0, 1), Chg(0, 2), Chg(2, 3)},
                 {Chg(-1, 1), Chg(-1, 2), Chg(-1, 3), Chg(1, 2), Chg(0, 3), Chg(0, 1),
                  Chg(0, 2)}},
        new \in {{Chg(-1, 4), Chg(0, 4), Chg(0, 5), Chg(1, 6)},
                 {Chg(-1, 4), Chg(1, 4), Chg(1, 5), Chg(1, 6), Chg(1, 7)}}}
NameAt == [t \in 1..9 |-> IF t < 4 THEN 1 ELSE IF t = 4 THEN -1 ELSE 2]
HistoryOpts ==
    [cmd : {"dump"}, idx : {-1, 0, 2, 8}] \cup [cmd : {"iterate"}]
    \cup [cmd : {"history"}, args : {<<[obj |-> 1, off |-> o1], [obj |-> 2, off |-> o2]>> :
                                       o1, o2 \in {-1, 0}}]

\* hammer pfs-*: options that are refused, and prune_min times in all units.
Prune(d, h, m, s) == [d |-> d, h |-> h, m |-> m, s |-> s]
PfsOpts == [ok : {FALSE}, t : {Prune(0, 0, 0, 0)}]
           \cup [ok : {TRUE}, t : {Prune(0, 0, 0, 0), Prune(2, 1, 1, 1), Prune(6, 0, 0, 0),
                                   Prune(12, 0, 0, 0)}]

\* newfs_hammer and hammer strip on three devices, of which one is a file.
VolumeSizes == [d \in Disks |-> 12]
VolumeArea == [min |-> 1, nom |-> 4, max |-> 6]
VolumeLists == {<<"a">>, <<"a", "b">>, <<"b", "a">>, <<"a", "a">>, <<"b", "c">>}
VolumeOpts ==
    LET o == [force |-> FALSE, forceFirst |-> FALSE, label |-> TRUE, trim |-> FALSE,
              junk |-> Unset, boot |-> Unset, mem |-> Unset]
    IN {o, [o EXCEPT !.trim = TRUE], [o EXCEPT !.trim = TRUE, !.force = TRUE],
        [o EXCEPT !.boot = 0, !.force = TRUE], [o EXCEPT !.mem = 6, !.boot = 5],
        [o EXCEPT !.junk = 0, !.boot = 0, !.force = TRUE, !.forceFirst = TRUE]}

\* hammer show: a root with a leaf and an internal node that has another leaf,
\* with keys k and mirror_tids m.
ShowAt(v, l, b) == [vol |-> v, l1 |-> l, l2 |-> b]
ShowElm(t, k, sub, m) == [btype |-> t, key |-> k, sub |-> sub, mirror |-> m]
ShowRec(k, del, at) == [btype |-> "R", key |-> k, delete |-> del, data |-> 1, len |-> 1,
                        inode |-> FALSE, size |-> TRUE, crc |-> "old", at |-> at]
ShowNode(t, p, m, es, at) ==
    [type |-> t, count |-> IF t = "I" THEN Len(es) - 1 ELSE Len(es), parent |-> p, mirror |-> m,
     crc |-> TRUE, elms |-> es, at |-> at]
ShowTree(k, m, del) ==
    << ShowNode("I", 0, m[1], <<ShowElm("L", k[1], 2, m[2]), ShowElm("I", k[4], 3, m[3]),
                                ShowElm("N", k[8], 0, 0)>>, ShowAt(0, 1, 0)),
       ShowNode("L", 1, m[4], <<ShowRec(k[2], 0, ShowAt(0, 0, 0)),
                                ShowRec(k[3], del, ShowAt(0, 2, 1))>>, ShowAt(0, 1, 0)),
       ShowNode("I", 1, m[5], <<ShowElm("L", k[5], 4, m[6]), ShowElm("N", k[7], 0, 0)>>,
                ShowAt(0, 0, 0)),
       ShowNode("L", 3, m[7], <<ShowRec(k[6], 0, ShowAt(1, 0, 1))>>, ShowAt(1, 0, 1)) >>

ShowMirror(x) == [n \in 1..7 |-> x]
\* Any keys, any mirror_tids, and keys in order, with and without gaps.
ShowKeys == <<<<1, 1>>, <<1, 2>>, <<1, 0>>, <<2, 1>>, <<2, 2>>, <<2, 0>>>>
AnyKeys == {ShowTree(Append(k, ShowKeys[4]), ShowMirror(1), 0) :
              k \in [1..7 -> {ShowKeys[n] : n \in {1, 3, 4}}]}
InOrderKeys ==
    {[n \in 1..8 |-> ShowKeys[w[n] + (CASE n < 3 -> 0 [] n = 3 -> 1 [] n < 7 -> 2 [] OTHER -> 3)]] :
       w \in {w \in [1..8 -> 1..3] : \A n \in 1..7 : w[n] <= w[n + 1]}}
GoodKeys == [n \in 1..8 |-> ShowKeys[<<1, 1, 2, 4, 4, 5, 6, 6>>[n]]]
ShowGood == ShowTree(GoodKeys, ShowMirror(2), 0)
AnyMirrors == {ShowTree(GoodKeys, m, 0) : m \in [1..7 -> 0..2]}
              \cup {ShowTree(GoodKeys, m, 3) : m \in [1..7 -> 2..3]}
ShowDamaged ==
    LET g == ShowGood
        r == g[2].elms[1]
    IN {[g EXCEPT ![o].crc = FALSE] : o \in 1..4} \cup {[g EXCEPT ![o].parent = 3] : o \in 1..4}
       \cup {[g EXCEPT ![o].type = "?"] : o \in 1..4}
       \cup {[g EXCEPT ![2].count = 0], [g EXCEPT ![4].count = 0],
             [g EXCEPT ![4].count = 0, ![4].parent = 0]}
       \cup {[g EXCEPT ![1].elms[1].sub = s] : s \in {0, 9}}
       \cup {[g EXCEPT ![o].elms[1].btype = t] : o \in 1..4, t \in {"N", "L", "R"}}
       \cup {[g EXCEPT ![2].elms[1] = e] :
               e \in {[r EXCEPT !.data = 0], [r EXCEPT !.inode = TRUE, !.size = FALSE],
                      [r EXCEPT !.crc = "iscsi"], [r EXCEPT !.crc = "bad"]}}
ShowOpt(limit, base, filter) ==
    [limit |-> limit, base |-> base, filter |-> filter, quiet |-> 0, seven |-> FALSE]
ShowAll == ShowOpt(0, <<>>, -1)
ShowStarts ==
    \/ \E t \in AnyKeys \cup AnyMirrors : ShowInit(t, ShowAll, "start")
    \/ \E t \in ShowDamaged, q \in {0, 2}, v \in BOOLEAN :
         ShowInit(t, [ShowAll EXCEPT !.quiet = q, !.seven = v], "start")
    \/ \E k \in InOrderKeys, n \in 1..6, limit \in 0..2, f \in -1..1 :
         ShowInit(ShowTree(k, ShowMirror(2), 0), ShowOpt(limit, ShowKeys[n], f), "start")
    \/ ShowInit(ShowGood, ShowAll, "undo")

-----------------------------------------------------------------------------
\* The components that do not run have one state.
ToolsInit ==
    /\ prog \in Programs
    /\ IF prog = "newfs_hammer" THEN FreemapStarts
       ELSE FmInit([v \in {0} |-> 0], [force |-> FALSE, undo |-> 0])
    /\ \E ro \in IF prog = "cache" THEN BOOLEAN ELSE {TRUE} :
         CacheInit([b \in Buffers |-> 1], ro)
    /\ \E recs \in IF prog = "recover" THEN SUBSET MediaRecords ELSE {{RootInode}} :
         RootInode \in recs /\ RecInit(recs)
    /\ IF prog = "dedup"
       THEN \E ds \in [1..5 -> DedupData], sim \in BOOLEAN : DedupStarts(ds, sim)
       ELSE DedupInit(<<>>, <<>>, FALSE)
    /\ IF prog = "undo"
       THEN \E h \in Histories, o \in HistoryOpts : HistInit(h, NameAt, o)
       ELSE HistInit([o \in 0..2 |-> {}], NameAt, [cmd |-> "iterate"])
    /\ \E shared \in IF prog = "pidfile" THEN BOOLEAN ELSE {FALSE} : PidInit(shared)
    /\ IF prog = "show" THEN ShowStarts ELSE ShowInit(ShowGood, ShowAll, "idle")
    /\ PfsInit /\ HvInit /\ Init

ToolsNext ==
    \/ /\ prog = "newfs_hammer"
       /\ FmNext \/ (fpc \in Exited /\ UNCHANGED fmVars)
       /\ UNCHANGED <<cacheVars, recVars, dedupVars, histVars, pfsVars, pidVars, vars,
                      hvVars, shVars>>
    \/ /\ prog = "cache"
       /\ CacheNext \/ (cpc # "run" /\ UNCHANGED cacheVars)
       /\ UNCHANGED <<fmVars, recVars, dedupVars, histVars, pfsVars, pidVars, vars,
                      hvVars, shVars>>
    \/ /\ prog = "recover" /\ RecoverSteps
       /\ UNCHANGED <<fmVars, cacheVars, dedupVars, histVars, pfsVars, pidVars, vars,
                      hvVars, shVars>>
    \/ /\ prog = "dedup"
       /\ \/ DedupNext /\ (~DedupStops => dpc' # "out")
          \/ dpc = "done" /\ UNCHANGED dedupVars
       /\ UNCHANGED <<fmVars, cacheVars, recVars, histVars, pfsVars, pidVars, vars,
                      hvVars, shVars>>
    \/ /\ prog = "undo" /\ HistNext({0, 1})
       /\ UNCHANGED <<fmVars, cacheVars, recVars, dedupVars, pfsVars, pidVars, vars,
                      hvVars, shVars>>
    \/ /\ prog = "pfs" /\ PfsNext(PfsOpts)
       /\ UNCHANGED <<fmVars, cacheVars, recVars, dedupVars, histVars, pidVars, vars,
                      hvVars, shVars>>
    \/ /\ prog = "pidfile" /\ PidNext
       /\ UNCHANGED <<fmVars, cacheVars, recVars, dedupVars, histVars, pfsVars, vars,
                      hvVars, shVars>>
    \/ /\ prog = "prune"
       /\ Next \/ (pc = "done" /\ UNCHANGED vars)
       /\ UNCHANGED <<fmVars, cacheVars, recVars, dedupVars, histVars, pfsVars, pidVars,
                      hvVars, shVars>>
    \/ /\ prog = "volumes" /\ HvNext(VolumeLists, VolumeOpts)
       /\ UNCHANGED <<fmVars, cacheVars, recVars, dedupVars, histVars, pfsVars, pidVars,
                      vars, shVars>>
    \/ /\ prog = "show"
       /\ ShowNext \/ (ShowOver /\ UNCHANGED shVars)
       /\ UNCHANGED <<fmVars, cacheVars, recVars, dedupVars, histVars, pfsVars, pidVars,
                      vars, hvVars>>

toolsVars == <<prog, fmVars, cacheVars, recVars, dedupVars, histVars, pfsVars, pidVars, vars,
               hvVars, shVars>>
ToolsSpec == ToolsInit /\ [][ToolsNext /\ UNCHANGED prog]_toolsVars
=============================================================================
