--------------------------- MODULE HammerHistory ---------------------------
(***************************************************************************)
(* The history of a file: undo(1), which collects the transaction ids of   *)
(* all inodes that ever had the file's name and dumps or iterates over the *)
(* versions, and hammer history, which lists the ids at one offset.  Both  *)
(* page through the HAMMERIOC_GETHISTORY ioctl while the file may be       *)
(* written to.                                                             *)
(*                                                                         *)
(* An object (the directory, an inode) has a set of changes [key, tid];    *)
(* key -1 stands for the inode record.  Versions is the history of the     *)
(* name: the inode it denoted as of a transaction id, 0 for none and -1    *)
(* for a fake id.                                                          *)
(***************************************************************************)
EXTENDS Integers, Sequences, FiniteSets, FiniteSetsExt

CONSTANTS MaxElms,    \* HAMMER_MAX_HISTORY_ELMS
          MaxHistTid  \* bound: transaction ids

ASSUME HistoryAssumption == MaxElms \in Nat \ {0} /\ MaxHistTid \in Nat

VARIABLES hsHist,    \* object -> set of changes
          hsAt,      \* tid -> inode the name denoted
          hsOpt,     \* the command line
          hsPc, hsTodo, hsBeg, hsKey,
          hsTree,    \* tid -> inode: tse_tree
          hsDirTree, \* the directory's tids
          hsOut,     \* what has been printed
          hsStart    \* the changes there were at the start

histVars == <<hsHist, hsAt, hsOpt, hsPc, hsTodo, hsBeg, hsKey, hsTree, hsDirTree, hsOut, hsStart>>

HsDir == 0
HsNow == MaxHistTid + 1        \* the name without a tid

\* opt is [cmd |-> "dump" | "iterate" | "history", idx |-> index or -1,
\* args |-> the [obj, off] of hammer history]
HistInit(hist, at, opt) ==
  /\ hsHist = hist /\ hsAt = at /\ hsOpt = opt /\ hsStart = hist
  /\ hsTree = <<>> /\ hsDirTree = {} /\ hsOut = <<>> /\ hsBeg = 0
  /\ IF opt.cmd = "history"
     THEN hsPc = "path" /\ hsTodo = opt.args /\ hsKey = -1
     ELSE hsPc = "page" /\ hsTodo = <<[obj |-> HsDir]>> /\ hsKey = 0

-----------------------------------------------------------------------------
(* The ioctl, as its header describes it: the first ids >= beg at the key. *)

GetHistory(h, beg, key) ==
  LET tids == {r.tid : r \in {c \in h : c.key = key /\ c.tid >= beg}}
      some == CHOOSE s \in SUBSET tids :
                /\ Cardinality(s) = IF Cardinality(tids) > MaxElms THEN MaxElms
                                    ELSE Cardinality(tids)
                /\ \A x \in s, y \in tids \ s : x < y
      keys == {r.key : r \in {c \in h : c.key > key}}
  IN [tids |-> some,
      next |-> CASE tids # some -> "tid" [] tids = some /\ keys # {} -> "key" [] OTHER -> "eof",
      tid  |-> IF tids = some THEN 0 ELSE Min(tids \ some),
      key  |-> IF keys = {} THEN 0 ELSE Min(keys)]

-----------------------------------------------------------------------------
(* undo.                                                                   *)

\* RB_INSERT keeps the entry that is there.
HsInsert(tree, tids, inum) ==
  [t \in DOMAIN tree \cup tids |-> IF t \in DOMAIN tree THEN tree[t] ELSE inum]

\* Mutant: the walk goes on at the key after the next.
NextKeySkips(r) == r.key + 1

NextKey(r) == IF r.next = "key" THEN r.key ELSE hsKey

NextBeg(r) == IF r.next = "tid" THEN r.tid ELSE hsBeg

\* __collect_history: one ioctl and what is done with its result.
CollectPage ==
  /\ hsPc = "page" /\ hsOpt.cmd # "history"
  /\ LET obj == Head(hsTodo).obj
         r   == GetHistory(hsHist[obj], hsBeg, hsKey)
     IN /\ IF obj = HsDir THEN hsDirTree' = hsDirTree \cup r.tids /\ UNCHANGED hsTree
           ELSE hsTree' = HsInsert(hsTree, r.tids, obj) /\ UNCHANGED hsDirTree
        /\ IF r.next = "eof" THEN hsPc' = "opened" /\ UNCHANGED <<hsKey, hsBeg>>
           ELSE hsKey' = NextKey(r) /\ hsBeg' = NextBeg(r) /\ UNCHANGED hsPc
  /\ UNCHANGED <<hsHist, hsAt, hsOpt, hsTodo, hsOut, hsStart>>

\* The versions the directory's ids lead to, and the file as it is now.  A
\* path that cannot be opened, or a fake one, is passed over.
VersionsOf(tids) ==
  LET path(t) == IF hsAt[t] > 0 THEN <<[obj |-> hsAt[t]]>> ELSE <<>>
      step[ts \in SUBSET tids] ==
        IF ts = {} THEN path(HsNow) ELSE path(Min(ts)) \o step[ts \ {Min(ts)}]
  IN step[tids]

\* doiterate: the next path to collect from.
NextPath ==
  /\ hsPc = "opened"
  /\ LET rest == IF Head(hsTodo).obj = HsDir THEN VersionsOf(hsDirTree) ELSE Tail(hsTodo) IN
     /\ hsTodo' = rest
     /\ hsPc' = IF rest = <<>> THEN hsOpt.cmd ELSE "page"
  /\ hsKey' = 0 /\ hsBeg' = 0
  /\ UNCHANGED <<hsHist, hsAt, hsOpt, hsTree, hsDirTree, hsOut, hsStart>>

\* The ids in the tree, newest first.
HsNewest ==
  [i \in 1 .. Cardinality(DOMAIN hsTree) |->
     CHOOSE t \in DOMAIN hsTree : Cardinality({x \in DOMAIN hsTree : x > t}) = i - 1]

\* doiterate_dump: an index past the end counts as none given; then the last
\* version but one is taken.
HsAsked ==
  LET by(i) == IF i >= 0 /\ i < Len(HsNewest) THEN HsNewest[i + 1] ELSE 0
  IN IF by(hsOpt.idx) # 0 THEN by(hsOpt.idx) ELSE by(1)

HsDump ==
  /\ hsPc = "dump"
  /\ hsOut' = IF HsAsked = 0 THEN <<>> ELSE <<HsAsked>>
  /\ hsPc' = "end"
  /\ UNCHANGED <<hsHist, hsAt, hsOpt, hsTodo, hsBeg, hsKey, hsTree, hsDirTree, hsStart>>

\* doiterate_iterall: a line per version; the flag set in one round is that
\* of the line of the next.
HsLines(asc) ==
  [i \in DOMAIN asc |->
     [tid |-> asc[i], chg |-> i > 1 /\ hsTree[asc[i - 1]] # hsTree[asc[i]]]]

HsIterate ==
  /\ hsPc = "iterate"
  /\ hsOut' = HsLines([i \in DOMAIN HsNewest |-> HsNewest[Len(HsNewest) + 1 - i]])
  /\ hsPc' = "end"
  /\ UNCHANGED <<hsHist, hsAt, hsOpt, hsTodo, hsBeg, hsKey, hsTree, hsDirTree, hsStart>>

-----------------------------------------------------------------------------
(* hammer history: the offset stays what an earlier path has set it to.    *)

HistoryPath ==
  /\ hsPc = "path"
  /\ IF hsTodo = <<>> THEN hsPc' = "end" /\ UNCHANGED <<hsKey, hsBeg, hsOut>>
     ELSE /\ hsKey' = IF Head(hsTodo).off >= 0 THEN Head(hsTodo).off ELSE hsKey
          /\ hsBeg' = 0 /\ hsPc' = "page" /\ hsOut' = Append(hsOut, {})
  /\ UNCHANGED <<hsHist, hsAt, hsOpt, hsTodo, hsTree, hsDirTree, hsStart>>

HistoryGoesOn(r) == r.next = "tid"

\* hammer_do_history: pages at one key only.
HistoryPage ==
  /\ hsPc = "page" /\ hsOpt.cmd = "history"
  /\ LET r == GetHistory(hsHist[Head(hsTodo).obj], hsBeg, hsKey) IN
     /\ hsOut' = [hsOut EXCEPT ![Len(hsOut)] = @ \cup r.tids]
     /\ IF HistoryGoesOn(r) THEN hsBeg' = r.tid /\ UNCHANGED <<hsPc, hsTodo>>
        ELSE hsPc' = "path" /\ hsTodo' = Tail(hsTodo) /\ UNCHANGED hsBeg
  /\ UNCHANGED <<hsHist, hsAt, hsOpt, hsKey, hsTree, hsDirTree, hsStart>>

-----------------------------------------------------------------------------

LastTid == Max(UNION {{r.tid : r \in hsHist[o]} : o \in DOMAIN hsHist})

\* Somebody writes to the file while its history is read.
Modify(key) ==
  /\ hsPc # "end" /\ LastTid < MaxHistTid /\ hsAt[HsNow] > 0
  /\ hsHist' = [hsHist EXCEPT ![hsAt[HsNow]] = @ \cup {[key |-> key, tid |-> LastTid + 1]}]
  /\ UNCHANGED <<hsAt, hsOpt, hsPc, hsTodo, hsBeg, hsKey, hsTree, hsDirTree, hsOut, hsStart>>

HistEnded == hsPc = "end" /\ UNCHANGED histVars

HistNext(keys) ==
  \/ CollectPage \/ NextPath \/ HsDump \/ HsIterate
  \/ HistoryPath \/ HistoryPage \/ HistEnded
  \/ \E key \in keys : Modify(key)

-----------------------------------------------------------------------------
(* Properties.                                                             *)

HsData(obj) == {r \in hsHist[obj] : r.key >= 0}

\* The data changes of an inode fit a page at every key of it but the last.
HsPaged(obj) ==
  \A r \in HsData(obj) :
    \/ \A x \in HsData(obj) : x.key <= r.key
    \/ Cardinality({x \in HsData(obj) : x.key = r.key}) <= MaxElms

HsOwners == {hsAt[t] : t \in {r.tid : r \in hsStart[HsDir]} \cup {HsNow}} \ {0, -1}

HsCollected(owners) ==
  hsPc = "end" /\ hsOpt.cmd # "history" =>
    \A o \in owners : \A r \in hsStart[o] : r.key >= 0 => r.tid \in DOMAIN hsTree

\* undo collects every change made before it was started to every inode that
\* had the name, however the pages fall and whatever is written meanwhile,
\* as long as one page holds the changes at each offset but the last.
UndoCollects == HsCollected({o \in HsOwners : HsPaged(o) /\ HsPaged(HsDir)})

\* undo.1 on -a: "Iterate through the file's entire history".  Without the
\* premise on the pages: the lower bound of the ids, raised to get the
\* second page of one offset, stays raised at the offsets after it.
UndoCollectsAll == HsCollected(HsOwners)

\* In the listing of undo -i the line of a version says "inode-change"
\* exactly if the version before it was of another inode, and every
\* collected version has its line.
ChangesMarked ==
  hsPc = "end" /\ hsOpt.cmd = "iterate" =>
    /\ {hsOut[i].tid : i \in DOMAIN hsOut} = DOMAIN hsTree
    /\ \A i \in DOMAIN hsOut :
         hsOut[i].chg <=> \E j \in DOMAIN hsOut :
            /\ hsOut[j].tid < hsOut[i].tid /\ hsTree[hsOut[j].tid] # hsTree[hsOut[i].tid]
            /\ \A k \in DOMAIN hsOut : ~(hsOut[j].tid < hsOut[k].tid /\ hsOut[k].tid < hsOut[i].tid)

\* hammer history shows, for a path, every change made before it was started
\* at the offset in force: the path's own, or else the last one given.
HistoryShown ==
  hsPc = "end" /\ hsOpt.cmd = "history" =>
    \A i \in DOMAIN hsOpt.args :
      LET own == {j \in 1 .. i : hsOpt.args[j].off >= 0}
          key == IF own = {} THEN -1 ELSE hsOpt.args[Max(own)].off
      IN {r.tid : r \in {c \in hsStart[hsOpt.args[i].obj] : c.key = key}} \subseteq hsOut[i]

\* hammer.8 on hammer history: "If offset is given history is shown for data
\* block at given offset, otherwise history is shown for inode."
InodeHistoryShown ==
  hsPc = "end" /\ hsOpt.cmd = "history" =>
    \A i \in DOMAIN hsOpt.args : hsOpt.args[i].off = -1 =>
      {r.tid : r \in {c \in hsStart[hsOpt.args[i].obj] : c.key = -1}} \subseteq hsOut[i]

\* undo.1 on -t: "0 indicates the latest version and increasing values
\* indicate older versions": an index never gives a version newer than the
\* one of the greatest index there is.
IndexOlder ==
  hsPc = "end" /\ hsOpt.cmd = "dump" /\ hsOpt.idx >= Len(HsNewest) /\ hsOut # <<>> =>
    hsOut[1] = Min(DOMAIN hsTree)

\* undo and hammer history show the history that the file had when they were
\* started, whatever is written meanwhile: undo collects every change as long
\* as one page holds those of each offset but the last, undo -i marks each
\* change of the inode, and history shows all changes of its offset.
HistoryExact == UndoCollects /\ ChangesMarked /\ HistoryShown
=============================================================================
