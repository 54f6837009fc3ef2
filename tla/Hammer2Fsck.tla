---------------------------- MODULE Hammer2Fsck ----------------------------
(***************************************************************************)
(* fsck_hammer2 (test.c): the volume headers, then the freemap and then    *)
(* the volume topology of every header are verified, depth first.  The     *)
(* headers share most of their blocks, so a subtree that was verified is   *)
(* remembered with its counters, once it has BlockrefCacheCount blocks.    *)
(*                                                                         *)
(* A block is an identifier of the media: blk[b] gives the offset and type *)
(* of its blockref, whether the data can be read and matches the check     *)
(* code, and the blockrefs it holds.  Two blockrefs may name one offset.   *)
(* A header is [magic, crc, tid, freemap, volume].                         *)
(***************************************************************************)
EXTENDS Integers, Sequences, FiniteSets

VARIABLES fsckHdrs,    \* the headers, one per zone of the root volume
          fsckBlk,     \* the blocks of the media
          fsckOpts,    \* [force, best, pfs, names, empty, cache]
          fsckPc,      \* phase: header, freemap, volume, done
          fsckZone,    \* zone the phase has reached
          fsckCache,   \* the delta tree of the phase: blockref -> counters
          fsckRes,     \* per phase and zone, the result and the counters
          fsckFailed

fsckVars == <<fsckHdrs, fsckBlk, fsckOpts, fsckPc, fsckZone, fsckCache,
              fsckRes, fsckFailed>>

Types == {"inode", "indirect", "data", "dirent", "node", "leaf", "empty"}

NoStats == [t \in Types \cup {"bytes", "count"} |-> 0]

\* accumulate_delta_stats; load_delta_stats adds the same to the totals.
AddStats(s, t) == [x \in DOMAIN s |-> s[x] + t[x]]

\* Mutant: the cache is searched by offset alone.
HitsOffset(cache, b) ==
  {c \in DOMAIN cache : fsckBlk[c].off = fsckBlk[b].off}

\* The entries of the delta tree that are the blockref itself.
Hits(cache, b) == {c \in DOMAIN cache : fsckBlk[c].off = fsckBlk[b].off /\ c = b}

FsckInit(hdrs, blk, opts) ==
  /\ fsckHdrs = hdrs /\ fsckBlk = blk /\ fsckOpts = opts
  /\ fsckPc = "header" /\ fsckZone = 1
  /\ fsckCache = <<>> /\ fsckRes = <<>> /\ fsckFailed = FALSE

-----------------------------------------------------------------------------
(* verify_blockref.  The result carries ret, the totals of the zone, the   *)
(* counters of the subtree and the cache; looked is the set of blocks that *)
(* were read (for the properties only).                                    *)

BlockStats(b) ==
  LET t == fsckBlk[b].type IN
  [x \in DOMAIN NoStats |->
     CASE x = t -> IF t = "empty" /\ ~fsckOpts.empty THEN 0 ELSE 1
       [] x = "bytes" /\ fsckBlk[b].type # "empty" -> fsckBlk[b].bytes
       [] OTHER -> 0]

CountedStats(b) == [BlockStats(b) EXCEPT !["bytes"] = 0]

Remember(cache, b, ds) ==
  IF fsckOpts.cache > 0 /\ fsckBlk[b].off # 0 /\ ds["count"] >= fsckOpts.cache
  THEN [c \in DOMAIN cache \cup {b} |-> IF c = b THEN ds ELSE cache[c]]
  ELSE cache

RECURSIVE VerifyBlockref(_, _, _), VerifyChildren(_, _, _, _)

CacheHit(s, ds) ==
  [s EXCEPT !.total = AddStats(@, ds), !.delta = AddStats(@, ds), !.ret = 0]

\* s = [ret, total, delta, cache, looked], delta being that of b.
VerifyBlockref(b, norecurse, s) ==
  IF Hits(s.cache, b) # {}
  THEN CacheHit(s, s.cache[CHOOSE c \in Hits(s.cache, b) : TRUE])
  ELSE
  LET blk    == fsckBlk[b]
      count  == CountedStats(b)
      seen   == [s EXCEPT !.total = AddStats(@, count),
                          !.delta = AddStats(@, count),
                          !.looked = @ \cup {b}]
      stats  == BlockStats(b)
      read   == [s EXCEPT !.total = AddStats(@, stats),
                          !.delta = AddStats(@, stats),
                          !.looked = @ \cup {b}]
      failed == blk.type \notin Types \/ (blk.bytes > 0 /\ ~blk.good)
      after  == IF blk.bytes = 0 \/ (norecurse /\ ~fsckOpts.force)
                THEN read
                ELSE VerifyChildren(blk.kids, failed, read, failed)
  IN IF ~blk.read THEN [seen EXCEPT !.ret = -1]
     ELSE IF after.ret = -1 \/ failed THEN [after EXCEPT !.ret = -1]
     ELSE LET ds == [after.delta EXCEPT !["count"] = @ + 1]
          IN [after EXCEPT !.delta = ds,
                           !.cache = Remember(after.cache, b, ds)]

\* The loop over the children: the first that fails ends it; a failed block
\* does not add up the counters of its children.
VerifyChildren(kids, norecurse, s, failed) ==
  IF kids = <<>> THEN s
  ELSE LET k == VerifyBlockref(Head(kids), norecurse,
                               [s EXCEPT !.delta = NoStats])
           d == [k EXCEPT !.delta = IF failed THEN s.delta
                                    ELSE AddStats(s.delta, k.delta)]
       IN IF k.ret = -1 THEN d
          ELSE VerifyChildren(Tail(kids), norecurse, d, failed)

NoResult(cache) == [ret |-> 0, total |-> NoStats, delta |-> NoStats,
                  cache |-> cache, looked |-> {}]

\* The blockrefs of a header, without a check code of their own.
VerifyRoot(kids, cache) == VerifyChildren(kids, FALSE, NoResult(cache), FALSE)

-----------------------------------------------------------------------------
(* init_pfs_blockref: the PFS roots below the super-root, by name.  Blocks *)
(* above them are read but not verified.                                   *)

RECURSIVE PfsBelow(_)
PfsBelow(kids) ==
  IF kids = <<>> THEN {}
  ELSE LET b == Head(kids) IN
       (IF fsckBlk[b].type = "inode" /\ ~fsckBlk[b].suproot THEN {b}
        ELSE IF fsckBlk[b].type \in {"inode", "indirect"}
             THEN PfsBelow(fsckBlk[b].kids)
        ELSE {}) \cup PfsBelow(Tail(kids))

RECURSIVE CanRead(_)
CanRead(kids) ==
  kids = <<>> \/
  LET b == Head(kids) IN
  /\ fsckBlk[b].read
  /\ \/ fsckBlk[b].type = "inode" /\ ~fsckBlk[b].suproot
     \/ fsckBlk[b].type \notin {"inode", "indirect"}
     \/ CanRead(fsckBlk[b].kids)
  /\ CanRead(Tail(kids))

Selected(pfs) ==
  {b \in pfs : fsckOpts.names = {} \/ fsckBlk[b].name \in fsckOpts.names}

RECURSIVE VerifyPfs(_, _)
VerifyPfs(pfs, s) ==
  IF pfs = {} THEN s
  ELSE LET b == CHOOSE p \in pfs : \A q \in pfs : fsckBlk[p].name <= fsckBlk[q].name
           v == VerifyBlockref(b, FALSE, NoResult(s.cache))
       IN VerifyPfs(pfs \ {b},
            [s EXCEPT !.ret = IF v.ret = -1 THEN -1 ELSE @,
                      !.cache = v.cache, !.looked = @ \cup v.looked,
                      !.total = AddStats(@, v.total)])

\* One zone of test_pfs_blockref.
VerifyPfsZone(kids, cache) ==
  LET pfs == Selected(PfsBelow(kids)) IN
  IF ~CanRead(kids) \/ PfsBelow(kids) = {} \/ pfs = {}
  THEN [NoResult(cache) EXCEPT !.ret = -1]
  ELSE VerifyPfs(pfs, NoResult(cache))

-----------------------------------------------------------------------------
(* find_best_zone and the phases of test_hammer2.                          *)

BestFsckZone ==
  LET ok == {z \in DOMAIN fsckHdrs : fsckHdrs[z].magic} IN
  CHOOSE z \in ok : \A y \in ok : \/ fsckHdrs[z].tid > fsckHdrs[y].tid
                                  \/ fsckHdrs[z].tid = fsckHdrs[y].tid /\ z <= y

Scanned(z) == fsckOpts.best => z = BestFsckZone

VerifyVolumeHeader(h) == h.magic /\ h.crc

\* What the phase finds in a zone.
ZoneResult(pc, z) ==
  LET h == fsckHdrs[z] IN
  CASE pc = "header"  -> [NoResult(<<>>) EXCEPT !.ret =
                            IF VerifyVolumeHeader(h) THEN 0 ELSE -1]
    [] pc = "freemap" -> VerifyRoot(h.freemap, fsckCache)
    [] pc = "volume"  -> IF fsckOpts.pfs THEN VerifyPfsZone(h.volume, fsckCache)
                         ELSE VerifyRoot(h.volume, fsckCache)

TestZone ==
  /\ fsckPc \in {"header", "freemap", "volume"}
  /\ fsckZone \in DOMAIN fsckHdrs
  /\ IF Scanned(fsckZone)
     THEN LET r == ZoneResult(fsckPc, fsckZone) IN
          /\ fsckRes' = [k \in DOMAIN fsckRes \cup {<<fsckPc, fsckZone>>} |->
               IF k = <<fsckPc, fsckZone>>
               THEN [ok |-> r.ret = 0, total |-> r.total, looked |-> r.looked]
               ELSE fsckRes[k]]
          /\ fsckCache' = r.cache
          /\ fsckFailed' = (fsckFailed \/ r.ret = -1)
     ELSE UNCHANGED <<fsckRes, fsckCache, fsckFailed>>
  /\ fsckZone' = fsckZone + 1
  /\ UNCHANGED <<fsckHdrs, fsckBlk, fsckOpts, fsckPc>>

PhaseFailed == \E k \in DOMAIN fsckRes : k[1] = fsckPc /\ ~fsckRes[k].ok

NextPhase(pc) ==
  CASE pc = "header" -> "freemap" [] pc = "freemap" -> "volume"
    [] pc = "volume" -> "done"

\* A phase ends: a failed one ends the run unless forced; the next has a
\* delta tree of its own.
EndPhase ==
  /\ fsckPc # "done" /\ fsckZone \notin DOMAIN fsckHdrs
  /\ fsckPc' = IF PhaseFailed /\ ~fsckOpts.force THEN "done"
               ELSE NextPhase(fsckPc)
  /\ fsckZone' = 1 /\ fsckCache' = <<>>
  /\ UNCHANGED <<fsckHdrs, fsckBlk, fsckOpts, fsckRes, fsckFailed>>

FsckEnded == fsckPc = "done" /\ UNCHANGED fsckVars

FsckNext == TestZone \/ EndPhase \/ FsckEnded

-----------------------------------------------------------------------------
(* Properties.                                                             *)

RECURSIVE Below(_)
Below(kids) ==
  IF kids = <<>> THEN {}
  ELSE {Head(kids)} \cup Below(fsckBlk[Head(kids)].kids) \cup Below(Tail(kids))

GoodBlock(b) ==
  fsckBlk[b].type \in Types /\ fsckBlk[b].read /\
  (fsckBlk[b].bytes > 0 => fsckBlk[b].good)

ZoneBlocks(pc, z) ==
  CASE pc = "freemap" -> Below(fsckHdrs[z].freemap)
    [] pc = "volume" /\ ~fsckOpts.pfs -> Below(fsckHdrs[z].volume)
    [] pc = "volume" /\ fsckOpts.pfs ->
         UNION {{b} \cup Below(fsckBlk[b].kids) :
                  b \in Selected(PfsBelow(fsckHdrs[z].volume))}
    [] pc = "header" -> {}

\* fsck_hammer2 finds a filesystem clean exactly when every header it scans
\* and every block below them that it was asked to verify is intact, with or
\* without the cache of verified subtrees.
FsckVerdict ==
  fsckPc = "done" =>
    (fsckFailed <=>
       \E z \in DOMAIN fsckHdrs :
         /\ Scanned(z)
         /\ \/ ~VerifyVolumeHeader(fsckHdrs[z])
            \/ \E pc \in {"freemap", "volume"} :
                 \E b \in ZoneBlocks(pc, z) : ~GoodBlock(b)
            \/ fsckOpts.pfs /\ Selected(PfsBelow(fsckHdrs[z].volume)) = {}
            \/ fsckOpts.pfs /\ ~CanRead(fsckHdrs[z].volume))

\* A zone that is reported intact is: no damage below it was skipped because
\* an earlier zone had left an unverified subtree in the cache.  (A cache
\* count of 1 is left out: it remembers a child of a damaged block whose own
\* children were not looked at.)
ZoneVerdict ==
  fsckOpts.cache # 1 =>
    \A k \in DOMAIN fsckRes :
      k[1] \in {"freemap", "volume"} /\ fsckRes[k].ok
        => \A b \in ZoneBlocks(k[1], k[2]) : GoodBlock(b)

RECURSIVE TreeStats(_)
TreeStats(kids) ==
  IF kids = <<>> THEN NoStats
  ELSE LET b == Head(kids) IN
       AddStats(AddStats(BlockStats(b),
                         IF fsckBlk[b].bytes = 0 THEN NoStats
                         ELSE TreeStats(fsckBlk[b].kids)),
                TreeStats(Tail(kids)))

\* The counters printed for an intact zone are those of a walk of its whole
\* tree: what comes out of the cache stands for exactly the subtree it
\* replaces (again with a cache count other than 1).
CountersExact ==
  ~fsckOpts.pfs /\ fsckOpts.cache # 1 =>
    \A k \in DOMAIN fsckRes :
      fsckRes[k].ok /\ k[1] \in {"freemap", "volume"} =>
        LET tree == TreeStats(IF k[1] = "freemap" THEN fsckHdrs[k[2]].freemap
                              ELSE fsckHdrs[k[2]].volume)
        IN \A t \in Types \cup {"bytes"} : fsckRes[k].total[t] = tree[t]

\* Every direct child of a damaged block is verified.
ChildrenVerified ==
  \A k \in DOMAIN fsckRes : k[1] \in {"freemap", "volume"} =>
    \A b \in fsckRes[k].looked :
      fsckBlk[b].read /\ ~GoodBlock(b) =>
        \A i \in DOMAIN fsckBlk[b].kids :
          \E j \in DOMAIN fsckRes : fsckBlk[b].kids[i] \in fsckRes[j].looked

\* fsck_hammer2 reports what a walk of the whole of every tree would: its
\* verdict always, the verdict and the counters of each zone with a cache
\* count other than 1.
FsckExact == FsckVerdict /\ ZoneVerdict /\ CountersExact
=============================================================================
