---------------------------- MODULE HammerCache ----------------------------
(***************************************************************************)
(* The buffers of one volume and the cache that bounds how many of them    *)
(* stay in memory (ondisk.c and cache.c of hammer, which newfs_hammer also *)
(* uses).  A caller keeps referenced buffers in pointers, the slots, and   *)
(* writes through them; cache.modified is set by the caller itself, often  *)
(* only after it has asked for other buffers.                              *)
(***************************************************************************)
EXTENDS Integers, Sequences, FiniteSets, SequencesExt

CONSTANTS NBufs,       \* buffers of the volume
          MaxVal,      \* contents are 0..MaxVal
          Slots,       \* the caller's buffer pointers
          CacheMax,    \* buffers the cache may hold
          ReadAhead    \* UseReadAhead; UseReadBehind is its negative

ASSUME CacheAssumption ==
    NBufs \in Nat \ {0} /\ MaxVal \in Nat /\ CacheMax \in Nat /\ ReadAhead \in Nat

Buffers == 0..NBufs - 1
Contents == 0..MaxVal
None == NBufs        \* a NULL pointer

VARIABLES cache,     \* CacheList, from its head
          data, refs, modified,    \* of the buffers in it
          disk,
          slot,      \* the caller's pointers
          unmarked,  \* buffers the caller changed and has yet to mark
          written,   \* history: buffers this process has changed
          rdonly,    \* the volume was opened O_RDONLY
          cpc
cacheVars == <<cache, data, refs, modified, disk, slot, unmarked, written, rdonly,
               cpc>>

State == [cache |-> cache, data |-> data, refs |-> refs, modified |-> modified,
          disk |-> disk]
Becomes(c) ==
    /\ cache' = c.cache /\ data' = c.data /\ refs' = c.refs
    /\ modified' = c.modified /\ disk' = c.disk

CacheInit(d, ro) ==
    /\ cache = <<>> /\ data = [b \in Buffers |-> 0] /\ refs = [b \in Buffers |-> 0]
    /\ modified = {} /\ disk = d /\ slot = [s \in Slots |-> None]
    /\ unmarked = {} /\ written = {} /\ rdonly = ro /\ cpc = "run"

InCache(c, b) == \E i \in DOMAIN c.cache : c.cache[i] = b
Used(c, b) == [c EXCEPT !.cache = Append(Remove(@, b), b)]

\* Mutant: a modified buffer is dropped without being written.
WriteBufferDropped(c, b) == c.disk

\* A volume opened read-only is never written, and no error is reported.
WriteBuffer(c, b) == IF rdonly THEN c.disk ELSE [c.disk EXCEPT ![b] = c.data[b]]

Evict(c, b) ==
    [c EXCEPT !.cache = Remove(@, b), !.modified = @ \ {b},
              !.disk = IF b \in c.modified THEN WriteBuffer(c, b) ELSE @]

IsFree(c, b) == c.refs[b] = 0

RECURSIVE EvictAll(_, _)
EvictAll(c, bs) == IF bs = <<>> THEN c ELSE EvictAll(Evict(c, Head(bs)), Tail(bs))

\* Unreferenced buffers leave from the head until less than half of CacheMax
\* is in use.  Referenced ones met on the way move to the tail; when one of
\* them comes up again the whole list has been seen.
CacheFlush(c) ==
    LET free == SelectSeq(c.cache, LAMBDA b : IsFree(c, b))
        excess == Len(c.cache) - (CacheMax - 1) \div 2
        k == IF excess > Len(free) THEN Len(free) ELSE excess
        half == (Len(c.cache) - k) * 2 < CacheMax
        last == IF half THEN CHOOSE p \in DOMAIN c.cache : c.cache[p] = free[k]
                ELSE Len(c.cache)
        out == EvictAll(c, SubSeq(free, 1, k)) IN
    IF Len(c.cache) < CacheMax THEN c
    ELSE [out EXCEPT !.cache =
             SubSeq(c.cache, last + 1, Len(c.cache)) \o
             SelectSeq(SubSeq(c.cache, 1, last), LAMBDA b : InCache(out, b))]

\* get_buffer, without readahead.  isnew is -1 for a buffer read ahead.
GetBuffer(c, b, isnew) ==
    LET found == InCache(c, b)
        d == IF found THEN Used(c, b)
             ELSE [c EXCEPT !.cache = <<b>> \o @,
                            !.data[b] = IF isnew <= 0 THEN c.disk[b] ELSE 0]
        e == CacheFlush([d EXCEPT !.refs[b] = @ + 1]) IN
    IF isnew > 0 THEN [e EXCEPT !.data[b] = 0, !.modified = @ \cup {b}] ELSE e

Release(c, b) == [c EXCEPT !.refs[b] = @ - 1]

\* The neighbours of a buffer just read, except those in memory already.
RECURSIVE ReadNear(_, _, _)
ReadNear(c, b, ri) ==
    IF ri >= ReadAhead \/ b + ri >= NBufs THEN c
    ELSE ReadNear(IF b + ri < 0 \/ ri = 0 \/ InCache(c, b + ri) THEN c
                  ELSE Release(GetBuffer(c, b + ri, -1), b + ri), b, ri + 1)

GetBufferData(s, b, isnew) ==
    LET again == slot[s] = b /\ isnew = 0
        c == IF slot[s] = None \/ again THEN State ELSE Release(State, slot[s])
        got == GetBuffer(c, b, isnew) IN
    /\ cpc = "run" /\ slot[s] \notin unmarked
    /\ isnew = 1 => b \notin written /\ ~rdonly
    /\ IF again THEN Becomes(Used(State, b))
       ELSE Becomes(IF isnew = 0 /\ ~InCache(c, b) THEN ReadNear(got, b, -ReadAhead)
                    ELSE got)
    /\ cpc' = IF isnew = 1 /\ InCache(c, b) /\ b \in c.modified THEN "assert" ELSE cpc
    /\ slot' = [slot EXCEPT ![s] = b]
    /\ written' = IF isnew = 1 THEN written \cup {b} ELSE written
    /\ UNCHANGED <<unmarked, rdonly>>

\* The caller stores through the pointer; cache.modified comes later.
Store(s, v) ==
    /\ cpc = "run" /\ slot[s] # None /\ ~rdonly
    /\ data' = [data EXCEPT ![slot[s]] = v]
    /\ unmarked' = unmarked \cup {slot[s]} /\ written' = written \cup {slot[s]}
    /\ UNCHANGED <<cache, refs, modified, disk, slot, rdonly, cpc>>

Mark(s) ==
    /\ cpc = "run" /\ slot[s] \in unmarked
    /\ modified' = modified \cup {slot[s]} /\ unmarked' = unmarked \ {slot[s]}
    /\ UNCHANGED <<cache, data, refs, disk, slot, written, rdonly, cpc>>

RelBuffer(s) ==
    /\ cpc = "run" /\ slot[s] # None /\ slot[s] \notin unmarked
    /\ Becomes(Release(State, slot[s]))
    /\ slot' = [slot EXCEPT ![s] = None]
    /\ UNCHANGED <<unmarked, written, rdonly, cpc>>

\* flush_all_volumes writes every buffer, modified or not, before the exit.
FlushAll ==
    /\ cpc = "run" /\ unmarked = {} /\ \A s \in Slots : slot[s] = None
    /\ disk' = IF rdonly THEN disk
               ELSE [b \in Buffers |-> IF InCache(State, b) THEN data[b] ELSE disk[b]]
    /\ modified' = {} /\ cpc' = "exit"
    /\ UNCHANGED <<cache, data, refs, slot, unmarked, written, rdonly>>

CacheNext ==
    \/ \E s \in Slots, b \in Buffers, isnew \in {0, 1} : GetBufferData(s, b, isnew)
    \/ \E s \in Slots, v \in Contents : Store(s, v)
    \/ \E s \in Slots : Mark(s) \/ RelBuffer(s)
    \/ FlushAll

-----------------------------------------------------------------------------
\* What the tools read: the buffer in memory if there is one, else the disk.
Image == [b \in Buffers |-> IF InCache(State, b) THEN data[b] ELSE disk[b]]

Store1 == INSTANCE HammerStore WITH Bufs <- Buffers, Vals <- Contents, mem <- Image

\* Whatever is evicted, read ahead or zeroed on the way, and although modified
\* is set late, the volume looks like an array that holds what was last
\* written (get_buffer, rel_buffer, hammer_cache_flush).
IsStore == Store1!StoreSpec

\* A pointer the caller holds is to a buffer in memory, which is there once;
\* and a buffer about to be zeroed is never a modified one (the assertions of
\* get_buffer and rel_buffer).
HeldInMemory ==
    /\ cpc # "assert"
    /\ \A s \in Slots : slot[s] # None => InCache(State, slot[s])
    /\ \A b \in Buffers : refs[b] = Cardinality({s \in Slots : slot[s] = b})
    /\ IsInjective(cache)

\* After the last flush the volume holds everything that was written.
FlushedAtExit == cpc = "exit" => disk = Image

\* get_buffer, rel_buffer and hammer_cache_flush make the volume look like an
\* array that holds what was last written, no buffer goes while a caller has
\* it, and after the last flush all of it is on the volume.
CacheIsStore == IsStore /\ [](HeldInMemory /\ FlushedAtExit)
=============================================================================
