---------------------------- MODULE HammerStore ----------------------------
(***************************************************************************)
(* What the buffer layer of the HAMMER tools promises its callers: a       *)
(* volume is an array of buffers that hold what was last written to them.  *)
(***************************************************************************)
EXTENDS Integers

CONSTANTS Bufs, Vals    \* buffer numbers; contents, 0 for a zeroed buffer

VARIABLE mem

StoreInit == mem \in [Bufs -> Vals]

Write == \E b \in Bufs, v \in Vals : mem' = [mem EXCEPT ![b] = v]

StoreSpec == StoreInit /\ [][Write]_mem
=============================================================================
