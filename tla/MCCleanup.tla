------------------------------ MODULE MCCleanup ------------------------------
EXTENDS Cleanup, TLC
CONSTANTS j1, j2, u1
JobSymmetry == Permutations(Jobs)
\* Snapshots and prunes in every time unit, kept for good.
SnapPrune == <<[cmd |-> "snapshots", period |-> 1, arg2 |-> 5],
               [cmd |-> "prune", period |-> 1, arg2 |-> 0]>>
\* Snapshots are kept for one unit; everything is due every other unit.
Retain1 == <<[cmd |-> "snapshots", period |-> 2, arg2 |-> 1],
             [cmd |-> "prune", period |-> 2, arg2 |-> 0]>>
\* A directive that prunes, and one that takes no snapshot and does not prune.
PruneReblock == <<[cmd |-> "prune", period |-> 2, arg2 |-> 0],
                  [cmd |-> "reblock", period |-> 2, arg2 |-> 0]>>
\* Users make the snapshots; cleanup expires them and prunes.
NoSnaps == <<[cmd |-> "snapshots", period |-> 0, arg2 |-> 2],
             [cmd |-> "prune", period |-> 1, arg2 |-> 0]>>
Manual == <<[cmd |-> "snapshots", period |-> 0, arg2 |-> 1],
            [cmd |-> "prune", period |-> 2, arg2 |-> 0]>>
Dated == {[name |-> 1, tid |-> 2, ct |-> 1]}
Undated == {[name |-> 0, tid |-> 2, ct |-> 1]}
None == {}

=============================================================================
