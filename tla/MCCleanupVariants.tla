-------------------------- MODULE MCCleanupVariants --------------------------
(***************************************************************************)
(* Cleanup with one of several configurations, the Variants: a behaviour   *)
(* is one of the jobs with the configuration of the .cfg file ("given"),   *)
(* or with that of one of the instances below ("periods", "reblocks").     *)
(***************************************************************************)
EXTENDS MCCleanup

CONSTANT Variants

VARIABLE variant
variantVars == <<allvars, variant>>

Periods == INSTANCE Cleanup WITH
    Cmds <- Jobs, Config <- Retain1, Old <- None, Ops <- {}, MaxTid <- 3, MaxNow <- 3
Reblocks == INSTANCE Cleanup WITH
    Cmds <- Jobs, Config <- PruneReblock, Old <- None, Ops <- {}, MaxTid <- 2, MaxNow <- 3

VariantInit == /\ variant \in Variants
               /\ \/ variant = "given" /\ CleanupInit
                  \/ variant = "periods" /\ Periods!CleanupInit
                  \/ variant = "reblocks" /\ Reblocks!CleanupInit
VariantNext == /\ \/ variant = "given" /\ CleanupNext
                  \/ variant = "periods" /\ Periods!CleanupNext
                  \/ variant = "reblocks" /\ Reblocks!CleanupNext
               /\ UNCHANGED variant
VariantSpec == VariantInit /\ [][VariantNext]_variantVars

\* A snapshot run of a cleanup job that ended with an error is tried again
\* (SnapshotRetried with the directives of Retain1).
RetriedAfterError == variant = "periods" => Periods!SnapshotRetried

\* A directive's period passes between two runs that are saved, however many
\* jobs there are (OncePerPeriod with the directives of Retain1 and of
\* PruneReblock).
PeriodPasses ==
    [][/\ variant = "periods" => Periods!PeriodKept
       /\ variant = "reblocks" => Reblocks!PeriodKept]_variantVars

\* MigratedIntact where there is an old directory: its dated snapshots keep
\* their data, whenever the jobs that migrate it stop.
MigrationIntact == variant = "given" => MigratedIntact

\* OldLinksKept where there is an old directory: the migration loses no
\* softlink of it.
MigrationKeepsLinks == variant = "given" => OldLinksKept

\* A migration of the snapshots directory by two jobs at once, with a user's
\* snapshots in between, loses neither the data of a dated snapshot nor a
\* softlink.
MigrationSafe == MigrationIntact /\ MigrationKeepsLinks
=============================================================================
