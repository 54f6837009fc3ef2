------------------------------ MODULE MCMirror ------------------------------
(***************************************************************************)
(* Instances of Mirror for TLC.  A behaviour is one of the program with    *)
(* the options of the configuration file (mode "given"), or of the program *)
(* with the options of one of the instances below.                         *)
(***************************************************************************)
EXTENDS MirrorInv

VARIABLE mode

\* mirror-copy -B -t -c -y: one transfer, not sliced, under a timer.
Bulk == INSTANCE Mirror WITH
    TwoWayPipeOpt <- TRUE, Streaming <- 0, BulkOpt <- TRUE, TimeoutOpt <- TRUE,
    CycleOpt <- TRUE, ForceYesOpt <- TRUE, MaxTid <- 4

\* mirror-stream -B -y: transfers for ever.
Stream == INSTANCE Mirror WITH
    TwoWayPipeOpt <- TRUE, Streaming <- 1, BulkOpt <- TRUE, TimeoutOpt <- FALSE,
    CycleOpt <- FALSE, ForceYesOpt <- TRUE, MaxTid <- 3

modeVars == <<vars, mode>>

ModeInit == \/ mode = "given" /\ Init
            \/ mode = "bulk" /\ Bulk!Init
ModeNext == /\ \/ mode = "given" /\ Next
               \/ mode = "bulk" /\ Bulk!Next
            /\ UNCHANGED mode
ModeSpec == ModeInit /\ [][ModeNext]_modeVars

\* SuccessWithinOne for mirror-copy -B: a transfer that was not interrupted and
\* reports success has brought the target to the end of its range, but for a
\* last lone TID.
BulkSuccess == mode = "bulk" => Bulk!SuccessWithinOne

StreamInit == \/ mode = "given" /\ Init
              \/ mode = "stream" /\ Stream!Init
StreamNext == /\ \/ mode = "given" /\ Next
                 \/ mode = "stream" /\ Stream!Next
              /\ UNCHANGED mode

\* Mirror's Fairness for the behaviours of mirror-stream.
InStream(A) == mode = "stream" /\ A /\ UNCHANGED mode
StreamSpec == /\ StreamInit /\ [][StreamNext]_modeVars
              /\ WF_modeVars(InStream(Stream!Reader))
              /\ WF_modeVars(InStream(Stream!Writer))
              /\ WF_modeVars(InStream(Stream!Restart))

\* CatchesUp for mirror-stream: once the source is quiet and processes stop
\* dying, the target catches up to the last TID but one, for good.
StreamCatchesUp == mode = "stream" => CatchesUp
=============================================================================
