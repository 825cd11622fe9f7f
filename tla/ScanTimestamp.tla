--------------------------- MODULE ScanTimestamp ---------------------------
(***************************************************************************)
(* The scan timestamp LidarPacketHandler estimates (compute_scan_ts_0 and   *)
(* compute_scan_ts_n in src/lidar_packet_handler.h): the time at which      *)
(* column 0 of a scan was taken, from the columns that did arrive.  A       *)
(* column that did not arrive has timestamp 0.  One step per completed      *)
(* scan: all of this runs on the packet thread, under the slot's mutex.     *)
(*                                                                          *)
(* Doubles are abstracted to exact rationals, truncated where the code      *)
(* converts them to uint64_t.                                               *)
(***************************************************************************)
EXTENDS Integers, FiniteSetsExt

CONSTANTS
    Width,       \* scan_width: columns of a scan
    Spacing,     \* scan_col_ts_spacing_ns: time between two columns
    Offset,      \* ptp_utc_tai_offset_ in TIME_FROM_PTP_1588 mode, 0 otherwise
    Clocks,      \* what the sensor clock read when frame 1 began
    LoseFrames,  \* whether all packets of a frame can be lost
    MaxFrames    \* bound: frames

ASSUME TimestampAssumption ==
    /\ Width \in Nat \ {0} /\ Spacing \in Nat \ {0}
    /\ Offset \in Int
    /\ Clocks \subseteq Nat \ {0}
    /\ LoseFrames \in BOOLEAN
    /\ MaxFrames \in Nat

VARIABLES
    compute_scan_ts,               \* "0" for the first scan, then "n"
    last_scan_last_nonzero_idx,
    last_scan_last_nonzero_value,
    lidar_scan_estimated_ts,
    clock,                         \* the current epoch of the sensor's clock
    scan,      \* history: [frame, epoch, first, before, follows] of the last scan
    outcome    \* "ok", or "assert" once an assertion has failed

vars == <<compute_scan_ts, last_scan_last_nonzero_idx, last_scan_last_nonzero_value,
          lidar_scan_estimated_ts, clock, scan, outcome>>

Columns == 0 .. Width - 1

TypeOK ==
    /\ compute_scan_ts \in {"0", "n"}
    /\ last_scan_last_nonzero_idx \in Columns \cup {-1}
    /\ last_scan_last_nonzero_value \in Nat
    /\ lidar_scan_estimated_ts \in Nat
    /\ clock \in Clocks
    /\ scan \in [frame : 0 .. MaxFrames, epoch : Clocks, first : Nat, before : Nat,
                 follows : {"frame", "gap", "step"}]
    /\ outcome \in {"ok", "assert"}

Init ==
    /\ compute_scan_ts = "0"
    /\ last_scan_last_nonzero_idx = -1
    /\ last_scan_last_nonzero_value = 0
    /\ lidar_scan_estimated_ts = 0
    /\ clock \in Clocks
    /\ scan = [frame |-> 0, epoch |-> clock, first |-> 0, before |-> 0,
               follows |-> "frame"]
    /\ outcome = "ok"

-----------------------------------------------------------------------------
(* ts_safe_offset_add(): a timestamp smaller than a negative offset is 0.   *)
SafeOffsetAdd(ts, offset) == IF offset < 0 /\ ts < -offset THEN 0 ELSE ts + offset

(* When the sensor takes column c of frame f (external).                    *)
Taken(epoch, f, c) == epoch + ((f - 1) * Width + c) * Spacing

(* The timestamp header of a scan of which the columns R arrived; the       *)
(* offset is added to every column, those that did not arrive included.     *)
Timestamps(f, R) ==
    [c \in Columns |-> SafeOffsetAdd(IF c \in R THEN Taken(clock, f, c) ELSE 0, Offset)]

(* A rounding that does not stop at 0.                                      *)
MutRoundNegative(value) == value

(* ulround(): a negative value becomes 0.                                   *)
ULRound(value) == IF value < 0 THEN 0 ELSE value

(* linear_interpolate() between (x0, y0) and (x1, y1), in either direction. *)
LinearInterpolate(x0, y0, x1, y1, x) ==
    (y0 * (x1 - x0) + (x - x0) * (y1 - y0)) \div (x1 - x0)

(* Interpolating to column 0 of the previous scan.                          *)
MutImputeValue(idx, value) ==
    ULRound(LinearInterpolate(
        last_scan_last_nonzero_idx, last_scan_last_nonzero_value,
        Width + idx, value, 0))

(* impute_value(): column `idx` of this scan is column Width + idx counted  *)
(* from the previous scan, whichever frame that was.                        *)
ImputeValue(idx, value) ==
    ULRound(LinearInterpolate(
        last_scan_last_nonzero_idx, last_scan_last_nonzero_value,
        Width + idx, value, Width))

ExtrapolateValue(idx, value) == ULRound(value - Spacing * idx)

ScanTs(idx, value) ==
    IF idx = 0 THEN value
    ELSE IF compute_scan_ts = "0" THEN ExtrapolateValue(idx, value)
    ELSE ImputeValue(idx, value)

-----------------------------------------------------------------------------
(* How a scan relates to the one before it: was the clock set in between,   *)
(* or was a frame lost?                                                     *)
Follows(f) ==
    IF compute_scan_ts = "0" THEN "frame"
    ELSE IF scan.epoch # clock THEN "step"
    ELSE IF f = scan.frame + 1 THEN "frame" ELSE "gap"

Frames ==
    {f \in scan.frame + 1 .. MaxFrames : LoseFrames \/ f = scan.frame + 1}

(* find_if_reverse(): the last column with a timestamp.                     *)
LastNonzero(nonzero) == Max(nonzero)

(* A scan of frame f completes; the assertions on its columns come first.   *)
CompleteScan ==
    /\ outcome = "ok"
    /\ \E f \in Frames, R \in SUBSET Columns \ {{}} :
         LET ts == Timestamps(f, R)
             nonzero == {c \in Columns : ts[c] # 0}
         IN  \/ /\ nonzero = {}
                /\ outcome' = "assert"
                /\ UNCHANGED <<compute_scan_ts, last_scan_last_nonzero_idx,
                               last_scan_last_nonzero_value,
                               lidar_scan_estimated_ts, scan>>
             \/ /\ nonzero # {}
                /\ lidar_scan_estimated_ts' = ScanTs(Min(nonzero), ts[Min(nonzero)])
                /\ last_scan_last_nonzero_idx' = LastNonzero(nonzero)
                /\ last_scan_last_nonzero_value' = ts[LastNonzero(nonzero)]
                /\ compute_scan_ts' = "n"
                /\ scan' = [frame |-> f, epoch |-> clock, first |-> ts[Min(nonzero)],
                            before |-> last_scan_last_nonzero_value,
                            follows |-> Follows(f)]
                /\ UNCHANGED outcome
    /\ UNCHANGED clock

(* The sensor's clock is set (external): it locks onto PTP, or loses it.    *)
ClockStep ==
    /\ outcome = "ok" /\ scan.frame < MaxFrames
    /\ \E c \in Clocks \ {clock} : clock' = c
    /\ UNCHANGED <<compute_scan_ts, last_scan_last_nonzero_idx,
                   last_scan_last_nonzero_value, lidar_scan_estimated_ts, scan, outcome>>

Next == CompleteScan \/ ClockStep

Spec == Init /\ [][Next]_vars

-----------------------------------------------------------------------------
(* What the estimator remembers of the last scan: one of its columns, which *)
(* lies on the line of the sensor's clock, unless an offset above 0 lets a  *)
(* column that did not arrive pass for one that did.                        *)
Remembers ==
    IF compute_scan_ts = "0"
    THEN last_scan_last_nonzero_value = 0 /\ scan.frame = 0 /\ scan.before = 0
    ELSE last_scan_last_nonzero_idx \in Columns /\ scan.frame > 0

OnTheLine ==
    compute_scan_ts = "n" =>
        /\ last_scan_last_nonzero_value > 0
        /\ last_scan_last_nonzero_value
             = Taken(scan.epoch, scan.frame, last_scan_last_nonzero_idx) + Offset

(* Column 0 of the last scan, had it arrived.                               *)
FrameStart == SafeOffsetAdd(Taken(scan.epoch, scan.frame, 0), Offset)

(* When the scan follows the previous one, its timestamp is exactly the     *)
(* time of its first column, whichever columns of either scan were lost     *)
(* and whatever the clock did before the previous one.                      *)
ExactWhenConsecutive ==
    scan.frame > 0 /\ scan.follows = "frame" => lidar_scan_estimated_ts = FrameStart

(* Whatever is lost, and however the clock is set, the timestamp of a scan  *)
(* after the first lies between the last column seen before it and its own  *)
(* first column.                                                            *)
BetweenNeighbours ==
    scan.before > 0 =>
        /\ Min({scan.before, scan.first}) =< lidar_scan_estimated_ts
        /\ lidar_scan_estimated_ts =< Max({scan.before, scan.first})
=============================================================================
