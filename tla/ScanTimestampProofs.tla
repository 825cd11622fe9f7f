------------------------ MODULE ScanTimestampProofs ------------------------
(***************************************************************************)
(* The estimated scan timestamp, for every width of a scan, every spacing   *)
(* of its columns, every offset, every epoch of the sensor's clock and      *)
(* every loss of columns and of frames.                                     *)
(***************************************************************************)
EXTENDS ScanTimestamp, WellFoundedInduction, TLAPS

(* The first and the last of some columns.                                  *)
LEMMA FirstColumn ==
    ASSUME NEW S \in SUBSET Nat, S # {}
    PROVE  Min(S) \in S /\ \A y \in S : Min(S) <= y
<1> DEFINE R == OpToRel(<, Nat)
<1>1. IsWellFoundedOn(R, Nat)
  BY NatLessThanWellFounded
<1>2. \A a, b \in Nat : a < b => <<a, b>> \in R
  BY DEF OpToRel
<1> HIDE DEF R
<1>3. PICK x \in S : \A y \in S : ~ (<<y, x>> \in R)
  BY <1>1, WFMin
<1>4. \A y \in S : ~ (y < x)
  BY <1>2, <1>3, Zenon
<1>5. \A y \in S : x <= y
  BY <1>4
<1> QED BY <1>5 DEF Min

LEMMA LastColumn ==
    ASSUME NEW w \in Nat, NEW S \in SUBSET (0 .. w - 1), S # {}
    PROVE  Max(S) \in S /\ \A y \in S : Max(S) >= y
<1> DEFINE T == {w - y : y \in S}
<1>1. \A y \in S : y \in 0 .. w - 1 /\ w - y \in Nat
  OBVIOUS
<1>2. T \in SUBSET Nat /\ T # {}
  BY <1>1
<1>3. Min(T) \in T /\ \A t \in T : Min(T) <= t
  BY <1>2, FirstColumn
<1>4. PICK x \in S : Min(T) = w - x
  BY <1>3
<1>5. \A y \in S : w - x <= w - y
  BY <1>3, <1>4
<1>6. \A y \in S : x >= y
  BY <1>1, <1>5
<1> QED BY <1>6 DEF Max

-----------------------------------------------------------------------------
(* Division by a positive number respects the order.                        *)
LEMMA Quotient ==
    ASSUME NEW n \in Int, NEW d \in Nat \ {0}
    PROVE  /\ n \div d \in Int
           /\ \A m \in Int : m * d <= n => m <= n \div d
           /\ \A m \in Int : n <= m * d => n \div d <= m
<1> DEFINE q == n \div d
           r == n % d
<1>1. q \in Int /\ r \in 0 .. d - 1 /\ n = d * q + r
  OBVIOUS
<1> HIDE DEF q, r
<1>2. ASSUME NEW m \in Int, m * d <= n PROVE m <= q
  <2>1. SUFFICES ASSUME q + 1 <= m PROVE FALSE
    BY <1>1
  <2>2. (q + 1) * d <= m * d
    BY <1>1, <2>1
  <2> QED BY <1>1, <1>2, <2>2
<1>3. ASSUME NEW m \in Int, n <= m * d PROVE q <= m
  <2>1. SUFFICES ASSUME m + 1 <= q PROVE FALSE
    BY <1>1
  <2>2. (m + 1) * d <= q * d
    BY <1>1, <2>1
  <2> QED BY <1>1, <1>3, <2>2
<1> QED BY <1>1, <1>2, <1>3 DEF q

(* Between two points the interpolation stays between their values ...      *)
LEMMA InterpolateBetween ==
    ASSUME NEW x0 \in Int, NEW x1 \in Int, NEW x \in Int, x0 < x1, x0 <= x, x <= x1,
           NEW y0 \in Int, NEW y1 \in Int
    PROVE  /\ LinearInterpolate(x0, y0, x1, y1, x) \in Int
           /\ \A lo \in Int : lo <= y0 /\ lo <= y1
                => lo <= LinearInterpolate(x0, y0, x1, y1, x)
           /\ \A hi \in Int : y0 <= hi /\ y1 <= hi
                => LinearInterpolate(x0, y0, x1, y1, x) <= hi
<1> DEFINE d == x1 - x0
           a == x1 - x
           b == x - x0
           n == y0 * d + b * (y1 - y0)
<1>1. /\ d \in Nat \ {0} /\ a \in Nat /\ b \in Nat /\ d = a + b
      /\ n \in Int
  OBVIOUS
<1>2. LinearInterpolate(x0, y0, x1, y1, x) = n \div d
  BY DEF LinearInterpolate
<1>3. n = y0 * a + y1 * b
  OBVIOUS
<1> HIDE DEF d, a, b, n
<1>4. ASSUME NEW lo \in Int, lo <= y0, lo <= y1 PROVE lo * d <= n
  <2>1. lo * a <= y0 * a /\ lo * b <= y1 * b
    BY <1>1, <1>4
  <2>2. lo * d = lo * a + lo * b
    BY <1>1
  <2> QED BY <1>1, <1>3, <2>1, <2>2
<1>5. ASSUME NEW hi \in Int, y0 <= hi, y1 <= hi PROVE n <= hi * d
  <2>1. y0 * a <= hi * a /\ y1 * b <= hi * b
    BY <1>1, <1>5
  <2>2. hi * d = hi * a + hi * b
    BY <1>1
  <2> QED BY <1>1, <1>3, <2>1, <2>2
<1>6. /\ n \div d \in Int
      /\ \A m \in Int : m * d <= n => m <= n \div d
      /\ \A m \in Int : n <= m * d => n \div d <= m
  BY <1>1, Quotient
<1>7. \A lo \in Int : lo <= y0 /\ lo <= y1 => lo <= n \div d
  BY <1>4, <1>6, Zenon
<1>8. \A hi \in Int : y0 <= hi /\ y1 <= hi => n \div d <= hi
  BY <1>5, <1>6, Zenon
<1> QED BY <1>2, <1>6, <1>7, <1>8, Zenon

(* ... and it returns the line that the two points lie on.                  *)
LEMMA InterpolateLine ==
    ASSUME NEW x0 \in Int, NEW x1 \in Int, x0 < x1, NEW y0 \in Int, NEW y1 \in Int,
           y1 = y0 + Spacing * (x1 - x0)
    PROVE  LinearInterpolate(x0, y0, x1, y1, Width) = y0 + Spacing * (Width - x0)
<1> DEFINE d == x1 - x0
           b == Width - x0
           k == y0 + Spacing * b
           n == y0 * d + b * (y1 - y0)
<1>1. d \in Nat \ {0} /\ b \in Int /\ k \in Int /\ n \in Int
  BY TimestampAssumption
<1>2. LinearInterpolate(x0, y0, x1, y1, Width) = n \div d
  BY DEF LinearInterpolate
<1>3. n = k * d
  BY TimestampAssumption
<1> HIDE DEF d, k, n
<1>4. n \div d <= k /\ k <= n \div d /\ n \div d \in Int
  BY <1>1, <1>3, Quotient
<1>5. n \div d = k
  BY <1>1, <1>4
<1> QED BY <1>2, <1>5 DEF k

-----------------------------------------------------------------------------
Known == TypeOK /\ Remembers

LEMMA KnownInit == Init => Known
  BY TimestampAssumption DEF Init, Known, TypeOK, Remembers

(* The columns of one epoch lie on a line.                                  *)
LEMMA TakenLine ==
    ASSUME NEW e \in Nat, NEW f \in Nat \ {0}, NEW c \in Columns
    PROVE  /\ Taken(e, f, c) \in Nat /\ Taken(e, f, 0) \in Nat
           /\ Taken(e, f, c) = Taken(e, f, 0) + Spacing * c
<1>1. /\ Width \in Nat /\ Spacing \in Nat /\ f - 1 \in Nat /\ c \in Nat
  BY TimestampAssumption DEF Columns
<1>2. (f - 1) * Width \in Nat
  BY <1>1
<1>3. ((f - 1) * Width + c) * Spacing \in Nat /\ ((f - 1) * Width + 0) * Spacing \in Nat
  BY <1>1, <1>2
<1>4. ((f - 1) * Width + c) * Spacing = ((f - 1) * Width + 0) * Spacing + Spacing * c
  BY <1>1, <1>2
<1> QED BY <1>1, <1>3, <1>4 DEF Taken

LEMMA NextFrameLine ==
    ASSUME NEW e \in Nat, NEW f \in Nat \ {0}, NEW g, g = f + 1,
           NEW b \in Columns, NEW c \in Columns
    PROVE  Taken(e, g, c) = Taken(e, f, b) + Spacing * ((Width + c) - b)
<1>1. /\ Width \in Nat /\ Spacing \in Nat /\ f - 1 \in Nat /\ c \in Nat /\ b \in Nat
      /\ g - 1 = (f - 1) + 1
  BY TimestampAssumption DEF Columns
<1>2. (((f - 1) + 1) * Width + c) * Spacing
        = ((f - 1) * Width + b) * Spacing + Spacing * ((Width + c) - b)
  BY <1>1
<1> QED BY <1>1, <1>2 DEF Taken

(* A header entry is a number; with no offset above 0, one that is not 0 is *)
(* the time of a column that arrived.                                       *)
LEMMA HeaderEntry ==
    ASSUME Known, NEW f \in Nat \ {0}, NEW R, NEW c \in Columns
    PROVE  /\ Timestamps(f, R)[c] \in Nat
           /\ Offset <= 0 /\ Timestamps(f, R)[c] # 0
                => Timestamps(f, R)[c] = Taken(clock, f, c) + Offset
<1>1. clock \in Nat /\ Offset \in Int
  BY TimestampAssumption DEF Known, TypeOK
<1>2. Taken(clock, f, c) \in Nat
  BY <1>1, TakenLine
<1>3. Timestamps(f, R)[c] = SafeOffsetAdd(IF c \in R THEN Taken(clock, f, c) ELSE 0, Offset)
  BY DEF Timestamps
<1> QED BY <1>1, <1>2, <1>3 DEF SafeOffsetAdd

(* What is used of a header: its first and last entry that are not 0.       *)
LEMMA HeaderEnds ==
    ASSUME Known, NEW f \in Nat \ {0}, NEW R,
           {c \in Columns : Timestamps(f, R)[c] # 0} # {}
    PROVE  LET ts == Timestamps(f, R)
               nonzero == {c \in Columns : ts[c] # 0}
           IN  /\ Min(nonzero) \in Columns /\ LastNonzero(nonzero) \in Columns
               /\ ts[Min(nonzero)] \in Nat \ {0}
               /\ ts[LastNonzero(nonzero)] \in Nat \ {0}
<1> DEFINE nonzero == {c \in Columns : Timestamps(f, R)[c] # 0}
<1>1. Width \in Nat /\ nonzero \in SUBSET (0 .. Width - 1) /\ nonzero # {}
  BY TimestampAssumption DEF Columns
<1>2. nonzero \in SUBSET Nat
  BY <1>1
<1> HIDE DEF nonzero
<1>3. Min(nonzero) \in nonzero /\ LastNonzero(nonzero) \in nonzero
  BY <1>1, <1>2, FirstColumn, LastColumn DEF LastNonzero
<1> QED BY <1>3, HeaderEntry DEF nonzero

(* The estimate is a number, and once there is a column before it lies      *)
(* between that column and the first of the scan.                           *)
LEMMA EstimateBetween ==
    ASSUME Known, NEW idx \in Columns, NEW value \in Nat
    PROVE  /\ ScanTs(idx, value) \in Nat
           /\ compute_scan_ts = "n" =>
                \/ /\ last_scan_last_nonzero_value <= ScanTs(idx, value)
                   /\ ScanTs(idx, value) <= value
                \/ /\ value <= ScanTs(idx, value)
                   /\ ScanTs(idx, value) <= last_scan_last_nonzero_value
<1>1. Width \in Nat \ {0} /\ Spacing \in Nat /\ idx \in 0 .. Width - 1
  BY TimestampAssumption DEF Columns
<1>2. last_scan_last_nonzero_value \in Nat
  BY DEF Known, TypeOK
<1>3. CASE idx = 0
  BY <1>2, <1>3 DEF ScanTs
<1>4. CASE idx # 0 /\ compute_scan_ts = "0"
  <2>1. Spacing * idx \in Int
    BY <1>1
  <2>2. value - Spacing * idx \in Int
    BY <2>1
  <2> QED BY <1>4, <2>2 DEF ScanTs, ExtrapolateValue, ULRound
<1>5. CASE idx # 0 /\ compute_scan_ts # "0"
  <2> DEFINE x0 == last_scan_last_nonzero_idx
             y0 == last_scan_last_nonzero_value
             e  == LinearInterpolate(x0, y0, Width + idx, value, Width)
  <2>1. x0 \in 0 .. Width - 1
    BY <1>5 DEF Known, Remembers, Columns
  <2>2. /\ x0 \in Int /\ Width + idx \in Int /\ x0 < Width + idx
        /\ x0 <= Width /\ Width <= Width + idx
        /\ Width \in Int /\ y0 \in Int /\ value \in Int
    BY <1>1, <1>2, <2>1
  <2>3. /\ e \in Int
        /\ \A lo \in Int : lo <= y0 /\ lo <= value => lo <= e
        /\ \A hi \in Int : y0 <= hi /\ value <= hi => e <= hi
    BY <2>2, InterpolateBetween, Zenon
  <2>4. ScanTs(idx, value) = ULRound(e)
    BY <1>5 DEF ScanTs, ImputeValue
  <2> HIDE DEF e, x0
  <2>5. ULRound(e) = e /\ e \in Nat
    <3>1. 0 <= e
      BY <1>2, <2>3
    <3> QED BY <2>3, <3>1 DEF ULRound
  <2>6. CASE y0 <= value
    BY <1>2, <2>3, <2>4, <2>5, <2>6
  <2>7. CASE value <= y0
    BY <1>2, <2>3, <2>4, <2>5, <2>7
  <2> QED BY <1>2, <2>6, <2>7
<1> QED BY <1>3, <1>4, <1>5

-----------------------------------------------------------------------------
(* A completed scan, in terms of the first and the last entry of its header *)
(* that are not 0.                                                          *)
Nonzero(ts) == {c \in Columns : ts[c] # 0}

Completes(f, ts, first, last) ==
    /\ f \in Frames /\ f \in Nat \ {0}
    /\ first \in Columns /\ ts[first] \in Nat \ {0}
    /\ last \in Columns /\ ts[last] \in Nat \ {0}
    /\ lidar_scan_estimated_ts' = ScanTs(first, ts[first])
    /\ last_scan_last_nonzero_idx' = last
    /\ last_scan_last_nonzero_value' = ts[last]
    /\ compute_scan_ts' = "n" /\ clock' = clock /\ outcome' = outcome
    /\ scan' = [frame |-> f, epoch |-> clock, first |-> ts[first],
                before |-> last_scan_last_nonzero_value, follows |-> Follows(f)]

LEMMA Completed ==
    ASSUME Known, CompleteScan, scan' # scan
    PROVE  \E f \in Frames, R \in SUBSET Columns, first \in Columns, last \in Columns :
             Completes(f, Timestamps(f, R), first, last)
<1>1. \A f \in Frames : f \in Nat \ {0}
  BY TimestampAssumption DEF Frames, Known, TypeOK
<1>2. PICK f \in Frames, R \in SUBSET Columns :
             LET ts == Timestamps(f, R)
                 nonzero == {c \in Columns : ts[c] # 0}
             IN  /\ f \in Nat \ {0} /\ nonzero # {}
                 /\ lidar_scan_estimated_ts' = ScanTs(Min(nonzero), ts[Min(nonzero)])
                 /\ last_scan_last_nonzero_idx' = LastNonzero(nonzero)
                 /\ last_scan_last_nonzero_value' = ts[LastNonzero(nonzero)]
                 /\ compute_scan_ts' = "n" /\ clock' = clock /\ outcome' = outcome
                 /\ scan' = [frame |-> f, epoch |-> clock, first |-> ts[Min(nonzero)],
                             before |-> last_scan_last_nonzero_value,
                             follows |-> Follows(f)]
  BY <1>1 DEF CompleteScan
<1> DEFINE ts == Timestamps(f, R)
           first == Min(Nonzero(ts))
           last == LastNonzero(Nonzero(ts))
<1>3. /\ first \in Columns /\ last \in Columns
      /\ ts[first] \in Nat \ {0} /\ ts[last] \in Nat \ {0}
  BY <1>2, HeaderEnds DEF Nonzero
<1>4. Completes(f, ts, first, last)
  <2> HIDE DEF ts, first, last
  <2>1. /\ lidar_scan_estimated_ts' = ScanTs(first, ts[first])
        /\ last_scan_last_nonzero_idx' = last
        /\ last_scan_last_nonzero_value' = ts[last]
        /\ compute_scan_ts' = "n" /\ clock' = clock /\ outcome' = outcome
        /\ scan' = [frame |-> f, epoch |-> clock, first |-> ts[first],
                    before |-> last_scan_last_nonzero_value, follows |-> Follows(f)]
    BY <1>2 DEF ts, first, last, Nonzero
  <2> QED BY <1>2, <1>3, <2>1 DEF Completes
<1> QED BY <1>3, <1>4

(* Every other step leaves what the estimator knows alone.                  *)
LEMMA Otherwise ==
    ASSUME Known, [Next]_vars, ~ (CompleteScan /\ scan' # scan)
    PROVE  UNCHANGED <<compute_scan_ts, last_scan_last_nonzero_idx,
                       last_scan_last_nonzero_value, lidar_scan_estimated_ts, scan>>
           /\ clock' \in Clocks /\ outcome' \in {"ok", "assert"}
<1>1. clock \in Clocks /\ outcome \in {"ok", "assert"}
  BY DEF Known, TypeOK
<1>2. CASE ClockStep
  BY <1>1, <1>2 DEF ClockStep
<1>3. CASE CompleteScan
  <2>1. scan' = scan
    BY <1>3
  <2>2. scan.frame \in Nat /\ \A f \in Frames : f \in Nat /\ f # scan.frame
    BY TimestampAssumption DEF Known, TypeOK, Frames
  <2> QED BY <1>1, <1>3, <2>1, <2>2 DEF CompleteScan
<1>4. CASE UNCHANGED vars
  BY <1>1, <1>4 DEF vars
<1> QED BY <1>2, <1>3, <1>4 DEF Next

LEMMA KnownStep == Known /\ [Next]_vars => Known'
<1> SUFFICES ASSUME Known, [Next]_vars PROVE Known'
  OBVIOUS
<1>1. CASE CompleteScan /\ scan' # scan
  <2>1. PICK f \in Frames, R \in SUBSET Columns, first \in Columns, last \in Columns :
           Completes(f, Timestamps(f, R), first, last)
    BY <1>1, Completed
  <2> DEFINE ts == Timestamps(f, R)
  <2> HIDE DEF ts
  <2>2. Completes(f, ts, first, last)
    BY <2>1 DEF ts
  <2>3. ScanTs(first, ts[first]) \in Nat
    BY <2>2, EstimateBetween DEF Completes
  <2>4. f \in 0 .. MaxFrames /\ f > 0
    BY <2>2 DEF Completes, Frames, Known, TypeOK
  <2>5. Follows(f) \in {"frame", "gap", "step"}
    BY DEF Follows
  <2>7. TypeOK'
    BY <2>2, <2>3, <2>4, <2>5 DEF Completes, Known, TypeOK
  <2>8. Remembers'
    BY <2>2, <2>4 DEF Completes, Remembers
  <2> QED BY <2>7, <2>8 DEF Known
<1>2. CASE ~ (CompleteScan /\ scan' # scan)
  BY <1>2, Otherwise DEF Known, TypeOK, Remembers
<1> QED BY <1>1, <1>2

LEMMA KnownInvariant == Spec => []Known
  BY KnownInit, KnownStep, PTL DEF Spec

(* The estimate, the remembered column and the history keep their types:    *)
(* impute_value() and ulround() never return a negative time.               *)
THEOREM TimestampTypeCorrect == Spec => []TypeOK
<1>1. Known => TypeOK
  BY DEF Known
<1> QED BY <1>1, KnownInvariant, PTL

-----------------------------------------------------------------------------
LEMMA SmallerAndLarger ==
    ASSUME NEW a \in Nat, NEW b \in Nat, NEW e \in Nat
    PROVE  (a <= e /\ e <= b) \/ (b <= e /\ e <= a)
             => Min({a, b}) <= e /\ e <= Max({a, b})
<1>1. {a, b} \in SUBSET Nat /\ {a, b} # {} /\ {a, b} \in SUBSET (0 .. (a + b + 1) - 1)
      /\ a + b + 1 \in Nat
  OBVIOUS
<1>2. Min({a, b}) \in {a, b} /\ \A y \in {a, b} : Min({a, b}) <= y
  BY <1>1, FirstColumn
<1>3. Max({a, b}) \in {a, b} /\ \A y \in {a, b} : Max({a, b}) >= y
  BY <1>1, LastColumn
<1> QED BY <1>2, <1>3

LEMMA BetweenStep == Known /\ BetweenNeighbours /\ [Next]_vars => BetweenNeighbours'
<1> SUFFICES ASSUME Known, BetweenNeighbours, [Next]_vars
             PROVE  BetweenNeighbours'
  OBVIOUS
<1>1. CASE CompleteScan /\ scan' # scan
  <2>1. PICK f \in Frames, R \in SUBSET Columns, first \in Columns, last \in Columns :
           Completes(f, Timestamps(f, R), first, last)
    BY <1>1, Completed
  <2> DEFINE v == Timestamps(f, R)[first]
             y0 == last_scan_last_nonzero_value
  <2> HIDE DEF v
  <2>2. /\ scan'.before = y0 /\ scan'.first = v /\ v \in Nat /\ y0 \in Nat
        /\ lidar_scan_estimated_ts' = ScanTs(first, v)
    BY <2>1 DEF Completes, v, Known, TypeOK
  <2> SUFFICES ASSUME y0 > 0
               PROVE  /\ Min({y0, v}) <= ScanTs(first, v)
                      /\ ScanTs(first, v) <= Max({y0, v})
    BY <2>2 DEF BetweenNeighbours
  <2>3. compute_scan_ts = "n"
    BY DEF Known, TypeOK, Remembers
  <2>4. /\ ScanTs(first, v) \in Nat
        /\ \/ y0 <= ScanTs(first, v) /\ ScanTs(first, v) <= v
           \/ v <= ScanTs(first, v) /\ ScanTs(first, v) <= y0
    BY <2>2, <2>3, EstimateBetween
  <2> QED BY <2>2, <2>4, SmallerAndLarger
<1>2. CASE ~ (CompleteScan /\ scan' # scan)
  BY <1>2, Otherwise DEF BetweenNeighbours
<1> QED BY <1>1, <1>2

(* Whatever is lost, however the clock is set and whatever the offset, the  *)
(* timestamp impute_value() gives a scan lies between the last column seen  *)
(* before it and its own first column.                                      *)
THEOREM TimestampBetween == Spec => []BetweenNeighbours
<1>1. Init => BetweenNeighbours
  BY DEF Init, BetweenNeighbours
<1> QED BY <1>1, BetweenStep, KnownInvariant, PTL DEF Spec

-----------------------------------------------------------------------------
LEMMA LineStep ==
    ASSUME Offset <= 0, Known, OnTheLine, [Next]_vars
    PROVE  OnTheLine'
<1>1. CASE CompleteScan /\ scan' # scan
  <2>1. PICK f \in Frames, R \in SUBSET Columns, first \in Columns, last \in Columns :
           Completes(f, Timestamps(f, R), first, last)
    BY <1>1, Completed
  <2>2. Timestamps(f, R)[last] = Taken(clock, f, last) + Offset
    BY <2>1, HeaderEntry DEF Completes
  <2> QED BY <2>1, <2>2 DEF Completes, OnTheLine, Taken
<1>2. CASE ~ (CompleteScan /\ scan' # scan)
  BY <1>2, Otherwise DEF OnTheLine, Taken
<1> QED BY <1>1, <1>2

(* The estimate for a scan that follows the previous one.                   *)
LEMMA EstimateExact ==
    ASSUME Offset <= 0, Known, OnTheLine, NEW f \in Nat \ {0}, NEW idx \in Columns,
           Follows(f) = "frame", Taken(clock, f, idx) + Offset > 0
    PROVE  ScanTs(idx, Taken(clock, f, idx) + Offset)
             = SafeOffsetAdd(Taken(clock, f, 0), Offset)
<1> DEFINE start == Taken(clock, f, 0)
           value == Taken(clock, f, idx) + Offset
<1>1. /\ Width \in Nat \ {0} /\ Spacing \in Nat /\ Offset \in Int /\ clock \in Nat
      /\ idx \in Nat
  BY TimestampAssumption DEF Columns, Known, TypeOK
<1>2. start \in Nat /\ value = start + Spacing * idx + Offset
  BY <1>1, TakenLine
<1>3. Spacing * idx \in Nat
  BY <1>1
<1>4. value > 0
  OBVIOUS
<1> HIDE DEF start, value
<1>5. CASE idx = 0
  <2>1. value = start + Offset
    BY <1>1, <1>2, <1>5
  <2> QED BY <1>1, <1>2, <1>4, <1>5, <2>1 DEF ScanTs, SafeOffsetAdd, start, value
<1>6. CASE idx # 0 /\ compute_scan_ts = "0"
  <2>1. ScanTs(idx, value) = ULRound(start + Offset)
    BY <1>1, <1>2, <1>3, <1>6 DEF ScanTs, ExtrapolateValue
  <2>2. ULRound(start + Offset) = SafeOffsetAdd(start, Offset)
    BY <1>1, <1>2 DEF ULRound, SafeOffsetAdd
  <2> QED BY <2>1, <2>2 DEF start, value
<1>7. CASE idx # 0 /\ compute_scan_ts # "0"
  <2> DEFINE idx0 == last_scan_last_nonzero_idx
             value0 == last_scan_last_nonzero_value
             start0 == Taken(clock, scan.frame, idx0)
             run == Spacing * ((Width + idx) - idx0)
             rest == Spacing * (Width - idx0)
  <2>1. compute_scan_ts = "n" /\ scan.epoch = clock /\ f = scan.frame + 1
    BY <1>7 DEF Follows, Known, TypeOK
  <2>2. idx0 \in Columns /\ scan.frame \in Nat \ {0}
    BY <1>7 DEF Known, Remembers, TypeOK
  <2>3. value0 > 0 /\ value0 = start0 + Offset
    BY <2>1 DEF OnTheLine
  <2>4. /\ idx0 \in Int /\ Width + idx \in Int /\ Width \in Int /\ value0 \in Int
        /\ Spacing \in Int /\ idx0 < Width + idx /\ Width - idx0 \in Nat
        /\ (Width + 0) - idx0 = Width - idx0
    BY <1>1, <2>2 DEF Columns, Known, TypeOK
  <2>5. run \in Int /\ rest \in Nat
    BY <1>1, <2>4
  <2>6. 0 \in Columns /\ start0 \in Nat
    <3>1. 0 \in Columns
      BY <1>1 DEF Columns
    <3> QED BY <1>1, <2>2, <3>1, TakenLine
  <2>7. Taken(clock, f, idx) = start0 + run
    BY <1>1, <2>1, <2>2, NextFrameLine
  <2>8. start = start0 + rest
    BY <1>1, <2>1, <2>2, <2>4, <2>6, NextFrameLine DEF start
  <2>9. /\ value = value0 + run /\ start + Offset = value0 + rest
        /\ value \in Int
    <3> HIDE DEF start0, run, rest
    <3> QED BY <1>1, <2>3, <2>5, <2>6, <2>7, <2>8 DEF value
  <2>10. LinearInterpolate(idx0, value0, Width + idx, value, Width) = start + Offset
    <3> DEFINE idx1 == Width + idx
    <3>1. idx1 \in Int /\ idx0 < idx1
      BY <2>4
    <3>2. value = value0 + Spacing * (idx1 - idx0)
      BY <2>9, Zenon
    <3>3. /\ idx0 \in Int /\ Width \in Int /\ value0 \in Int /\ Spacing \in Int
          /\ value \in Int
      BY <2>4, <2>9, Zenon
    <3> HIDE DEF idx0, idx1, value0
    <3>4. LinearInterpolate(idx0, value0, idx1, value, Width) = value0 + Spacing * (Width - idx0)
      BY <3>1, <3>2, <3>3, InterpolateLine
    <3> QED BY <2>9, <3>4, Zenon DEF idx1, rest
  <2>11. ScanTs(idx, value) = ULRound(start + Offset)
    BY <1>7, <2>10 DEF ScanTs, ImputeValue
  <2> HIDE DEF start0, run, rest
  <2>12. start + Offset > 0
    BY <2>3, <2>4, <2>5, <2>9
  <2> QED BY <1>1, <1>2, <2>11, <2>12 DEF ULRound, SafeOffsetAdd, start, value
<1> QED BY <1>5, <1>6, <1>7 DEF value, start

LEMMA ExactStep ==
    ASSUME Offset <= 0, Known, OnTheLine, ExactWhenConsecutive, [Next]_vars
    PROVE  ExactWhenConsecutive'
<1>1. CASE CompleteScan /\ scan' # scan
  <2>1. PICK f \in Frames, R \in SUBSET Columns, first \in Columns, last \in Columns :
           Completes(f, Timestamps(f, R), first, last)
    BY <1>1, Completed
  <2> DEFINE v == Timestamps(f, R)[first]
  <2> HIDE DEF v
  <2>2. v = Taken(clock, f, first) + Offset /\ v > 0 /\ f \in Nat \ {0}
    BY <2>1, HeaderEntry DEF Completes, v
  <2>3. /\ lidar_scan_estimated_ts' = ScanTs(first, v)
        /\ scan'.follows = Follows(f) /\ scan'.frame = f /\ scan'.epoch = clock
    BY <2>1 DEF Completes, v
  <2>4. Follows(f) = "frame" => ScanTs(first, v) = SafeOffsetAdd(Taken(clock, f, 0), Offset)
    BY <2>2, EstimateExact
  <2>5. FrameStart' = SafeOffsetAdd(Taken(clock, f, 0), Offset)
    BY <2>3 DEF FrameStart, Taken, SafeOffsetAdd
  <2> QED BY <2>3, <2>4, <2>5 DEF ExactWhenConsecutive
<1>2. CASE ~ (CompleteScan /\ scan' # scan)
  BY <1>2, Otherwise DEF ExactWhenConsecutive, FrameStart, Taken, SafeOffsetAdd
<1> QED BY <1>1, <1>2

(* With an offset that is not above 0 (the parameter is -37 s), a scan that *)
(* follows the previous one gets exactly the time of its column 0, whether  *)
(* that column arrived or not.  An offset above 0 makes columns that did    *)
(* not arrive look as if they had, and the estimate is then off.            *)
THEOREM TimestampExact ==
    ASSUME Offset <= 0
    PROVE  Spec => []ExactWhenConsecutive
<1>1. Init => OnTheLine /\ ExactWhenConsecutive
  BY DEF Init, OnTheLine, ExactWhenConsecutive
<1>2. Known /\ OnTheLine /\ ExactWhenConsecutive /\ [Next]_vars
        => OnTheLine' /\ ExactWhenConsecutive'
  BY LineStep, ExactStep
<1> QED BY <1>1, <1>2, KnownInvariant, PTL DEF Spec
=============================================================================
