------------------------ MODULE ScanProcessorsProofs ------------------------
(***************************************************************************)
(* The pixel arithmetic, for every size of a scan, every shift of a row by  *)
(* up to the width of the scan and every width of size_t it divides; then   *)
(* the processors built on it, for every set of sensors and parameters that *)
(* ConfigAssumption and ParameterAssumption allow: that the processors are  *)
(* called once each and in turn, and what the messages of each return show  *)
(* once it is done.                                                         *)
(***************************************************************************)
EXTENDS ScanProcessors, FiniteSetTheorems, TLAPS

-----------------------------------------------------------------------------
(* Remainders of what leaves 0..m-1 by at most two periods.                  *)
LEMMA ModPeriods ==
    ASSUME NEW m \in Nat \ {0}, NEW x \in 0 .. 3 * m - 1
    PROVE  /\ x < m => x % m = x
           /\ x >= m /\ x < 2 * m => x % m = x - m
           /\ x >= 2 * m => x % m = x - 2 * m
<1>1. CASE x < m
  BY <1>1
<1>2. CASE x >= m /\ x < 2 * m
  <2>1. x - m \in 0 .. m - 1
    BY <1>2
  <2>2. x = m * 1 + (x - m)
    OBVIOUS
  <2> QED BY <1>2, <2>1, <2>2
<1>3. CASE x >= 2 * m
  <2>1. x - 2 * m \in 0 .. m - 1
    BY <1>3
  <2>2. x = m * 2 + (x - 2 * m)
    OBVIOUS
  <2> QED BY <1>3, <2>1, <2>2
<1> QED BY <1>1, <1>2, <1>3

(* The column the point cloud reads at column v of an upright cloud: v less *)
(* the shift, wrapped around.                                               *)
LEMMA CloudColumnValue ==
    ASSUME NEW w \in Nat \ {0}, NEW v \in 0 .. w - 1, NEW shift \in -w .. w
    PROVE  LET c == CloudColumn(v, w, shift, TRUE)
           IN  /\ v - shift < 0 => c = v - shift + w
               /\ v - shift >= 0 /\ v - shift < w => c = v - shift
               /\ v - shift >= w => c = v - shift - w
<1> DEFINE x == v + w - shift
<1>1. x \in 0 .. 3 * w - 1
  OBVIOUS
<1>2. CloudColumn(v, w, shift, TRUE) = x % w
  BY <1>1 DEF CloudColumn, Remainder
<1>3. x = v + w - shift
  OBVIOUS
<1> HIDE DEF x
<1>4. /\ x < w => x % w = x
      /\ x >= w /\ x < 2 * w => x % w = x - w
      /\ x >= 2 * w => x % w = x - 2 * w
  BY <1>1, ModPeriods, Zenon
<1>5. x < w => CloudColumn(v, w, shift, TRUE) = x
  BY <1>2, <1>4, Zenon
<1>6. x >= w /\ x < 2 * w => CloudColumn(v, w, shift, TRUE) = x - w
  BY <1>2, <1>4, Zenon
<1>7. x >= 2 * w => CloudColumn(v, w, shift, TRUE) = x - 2 * w
  BY <1>2, <1>4, Zenon
<1>8. /\ v - shift < 0 => x < w
      /\ v - shift >= 0 /\ v - shift < w => x >= w /\ x < 2 * w
      /\ v - shift >= w => x >= 2 * w
  BY <1>3
<1>9. x = v - shift + w /\ x - w = v - shift /\ x - 2 * w = v - shift - w
  BY <1>3
<1> QED BY <1>5, <1>6, <1>7, <1>8, <1>9, Zenon

(* scan_to_cloud_f never reads outside the row.                             *)
THEOREM CloudColumnInRow ==
    ASSUME NEW w \in Nat \ {0}, NEW v \in 0 .. w - 1, NEW shift \in -w .. w,
           NEW destagger \in BOOLEAN
    PROVE  CloudColumn(v, w, shift, destagger) \in 0 .. w - 1
<1>1. CASE destagger = TRUE
  <2> DEFINE c == CloudColumn(v, w, shift, TRUE)
  <2>1. /\ v - shift < 0 => c = v - shift + w
        /\ v - shift >= 0 /\ v - shift < w => c = v - shift
        /\ v - shift >= w => c = v - shift - w
    BY CloudColumnValue, Zenon
  <2>2. CloudColumn(v, w, shift, destagger) = c
    BY <1>1, Zenon
  <2> HIDE DEF c
  <2>3. c \in 0 .. w - 1
    BY <2>1
  <2> QED BY <2>2, <2>3, Zenon
<1>2. CASE destagger = FALSE
  BY <1>2 DEF CloudColumn
<1> QED BY <1>1, <1>2

(* No column of a row is shown twice, hence none is left out.               *)
THEOREM CloudColumnInjective ==
    ASSUME NEW w \in Nat \ {0}, NEW shift \in -w .. w, NEW destagger \in BOOLEAN,
           NEW v1 \in 0 .. w - 1, NEW v2 \in 0 .. w - 1,
           CloudColumn(v1, w, shift, destagger) = CloudColumn(v2, w, shift, destagger)
    PROVE  v1 = v2
<1>1. CASE destagger = TRUE
  <2> DEFINE c(v) == CloudColumn(v, w, shift, TRUE)
  <2>1. \A v \in 0 .. w - 1 :
           /\ v - shift < 0 => c(v) = v - shift + w
           /\ v - shift >= 0 /\ v - shift < w => c(v) = v - shift
           /\ v - shift >= w => c(v) = v - shift - w
    BY CloudColumnValue, Zenon
  <2>2. c(v1) = c(v2)
    BY <1>1, Zenon
  <2> HIDE DEF c
  <2> QED BY <2>1, <2>2
<1>2. CASE destagger = FALSE
  BY <1>2 DEF CloudColumn
<1> QED BY <1>1, <1>2

(* The int arithmetic of the point cloud and the size_t arithmetic of the   *)
(* image find the same column, so that the two show the same measurement in *)
(* the same place.                                                          *)
THEOREM CloudAndImageAgree ==
    ASSUME NEW w \in Nat \ {0}, NEW v \in 0 .. w - 1, NEW shift \in -w .. w,
           3 * w <= SizeModulus
    PROVE  CloudColumn(v, w, shift, TRUE) = ImageColumn(v, w, shift)
<1>1. v + w - shift \in 0 .. SizeModulus - 1
  BY SizeAssumption
<1>2. (v + w - shift) % SizeModulus = v + w - shift
  BY <1>1, SizeAssumption
<1>3. CloudColumn(v, w, shift, TRUE) = (v + w - shift) % w
  BY <1>1 DEF CloudColumn, Remainder
<1> QED BY <1>2, <1>3 DEF ImageColumn

-----------------------------------------------------------------------------
(* A row that is visited is a multiple of the step, and its quotient is a   *)
(* row of the cloud when the rows of the scan are a multiple of the step.   *)
LEMMA VisitedRowQuotient ==
    ASSUME NEW h \in Nat \ {0}, NEW step \in Nat \ {0}, h % step = 0,
           NEW u \in VisitedRows(h, step)
    PROVE  /\ u \div step \in 0 .. CloudRows(h, step) - 1
           /\ u = step * (u \div step)
<1> DEFINE q == u \div step
           n == h \div step
<1>1. u \in 0 .. h - 1 /\ u % step = 0
  BY DEF VisitedRows
<1>2. q \in Nat /\ n \in Nat
  BY <1>1
<1>3. u = (step * q) + (u % step)
  BY <1>1
<1>4. h = (step * n) + (h % step)
  OBVIOUS
<1>5. u = step * q /\ h = step * n
  BY <1>1, <1>2, <1>3, <1>4
<1>6. q < n
  <2>1. SUFFICES ASSUME q >= n PROVE FALSE
    BY <1>2
  <2>2. step * q >= step * n
    <3>1. q = n + (q - n) /\ q - n \in Nat
      BY <1>2, <2>1
    <3>2. \A a, b \in Nat : step * (a + b) = step * a + step * b /\ step * b \in Nat
      OBVIOUS
    <3>3. step * (n + (q - n)) = step * n + step * (q - n) /\ step * (q - n) \in Nat
      BY <1>2, <3>1, <3>2, Zenon
    <3>4. step * q = step * n + step * (q - n)
      BY <3>1, <3>3, Zenon
    <3> HIDE DEF q, n
    <3>5. step * n \in Nat
      BY <1>2
    <3> QED BY <3>3, <3>4, <3>5
  <2> QED BY <1>1, <1>5, <2>2
<1> QED BY <1>2, <1>5, <1>6 DEF CloudRows

(* The multiples of the step are visited.                                    *)
LEMMA MultipleVisited ==
    ASSUME NEW h \in Nat \ {0}, NEW step \in Nat \ {0}, h % step = 0,
           NEW q \in 0 .. CloudRows(h, step) - 1
    PROVE  /\ step * q \in VisitedRows(h, step)
           /\ (step * q) \div step = q
<1> DEFINE n == h \div step
<1>1. n \in Nat /\ q \in Nat /\ q < n
  BY DEF CloudRows
<1>2. h = step * n
  OBVIOUS
<1>3. step * q \in Nat /\ (step * q) % step = 0 /\ (step * q) \div step = q
  BY <1>1
<1>4. step * q < step * n
  <2>1. n = q + (n - q) /\ n - q \in Nat \ {0}
    BY <1>1
  <2>2. \A a, b \in Nat : step * (a + b) = step * a + step * b /\ step * b \in Nat
    OBVIOUS
  <2>3. step * (q + (n - q)) = step * q + step * (n - q)
    BY <1>1, <2>1, <2>2, Zenon
  <2>4. \A b \in Nat \ {0} : step * b \in Nat \ {0}
    OBVIOUS
  <2>5. step * n = step * q + step * (n - q) /\ step * (n - q) \in Nat \ {0}
    BY <2>1, <2>3, <2>4, Zenon
  <2> HIDE DEF n
  <2> QED BY <1>3, <2>5
<1> QED BY <1>2, <1>3, <1>4 DEF VisitedRows

(* Rows by columns, numbered row by row, are all the numbers below their     *)
(* product.                                                                  *)
LEMMA RowMajor ==
    ASSUME NEW w \in Nat \ {0}, NEW n \in Nat
    PROVE  /\ \A q \in 0 .. n - 1, v \in 0 .. w - 1 : q * w + v \in 0 .. w * n - 1
           /\ \A t \in 0 .. w * n - 1 :
                 /\ t \div w \in 0 .. n - 1
                 /\ t % w \in 0 .. w - 1
                 /\ t = (t \div w) * w + (t % w)
<1>1. ASSUME NEW q \in 0 .. n - 1, NEW v \in 0 .. w - 1
      PROVE  q * w + v \in 0 .. w * n - 1
  <2>1. \A a, b \in Nat : w * (a + b) = w * a + w * b /\ w * b \in Nat
    OBVIOUS
  <2>2. w * ((q + 1) + (n - (q + 1))) = w * (q + 1) + w * (n - (q + 1))
    BY <2>1
  <2>3. w * (n - (q + 1)) \in Nat
    BY <2>1
  <2>4. w * (q + 1) = q * w + w
    OBVIOUS
  <2>5. (q + 1) + (n - (q + 1)) = n /\ q * w \in Nat /\ w * n \in Nat
    OBVIOUS
  <2> QED BY <2>2, <2>3, <2>4, <2>5
<1>2. ASSUME NEW t \in 0 .. w * n - 1
      PROVE  /\ t \div w \in 0 .. n - 1
             /\ t % w \in 0 .. w - 1
             /\ t = (t \div w) * w + (t % w)
  <2>1. /\ t \in Nat /\ t \div w \in Nat
        /\ t % w \in 0 .. w - 1
        /\ t = (t \div w) * w + (t % w)
    OBVIOUS
  <2>2. t \div w < n
    <3>1. SUFFICES ASSUME t \div w >= n PROVE FALSE
      BY <2>1
    <3>2. (t \div w) * w >= w * n
      BY <2>1, <3>1
    <3> QED BY <2>1, <3>2
  <2> QED BY <2>1, <2>2
<1> QED BY <1>1, <1>2

(* The points of a reduced, organized cloud are written each in a place of  *)
(* the cloud, and every place of the cloud is written.                      *)
THEOREM TargetsFillCloud ==
    ASSUME NEW h \in Nat \ {0}, NEW w \in Nat \ {0}, NEW step \in Nat \ {0},
           h % step = 0
    PROVE  {CloudTarget(u, v, w, step) : u \in VisitedRows(h, step), v \in 0 .. w - 1}
             = 0 .. w * CloudRows(h, step) - 1
<1>1. CloudRows(h, step) \in Nat
  BY DEF CloudRows
<1>2. ASSUME NEW u \in VisitedRows(h, step), NEW v \in 0 .. w - 1
      PROVE  CloudTarget(u, v, w, step) \in 0 .. w * CloudRows(h, step) - 1
  <2>1. u \div step \in 0 .. CloudRows(h, step) - 1
    BY VisitedRowQuotient
  <2> QED BY <1>1, <2>1, RowMajor, Zenon DEF CloudTarget
<1>3. ASSUME NEW t \in 0 .. w * CloudRows(h, step) - 1
      PROVE  \E u \in VisitedRows(h, step), v \in 0 .. w - 1 :
                t = CloudTarget(u, v, w, step)
  <2> DEFINE q == t \div w
  <2>1. /\ q \in 0 .. CloudRows(h, step) - 1
        /\ t % w \in 0 .. w - 1
        /\ t = q * w + (t % w)
    BY <1>1, RowMajor, Zenon
  <2>2. step * q \in VisitedRows(h, step) /\ (step * q) \div step = q
    <3>1. \A p \in 0 .. CloudRows(h, step) - 1 :
              step * p \in VisitedRows(h, step) /\ (step * p) \div step = p
      BY MultipleVisited
    <3> QED BY <2>1, <3>1, Zenon
  <2>3. t = CloudTarget(step * q, t % w, w, step)
    BY <2>1, <2>2, Zenon DEF CloudTarget
  <2> QED BY <2>1, <2>2, <2>3, Zenon
<1> QED BY <1>2, <1>3

-----------------------------------------------------------------------------

(* Once the handlers exist the reduction is a valid one, and an organized   *)
(* cloud keeps the size the constructor gave it.                            *)
ReductionValid ==
    Created /\ "PCL" \in config.tokens => config.v_reduction \in Reductions

CloudSize ==
    Created /\ config.organized =>
        DOMAIN cloud.points = 1 .. config.w * CloudRows(config.h, config.v_reduction)

BoundsInv == config \in Configs /\ ReductionValid /\ CloudSize

LEMMA BoundsInit == Init => BoundsInv
  BY DEF Init, BoundsInv, ReductionValid, CloudSize, Created

(* Writing an organized cloud keeps its size.                               *)
LEMMA OrganizedKeepsSize ==
    ASSUME NEW xyz, config.organized
    PROVE  DOMAIN ScanToCloud(xyz).points = DOMAIN cloud.points
  BY DEF ScanToCloud, Organized

LEMMA BoundsStep == BoundsInv /\ [Next]_vars => BoundsInv'
<1> SUFFICES ASSUME BoundsInv, [Next]_vars
             PROVE  BoundsInv'
  OBVIOUS
<1> USE DEF BoundsInv, ReductionValid, CloudSize
<1>1. CASE CreateHandlers
  <2>1. config' = config /\ ("PCL" \in config.tokens => config.v_reduction \in Reductions)
    BY <1>1 DEF CreateHandlers, ParametersValid
  <2>2. DOMAIN cloud'.points = 1 .. config.w * CloudRows(config.h, config.v_reduction)
    BY <1>1 DEF CreateHandlers
  <2> QED BY <2>1, <2>2
<1>2. CASE CreateThrows
  BY <1>2 DEF CreateThrows, Created
<1>3. CASE NextScan
  BY <1>3 DEF NextScan, Created
<1>4. CASE MakeCloud
  <2>1. config' = config /\ cloud' = ScanToCloud(points') /\ Running("PCL")
    BY <1>4 DEF MakeCloud
  <2>2. Created
    BY <2>1 DEF Running, Created
  <2> QED BY <2>1, <2>2, OrganizedKeepsSize
<1>5. CASE MakeLaserScan
  <2>1. config' = config /\ cloud' = cloud /\ Running("SCAN")
    BY <1>5 DEF MakeLaserScan
  <2>2. Created
    BY <2>1 DEF Running, Created
  <2> QED BY <2>1, <2>2
<1>6. CASE MakeImages
  <2>1. config' = config /\ cloud' = cloud /\ Running("IMG")
    BY <1>6 DEF MakeImages
  <2>2. Created
    BY <2>1 DEF Running, Created
  <2> QED BY <2>1, <2>2
<1>7. CASE UNCHANGED vars
  BY <1>7 DEF vars, Created
<1> QED BY <1>1, <1>2, <1>3, <1>4, <1>5, <1>6, <1>7 DEF Next

LEMMA BoundsImplies == BoundsInv => InBounds
<1> SUFFICES ASSUME BoundsInv, Created, config.organized, "PCL" \in config.tokens
             PROVE  {CloudTarget(u, v, config.w, config.v_reduction) :
                        u \in VisitedRows(config.h, config.v_reduction), v \in Columns}
                    = {k - 1 : k \in DOMAIN cloud.points}
  BY DEF InBounds
<1> DEFINE h == config.h
           w == config.w
           step == config.v_reduction
           size == w * CloudRows(h, step)
<1>1. h \in Nat \ {0} /\ w \in Nat \ {0} /\ step \in Nat \ {0} /\ h % step = 0
  BY ConfigAssumption DEF BoundsInv, ReductionValid
<1>2. DOMAIN cloud.points = 1 .. size
  BY DEF BoundsInv, CloudSize
<1>3. size \in Nat
  <2>1. CloudRows(h, step) \in Nat
    BY <1>1 DEF CloudRows
  <2> HIDE DEF h, w, step
  <2> QED BY <1>1, <2>1
<1>4. {CloudTarget(u, v, w, step) : u \in VisitedRows(h, step), v \in 0 .. w - 1}
        = 0 .. size - 1
  <2> HIDE DEF h, w, step
  <2> QED BY <1>1, TargetsFillCloud
<1>5. {k - 1 : k \in 1 .. size} = 0 .. size - 1
  <2> HIDE DEF size
  <2>1. ASSUME NEW i \in 0 .. size - 1
        PROVE  i \in {k - 1 : k \in 1 .. size}
    <3>1. i + 1 \in 1 .. size /\ i = (i + 1) - 1
      BY <1>3
    <3> QED BY <3>1
  <2>2. \A k \in 1 .. size : k - 1 \in 0 .. size - 1
    BY <1>3
  <2> QED BY <2>1, <2>2
<1>6. {CloudTarget(u, v, config.w, config.v_reduction) :
            u \in VisitedRows(config.h, config.v_reduction), v \in Columns} = 0 .. size - 1
  BY <1>4 DEF Columns
<1>7. {k - 1 : k \in DOMAIN cloud.points} = 0 .. size - 1
  BY <1>2, <1>5, Zenon
<1> QED BY <1>6, <1>7

(* No point of an organized cloud is written outside it, and none is left   *)
(* over from an earlier scan.                                               *)
THEOREM CloudsInBounds == Spec => []InBounds
<1>1. Spec => []BoundsInv
  BY BoundsInit, BoundsStep, PTL DEF Spec
<1> QED BY <1>1, BoundsImplies, PTL

-----------------------------------------------------------------------------
(* The control of the scan thread: which processors are left, and how many  *)
(* returns each of them has worked on.                                      *)

LEMMA ProfileReturns ==
    \A profile \in DOMAIN ScanProfile : ScanProfile[profile].returns \in {1, 2}
  BY DEF ScanProfile, Single, Dual, LEGACY, RNG19_RFL8_SIG16_NIR16_DUAL,
     RNG19_RFL8_SIG16_NIR16, RNG15_RFL8_NIR8, RNG15_RFL8_NIR8_DUAL, RNG15_RFL8_WIN8,
     RNG15_RFL8_NIR8_ZONE16, RNG19_RFL8_SIG16_NIR16_ZONE16, RNG19_RFL8_SIG16_NIR16_RGB16,
     RNG19_RFL8_SIG16_NIR16_RGB16_DUAL

(* Distinct processors of those asked for, none of which has published.     *)
Queue(seq) ==
    /\ seq \in Seq(config.tokens) /\ Len(seq) <= 3
    /\ \A i \in 1 .. Len(seq) : seq[i] \notin published
    /\ \A i, j \in 1 .. Len(seq) : seq[i] = seq[j] => i = j

ProcessInv ==
    /\ config \in Configs
    /\ scan.id \in 0 .. MaxScans
    /\ published \subseteq config.tokens
    /\ ~Created => /\ processors \in {<<"create">>, <<"thrown">>}
                   /\ return = 0 /\ published = {}
    /\ Created => /\ config.profile \in DOMAIN ScanProfile
                  /\ "PCL" \in config.tokens => ParametersValid /\ Supported
                  /\ Queue(processors)
                  /\ return \in 0 .. Returns - 1
                  /\ processors = << >> => return = 0

LEMMA Asked == config \in Configs => config.tokens \subseteq {"PCL", "SCAN", "IMG"}
  BY ParameterAssumption

LEMMA ElementsTyped ==
    ASSUME NEW T, NEW S, NEW s \in Seq(T), \A i \in 1 .. Len(s) : s[i] \in S
    PROVE  s \in Seq(S)
  OBVIOUS

(* A sequence of elements of S, no two of them the same.                    *)
Distinct(seq, S) ==
    /\ \A i \in 1 .. Len(seq) : seq[i] \in S
    /\ \A i, j \in 1 .. Len(seq) : seq[i] = seq[j] => i = j

LEMMA DistinctConcat ==
    ASSUME NEW T, NEW s \in Seq(T), NEW t \in Seq(T), NEW S1, NEW S2, S1 \cap S2 = {},
           Distinct(s, S1), Distinct(t, S2)
    PROVE  s \o t \in Seq(T) /\ Len(s \o t) = Len(s) + Len(t) /\ Distinct(s \o t, S1 \cup S2)
<1> DEFINE r == s \o t
           m == Len(s)
           n == Len(t)
<1>1. /\ r \in Seq(T) /\ Len(r) = m + n /\ m \in Nat /\ n \in Nat
      /\ \A i \in 1 .. m + n : r[i] = IF i <= m THEN s[i] ELSE t[i - m]
  OBVIOUS
<1>2. /\ \A i \in 1 .. m : s[i] \in S1
      /\ \A i \in 1 .. n : t[i] \in S2
      /\ \A i, j \in 1 .. m : s[i] = s[j] => i = j
      /\ \A i, j \in 1 .. n : t[i] = t[j] => i = j
  BY DEF Distinct
<1> HIDE DEF r, m, n
<1>3. \A i \in 1 .. m + n :
        \/ i \in 1 .. m /\ r[i] = s[i] /\ r[i] \in S1
        \/ i - m \in 1 .. n /\ r[i] = t[i - m] /\ r[i] \in S2
  <2> SUFFICES ASSUME NEW i \in 1 .. m + n
               PROVE  \/ i \in 1 .. m /\ r[i] = s[i] /\ r[i] \in S1
                      \/ i - m \in 1 .. n /\ r[i] = t[i - m] /\ r[i] \in S2
    OBVIOUS
  <2>1. m \in Nat /\ n \in Nat /\ r[i] = IF i <= m THEN s[i] ELSE t[i - m]
    BY <1>1
  <2>2. CASE i <= m
    <3>1. i \in 1 .. m /\ r[i] = s[i]
      BY <2>1, <2>2
    <3> QED BY <1>2, <3>1
  <2>3. CASE ~(i <= m)
    <3>1. i - m \in 1 .. n /\ r[i] = t[i - m]
      BY <2>1, <2>3
    <3> QED BY <1>2, <3>1
  <2> QED BY <2>2, <2>3
<1>4. ASSUME NEW i \in 1 .. m + n, NEW j \in 1 .. m + n, r[i] = r[j]
      PROVE  i = j
  <2>1. \/ i \in 1 .. m /\ j \in 1 .. m /\ s[i] = s[j]
        \/ i - m \in 1 .. n /\ j - m \in 1 .. n /\ t[i - m] = t[j - m]
    BY <1>3, <1>4
  <2> QED BY <1>1, <1>2, <2>1
<1>5. Distinct(r, S1 \cup S2)
  BY <1>1, <1>3, <1>4 DEF Distinct
<1> QED BY <1>1, <1>5 DEF r, m, n

(* Whatever is asked for, the processors are called once each.              *)
LEMMA ChosenIsShort ==
    /\ Chosen \in Seq(config.tokens) /\ Len(Chosen) <= 3
    /\ \A i, j \in 1 .. Len(Chosen) : Chosen[i] = Chosen[j] => i = j
<1> DEFINE IfAsked(name) == IF name \in config.tokens THEN <<name>> ELSE << >>
           T == config.tokens
<1>1. ASSUME NEW name
      PROVE  /\ IfAsked(name) \in Seq(T) /\ Len(IfAsked(name)) \in {0, 1}
             /\ Distinct(IfAsked(name), {name})
  <2>1. CASE name \in T
    <3>1. IfAsked(name) = <<name>>
      BY <2>1
    <3>2. <<name>> \in Seq(T) /\ Len(<<name>>) = 1 /\ <<name>>[1] = name
      <4> HIDE DEF T
      <4> QED BY <2>1
    <3>3. Distinct(<<name>>, {name})
      BY <3>2 DEF Distinct
    <3> QED BY <3>1, <3>2, <3>3
  <2>2. CASE name \notin T
    <3>1. IfAsked(name) = << >>
      BY <2>2
    <3>2. << >> \in Seq(T) /\ Len(<< >>) = 0
      OBVIOUS
    <3>3. Distinct(<< >>, {name})
      BY <3>2 DEF Distinct
    <3> QED BY <3>1, <3>2, <3>3
  <2> QED BY <2>1, <2>2
<1> DEFINE a == IfAsked("PCL")
           b == IfAsked("SCAN")
           c == IfAsked("IMG")
<1>2. Chosen = (a \o b) \o c
  BY DEF Chosen
<1>3. /\ a \in Seq(T) /\ Len(a) \in {0, 1} /\ Distinct(a, {"PCL"})
      /\ b \in Seq(T) /\ Len(b) \in {0, 1} /\ Distinct(b, {"SCAN"})
      /\ c \in Seq(T) /\ Len(c) \in {0, 1} /\ Distinct(c, {"IMG"})
  BY <1>1, Zenon
<1> HIDE DEF a, b, c, T
<1> DEFINE d == a \o b
<1>4. d \in Seq(T) /\ Len(d) = Len(a) + Len(b) /\ Distinct(d, {"PCL"} \cup {"SCAN"})
  BY <1>3, DistinctConcat
<1> HIDE DEF d
<1> DEFINE e == d \o c
<1>5. /\ e \in Seq(T) /\ Len(e) = Len(d) + Len(c)
      /\ Distinct(e, ({"PCL"} \cup {"SCAN"}) \cup {"IMG"})
  BY <1>3, <1>4, DistinctConcat
<1>6. Chosen = e
  BY <1>2 DEF d
<1> HIDE DEF e
<1>7. Len(e) <= 3
  <2>1. /\ Len(a) \in {0, 1} /\ Len(b) \in {0, 1} /\ Len(c) \in {0, 1}
        /\ Len(e) = Len(a) + Len(b) + Len(c)
    BY <1>3, <1>4, <1>5, Zenon
  <2>2. \A x, y, z \in {0, 1} : x + y + z <= 3
    OBVIOUS
  <2> QED BY <2>1, <2>2, Zenon
<1> QED BY <1>5, <1>6, <1>7 DEF Distinct, T

Runs(name) == Running(name) /\ Created

(* The returns of the current scan that a processor is done with.           *)
Done(name) == IF name \in published THEN Returns ELSE IF Runs(name) THEN return ELSE 0

(* A sequence of processors is not one of the two states without any.       *)
LEMMA NotInitial ==
    ASSUME NEW q \in Seq({"PCL", "SCAN", "IMG"})
    PROVE  q # <<"create">> /\ q # <<"thrown">>
<1>1. \A i \in 1 .. Len(q) : q[i] \in {"PCL", "SCAN", "IMG"}
  OBVIOUS
<1>2. /\ Len(<<"create">>) = 1 /\ <<"create">>[1] = "create"
      /\ Len(<<"thrown">>) = 1 /\ <<"thrown">>[1] = "thrown"
  OBVIOUS
<1> QED BY <1>1, <1>2

(* A step of a processor: it is done with one more return, others with no   *)
(* more than before.                                                        *)
LEMMA ProcessorStep ==
    ASSUME ProcessInv, NEW name \in {"PCL", "SCAN", "IMG"}, Running(name), EndReturn,
           UNCHANGED <<config, scan>>
    PROVE  /\ ProcessInv' /\ Created /\ Created'
           /\ Done(name) = return /\ Done(name)' = return + 1 /\ return \in 0 .. Returns - 1
           /\ \A other \in {"PCL", "SCAN", "IMG"} : other # name => Done(other)' = Done(other)
<1> DEFINE q == processors
<1>1. Created
  BY DEF Running, Created
<1>2. /\ q \in Seq(config.tokens) /\ Len(q) <= 3 /\ q # << >> /\ Head(q) = name
      /\ \A i \in 1 .. Len(q) : q[i] \notin published
      /\ \A i, j \in 1 .. Len(q) : q[i] = q[j] => i = j
  BY <1>1 DEF Running, ProcessInv, Queue
<1>3. /\ 1 \in 1 .. Len(q) /\ q[1] = name /\ name \notin published
      /\ name \in config.tokens /\ Len(q) \in Nat \ {0}
      /\ Tail(q) \in Seq(config.tokens) /\ Len(Tail(q)) = Len(q) - 1
      /\ \A i \in 1 .. Len(Tail(q)) : i + 1 \in 1 .. Len(q) /\ Tail(q)[i] = q[i + 1]
  BY <1>2
<1>4. /\ Returns \in {1, 2} /\ return \in 0 .. Returns - 1 /\ Returns' = Returns
      /\ Done(name) = return
  BY <1>1, <1>3, ProfileReturns DEF ProcessInv, Returns, Done, Runs
<1>5. CASE return + 1 < Returns
  <2>1. return' = return + 1 /\ UNCHANGED <<processors, published>>
    BY <1>5 DEF EndReturn
  <2>2. Created' /\ Running(name)'
    BY <1>1, <2>1 DEF Created, Running
  <2>3. ProcessInv'
    BY <1>1, <1>2, <1>4, <1>5, <2>1, <2>2 DEF ProcessInv, Queue, Returns, ParametersValid,
       Supported
  <2>4. Done(name)' = return + 1
    BY <1>3, <2>1, <2>2 DEF Done, Runs
  <2>5. ASSUME NEW other \in {"PCL", "SCAN", "IMG"}, other # name
        PROVE  Done(other)' = Done(other)
    <3>1. ~Running(other) /\ ~Running(other)'
      BY <1>2, <2>1, <2>5 DEF Running
    <3> QED BY <1>4, <2>1, <3>1 DEF Done, Runs
  <2> QED BY <1>1, <1>4, <2>2, <2>3, <2>4, <2>5
<1>6. CASE ~(return + 1 < Returns)
  <2>1. /\ return' = 0 /\ processors' = Tail(q) /\ published' = published \cup {name}
        /\ Returns = return + 1
    BY <1>2, <1>4, <1>6 DEF EndReturn
  <2>2. Created'
    <3>1. \A i \in 1 .. Len(Tail(q)) : Tail(q)[i] \in {"PCL", "SCAN", "IMG"}
      BY <1>3, Asked DEF ProcessInv
    <3>2. Tail(q) # <<"create">> /\ Tail(q) # <<"thrown">>
      <4>1. Tail(q) \in Seq({"PCL", "SCAN", "IMG"})
        BY <1>3, <3>1, ElementsTyped, Zenon
      <4> QED BY <4>1, NotInitial
    <3> QED BY <2>1, <3>2 DEF Created
  <2>3. Queue(processors)'
    BY <1>2, <1>3, <2>1 DEF Queue
  <2>4. ProcessInv'
    BY <1>1, <1>3, <1>4, <2>1, <2>2, <2>3 DEF ProcessInv, ParametersValid, Supported
  <2>5. Done(name)' = return + 1
    BY <1>4, <2>1 DEF Done
  <2>6. ASSUME NEW other \in {"PCL", "SCAN", "IMG"}, other # name
        PROVE  Done(other)' = Done(other)
    <3>1. ~Running(other)
      BY <1>2, <2>6 DEF Running
    <3> QED BY <1>4, <2>1, <2>6, <3>1 DEF Done, Runs
  <2> QED BY <1>1, <1>4, <2>2, <2>4, <2>5, <2>6
<1> QED BY <1>5, <1>6

(* The other steps: nothing is done yet with a scan that begins.            *)
LEMMA OtherStep ==
    ASSUME ProcessInv, CreateHandlers \/ CreateThrows \/ NextScan \/ UNCHANGED vars
    PROVE  /\ ProcessInv'
           /\ UNCHANGED vars \/ \A name \in {"PCL", "SCAN", "IMG"} : Done(name)' = 0
<1>0. /\ config \in Configs /\ config' = config
      /\ config.tokens \subseteq {"PCL", "SCAN", "IMG"}
      /\ config.profile \notin DOMAIN ScanProfile => "PCL" \in config.tokens
  BY ParameterAssumption DEF ProcessInv, CreateHandlers, CreateThrows, NextScan, vars
<1>1. CASE CreateHandlers
  <2>1. /\ published' = {} /\ return' = 0 /\ processors' = << >> /\ scan' = scan
        /\ "PCL" \in config.tokens => ParametersValid /\ Supported
    BY <1>1 DEF CreateHandlers, ProcessInv, Created
  <2>2. config.profile \in DOMAIN ScanProfile /\ Returns \in {1, 2}
    <3>1. config.profile \in DOMAIN ScanProfile
      BY <1>0, <2>1 DEF Supported
    <3> QED BY <3>1, ProfileReturns DEF Returns
  <2>3. Queue(processors)'
    BY <2>1 DEF Queue
  <2>4. Created'
    BY <2>1, NotInitial DEF Created
  <2>5. Returns' = Returns /\ ParametersValid' = ParametersValid /\ Supported' = Supported
    BY <1>0 DEF Returns, ParametersValid, Supported
  <2>6. ProcessInv'
    BY <1>0, <2>1, <2>2, <2>3, <2>4, <2>5 DEF ProcessInv
  <2>7. \A name \in {"PCL", "SCAN", "IMG"} : Done(name)' = 0
    BY <2>1 DEF Done, Runs, Running
  <2> QED BY <2>6, <2>7
<1>2. CASE CreateThrows
  <2>1. /\ published' = {} /\ return' = 0 /\ processors' = <<"thrown">> /\ scan' = scan
        /\ ~Created'
    BY <1>2 DEF CreateThrows, ProcessInv, Created
  <2>2. ProcessInv'
    BY <1>0, <2>1 DEF ProcessInv
  <2>3. \A name \in {"PCL", "SCAN", "IMG"} : Done(name)' = 0
    BY <2>1 DEF Done, Runs
  <2> QED BY <2>2, <2>3
<1>3. CASE NextScan
  <2>1. /\ published' = {} /\ return' = 0 /\ processors' = Chosen /\ Chosen' = Chosen
        /\ scan'.id = scan.id + 1 /\ scan.id < MaxScans /\ processors = << >>
    BY <1>0, <1>3 DEF NextScan, Chosen
  <2>2. Created
    BY <2>1, NotInitial DEF Created
  <2>3. /\ Chosen \in Seq(config.tokens) /\ Len(Chosen) <= 3
        /\ \A i, j \in 1 .. Len(Chosen) : Chosen[i] = Chosen[j] => i = j
    BY ChosenIsShort
  <2>4. Queue(processors)'
    BY <1>0, <2>1, <2>3 DEF Queue
  <2>5. Chosen \in Seq({"PCL", "SCAN", "IMG"})
    <3>1. \A i \in 1 .. Len(Chosen) : Chosen[i] \in {"PCL", "SCAN", "IMG"}
      BY <1>0, <2>3
    <3> QED BY <2>3, <3>1
  <2>6. Created'
    BY <2>1, <2>5, NotInitial DEF Created
  <2>7. /\ Returns' = Returns /\ ParametersValid' = ParametersValid
        /\ Supported' = Supported /\ 0 \in 0 .. Returns - 1
    BY <1>0, <2>2, ProfileReturns DEF Returns, ParametersValid, Supported, ProcessInv
  <2>8. scan'.id \in 0 .. MaxScans
    BY <2>1, ParameterAssumption DEF ProcessInv
  <2>9. ProcessInv'
    BY <1>0, <2>1, <2>2, <2>4, <2>6, <2>7, <2>8 DEF ProcessInv
  <2>10. \A name \in {"PCL", "SCAN", "IMG"} : Done(name)' = 0
    BY <2>1 DEF Done, Runs
  <2> QED BY <2>9, <2>10
<1>4. CASE UNCHANGED vars
  BY <1>4 DEF vars, ProcessInv, Created, Queue, Returns, ParametersValid, Supported
<1> QED BY <1>1, <1>2, <1>3, <1>4

LEMMA NextScanCreated ==
    ASSUME ProcessInv, NextScan PROVE Created'
<1>1. processors' = Chosen /\ Chosen \in Seq(config.tokens)
  BY ChosenIsShort DEF NextScan
<1>2. \A i \in 1 .. Len(Chosen) : Chosen[i] \in {"PCL", "SCAN", "IMG"}
  BY <1>1, Asked DEF ProcessInv
<1>3. Chosen \in Seq({"PCL", "SCAN", "IMG"})
  BY <1>1, <1>2, ElementsTyped, Zenon
<1> QED BY <1>1, <1>3, NotInitial DEF Created

LEMMA ProcessStep == ProcessInv /\ [Next]_vars => ProcessInv'
<1> SUFFICES ASSUME ProcessInv, [Next]_vars PROVE ProcessInv'
  OBVIOUS
<1>1. CASE CreateHandlers \/ CreateThrows \/ NextScan \/ UNCHANGED vars
  BY <1>1, OtherStep
<1>2. CASE MakeCloud \/ MakeLaserScan \/ MakeImages
  <2>1. \E name \in {"PCL", "SCAN", "IMG"} : Running(name)
    BY <1>2 DEF MakeCloud, MakeLaserScan, MakeImages
  <2>2. EndReturn /\ UNCHANGED <<config, scan>>
    BY <1>2 DEF MakeCloud, MakeLaserScan, MakeImages
  <2> QED BY <2>1, <2>2, ProcessorStep
<1> QED BY <1>1, <1>2 DEF Next

LEMMA ProcessInit == Init => ProcessInv
  BY ParameterAssumption DEF Init, ProcessInv, Created, NoScan

-----------------------------------------------------------------------------
(* Division, and remainders of remainders.                                  *)
LEMMA Division ==
    ASSUME NEW w \in Nat \ {0}, NEW x \in Int
    PROVE  /\ x \div w \in Int /\ x % w \in 0 .. w - 1
           /\ x = w * (x \div w) + (x % w)
<1>1. x \div w \in Int
  OBVIOUS
<1>2. x % w \in 0 .. w - 1
  OBVIOUS
<1>3. x = w * (x \div w) + (x % w)
  OBVIOUS
<1> QED BY <1>1, <1>2, <1>3

LEMMA Remainders ==
    ASSUME NEW w \in Nat \ {0}, NEW q \in Int, NEW r \in 0 .. w - 1, NEW x \in Int,
           x = w * q + r
    PROVE  x % w = r /\ x \div w = q
<1> DEFINE p == x \div w
           s == x % w
<1>1. p \in Int /\ s \in 0 .. w - 1 /\ x = w * p + s
  BY Division
<1> HIDE DEF p, s
<1>2. p = q
  <2>1. CASE p > q
    <3>1. w * p >= w * (q + 1)
      BY <1>1, <2>1
    <3>2. w * (q + 1) = w * q + w
      OBVIOUS
    <3> DEFINE a == w * p
               b == w * q
    <3>3. a \in Int /\ b \in Int /\ a >= b + w /\ b + r = a + s
      BY <1>1, <3>1, <3>2
    <3> HIDE DEF a, b
    <3> QED BY <1>1, <3>3
  <2>2. CASE p < q
    <3>1. w * q >= w * (p + 1)
      BY <1>1, <2>2
    <3>2. w * (p + 1) = w * p + w
      BY <1>1
    <3> DEFINE a == w * p
               b == w * q
    <3>3. a \in Int /\ b \in Int /\ b >= a + w /\ b + r = a + s
      BY <1>1, <3>1, <3>2
    <3> HIDE DEF a, b
    <3> QED BY <1>1, <3>3
  <2> QED BY <1>1, <2>1, <2>2
<1>3. s = r
  BY <1>1, <1>2
<1> QED BY <1>2, <1>3 DEF p, s

(* Whole periods do not change a remainder.                                 *)
LEMMA RemainderPeriod ==
    ASSUME NEW w \in Nat \ {0}, NEW q \in Int, NEW y \in Int
    PROVE  (w * q + y) % w = y % w
<1> DEFINE p == y \div w
           r == y % w
           x == w * q + y
<1>1. p \in Int /\ r \in 0 .. w - 1 /\ y = w * p + r
  BY Division
<1> HIDE DEF p, r
<1>2. x \in Int /\ q + p \in Int /\ x = w * (q + p) + r
  BY <1>1
<1> HIDE DEF x
<1>3. x % w = r
  BY <1>1, <1>2, Remainders
<1> QED BY <1>3 DEF x, r

(* size_t wraps at a multiple of the width of a scan.                       *)
LEMMA RemainderOfRemainder ==
    ASSUME NEW w \in Nat \ {0}, NEW m \in Nat \ {0}, m % w = 0, NEW x \in Int
    PROVE  (x % m) % w = x % w
<1> DEFINE k == m \div w
           p == x \div m
           r == x % m
<1>1. k \in Int /\ m = w * k
  BY Division
<1>2. p \in Int /\ r \in Int /\ x = m * p + r
  BY Division
<1> HIDE DEF k, p, r
<1>3. k * p \in Int /\ x = w * (k * p) + r
  BY <1>1, <1>2
<1>4. (w * (k * p) + r) % w = r % w
  BY <1>2, <1>3, RemainderPeriod
<1> QED BY <1>3, <1>4 DEF r

LEMMA SumOfRemainder ==
    ASSUME NEW w \in Nat \ {0}, NEW x \in Int, NEW y \in Int
    PROVE  ((x % w) + y) % w = (x + y) % w
<1> DEFINE p == x \div w
           r == x % w
<1>1. p \in Int /\ r \in Int /\ x = w * p + r
  BY Division
<1> HIDE DEF p, r
<1>2. x + y = w * p + (r + y)
  BY <1>1
<1>3. (w * p + (r + y)) % w = (r + y) % w
  <2>1. r + y \in Int
    BY <1>1
  <2> QED BY <1>1, <2>1, RemainderPeriod
<1> QED BY <1>2, <1>3 DEF r

(* Destaggering undoes the shift of the row.                                *)
LEMMA ShiftUndone ==
    ASSUME NEW w \in Nat \ {0}, NEW shift \in Int, NEW c \in 0 .. w - 1
    PROVE  (((c + shift) % w) + (w - shift)) % w = c
<1>1. (((c + shift) % w) + (w - shift)) % w = ((c + shift) + (w - shift)) % w
  <2>1. c + shift \in Int /\ w - shift \in Int
    OBVIOUS
  <2> QED BY <2>1, SumOfRemainder
<1>2. (c + shift) + (w - shift) = w * 1 + c
  OBVIOUS
<1>3. (w * 1 + c) % w = c % w /\ c % w = c
  <2>1. c \in Int /\ 1 \in Int
    OBVIOUS
  <2>2. c % w = c
    OBVIOUS
  <2> QED BY <2>1, <2>2, RemainderPeriod
<1> QED BY <1>1, <1>2, <1>3

(* An image computes it in size_t, a cloud in int.                          *)
LEMMA ImageColumnValue ==
    ASSUME NEW w \in Nat \ {0}, SizeModulus % w = 0, NEW shift \in Int, NEW v \in Int
    PROVE  ImageColumn(v, w, shift) = (v + (w - shift)) % w
<1> DEFINE y == v + w - shift
<1>1. y \in Int /\ y = v + (w - shift)
  OBVIOUS
<1>2. (y % SizeModulus) % w = y % w
  BY <1>1, SizeAssumption, RemainderOfRemainder
<1> QED BY <1>1, <1>2 DEF ImageColumn

LEMMA ImageColumnUpright ==
    ASSUME NEW w \in Nat \ {0}, SizeModulus % w = 0, NEW shift \in Int,
           NEW c \in 0 .. w - 1
    PROVE  ImageColumn((c + shift) % w, w, shift) = c
<1>1. (c + shift) % w \in Int
  <2>1. c + shift \in Int
    OBVIOUS
  <2> QED BY <2>1, Division
<1>2. ImageColumn((c + shift) % w, w, shift) = (((c + shift) % w) + (w - shift)) % w
  BY <1>1, ImageColumnValue
<1> QED BY <1>2, ShiftUndone

LEMMA CloudColumnUpright ==
    ASSUME NEW w \in Nat \ {0}, NEW shift \in - w .. w, NEW v \in 0 .. w - 1
    PROVE  CloudColumn(v, w, shift, TRUE) = (v + (w - shift)) % w
<1>1. v + w - shift \in Nat /\ v + w - shift = v + (w - shift)
  OBVIOUS
<1> QED BY <1>1 DEF CloudColumn, Remainder

-----------------------------------------------------------------------------
(* The images.                                                              *)
KeysOf(r) ==
    {ScanReturn(channel, r) : channel \in {"RANGE", "SIGNAL", "REFLECTIVITY"}}
    \cup (IF r = 0 THEN ImageKeys \cap {"NEAR_IR", "RGB"} ELSE {})

ImagesInv ==
    /\ ~Created => image_msgs = << >>
    /\ Created => /\ DOMAIN image_msgs = ImageKeys
                  /\ \A key \in ImageKeys : DOMAIN image_msgs[key] = Pixels
    /\ \A r \in 0 .. Done("IMG") - 1 : \A key \in KeysOf(r) : image_msgs[key] = Image(key)

LEMMA KeysOfReturns ==
    ASSUME Returns \in {1, 2}
    PROVE  /\ \A r \in 0 .. Returns - 1 : KeysOf(r) \subseteq ImageKeys
           /\ ImageKeys = UNION {KeysOf(r) : r \in 0 .. Returns - 1}
<1>1. KeysOf(0) = {"RANGE", "SIGNAL", "REFLECTIVITY"} \cup (ImageKeys \cap {"NEAR_IR", "RGB"})
  BY DEF KeysOf, ScanReturn
<1>2. KeysOf(1) = {"RANGE2", "SIGNAL2", "REFLECTIVITY2"}
  BY DEF KeysOf, ScanReturn
<1>3. CASE Returns = 1
  <2>1. 0 .. Returns - 1 = {0}
    BY <1>3
  <2>2. UNION {KeysOf(r) : r \in {0}} = KeysOf(0)
    BY Zenon
  <2>3. ImageKeys = KeysOf(0)
    BY <1>1, <1>3 DEF ImageKeys
  <2> QED BY <2>1, <2>2, <2>3
<1>4. CASE Returns = 2
  <2>1. 0 .. Returns - 1 = {0, 1}
    BY <1>4
  <2>2. UNION {KeysOf(r) : r \in {0, 1}} = KeysOf(0) \cup KeysOf(1)
    BY Zenon
  <2>3. ImageKeys = KeysOf(0) \cup KeysOf(1)
    BY <1>1, <1>2, <1>4 DEF ImageKeys
  <2> QED BY <2>1, <2>2, <2>3
<1> QED BY <1>3, <1>4

(* What an image shows depends on the scan and the parameters only.         *)
LEMMA ImageStays ==
    ASSUME UNCHANGED <<config, scan>>
    PROVE  /\ \A key : Image(key)' = Image(key)
           /\ ImageKeys' = ImageKeys /\ Pixels' = Pixels /\ \A r : KeysOf(r)' = KeysOf(r)
  BY DEF Image, LoadMask, Masked, GetOrFillZero, ScanFields, Pixels, PixelAt, ImageKeys,
     Returns, KeysOf

LEMMA ImagesStep ==
    ASSUME ProcessInv, ImagesInv, [Next]_vars
    PROVE  ImagesInv'
<1>1. CASE CreateHandlers \/ CreateThrows \/ NextScan \/ UNCHANGED vars
  <2>1. ProcessInv' /\ (UNCHANGED vars \/ Done("IMG")' = 0)
    BY <1>1, OtherStep
  <2>2. CASE UNCHANGED vars
    <3>1. UNCHANGED <<config, scan, image_msgs, published, processors, return>>
      BY <2>2 DEF vars
    <3>2. Done("IMG")' = Done("IMG") /\ Created' = Created
      BY <3>1 DEF Done, Runs, Running, Created, Returns
    <3> QED BY <3>1, <3>2, ImageStays DEF ImagesInv
  <2>3. CASE Done("IMG")' = 0
    <3>1. /\ ~Created' => image_msgs' = << >>
          /\ Created' => /\ DOMAIN image_msgs' = ImageKeys'
                         /\ \A key \in ImageKeys' : DOMAIN image_msgs'[key] = Pixels'
      <4>1. CASE CreateHandlers
        <5>1. ImageKeys' = ImageKeys /\ Pixels' = Pixels
          BY <4>1, ImageStays DEF CreateHandlers
        <5>2. processors' = << >> /\ image_msgs' = [key \in ImageKeys |-> Blank(key)]
          BY <4>1 DEF CreateHandlers
        <5>3. Created'
          BY <5>2, NotInitial DEF Created
        <5> QED BY <5>1, <5>2, <5>3 DEF Blank
      <4>2. CASE CreateThrows
        <5>1. ~Created' /\ ~Created /\ image_msgs' = image_msgs
          BY <4>2 DEF CreateThrows, Created
        <5> QED BY <5>1 DEF ImagesInv
      <4>3. CASE NextScan
        <5>1. processors = << >> /\ config' = config /\ image_msgs' = image_msgs
          BY <4>3 DEF NextScan
        <5>2. Created
          BY <5>1, NotInitial DEF Created
        <5>3. ImageKeys' = ImageKeys /\ Pixels' = Pixels
          BY <5>1 DEF ImageKeys, Pixels, Returns, ScanFields
        <5>4. Created'
          BY <2>1, <4>3, NextScanCreated DEF NextScan
        <5> QED BY <5>1, <5>2, <5>3, <5>4 DEF ImagesInv
      <4>4. CASE UNCHANGED vars
        BY <4>4, ImageStays DEF vars, ImagesInv, Created
      <4> QED BY <1>1, <4>1, <4>2, <4>3, <4>4
    <3>2. 0 .. Done("IMG")' - 1 = {}
      BY <2>3
    <3> QED BY <3>1, <3>2 DEF ImagesInv
  <2> QED BY <2>1, <2>2, <2>3
<1>2. CASE MakeCloud \/ MakeLaserScan
  <2>1. PICK name \in {"PCL", "SCAN"} : Running(name)
    BY <1>2 DEF MakeCloud, MakeLaserScan
  <2>2. EndReturn /\ UNCHANGED <<config, scan, image_msgs>>
    BY <1>2 DEF MakeCloud, MakeLaserScan
  <2>3. Created /\ Created' /\ Done("IMG")' = Done("IMG")
    BY <2>1, <2>2, ProcessorStep
  <2> QED BY <2>2, <2>3, ImageStays DEF ImagesInv
<1>3. CASE MakeImages
  <2>1. /\ Running("IMG") /\ EndReturn /\ UNCHANGED <<config, scan>>
        /\ image_msgs' = [key \in ImageKeys |->
                            IF key \in KeysOf(return) THEN Image(key) ELSE image_msgs[key]]
    BY <1>3 DEF MakeImages, KeysOfReturn, KeysOf
  <2>2. /\ Created /\ Created' /\ return \in 0 .. Returns - 1
        /\ Done("IMG") = return /\ Done("IMG")' = return + 1
    BY <2>1, ProcessorStep
  <2>3. Returns \in {1, 2}
    BY <2>2, ProfileReturns DEF ProcessInv, Returns
  <2>4. \A r \in 0 .. return : KeysOf(r) \subseteq ImageKeys
    BY <2>2, <2>3, KeysOfReturns
  <2>5. ASSUME NEW r \in 0 .. return, NEW key \in KeysOf(r)
        PROVE  image_msgs'[key] = Image(key)
    <3>1. CASE key \in KeysOf(return)
      BY <2>1, <2>4, <3>1
    <3>2. CASE key \notin KeysOf(return)
      <4>1. r \in 0 .. Done("IMG") - 1
        BY <2>2, <2>5, <3>2
      <4> QED BY <2>1, <2>4, <3>2, <4>1 DEF ImagesInv
    <3> QED BY <3>1, <3>2
  <2>6. \A key \in ImageKeys : DOMAIN image_msgs'[key] = Pixels
    BY <2>1, <2>2 DEF ImagesInv, Image
  <2>7. 0 .. Done("IMG")' - 1 = 0 .. return
    BY <2>2
  <2>8. DOMAIN image_msgs' = ImageKeys
    BY <2>1
  <2> QED BY <2>1, <2>2, <2>5, <2>6, <2>7, <2>8, ImageStays DEF ImagesInv
<1> QED BY <1>1, <1>2, <1>3 DEF Next

(* Where a pixel is.                                                        *)
LEMMA PixelPlace ==
    ASSUME config \in Configs, NEW u \in Rows, NEW x \in Columns
    PROVE  /\ PixelAt(u, x) \in Pixels
           /\ PixelAt(u, x) \div config.w = u /\ PixelAt(u, x) % config.w = x
<1> DEFINE h == config.h
           w == config.w
<1>1. h \in Nat \ {0} /\ w \in Nat \ {0} /\ u \in 0 .. h - 1 /\ x \in 0 .. w - 1
  BY ConfigAssumption DEF Rows, Columns
<1> HIDE DEF h, w
<1>2. u * w = w * u /\ u * w \in Nat /\ u * w + x \in Int
  BY <1>1
<1>3. (u * w + x) \div w = u /\ (u * w + x) % w = x
  BY <1>1, <1>2, Remainders
<1>4. u * w + x \in 0 .. h * w - 1
  <2>1. (u + 1) * w <= h * w
    BY <1>1
  <2>2. (u + 1) * w = u * w + w
    BY <1>1
  <2> DEFINE a == u * w
             b == h * w
  <2>3. a \in Nat /\ b \in Int /\ a + w <= b
    BY <1>1, <1>2, <2>1, <2>2
  <2> HIDE DEF a, b
  <2>4. a + x \in 0 .. b - 1
    BY <1>1, <2>3
  <2> QED BY <2>4 DEF a, b
<1> QED BY <1>3, <1>4 DEF PixelAt, Pixels, h, w

LEMMA ImagesImply == ProcessInv /\ ImagesInv => ImagesShowScan
<1> SUFFICES ASSUME ProcessInv, ImagesInv, "IMG" \in published,
                    NEW key \in ImageKeys, NEW u \in Rows, NEW c \in Columns
             PROVE  LET p == PixelAt(u, UprightColumn(u, c))
                    IN  image_msgs[key][p] =
                          IF Masked /\ LoadMask(config.h)[p] = 0 THEN Number(0)
                          ELSE GetOrFillZero(IF key = "RGB" THEN "R_U8" ELSE key,
                                             PixelAt(u, c))
  BY DEF ImagesShowScan
<1> DEFINE x == UprightColumn(u, c)
           p == PixelAt(u, x)
           shift == config.pixel_shift_by_row[u]
<1>1. /\ config.w \in Nat \ {0} /\ SizeModulus % config.w = 0
      /\ shift \in Int /\ c \in 0 .. config.w - 1
  BY ConfigAssumption DEF ProcessInv, Rows, Columns
<1>2. x \in Columns
  <2>1. c + shift \in Int
    BY <1>1
  <2>2. (c + shift) % config.w \in 0 .. config.w - 1
    BY <1>1, <2>1, Division
  <2> QED BY <2>2 DEF UprightColumn, Columns
<1>3. p \in Pixels /\ p \div config.w = u /\ p % config.w = x
  BY <1>2, PixelPlace DEF ProcessInv
<1>4. ImageColumn(x, config.w, shift) = c
  BY <1>1, ImageColumnUpright DEF UprightColumn
<1>5. image_msgs[key] = Image(key)
  <2>1. Created /\ Done("IMG") = Returns
    BY DEF ProcessInv, Done
  <2>2. Returns \in {1, 2}
    BY <2>1, ProfileReturns DEF ProcessInv, Returns
  <2>3. PICK r \in 0 .. Returns - 1 : key \in KeysOf(r)
    BY <2>2, KeysOfReturns
  <2> QED BY <2>1, <2>3 DEF ImagesInv
<1>6. Image(key)[p] = IF Masked /\ LoadMask(config.h)[p] = 0 THEN Number(0)
                      ELSE GetOrFillZero(ImageChannel(key), PixelAt(u, c))
  <2> HIDE DEF p, x
  <2> QED BY <1>3, <1>4 DEF Image, shift
<1> QED BY <1>5, <1>6 DEF ImageChannel

-----------------------------------------------------------------------------
(* The indices a loop keeps are numbered from 1 in their order.             *)
LEMMA Numbering ==
    ASSUME NEW n \in Nat, NEW S \in SUBSET (1 .. n)
    PROVE  /\ IsFiniteSet(S) /\ Cardinality(S) \in Nat
           /\ \A i \in S : Rank(S, i) \in 1 .. Cardinality(S) /\ Nth(S, Rank(S, i)) = i
           /\ \A k \in 1 .. Cardinality(S) : Nth(S, k) \in S
<1> DEFINE m == Cardinality(S)
           f == [i \in S |-> Rank(S, i)]
<1>1. IsFiniteSet(S) /\ m \in Nat
  <2>1. IsFiniteSet(1 .. n)
    BY FS_Interval
  <2> QED BY <2>1, FS_Subset, FS_CardinalityType
<1>2. \A i \in S : /\ IsFiniteSet(S \cap (1 .. i))
                   /\ Rank(S, i) = Cardinality(S \cap (1 .. i))
                   /\ i \in S \cap (1 .. i) /\ Rank(S, i) \in 1 .. m
  <2> SUFFICES ASSUME NEW i \in S
               PROVE  /\ IsFiniteSet(S \cap (1 .. i))
                      /\ Rank(S, i) = Cardinality(S \cap (1 .. i))
                      /\ i \in S \cap (1 .. i) /\ Rank(S, i) \in 1 .. m
    OBVIOUS
  <2> DEFINE T == S \cap (1 .. i)
  <2>1. T \in SUBSET S /\ i \in T
    OBVIOUS
  <2> HIDE DEF T
  <2>2. IsFiniteSet(T) /\ Cardinality(T) <= m
    BY <1>1, <2>1, FS_Subset
  <2>3. Cardinality(T) \in Nat /\ Cardinality(T) # 0
    BY <2>1, <2>2, FS_CardinalityType, FS_EmptySet
  <2>4. Cardinality(T) \in 1 .. m
    BY <1>1, <2>2, <2>3
  <2> QED BY <2>1, <2>2, <2>4 DEF Rank, T
<1>3. \A i, j \in S : i < j => Rank(S, i) # Rank(S, j)
  <2> SUFFICES ASSUME NEW i \in S, NEW j \in S, i < j, Rank(S, i) = Rank(S, j) PROVE FALSE
    OBVIOUS
  <2>1. S \cap (1 .. i) \in SUBSET (S \cap (1 .. j)) /\ j \notin S \cap (1 .. i)
    OBVIOUS
  <2>2. S \cap (1 .. i) = S \cap (1 .. j)
    BY <1>2, <2>1, FS_Subset
  <2> QED BY <1>2, <2>1, <2>2
<1>4. f \in Injection(S, 1 .. m)
  <2>1. \A i, j \in S : i < j \/ j < i \/ i = j
    OBVIOUS
  <2>2. f \in [S -> 1 .. m]
    BY <1>2
  <2>3. \A i, j \in S : f[i] = f[j] => i = j
    BY <1>3, <2>1
  <2> QED BY <2>2, <2>3 DEF Injection, IsInjective
<1>5. f \in Surjection(S, 1 .. m)
  <2>1. IsFiniteSet(1 .. m) /\ Cardinality(1 .. m) = m
    BY <1>1, FS_Interval
  <2> HIDE DEF f
  <2> QED BY <1>4, <2>1, FS_Injection
<1>6. \A k \in 1 .. m : \E i \in S : Rank(S, i) = k
  BY <1>5 DEF Surjection
<1>7. \A k \in 1 .. m : Nth(S, k) \in S
  BY <1>6 DEF Nth
<1>8. ASSUME NEW i \in S PROVE Nth(S, Rank(S, i)) = i
  <2>1. Nth(S, Rank(S, i)) \in S /\ Rank(S, Nth(S, Rank(S, i))) = Rank(S, i)
    BY DEF Nth
  <2> QED BY <1>4, <2>1 DEF Injection, IsInjective
<1> QED BY <1>1, <1>2, <1>7, <1>8

(* One row of the cloud for every row visited.                              *)
LEMMA VisitedCount ==
    ASSUME NEW h \in Nat \ {0}, NEW step \in Nat \ {0}, h % step = 0
    PROVE  CloudRows(h, step) \in Nat /\ Cardinality(VisitedRows(h, step)) = CloudRows(h, step)
<1> DEFINE n == CloudRows(h, step)
           f == [i \in 1 .. n |-> step * (i - 1)]
<1>1. n \in Nat
  BY DEF CloudRows
<1>2. \A i \in 1 .. n : step * (i - 1) \in VisitedRows(h, step) /\ (step * (i - 1)) \div step = i - 1
  <2> SUFFICES ASSUME NEW i \in 1 .. n
               PROVE  step * (i - 1) \in VisitedRows(h, step) /\ (step * (i - 1)) \div step = i - 1
    OBVIOUS
  <2>1. i - 1 \in 0 .. n - 1
    BY <1>1
  <2> QED BY <2>1, MultipleVisited
<1>3. f \in Injection(1 .. n, VisitedRows(h, step))
  <2>1. \A i, j \in 1 .. n : f[i] = f[j] => i - 1 = j - 1
    BY <1>2
  <2>2. \A i, j \in 1 .. n : i - 1 = j - 1 => i = j
    OBVIOUS
  <2>3. f \in [1 .. n -> VisitedRows(h, step)]
    BY <1>2
  <2> HIDE DEF f
  <2> QED BY <2>1, <2>2, <2>3 DEF Injection, IsInjective
<1>4. f \in Surjection(1 .. n, VisitedRows(h, step))
  <2> SUFFICES ASSUME NEW u \in VisitedRows(h, step)
               PROVE  \E i \in 1 .. n : f[i] = u
    BY <1>2 DEF Surjection
  <2>1. u \div step \in 0 .. n - 1 /\ u = step * (u \div step)
    BY VisitedRowQuotient
  <2>2. \A q \in 0 .. n - 1 : q + 1 \in 1 .. n /\ (q + 1) - 1 = q
    BY <1>1
  <2>3. (u \div step) + 1 \in 1 .. n /\ f[(u \div step) + 1] = u
    BY <2>1, <2>2
  <2> QED BY <2>3
<1> HIDE DEF n, f
<1>5. ExistsBijection(1 .. n, VisitedRows(h, step))
  BY <1>3, <1>4 DEF ExistsBijection, Bijection
<1> QED BY <1>1, <1>5, FS_CountingElements DEF n

(* The k-th iteration of the loops, and the size of the cloud.              *)
Size == config.w * CloudRows(config.h, config.v_reduction)
RowOf(k) == ((k - 1) \div config.w) * config.v_reduction
PlaceOf(k) == (k - 1) % config.w

LEMMA VisitedPlace ==
    ASSUME config \in Configs, config.v_reduction \in Reductions
    PROVE  /\ Size \in Nat /\ Visited = [k \in 1 .. Size |-> <<RowOf(k), PlaceOf(k)>>]
           /\ \A k \in 1 .. Size :
                /\ RowOf(k) \in VisitedRows(config.h, config.v_reduction)
                /\ PlaceOf(k) \in Columns
                /\ CloudTarget(RowOf(k), PlaceOf(k), config.w, config.v_reduction) = k - 1
           /\ \A u \in VisitedRows(config.h, config.v_reduction), v \in Columns :
                LET k == 1 + (u \div config.v_reduction) * config.w + v
                IN  k \in 1 .. Size /\ RowOf(k) = u /\ PlaceOf(k) = v
<1> DEFINE h == config.h
           w == config.w
           step == config.v_reduction
           n == CloudRows(h, step)
<1>1. h \in Nat \ {0} /\ w \in Nat \ {0} /\ step \in Nat \ {0} /\ h % step = 0
  BY ConfigAssumption
<1>2. Columns = 0 .. w - 1 /\ Size = w * n
  BY DEF Columns, Size
<1>3. /\ \A k : RowOf(k) = ((k - 1) \div w) * step
      /\ \A k : PlaceOf(k) = (k - 1) % w
      /\ Visited = [k \in 1 .. w * Cardinality(VisitedRows(h, step)) |->
                        <<((k - 1) \div w) * step, (k - 1) % w>>]
  BY DEF RowOf, PlaceOf, Visited
<1> HIDE DEF h, w, step
<1>4. n \in Nat /\ Cardinality(VisitedRows(h, step)) = n
  BY <1>1, VisitedCount
<1>5. w * n \in Nat
  BY <1>1, <1>4
<1>6. Size \in Nat /\ Visited = [k \in 1 .. Size |-> <<RowOf(k), PlaceOf(k)>>]
  BY <1>2, <1>3, <1>4, <1>5
<1>7. ASSUME NEW k \in 1 .. Size
      PROVE  /\ RowOf(k) \in VisitedRows(h, step)
             /\ PlaceOf(k) \in Columns
             /\ CloudTarget(RowOf(k), PlaceOf(k), w, step) = k - 1
  <2> DEFINE q == (k - 1) \div w
             v == (k - 1) % w
  <2>1. k - 1 \in 0 .. w * n - 1
    BY <1>2, <1>5
  <2>2. /\ q \in 0 .. n - 1 /\ v \in 0 .. w - 1
        /\ k - 1 = q * w + v
    BY <1>1, <1>4, <2>1, RowMajor, Zenon
  <2> HIDE DEF q, v, n
  <2>3. step * q \in VisitedRows(h, step) /\ (step * q) \div step = q /\ q * step = step * q
    <3>1. q \in 0 .. CloudRows(h, step) - 1 /\ q \in Int
      BY <2>2 DEF n
    <3>2. q * step = step * q
      BY <1>1, <3>1
    <3> QED BY <1>1, <3>1, <3>2, MultipleVisited
  <2>4. RowOf(k) = step * q /\ PlaceOf(k) = v
    BY <1>3, <2>3 DEF q, v
  <2> QED BY <1>2, <2>2, <2>3, <2>4, Zenon DEF CloudTarget
<1>8. ASSUME NEW u \in VisitedRows(h, step), NEW v \in Columns
      PROVE  LET k == 1 + (u \div step) * w + v
             IN  k \in 1 .. Size /\ RowOf(k) = u /\ PlaceOf(k) = v
  <2> DEFINE q == u \div step
             k == 1 + q * w + v
  <2>1. q \in 0 .. n - 1 /\ u = step * q /\ v \in 0 .. w - 1
    BY <1>1, <1>2, VisitedRowQuotient
  <2> HIDE DEF q
  <2>2. q * w + v \in 0 .. w * n - 1
    BY <1>1, <1>4, <2>1, RowMajor
  <2> DEFINE a == q * w
  <2>3. a \in Int /\ a = w * q /\ v \in Int /\ a + v \in 0 .. Size - 1
    BY <1>1, <1>2, <1>4, <2>1, <2>2
  <2> HIDE DEF a, n
  <2>4. 1 + a + v \in 1 .. Size /\ (1 + a + v) - 1 = a + v /\ a + v = w * q + v
    BY <1>6, <2>3
  <2>5. (a + v) \div w = q /\ (a + v) % w = v
    <3>1. q \in Int /\ a + v \in Int
      BY <1>4, <2>1, <2>3
    <3> QED BY <1>1, <2>1, <2>4, <3>1, Remainders
  <2>6. q * step = u
    BY <1>1, <1>4, <2>1 DEF n
  <2> QED BY <1>3, <2>4, <2>5, <2>6, Zenon DEF a, q
<1> QED BY <1>6, <1>7, <1>8 DEF h, w, step

-----------------------------------------------------------------------------
(* The channels of a profile. *)
ChannelsOf(profile) == UNION {Elements(channels) :
                        channels \in Elements(ScanProfile[profile].channels)}
(* The fields a native point may have. *)
NativeNames == {"range", "signal", "reflectivity", "near_ir", "flags", "window", "zone_mask", "r", "g", "b"}

TableMeans(profile, r) ==
  LET fields == ScanProfile[profile].fields
      channels == ScanProfile[profile].channels[r + 1]
  IN  /\ \A i \in DOMAIN fields : /\ channels[i] = ChannelMeant(fields[i], r)
                                  /\ fields[i] \in NativeNames
                                  /\ channels[i] \in ChannelsOf(profile)
      /\ \A i, j \in DOMAIN fields : fields[i] = fields[j] => i = j
      /\ \A f \in NativeNames \ Elements(fields) : ChannelMeant(f, r) \notin ChannelsOf(profile)
      /\ "signal" \in Elements(fields) <=> HasIntensity(profile)
      /\ "range" \in Elements(fields)
      /\ Rgb \subseteq Elements(fields) \/ Rgb \cap Elements(fields) = {}

LEMMA Tables ==
    \A profile \in DOMAIN ScanProfile :
        \A r \in 0 .. ScanProfile[profile].returns - 1 : TableMeans(profile, r)
<1> USE DEF TableMeans, ChannelsOf, Elements, NativeNames, ChannelMeant, Meaning,
        SecondReturn, Rgb, HasIntensity, Single, Dual, ScanProfile
<1>1. TableMeans("LEGACY", 0) /\ ScanProfile["LEGACY"].returns = 1
  BY DEF LEGACY
<1>2. TableMeans("RNG19_RFL8_SIG16_NIR16_DUAL", 0) /\ TableMeans("RNG19_RFL8_SIG16_NIR16_DUAL", 1)
        /\ ScanProfile["RNG19_RFL8_SIG16_NIR16_DUAL"].returns = 2
  BY DEF RNG19_RFL8_SIG16_NIR16_DUAL
<1>3. TableMeans("RNG19_RFL8_SIG16_NIR16", 0) /\ ScanProfile["RNG19_RFL8_SIG16_NIR16"].returns = 1
  BY DEF RNG19_RFL8_SIG16_NIR16
<1>4. TableMeans("RNG15_RFL8_NIR8", 0) /\ ScanProfile["RNG15_RFL8_NIR8"].returns = 1
  BY DEF RNG15_RFL8_NIR8
<1>5. TableMeans("FUSA_RNG15_RFL8_NIR8_DUAL", 0) /\ TableMeans("FUSA_RNG15_RFL8_NIR8_DUAL", 1)
        /\ ScanProfile["FUSA_RNG15_RFL8_NIR8_DUAL"].returns = 2
  BY DEF RNG15_RFL8_NIR8_DUAL
<1>6. TableMeans("RNG15_RFL8_NIR8_DUAL", 0) /\ TableMeans("RNG15_RFL8_NIR8_DUAL", 1)
        /\ ScanProfile["RNG15_RFL8_NIR8_DUAL"].returns = 2
  BY DEF RNG15_RFL8_NIR8_DUAL
<1>7. TableMeans("RNG15_RFL8_WIN8", 0) /\ ScanProfile["RNG15_RFL8_WIN8"].returns = 1
  BY DEF RNG15_RFL8_WIN8
<1>8. TableMeans("RNG15_RFL8_NIR8_ZONE16", 0) /\ ScanProfile["RNG15_RFL8_NIR8_ZONE16"].returns = 1
  BY DEF RNG15_RFL8_NIR8_ZONE16
<1>9. TableMeans("RNG19_RFL8_SIG16_NIR16_ZONE16", 0) /\ ScanProfile["RNG19_RFL8_SIG16_NIR16_ZONE16"].returns = 1
  BY DEF RNG19_RFL8_SIG16_NIR16_ZONE16
<1>10. TableMeans("RNG19_RFL8_SIG16_NIR16_RGB16", 0) /\ ScanProfile["RNG19_RFL8_SIG16_NIR16_RGB16"].returns = 1
  BY DEF RNG19_RFL8_SIG16_NIR16_RGB16
<1>11. TableMeans("RNG19_RFL8_SIG16_NIR16_RGB16_DUAL", 0) /\ TableMeans("RNG19_RFL8_SIG16_NIR16_RGB16_DUAL", 1)
        /\ ScanProfile["RNG19_RFL8_SIG16_NIR16_RGB16_DUAL"].returns = 2
  BY DEF RNG19_RFL8_SIG16_NIR16_RGB16_DUAL
<1>12. DOMAIN ScanProfile = {"LEGACY", "RNG19_RFL8_SIG16_NIR16_DUAL", "RNG19_RFL8_SIG16_NIR16", "RNG15_RFL8_NIR8", "FUSA_RNG15_RFL8_NIR8_DUAL", "RNG15_RFL8_NIR8_DUAL", "RNG15_RFL8_WIN8", "RNG15_RFL8_NIR8_ZONE16", "RNG19_RFL8_SIG16_NIR16_ZONE16", "RNG19_RFL8_SIG16_NIR16_RGB16", "RNG19_RFL8_SIG16_NIR16_RGB16_DUAL"}
  OBVIOUS
<1> HIDE DEF TableMeans, ScanProfile
<1> QED BY <1>1, <1>2, <1>3, <1>4, <1>5, <1>6, <1>7, <1>8, <1>9, <1>10, <1>11, <1>12

(* Filling a native point by position gives each field the channel it means. *)
LEMMA CopiedMeans ==
    ASSUME NEW profile, NEW r, TableMeans(profile, r)
    PROVE  /\ DOMAIN CopiedChannels(profile, r) = Elements(ScanProfile[profile].fields)
           /\ \A f \in Elements(ScanProfile[profile].fields) :
                 /\ f \in NativeNames
                 /\ CopiedChannels(profile, r)[f] = ChannelMeant(f, r)
                 /\ ChannelMeant(f, r) \in ChannelsOf(profile)
<1> DEFINE fields == ScanProfile[profile].fields
           channels == ScanProfile[profile].channels[r + 1]
<1>1. /\ \A i \in DOMAIN fields : /\ channels[i] = ChannelMeant(fields[i], r)
                                  /\ fields[i] \in NativeNames
                                  /\ channels[i] \in ChannelsOf(profile)
      /\ \A i, j \in DOMAIN fields : fields[i] = fields[j] => i = j
  BY DEF TableMeans
<1>2. CopiedChannels(profile, r) =
        [f \in Elements(fields) |-> channels[CHOOSE i \in DOMAIN fields : fields[i] = f]]
  BY DEF CopiedChannels
<1> HIDE DEF fields, channels
<1>3. ASSUME NEW f \in Elements(fields)
      PROVE  /\ f \in NativeNames /\ CopiedChannels(profile, r)[f] = ChannelMeant(f, r)
             /\ ChannelMeant(f, r) \in ChannelsOf(profile)
  <2> DEFINE k == CHOOSE i \in DOMAIN fields : fields[i] = f
  <2>1. \E i \in DOMAIN fields : fields[i] = f
    BY DEF Elements
  <2>2. k \in DOMAIN fields /\ fields[k] = f
    BY <2>1
  <2>3. CopiedChannels(profile, r)[f] = channels[k]
    BY <1>2
  <2> HIDE DEF k
  <2> QED BY <1>1, <2>2, <2>3
<1>4. DOMAIN CopiedChannels(profile, r) = Elements(fields)
  BY <1>2
<1> QED BY <1>3, <1>4 DEF fields

(* What a field other than xyz shows of row u, column c in return r.        *)
FieldValue(f, u, c, r) ==
    CASE f = "ring" -> Number(u)
      [] f = "a"    -> Number(255)
      [] f = "t"    -> LET age == scan.timestamp[c] - scan.scan_ts
                       IN  Number(IF age > 0 THEN age ELSE 0)
      [] OTHER      -> GetOrFillZero(ChannelMeant(f, r), PixelAt(u, c))

(* The point of row u, column c in return r whose coordinates are p.        *)
Shown(u, c, r, p) ==
    [f \in PointFields(config.point_type, config.profile) |->
        IF f = "xyz" THEN p ELSE FieldValue(f, u, c, r)]

ScanTyped ==
    /\ scan.scan_ts \in Int /\ scan.timestamp \in [Columns -> Int]
    /\ scan.range \in [0 .. Returns - 1 -> [Pixels -> Nat]]

(* A native point, filled by position.                                      *)
LEMMA StagedShows ==
    ASSUME NEW u, NEW c \in Columns, NEW r, NEW p, ScanTyped,
           TableMeans(config.profile, r), NEW f \in NativeFields(config.profile)
    PROVE  LET ts == IF scan.timestamp[c] > scan.scan_ts
                     THEN scan.timestamp[c] - scan.scan_ts ELSE 0
               copied == CopiedChannels(config.profile, r)
           IN  (CASE f = "xyz"  -> p
                  [] f = "t"    -> Number(ts)
                  [] f = "ring" -> Number(u)
                  [] OTHER      -> <<copied[f], scan.id, PixelAt(u, c)>>)
               = IF f = "xyz" THEN p ELSE FieldValue(f, u, c, r)
<1> DEFINE ts == IF scan.timestamp[c] > scan.scan_ts
                 THEN scan.timestamp[c] - scan.scan_ts ELSE 0
           copied == CopiedChannels(config.profile, r)
           age == scan.timestamp[c] - scan.scan_ts
<1>1. ts = IF age > 0 THEN age ELSE 0
  <2>1. scan.timestamp[c] \in Int /\ scan.scan_ts \in Int
    BY DEF ScanTyped
  <2> QED BY <2>1
<1> HIDE DEF ts, copied
<1>2. CASE f = "xyz"
  BY <1>2
<1>4. CASE f = "t"
  <2>1. FieldValue(f, u, c, r) = Number(ts)
    BY <1>1, <1>4 DEF FieldValue
  <2> QED BY <1>4, <2>1 DEF ts
<1>5. CASE f = "ring"
  BY <1>5 DEF FieldValue
<1>3. CASE f \notin {"xyz", "t", "ring"}
  <2>1. /\ f \in NativeNames /\ copied[f] = ChannelMeant(f, r)
        /\ ChannelMeant(f, r) \in ScanFields
    BY <1>3, CopiedMeans DEF ScanFields, ChannelsOf, NativeFields, copied
  <2>2. f # "a"
    BY <2>1 DEF NativeNames
  <2>3. FieldValue(f, u, c, r) = GetOrFillZero(ChannelMeant(f, r), PixelAt(u, c))
    BY <1>3, <2>2 DEF FieldValue
  <2>4. FieldValue(f, u, c, r) = <<copied[f], scan.id, PixelAt(u, c)>>
    BY <2>1, <2>3 DEF GetOrFillZero
  <2> QED BY <1>3, <2>4 DEF copied
<1> QED BY <1>2, <1>3, <1>4, <1>5 DEF ts, copied

(* A field of a native point, or zero for one the profile has no channel    *)
(* for: what point::transform takes from it.                                *)
LEMMA NativeOrZero ==
    ASSUME NEW u, NEW c, NEW r, NEW src, TableMeans(config.profile, r),
           DOMAIN src = NativeFields(config.profile),
           \A f \in NativeFields(config.profile) \ {"xyz"} : src[f] = FieldValue(f, u, c, r),
           NEW name \in NativeNames
    PROVE  (IF name \in DOMAIN src THEN src[name] ELSE Number(0)) = FieldValue(name, u, c, r)
<1>1. name \notin {"xyz", "ring", "a", "t"}
  BY DEF NativeNames
<1>2. CASE name \in DOMAIN src
  BY <1>1, <1>2
<1>3. CASE name \notin DOMAIN src
  <2>1. name \notin Elements(ScanProfile[config.profile].fields)
    BY <1>3 DEF NativeFields
  <2>2. ChannelMeant(name, r) \notin ScanFields
    BY <2>1 DEF TableMeans, ScanFields, ChannelsOf
  <2> QED BY <1>1, <1>3, <2>2 DEF FieldValue, GetOrFillZero
<1> QED BY <1>2, <1>3

LEMMA TransformShows ==
    ASSUME NEW u, NEW c, NEW r, NEW src, NEW old, TableMeans(config.profile, r),
           DOMAIN src = NativeFields(config.profile),
           \A f \in NativeFields(config.profile) \ {"xyz"} : src[f] = FieldValue(f, u, c, r),
           NEW f \in XYZI \cup XYZIR \cup XYZRGBA \cup ColorPoint
    PROVE  TransformField(f, old, src) = IF f = "xyz" THEN src["xyz"] ELSE FieldValue(f, u, c, r)
<1> DEFINE FromOr0(name) == IF name \in DOMAIN src THEN src[name] ELSE Number(0)
<1>1. \A name \in NativeNames : FromOr0(name) = FieldValue(name, u, c, r)
  BY NativeOrZero
<1>2. "t" \in DOMAIN src /\ "ring" \in DOMAIN src
  BY DEF NativeFields
<1>3. CASE f = "xyz"
  BY <1>3 DEF TransformField, CopiedByName, Rgb
<1>4. CASE f \in {"t", "ring"}
  <2>1. TransformField(f, old, src) = src[f]
    BY <1>2, <1>4 DEF TransformField, CopiedByName, Rgb
  <2> QED BY <1>2, <1>4, <2>1
<1>5. CASE f \in {"reflectivity", "range"}
  <2>1. TransformField(f, old, src) = FromOr0(f)
    BY <1>5 DEF TransformField, CopiedByName, Rgb
  <2>2. f \in NativeNames /\ f # "xyz"
    BY <1>5 DEF NativeNames
  <2> HIDE DEF FromOr0
  <2> QED BY <1>1, <2>1, <2>2
<1>6. CASE f = "intensity"
  <2>1. TransformField(f, old, src) = FromOr0("signal")
    BY <1>6 DEF TransformField, CopiedByName, Rgb
  <2>2. FieldValue("signal", u, c, r) = FieldValue(f, u, c, r)
    BY <1>6 DEF FieldValue, ChannelMeant, Meaning
  <2>3. "signal" \in NativeNames
    BY DEF NativeNames
  <2> HIDE DEF FromOr0
  <2> QED BY <1>1, <1>6, <2>1, <2>2, <2>3
<1>7. CASE f = "ambient"
  <2>1. TransformField(f, old, src) = FromOr0("near_ir")
    BY <1>7 DEF TransformField, CopiedByName, Rgb
  <2>2. FieldValue("near_ir", u, c, r) = FieldValue(f, u, c, r)
    BY <1>7 DEF FieldValue, ChannelMeant, Meaning
  <2>3. "near_ir" \in NativeNames
    BY DEF NativeNames
  <2> HIDE DEF FromOr0
  <2> QED BY <1>1, <1>7, <2>1, <2>2, <2>3
<1>8. CASE f \in Rgb
  <2>1. f \in NativeNames /\ f # "xyz"
    BY <1>8 DEF Rgb, NativeNames
  <2>2. FromOr0(f) = FieldValue(f, u, c, r)
    BY <1>1, <2>1
  <2>3. Rgb \subseteq DOMAIN src \/ f \notin DOMAIN src
    BY <1>8 DEF TableMeans, NativeFields, Rgb
  <2>4. TransformField(f, old, src) = IF Rgb \subseteq DOMAIN src THEN src[f] ELSE Number(0)
    BY <1>8 DEF TransformField, CopiedByName, Rgb
  <2> QED BY <1>8, <2>1, <2>2, <2>3, <2>4
<1>9. CASE f = "a"
  BY <1>9 DEF TransformField, CopiedByName, Rgb, FieldValue
<1>10. \/ f \in {"xyz", "t", "ring", "reflectivity", "range", "intensity", "ambient", "a"}
       \/ f \in Rgb
  BY DEF XYZI, XYZIR, XYZRGBA, ColorPoint, Original, Rgb
<1> QED BY <1>3, <1>4, <1>5, <1>6, <1>7, <1>8, <1>9, <1>10

(* Whatever its type, and whatever it held before, a point that is filled   *)
(* shows the column that is destaggered to its place.                       *)
LEMMA FilledShows ==
    ASSUME ProcessInv, Created, "PCL" \in config.tokens, ScanTyped,
           NEW u \in Rows, NEW v \in Columns, NEW xyz, NEW old,
           DOMAIN old = PointFields(config.point_type, config.profile)
    PROVE  LET c == ColumnAt(u, v)
           IN  /\ c \in Columns
               /\ Filled(old, u, v, xyz) = Shown(u, c, return, xyz[PixelAt(u, c)])
<1> DEFINE c == ColumnAt(u, v)
           i == PixelAt(u, c)
           r == return
           ts == IF scan.timestamp[c] > scan.scan_ts
                 THEN scan.timestamp[c] - scan.scan_ts ELSE 0
           copied == CopiedChannels(config.profile, r)
           staged == [f \in NativeFields(config.profile) |->
                       CASE f = "xyz"  -> xyz[i]
                         [] f = "t"    -> Number(ts)
                         [] f = "ring" -> Number(u)
                         [] OTHER      -> <<copied[f], scan.id, i>>]
<1>1. c \in Columns
  <2>1. /\ config.w \in Nat \ {0} /\ config.pixel_shift_by_row[u] \in - config.w .. config.w
        /\ v \in 0 .. config.w - 1 /\ config.destagger \in BOOLEAN
    BY ConfigAssumption, ParameterAssumption DEF ProcessInv, Rows, Columns
  <2> QED BY <2>1, CloudColumnInRow DEF ColumnAt, Columns
<1>2. TableMeans(config.profile, r)
  BY Tables DEF ProcessInv, Returns
<1>3. \A f \in NativeFields(config.profile) :
         staged[f] = IF f = "xyz" THEN xyz[i] ELSE FieldValue(f, u, c, r)
  <2> SUFFICES ASSUME NEW f \in NativeFields(config.profile)
               PROVE  staged[f] = IF f = "xyz" THEN xyz[i] ELSE FieldValue(f, u, c, r)
    OBVIOUS
  <2>1. staged[f] = CASE f = "xyz"  -> xyz[i]
                      [] f = "t"    -> Number(ts)
                      [] f = "ring" -> Number(u)
                      [] OTHER      -> <<copied[f], scan.id, i>>
    BY Zenon
  <2> HIDE DEF staged, c
  <2> QED BY <1>1, <1>2, <2>1, StagedShows
<1>4. DOMAIN staged = NativeFields(config.profile) /\ "xyz" \in NativeFields(config.profile)
  BY DEF NativeFields
<1>5. Filled(old, u, v, xyz) =
        IF config.point_type = "native" THEN staged ELSE Transform(old, staged)
  BY DEF Filled
<1>6. staged = [f \in NativeFields(config.profile) |-> staged[f]]
  OBVIOUS
<1> HIDE DEF staged, c, i
<1>7. CASE config.point_type = "native"
  <2>1. PointFields(config.point_type, config.profile) = NativeFields(config.profile)
    BY <1>7 DEF PointFields
  <2>2. staged = [f \in NativeFields(config.profile) |->
                    IF f = "xyz" THEN xyz[i] ELSE FieldValue(f, u, c, r)]
    BY <1>3, <1>6
  <2>3. staged = Shown(u, c, r, xyz[i])
    BY <2>1, <2>2 DEF Shown
  <2> QED BY <1>1, <1>5, <1>7, <2>3, Zenon DEF c, i
<1>8. CASE config.point_type # "native"
  <2>1. PointFields(config.point_type, config.profile) \subseteq
          XYZI \cup XYZIR \cup XYZRGBA \cup ColorPoint
    <3>1. config.point_type \in PointTypeNames
      BY DEF ProcessInv, Supported
    <3> QED BY <1>8, <3>1 DEF PointTypeNames, PointFields, XYZ, XYZI, XYZIR, XYZRGBA, Original,
               ColorPoint
  <2>2. \A f \in PointFields(config.point_type, config.profile) :
           TransformField(f, old[f], staged) =
             IF f = "xyz" THEN xyz[i] ELSE FieldValue(f, u, c, r)
    <3>1. staged["xyz"] = xyz[i]
      BY <1>3, <1>4
    <3>2. \A f \in NativeFields(config.profile) \ {"xyz"} : staged[f] = FieldValue(f, u, c, r)
      BY <1>3
    <3> QED BY <1>2, <1>4, <2>1, <3>1, <3>2, TransformShows
  <2>3. Transform(old, staged) = Shown(u, c, r, xyz[i])
    BY <2>2 DEF Transform, Shown
  <2> QED BY <1>1, <1>5, <1>8, <2>3, Zenon DEF c, i
<1> QED BY <1>7, <1>8

-----------------------------------------------------------------------------
(* Coordinates are those of the measurements in range, where the mask is as *)
(* large as the scan: without a reduction, or without a mask.               *)
Whole == Masked => config.v_reduction = 1

XyzShows(xyz, r) ==
    Whole => \A u \in Rows, c \in Columns :
                xyz[PixelAt(u, c)] =
                    IF InRange(u, c, r)
                    THEN GetOrFillZero(ChannelMeant("range", r), PixelAt(u, c)) ELSE NaN

(* A mask of any number of rows, resized to those of the scan.              *)
LEMMA MaskValues ==
    ASSUME config \in Configs, Masked
    PROVE  LoadMask(config.h) \in [Pixels -> {0, 1}]
<1> DEFINE h == config.h
           w == config.w
           mask == config.mask
           n == Len(mask)
<1>1. h \in Nat \ {0} /\ w \in Nat \ {0}
  BY ConfigAssumption
<1>2. mask \in Seq([1 .. w -> {0, 1}]) /\ n \in Nat \ {0}
  BY ParameterAssumption DEF Masked
<1>3. LoadMask(h) = [p \in 0 .. h * w - 1 |-> mask[1 + ((p \div w) * n) \div h][1 + (p % w)]]
  BY DEF LoadMask
<1>4. Pixels = 0 .. h * w - 1
  BY DEF Pixels
<1> HIDE DEF h, w, n, mask
<1>5. ASSUME NEW p \in 0 .. h * w - 1
      PROVE  mask[1 + ((p \div w) * n) \div h][1 + (p % w)] \in {0, 1}
  <2> DEFINE q == p \div w
             y == (q * n) \div h
             z == (q * n) % h
  <2>1. q \in 0 .. h - 1 /\ p % w \in 0 .. w - 1
    <3>1. h * w = w * h
      BY <1>1
    <3> QED BY <1>1, <3>1, RowMajor
  <2> HIDE DEF q
  <2>2. q * n \in Int
    BY <1>2, <2>1
  <2>3. y \in Int /\ z \in 0 .. h - 1 /\ q * n = h * y + z
    BY <1>1, <2>2, Division
  <2> HIDE DEF y, z
  <2>4. y < n
    <3>1. SUFFICES ASSUME y >= n PROVE FALSE
      BY <1>2, <2>3
    <3>2. h * y >= h * n
      BY <1>1, <1>2, <2>3, <3>1
    <3>3. (q + 1) * n <= h * n /\ (q + 1) * n = q * n + n
      BY <1>1, <1>2, <2>1
    <3> DEFINE a == h * y
               b == h * n
               d == q * n
    <3>4. a \in Int /\ b \in Int /\ d \in Int /\ a >= b /\ d + n <= b /\ d = a + z
      BY <1>1, <1>2, <2>1, <2>3, <3>2, <3>3
    <3> HIDE DEF a, b, d
    <3> QED BY <1>2, <2>3, <3>4
  <2>5. y >= 0
    <3>1. SUFFICES ASSUME y <= -1 PROVE FALSE
      BY <2>3
    <3>2. h * y <= - h
      BY <1>1, <2>3, <3>1
    <3>3. q * n >= 0
      BY <1>2, <2>1
    <3> DEFINE a == h * y
               d == q * n
    <3>4. a \in Int /\ d \in Int /\ a <= - h /\ d >= 0 /\ d = a + z
      BY <1>1, <1>2, <2>1, <2>3, <3>2, <3>3
    <3> HIDE DEF a, d
    <3> QED BY <1>1, <2>3, <3>4
  <2>6. 1 + y \in 1 .. n /\ 1 + (p % w) \in 1 .. w
    BY <1>1, <1>2, <2>1, <2>3, <2>4, <2>5
  <2>7. mask[1 + y] \in [1 .. w -> {0, 1}]
    BY <1>2, <2>6 DEF n
  <2>8. mask[1 + y][1 + (p % w)] \in {0, 1}
    BY <2>6, <2>7
  <2> QED BY <2>8 DEF y, q
<1>6. LoadMask(h) \in [0 .. h * w - 1 -> {0, 1}]
  BY <1>3, <1>5
<1> QED BY <1>4, <1>6 DEF h

LEMMA RangeMeant ==
    ASSUME ProcessInv, Created, NEW r \in 0 .. Returns - 1, NEW i
    PROVE  <<ScanReturn("RANGE", r), scan.id, i>> = GetOrFillZero(ChannelMeant("range", r), i)
<1>1. TableMeans(config.profile, r)
  BY Tables DEF ProcessInv, Returns
<1>2. ChannelMeant("range", r) \in ScanFields
  <2>1. "range" \in Elements(ScanProfile[config.profile].fields)
    BY <1>1 DEF TableMeans
  <2> QED BY <1>1, <2>1, CopiedMeans DEF ScanFields, ChannelsOf
<1>3. r \in {0, 1}
  BY ProfileReturns DEF ProcessInv, Returns
<1>4. ScanReturn("RANGE", r) = ChannelMeant("range", r)
  BY <1>3 DEF ScanReturn, ChannelMeant, Meaning, SecondReturn
<1> QED BY <1>2, <1>4 DEF GetOrFillZero

LEMMA CartesianShows ==
    ASSUME ProcessInv, Created, "PCL" \in config.tokens, ScanTyped
    PROVE  XyzShows(Cartesian(RangeMasked), return)
<1> SUFFICES ASSUME Whole, NEW u \in Rows, NEW c \in Columns
             PROVE  Cartesian(RangeMasked)[PixelAt(u, c)] =
                        IF InRange(u, c, return)
                        THEN GetOrFillZero(ChannelMeant("range", return), PixelAt(u, c)) ELSE NaN
  BY DEF XyzShows
<1> DEFINE p == PixelAt(u, c)
           image == scan.range[return]
           rng == RangeMasked
<1>1. p \in Pixels
  BY PixelPlace DEF ProcessInv
<1>2. return \in 0 .. Returns - 1
  BY DEF ProcessInv
<1>3. image \in [Pixels -> Nat]
  BY <1>2 DEF ScanTyped
<1>4. /\ config.min_range \in Int /\ config.max_range \in Int /\ config.min_range >= 0
      /\ config.h \in Nat \ {0}
  BY ConfigAssumption, ParameterAssumption DEF ProcessInv, ParametersValid
<1>5. p \in DOMAIN rng /\ rng[p] = IF Masked THEN image[p] * LoadMask(config.h)[p] ELSE image[p]
  <2>1. CASE Masked
    <3>1. CloudRows(config.h, config.v_reduction) = config.h
      BY <1>4, <2>1 DEF CloudRows, Whole
    <3>2. LoadMask(config.h) \in [Pixels -> {0, 1}]
      BY <2>1, MaskValues DEF ProcessInv
    <3>3. RangeMasked = [i \in DOMAIN LoadMask(config.h) |-> image[i] * LoadMask(config.h)[i]]
      BY <2>1, <3>1 DEF RangeMasked
    <3> HIDE DEF image, p
    <3> QED BY <1>1, <2>1, <3>2, <3>3
  <2>2. CASE ~Masked
    BY <1>1, <1>3, <2>2 DEF RangeMasked
  <2> QED BY <2>1, <2>2
<1>6. Cartesian(rng)[p] = IF rng[p] <= config.min_range \/ rng[p] >= config.max_range THEN NaN
                          ELSE <<ScanReturn("RANGE", return), scan.id, p>>
  BY <1>1, <1>5 DEF Cartesian
<1>7. InRange(u, c, return) <=> ~(rng[p] <= config.min_range \/ rng[p] >= config.max_range)
  <2>1. image[p] \in Nat
    BY <1>1, <1>3
  <2>2. InRange(u, c, return) <=> /\ image[p] > config.min_range
                                  /\ image[p] < config.max_range
                                  /\ Masked => LoadMask(config.h)[p] = 1
    BY DEF InRange
  <2>3. Masked => LoadMask(config.h)[p] \in {0, 1}
    BY <1>1, MaskValues DEF ProcessInv
  <2> HIDE DEF image, p, rng
  <2> QED BY <1>4, <1>5, <2>1, <2>2, <2>3
<1> HIDE DEF p, rng
<1>8. <<ScanReturn("RANGE", return), scan.id, p>> = GetOrFillZero(ChannelMeant("range", return), p)
  BY <1>2, RangeMeant
<1> QED BY <1>6, <1>7, <1>8 DEF p, rng

-----------------------------------------------------------------------------
(* The cloud of a return, given its coordinates: iteration k of the loops    *)
(* writes the measurement of a row that is visited and of the column that is *)
(* destaggered to its place.                                                 *)
SourceOf(k) == ColumnAt(RowOf(k), PlaceOf(k))
XyzOf(xyz, k) == xyz[PixelAt(RowOf(k), SourceOf(k))]
PointOf(xyz, k, r) == Shown(RowOf(k), SourceOf(k), r, XyzOf(xyz, k))
ValidOf(xyz) == {k \in 1 .. Size : XyzOf(xyz, k) # NaN}

CloudOf(xyz, r) ==
    IF config.organized
    THEN [points |-> [k \in 1 .. Size |-> PointOf(xyz, k, r)],
          is_dense |-> \A k \in 1 .. Size : XyzOf(xyz, k) # NaN]
    ELSE [points |-> [k \in 1 .. Cardinality(ValidOf(xyz)) |->
                        PointOf(xyz, Nth(ValidOf(xyz), k), r)],
          is_dense |-> TRUE]

(* An organized cloud is written in place: it has room for every point, and *)
(* each has the fields of its type.                                         *)
BufferInv ==
    Created /\ "PCL" \in config.tokens /\ config.organized =>
        /\ DOMAIN cloud.points = 1 .. Size
        /\ \A k \in 1 .. Size :
              DOMAIN cloud.points[k] = PointFields(config.point_type, config.profile)

LEMMA VisitedRow ==
    ASSUME NEW h, NEW step, NEW u \in VisitedRows(h, step)
    PROVE  u \in 0 .. h - 1
  BY DEF VisitedRows

LEMMA CloudShows ==
    ASSUME ProcessInv, Created, "PCL" \in config.tokens, ScanTyped, BufferInv, NEW xyz
    PROVE  ScanToCloud(xyz) = CloudOf(xyz, return)
<1> DEFINE step == config.v_reduction
           w == config.w
<1>1. config \in Configs /\ step \in Reductions /\ config.organized \in BOOLEAN
  BY ParameterAssumption DEF ProcessInv, ParametersValid
<1>2. /\ Size \in Nat /\ Visited = [k \in 1 .. Size |-> <<RowOf(k), PlaceOf(k)>>]
      /\ \A k \in 1 .. Size : /\ RowOf(k) \in VisitedRows(config.h, step)
                              /\ PlaceOf(k) \in Columns
                              /\ CloudTarget(RowOf(k), PlaceOf(k), w, step) = k - 1
  BY <1>1, VisitedPlace
<1>3. \A k \in 1 .. Size : RowOf(k) \in Rows /\ PlaceOf(k) \in Columns
  BY <1>2, VisitedRow DEF Rows
<1>4. \A k \in 1 .. Size : Visited[k] = <<RowOf(k), PlaceOf(k)>>
  BY <1>2
<1>5. \A k \in 1 .. Size : Visited[k][1] = RowOf(k) /\ Visited[k][2] = PlaceOf(k)
  BY <1>4
<1>6. DOMAIN Visited = 1 .. Size
  BY <1>2
<1>7. \A k \in 1 .. Size :
         xyz[PixelAt(Visited[k][1], ColumnAt(Visited[k][1], Visited[k][2]))] = XyzOf(xyz, k)
  BY <1>5, Zenon DEF XyzOf, SourceOf
<1>8. ASSUME NEW k \in 1 .. Size, NEW old,
             DOMAIN old = PointFields(config.point_type, config.profile)
      PROVE  Filled(old, Visited[k][1], Visited[k][2], xyz) = PointOf(xyz, k, return)
  <2> DEFINE u == RowOf(k)
             v == PlaceOf(k)
  <2>1. u \in Rows /\ v \in Columns /\ Visited[k][1] = u /\ Visited[k][2] = v
    BY <1>3, <1>5
  <2>2. PointOf(xyz, k, return) = Shown(u, ColumnAt(u, v), return, xyz[PixelAt(u, ColumnAt(u, v))])
    BY DEF PointOf, XyzOf, SourceOf
  <2> HIDE DEF u, v
  <2>3. Filled(old, u, v, xyz) = Shown(u, ColumnAt(u, v), return, xyz[PixelAt(u, ColumnAt(u, v))])
    BY <1>8, <2>1, FilledShows
  <2> QED BY <2>1, <2>2, <2>3
<1>9. CASE config.organized
  <2> DEFINE Sources(k) == {uv \in ToSet(Visited) : CloudTarget(uv[1], uv[2], w, step) = k - 1}
  <2>1. \A k \in 1 .. Size : Sources(k) = {Visited[k]}
    <3> SUFFICES ASSUME NEW k \in 1 .. Size PROVE Sources(k) = {Visited[k]}
      OBVIOUS
    <3>1. \A j \in 1 .. Size : CloudTarget(Visited[j][1], Visited[j][2], w, step) = j - 1
      BY <1>2, <1>5
    <3>2. \A j \in 1 .. Size : j - 1 = k - 1 => j = k
      BY <1>2
    <3>3. ToSet(Visited) = {Visited[j] : j \in 1 .. Size}
      BY <1>6 DEF ToSet
    <3> HIDE DEF w, step
    <3> QED BY <3>1, <3>2, <3>3
  <2>2. Organized(xyz) =
          [points |-> [k \in DOMAIN cloud.points |->
              IF Sources(k) = {} THEN cloud.points[k]
              ELSE LET uv == CHOOSE s \in Sources(k) : TRUE
                   IN  Filled(cloud.points[k], uv[1], uv[2], xyz)],
           is_dense |-> \A uv \in ToSet(Visited) :
                           xyz[PixelAt(uv[1], ColumnAt(uv[1], uv[2]))] # NaN]
    BY DEF Organized
  <2> HIDE DEF Sources
  <2>3. DOMAIN cloud.points = 1 .. Size
    BY <1>9 DEF BufferInv
  <2>4. ASSUME NEW k \in 1 .. Size
        PROVE  (IF Sources(k) = {} THEN cloud.points[k]
                ELSE LET uv == CHOOSE s \in Sources(k) : TRUE
                     IN  Filled(cloud.points[k], uv[1], uv[2], xyz)) = PointOf(xyz, k, return)
    <3>1. Sources(k) # {} /\ (CHOOSE s \in Sources(k) : TRUE) = Visited[k]
      BY <2>1
    <3>2. DOMAIN cloud.points[k] = PointFields(config.point_type, config.profile)
      BY <1>9 DEF BufferInv
    <3>3. Filled(cloud.points[k], Visited[k][1], Visited[k][2], xyz) = PointOf(xyz, k, return)
      BY <1>8, <3>2
    <3> QED BY <3>1, <3>3, Zenon
  <2>5. (\A uv \in ToSet(Visited) : xyz[PixelAt(uv[1], ColumnAt(uv[1], uv[2]))] # NaN)
          = \A k \in 1 .. Size : XyzOf(xyz, k) # NaN
    <3>1. ToSet(Visited) = {Visited[j] : j \in 1 .. Size}
      BY <1>6 DEF ToSet
    <3> QED BY <1>7, <3>1
  <2>6. Organized(xyz) = CloudOf(xyz, return)
    BY <1>9, <2>2, <2>3, <2>4, <2>5 DEF CloudOf
  <2> QED BY <1>9, <2>6 DEF ScanToCloud
<1>10. CASE ~config.organized
  <2> DEFINE valid == {k \in DOMAIN Visited :
                        xyz[PixelAt(Visited[k][1], ColumnAt(Visited[k][1], Visited[k][2]))] # NaN}
  <2>1. valid = ValidOf(xyz)
    BY <1>6, <1>7 DEF ValidOf
  <2>2. Unorganized(xyz) =
          [points |-> [k \in 1 .. Cardinality(valid) |->
              Filled(DefaultPoint, Visited[Nth(valid, k)][1], Visited[Nth(valid, k)][2], xyz)],
           is_dense |-> TRUE]
    BY DEF Unorganized
  <2> HIDE DEF valid
  <2>3. DOMAIN DefaultPoint = PointFields(config.point_type, config.profile)
    BY DEF DefaultPoint
  <2>4. \A k \in 1 .. Cardinality(valid) : Nth(valid, k) \in 1 .. Size
    <3>1. ValidOf(xyz) \in SUBSET (1 .. Size)
      BY DEF ValidOf
    <3> QED BY <1>2, <2>1, <3>1, Numbering
  <2>5. \A k \in 1 .. Cardinality(valid) :
           Filled(DefaultPoint, Visited[Nth(valid, k)][1], Visited[Nth(valid, k)][2], xyz)
             = PointOf(xyz, Nth(valid, k), return)
    BY <1>8, <2>3, <2>4
  <2>6. Unorganized(xyz) = CloudOf(xyz, return)
    BY <1>10, <2>1, <2>2, <2>5 DEF CloudOf
  <2> QED BY <1>10, <2>6 DEF ScanToCloud
<1> QED BY <1>9, <1>10

-----------------------------------------------------------------------------
(* The clouds of the returns that are done, and what they are built from.   *)
ScanInv ==
    \/ scan = NoScan /\ published = {} /\ (Created => processors = << >>)
    \/ ScanTyped

WarnInv ==
    warned = (Created /\ "PCL" \in config.tokens /\ Requires(config.point_type)
                                               /\ ~HasIntensity(config.profile))

MessagesInv ==
    /\ Created => DOMAIN pc_msgs = 0 .. Returns - 1
    /\ \A r \in 0 .. Done("PCL") - 1 :
          \E xyz : XyzShows(xyz, r) /\ pc_msgs[r] = CloudOf(xyz, r)

CloudInv == ScanInv /\ BufferInv /\ WarnInv /\ MessagesInv

LEMMA CloudStays ==
    ASSUME UNCHANGED <<config, scan>>
    PROVE  /\ \A xyz, r : XyzShows(xyz, r)' = XyzShows(xyz, r) /\ CloudOf(xyz, r)' = CloudOf(xyz, r)
           /\ ScanTyped' = ScanTyped /\ Size' = Size /\ Returns' = Returns
           /\ PointFields(config.point_type, config.profile)'
                = PointFields(config.point_type, config.profile)
<1>1. /\ \A c, i : GetOrFillZero(c, i)' = GetOrFillZero(c, i)
      /\ Rows' = Rows /\ Columns' = Columns /\ Pixels' = Pixels /\ Returns' = Returns
      /\ \A u, v : PixelAt(u, v)' = PixelAt(u, v) /\ ColumnAt(u, v)' = ColumnAt(u, v)
      /\ \A f, r : ChannelMeant(f, r)' = ChannelMeant(f, r)
      /\ \A u, c, r : InRange(u, c, r)' = InRange(u, c, r)
      /\ \A k : RowOf(k)' = RowOf(k) /\ PlaceOf(k)' = PlaceOf(k)
      /\ Size' = Size /\ Whole' = Whole
  BY DEF GetOrFillZero, ScanFields, Rows, Columns, Pixels, Returns, PixelAt, ColumnAt,
     ChannelMeant, InRange, Masked, LoadMask, RowOf, PlaceOf, Size, Whole
<1>2. \A xyz, r : XyzShows(xyz, r)' = XyzShows(xyz, r)
  BY <1>1 DEF XyzShows
<1>3. \A f, u, c, r : FieldValue(f, u, c, r)' = FieldValue(f, u, c, r)
  BY <1>1 DEF FieldValue
<1>4. PointFields(config.point_type, config.profile)'
        = PointFields(config.point_type, config.profile)
  OBVIOUS
<1>5. \A u, c, r, p : Shown(u, c, r, p)' = Shown(u, c, r, p)
  BY <1>3, <1>4 DEF Shown
<1>6. \A xyz, k, r : /\ SourceOf(k)' = SourceOf(k)
                     /\ XyzOf(xyz, k)' = XyzOf(xyz, k)
                     /\ PointOf(xyz, k, r)' = PointOf(xyz, k, r)
  BY <1>1, <1>5 DEF SourceOf, XyzOf, PointOf
<1>7. \A xyz : ValidOf(xyz)' = ValidOf(xyz)
  BY <1>1, <1>6 DEF ValidOf
<1>8. \A xyz, r : CloudOf(xyz, r)' = CloudOf(xyz, r)
  BY <1>1, <1>6, <1>7 DEF CloudOf
<1>9. ScanTyped' = ScanTyped
  BY <1>1 DEF ScanTyped
<1> QED BY <1>1, <1>2, <1>4, <1>8, <1>9

LEMMA CloudInit == Init => CloudInv
<1> SUFFICES ASSUME Init PROVE CloudInv
  OBVIOUS
<1>1. ~Created /\ scan = NoScan /\ published = {} /\ warned = FALSE
  BY DEF Init, Created
<1>2. 0 .. Done("PCL") - 1 = {}
  BY <1>1 DEF Done, Runs
<1> QED BY <1>1, <1>2 DEF CloudInv, ScanInv, BufferInv, WarnInv, MessagesInv

(* The next scan: anything with the shape of a scan.                        *)
LEMMA NextScanTyped ==
    ASSUME ProcessInv, NextScan
    PROVE  ScanTyped'
<1>1. PICK images \in [0 .. Returns - 1 -> RangeImages(config.h, config.w)],
           lost \in {{}, {0}}, late \in {0, 2} :
             scan' = [id |-> scan.id + 1,
                      scan_ts |-> 10 * (scan.id + 1) + late,
                      range |-> images,
                      timestamp |-> [v \in Columns |->
                           IF v \in lost THEN 0 ELSE 10 * (scan.id + 1) + v + 1]]
  BY DEF NextScan
<1>2. config' = config /\ scan.id \in Int /\ Columns \subseteq Int
  BY ParameterAssumption, ConfigAssumption DEF NextScan, ProcessInv, Columns
<1>3. Columns' = Columns /\ Returns' = Returns /\ Pixels' = Pixels
  BY <1>2 DEF Columns, Returns, Pixels
<1>4. images \in [0 .. Returns - 1 -> [Pixels -> Nat]]
  <2>1. RangeImages(config.h, config.w) \subseteq [Pixels -> Nat]
    BY ParameterAssumption DEF ProcessInv, Pixels
  <2> QED BY <2>1
<1>5. 10 * (scan.id + 1) + late \in Int
  BY <1>2
<1>6. [v \in Columns |-> IF v \in lost THEN 0 ELSE 10 * (scan.id + 1) + v + 1] \in [Columns -> Int]
  BY <1>2
<1> QED BY <1>1, <1>3, <1>4, <1>5, <1>6 DEF ScanTyped

(* What the steps of the scan thread that do not build a cloud keep.        *)
LEMMA CloudKept ==
    ASSUME ProcessInv, CloudInv, UNCHANGED <<config, scan, warned, cloud, pc_msgs>>,
           Created' <=> Created, ScanInv', Done("PCL")' = Done("PCL") \/ Done("PCL")' = 0
    PROVE  CloudInv'
<1>1. BufferInv'
  BY CloudStays DEF CloudInv, BufferInv
<1>2. WarnInv'
  BY DEF CloudInv, WarnInv
<1>3. MessagesInv'
  <2>1. \A r \in 0 .. Done("PCL")' - 1 : r \in 0 .. Done("PCL") - 1
    OBVIOUS
  <2> QED BY <2>1, CloudStays DEF CloudInv, MessagesInv
<1> QED BY <1>1, <1>2, <1>3 DEF CloudInv

LEMMA CloudStep ==
    ASSUME ProcessInv, CloudInv, [Next]_vars
    PROVE  CloudInv'
<1>1. CASE CreateHandlers
  <2>1. /\ config' = config /\ scan' = scan /\ processors = <<"create">> /\ processors' = << >>
        /\ published' = published
        /\ warned' = ("PCL" \in config.tokens /\ Requires(config.point_type)
                                              /\ ~HasIntensity(config.profile))
        /\ cloud'.points = [k \in 1 .. Size |-> DefaultPoint]
        /\ DOMAIN pc_msgs' = 0 .. Returns - 1
    BY <1>1 DEF CreateHandlers, Size
  <2>2. Created' /\ ~Created
    BY <2>1, NotInitial DEF Created
  <2>3. ScanInv'
    BY <2>1, <2>2, CloudStays DEF CloudInv, ScanInv, ProcessInv
  <2>4. BufferInv'
    BY <2>1, CloudStays DEF BufferInv, DefaultPoint
  <2>5. WarnInv'
    BY <2>1, <2>2 DEF WarnInv
  <2>6. Done("PCL")' = 0
    <3>1. UNCHANGED vars \/ Done("PCL")' = 0
      BY <1>1, OtherStep
    <3> QED BY <2>1, <3>1 DEF vars
  <2>7. MessagesInv'
    <3>1. 0 .. Done("PCL")' - 1 = {}
      BY <2>6
    <3> QED BY <2>1, <3>1, CloudStays DEF MessagesInv
  <2> QED BY <2>3, <2>4, <2>5, <2>7 DEF CloudInv
<1>2. CASE CreateThrows
  <2>1. /\ UNCHANGED <<config, scan, warned, cloud, pc_msgs, published>>
        /\ ~Created /\ ~Created'
    BY <1>2 DEF CreateThrows, Created
  <2>2. ScanInv'
    BY <2>1, CloudStays DEF CloudInv, ScanInv
  <2>3. Done("PCL")' = 0 \/ UNCHANGED vars
    BY <1>2, OtherStep
  <2>4. Done("PCL")' = 0
    BY <2>1, <2>3 DEF Done, Runs, ProcessInv
  <2> QED BY <2>1, <2>2, <2>4, CloudKept
<1>3. CASE NextScan
  <2>1. UNCHANGED <<config, warned, cloud, pc_msgs>> /\ processors = << >>
    BY <1>3 DEF NextScan
  <2>2. Created /\ Created'
    BY <1>3, <2>1, NotInitial, NextScanCreated DEF Created
  <2>3. ScanTyped'
    BY <1>3, NextScanTyped
  <2>4. Done("PCL")' = 0
    <3>1. UNCHANGED vars \/ Done("PCL")' = 0
      BY <1>3, OtherStep
    <3>2. scan'.id = scan.id + 1 /\ scan.id \in Int
      BY <1>3 DEF NextScan, ProcessInv
    <3>3. scan' # scan
      BY <3>2
    <3> QED BY <3>1, <3>3 DEF vars
  <2>5. 0 .. Done("PCL")' - 1 = {}
    BY <2>4
  <2>6. Size' = Size /\ Returns' = Returns
    BY <2>1 DEF Size, Returns
  <2> QED BY <2>1, <2>2, <2>3, <2>5, <2>6
          DEF CloudInv, ScanInv, BufferInv, WarnInv, MessagesInv
<1>4. CASE MakeCloud
  <2>1. /\ Running("PCL") /\ EndReturn /\ UNCHANGED <<config, scan, warned>>
        /\ points' = Cartesian(RangeMasked) /\ cloud' = ScanToCloud(points')
        /\ pc_msgs' = [pc_msgs EXCEPT ![return] = cloud']
    BY <1>4 DEF MakeCloud
  <2>2. /\ ProcessInv' /\ Created /\ Created' /\ return \in 0 .. Returns - 1
        /\ Done("PCL") = return /\ Done("PCL")' = return + 1
    BY <2>1, ProcessorStep
  <2>3. "PCL" \in config.tokens
    BY <2>1, <2>2 DEF Running, ProcessInv, Queue
  <2>4. ScanTyped
    BY <2>1, <2>2 DEF CloudInv, ScanInv, Running
  <2>5. cloud' = CloudOf(points', return)
    BY <2>1, <2>2, <2>3, <2>4, CloudShows DEF CloudInv
  <2>6. XyzShows(points', return)
    BY <2>1, <2>2, <2>3, <2>4, CartesianShows
  <2>7. ScanInv'
    BY <2>1, <2>4, CloudStays DEF ScanInv
  <2>8. BufferInv'
    BY <2>1, <2>5, CloudStays DEF BufferInv, CloudOf, PointOf, Shown
  <2>9. WarnInv'
    BY <2>1, <2>2 DEF CloudInv, WarnInv
  <2>10. DOMAIN pc_msgs = 0 .. Returns - 1
    BY <2>2 DEF CloudInv, MessagesInv
  <2>11. ASSUME NEW r \in 0 .. Done("PCL")' - 1
         PROVE  \E xyz : XyzShows(xyz, r)' /\ pc_msgs'[r] = CloudOf(xyz, r)'
    <3>1. CASE r = return
      <4>1. pc_msgs'[r] = CloudOf(points', r)
        BY <2>1, <2>2, <2>5, <2>10, <3>1
      <4> DEFINE xyz == points'
      <4>2. XyzShows(xyz, r) /\ pc_msgs'[r] = CloudOf(xyz, r)
        BY <2>6, <3>1, <4>1
      <4> HIDE DEF xyz
      <4> QED BY <2>1, <4>2, CloudStays
    <3>2. CASE r # return
      <4>1. r \in 0 .. Done("PCL") - 1
        BY <2>2, <2>11, <3>2
      <4>2. pc_msgs'[r] = pc_msgs[r]
        BY <2>1, <2>2, <2>10, <3>2, <4>1
      <4> QED BY <2>1, <4>1, <4>2, CloudStays DEF CloudInv, MessagesInv
    <3> QED BY <3>1, <3>2
  <2>12. MessagesInv'
    BY <2>1, <2>10, <2>11, CloudStays DEF MessagesInv
  <2> QED BY <2>7, <2>8, <2>9, <2>12 DEF CloudInv
<1>5. CASE MakeLaserScan \/ MakeImages
  <2>1. PICK name \in {"SCAN", "IMG"} : Running(name)
    BY <1>5 DEF MakeLaserScan, MakeImages
  <2>2. EndReturn /\ UNCHANGED <<config, scan, warned, cloud, pc_msgs>>
    BY <1>5 DEF MakeLaserScan, MakeImages
  <2>3. Created /\ Created' /\ Done("PCL")' = Done("PCL")
    BY <2>1, <2>2, ProcessorStep
  <2>4. ScanTyped
    BY <2>1, <2>3 DEF CloudInv, ScanInv, Running
  <2>5. ScanInv'
    BY <2>2, <2>4, CloudStays DEF ScanInv
  <2> QED BY <2>2, <2>3, <2>5, CloudKept
<1>6. CASE UNCHANGED vars
  <2>1. UNCHANGED <<config, scan, warned, cloud, pc_msgs, published, processors, return>>
    BY <1>6 DEF vars
  <2>2. Created' = Created /\ Done("PCL")' = Done("PCL")
    BY <2>1 DEF Created, Done, Runs, Running, Returns
  <2>3. ScanInv'
    BY <2>1, <2>2, CloudStays DEF CloudInv, ScanInv
  <2> QED BY <2>1, <2>2, <2>3, CloudKept
<1> QED BY <1>1, <1>2, <1>3, <1>4, <1>5, <1>6 DEF Next

-----------------------------------------------------------------------------
(* What the invariant says of the clouds that are published.                *)
LEMMA Published ==
    ASSUME ProcessInv, CloudInv, "PCL" \in published
    PROVE  /\ Created /\ "PCL" \in config.tokens
           /\ config \in Configs /\ config.v_reduction \in Reductions
           /\ config.profile \in DOMAIN ScanProfile /\ config.point_type \in PointTypeNames
           /\ config.organized \in BOOLEAN
           /\ \A r \in 0 .. Returns - 1 :
                 /\ TableMeans(config.profile, r)
                 /\ \E xyz : XyzShows(xyz, r) /\ pc_msgs[r] = CloudOf(xyz, r)
<1>1. Created /\ "PCL" \in config.tokens /\ Done("PCL") = Returns
  BY DEF ProcessInv, Done
<1>2. config \in Configs /\ ParametersValid /\ Supported
  BY <1>1 DEF ProcessInv
<1>3. \A r \in 0 .. Returns - 1 : TableMeans(config.profile, r)
  BY <1>2, Tables DEF Supported, Returns
<1>4. \A r \in 0 .. Returns - 1 : \E xyz : XyzShows(xyz, r) /\ pc_msgs[r] = CloudOf(xyz, r)
  BY <1>1 DEF CloudInv, MessagesInv
<1> QED BY <1>1, <1>2, <1>3, <1>4, ParameterAssumption DEF ParametersValid, Supported

LEMMA PointHasXyz ==
    ASSUME config.point_type \in PointTypeNames
    PROVE  "xyz" \in PointFields(config.point_type, config.profile)
  BY DEF PointTypeNames, PointFields, NativeFields, XYZ, XYZI, XYZIR, XYZRGBA, Original,
     ColorPoint

(* The points of a cloud are points of iterations of the loops, those of an  *)
(* unorganized one of iterations that found a valid one.                     *)
LEMMA CloudPoints ==
    ASSUME NEW xyz, NEW r, Size \in Nat, config.organized \in BOOLEAN
    PROVE  /\ config.organized =>
                /\ DOMAIN CloudOf(xyz, r).points = 1 .. Size
                /\ \A k \in 1 .. Size : CloudOf(xyz, r).points[k] = PointOf(xyz, k, r)
           /\ ~config.organized =>
                /\ Cardinality(ValidOf(xyz)) \in Nat
                /\ CloudOf(xyz, r).points \in Seq({PointOf(xyz, k, r) : k \in ValidOf(xyz)})
                /\ DOMAIN CloudOf(xyz, r).points = 1 .. Cardinality(ValidOf(xyz))
                /\ Len(CloudOf(xyz, r).points) = Cardinality(ValidOf(xyz))
                /\ \A k \in 1 .. Cardinality(ValidOf(xyz)) :
                     /\ Nth(ValidOf(xyz), k) \in ValidOf(xyz)
                     /\ CloudOf(xyz, r).points[k] = PointOf(xyz, Nth(ValidOf(xyz), k), r)
                /\ \A j \in ValidOf(xyz) :
                     /\ Rank(ValidOf(xyz), j) \in 1 .. Cardinality(ValidOf(xyz))
                     /\ CloudOf(xyz, r).points[Rank(ValidOf(xyz), j)] = PointOf(xyz, j, r)
<1>1. CASE config.organized
  BY <1>1 DEF CloudOf
<1>2. CASE ~config.organized
  <2> DEFINE valid == ValidOf(xyz)
             n == Cardinality(valid)
             points_ == [k \in 1 .. n |-> PointOf(xyz, Nth(valid, k), r)]
  <2>1. CloudOf(xyz, r).points = points_
    BY <1>2 DEF CloudOf
  <2>2. valid \in SUBSET (1 .. Size)
    BY DEF ValidOf
  <2> HIDE DEF valid
  <2>3. /\ n \in Nat
        /\ \A j \in valid : Rank(valid, j) \in 1 .. n /\ Nth(valid, Rank(valid, j)) = j
        /\ \A k \in 1 .. n : Nth(valid, k) \in valid
    BY <2>2, Numbering
  <2>4. \A k \in 1 .. n : points_[k] = PointOf(xyz, Nth(valid, k), r)
    OBVIOUS
  <2>5. points_ \in [1 .. n -> {PointOf(xyz, k, r) : k \in valid}]
    BY <2>3
  <2>6. DOMAIN points_ = 1 .. n
    OBVIOUS
  <2> HIDE DEF n, points_
  <2>7. points_ \in Seq({PointOf(xyz, k, r) : k \in valid}) /\ Len(points_) = n
    BY <2>3, <2>5
  <2>8. \A j \in valid : points_[Rank(valid, j)] = PointOf(xyz, j, r)
    BY <2>3, <2>4
  <2> QED BY <1>2, <2>1, <2>3, <2>4, <2>6, <2>7, <2>8, Zenon DEF valid, n
<1> QED BY <1>1, <1>2

LEMMA DenseImplied == ProcessInv /\ CloudInv => DenseIsTrue
<1> SUFFICES ASSUME ProcessInv, CloudInv, "PCL" \in published, NEW r \in 0 .. Returns - 1
             PROVE  pc_msgs[r].is_dense <=> \A k \in DOMAIN pc_msgs[r].points :
                                                pc_msgs[r].points[k].xyz # NaN
  BY DEF DenseIsTrue
<1>1. PICK xyz : pc_msgs[r] = CloudOf(xyz, r)
  BY Published
<1>2. Size \in Nat /\ config.organized \in BOOLEAN
  BY Published, VisitedPlace
<1>3. \A k : PointOf(xyz, k, r).xyz = XyzOf(xyz, k)
  BY Published, PointHasXyz DEF PointOf, Shown
<1>4. CASE config.organized
  <2>1. CloudOf(xyz, r).is_dense <=> \A k \in 1 .. Size : XyzOf(xyz, k) # NaN
    BY <1>4 DEF CloudOf
  <2> QED BY <1>1, <1>2, <1>3, <1>4, <2>1, CloudPoints
<1>5. CASE ~config.organized
  <2>1. CloudOf(xyz, r).is_dense = TRUE
    BY <1>5 DEF CloudOf
  <2>2. \A k \in ValidOf(xyz) : XyzOf(xyz, k) # NaN
    BY DEF ValidOf
  <2>3. \A k \in DOMAIN CloudOf(xyz, r).points :
           \E j \in ValidOf(xyz) : CloudOf(xyz, r).points[k] = PointOf(xyz, j, r)
    BY <1>2, <1>5, CloudPoints
  <2> QED BY <1>1, <1>3, <2>1, <2>2, <2>3
<1> QED BY <1>4, <1>5

(* The warning is about the types that have an intensity, and the profiles  *)
(* that have no channel for it.                                             *)
LEMMA IntensityRequired ==
    ASSUME config.profile \in DOMAIN ScanProfile, config.point_type \in PointTypeNames,
           NEW r, TableMeans(config.profile, r)
    PROVE  Requires(config.point_type)
             <=> "intensity" \in PointFields(config.point_type, config.profile)
<1>1. "intensity" \notin NativeFields(config.profile)
  <2>1. \A f \in Elements(ScanProfile[config.profile].fields) : f \in NativeNames
    BY CopiedMeans
  <2> QED BY <2>1 DEF NativeFields, NativeNames
<1> QED BY <1>1 DEF Requires, PointTypeNames, PointFields, XYZ, XYZI, XYZIR, XYZRGBA, Original,
           ColorPoint

LEMMA WarningImplied == ProcessInv /\ CloudInv => WarnedIffConstant
<1> SUFFICES ASSUME ProcessInv, CloudInv, "PCL" \in published, NEW r \in 0 .. Returns - 1,
                    NEW k \in DOMAIN pc_msgs[r].points
             PROVE  warned <=> /\ "intensity" \in DOMAIN pc_msgs[r].points[k]
                               /\ pc_msgs[r].points[k].intensity = Number(0)
  BY DEF WarnedIffConstant
<1>1. PICK xyz : pc_msgs[r] = CloudOf(xyz, r)
  BY Published
<1>2. PICK j : pc_msgs[r].points[k] = PointOf(xyz, j, r)
  <2>1. Size \in Nat /\ config.organized \in BOOLEAN
    BY Published, VisitedPlace
  <2>2. CASE config.organized
    BY <1>1, <2>1, <2>2, CloudPoints
  <2>3. CASE ~config.organized
    <3>1. \A n \in DOMAIN CloudOf(xyz, r).points :
             \E m \in ValidOf(xyz) : CloudOf(xyz, r).points[n] = PointOf(xyz, m, r)
      BY <2>1, <2>3, CloudPoints
    <3> QED BY <1>1, <3>1
  <2> QED BY <2>2, <2>3
<1> DEFINE pt == pc_msgs[r].points[k]
           i == PixelAt(RowOf(j), SourceOf(j))
           channel == ChannelMeant("intensity", r)
<1>3. /\ DOMAIN pt = PointFields(config.point_type, config.profile)
      /\ "intensity" \in DOMAIN pt => pt.intensity = GetOrFillZero(channel, i)
  BY <1>2 DEF PointOf, Shown, FieldValue
<1>4. TableMeans(config.profile, r)
  BY Published
<1>5. channel \in ScanFields <=> HasIntensity(config.profile)
  <2>1. channel = ChannelMeant("signal", r)
    BY DEF ChannelMeant, Meaning
  <2>2. "signal" \in Elements(ScanProfile[config.profile].fields)
          => ChannelMeant("signal", r) \in ScanFields
    BY <1>4, CopiedMeans DEF ScanFields, ChannelsOf
  <2>3. "signal" \notin Elements(ScanProfile[config.profile].fields)
          => ChannelMeant("signal", r) \notin ScanFields
    BY <1>4 DEF TableMeans, NativeNames, ScanFields, ChannelsOf
  <2> QED BY <1>4, <2>1, <2>2, <2>3 DEF TableMeans
<1>6. GetOrFillZero(channel, i) = Number(0) <=> channel \notin ScanFields
  <2>1. channel # "constant"
    BY DEF ChannelMeant, Meaning, SecondReturn
  <2> HIDE DEF channel, i
  <2> QED BY <2>1 DEF GetOrFillZero, Number
<1>7. Requires(config.point_type) <=> "intensity" \in DOMAIN pt
  BY <1>3, <1>4, Published, IntensityRequired
<1>8. warned <=> Requires(config.point_type) /\ ~HasIntensity(config.profile)
  BY Published DEF CloudInv, WarnInv
<1> HIDE DEF pt, channel, i
<1> QED BY <1>3, <1>5, <1>6, <1>7, <1>8 DEF pt

(* Where the loops write the measurement of row u, column c.                *)
PlaceShown(u, c) ==
    1 + (u \div config.v_reduction) * config.w
      + (IF config.destagger THEN UprightColumn(u, c) ELSE c)

LEMMA SourcesInScan ==
    ASSUME config \in Configs, config.v_reduction \in Reductions, NEW k \in 1 .. Size
    PROVE  RowOf(k) \in CloudRowsOfScan /\ SourceOf(k) \in Columns
<1>1. /\ RowOf(k) \in VisitedRows(config.h, config.v_reduction) /\ PlaceOf(k) \in Columns
  BY VisitedPlace
<1>2. RowOf(k) \in CloudRowsOfScan /\ RowOf(k) \in Rows
  BY <1>1 DEF VisitedRows, CloudRowsOfScan, Rows
<1>3. /\ config.w \in Nat \ {0} /\ config.destagger \in BOOLEAN
      /\ config.pixel_shift_by_row[RowOf(k)] \in - config.w .. config.w
      /\ PlaceOf(k) \in 0 .. config.w - 1
  BY <1>1, <1>2, ConfigAssumption, ParameterAssumption DEF Rows, Columns
<1> QED BY <1>2, <1>3, CloudColumnInRow DEF SourceOf, ColumnAt, Columns

LEMMA EverySourceShown ==
    ASSUME config \in Configs, config.v_reduction \in Reductions,
           NEW u \in CloudRowsOfScan, NEW c \in Columns
    PROVE  LET k == PlaceShown(u, c)
           IN  k \in 1 .. Size /\ RowOf(k) = u /\ SourceOf(k) = c
<1> DEFINE w == config.w
           shift == config.pixel_shift_by_row[u]
           x == IF config.destagger THEN UprightColumn(u, c) ELSE c
           k == PlaceShown(u, c)
<1>1. /\ u \in VisitedRows(config.h, config.v_reduction) /\ u \in 0 .. config.h - 1
      /\ c \in 0 .. w - 1 /\ w \in Nat \ {0} /\ shift \in - w .. w
      /\ config.destagger \in BOOLEAN
  BY ConfigAssumption, ParameterAssumption DEF CloudRowsOfScan, VisitedRows, Rows, Columns
<1>2. x \in 0 .. w - 1 /\ CloudColumn(x, w, shift, config.destagger) = c
  <2> HIDE DEF w, shift
  <2>1. CASE config.destagger
    <3>1. x = (c + shift) % w
      BY <2>1 DEF UprightColumn, w, shift
    <3>2. c + shift \in Int /\ (c + shift) % w \in 0 .. w - 1
      <4>1. c + shift \in Int
        BY <1>1
      <4> QED BY <1>1, <4>1, Division
    <3> HIDE DEF x
    <3>3. CloudColumn(x, w, shift, TRUE) = (x + (w - shift)) % w
      BY <1>1, <3>1, <3>2, CloudColumnUpright
    <3>4. (x + (w - shift)) % w = c
      BY <1>1, <3>1, ShiftUndone
    <3> QED BY <1>1, <2>1, <3>1, <3>2, <3>3, <3>4
  <2>2. CASE ~config.destagger
    BY <1>1, <2>2 DEF CloudColumn
  <2> QED BY <2>1, <2>2
<1>3. k = 1 + (u \div config.v_reduction) * w + x
  BY DEF PlaceShown
<1>4. k \in 1 .. Size /\ RowOf(k) = u /\ PlaceOf(k) = x
  <2>1. x \in Columns
    BY <1>2 DEF Columns
  <2> HIDE DEF x, k, w
  <2> QED BY <1>1, <1>3, <2>1, VisitedPlace DEF w
<1>5. SourceOf(k) = c
  <2> HIDE DEF k, x
  <2> QED BY <1>2, <1>4 DEF SourceOf, ColumnAt
<1> QED BY <1>4, <1>5

(* A point that was filled shows its measurement.                           *)
LEMMA PointShows ==
    ASSUME Whole, NEW r, NEW xyz, XyzShows(xyz, r), NEW k, RowOf(k) \in Rows,
           SourceOf(k) \in Columns
    PROVE  Shows(PointOf(xyz, k, r), RowOf(k), SourceOf(k), r)
<1> DEFINE u == RowOf(k)
           c == SourceOf(k)
           p == xyz[PixelAt(u, c)]
<1>1. p = IF InRange(u, c, r) THEN GetOrFillZero(ChannelMeant("range", r), PixelAt(u, c))
          ELSE NaN
  BY DEF XyzShows
<1>2. PointOf(xyz, k, r) = Shown(u, c, r, p)
  BY DEF PointOf, XyzOf
<1> HIDE DEF u, c, p
<1>3. Shows(Shown(u, c, r, p), u, c, r)
  <2> SUFFICES ASSUME NEW f \in DOMAIN Shown(u, c, r, p)
               PROVE  Shown(u, c, r, p)[f] =
                        CASE f = "xyz"  -> IF InRange(u, c, r)
                                THEN GetOrFillZero(ChannelMeant("range", r), PixelAt(u, c))
                                ELSE NaN
                          [] f = "ring" -> Number(u)
                          [] f = "a"    -> Number(255)
                          [] f = "t"    -> LET age == scan.timestamp[c] - scan.scan_ts
                                           IN  Number(IF age > 0 THEN age ELSE 0)
                          [] OTHER      -> GetOrFillZero(ChannelMeant(f, r), PixelAt(u, c))
    BY Zenon DEF Shows
  <2>1. Shown(u, c, r, p)[f] = IF f = "xyz" THEN p ELSE FieldValue(f, u, c, r)
    BY DEF Shown
  <2>2. CASE f = "xyz"
    BY <1>1, <2>1, <2>2
  <2>3. CASE f # "xyz"
    BY <2>1, <2>3 DEF FieldValue
  <2> QED BY <2>2, <2>3
<1> QED BY <1>2, <1>3 DEF u, c

(* The iterations that find a valid point are those of the measurements in  *)
(* range.                                                                   *)
LEMMA ValidAreInRange ==
    ASSUME config \in Configs, config.v_reduction \in Reductions, Whole,
           NEW r, NEW xyz, XyzShows(xyz, r)
    PROVE  \A k \in 1 .. Size : k \in ValidOf(xyz) <=> InRange(RowOf(k), SourceOf(k), r)
<1> SUFFICES ASSUME NEW k \in 1 .. Size
             PROVE  k \in ValidOf(xyz) <=> InRange(RowOf(k), SourceOf(k), r)
  OBVIOUS
<1> DEFINE u == RowOf(k)
           c == SourceOf(k)
           channel == ChannelMeant("range", r)
<1>1. u \in Rows /\ c \in Columns
  BY SourcesInScan DEF CloudRowsOfScan
<1>2. XyzOf(xyz, k) = IF InRange(u, c, r) THEN GetOrFillZero(channel, PixelAt(u, c)) ELSE NaN
  BY <1>1 DEF XyzShows, XyzOf
<1>3. channel # "NaN"
  BY DEF ChannelMeant, Meaning, SecondReturn
<1> HIDE DEF u, c, channel
<1>4. GetOrFillZero(channel, PixelAt(u, c)) # NaN
  BY <1>3 DEF GetOrFillZero, Number, NaN
<1> QED BY <1>2, <1>4 DEF ValidOf, u, c

LEMMA ValidCount ==
    ASSUME config \in Configs, config.v_reduction \in Reductions, Whole,
           NEW r, NEW xyz, XyzShows(xyz, r)
    PROVE  Cardinality(ValidOf(xyz)) =
             Cardinality({uc \in CloudRowsOfScan \X Columns : InRange(uc[1], uc[2], r)})
<1> DEFINE valid == {uc \in CloudRowsOfScan \X Columns : InRange(uc[1], uc[2], r)}
           V == ValidOf(xyz)
           f == [k \in V |-> <<RowOf(k), SourceOf(k)>>]
<1>1. Size \in Nat /\ V \in SUBSET (1 .. Size)
  BY VisitedPlace DEF ValidOf
<1>2. IsFiniteSet(V)
  BY <1>1, Numbering
<1>3. \A k \in V : RowOf(k) \in CloudRowsOfScan /\ SourceOf(k) \in Columns
                   /\ InRange(RowOf(k), SourceOf(k), r)
  BY <1>1, SourcesInScan, ValidAreInRange
<1>4. f \in [V -> valid]
  <2> SUFFICES ASSUME NEW k \in V PROVE <<RowOf(k), SourceOf(k)>> \in valid
    OBVIOUS
  <2> QED BY <1>3
<1>5. \A j, k \in V : f[j] = f[k] => j = k
  <2> SUFFICES ASSUME NEW j \in V, NEW k \in V, f[j] = f[k] PROVE j = k
    OBVIOUS
  <2>1. RowOf(j) = RowOf(k) /\ SourceOf(j) = SourceOf(k)
    OBVIOUS
  <2>2. /\ config.w \in Nat \ {0} /\ config.destagger \in BOOLEAN
        /\ config.pixel_shift_by_row[RowOf(k)] \in - config.w .. config.w
    <3>1. RowOf(k) \in 0 .. config.h - 1
      BY <1>3 DEF CloudRowsOfScan, Rows
    <3> QED BY <3>1, ConfigAssumption, ParameterAssumption
  <2>3. /\ PlaceOf(j) \in 0 .. config.w - 1 /\ PlaceOf(k) \in 0 .. config.w - 1
        /\ CloudTarget(RowOf(j), PlaceOf(j), config.w, config.v_reduction) = j - 1
        /\ CloudTarget(RowOf(k), PlaceOf(k), config.w, config.v_reduction) = k - 1
        /\ j \in Int /\ k \in Int
    BY <1>1, VisitedPlace DEF Columns
  <2>4. CloudColumn(PlaceOf(j), config.w, config.pixel_shift_by_row[RowOf(k)], config.destagger)
          = CloudColumn(PlaceOf(k), config.w, config.pixel_shift_by_row[RowOf(k)], config.destagger)
    BY <2>1 DEF SourceOf, ColumnAt
  <2>5. PlaceOf(j) = PlaceOf(k)
    BY <2>2, <2>3, <2>4, CloudColumnInjective
  <2>6. j - 1 = k - 1
    BY <2>1, <2>3, <2>5
  <2> QED BY <2>3, <2>6
<1>6. \A uc \in valid : \E k \in V : f[k] = uc
  <2> SUFFICES ASSUME NEW uc \in valid PROVE \E k \in V : f[k] = uc
    OBVIOUS
  <2> DEFINE k == PlaceShown(uc[1], uc[2])
  <2>1. /\ uc[1] \in CloudRowsOfScan /\ uc[2] \in Columns /\ uc = <<uc[1], uc[2]>>
        /\ InRange(uc[1], uc[2], r)
    OBVIOUS
  <2>2. k \in 1 .. Size /\ RowOf(k) = uc[1] /\ SourceOf(k) = uc[2]
    BY <2>1, EverySourceShown
  <2> HIDE DEF k
  <2>3. k \in V
    BY <2>1, <2>2, ValidAreInRange
  <2> QED BY <2>1, <2>2, <2>3
<1> HIDE DEF f, V, valid
<1>7. ExistsBijection(V, valid)
  BY <1>4, <1>5, <1>6 DEF ExistsBijection, Bijection, Injection, IsInjective, Surjection
<1> QED BY <1>2, <1>7, FS_Bijection DEF V, valid

LEMMA CloudsImply == ProcessInv /\ CloudInv /\ Whole => CloudShowsScan
<1> SUFFICES ASSUME ProcessInv, CloudInv, Whole, "PCL" \in published, NEW r \in 0 .. Returns - 1
             PROVE  LET pts == pc_msgs[r].points
                    IN  IF config.organized
                        THEN \A u \in CloudRowsOfScan, c \in Columns :
                                LET x == IF config.destagger THEN UprightColumn(u, c) ELSE c
                                IN  Shows(pts[1 + (u \div config.v_reduction) * config.w + x],
                                          u, c, r)
                        ELSE LET valid == {uc \in CloudRowsOfScan \X Columns :
                                              InRange(uc[1], uc[2], r)}
                             IN  /\ Len(pts) = Cardinality(valid)
                                 /\ \A uc \in valid : \E k \in DOMAIN pts :
                                        Shows(pts[k], uc[1], uc[2], r)
  BY DEF CloudShowsScan
<1>1. PICK xyz : XyzShows(xyz, r) /\ pc_msgs[r] = CloudOf(xyz, r)
  BY Published
<1>2. config \in Configs /\ config.v_reduction \in Reductions /\ config.organized \in BOOLEAN
  BY Published
<1>3. Size \in Nat
  BY <1>2, VisitedPlace
<1>4. ASSUME NEW u \in CloudRowsOfScan, NEW c \in Columns
      PROVE  LET k == PlaceShown(u, c)
             IN  /\ k \in 1 .. Size /\ Shows(PointOf(xyz, k, r), u, c, r)
                 /\ k \in ValidOf(xyz) <=> InRange(u, c, r)
  <2> DEFINE k == PlaceShown(u, c)
  <2>1. k \in 1 .. Size /\ RowOf(k) = u /\ SourceOf(k) = c
    BY <1>2, EverySourceShown
  <2>2. u \in Rows
    BY DEF CloudRowsOfScan
  <2> HIDE DEF k
  <2>3. Shows(PointOf(xyz, k, r), u, c, r)
    BY <1>1, <2>1, <2>2, PointShows
  <2>4. k \in ValidOf(xyz) <=> InRange(u, c, r)
    BY <1>1, <1>2, <2>1, ValidAreInRange
  <2> QED BY <2>1, <2>3, <2>4 DEF k
<1>5. CASE config.organized
  <2> SUFFICES ASSUME NEW u \in CloudRowsOfScan, NEW c \in Columns
               PROVE  Shows(pc_msgs[r].points[PlaceShown(u, c)], u, c, r)
    BY <1>5 DEF PlaceShown
  <2>1. PlaceShown(u, c) \in 1 .. Size /\ Shows(PointOf(xyz, PlaceShown(u, c), r), u, c, r)
    BY <1>4
  <2>2. \A k \in 1 .. Size : pc_msgs[r].points[k] = PointOf(xyz, k, r)
    BY <1>1, <1>2, <1>3, <1>5, CloudPoints
  <2> QED BY <2>1, <2>2
<1>6. CASE ~config.organized
  <2> DEFINE valid == {uc \in CloudRowsOfScan \X Columns : InRange(uc[1], uc[2], r)}
             pts == pc_msgs[r].points
             V == ValidOf(xyz)
  <2>1. /\ DOMAIN pts = 1 .. Cardinality(V) /\ Len(pts) = Cardinality(V)
        /\ \A j \in V : /\ Rank(V, j) \in 1 .. Cardinality(V)
                        /\ pts[Rank(V, j)] = PointOf(xyz, j, r)
    BY <1>1, <1>2, <1>3, <1>6, CloudPoints
  <2>2. Cardinality(V) = Cardinality(valid)
    BY <1>1, <1>2, ValidCount
  <2>3. ASSUME NEW uc \in valid PROVE \E k \in DOMAIN pts : Shows(pts[k], uc[1], uc[2], r)
    <3> DEFINE j == PlaceShown(uc[1], uc[2])
    <3>1. uc[1] \in CloudRowsOfScan /\ uc[2] \in Columns /\ InRange(uc[1], uc[2], r)
      OBVIOUS
    <3>2. Shows(PointOf(xyz, j, r), uc[1], uc[2], r) /\ j \in V
      BY <1>4, <3>1
    <3> HIDE DEF j, V, pts
    <3> QED BY <2>1, <3>2
  <2> HIDE DEF valid, V
  <2>4. Len(pts) = Cardinality(valid)
    BY <2>1, <2>2
  <2> QED BY <1>6, <2>3, <2>4 DEF valid
<1> QED BY <1>5, <1>6

-----------------------------------------------------------------------------
(* The laser scans.                                                         *)
LaserOf(r) ==
    [t \in Columns |->
        LET v == CHOOSE v \in Columns : LaserTarget(v, config.w) = t
            i == PixelAt(Ring, LaserColumn(v, config.w, LaserShift(Ring)))
        IN  [range |-> GetOrFillZero(ScanReturn("RANGE", r), i),
             intensity |-> GetOrFillZero(ScanReturn("SIGNAL", r), i)]]

LaserInv ==
    /\ Created => DOMAIN scan_msgs = 0 .. Returns - 1
    /\ \A r \in 0 .. Done("SCAN") - 1 : scan_msgs[r] = LaserOf(r)

LEMMA LaserStays ==
    ASSUME UNCHANGED <<config, scan>>
    PROVE  (\A r : LaserOf(r)' = LaserOf(r)) /\ Returns' = Returns
  BY DEF LaserOf, Columns, PixelAt, Ring, LaserShift, GetOrFillZero, ScanFields, Returns

LEMMA LaserStep ==
    ASSUME ProcessInv, LaserInv, [Next]_vars
    PROVE  LaserInv'
<1>1. CASE CreateHandlers \/ CreateThrows \/ NextScan
  <2>1. UNCHANGED vars \/ Done("SCAN")' = 0
    BY <1>1, OtherStep
  <2>2. Done("SCAN")' = 0
    <3>1. CASE CreateHandlers
      <4>1. processors # processors'
        BY <3>1, NotInitial DEF CreateHandlers
      <4> QED BY <2>1, <4>1 DEF vars
    <3>2. CASE CreateThrows
      <4>1. ~Created' /\ published' = {}
        BY <3>2 DEF CreateThrows, Created, ProcessInv
      <4> QED BY <4>1 DEF Done, Runs
    <3>3. CASE NextScan
      <4>1. scan'.id = scan.id + 1 /\ scan.id \in Int
        BY <3>3 DEF NextScan, ProcessInv
      <4>2. scan' # scan
        BY <4>1
      <4> QED BY <2>1, <4>2 DEF vars
    <3> QED BY <1>1, <3>1, <3>2, <3>3
  <2>3. Created' => DOMAIN scan_msgs' = 0 .. Returns' - 1
    <3>1. config' = config /\ Returns' = Returns
      BY <1>1 DEF CreateHandlers, CreateThrows, NextScan, Returns
    <3>2. CASE CreateHandlers
      BY <3>1, <3>2 DEF CreateHandlers
    <3>3. CASE CreateThrows
      BY <3>3 DEF CreateThrows, Created
    <3>4. CASE NextScan
      <4>1. processors = << >> /\ scan_msgs' = scan_msgs
        BY <3>4 DEF NextScan
      <4>2. Created
        BY <4>1, NotInitial DEF Created
      <4> QED BY <3>1, <4>1, <4>2 DEF LaserInv
    <3> QED BY <1>1, <3>2, <3>3, <3>4
  <2>4. 0 .. Done("SCAN")' - 1 = {}
    BY <2>2
  <2> QED BY <2>3, <2>4 DEF LaserInv
<1>2. CASE MakeLaserScan
  <2>1. /\ Running("SCAN") /\ EndReturn /\ UNCHANGED <<config, scan>>
        /\ scan_msgs' = [scan_msgs EXCEPT ![return] = LaserOf(return)]
    BY <1>2 DEF MakeLaserScan, LaserScan, LaserOf
  <2>2. /\ Created /\ Created' /\ return \in 0 .. Returns - 1
        /\ Done("SCAN") = return /\ Done("SCAN")' = return + 1
    BY <2>1, ProcessorStep
  <2>3. DOMAIN scan_msgs = 0 .. Returns - 1
    BY <2>2 DEF LaserInv
  <2>4. \A r \in 0 .. return : scan_msgs'[r] = LaserOf(r)
    BY <2>1, <2>2, <2>3 DEF LaserInv
  <2>5. 0 .. Done("SCAN")' - 1 = 0 .. return /\ DOMAIN scan_msgs' = DOMAIN scan_msgs
    BY <2>1, <2>2
  <2> QED BY <2>1, <2>3, <2>4, <2>5, LaserStays DEF LaserInv
<1>3. CASE MakeCloud \/ MakeImages
  <2>1. PICK name \in {"PCL", "IMG"} : Running(name)
    BY <1>3 DEF MakeCloud, MakeImages
  <2>2. EndReturn /\ UNCHANGED <<config, scan, scan_msgs>>
    BY <1>3 DEF MakeCloud, MakeImages
  <2>3. Created /\ Created' /\ Done("SCAN")' = Done("SCAN")
    BY <2>1, <2>2, ProcessorStep
  <2> QED BY <2>2, <2>3, LaserStays DEF LaserInv
<1>4. CASE UNCHANGED vars
  <2>1. UNCHANGED <<config, scan, scan_msgs, published, processors, return>>
    BY <1>4 DEF vars
  <2>2. Created' = Created /\ Done("SCAN")' = Done("SCAN")
    BY <2>1 DEF Created, Done, Runs, Running, Returns
  <2> QED BY <2>1, <2>2, LaserStays DEF LaserInv
<1> QED BY <1>1, <1>2, <1>3, <1>4 DEF Next

-----------------------------------------------------------------------------
(* Laser scan, image and cloud read the same pixel.                         *)
LEMMA LaserColumnValue ==
    ASSUME NEW w \in Nat \ {0}, SizeModulus % w = 0, NEW shift \in Int, NEW turn \in Int,
           NEW t \in 0 .. w - 1
    PROVE  LaserColumn(w - 1 - t, w, shift - turn)
             = (((((w \div 2) - 1 - t + turn) % w)) + (w - shift)) % w
<1> DEFINE half == w \div 2
           y == half - 1 - t + turn
           v == w - 1 - t
           a == v + w - (shift - turn) + half
<1>1. half \in Int
  BY Division
<1> HIDE DEF half
<1>2. y \in Int /\ v \in Int /\ w - shift \in Int /\ a \in Int
  BY <1>1
<1>3. a = w * 1 + (y + (w - shift))
  BY <1>1
<1>4. LaserColumn(v, w, shift - turn) = (a % SizeModulus) % w
  BY DEF LaserColumn, half
<1>5. (a % SizeModulus) % w = a % w
  <2> HIDE DEF a
  <2> QED BY <1>2, SizeAssumption, RemainderOfRemainder
<1>6. a % w = (y + (w - shift)) % w
  <2>1. y + (w - shift) \in Int /\ 1 \in Int
    BY <1>2
  <2>2. (w * 1 + (y + (w - shift))) % w = (y + (w - shift)) % w
    BY <2>1, RemainderPeriod
  <2> HIDE DEF a, y
  <2> QED BY <1>3, <2>2
<1>7. ((y % w) + (w - shift)) % w = (y + (w - shift)) % w
  <2> HIDE DEF y
  <2> QED BY <1>2, SumOfRemainder
<1> HIDE DEF a
<1> QED BY <1>4, <1>5, <1>6, <1>7 DEF half

LEMMA RingIsRow == config \in Configs => Ring \in Rows
<1>1. config \in Configs => config.h \in Nat \ {0}
  BY ConfigAssumption
<1>2. config \in Configs => config.scan_ring \in Int
  BY ParameterAssumption
<1> QED BY <1>1, <1>2 DEF Ring, Rows

LEMMA ViewsImplied == ProcessInv /\ CloudInv /\ ImagesInv /\ LaserInv => ViewsAgree
<1> SUFFICES ASSUME ProcessInv, CloudInv, ImagesInv, LaserInv, "IMG" \in published,
                    "SCAN" \in published, ~Masked,
                    NEW r \in 0 .. Returns - 1, NEW t \in Columns
             PROVE  LET half == config.w \div 2
                        turn == IF config.old_firmware THEN FirmwareOffset ELSE 0
                        x == (half - 1 - t + turn) % config.w
                        row == Ring \div config.v_reduction
                        image == image_msgs[ScanReturn("RANGE", r)]
                    IN  /\ scan_msgs[r][t].range = image[PixelAt(Ring, x)]
                        /\ "PCL" \in published /\ config.organized /\ config.destagger
                           /\ Ring % config.v_reduction = 0
                           /\ "range" \in PointFields(config.point_type, config.profile)
                           => pc_msgs[r].points[1 + row * config.w + x].range
                                = image[PixelAt(Ring, x)]
  BY DEF ViewsAgree
<1> DEFINE w == config.w
           shift == config.pixel_shift_by_row[Ring]
           turn == IF config.old_firmware THEN FirmwareOffset ELSE 0
           x == ((config.w \div 2) - 1 - t + turn) % w
           c == (x + (w - shift)) % w
           key == ScanReturn("RANGE", r)
           seen == GetOrFillZero(key, PixelAt(Ring, c))
<1>1. /\ Created /\ config \in Configs /\ config.profile \in DOMAIN ScanProfile
      /\ Done("IMG") = Returns /\ Done("SCAN") = Returns
  BY DEF ProcessInv, Done
<1>2. /\ w \in Nat \ {0} /\ SizeModulus % w = 0 /\ t \in 0 .. w - 1 /\ t \in Int
      /\ turn \in Int /\ Ring \in Rows /\ shift \in - w .. w /\ shift \in Int
  BY <1>1, RingIsRow, ConfigAssumption, ParameterAssumption DEF Columns, Rows
<1>3. x \in Columns
  <2>1. w \div 2 \in Int
    BY <1>2, Division
  <2>2. (w \div 2) - 1 - t + turn \in Int
    <3> HIDE DEF turn, w
    <3> QED BY <1>2, <2>1
  <2> HIDE DEF turn
  <2> QED BY <1>2, <2>2, Division DEF Columns
<1>4. Returns \in {1, 2} /\ r \in {0, 1}
  BY <1>1, ProfileReturns DEF Returns
<1>5. image_msgs[key][PixelAt(Ring, x)] = seen
  <2>1. key \in KeysOf(r) /\ ImageChannel(key) = key
    BY <1>4 DEF KeysOf, ScanReturn, ImageChannel
  <2>2. image_msgs[key] = Image(key)
    BY <1>1, <2>1 DEF ImagesInv
  <2>3. /\ PixelAt(Ring, x) \in Pixels /\ PixelAt(Ring, x) \div w = Ring
        /\ PixelAt(Ring, x) % w = x
    <3> HIDE DEF x
    <3> QED BY <1>1, <1>2, <1>3, PixelPlace
  <2>4. ImageColumn(x, w, shift) = c
    <3> HIDE DEF x, shift, w
    <3>1. x \in Int
      BY <1>2, <1>3 DEF Columns, w
    <3> QED BY <1>2, <3>1, ImageColumnValue
  <2> DEFINE p == PixelAt(Ring, x)
  <2> HIDE DEF x, c, p, key
  <2>5. Image(key)[p] = GetOrFillZero(ImageChannel(key), PixelAt(Ring, c))
    BY <2>3, <2>4 DEF Image, p
  <2> QED BY <2>1, <2>2, <2>5 DEF p
<1>6. scan_msgs[r][t].range = seen
  <2> DEFINE v == CHOOSE v \in Columns : LaserTarget(v, w) = t
  <2>1. w - 1 - t \in Columns /\ LaserTarget(w - 1 - t, w) = t
    <3> HIDE DEF w
    <3> QED BY <1>2 DEF Columns, LaserTarget, w
  <2>2. \A y \in Columns : LaserTarget(y, w) = t => y = w - 1 - t
    <3>1. Columns = 0 .. w - 1
      BY DEF Columns
    <3> HIDE DEF w
    <3> QED BY <1>2, <3>1 DEF LaserTarget
  <2>3. v = w - 1 - t
    <3> HIDE DEF w
    <3> QED BY <2>1, <2>2
  <2>4. LaserShift(Ring) = shift - turn
    <3> HIDE DEF turn
    <3> QED BY DEF LaserShift, turn
  <2>5. LaserColumn(w - 1 - t, w, shift - turn) = c
    <3> HIDE DEF w, turn, shift
    <3> QED BY <1>2, LaserColumnValue DEF w
  <2>6. scan_msgs[r] = LaserOf(r)
    BY <1>1 DEF LaserInv
  <2>7. LaserOf(r)[t].range = GetOrFillZero(key, PixelAt(Ring, LaserColumn(v, w, LaserShift(Ring))))
    BY DEF LaserOf
  <2> HIDE DEF v, c, shift, turn
  <2> QED BY <2>3, <2>4, <2>5, <2>6, <2>7
<1>7. ASSUME "PCL" \in published, config.organized, config.destagger,
             Ring % config.v_reduction = 0,
             "range" \in PointFields(config.point_type, config.profile)
      PROVE  pc_msgs[r].points[1 + (Ring \div config.v_reduction) * w + x].range = seen
  <2> DEFINE k == 1 + (Ring \div config.v_reduction) * w + x
  <2>1. PICK xyz : pc_msgs[r] = CloudOf(xyz, r)
    BY <1>7, Published
  <2>2. config.v_reduction \in Reductions /\ config.organized \in BOOLEAN
    BY <1>7, Published
  <2>3. Ring \in VisitedRows(config.h, config.v_reduction)
    BY <1>2, <1>7 DEF VisitedRows, Rows
  <2>4. Size \in Nat /\ k \in 1 .. Size /\ RowOf(k) = Ring /\ PlaceOf(k) = x
    <3> HIDE DEF x
    <3> QED BY <1>1, <1>3, <2>2, <2>3, VisitedPlace
  <2>5. SourceOf(k) = c
    <3>1. CloudColumn(x, w, shift, TRUE) = c
      <4>1. x \in 0 .. w - 1
        BY <1>3 DEF Columns
      <4> HIDE DEF x, w, shift
      <4> QED BY <1>2, <4>1, CloudColumnUpright
    <3> HIDE DEF k, x, c
    <3> QED BY <1>7, <2>4, <3>1 DEF SourceOf, ColumnAt
  <2>6. pc_msgs[r].points[k] = PointOf(xyz, k, r)
    <3> HIDE DEF k
    <3> QED BY <1>7, <2>1, <2>2, <2>4, CloudPoints
  <2>7. PointOf(xyz, k, r).range = FieldValue("range", Ring, c, r)
    <3> HIDE DEF k, c
    <3> QED BY <1>7, <2>4, <2>5 DEF PointOf, Shown
  <2>8. FieldValue("range", Ring, c, r) = GetOrFillZero(ChannelMeant("range", r), PixelAt(Ring, c))
    BY DEF FieldValue
  <2>9. ChannelMeant("range", r) = key
    BY <1>4 DEF ScanReturn, ChannelMeant, Meaning, SecondReturn
  <2> HIDE DEF k, c
  <2> QED BY <2>6, <2>7, <2>8, <2>9 DEF k
<1> HIDE DEF seen
<1> QED BY <1>5, <1>6, <1>7 DEF x, turn, key

-----------------------------------------------------------------------------
(* The theorems.                                                            *)
IInv == ProcessInv /\ ImagesInv /\ CloudInv /\ LaserInv

LEMMA IInvHolds == Spec => []IInv
<1>1. Init => IInv
  <2>1. Init => ~Created /\ image_msgs = << >> /\ published = {}
    BY DEF Init, Created
  <2>2. Init => ImagesInv /\ LaserInv
    BY <2>1 DEF ImagesInv, LaserInv, Done, Runs
  <2> QED BY <2>2, ProcessInit, CloudInit DEF IInv
<1>2. IInv /\ [Next]_vars => IInv'
  BY ProcessStep, ImagesStep, CloudStep, LaserStep DEF IInv
<1> QED BY <1>1, <1>2, PTL DEF Spec

LEMMA TypesImplied == IInv => TypeOK
<1> SUFFICES ASSUME IInv PROVE TypeOK
  OBVIOUS
<1> USE DEF IInv
<1>1. CASE Created
  <2> DEFINE q == processors
             names == {"PCL", "SCAN", "IMG"}
  <2>1. q \in Seq(config.tokens) /\ Len(q) <= 3 /\ config.tokens \subseteq names
    BY <1>1, Asked DEF ProcessInv, Queue
  <2> HIDE DEF q, names
  <2>2. Len(q) \in 0 .. 3 /\ q \in [1 .. Len(q) -> names] /\ ToSet(q) \subseteq config.tokens
    <3>1. Len(q) \in 0 .. 3
      <4> DEFINE n == Len(q)
      <4>1. n \in Nat /\ n <= 3
        BY <2>1
      <4> HIDE DEF n
      <4>2. n \in 0 .. 3
        BY <4>1
      <4> QED BY <4>2 DEF n
    <3>2. q \in [1 .. Len(q) -> config.tokens]
      BY <2>1
    <3>3. ToSet(q) = {q[i] : i \in 1 .. Len(q)}
      BY <3>2 DEF ToSet
    <3> QED BY <2>1, <3>1, <3>2, <3>3
  <2>3. q \in {s \in UNION {[1 .. n -> names] : n \in 0 .. 3} : ToSet(s) \subseteq config.tokens}
    BY <2>2
  <2>4. warned \in BOOLEAN
    BY Zenon DEF CloudInv, WarnInv
  <2>5. \A key \in DOMAIN image_msgs : DOMAIN image_msgs[key] = Pixels
    BY <1>1 DEF ImagesInv
  <2>6. /\ config \in Configs /\ scan.id \in 0 .. MaxScans /\ return \in 0 .. Returns - 1
        /\ published \subseteq config.tokens
    BY <1>1 DEF ProcessInv
  <2> QED BY <2>3, <2>4, <2>5, <2>6, Zenon DEF TypeOK, q, names
<1>2. CASE ~Created
  <2>1. image_msgs = << >> /\ DOMAIN << >> = {}
    BY <1>2 DEF ImagesInv
  <2>2. warned \in BOOLEAN
    BY Zenon DEF CloudInv, WarnInv
  <2>3. /\ config \in Configs /\ scan.id \in 0 .. MaxScans /\ return = 0
        /\ published \subseteq config.tokens /\ processors \in {<<"create">>, <<"thrown">>}
    BY <1>2 DEF ProcessInv
  <2>4. \A key \in DOMAIN image_msgs : DOMAIN image_msgs[key] = Pixels
    BY <2>1
  <2> QED BY <2>2, <2>3, <2>4, Zenon DEF TypeOK
<1> QED BY <1>1, <1>2

(* The buffers the processors keep hold points, rows and pixels of the      *)
(* sensor's dimensions only, for every set of sensors and parameters.       *)
THEOREM ProcessorTypeCorrect == Spec => []TypeOK
  BY IInvHolds, TypesImplied, PTL

(* Every image shows the scan upright, whatever the profile, the shifts,    *)
(* the mask and the scans before it.                                        *)
THEOREM ImagesUpright == Spec => []ImagesShowScan
<1>1. IInv => ImagesShowScan
  BY ImagesImply DEF IInv
<1> QED BY <1>1, IInvHolds, PTL

(* A cloud is called dense exactly if it is, whatever the buffer held.      *)
THEOREM DenseToldTruly == Spec => []DenseIsTrue
<1>1. IInv => DenseIsTrue
  BY DenseImplied DEF IInv
<1> QED BY <1>1, IInvHolds, PTL

(* The warning is logged exactly for the profiles and point types without a *)
(* channel for the intensity.                                               *)
THEOREM WarnedOfConstant == Spec => []WarnedIffConstant
<1>1. IInv => WarnedIffConstant
  BY WarningImplied DEF IInv
<1> QED BY <1>1, IInvHolds, PTL

(* The three computations of the destaggered column agree on every scan.    *)
THEOREM ViewsOfOneScan == Spec => []ViewsAgree
<1>1. IInv => ViewsAgree
  BY ViewsImplied DEF IInv
<1> QED BY <1>1, IInvHolds, PTL

(* Every measurement that is kept is in the cloud, with its own values in    *)
(* the fields of whatever point type; unless a mask meets a reduction, where *)
(* the code computes xyz from a part of the scan (RangeCoversPoints).        *)
THEOREM CloudsShown ==
    ASSUME \A c \in Configs : c.mask # << >> => c.v_reduction = 1
    PROVE  Spec => []CloudShowsScan
<1>1. IInv => Whole
  BY DEF IInv, ProcessInv, Whole, Masked
<1>2. IInv => CloudShowsScan
  BY <1>1, CloudsImply DEF IInv
<1> QED BY <1>2, IInvHolds, PTL
=============================================================================
