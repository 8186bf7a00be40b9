--------------------------- MODULE AlignmentProofs ---------------------------
(***************************************************************************)
(* What the alignment promises: ScanFit for every number of points, every  *)
(* reading and every tolerance, and whatever the least squares come back   *)
(* with; ScanColumns for every run; AlignmentProcedure for every width,    *)
(* step, tolerance, cap and pattern of beam changes, quick reads and       *)
(* failures.                                                               *)
(***************************************************************************)
EXTENDS ScanFit, ScanColumns, AlignmentProcedure, FiniteSetTheorems, WellFoundedInduction,
        TLAPS

(* A set of numbers has a least one: how facts about all prefixes of a scan   *)
(* and all stretches of cycles are proved, by way of the least exception.     *)
LEMMA LeastNumber ==
    ASSUME NEW T, T \subseteq Nat, T # {}
    PROVE  \E n \in T : \A m \in T : n <= m
<1> DEFINE R == OpToRel(<, Nat)
<1>1. IsWellFoundedOn(R, Nat)
  BY NatLessThanWellFounded
<1>2. \A m, n \in Nat : m < n => <<m, n>> \in R
  BY DEF OpToRel
<1> HIDE DEF R
<1>3. PICK n \in T : \A m \in T : <<m, n>> \notin R
  BY <1>1, WFMin
<1>4. \A m \in T : ~(m < n)
  BY <1>2, <1>3, Zenon
<1>5. QED
  BY <1>4

LEMMA SequencesAreIndexed ==
    ASSUME NEW S, NEW s \in Seq(S)
    PROVE  Len(s) \in Nat /\ DOMAIN s = 1 .. Len(s) /\ \A i \in DOMAIN s : s[i] \in S
OBVIOUS

(* Of some numbers in a row one is the highest.                               *)
LEMMA HighestOfMany ==
    ASSUME NEW n \in Nat, NEW D, D \subseteq 1 .. n, D # {}, NEW f, \A i \in D : f[i] \in Int
    PROVE  \E i \in D : \A j \in D : f[j] <= f[i]
<1> DEFINE Upto(m) == {i \in D : i <= m}
           High(m) == \E i \in Upto(m) : \A j \in Upto(m) : f[j] <= f[i]
           T == {m \in 1 .. n : Upto(m) # {} /\ ~High(m)}
<1>1. \A i \in D : i \in Nat /\ 1 <= i /\ i <= n
  OBVIOUS
<1>2. ASSUME NEW m \in T, \A k \in T : m <= k PROVE FALSE
  <2>1. m \in 1 .. n /\ Upto(m) # {} /\ ~High(m)
    BY <1>2
  <2>2. PICK k \in Nat : k = m - 1
    BY <2>1
  <2>3. \A i \in D : i <= m <=> i <= k \/ i = m
    BY <1>1, <2>1, <2>2
  <2>4. \A i : i \in Upto(m) <=> i \in Upto(k) \/ (i = m /\ m \in D)
    <3>1. m <= m /\ ~(m <= k)
      BY <2>1, <2>2
    <3>2. QED
      BY <2>3, <3>1, Zenon
  <2>5. k \notin T
    BY <1>2, <2>1, <2>2
  <2> HIDE DEF Upto
  <2>6. CASE Upto(k) = {}
    <3>1. m \in Upto(m) /\ \A i \in Upto(m) : i = m
      BY <2>1, <2>4, <2>6
    <3>2. m \in D /\ f[m] \in Int
      BY <2>4, <2>6, <3>1
    <3>3. QED
      BY <2>1, <3>1, <3>2
  <2>7. CASE Upto(k) # {}
    <3>1. k \in 1 .. n
      <4>1. PICK i \in Upto(k) : TRUE
        BY <2>7
      <4>2. i \in D /\ i <= k
        BY <4>1 DEF Upto
      <4>3. QED
        BY <1>1, <2>1, <2>2, <4>2
    <3>2. PICK i \in Upto(k) : \A j \in Upto(k) : f[j] <= f[i]
      BY <2>5, <2>7, <3>1
    <3>3. i \in Upto(m) /\ i \in D
      BY <2>4, <3>2 DEF Upto
    <3>4. CASE m \in D /\ f[m] > f[i]
      <4>1. \A j \in Upto(k) : j \in D
        BY DEF Upto
      <4>2. \A j \in Upto(m) : f[j] <= f[m]
        BY <2>4, <3>2, <3>3, <3>4, <4>1
      <4>3. QED
        BY <2>1, <2>4, <3>4, <4>2
    <3>5. CASE ~(m \in D /\ f[m] > f[i])
      <4>1. m \in D => f[m] <= f[i]
        BY <3>3, <3>5
      <4>2. \A j \in Upto(m) : f[j] <= f[i]
        BY <2>4, <3>2, <4>1, Zenon
      <4>3. QED
        BY <2>1, <3>3, <4>2
    <3>6. QED
      BY <3>4, <3>5
  <2>8. QED
    BY <2>6, <2>7
<1>3. T = {}
  <2>1. T \subseteq Nat
    OBVIOUS
  <2> HIDE DEF T
  <2>2. QED
    BY <1>2, <2>1, LeastNumber
<1>4. n \in 1 .. n
  <2>1. PICK i \in D : TRUE
    OBVIOUS
  <2>2. QED
    BY <1>1, <2>1
<1>5. Upto(n) = D
  BY <1>1
<1> HIDE DEF Upto
<1>6. High(n)
  BY <1>3, <1>4, <1>5
<1>7. QED
  BY <1>5, <1>6

-----------------------------------------------------------------------------
(* The fits *)

Slope == Rises \/ Falls

(* A peak is only looked for in a scan that has been taken.                   *)
FitInv ==
    /\ y \in Seq(Int)
    /\ y = <<>> => kind = "lift" /\ result = None
    /\ SlopeIsNoPeak

-----------------------------------------------------------------------------
(* _is_monotonic counts the rises: all of the steps of a profile that rises,  *)
(* and none of one that never does.                                           *)
LEMMA UpsOfASlope ==
    ASSUME y \in Seq(Int), Size >= 3
    PROVE  /\ Rises => Ups = Size - 1
           /\ Falls => Ups = 0
<1>1. Size \in Nat /\ \A i \in 1 .. Size : y[i] \in Int
  BY DEF Size
<1>2. ASSUME Rises PROVE Ups = Size - 1
  <2>1. {i \in 1 .. Size - 1 : y[i] < y[i + 1]} = 1 .. Size - 1
    BY <1>2 DEF Rises
  <2>2. Cardinality(1 .. Size - 1) = Size - 1
    BY <1>1, FS_Interval
  <2>3. QED
    BY <2>1, <2>2 DEF Ups
<1>3. ASSUME Falls PROVE Ups = 0
  <2>1. {i \in 1 .. Size - 1 : y[i] < y[i + 1]} = {}
    BY <1>1, <1>3 DEF Falls
  <2>2. QED
    BY <2>1, FS_EmptySet DEF Ups
<1>4. QED
  BY <1>2, <1>3

LEMMA ProductsAreNatural == \A a, b \in Nat : a * b \in Nat
OBVIOUS

LEMMA SlopesAreMonotonic ==
    ASSUME y \in Seq(Int), Size >= 3, Slope
    PROVE  IsMonotonic
<1>1. Size - 1 \in Nat /\ TolNum \in Nat /\ TolDen \in Nat
  BY FitAssumption DEF Size
<1>2. CASE Rises
  <2> DEFINE n == Size - 1
  <2>1. TolNum * n \in Nat /\ TolDen * n \in Nat /\ n \in Nat
    BY <1>1, ProductsAreNatural
  <2>2. (TolDen - TolNum) * n = TolDen * n - TolNum * n /\ n * TolDen = TolDen * n
    BY <1>1
  <2>3. n * TolDen >= (TolDen - TolNum) * n
    BY <2>1, <2>2
  <2>4. QED
    BY <1>2, <2>3, UpsOfASlope DEF IsMonotonic
<1>3. CASE Falls
  <2>1. 0 * TolDen = 0 /\ TolNum * (Size - 1) \in Nat
    BY <1>1, ProductsAreNatural
  <2>2. QED
    BY <1>3, <2>1, UpsOfASlope DEF IsMonotonic
<1>4. QED
  BY <1>2, <1>3 DEF Slope

LEMMA OnTheBoundaryNotDetected ==
    /\ \A p, m, r : ~Peak(p, m, r, TRUE).detected
    /\ \A p, q : ~NotDetected(p, q).detected
BY Zenon DEF Peak, NotDetected

-----------------------------------------------------------------------------
LEMMA InitHasNoScan == FitInit => FitInv
<1>1. <<>> \in Seq(Int)
  OBVIOUS
<1>2. QED
  BY <1>1, Zenon DEF FitInit, FitInv, SlopeIsNoPeak

LEMMA StepFindsNoPeak == FitInv /\ [FitNext]_fitVars => FitInv'
<1> SUFFICES ASSUME FitInv, [FitNext]_fitVars PROVE FitInv'
  OBVIOUS
<1>1. CASE TakeScan
  <2>1. result' = None
    BY <1>1, Zenon DEF TakeScan, FitInv
  <2>2. PICK n \in 1 .. MaxPoints : y' \in [1 .. n -> Heights]
    BY <1>1 DEF TakeScan
  <2>3. y' \in Seq(Int) /\ Len(y') = n
    <3>1. n \in Nat
      BY FitAssumption
    <3>2. Heights \subseteq Int
      BY FitAssumption
    <3>3. y' \in [1 .. n -> Int]
      BY <2>2, <3>2, Zenon
    <3>4. QED
      BY <3>1, <3>3
  <2>4. y' # <<>>
    BY <2>2, <2>3
  <2>5. QED
    BY <2>1, <2>3, <2>4, Zenon DEF FitInv, SlopeIsNoPeak
<1>2. CASE FitFallingEdge
  BY <1>2, Zenon DEF FitFallingEdge, FitInv, SlopeIsNoPeak
<1>3. CASE RejectScan
  <2>1. ~result'.detected
    BY <1>3, OnTheBoundaryNotDetected, Zenon DEF RejectScan
  <2>2. QED
    BY <1>3, <2>1, Zenon DEF RejectScan, FitInv, SlopeIsNoPeak
<1>4. CASE TryShape \/ FallBack
  <2>1. kind = "theta" /\ result = None /\ Size >= 3 /\ y' = y /\ kind' = kind
    <3>1. Trying /\ y' = y /\ kind' = kind
      BY <1>4, Zenon DEF TryShape, FallBack
    <3>2. kind = "theta" /\ result = None /\ ~(Size < 4) /\ y \in Seq(Int)
      BY <3>1, Zenon DEF Trying, TooShort, FitInv
    <3>3. Size >= 3
      BY <3>2 DEF Size
    <3>4. QED
      BY <3>1, <3>2, <3>3
  <2>2. ASSUME Slope PROVE result' = None \/ ~result'.detected
    <3>1. IsMonotonic
      BY <2>1, <2>2, SlopesAreMonotonic DEF FitInv
    <3>2. CASE TryShape
      <4>1. PICK o \in Outcome :
               \/ result' = Peak(At(o), Shapes[tier], o.r2, AtBoundary(At(o)) \/ IsMonotonic)
               \/ result' = result
        BY <3>2, Zenon DEF TryShape
      <4>2. (AtBoundary(At(o)) \/ IsMonotonic) = TRUE
        BY <3>1
      <4>3. QED
        BY <2>1, <4>1, <4>2, OnTheBoundaryNotDetected, Zenon
    <3>3. CASE FallBack
      <4>1. \E p : result' = NotDetected(None, None) \/ result' = Peak(p, "argmax", None, TRUE)
        BY <3>1, <3>3, Zenon DEF FallBack
      <4>2. QED
        BY <4>1, OnTheBoundaryNotDetected, Zenon
    <3>4. QED
      BY <1>4, <3>2, <3>3
  <2>3. Slope' = Slope
    BY <2>1 DEF Slope, Rises, Falls, Size
  <2>4. y # <<>>
    BY <2>1, Zenon DEF FitInv
  <2>5. QED
    BY <2>1, <2>2, <2>3, <2>4, Zenon DEF FitInv, SlopeIsNoPeak, Slope
<1>5. CASE UNCHANGED fitVars
  BY <1>5 DEF fitVars, FitInv, SlopeIsNoPeak, Rises, Falls, Size
<1>6. QED
  BY <1>1, <1>2, <1>3, <1>4, <1>5 DEF FitNext

(* "Widen the scan, do not move": no peak is detected in a scan whose         *)
(* readings rise, or never rise, from one end to the other, whichever shape   *)
(* fits it and whichever fallback answers.                                    *)
THEOREM NoPeakInASlope == FitSpec => []SlopeIsNoPeak
<1>1. FitInv => SlopeIsNoPeak
  BY DEF FitInv
<1>2. QED
  BY <1>1, InitHasNoScan, StepFindsNoPeak, PTL DEF FitSpec

(* A sum of integers is one: the partial sums exist up to every point, and    *)
(* each of them is an integer, since no point is the first where they fail.   *)
LEMMA SumsAreIntegers ==
    ASSUME y \in Seq(Int), NEW f, \A i \in 1 .. Size : f[i] \in Int
    PROVE  Total(f) \in Int
<1> DEFINE Sums(n, g) == g[0] = 0 /\ \A k \in 1 .. n : g[k] = g[k - 1] + f[k]
           Bad == {n \in 0 .. Size : ~\E g : Sums(n, g)}
<1>1. Size \in Nat
  BY DEF Size
<1>2. Bad = {}
  <2>1. ASSUME NEW n \in Bad, \A m \in Bad : n <= m PROVE FALSE
    <3>1. n # 0
      <4>1. Sums(0, [k \in {0} |-> 0])
        OBVIOUS
      <4>2. QED
        BY <2>1, <4>1
    <3>2. n - 1 \in 0 .. Size /\ n - 1 \notin Bad /\ n \in 1 .. Size
      <4>1. n \in 0 .. Size
        BY <2>1
      <4>2. n - 1 \in 0 .. Size /\ n \in 1 .. Size /\ ~(n <= n - 1)
        BY <1>1, <3>1, <4>1
      <4>3. QED
        BY <2>1, <4>2, Zenon
    <3>3. PICK g : Sums(n - 1, g)
      BY <3>2
    <3> DEFINE h == [k \in 0 .. n |-> IF k = n THEN g[n - 1] + f[n] ELSE g[k]]
    <3>4. h[0] = 0
      BY <3>2, <3>3
    <3>5. ASSUME NEW k \in 1 .. n PROVE h[k] = h[k - 1] + f[k]
      <4>1. k - 1 \in 0 .. n - 1 /\ k \in 0 .. n /\ k - 1 # n
        BY <3>2, <3>5
      <4>2. h[k - 1] = g[k - 1]
        BY <3>2, <4>1
      <4>3. CASE k = n
        BY <4>1, <4>2, <4>3
      <4>4. CASE k # n
        <5>1. k \in 1 .. n - 1
          BY <3>2, <3>5, <4>4
        <5>2. h[k] = g[k]
          BY <4>1, <4>4
        <5>3. QED
          BY <3>3, <4>2, <5>1, <5>2
      <4>5. QED
        BY <4>3, <4>4
    <3> HIDE DEF h
    <3>6. Sums(n, h)
      BY <3>4, <3>5
    <3>7. QED
      BY <2>1, <3>6
  <2>2. Bad \subseteq Nat
    BY <1>1
  <2> HIDE DEF Bad
  <2>3. QED
    BY <2>1, <2>2, LeastNumber
<1>3. PICK g : Sums(Size, g)
  <2>1. Size \in 0 .. Size
    BY <1>1
  <2>2. QED
    BY <1>2, <2>1
<1> DEFINE Recursive(u) == u = [n \in 0 .. Size |-> IF n = 0 THEN 0 ELSE u[n - 1] + f[n]]
           upTo == CHOOSE u : Recursive(u)
<1>4. Recursive(upTo)
  <2> DEFINE u == [n \in 0 .. Size |-> g[n]]
  <2>1. \A n \in 0 .. Size : u[n] = g[n]
    OBVIOUS
  <2>2. ASSUME NEW n \in 0 .. Size PROVE u[n] = IF n = 0 THEN 0 ELSE u[n - 1] + f[n]
    <3>1. CASE n = 0
      BY <1>3, <2>1, <3>1
    <3>2. CASE n # 0
      <4>1. n \in 1 .. Size /\ n - 1 \in 0 .. Size
        BY <1>1, <2>2, <3>2
      <4>2. g[n] = g[n - 1] + f[n]
        BY <1>3, <4>1
      <4>3. QED
        BY <2>1, <3>2, <4>1, <4>2
    <3>3. QED
      BY <3>1, <3>2
  <2>3. Recursive(u)
    BY <2>2
  <2> HIDE DEF u, Recursive
  <2>4. QED
    BY <2>3, Zenon
<1>5. Total(f) = upTo[Size]
  BY DEF Total
<1> HIDE DEF upTo
<1>6. upTo[0] = 0 /\ \A n \in 1 .. Size : upTo[n] = upTo[n - 1] + f[n]
  <2>1. \A n \in 0 .. Size : upTo[n] = IF n = 0 THEN 0 ELSE upTo[n - 1] + f[n]
    BY <1>4
  <2>2. 0 \in 0 .. Size /\ \A n \in 1 .. Size : n \in 0 .. Size /\ n # 0
    BY <1>1
  <2>3. QED
    BY <2>1, <2>2
<1> DEFINE Odd == {n \in 0 .. Size : upTo[n] \notin Int}
<1>7. Odd = {}
  <2>1. ASSUME NEW n \in Odd, \A m \in Odd : n <= m PROVE FALSE
    <3>1. n \in 1 .. Size /\ n - 1 \in 0 .. Size /\ n - 1 \notin Odd
      BY <1>1, <1>6, <2>1
    <3>2. upTo[n - 1] \in Int /\ f[n] \in Int /\ upTo[n] = upTo[n - 1] + f[n]
      BY <1>6, <3>1
    <3>3. QED
      BY <2>1, <3>2
  <2>2. Odd \subseteq Nat
    BY <1>1
  <2> HIDE DEF Odd
  <2>3. QED
    BY <2>1, <2>2, LeastNumber
<1>8. QED
  BY <1>1, <1>5, <1>7

(* The highest and the lowest reading are readings.                           *)
LEMMA ReadingsHaveEnds ==
    ASSUME y \in Seq(Int), y # <<>>
    PROVE  /\ Size \in Nat /\ Size >= 1 /\ \A i \in 1 .. Size : y[i] \in Int
           /\ Top \in Int /\ Bottom \in Int /\ \E i \in 1 .. Size : y[i] = Top
<1>1. Size \in Nat /\ Size >= 1 /\ DOMAIN y = 1 .. Size /\ \A i \in 1 .. Size : y[i] \in Int
  BY DEF Size
<1>2. \A v : v \in ToSet(y) <=> \E i \in 1 .. Size : v = y[i]
  BY <1>1 DEF ToSet
<1>3. 1 .. Size \subseteq 1 .. Size /\ 1 .. Size # {}
  <2>1. 1 \in 1 .. Size
    BY <1>1
  <2>2. QED
    BY <2>1, Zenon
<1>4. PICK i \in 1 .. Size : \A j \in 1 .. Size : y[j] <= y[i]
  BY <1>1, <1>3, HighestOfMany
<1>5. \E v \in ToSet(y) : \A w \in ToSet(y) : v >= w
  <2>1. y[i] \in ToSet(y) /\ \A w \in ToSet(y) : w <= y[i] /\ w \in Int
    BY <1>1, <1>2, <1>4
  <2>2. y[i] \in Int
    BY <1>1
  <2>3. QED
    BY <2>1, <2>2
<1>6. Top \in ToSet(y)
  BY <1>5 DEF Top, Max
<1> DEFINE lower == [j \in 1 .. Size |-> -y[j]]
<1>7. \A j \in 1 .. Size : lower[j] \in Int /\ lower[j] = -y[j]
  BY <1>1
<1> HIDE DEF lower
<1>8. PICK l \in 1 .. Size : \A j \in 1 .. Size : lower[j] <= lower[l]
  BY <1>1, <1>3, <1>7, HighestOfMany
<1>9. \A j \in 1 .. Size : y[l] <= y[j]
  BY <1>1, <1>7, <1>8
<1>10. \E v \in ToSet(y) : \A w \in ToSet(y) : v <= w
  <2>1. y[l] \in ToSet(y)
    BY <1>2
  <2>2. QED
    BY <1>2, <1>9, <2>1
<1>11. Bottom \in ToSet(y)
  BY <1>10 DEF Bottom, Min
<1>12. QED
  BY <1>1, <1>2, <1>6, <1>11

Positions == [num : Int, den : Nat \ {0}]
Methods   == {None, "edge", "centroid_topN", "argmax"} \cup ToSet(Shapes)

(* A verdict that is typed, and whose position is meant.                      *)
Meant(r) ==
    /\ r \in Results /\ (r.detected => r.position # None)
    /\ r.r2 = "poor" => r.position = None
    /\ r.detected =>
          IF kind = "lift"
          THEN r.position.den <= r.position.num /\ r.position.num <= Size * r.position.den
          ELSE 2 * r.position.den < r.position.num /\ r.position.num < (Size - 1) * r.position.den
    /\ kind = "theta" /\ ~TooShort /\ Prominent => r.position # None

MeantInv ==
    /\ FitInv
    /\ kind \in {"lift", "theta"} /\ moved \in BOOLEAN /\ tier \in 1 .. Len(Shapes) + 1
    /\ result # None => Meant(result)

LEMMA PositionsAreThere ==
    /\ \A p \in Positions : p # None /\ p.num \in Int /\ p.den \in Nat \ {0}
    /\ \A i \in Int, j \in Nat \ {0} : [num |-> i, den |-> j] \in Positions
    /\ \A o \in Outcome : At(o) \in Positions /\ At(o).num = o.x0 /\ At(o).den = 2
<1>1. ASSUME NEW p \in Positions PROVE p # None /\ p.num \in Int /\ p.den \in Nat \ {0}
  <2>1. p \in [num : Int, den : Int]
    BY DEF Positions
  <2>2. QED
    BY <2>1, FitAssumption DEF Positions
<1>2. \A i \in Int, j \in Nat \ {0} : [num |-> i, den |-> j] \in Positions
  BY DEF Positions
<1>3. ASSUME NEW o \in Outcome PROVE At(o) \in Positions /\ At(o).num = o.x0 /\ At(o).den = 2
  <2>1. o.x0 \in Int
    BY FitAssumption DEF Outcome
  <2>2. QED
    BY <2>1 DEF At, Positions
<1>4. QED
  BY <1>1, <1>2, <1>3

LEMMA ShapesAreMethods ==
    Len(Shapes) = 3 /\ \A i \in 1 .. Len(Shapes) : Shapes[i] \in Methods
<1>1. Shapes = <<"gaussian", "voigt", "asymmetric_gaussian">>
  BY DEF Shapes
<1>2. Len(Shapes) = 3 /\ DOMAIN Shapes = 1 .. 3
  BY <1>1
<1> HIDE DEF Shapes
<1>3. QED
  BY <1>2 DEF Methods, ToSet

(* A result with every one of its fields.                                     *)
LEMMA ResultsAreRecords ==
    ASSUME NEW d \in BOOLEAN, NEW p \in Positions \cup {None}, NEW b \in BOOLEAN,
           NEW m \in Methods, NEW q \in Quality \cup {None}
    PROVE  [detected |-> d, position |-> p, boundary |-> b, method |-> m, r2 |-> q] \in Results
BY DEF Results, Positions, Methods

LEMMA NotDetectedIsMeant ==
    ASSUME NEW p \in Positions \cup {None}, NEW q \in Quality \cup {None},
           q = "poor" => p = None,
           kind = "theta" /\ ~TooShort /\ Prominent => p # None
    PROVE  Meant(NotDetected(p, q))
<1> DEFINE r == [detected |-> FALSE, position |-> p, boundary |-> FALSE, method |-> None, r2 |-> q]
<1>1. r \in Results
  BY ResultsAreRecords DEF Methods
<1>2. r.detected = FALSE /\ r.position = p /\ r.r2 = q
  OBVIOUS
<1>3. NotDetected(p, q) = r
  BY Zenon DEF NotDetected
<1> HIDE DEF r
<1>4. Meant(r)
  BY <1>1, <1>2 DEF Meant
<1>5. QED
  BY <1>3, <1>4

LEMMA PeakIsMeant ==
    ASSUME y \in Seq(Int), kind = "theta", NEW p \in Positions, NEW m \in Methods,
           NEW q \in {None, "good"}, NEW b \in BOOLEAN, ~b => ~AtBoundary(p)
    PROVE  Meant(Peak(p, m, q, b))
<1> DEFINE r == Peak(p, m, q, b)
<1>1. r = [detected |-> ~b, position |-> p, boundary |-> b, method |-> m, r2 |-> q]
  BY DEF Peak
<1>2. r \in Results
  <2>1. q \in Quality \cup {None} /\ (~b) \in BOOLEAN
    BY DEF Quality
  <2>2. QED
    BY <1>1, <2>1, ResultsAreRecords
<1>3. (r.detected <=> ~b) /\ r.position = p /\ r.r2 = q
  <2>1. \A v : [detected |-> v, position |-> p, boundary |-> b, method |-> m, r2 |-> q].detected = v
    OBVIOUS
  <2>2. r.detected = (~b)
    BY <1>1, <2>1
  <2>3. r.position = p /\ r.r2 = q
    BY <1>1
  <2>4. QED
    BY <2>2, <2>3
<1> HIDE DEF r
<1>4. p # None /\ p.num \in Int /\ p.den \in Nat
  BY PositionsAreThere
<1>5. q # "poor"
  BY FitAssumption
<1>6. ~AtBoundary(p) => 2 * p.den < p.num /\ p.num < (Size - 1) * p.den
  <2> DEFINE last == (Size - 1) * p.den
  <2>1. last \in Int
    <3>1. Size \in Nat
      BY DEF Size
    <3>2. Size - 1 \in Int
      BY <3>1
    <3>3. QED
      BY <1>4, <3>2
  <2>2. AtBoundary(p) <=> p.num <= 2 * p.den \/ p.num >= last
    BY DEF AtBoundary
  <2> HIDE DEF last
  <2>3. ~AtBoundary(p) => 2 * p.den < p.num /\ p.num < last
    BY <1>4, <2>1, <2>2
  <2>4. QED
    BY <2>3 DEF last
<1>7. r.detected => 2 * r.position.den < r.position.num /\ r.position.num < (Size - 1) * r.position.den
  BY <1>3, <1>6
<1>8. Meant(r)
  BY <1>2, <1>3, <1>4, <1>5, <1>7 DEF Meant
<1>9. QED
  BY <1>8 DEF r

LEMMA EdgeIsMeant ==
    ASSUME y \in Seq(Int), kind = "lift", NEW o \in Outcome
    PROVE  Meant(FallingEdge(o))
<1>1. At(o) \in Positions /\ At(o).num = o.x0 /\ At(o).den = 2 /\ At(o) # None
  BY PositionsAreThere
<1>2. o.r2 \in Quality /\ o.x0 \in Int
  BY FitAssumption DEF Outcome
<1>3. Meant(NotDetected(None, None))
  BY NotDetectedIsMeant
<1>4. Meant(NotDetected(SafePosition(o), o.r2))
  BY <1>1, <1>2, NotDetectedIsMeant DEF SafePosition
<1>5. ASSUME o.r2 = "good", InRange(o)
      PROVE  Meant([detected |-> TRUE, position |-> At(o), boundary |-> FALSE, method |-> "edge", r2 |-> o.r2])
  <2> DEFINE r == [detected |-> TRUE, position |-> At(o), boundary |-> FALSE, method |-> "edge", r2 |-> o.r2]
  <2>1. r \in Results
    BY <1>1, <1>2, ResultsAreRecords DEF Methods
  <2>2. r.detected = TRUE /\ r.position = At(o) /\ r.r2 = "good"
    BY <1>5
  <2> HIDE DEF r
  <2>3. 2 <= At(o).num /\ At(o).num <= Size * 2
    <3>1. Size \in Nat
      BY DEF Size
    <3>2. 2 <= o.x0 /\ o.x0 <= 2 * Size
      BY <1>5 DEF InRange
    <3>3. QED
      BY <1>1, <1>2, <3>1, <3>2
  <2>4. Meant(r)
    BY <1>1, <2>1, <2>2, <2>3 DEF Meant
  <2>5. QED
    BY <2>4 DEF r
<1>6. QED
  BY <1>3, <1>4, <1>5, Zenon DEF FallingEdge

(* Where the highest point is, and the centroid of some points.               *)
LEMMA FallbacksHavePositions ==
    ASSUME y \in Seq(Int), y # <<>>
    PROVE  /\ ArgMax \in Positions
           /\ \A T : Centroid(T) \in Positions \cup {None}
<1>1. ArgMax \in Positions
  <2> DEFINE IsTop(i) == y[i] = Top /\ \A j \in 1 .. i - 1 : y[j] # Top
             T == {i \in 1 .. Size : y[i] = Top}
  <2>1. T \subseteq Nat /\ T # {}
    BY ReadingsHaveEnds
  <2>2. \A i \in T : i \in 1 .. Size /\ y[i] = Top
    OBVIOUS
  <2>3. \A i \in 1 .. Size : y[i] = Top => i \in T
    OBVIOUS
  <2> HIDE DEF T
  <2>4. PICK i \in T : \A j \in T : i <= j
    BY <2>1, LeastNumber
  <2>5. i \in 1 .. Size /\ IsTop(i)
    <3>1. i \in 1 .. Size /\ y[i] = Top /\ Size \in Nat
      BY <2>2, <2>4, ReadingsHaveEnds
    <3>2. ASSUME NEW j \in 1 .. i - 1, y[j] = Top PROVE FALSE
      <4>1. j \in 1 .. Size /\ ~(i <= j)
        BY <3>1, <3>2
      <4>2. QED
        BY <2>3, <2>4, <3>2, <4>1
    <3>3. QED
      BY <3>1, <3>2
  <2> HIDE DEF IsTop
  <2>6. (CHOOSE k \in 1 .. Size : IsTop(k)) \in 1 .. Size
    BY <2>5, Zenon
  <2>7. (CHOOSE k \in 1 .. Size : IsTop(k)) \in Int
    BY <2>6, ReadingsHaveEnds
  <2>8. ArgMax = [num |-> CHOOSE k \in 1 .. Size : IsTop(k), den |-> 1]
    BY Zenon DEF ArgMax, IsTop
  <2>9. 1 \in Nat \ {0}
    OBVIOUS
  <2>10. QED
    BY <2>7, <2>8, <2>9, PositionsAreThere, Zenon
<1>2. ASSUME NEW T PROVE Centroid(T) \in Positions \cup {None}
  <2> DEFINE w == [i \in 1 .. Size |-> IF i \in T THEN y[i] - Bottom ELSE 0]
             v == [i \in 1 .. Size |-> i * w[i]]
  <2>1. \A i \in 1 .. Size : w[i] \in Int
    BY ReadingsHaveEnds
  <2> HIDE DEF w
  <2>2. \A i \in 1 .. Size : v[i] \in Int
    BY <2>1, ReadingsHaveEnds
  <2> HIDE DEF v
  <2>3. Total(w) \in Int /\ Total(v) \in Int
    BY <2>1, <2>2, SumsAreIntegers
  <2>4. Centroid(T) = IF Total(w) <= 0 THEN None ELSE [num |-> Total(v), den |-> Total(w)]
    BY Zenon DEF Centroid, w, v
  <2>5. QED
    BY <2>3, <2>4, PositionsAreThere
<1>3. QED
  BY <1>1, <1>2

LEMMA StepIsMeant == MeantInv /\ [FitNext]_fitVars => MeantInv'
<1> SUFFICES ASSUME MeantInv, [FitNext]_fitVars PROVE MeantInv'
  OBVIOUS
<1>1. FitInv /\ FitInv'
  BY StepFindsNoPeak DEF MeantInv
<1>2. y \in Seq(Int) /\ (y = <<>> => kind = "lift" /\ result = None)
  BY <1>1, Zenon DEF FitInv
<1>3. kind \in {"lift", "theta"} /\ moved \in BOOLEAN /\ tier \in 1 .. Len(Shapes) + 1
  BY DEF MeantInv
<1>4. ASSUME UNCHANGED <<kind, y, moved>>, result' = None \/ Meant(result'), tier' \in 1 .. Len(Shapes) + 1
      PROVE  MeantInv'
  <2>1. Size' = Size /\ TooShort' = TooShort
    BY <1>4 DEF Size, TooShort
  <2>2. Prominent' = Prominent
    BY <1>4, <2>1 DEF Prominent, TwiceProminence, TwiceMedian, Kth, Top, ToSet, Spread, Total
  <2>3. Meant(result') => Meant(result)'
    BY <1>4, <2>1, <2>2 DEF Meant, Results
  <2>4. QED
    BY <1>1, <1>3, <1>4, <2>3 DEF MeantInv
<1>5. CASE TakeScan
  <2>1. result = None /\ kind' \in {"lift", "theta"} /\ moved' \in BOOLEAN /\ UNCHANGED <<tier, result>>
    BY <1>2, <1>5, Zenon DEF TakeScan
  <2>2. QED
    BY <1>1, <1>3, <2>1 DEF MeantInv
<1>6. CASE FitFallingEdge
  <2>1. PICK o \in Outcome : result' = FallingEdge(o)
    BY <1>6, Zenon DEF FitFallingEdge
  <2>2. kind = "lift" /\ UNCHANGED <<kind, y, moved, tier>>
    BY <1>6, Zenon DEF FitFallingEdge
  <2>3. Meant(result')
    BY <1>2, <2>1, <2>2, EdgeIsMeant
  <2>4. QED
    BY <1>3, <1>4, <2>2, <2>3
<1>7. CASE RejectScan
  <2>1. result' = NotDetected(None, None) /\ TooShort /\ UNCHANGED <<kind, y, moved, tier>>
    BY <1>7, Zenon DEF RejectScan
  <2>2. Meant(result')
    BY <2>1, NotDetectedIsMeant
  <2>3. QED
    BY <1>3, <1>4, <2>1, <2>2
<1>8. CASE TryShape
  <2>1. kind = "theta" /\ result = None /\ UNCHANGED <<kind, y, moved>>
    BY <1>8, Zenon DEF TryShape, Trying
  <2>2. tier <= Len(Shapes)
    BY <1>8, Zenon DEF TryShape
  <2>3. PICK o \in Outcome :
           \/ /\ Accepted(o) /\ tier' = tier
              /\ result' = Peak(At(o), Shapes[tier], o.r2, AtBoundary(At(o)) \/ IsMonotonic)
           \/ tier' = tier + 1 /\ result' = result
    BY <1>8, Zenon DEF TryShape
  <2>4. tier' \in 1 .. Len(Shapes) + 1
    BY <1>3, <2>2, <2>3, ShapesAreMethods
  <2>5. CASE result' = Peak(At(o), Shapes[tier], o.r2, AtBoundary(At(o)) \/ IsMonotonic) /\ Accepted(o)
    <3>1. o.r2 = "good" /\ At(o) \in Positions
      BY <2>5, PositionsAreThere DEF Accepted
    <3>2. Shapes[tier] \in Methods
      BY <1>3, <2>2, ShapesAreMethods
    <3>3. PICK b \in BOOLEAN : b = (AtBoundary(At(o)) \/ IsMonotonic)
      OBVIOUS
    <3>4. result' = Peak(At(o), Shapes[tier], "good", b) /\ (~b => ~AtBoundary(At(o)))
      BY <2>5, <3>1, <3>3, Zenon
    <3>5. Meant(result')
      BY <1>2, <2>1, <3>1, <3>2, <3>4, PeakIsMeant
    <3>6. QED
      BY <1>4, <2>1, <2>4, <3>5
  <2>6. QED
    BY <1>4, <2>1, <2>3, <2>4, <2>5
<1>9. CASE FallBack
  <2>1. kind = "theta" /\ y # <<>> /\ UNCHANGED <<kind, y, moved, tier>>
    BY <1>2, <1>9, Zenon DEF FallBack, Trying
  <2>2. ArgMax \in Positions /\ \A T : Centroid(T) \in Positions \cup {None}
    BY <1>2, <2>1, FallbacksHavePositions
  <2>3. "argmax" \in Methods /\ "centroid_topN" \in Methods /\ None \in {None, "good"}
    BY DEF Methods
  <2>4. ASSUME NEW p \in Positions, NEW m \in {"argmax", "centroid_topN"}
        PROVE  Meant(Peak(p, m, None, TRUE)) /\ Meant(Peak(p, m, None, AtBoundary(p)))
    <3>1. m \in Methods
      BY <2>3
    <3>2. PICK b \in BOOLEAN : b = AtBoundary(p)
      BY DEF AtBoundary
    <3>3. Meant(Peak(p, m, None, TRUE)) /\ Meant(Peak(p, m, None, b))
      BY <1>2, <2>1, <2>3, <3>1, <3>2, PeakIsMeant
    <3>4. QED
      BY <3>2, <3>3
  <2>5. \/ ~HasSignal /\ result' = NotDetected(None, None)
        \/ result' = Peak(ArgMax, "argmax", None, TRUE)
        \/ \E T : \/ Centroid(T) # None /\ result' = Peak(Centroid(T), "centroid_topN", None, AtBoundary(Centroid(T)))
                  \/ result' = Peak(ArgMax, "argmax", None, AtBoundary(ArgMax))
    BY <1>9, Zenon DEF FallBack
  <2>6. ~HasSignal => Meant(NotDetected(None, None))
    BY NotDetectedIsMeant DEF HasSignal
  <2>7. Meant(result')
    BY <2>2, <2>4, <2>5, <2>6
  <2>8. QED
    BY <1>3, <1>4, <2>1, <2>7
<1>10. CASE UNCHANGED fitVars
  <2>1. UNCHANGED <<kind, y, moved, tier, result>>
    BY <1>10 DEF fitVars
  <2>2. result' = None \/ Meant(result')
    BY <2>1 DEF MeantInv
  <2>3. QED
    BY <1>3, <1>4, <2>1, <2>2
<1>11. QED
  BY <1>5, <1>6, <1>7, <1>8, <1>9, <1>10 DEF FitNext

LEMMA NoVerdictYet == FitInit => MeantInv
<1> SUFFICES ASSUME FitInit PROVE MeantInv
  OBVIOUS
<1>1. FitInv
  BY InitHasNoScan
<1>2. kind = "lift" /\ moved = TRUE /\ tier = 1 /\ result = None
  BY Zenon DEF FitInit
<1>3. 1 \in 1 .. Len(Shapes) + 1
  BY ShapesAreMethods
<1>4. QED
  BY <1>1, <1>2, <1>3, Zenon DEF MeantInv

LEMMA MeantIsTyped == MeantInv => FitTypeOK /\ PositionIsMeant
<1> SUFFICES ASSUME MeantInv PROVE FitTypeOK /\ PositionIsMeant
  OBVIOUS
<1>1. FitTypeOK
  BY DEF MeantInv, Meant, FitTypeOK
<1>2. PositionIsMeant
  BY DEF MeantInv, Meant, PositionIsMeant
<1>3. QED
  BY <1>1, <1>2

(* "Callers cannot accidentally move a motor to a meaningless coordinate":    *)
(* for scans of any length with any readings, and whatever the least squares  *)
(* come back with, no position of a poor fit gets out, a detected one lies    *)
(* in the scan, and a prominent peak always has a position.                   *)
THEOREM PositionsAreMeant == FitSpec => [](FitTypeOK /\ PositionIsMeant)
BY NoVerdictYet, StepIsMeant, MeantIsTyped, PTL DEF FitSpec

-----------------------------------------------------------------------------
(* The columns *)

(* A run has a column of its motor and one of a diode, and what was scanned   *)
(* varies more than nothing, but less than time does.                         *)
RunTaken ==
    /\ scanned \in Motors
    /\ Listed(cols) \subseteq AllColumns
    /\ Listed(cols) \cap ColumnsOf(scanned) # {} /\ Listed(cols) \cap Diodes # {}
    /\ cols \in Seq(Listed(cols))
    /\ DOMAIN variance = Listed(cols)
    /\ points \in 0 .. 2 /\ finite \subseteq Listed(cols)
    /\ \A c \in Listed(cols) : variance[c] \in Nat
    /\ \A c \in Listed(cols) \cap ColumnsOf(scanned) : variance[c] = 2

ColumnsInv ==
    /\ scanned = "" => /\ fitted = <<>> /\ plotted = <<>>
                       /\ cols = <<>> /\ points = 0 /\ finite = {} /\ variance = <<>>
    /\ scanned # "" => RunTaken
    /\ fitted # <<>> => fitted \in ReadScan(scanned, DIODE_NAME)
    /\ plotted # <<>> =>
          \E read \in ReadScan(NoField, NoField) : \E k \in KindsOf(read[1]) : plotted = <<read, k>>

LEMMA NamesOfColumns ==
    /\ Motors = {"sample_lift", "sample_rotate_steppertheta"}
    /\ ColumnsOf("sample_lift") = {"sample_lift", "sample_lift_readback", "sample_lift_user_setpoint"}
    /\ ColumnsOf("sample_rotate_steppertheta")
          = {"sample_rotate_steppertheta", "sample_rotate_steppertheta_user_setpoint"}
    /\ Diodes = {"DetectorDiodeCurrent", "DIAG112_Diode"}
    /\ Framing = {"time", "ts_sample_lift"}
    /\ DIODE_NAME = "DetectorDiodeCurrent"
<1>1. ColumnsOf("sample_lift") = {"sample_lift", "sample_lift_readback", "sample_lift_user_setpoint"}
  <2>1. Named("sample_lift") = <<"sample_lift", "sample_lift_readback", "sample_lift_user_setpoint">>
    BY DEF Named
  <2> HIDE DEF Named
  <2>2. DOMAIN Named("sample_lift") = 1 .. 3
    BY <2>1
  <2>3. QED
    BY <2>1, <2>2 DEF ColumnsOf
<1>2. ColumnsOf("sample_rotate_steppertheta")
          = {"sample_rotate_steppertheta", "sample_rotate_steppertheta_user_setpoint"}
  <2>1. Named("sample_rotate_steppertheta")
           = <<"sample_rotate_steppertheta", "sample_rotate_steppertheta_user_setpoint">>
    BY DEF Named
  <2> HIDE DEF Named
  <2>2. DOMAIN Named("sample_rotate_steppertheta") = 1 .. 2
    BY <2>1
  <2>3. QED
    BY <2>1, <2>2 DEF ColumnsOf
<1>3. QED
  BY <1>1, <1>2 DEF Motors, Diodes, Framing, DIODE_NAME

LEMMA NamesAreSequences ==
    ASSUME NEW motor \in Motors
    PROVE  Named(motor) \in Seq(ColumnsOf(motor))
<1> DEFINE S == {"sample_lift", "sample_lift_readback", "sample_lift_user_setpoint",
                 "sample_rotate_steppertheta", "sample_rotate_steppertheta_user_setpoint"}
<1>1. /\ <<"sample_lift", "sample_lift_readback", "sample_lift_user_setpoint">> \in Seq(S)
      /\ <<"sample_rotate_steppertheta", "sample_rotate_steppertheta_user_setpoint">> \in Seq(S)
  OBVIOUS
<1> HIDE DEF S
<1>2. Named(motor) \in Seq(S)
  BY <1>1, Zenon DEF Named
<1>3. Named(motor) = [i \in 1 .. Len(Named(motor)) |-> Named(motor)[i]] /\ Len(Named(motor)) \in Nat
      /\ DOMAIN Named(motor) = 1 .. Len(Named(motor))
  BY <1>2
<1>4. \A i \in DOMAIN Named(motor) : Named(motor)[i] \in ColumnsOf(motor)
  BY DEF ColumnsOf
<1>5. QED
  BY <1>2, <1>3, <1>4

(* Columns of motors and diodes are no framing, and no column is both.        *)
LEMMA ColumnsAreApart ==
    ASSUME NEW motor \in Motors
    PROVE  /\ ColumnsOf(motor) \cap Framing = {} /\ Diodes \cap Framing = {}
           /\ ColumnsOf(motor) \cap Diodes = {}
           /\ DIODE_NAME \in Diodes
           /\ \A other \in Motors : \A c \in ColumnsOf(motor) : c \in ColumnsOf(other) => other = motor
           /\ \A d \in Diodes : d = DIODE_NAME \/ d = "DIAG112_Diode"
           /\ DIODE_NAME # "DIAG112_Diode"
           /\ NoField \notin Motors /\ NoField \notin AllColumns
<1>1. /\ ColumnsOf(motor) \cap Framing = {} /\ Diodes \cap Framing = {}
      /\ ColumnsOf(motor) \cap Diodes = {}
      /\ DIODE_NAME \in Diodes
      /\ \A d \in Diodes : d = DIODE_NAME \/ d = "DIAG112_Diode"
      /\ DIODE_NAME # "DIAG112_Diode"
      /\ NoField \notin Motors
  BY NamesOfColumns DEF NoField
<1>2. \A other \in Motors : \A c \in ColumnsOf(motor) : c \in ColumnsOf(other) => other = motor
  BY NamesOfColumns DEF NoField
<1>3. NoField \notin AllColumns
  <2>1. NoField \notin ColumnsOf("sample_lift") /\ NoField \notin ColumnsOf("sample_rotate_steppertheta")
    BY NamesOfColumns DEF NoField
  <2>2. \A m \in Motors : NoField \notin ColumnsOf(m)
    BY <2>1 DEF Motors
  <2>3. NoField \notin Diodes /\ NoField \notin Framing /\ NoField # "sample_translate"
    BY NamesOfColumns DEF NoField
  <2>4. QED
    BY <2>2, <2>3 DEF AllColumns
<1>4. QED
  BY <1>1, <1>2, <1>3

(* The first of some columns is one of them.                                  *)
LEMMA FirstIsThere ==
    ASSUME NEW columns, NEW C, columns \in Seq(C), NEW S, Listed(columns) \cap S # {}
    PROVE  First(columns, S) \in Listed(columns) \cap S
<1> DEFINE T == {i \in DOMAIN columns : columns[i] \in S}
<1>1. T # {} /\ T \subseteq Nat
  BY DEF Listed
<1>2. PICK n \in T : \A m \in T : n <= m
  BY <1>1, LeastNumber
<1>3. n \in DOMAIN columns /\ columns[n] \in S /\ \A j \in 1 .. n - 1 : columns[j] \notin S
  BY <1>2
<1> DEFINE First1(i) == columns[i] \in S /\ \A j \in 1 .. i - 1 : columns[j] \notin S
           f == CHOOSE i \in DOMAIN columns : First1(i)
<1>4. f \in DOMAIN columns /\ columns[f] \in S
  <2>1. First1(n)
    BY <1>3
  <2> HIDE DEF First1
  <2>2. f \in DOMAIN columns /\ First1(f)
    BY <1>3, <2>1
  <2>3. QED
    BY <2>2 DEF First1
<1>5. First(columns, S) = columns[f]
  BY DEF First
<1>6. QED
  BY <1>4, <1>5 DEF Listed

(* y is a diode, the one asked for if it is there; x is a column of the motor *)
(* asked for, or varies at least as much as every other one.                  *)
LEMMA ReadsTwoColumns ==
    ASSUME RunTaken
    PROVE  /\ \A asked \in {DIODE_NAME, NoField} :
                 /\ YField(asked) \in DataColumns \cap Diodes
                 /\ asked \in Listed(cols) => YField(asked) = asked
           /\ \A diode \in Diodes : XFields(scanned, diode) # {} /\ XFields(scanned, diode) \subseteq DataColumns \cap ColumnsOf(scanned)
           /\ \A diode :
                 LET others == DataColumns \ {diode}
                     ranked == Ranked(others)
                 IN XFields(NoField, diode) =
                       IF ranked # {} THEN {c \in ranked : \A d \in ranked : variance[c] >= variance[d]}
                       ELSE IF others # {} THEN {First(cols, others)} ELSE {}
<1> USE DEF IsEventMetadataCol
<1>1. /\ ColumnsOf(scanned) \cap Framing = {} /\ Diodes \cap Framing = {}
      /\ ColumnsOf(scanned) \cap Diodes = {} /\ DIODE_NAME \in Diodes /\ NoField \notin Motors
      /\ scanned \in Motors /\ NoField \notin AllColumns
  BY ColumnsAreApart DEF RunTaken
<1>2. DataColumns \cap Diodes # {} /\ Listed(cols) \cap Diodes # {} /\ cols \in Seq(Listed(cols))
  BY <1>1 DEF RunTaken, DataColumns
<1>3. DataColumns \cap ColumnsOf(scanned) # {}
  BY <1>1 DEF RunTaken, DataColumns
<1>4. First(cols, Diodes) \in Listed(cols) \cap Diodes
  BY <1>2, FirstIsThere
<1>5. ASSUME NEW asked \in {DIODE_NAME, NoField}
      PROVE  /\ YField(asked) \in DataColumns \cap Diodes
             /\ asked \in Listed(cols) => YField(asked) = asked
  <2>1. NoField \notin Listed(cols)
    BY <1>1 DEF RunTaken
  <2>2. asked \in Listed(cols) => asked \in DataColumns /\ asked \in Diodes
    BY <1>1, <2>1 DEF DataColumns
  <2>3. QED
    BY <1>1, <1>2, <1>4, <2>2 DEF YField, DataColumns
<1>6. ASSUME NEW diode \in Diodes
      PROVE  XFields(scanned, diode) # {} /\ XFields(scanned, diode) \subseteq DataColumns \cap ColumnsOf(scanned)
  <2> DEFINE matches == Matches(scanned) \ {diode}
  <2>1. matches = DataColumns \cap ColumnsOf(scanned)
    BY <1>1 DEF Matches
  <2>2. matches # {}
    BY <1>3, <2>1
  <2>3. XFields(scanned, diode) = {First(Named(scanned), matches)}
    BY <2>2 DEF XFields
  <2>4. Named(scanned) \in Seq(ColumnsOf(scanned)) /\ Listed(Named(scanned)) = ColumnsOf(scanned)
    BY NamesAreSequences, <1>1 DEF Listed, ColumnsOf
  <2>5. Listed(Named(scanned)) \cap matches = matches
    BY <2>1, <2>4
  <2> HIDE DEF matches
  <2>6. First(Named(scanned), matches) \in matches
    BY <2>2, <2>4, <2>5, FirstIsThere
  <2>7. QED
    BY <2>1, <2>3, <2>6
<1>7. \A diode :
         LET others == DataColumns \ {diode}
             ranked == Ranked(others)
         IN XFields(NoField, diode) =
               IF ranked # {} THEN {c \in ranked : \A d \in ranked : variance[c] >= variance[d]}
               ELSE IF others # {} THEN {First(cols, others)} ELSE {}
  <2>1. Matches(NoField) = {}
    BY <1>1 DEF Matches
  <2>2. QED
    BY <2>1 DEF XFields
<1>8. QED
  BY <1>5, <1>6, <1>7

LEMMA FitReads ==
    ASSUME RunTaken, points # 0, NEW read \in ReadScan(scanned, DIODE_NAME)
    PROVE  /\ read[1] \in DataColumns \cap ColumnsOf(scanned)
           /\ read[2] \in DataColumns \cap Diodes
           /\ read[2] = IF DIODE_NAME \in Listed(cols) THEN DIODE_NAME ELSE "DIAG112_Diode"
           /\ read = <<read[1], read[2]>>
<1> DEFINE diode == YField(DIODE_NAME)
<1>1. /\ diode \in DataColumns \cap Diodes /\ (DIODE_NAME \in Listed(cols) => diode = DIODE_NAME)
      /\ XFields(scanned, diode) # {} /\ XFields(scanned, diode) \subseteq DataColumns \cap ColumnsOf(scanned)
  BY ReadsTwoColumns
<1>2. PICK x \in XFields(scanned, diode) : read = <<x, diode>>
  BY <1>1 DEF ReadScan
<1> HIDE DEF diode
<1>3. \A d \in Diodes : d = DIODE_NAME \/ d = "DIAG112_Diode"
  BY ColumnsAreApart DEF RunTaken
<1>4. DataColumns \subseteq Listed(cols)
  BY DEF DataColumns
<1>5. diode = IF DIODE_NAME \in Listed(cols) THEN DIODE_NAME ELSE "DIAG112_Diode"
  BY <1>1, <1>3, <1>4
<1>6. QED
  BY <1>1, <1>2, <1>5

LEMMA PlotReads ==
    ASSUME RunTaken, points # 0, NEW read \in ReadScan(NoField, NoField)
    PROVE  /\ read[1] \in DataColumns \ {read[2]}
           /\ read[2] \in DataColumns \cap Diodes
           /\ LET ranked == Ranked(DataColumns \ {read[2]})
              IN ranked # {} => read[1] \in ranked /\ \A d \in ranked : variance[read[1]] >= variance[d]
           /\ read = <<read[1], read[2]>>
<1> DEFINE diode == YField(NoField)
           others == DataColumns \ {diode}
           ranked == Ranked(others)
<1>1. /\ diode \in DataColumns \cap Diodes
      /\ XFields(NoField, diode) =
            IF ranked # {} THEN {c \in ranked : \A d \in ranked : variance[c] >= variance[d]}
            ELSE IF others # {} THEN {First(cols, others)} ELSE {}
  BY ReadsTwoColumns
<1>2. /\ cols \in Seq(Listed(cols)) /\ others \subseteq Listed(cols) /\ ranked \subseteq others
      /\ \A c \in Listed(cols) : variance[c] \in Nat
  BY DEF RunTaken, DataColumns, Ranked
<1>3. others # {}
  <2>1. DataColumns \cap ColumnsOf(scanned) # {} /\ ColumnsOf(scanned) \cap Diodes = {}
    BY ColumnsAreApart DEF RunTaken, DataColumns, IsEventMetadataCol
  <2>2. QED
    BY <1>1, <2>1
<1>4. ASSUME ranked # {} PROVE \E x \in ranked : \A d \in ranked : variance[x] >= variance[d]
  <2> DEFINE D == {i \in DOMAIN cols : cols[i] \in ranked}
             f == [i \in DOMAIN cols |-> variance[cols[i]]]
             n == Len(cols)
  <2>1. n \in Nat /\ DOMAIN cols = 1 .. n
    BY <1>2, SequencesAreIndexed, Zenon
  <2> HIDE DEF others, ranked
  <2>2. \A c \in ranked : \E i \in D : cols[i] = c
    BY <1>2 DEF Listed
  <2>3. D # {} /\ D \subseteq 1 .. n /\ \A i \in D : f[i] \in Int
    <3>1. D # {} /\ D \subseteq DOMAIN cols
      BY <1>4, <2>2
    <3>2. \A i \in D : f[i] = variance[cols[i]] /\ cols[i] \in Listed(cols)
      BY <1>2
    <3>3. \A c \in Nat : c \in Int
      OBVIOUS
    <3> HIDE DEF D, f, n
    <3>4. \A i \in D : f[i] \in Int
      BY <1>2, <3>2, <3>3, Zenon
    <3>5. QED
      BY <2>1, <3>1, <3>4, Zenon
  <2> HIDE DEF D, f, n
  <2>4. PICK i \in D : \A j \in D : f[j] <= f[i]
    BY <2>1, <2>3, HighestOfMany
  <2>5. cols[i] \in ranked /\ \A d \in ranked : variance[d] <= variance[cols[i]]
    BY <2>2, <2>4 DEF D, f
  <2>6. variance[cols[i]] \in Nat /\ \A d \in ranked : variance[d] \in Nat
    BY <1>2, <2>5
  <2>7. QED
    BY <2>5, <2>6
<1>5. XFields(NoField, diode) # {} /\ XFields(NoField, diode) \subseteq others
      /\ (ranked # {} => \A x \in XFields(NoField, diode) :
                            x \in ranked /\ \A d \in ranked : variance[x] >= variance[d])
  <2>1. CASE ranked # {}
    BY <1>1, <1>2, <1>4, <2>1
  <2>2. CASE ranked = {}
    <3> HIDE DEF others, ranked
    <3>1. Listed(cols) \cap others # {}
      BY <1>2, <1>3
    <3>2. First(cols, others) \in Listed(cols) \cap others
      BY <1>2, <3>1, FirstIsThere
    <3>3. XFields(NoField, diode) = {First(cols, others)}
      BY <1>1, <1>3, <2>2
    <3>4. QED
      BY <2>2, <3>2, <3>3
  <2>3. QED
    BY <2>1, <2>2
<1>6. PICK z \in XFields(NoField, diode) : read = <<z, diode>>
  <2>1. DataColumns # {}
    BY <1>1
  <2>2. QED
    BY <1>5, <2>1 DEF ReadScan
<1> HIDE DEF diode
<1>7. read[1] = z /\ read[2] = diode
  BY <1>6
<1>8. QED
  BY <1>1, <1>5, <1>6, <1>7

-----------------------------------------------------------------------------
LEMMA NoRunYet == ColumnsInit => ColumnsInv
BY DEF ColumnsInit, ColumnsInv, Motors

LEMMA FewColumns == IsFiniteSet(AllColumns)
<1>1. \A a, b, c : IsFiniteSet({a, b, c})
  <2> TAKE a, b, c
  <2>1. IsFiniteSet({a})
    BY FS_Singleton
  <2>2. IsFiniteSet({a} \cup {b})
    BY <2>1, FS_AddElement
  <2>3. IsFiniteSet(({a} \cup {b}) \cup {c})
    BY <2>2, FS_AddElement
  <2>4. ({a} \cup {b}) \cup {c} = {a, b, c}
    OBVIOUS
  <2>5. QED
    BY <2>3, <2>4
<1> DEFINE l == ColumnsOf("sample_lift")
           h == ColumnsOf("sample_rotate_steppertheta")
<1>2. IsFiniteSet(l)
  BY <1>1, NamesOfColumns
<1>3. h = {"sample_rotate_steppertheta", "sample_rotate_steppertheta_user_setpoint",
           "sample_rotate_steppertheta_user_setpoint"}
      /\ Diodes = {"DetectorDiodeCurrent", "DIAG112_Diode", "DIAG112_Diode"}
      /\ Framing = {"time", "ts_sample_lift", "ts_sample_lift"}
  BY NamesOfColumns
<1>4. IsFiniteSet(h) /\ IsFiniteSet(Diodes) /\ IsFiniteSet(Framing)
  BY <1>1, <1>3
<1> HIDE DEF l, h
<1>5. AllColumns = l \cup h \cup Diodes \cup Framing \cup {"sample_translate"}
  <2>1. \A c : c \in UNION {ColumnsOf(m) : m \in Motors} <=> c \in l \/ c \in h
    BY DEF l, h, Motors
  <2>2. QED
    BY <2>1 DEF AllColumns
<1>6. IsFiniteSet(l \cup h)
  BY <1>2, <1>4, FS_Union
<1>7. IsFiniteSet(l \cup h \cup Diodes)
  BY <1>4, <1>6, FS_Union
<1>8. IsFiniteSet(l \cup h \cup Diodes \cup Framing)
  BY <1>4, <1>7, FS_Union
<1>9. QED
  BY <1>5, <1>8, FS_AddElement

LEMMA RunIsTaken == TakeRun => RunTaken'
<1> SUFFICES ASSUME TakeRun PROVE RunTaken'
  OBVIOUS
<1>1. PICK C \in SUBSET AllColumns :
          /\ C \cap ColumnsOf(scanned') # {} /\ C \cap Diodes # {}
          /\ cols' \in {s \in [1 .. Cardinality(C) -> C] : Listed(s) = C}
          /\ points' \in 0 .. 2
          /\ finite' \in IF points' < 2 THEN {C}
                         ELSE {C, C \ ColumnsOf(scanned'), C \cap ColumnsOf(scanned')}
          /\ \E v \in Variances :
                variance' = [c \in C |-> CASE c \in Framing -> 4
                                           [] c \in ColumnsOf(scanned') -> 2
                                           [] OTHER -> v]
  BY Zenon DEF TakeRun
<1>2. scanned' \in Motors
  BY Zenon DEF TakeRun
<1>3. Listed(cols') = C /\ cols' \in [1 .. Cardinality(C) -> C]
  BY <1>1
<1>4. IsFiniteSet(C)
  <2>1. IsFiniteSet(AllColumns)
    BY FewColumns
  <2>2. QED
    BY <2>1, FS_Subset
<1>5. Cardinality(C) \in Nat
  BY <1>4, FS_CardinalityType
<1>6. cols' \in Seq(C)
  BY <1>3, <1>5
<1>7. PICK v \in Variances :
          variance' = [c \in C |-> CASE c \in Framing -> 4
                                     [] c \in ColumnsOf(scanned') -> 2
                                     [] OTHER -> v]
  BY <1>1
<1>8. v \in Nat
  BY ColumnsAssumption
<1>9. ColumnsOf(scanned') \cap Framing = {}
  BY <1>2, ColumnsAreApart
<1>10. DOMAIN variance' = C /\ \A c \in C : variance'[c] \in Nat
  BY <1>7, <1>8
<1>11. \A c \in C \cap ColumnsOf(scanned') : variance'[c] = 2
  BY <1>7, <1>9
<1>12. Listed(cols)' = C /\ ColumnsOf(scanned)' = ColumnsOf(scanned')
  BY <1>3 DEF Listed, ColumnsOf, Named
<1>13. points' \in 0 .. 2 /\ finite' \subseteq C
  BY <1>1
<1>14. QED
  BY <1>1, <1>2, <1>6, <1>10, <1>11, <1>12, <1>13, Zenon DEF RunTaken

LEMMA StepReadsColumns == ColumnsInv /\ [ColumnsNext]_columnsVars => ColumnsInv'
<1> SUFFICES ASSUME ColumnsInv, [ColumnsNext]_columnsVars PROVE ColumnsInv'
  OBVIOUS
<1>1. CASE TakeRun
  <2>1. RunTaken'
    BY <1>1, RunIsTaken
  <2>2. scanned' # ""
    <3>1. scanned' = "sample_lift" \/ scanned' = "sample_rotate_steppertheta"
      BY <1>1, Zenon DEF TakeRun, Motors
    <3>2. QED
      BY <3>1, Zenon
  <2>3. fitted' = <<>> /\ plotted' = <<>>
    BY <1>1, Zenon DEF TakeRun, ColumnsInv
  <2>4. QED
    BY <2>1, <2>2, <2>3, Zenon DEF ColumnsInv
<1>2. ASSUME UNCHANGED <<scanned, cols, points, finite, variance>>
      PROVE  /\ RunTaken' = RunTaken /\ \A x, diode : ReadScan(x, diode)' = ReadScan(x, diode)
             /\ \A x : KindsOf(x)' = KindsOf(x)
  BY <1>2 DEF RunTaken, Listed, ColumnsOf, Named, ReadScan, DataColumns, YField, XFields, Ranked,
              Matches, First, KindsOf
<1>3. CASE FitTool
  BY <1>2, <1>3 DEF FitTool, ColumnsInv
<1>4. CASE PlotTool
  BY <1>2, <1>4 DEF PlotTool, ColumnsInv
<1>5. CASE UNCHANGED columnsVars
  BY <1>2, <1>5 DEF columnsVars, ColumnsInv
<1>6. QED
  BY <1>1, <1>3, <1>4, <1>5 DEF ColumnsNext

LEMMA ReadColumnsAreTyped == ColumnsInv => ColumnsTypeOK
<1> SUFFICES ASSUME ColumnsInv PROVE ColumnsTypeOK
  OBVIOUS
<1>1. /\ scanned \in Motors \cup {""}
      /\ Listed(cols) \subseteq AllColumns /\ DOMAIN variance = Listed(cols)
      /\ points \in 0 .. 2 /\ finite \subseteq Listed(cols)
  <2>1. CASE scanned = ""
    <3>1. cols = <<>> /\ points = 0 /\ finite = {} /\ variance = <<>>
      BY <2>1, Zenon DEF ColumnsInv
    <3>2. \A s : s = <<>> => DOMAIN s = {}
      OBVIOUS
    <3>3. DOMAIN cols = {} /\ DOMAIN variance = {}
      BY <3>1, <3>2, Zenon
    <3>4. Listed(cols) = {}
      BY <3>3 DEF Listed
    <3>5. 0 \in 0 .. 2
      OBVIOUS
    <3>6. QED
      BY <2>1, <3>1, <3>3, <3>4, <3>5, Zenon
  <2>2. CASE scanned # ""
    BY <2>2, Zenon DEF ColumnsInv, RunTaken
  <2>3. QED
    BY <2>1, <2>2
<1>2. ASSUME RunTaken PROVE DataColumns \cap Framing = {} /\ Diodes \cap Framing = {}
  BY <1>2, ColumnsAreApart DEF RunTaken, DataColumns, IsEventMetadataCol
<1>3. ASSUME NEW axes, RunTaken, axes = <<axes[1], axes[2]>>, axes[1] \in DataColumns,
             axes[2] \in DataColumns, axes[1] # axes[2]
      PROVE  axes[1] # axes[2] /\ Listed(axes) \cap Framing = {}
  <2>1. DOMAIN axes = {1, 2}
    BY <1>3
  <2>2. QED
    BY <1>2, <1>3, <2>1 DEF Listed
<1>4. ASSUME fitted # <<>>, fitted # Unreadable
      PROVE  fitted[1] # fitted[2] /\ Listed(fitted) \cap Framing = {}
  <2>1. RunTaken /\ fitted \in ReadScan(scanned, DIODE_NAME) /\ points # 0
    BY <1>4, Zenon DEF ColumnsInv, ReadScan
  <2>2. /\ fitted[1] \in DataColumns \cap ColumnsOf(scanned) /\ fitted[2] \in DataColumns \cap Diodes
        /\ fitted = <<fitted[1], fitted[2]>>
    BY <2>1, FitReads, Zenon
  <2>3. fitted[1] # fitted[2]
    BY <2>1, <2>2, ColumnsAreApart DEF RunTaken
  <2>4. QED
    BY <1>3, <2>1, <2>2, <2>3
<1>5. ASSUME plotted # <<>>, plotted[1] # Unreadable
      PROVE  plotted[1][1] # plotted[1][2] /\ Listed(plotted[1]) \cap Framing = {}
  <2>1. PICK read \in ReadScan(NoField, NoField) : \E k \in KindsOf(read[1]) : plotted = <<read, k>>
    BY <1>5, Zenon DEF ColumnsInv
  <2>2. RunTaken /\ points # 0
    <3>1. read # Unreadable
      BY <1>5, <2>1
    <3>2. QED
      BY <1>5, <2>1, <3>1, Zenon DEF ColumnsInv, ReadScan
  <2>3. /\ read[1] \in DataColumns \ {read[2]} /\ read[2] \in DataColumns \cap Diodes
        /\ read = <<read[1], read[2]>>
    BY <2>1, <2>2, PlotReads
  <2>4. plotted[1] = read
    BY <2>1
  <2>5. QED
    BY <1>3, <2>2, <2>3, <2>4
<1>6. QED
  BY <1>1, <1>4, <1>5, Zenon DEF ColumnsTypeOK, Axes

(* What the tools have read names columns of the run, and never its framing.  *)
THEOREM ColumnsTypeCorrect == ColumnsSpec => []ColumnsTypeOK
BY ReadColumnsAreTyped, NoRunYet, StepReadsColumns, PTL DEF ColumnsSpec

LEMMA ToolsReadRight == ColumnsInv => ToolsReadTheScan
<1> SUFFICES ASSUME ColumnsInv PROVE ToolsReadTheScan
  OBVIOUS
<1> SUFFICES ASSUME fitted # <<>>, points > 0
             PROVE  /\ fitted[1] \in ColumnsOf(scanned)
                    /\ fitted[2] = IF DIODE_NAME \in Listed(cols) THEN DIODE_NAME ELSE "DIAG112_Diode"
                    /\ /\ plotted # <<>>
                       /\ points >= 2 /\ Listed(cols) \cap ColumnsOf(scanned) \subseteq finite
                       /\ Cardinality(Listed(cols) \cap Diodes) = 1
                       /\ \A c \in Listed(cols) \ (Diodes \cup Framing \cup ColumnsOf(scanned)) : variance[c] < 2
                       =>
                          /\ plotted[1][1] \in ColumnsOf(scanned) /\ plotted[1][2] = fitted[2]
                          /\ plotted[2] = scanned
  <2>1. fitted # <<>> => RunTaken
    BY Zenon DEF ColumnsInv
  <2>2. fitted # <<>> /\ points >= 2 => points > 0
    BY <2>1 DEF RunTaken
  <2>3. QED
    BY <2>2, Zenon DEF ToolsReadTheScan
<1>1. RunTaken /\ fitted \in ReadScan(scanned, DIODE_NAME) /\ points # 0
  <2>1. RunTaken /\ fitted \in ReadScan(scanned, DIODE_NAME)
    BY Zenon DEF ColumnsInv
  <2>2. QED
    BY <2>1
<1>2. /\ fitted[1] \in ColumnsOf(scanned) /\ fitted[2] \in DataColumns \cap Diodes
      /\ fitted[2] = IF DIODE_NAME \in Listed(cols) THEN DIODE_NAME ELSE "DIAG112_Diode"
  BY <1>1, FitReads
<1>3. ASSUME plotted # <<>>, points >= 2, Listed(cols) \cap ColumnsOf(scanned) \subseteq finite,
             Cardinality(Listed(cols) \cap Diodes) = 1,
             \A c \in Listed(cols) \ (Diodes \cup Framing \cup ColumnsOf(scanned)) : variance[c] < 2
      PROVE  /\ plotted[1][1] \in ColumnsOf(scanned) /\ plotted[1][2] = fitted[2]
             /\ plotted[2] = scanned
  <2>0. PICK read \in ReadScan(NoField, NoField) : \E k \in KindsOf(read[1]) : plotted = <<read, k>>
    BY <1>3, Zenon DEF ColumnsInv
  <2>1. PICK k \in KindsOf(read[1]) : plotted = <<read, k>>
    BY <2>0
  <2> DEFINE others == DataColumns \ {read[2]}
  <2>2. /\ read[1] \in others /\ read[2] \in DataColumns \cap Diodes
        /\ Ranked(others) # {} => /\ read[1] \in Ranked(others)
                                  /\ \A d \in Ranked(others) : variance[read[1]] >= variance[d]
    BY <1>1, <2>1, PlotReads
  <2>3. PICK only : Listed(cols) \cap Diodes = {only}
    <3>1. IsFiniteSet(Listed(cols) \cap Diodes)
      BY <1>1, FewColumns, FS_Subset DEF RunTaken
    <3>2. QED
      BY <1>3, <3>1, FS_Singleton
  <2>4. DataColumns = Listed(cols) \ Framing /\ Ranked(others) = others \cap finite
    BY <1>3 DEF DataColumns, IsEventMetadataCol, Ranked
  <2>5. read[2] = only /\ fitted[2] = only
    BY <1>2, <2>2, <2>3, <2>4
  <2>6. read[1] \in ColumnsOf(scanned) /\ read[1] \in finite
    <3>1. PICK d : d \in Listed(cols) \cap ColumnsOf(scanned)
      BY <1>1 DEF RunTaken
    <3>2. d \in Ranked(others) /\ variance[d] = 2
      BY <1>1, <1>3, <2>2, <2>4, <3>1, ColumnsAreApart DEF RunTaken
    <3>3. variance[read[1]] >= 2 /\ variance[read[1]] \in Nat
      BY <1>1, <2>2, <2>4, <3>2 DEF RunTaken
    <3>4. read[1] \notin Diodes /\ read[1] \notin Framing /\ read[1] \in Listed(cols)
      BY <2>2, <2>3, <2>4, <2>5
    <3>5. read[1] \notin ColumnsOf(scanned) => variance[read[1]] < 2
      BY <1>3, <3>4, Zenon
    <3>6. \A v \in Nat : v >= 2 => ~(v < 2)
      OBVIOUS
    <3>7. read[1] \in finite
      BY <2>2, <2>4, <3>2
    <3>8. QED
      BY <3>3, <3>5, <3>6, <3>7, Zenon
  <2>7. KindsOf(read[1]) = {scanned}
    <3>1. ~(points < 2)
      BY <1>1, <1>3 DEF RunTaken
    <3>2. QED
      BY <1>3, <2>6, <3>1 DEF KindsOf
  <2>8. plotted[1] = read /\ plotted[2] = scanned
    BY <2>1, <2>7
  <2>9. QED
    BY <2>5, <2>6, <2>8
<1>4. QED
  BY <1>2, <1>3

(* "Must not silently pick theta when the scan moved lift": whatever columns  *)
(* a run records, in whichever order, the fit reads the scanned motor against *)
(* the canonical diode if there is one, and the plot shows that fit unless    *)
(* there is another diode or another device that varies more.                 *)
THEOREM ScansAreReadRight == ColumnsSpec => []ToolsReadTheScan
BY ToolsReadRight, NoRunYet, StepReadsColumns, PTL DEF ColumnsSpec

-----------------------------------------------------------------------------
(* The procedure *)

(* Whose position the agent is after.                                         *)
Wanted == IF stage = "theta" THEN "theta" ELSE "lift"

(* Of a motor to be moved, nothing but the fit of the scan just taken is ever *)
(* at hand, or that of a quick read, which finds nothing.                     *)
FreshFit ==
    /\ stage \in {"preflight", "coarse", "fine", "theta", "record"}
    /\ stage \in {"preflight", "record"} => step = "gate"
    /\ step = "fit" => \/ lastRun.kind = "read"
                       \/ lastRun.of = Current /\ lastRun.kind = Wanted
    /\ step = "move" /\ fit.detected => fit.of = Current /\ fit.kind = Wanted

(* What a cycle has behind it when theta is scanned, and when it is recorded. *)
CycleSoFar ==
    /\ aligned \in [{"lift", "theta"} -> Nat]
    /\ stage \in {"theta", "record"} => aligned.lift = Len(cycles) + 1
    /\ stage = "record" => aligned.theta = Len(cycles) + 1

(* What type correctness needs besides: the fits are numbers, and the cap has *)
(* not been reached as long as the agent goes on.                             *)
ProcedureInv ==
    /\ ProcedureTypeOK
    /\ lastRun.centre \in Int /\ lastRun.half \in Nat /\ fit.position \in Int
    /\ Going => Len(cycles) < MaxCycles

-----------------------------------------------------------------------------
(* A verdict is about the scan it was asked for, and names a position.        *)
LEMMA VerdictsAreAboutTheRun ==
    ASSUME NEW run, NEW v \in Verdicts(run)
    PROVE  v.of = run.of /\ v.kind = run.kind
<1>1. CASE v = [NoFit EXCEPT !.of = run.of, !.kind = run.kind]
  BY <1>1 DEF NoFit
<1>2. CASE \E d : v = [of |-> run.of, kind |-> run.kind, detected |-> TRUE, position |-> run.centre + d]
  BY <1>2
<1>3. QED
  BY <1>1, <1>2 DEF Verdicts

LEMMA ReadsHaveNoVerdict ==
    ASSUME NEW run, run.kind = "read", NEW v \in Verdicts(run)
    PROVE  ~v.detected
<1>1. v = [NoFit EXCEPT !.of = run.of, !.kind = run.kind]
  BY DEF Verdicts
<1>2. QED
  BY <1>1 DEF NoFit

LEMMA VerdictsArePositions ==
    ASSUME NEW run, run.centre \in Int, run.half \in Nat, NEW v \in Verdicts(run)
    PROVE  v.detected \in BOOLEAN /\ v.position \in Int
<1>1. CASE v = [NoFit EXCEPT !.of = run.of, !.kind = run.kind]
  BY <1>1 DEF NoFit
<1>2. ASSUME NEW d \in Int,
             v = [of |-> run.of, kind |-> run.kind, detected |-> TRUE, position |-> run.centre + d]
      PROVE  v.detected \in BOOLEAN /\ v.position \in Int
  BY <1>2
<1>3. QED
  BY <1>1, <1>2, ProcedureAssumption DEF Verdicts

-----------------------------------------------------------------------------
LEMMA ProcedureStarts == ProcedureInit => ProcedureInv
<1>1. SUFFICES ASSUME ProcedureInit PROVE ProcedureInv
  OBVIOUS
<1>2. cycles = <<>> /\ reads = 0 /\ lift = 0 /\ theta = 1 /\ aligned = [lift |-> 0, theta |-> 0]
  BY <1>1, Zenon DEF ProcedureInit
<1>3. cycles \in Seq(Cycle) /\ Len(cycles) <= MaxCycles /\ Len(cycles) < MaxCycles
  BY <1>2, ProcedureAssumption
<1>4. /\ reads \in 0 .. MaxReads /\ lift \in Int /\ theta \in Int
      /\ aligned \in [{"lift", "theta"} -> 0 .. MaxCycles]
  BY <1>2, ProcedureAssumption
<1>5. NoRun.centre \in Int /\ NoRun.half \in Nat /\ NoFit.position \in Int
  BY DEF NoRun, NoFit
<1>6. NoFit.detected \in BOOLEAN /\ NoRun.kind = "none"
  BY DEF NoRun, NoFit
<1>7. QED
  BY <1>1, <1>3, <1>4, <1>5, <1>6, Zenon DEF ProcedureInit, ProcedureInv, ProcedureTypeOK

LEMMA ProcedureKeepsTypes == ProcedureInv /\ [ProcedureNext]_procedureVars => ProcedureInv'
<1> SUFFICES ASSUME ProcedureInv, [ProcedureNext]_procedureVars PROVE ProcedureInv'
  OBVIOUS
<1> USE DEF ProcedureInv, ProcedureTypeOK
<1>a. /\ cycles \in Seq(Cycle) /\ lift \in Int /\ theta \in Int
      /\ fit.position \in Int /\ lastRun.centre \in Int /\ lastRun.half \in Nat
      /\ reads \in 0 .. MaxReads /\ aligned \in [{"lift", "theta"} -> 0 .. MaxCycles]
      /\ Going => Len(cycles) < MaxCycles
  BY Zenon
<1>b. Going => Len(cycles) + 1 \in 0 .. MaxCycles
  <2> HIDE DEF ProcedureInv, ProcedureTypeOK
  <2>1. QED
    BY <1>a, ProcedureAssumption
<1>1. CASE Preflight
  <2> HIDE DEF ProcedureInv, ProcedureTypeOK
  <2>1. 0 \in Int
    OBVIOUS
  <2>2. QED
    BY <1>1, <2>1, Zenon DEF Preflight, Going, ProcedureInv, ProcedureTypeOK
<1>2. CASE BeamGate
  BY <1>2, Zenon DEF BeamGate, EndWith, Going
<1>3. CASE Scan
  <2>1. LiftWidth \in Nat /\ ThetaHalf[widened] \in Nat
    BY ProcedureAssumption, Zenon DEF LiftWidth
  <2>2. lift + LiftWidth \in Int
    <3> HIDE DEF ProcedureInv, ProcedureTypeOK
    <3>1. QED
      BY <1>a, <2>1
  <2>3. /\ lift' \in Int /\ lastRun'.kind \in {"lift", "theta"}
        /\ lastRun'.centre \in Int /\ lastRun'.half \in Nat
    <3> HIDE DEF ProcedureInv, ProcedureTypeOK
    <3>1. QED
      BY <1>3, <1>a, <2>1, <2>2 DEF Scan
  <2>4. QED
    BY <1>3, <2>3, Zenon DEF Scan, Going
<1>4. CASE Fit
  <2>1. fit'.detected \in BOOLEAN /\ fit'.position \in Int
    BY <1>4, <1>a, VerdictsArePositions DEF Fit
  <2>2. QED
    BY <1>4, <2>1, Zenon DEF Fit, Going
<1>5. CASE MoveLift
  <2>1. aligned' \in [{"lift", "theta"} -> 0 .. MaxCycles]
    <3> HIDE DEF ProcedureInv, ProcedureTypeOK
    <3>1. QED
      BY <1>5, <1>a, <1>b DEF MoveLift
  <2>2. QED
    BY <1>5, <1>a, <2>1, Zenon DEF MoveLift, Going
<1>6. CASE MoveTheta
  <2>1. aligned' \in [{"lift", "theta"} -> 0 .. MaxCycles]
    <3> HIDE DEF ProcedureInv, ProcedureTypeOK
    <3>1. QED
      BY <1>6, <1>a, <1>b DEF MoveTheta
  <2>2. QED
    BY <1>6, <1>a, <2>1, Zenon DEF MoveTheta, Going
<1>7. CASE Widen
  BY <1>7, Zenon DEF Widen, Going
<1>8. CASE StopOnFit
  BY <1>8, Zenon DEF StopOnFit, EndWith, Going
<1>9. CASE Record
  <2> HIDE DEF ProcedureInv, ProcedureTypeOK
  <2> DEFINE cycle == [lift |-> lift, theta |-> theta]
  <2>1. cycle \in Cycle
    BY <1>a DEF Cycle
  <2>2. cycles' = Append(cycles, cycle) /\ Len(cycles) < MaxCycles /\ cycles \in Seq(Cycle)
    BY <1>9, <1>a DEF Record
  <2> HIDE DEF cycle
  <2>3. cycles' \in Seq(Cycle) /\ Len(cycles') = Len(cycles) + 1 /\ Len(cycles') \in Nat
    BY <2>1, <2>2
  <2>4. /\ verdict' \in {"", "converged", "capped", "stopped"}
        /\ verdict' = "" => ~(Len(cycles') >= MaxCycles)
    BY <1>9, Zenon DEF Record
  <2>5. Len(cycles') <= MaxCycles /\ (Going' => Len(cycles') < MaxCycles)
    <3>1. Len(cycles') <= MaxCycles /\ (~(Len(cycles') >= MaxCycles) => Len(cycles') < MaxCycles)
      <4>1. Len(cycles) \in Nat
        BY <2>2
      <4>2. QED
        BY <4>1, <2>2, <2>3, ProcedureAssumption
    <3>2. QED
      BY <3>1, <2>4, Zenon DEF Going
  <2>6. QED
    BY <1>9, <2>3, <2>4, <2>5, Zenon DEF Record, ProcedureInv, ProcedureTypeOK
<1>10. CASE BeamChanges
  BY <1>10, Zenon DEF BeamChanges, Going
<1>11. CASE QuickRead
  <2> HIDE DEF ProcedureInv, ProcedureTypeOK
  <2>1. reads' \in 0 .. MaxReads
    BY <1>11, <1>a, ProcedureAssumption DEF QuickRead
  <2>2. lastRun'.kind = "read" /\ lastRun'.centre \in Int /\ lastRun'.half \in Nat
    BY <1>11 DEF QuickRead, NoRun
  <2>3. QED
    BY <1>11, <2>1, <2>2, Zenon DEF QuickRead, Going, ProcedureInv, ProcedureTypeOK
<1>12. CASE ScanFails \/ FitFails
  BY <1>12, Zenon DEF ScanFails, FitFails, EndWith, Going
<1>13. CASE UNCHANGED procedureVars
  BY <1>13, Zenon DEF procedureVars, Going
<1>14. QED
  BY <1>1, <1>2, <1>3, <1>4, <1>5, <1>6, <1>7, <1>8, <1>9, <1>10, <1>11, <1>12, <1>13
     DEF ProcedureNext, ProcedureStep

(* Every reachable state of the procedure is well typed; in particular it     *)
(* never records more cycles than the cap of the prompt allows.               *)
THEOREM ProcedureTypeCorrect == ProcedureSpec => []ProcedureTypeOK
<1>1. ProcedureInv => ProcedureTypeOK
  BY DEF ProcedureInv
<1>2. QED
  BY <1>1, ProcedureStarts, ProcedureKeepsTypes, PTL DEF ProcedureSpec

-----------------------------------------------------------------------------
LEMMA StepKeepsFreshFit == FreshFit /\ [ProcedureNext]_procedureVars => FreshFit'
<1> USE DEF FreshFit, Current, Wanted
<1> SUFFICES ASSUME FreshFit, [ProcedureNext]_procedureVars PROVE FreshFit'
  OBVIOUS
<1>1. CASE Preflight
  BY <1>1 DEF Preflight
<1>2. CASE BeamGate
  BY <1>2 DEF BeamGate, EndWith
<1>3. CASE Scan
  BY <1>3 DEF Scan
<1>4. CASE Fit
  <2>1. fit'.of = lastRun.of /\ fit'.kind = lastRun.kind
    BY <1>4, VerdictsAreAboutTheRun DEF Fit
  <2>2. lastRun.kind = "read" => ~fit'.detected
    BY <1>4, ReadsHaveNoVerdict DEF Fit
  <2>3. QED
    BY <1>4, <2>1, <2>2 DEF Fit
<1>5. CASE MoveLift \/ MoveTheta \/ Widen
  BY <1>5 DEF MoveLift, MoveTheta, Widen
<1>6. CASE StopOnFit \/ ScanFails \/ FitFails
  BY <1>6 DEF StopOnFit, ScanFails, FitFails, EndWith
<1>7. CASE Record
  BY <1>7 DEF Record
<1>8. CASE BeamChanges \/ QuickRead
  BY <1>8 DEF BeamChanges, QuickRead, NoRun
<1>9. CASE UNCHANGED procedureVars
  BY <1>9 DEF procedureVars
<1>10. QED
  BY <1>1, <1>2, <1>3, <1>4, <1>5, <1>6, <1>7, <1>8, <1>9 DEF ProcedureNext, ProcedureStep

(* "NEVER guess a half-cut or peak": after the preflight a motor only moves,  *)
(* scans aside, to a position detected for that motor in the scan just taken. *)
THEOREM MotorsGoWhereMeasured == ProcedureSpec => MovesAreMeasured
<1> DEFINE Step ==
       /\ lift' # lift /\ step # "scan" =>
             fit.detected /\ fit.of = Current /\ fit.kind = "lift" /\ lift' = fit.position
       /\ theta' # theta /\ stage # "preflight" =>
             fit.detected /\ fit.of = Current /\ fit.kind = "theta" /\ theta' = fit.position
<1>1. ProcedureInit => FreshFit
  BY DEF ProcedureInit, FreshFit
<1>2. FreshFit /\ [ProcedureNext]_procedureVars => [Step]_procedureVars
  <2> SUFFICES ASSUME FreshFit, ProcedureNext PROVE Step
    OBVIOUS
  <2>1. CASE MoveLift
    BY <2>1 DEF MoveLift, FreshFit, Wanted
  <2>2. CASE MoveTheta
    BY <2>2 DEF MoveTheta, FreshFit, Wanted
  <2>3. CASE Preflight
    BY <2>3 DEF Preflight
  <2>4. CASE Scan
    BY <2>4 DEF Scan
  <2>5. CASE lift' = lift /\ theta' = theta
    BY <2>5
  <2>6. CASE BeamGate \/ StopOnFit \/ ScanFails \/ FitFails
    BY <2>6, <2>5 DEF BeamGate, StopOnFit, ScanFails, FitFails, EndWith
  <2>7. QED
    BY <2>1, <2>2, <2>3, <2>4, <2>5, <2>6
       DEF ProcedureNext, ProcedureStep, Fit, Widen, Record, BeamChanges, QuickRead
<1>3. QED
  BY <1>1, <1>2, StepKeepsFreshFit, PTL DEF ProcedureSpec, MovesAreMeasured

-----------------------------------------------------------------------------
LEMMA StepKeepsCycle == ProcedureInv /\ CycleSoFar /\ [ProcedureNext]_procedureVars => CycleSoFar'
<1> USE DEF CycleSoFar
<1> SUFFICES ASSUME ProcedureInv, CycleSoFar, [ProcedureNext]_procedureVars PROVE CycleSoFar'
  OBVIOUS
<1>1. Len(cycles) \in Nat
  <2>1. cycles \in Seq(Cycle)
    BY Zenon DEF ProcedureInv, ProcedureTypeOK
  <2>2. QED
    BY <2>1
<1>2. CASE MoveLift
  BY <1>1, <1>2 DEF MoveLift
<1>3. CASE MoveTheta
  BY <1>1, <1>3 DEF MoveTheta
<1>4. CASE Record
  BY <1>4 DEF Record
<1>5. CASE Preflight
  BY <1>5 DEF Preflight
<1>6. CASE UNCHANGED <<aligned, stage, cycles>>
  BY <1>6
<1>7. CASE BeamGate \/ StopOnFit \/ ScanFails \/ FitFails
  BY <1>6, <1>7 DEF BeamGate, StopOnFit, ScanFails, FitFails, EndWith
<1>8. QED
  BY <1>2, <1>3, <1>4, <1>5, <1>6, <1>7
     DEF ProcedureNext, ProcedureStep, procedureVars, Scan, Fit, Widen, BeamChanges, QuickRead

(* What the tracker compares are whole cycles: none is recorded unless both   *)
(* motors have been moved to a fit of that very cycle.                        *)
THEOREM OnlyWholeCyclesCount == ProcedureSpec => CyclesAreWhole
<1> DEFINE Step == cycles' # cycles =>
          /\ aligned = [lift |-> Len(cycles'), theta |-> Len(cycles')]
          /\ cycles'[Len(cycles')] = [lift |-> lift, theta |-> theta]
<1>1. ProcedureInit => CycleSoFar
  <2>1. SUFFICES ASSUME ProcedureInit PROVE CycleSoFar
    OBVIOUS
  <2>2. aligned = [lift |-> 0, theta |-> 0] /\ stage = "preflight"
    BY <2>1, Zenon DEF ProcedureInit
  <2>3. QED
    BY <2>2 DEF CycleSoFar
<1>2. ProcedureInv /\ CycleSoFar /\ [ProcedureNext]_procedureVars => [Step]_procedureVars
  <2> SUFFICES ASSUME ProcedureInv, CycleSoFar, ProcedureNext PROVE Step
    OBVIOUS
  <2>1. CASE Record
    <3>1. cycles \in Seq(Cycle) /\ [lift |-> lift, theta |-> theta] \in Cycle
      BY DEF ProcedureInv, ProcedureTypeOK, Cycle
    <3>2. cycles' = Append(cycles, [lift |-> lift, theta |-> theta]) /\ stage = "record"
      BY <2>1 DEF Record
    <3>3. Len(cycles') = Len(cycles) + 1 /\ cycles'[Len(cycles')] = [lift |-> lift, theta |-> theta]
      BY <3>1, <3>2
    <3>4. QED
      BY <3>2, <3>3 DEF CycleSoFar
  <2>2. CASE cycles' = cycles
    BY <2>2
  <2>3. CASE BeamGate \/ StopOnFit \/ ScanFails \/ FitFails
    BY <2>2, <2>3 DEF BeamGate, StopOnFit, ScanFails, FitFails, EndWith
  <2>4. QED
    BY <2>1, <2>2, <2>3
       DEF ProcedureNext, ProcedureStep, Preflight, Scan, Fit, MoveLift, MoveTheta, Widen,
           BeamChanges, QuickRead
<1>3. QED
  BY <1>1, <1>2, ProcedureStarts, ProcedureKeepsTypes, StepKeepsCycle, PTL DEF ProcedureSpec, CyclesAreWhole

-----------------------------------------------------------------------------
(* Numbers of which each is close to the next are apart by no more than that  *)
(* for every step between them.                                               *)
LEMMA ChainsStayClose ==
    ASSUME NEW a \in Int, NEW b \in Int, NEW f, NEW tol \in Nat,
           \A k \in a .. b : f[k] \in Int,
           \A k \in a .. b - 1 : Apart(f[k], f[k + 1]) <= tol
    PROVE  \A i, j \in a .. b : i <= j => Apart(f[i], f[j]) <= (j - i) * tol
<1> DEFINE Far(d, i) == i + d <= b /\ ~(Apart(f[i], f[i + d]) <= d * tol)
           T == {d \in Nat : \E i \in a .. b : Far(d, i)}
<1>1. SUFFICES T = {}
  <2> SUFFICES ASSUME NEW i \in a .. b, NEW j \in a .. b, i <= j
               PROVE  Apart(f[i], f[j]) <= (j - i) * tol
    OBVIOUS
  <2> DEFINE d == j - i
  <2>1. d \in Nat /\ i + d = j
    OBVIOUS
  <2>2. ~Far(d, i)
    BY <1>1, <2>1
  <2> HIDE DEF d
  <2>3. Apart(f[i], f[j]) <= d * tol
    BY <2>1, <2>2
  <2>4. QED
    BY <2>3 DEF d
<1>2. ASSUME T # {} PROVE FALSE
  <2>1. PICK d \in T : \A m \in T : d <= m
    BY <1>2, LeastNumber
  <2>2. PICK i \in a .. b : Far(d, i)
    BY <2>1
  <2>3. d # 0
    BY <2>2 DEF Apart
  <2> DEFINE c == d - 1
  <2>4. c \in Nat /\ ~(d <= c) /\ c + 1 = d
    BY <2>1, <2>3
  <2>5. ~Far(c, i)
    BY <2>1, <2>4
  <2>6. i + c \in a .. b - 1 /\ i + c \in a .. b /\ i + d \in a .. b /\ (i + c) + 1 = i + d
    BY <2>1, <2>2, <2>4
  <2>7. Apart(f[i], f[i + c]) <= c * tol /\ Apart(f[i + c], f[i + d]) <= tol
    BY <2>5, <2>6
  <2>8. c * tol + tol = d * tol /\ c * tol \in Nat
    <3> HIDE DEF c
    <3>1. (c + 1) * tol = c * tol + tol
      BY <2>4
    <3>2. QED
      BY <2>4, <3>1, ProductsAreNatural
  <2>9. f[i] \in Int /\ f[i + c] \in Int /\ f[i + d] \in Int
    BY <2>6
  <2> HIDE DEF c, T
  <2>10. \A p, q, r \in Int, s, t \in Nat : Apart(p, q) <= s /\ Apart(q, r) <= t => Apart(p, r) <= s + t
    BY DEF Apart
  <2>11. Apart(f[i], f[i + d]) <= c * tol + tol
    BY <2>7, <2>8, <2>9, <2>10
  <2>12. QED
    BY <2>2, <2>8, <2>11
<1>3. QED
  BY <1>2

(* How the loop ends: the motors stay where the last cycle put them.          *)
Ended == verdict = "converged" => Converged(cycles) /\ cycles[Len(cycles)] = [lift |-> lift, theta |-> theta]

LEMMA StepKeepsEnd == ProcedureInv /\ Ended /\ [ProcedureNext]_procedureVars => Ended'
<1> SUFFICES ASSUME ProcedureInv, Ended, [ProcedureNext]_procedureVars, verdict' = "converged"
             PROVE  Converged(cycles)' /\ cycles'[Len(cycles')] = [lift |-> lift', theta |-> theta']
  BY DEF Ended
<1>1. CASE Record
  <2>1. cycles \in Seq(Cycle) /\ lift \in Int /\ theta \in Int
    BY Zenon DEF ProcedureInv, ProcedureTypeOK
  <2>2. cycles' = Append(cycles, [lift |-> lift, theta |-> theta]) /\ lift' = lift /\ theta' = theta
    BY <1>1, Zenon DEF Record
  <2>3. cycles'[Len(cycles')] = [lift |-> lift, theta |-> theta]
    BY <2>1, <2>2
  <2>4. Converged(cycles')
    BY <1>1 DEF Record
  <2>5. QED
    BY <2>2, <2>3, <2>4 DEF Converged
<1>2. CASE UNCHANGED <<verdict, cycles, lift, theta>>
  BY <1>2 DEF Ended, Converged
<1>3. ASSUME verdict # "converged", ~Record PROVE FALSE
  <2>1. verdict' = verdict \/ verdict' = "stopped"
    BY <1>3, Zenon DEF ProcedureNext, ProcedureStep, Preflight, BeamGate, Scan, Fit, MoveLift, MoveTheta,
                Widen, StopOnFit, BeamChanges, QuickRead, ScanFails, FitFails, EndWith, procedureVars
  <2>2. QED
    BY <1>3, <2>1
<1>4. ASSUME verdict = "converged" PROVE UNCHANGED <<verdict, cycles, lift, theta>>
  BY <1>4 DEF ProcedureNext, ProcedureStep, Preflight, BeamGate, Scan, Fit, MoveLift, MoveTheta,
              Widen, StopOnFit, Record, BeamChanges, QuickRead, ScanFails, FitFails, Going, procedureVars
<1>5. QED
  BY <1>1, <1>2, <1>3, <1>4

LEMMA ConvergedIsStable == ProcedureInv /\ Ended => ConvergedMeansStable
<1> SUFFICES ASSUME ProcedureInv, Converged(cycles),
                    cycles[Len(cycles)] = [lift |-> lift, theta |-> theta]
             PROVE  LET n == Len(cycles)
                        recent == n - StableRequired .. n
                    IN /\ n > StableRequired
                       /\ cycles[n] = [lift |-> lift, theta |-> theta]
                       /\ \A i, j \in recent : i <= j =>
                             /\ Apart(cycles[i].lift, cycles[j].lift) <= (j - i) * LiftTol
                             /\ Apart(cycles[i].theta, cycles[j].theta) <= (j - i) * ThetaTol
  BY Zenon DEF Ended, ConvergedMeansStable
<1> DEFINE n == Len(cycles)
           a == n - StableRequired
<1>1. /\ n \in Nat /\ StableRequired \in Nat /\ a \in Int /\ a >= 1
      /\ LiftTol \in Nat /\ ThetaTol \in Nat
      /\ cycles \in Seq(Cycle)
  <2>1. cycles \in Seq(Cycle)
    BY Zenon DEF ProcedureInv, ProcedureTypeOK
  <2>2. Len(cycles) >= StableRequired + 1
    BY DEF Converged
  <2>3. Len(cycles) \in Nat
    BY <2>1
  <2>4. QED
    BY <2>1, <2>2, <2>3, ProcedureAssumption
<1>2. n \in Int
  BY <1>1
<1>3. n > StableRequired
  BY <1>1
<1>4. \A k \in a .. n : cycles[k].lift \in Int /\ cycles[k].theta \in Int
  <2> HIDE DEF a
  <2>1. \A k \in a .. n : cycles[k] \in Cycle
    BY <1>1
  <2>2. QED
    BY <2>1 DEF Cycle
<1>5. \A k \in a .. n - 1 : Agrees(cycles[k], cycles[k + 1])
  BY DEF Converged
<1> DEFINE L == [k \in a .. n |-> cycles[k].lift]
           H == [k \in a .. n |-> cycles[k].theta]
<1>6. \A i, j \in a .. n : i <= j => Apart(cycles[i].lift, cycles[j].lift) <= (j - i) * LiftTol
  <2>1. \A k \in a .. n : L[k] \in Int
    BY <1>4
  <2>2. \A k \in a .. n - 1 : Apart(L[k], L[k + 1]) <= LiftTol
    BY <1>1, <1>5 DEF Agrees
  <2> HIDE DEF L, a, n
  <2>3. \A i, j \in a .. n : i <= j => Apart(L[i], L[j]) <= (j - i) * LiftTol
    BY <1>1, <1>2, <2>1, <2>2, ChainsStayClose, Zenon
  <2>4. QED
    BY <2>3 DEF L
<1>7. \A i, j \in a .. n : i <= j => Apart(cycles[i].theta, cycles[j].theta) <= (j - i) * ThetaTol
  <2>1. \A k \in a .. n : H[k] \in Int
    BY <1>4
  <2>2. \A k \in a .. n - 1 : Apart(H[k], H[k + 1]) <= ThetaTol
    BY <1>1, <1>5 DEF Agrees
  <2> HIDE DEF H, a, n
  <2>3. \A i, j \in a .. n : i <= j => Apart(H[i], H[j]) <= (j - i) * ThetaTol
    BY <1>1, <1>2, <2>1, <2>2, ChainsStayClose, Zenon
  <2>4. QED
    BY <2>3 DEF H
<1>8. QED
  BY <1>3, <1>6, <1>7

(* "Three cycles within tolerance": whatever the cycles were before, the      *)
(* alignment is only said to have converged when each of the cycles that were *)
(* compared is within the tolerances of the one before, and the motors are    *)
(* still where the last one put them.                                         *)
THEOREM ConvergenceIsStable == ProcedureSpec => []ConvergedMeansStable
<1>1. ProcedureInit => Ended
  BY Zenon DEF ProcedureInit, Ended
<1>2. QED
  BY <1>1, ProcedureStarts, ProcedureKeepsTypes, StepKeepsEnd, ConvergedIsStable, PTL DEF ProcedureSpec
==============================================================================
