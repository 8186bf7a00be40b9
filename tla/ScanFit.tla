------------------------------ MODULE ScanFit -------------------------------
(***************************************************************************)
(* The verdict on one alignment scan: fit_falling_edge_halfcut and         *)
(* fit_peak of alignment/fitting.py.                                       *)
(*                                                                         *)
(* The points of the scan are one unit apart: the motor was at 1 .. n.     *)
(* What the least squares find is any outcome at all; what the code makes  *)
(* of it, gate by gate, is exact.  Of R^2 only its place among the two     *)
(* thresholds matters.  A position is a fraction num/den.                  *)
(***************************************************************************)
EXTENDS Integers, FiniteSets, SequencesExt

CONSTANTS MaxPoints,      \* bound: points of a scan
          Heights,        \* diode readings
          KNoise,         \* k_noise, 5 in the code
          TolNum, TolDen, \* tol of _is_monotonic as a fraction, 1/20 in the code
          None            \* JSON null

ASSUME FitAssumption ==
    /\ MaxPoints \in Nat /\ Heights \subseteq Int /\ KNoise \in Nat
    /\ TolNum \in Nat /\ TolDen \in Nat \ {0}
    /\ None \notin {"poor", "fair", "good"} /\ None \notin [num : Int, den : Int]

VARIABLES
    kind,     \* "lift": a falling edge is wanted; "theta": a peak
    y,        \* the readings
    moved,    \* did the motor move at all?
    tier,     \* fit_peak: the shape to be tried next, and then the fallbacks
    result    \* the EdgeFit or PeakFit returned, None before

fitVars == <<kind, y, moved, tier, result>>

Shapes == <<"gaussian", "voigt", "asymmetric_gaussian">>
Size   == Len(y)

FitInit ==
    /\ kind = "lift" /\ y = <<>> /\ moved = TRUE
    /\ tier = 1
    /\ result = None

TakeScan ==
    /\ y = <<>>
    /\ kind' \in {"lift", "theta"}
    /\ y' \in UNION {[1 .. n -> Heights] : n \in 1 .. MaxPoints}
    /\ moved' \in BOOLEAN
    /\ UNCHANGED <<tier, result>>

-----------------------------------------------------------------------------
(* What the optimizer may come back with *)

Quality == {"poor", "fair", "good"}    \* R^2 below POSITION_R2_FLOOR, below r2_min, or neither

Outcome ==
    [converged : BOOLEAN,     \* no exception
     finite    : BOOLEAN,     \* all of the fit's numbers are
     clear     : BOOLEAN,     \* height > k_noise * noise
     narrow    : BOOLEAN,     \* width < span
     r2        : Quality,
     x0        : 0 .. 2 * MaxPoints + 2]    \* in half steps

InRange(o) == 2 <= o.x0 /\ o.x0 <= 2 * Size

At(o) == [num |-> o.x0, den |-> 2]

-----------------------------------------------------------------------------
(* The falling edge *)

NotDetected(position, r2) ==
    [detected |-> FALSE, position |-> position, boundary |-> FALSE, method |-> None, r2 |-> r2]

SafePosition(o) == IF o.finite /\ o.r2 # "poor" THEN At(o) ELSE None

FallingEdge(o) ==
    IF Size < 4 \/ ~o.converged
    THEN NotDetected(None, None)
    ELSE IF o.finite /\ o.clear /\ o.narrow /\ o.r2 = "good" /\ InRange(o)
         THEN [detected |-> TRUE, position |-> At(o), boundary |-> FALSE, method |-> "edge",
               r2 |-> o.r2]
         ELSE NotDetected(SafePosition(o), o.r2)

FitFallingEdge ==
    /\ kind = "lift" /\ y # <<>> /\ result = None
    /\ \E o \in Outcome : result' = FallingEdge(o)
    /\ UNCHANGED <<kind, y, moved, tier>>

-----------------------------------------------------------------------------
(* The profile *)

Top    == Max(ToSet(y))
Bottom == Min(ToSet(y))

Kth(k) == CHOOSE v \in ToSet(y) :
              /\ Cardinality({i \in 1 .. Size : y[i] < v}) < k
              /\ Cardinality({i \in 1 .. Size : y[i] <= v}) >= k

TwiceMedian == Kth((Size + 1) \div 2) + Kth(Size \div 2 + 1)

Total(f) ==
    LET upTo[n \in 0 .. Size] == IF n = 0 THEN 0 ELSE upTo[n - 1] + f[n]
    IN upTo[Size]

(* Size^2 times the variance                                                 *)
Spread == Size * Total([i \in 1 .. Size |-> y[i] * y[i]]) - Total(y) * Total(y)

TwiceProminence == 2 * Top - TwiceMedian

Prominent == (TwiceProminence * Size) * (TwiceProminence * Size) > 4 * KNoise * KNoise * Spread

HasSignal == Spread = 0 \/ Prominent

Ups == Cardinality({i \in 1 .. Size - 1 : y[i] < y[i + 1]})

(* Fault: only a rise counts.                                                *)
IsRising == Size >= 3 /\ Ups * TolDen >= (TolDen - TolNum) * (Size - 1)

IsMonotonic ==
    /\ Size >= 3
    /\ \/ Ups * TolDen >= (TolDen - TolNum) * (Size - 1)
       \/ Ups * TolDen <= TolNum * (Size - 1)

(* Fault: only the end points count.                                         *)
OnEndPoint(p) == p.num <= p.den \/ p.num >= Size * p.den

AtBoundary(p) == p.num <= 2 * p.den \/ p.num >= (Size - 1) * p.den

ArgMax == [num |-> CHOOSE i \in 1 .. Size : y[i] = Top /\ \A j \in 1 .. i - 1 : y[j] # Top,
           den |-> 1]

(* The highest points, equals in any order: argsort is not stable.           *)
TopN ==
    LET n == Min({Size, Max({3, (Size + 2) \div 5})})
    IN {T \in SUBSET (1 .. Size) :
           Cardinality(T) = n /\ \A i \in T, j \in (1 .. Size) \ T : y[i] >= y[j]}

Centroid(T) ==
    LET w == [i \in 1 .. Size |-> IF i \in T THEN y[i] - Bottom ELSE 0]
    IN IF Total(w) <= 0 THEN None
       ELSE [num |-> Total([i \in 1 .. Size |-> i * w[i]]), den |-> Total(w)]

-----------------------------------------------------------------------------
(* The peak *)

Peak(position, method, r2, boundary) ==
    [detected |-> ~boundary, position |-> position, boundary |-> boundary,
     method |-> method, r2 |-> r2]

(* Only the Gaussian is fitted without bounds on its centre.                 *)
Accepted(o) ==
    /\ o.converged /\ o.finite /\ o.clear /\ o.narrow /\ o.r2 = "good"
    /\ InRange(o)

TooShort == Size < 4 \/ ~moved

Trying == kind = "theta" /\ result = None /\ ~TooShort

RejectScan ==
    /\ kind = "theta" /\ result = None /\ TooShort
    /\ result' = NotDetected(None, None)
    /\ UNCHANGED <<kind, y, moved, tier>>

TryShape ==
    /\ Trying /\ tier <= Len(Shapes)
    /\ \E o \in Outcome :
          /\ Shapes[tier] # "gaussian" /\ o.converged => InRange(o)
          /\ IF Accepted(o)
             THEN /\ result' = Peak(At(o), Shapes[tier], o.r2, AtBoundary(At(o)) \/ IsMonotonic)
                  /\ UNCHANGED tier
             ELSE tier' = tier + 1 /\ UNCHANGED result
    /\ UNCHANGED <<kind, y, moved>>

FallBack ==
    /\ Trying /\ tier > Len(Shapes)
    /\ IF ~HasSignal
       THEN result' = NotDetected(None, None)
       ELSE IF IsMonotonic
       THEN result' = Peak(ArgMax, "argmax", None, TRUE)
       ELSE \E T \in TopN :
               LET c == Centroid(T)
               IN result' = IF c # None
                            THEN Peak(c, "centroid_topN", None, AtBoundary(c))
                            ELSE Peak(ArgMax, "argmax", None, AtBoundary(ArgMax))
    /\ UNCHANGED <<kind, y, moved, tier>>

FitNext == TakeScan \/ FitFallingEdge \/ RejectScan \/ TryShape \/ FallBack

FitSpec == FitInit /\ [][FitNext]_fitVars

-----------------------------------------------------------------------------
(* Properties *)

Results ==
    [detected : BOOLEAN,
     position : [num : Int, den : Nat \ {0}] \cup {None},
     boundary : BOOLEAN,
     method : {None, "edge", "centroid_topN", "argmax"} \cup ToSet(Shapes),
     r2 : Quality \cup {None}]

(* Types of the state; a result that is detected has a position.              *)
FitTypeOK ==
    /\ kind \in {"lift", "theta"} /\ moved \in BOOLEAN
    /\ tier \in 1 .. Len(Shapes) + 1
    /\ result # None => result \in Results /\ (result.detected => result.position # None)

(* "Callers cannot accidentally move a motor to a meaningless coordinate": no *)
(* position of a poor fit gets out, and a detected one lies in the scan - for *)
(* a peak, more than a step from either end.  "Non-parametric fallbacks       *)
(* ALWAYS yield a position when the prominence clears k_noise * y noise."     *)
PositionIsMeant ==
    result # None =>
        /\ result.r2 = "poor" => result.position = None
        /\ result.detected =>
              LET p == result.position
              IN IF kind = "lift"
                 THEN p.den <= p.num /\ p.num <= Size * p.den
                 ELSE 2 * p.den < p.num /\ p.num < (Size - 1) * p.den
        /\ kind = "theta" /\ ~TooShort /\ Prominent => result.position # None

Rises  == \A i \in 1 .. Size - 1 : y[i] < y[i + 1]
Falls  == \A i \in 1 .. Size - 1 : y[i] >= y[i + 1]

(* "widen the scan, do not move": whatever the least squares say, and         *)
(* whichever fallback answers, no peak is detected in readings that rise, or  *)
(* never rise, all through the scan.                                          *)
SlopeIsNoPeak == kind = "theta" /\ result # None /\ (Rises \/ Falls) => ~result.detected
=============================================================================
