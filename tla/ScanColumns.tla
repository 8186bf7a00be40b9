---------------------------- MODULE ScanColumns -----------------------------
(***************************************************************************)
(* Which two columns of a run the alignment tools of alignment/skill.py    *)
(* read: _select_xy_fields, _read_scan_xy, and the two tools that look at  *)
(* the same run, the fit (by the motor's name) and the plot (by what       *)
(* varies most).                                                           *)
(*                                                                         *)
(* A name matters by what it contains: a column belongs to a motor, it is  *)
(* a diode, or it is one of the columns that frame an event.               *)
(***************************************************************************)
EXTENDS Integers, FiniteSets, SequencesExt

CONSTANTS MaxColumns,   \* bound: columns of a run
          Variances     \* bound: variances of what was not scanned

ASSUME ColumnsAssumption == MaxColumns \in Nat /\ Variances \subseteq Nat

VARIABLES
    scanned,    \* the motor of the scan, "" before there is a run
    cols,       \* the columns of its primary stream, in order
    points,     \* how many points it has: 0, 1, or 2 for more
    finite,     \* the columns without a gap
    variance,   \* of each
    fitted,     \* the columns the fit tool has read: <<x, y>>, Unreadable, or <<>>
    plotted     \* the columns the plot tool has read, and its kind

columnsVars == <<scanned, cols, points, finite, variance, fitted, plotted>>

Unreadable == <<"error", "error">>

Motors == {"sample_lift", "sample_rotate_steppertheta"}
NoField == ""      \* no column is asked for
DIODE_NAME == "DetectorDiodeCurrent"

Framing == {"time", "ts_sample_lift"}
Diodes  == {DIODE_NAME, "DIAG112_Diode"}

(* The columns whose name contains a motor's, the shortest first: its own    *)
(* when its readback is called after it, and those of its other signals.     *)
Named(motor) ==
    IF motor = "sample_lift"
    THEN <<"sample_lift", "sample_lift_readback", "sample_lift_user_setpoint">>
    ELSE <<"sample_rotate_steppertheta", "sample_rotate_steppertheta_user_setpoint">>

ColumnsOf(motor) == {Named(motor)[i] : i \in DOMAIN Named(motor)}

AllColumns ==
    (UNION {ColumnsOf(m) : m \in Motors}) \cup Diodes \cup Framing \cup {"sample_translate"}

Listed(columns) == {columns[i] : i \in DOMAIN columns}

ColumnsInit ==
    /\ scanned = "" /\ cols = <<>> /\ points = 0 /\ finite = {} /\ variance = <<>>
    /\ fitted = <<>> /\ plotted = <<>>

(* The scanned motor and a diode are recorded, whatever else is, and however  *)
(* soon the scan ends.  What was not scanned may vary even more, as translate *)
(* did; time does.  A readback may be lost, of the scanned motor or of all    *)
(* the others; of fewer than two points it makes no difference.               *)
TakeRun ==
    /\ scanned = ""
    /\ scanned' \in Motors
    /\ \E C \in SUBSET AllColumns :
          /\ Cardinality(C) <= MaxColumns
          /\ C \cap ColumnsOf(scanned') # {} /\ C \cap Diodes # {}
          /\ cols' \in {s \in [1 .. Cardinality(C) -> C] : Listed(s) = C}
          /\ points' \in 0 .. 2
          /\ finite' \in IF points' < 2 THEN {C}
                         ELSE {C, C \ ColumnsOf(scanned'), C \cap ColumnsOf(scanned')}
          /\ \E v \in Variances :
                variance' = [c \in C |-> CASE c \in Framing -> 4
                                           [] c \in ColumnsOf(scanned') -> 2
                                           [] OTHER -> v]
    /\ UNCHANGED <<fitted, plotted>>

-----------------------------------------------------------------------------
(* _read_scan_xy and _select_xy_fields *)

IsEventMetadataCol(c) == c \in Framing

DataColumns == {c \in Listed(cols) : ~IsEventMetadataCol(c)}

First(columns, S) ==
    columns[CHOOSE i \in DOMAIN columns :
                columns[i] \in S /\ \A j \in 1 .. i - 1 : columns[j] \notin S]

YField(asked) ==
    IF asked \in DataColumns THEN asked
    ELSE IF DataColumns \cap Diodes # {} THEN First(cols, Diodes)
    ELSE First(Reverse(cols), DataColumns)

(* Fault: a motor is found under its own name only.                          *)
ExactMatches(asked) == DataColumns \cap {asked}

Matches(asked) == IF asked \notin Motors THEN {} ELSE DataColumns \cap ColumnsOf(asked)

(* Columns that can be told apart by how much they vary.                      *)
Ranked(others) == IF points >= 2 THEN others \cap finite ELSE {}

(* Of two columns of the same variance sort() leaves the later name first.   *)
(* Which that is, is left open.                                              *)
XFields(asked, y) ==
    LET matches == Matches(asked) \ {y}
        others  == DataColumns \ {y}
        ranked  == Ranked(others)
    IN CASE matches # {} -> {First(Named(asked), matches)}
         [] matches = {} /\ ranked # {} ->
               {c \in ranked : \A d \in ranked : variance[c] >= variance[d]}
         [] OTHER -> IF others # {} THEN {First(cols, others)} ELSE {}

(* What a tool reads, if there are two columns and they have points          *)
ReadScan(xAsked, yAsked) ==
    IF points = 0 \/ DataColumns = {} \/ XFields(xAsked, YField(yAsked)) = {}
    THEN {Unreadable}
    ELSE {<<x, YField(yAsked)>> : x \in XFields(xAsked, YField(yAsked))}

-----------------------------------------------------------------------------
(* The tools *)

FitTool ==
    /\ scanned # "" /\ fitted = <<>>
    /\ fitted' \in ReadScan(scanned, DIODE_NAME)
    /\ UNCHANGED <<scanned, cols, points, finite, variance, plotted>>

(* A lift scan covers more than 50 of its units, a theta scan less, and a     *)
(* single point or a column with gaps nothing that can be compared.           *)
KindsOf(x) ==
    CASE points < 2 \/ x \notin finite -> {"sample_rotate_steppertheta"}
      [] points >= 2 /\ x \in finite \cap ColumnsOf(scanned) -> {scanned}
      [] OTHER -> Motors

PlotTool ==
    /\ scanned # "" /\ plotted = <<>>
    /\ \E read \in ReadScan(NoField, NoField) : \E kind \in KindsOf(read[1]) :
          plotted' = <<read, kind>>
    /\ UNCHANGED <<scanned, cols, points, finite, variance, fitted>>

ColumnsNext == TakeRun \/ FitTool \/ PlotTool

ColumnsSpec == ColumnsInit /\ [][ColumnsNext]_columnsVars

-----------------------------------------------------------------------------
(* Properties *)

Axes == {fitted, IF plotted = <<>> THEN <<>> ELSE plotted[1]} \ {<<>>, Unreadable}

(* Types of the state; what frames an event is never an axis, and the two     *)
(* axes are two columns.                                                      *)
ColumnsTypeOK ==
    /\ scanned \in Motors \cup {""}
    /\ Listed(cols) \subseteq AllColumns /\ DOMAIN variance = Listed(cols)
    /\ points \in 0 .. 2 /\ finite \subseteq Listed(cols)
    /\ \A axes \in Axes : axes[1] # axes[2] /\ Listed(axes) \cap Framing = {}

(* "Must not silently pick theta when the scan moved lift", and the canonical *)
(* diode is the one that is fitted: the fit of a run with any points reads a  *)
(* column of the scanned motor, whatever is recorded with it under whichever  *)
(* names and in whichever order, against the canonical diode if it is there.  *)
(* The plot that follows shows that fit: if the motor's readbacks are whole   *)
(* and several, a single diode is recorded and no other device varies more    *)
(* than the motor, it reads the same columns, and takes the scan for what it  *)
(* was.                                                                       *)
ToolsReadTheScan ==
    /\ fitted # <<>> /\ points > 0 =>
          /\ fitted[1] \in ColumnsOf(scanned)
          /\ fitted[2] = IF DIODE_NAME \in Listed(cols) THEN DIODE_NAME ELSE "DIAG112_Diode"
    /\ /\ fitted # <<>> /\ plotted # <<>>
       /\ points >= 2 /\ Listed(cols) \cap ColumnsOf(scanned) \subseteq finite
       /\ Cardinality(Listed(cols) \cap Diodes) = 1
       /\ \A c \in Listed(cols) \ (Diodes \cup Framing \cup ColumnsOf(scanned)) : variance[c] < 2
       =>
          /\ plotted[1][1] \in ColumnsOf(scanned) /\ plotted[1][2] = fitted[2]
          /\ plotted[2] = scanned
=============================================================================
