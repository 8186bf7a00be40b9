------------------------- MODULE AlignmentProcedure -------------------------
(***************************************************************************)
(* The reflection alignment that alignment/skill.py has its agent carry    *)
(* out with the tools it gives it: a coarse lift scan, then cycles of a    *)
(* lift scan and a theta scan, every scan behind a beam check and followed *)
(* by a fit that says where to move, until the tracker of convergence.py   *)
(* is content.                                                             *)
(*                                                                         *)
(* Of a fit the procedure needs what ScanFit promises: a detected position *)
(* lies in the scan, for theta away from its ends.  A lift scan leaves the *)
(* lift where it ends; rel_scan_1d takes theta back to where it was.       *)
(***************************************************************************)
EXTENDS Integers, Sequences

CONSTANTS LiftHalf,       \* half widths of the lift scans: coarse, fine and tight
          ThetaHalf,      \* half widths of the theta scans: first and widened
          ThetaStep,      \* distance of the points of a theta scan
          LiftOffsets,    \* bound: where in a scan, off its centre, a fit may
          ThetaOffsets,   \*        find its position
          LiftTol, ThetaTol, StableRequired,   \* ConvergenceTracker's
          MaxCycles,      \* cap of the loop, 6 in the prompt
          MaxReads        \* bound: quick reads

ASSUME ProcedureAssumption ==
    /\ LiftHalf \in [{"coarse", "fine", "tight"} -> Nat]
    /\ ThetaHalf \in [BOOLEAN -> Nat] /\ ThetaStep \in Nat
    /\ LiftOffsets \subseteq Int /\ ThetaOffsets \subseteq Int
    /\ LiftTol \in Nat /\ ThetaTol \in Nat /\ StableRequired \in Nat \ {0}
    /\ MaxCycles \in Nat \ {0} /\ MaxReads \in Nat

VARIABLES
    stage,      \* what the agent is at: "preflight", "coarse", "fine", "theta", "record"
    step,       \* the next thing of it: "gate", "scan", "fit", "move"
    beam,       \* is the diode current over the threshold?
    lift, theta,\* positions of the two motors
    lastRun,    \* the run that ncs_wait_for_idle reports last
    fit,        \* the verdict on it
    widened,    \* has this cycle's theta scan been widened?
    cycles,     \* the (lift, theta) of each cycle
    aligned,    \* history: the cycle in which each motor was last moved to a fit
    reads,      \* quick reads made
    verdict     \* "", or how it ended: "converged", "capped", "stopped"

procedureVars ==
    <<stage, step, beam, lift, theta, lastRun, fit, widened, cycles, aligned, reads,
      verdict>>

Apart(a, b) == IF a >= b THEN a - b ELSE b - a

(* Which scan the agent is at                                                *)
Current == <<Len(cycles), stage, widened>>

NoRun == [of |-> <<>>, kind |-> "none", centre |-> 0, half |-> 0]
NoFit == [of |-> <<>>, kind |-> "none", detected |-> FALSE, position |-> 0]

ProcedureInit ==
    /\ stage = "preflight" /\ step = "gate" /\ beam = TRUE
    /\ lift = 0 /\ theta = 1
    /\ lastRun = NoRun /\ fit = NoFit
    /\ widened = FALSE /\ cycles = <<>> /\ aligned = [lift |-> 0, theta |-> 0] /\ reads = 0 /\ verdict = ""

-----------------------------------------------------------------------------
(* ConvergenceTracker *)

Agrees(a, b) ==
    Apart(a.lift, b.lift) <= LiftTol /\ Apart(a.theta, b.theta) <= ThetaTol

(* Fault: stable_required cycles instead of comparisons.                     *)
ConvergedEarly(history) ==
    /\ Len(history) >= StableRequired
    /\ \A i \in Len(history) - StableRequired + 1 .. Len(history) - 1 :
          Agrees(history[i], history[i + 1])

Converged(history) ==
    /\ Len(history) >= StableRequired + 1
    /\ \A i \in Len(history) - StableRequired .. Len(history) - 1 :
          Agrees(history[i], history[i + 1])

-----------------------------------------------------------------------------
(* The procedure *)

Going == verdict = ""

EndWith(how) ==
    /\ verdict' = how
    /\ UNCHANGED <<stage, step, beam, lift, theta, fit, widened, cycles, aligned, reads>>

Preflight ==
    /\ Going /\ stage = "preflight"
    /\ theta' = 0
    /\ stage' = "coarse"
    /\ UNCHANGED <<step, beam, lift, lastRun, fit, widened, cycles, aligned, reads, verdict>>

BeamChanges ==
    /\ Going
    /\ beam' = ~beam
    /\ UNCHANGED <<stage, step, lift, theta, lastRun, fit, widened, cycles, aligned, reads, verdict>>

(* What check_beam may answer: it does not always get to read the diode.      *)
CheckBeam == {IF beam THEN "present" ELSE "absent", "error"}

BeamGate ==
    /\ Going /\ stage \in {"coarse", "fine", "theta"} /\ step = "gate"
    /\ \E answer \in CheckBeam :
          IF answer = "present"
          THEN step' = "scan"
               /\ UNCHANGED <<stage, beam, lift, theta, fit, widened, cycles, aligned, reads, verdict>>
          ELSE EndWith("stopped")
    /\ UNCHANGED lastRun

(* quick_read, at any time, between a scan and its fit as well: a run of one  *)
(* point, which from then on is the last run that is reported.                *)
QuickRead ==
    /\ Going /\ stage # "preflight" /\ reads < MaxReads
    /\ reads' = reads + 1
    /\ lastRun' = [NoRun EXCEPT !.kind = "read"]
    /\ UNCHANGED <<stage, step, beam, lift, theta, fit, widened, cycles, aligned, verdict>>

LiftWidth == LiftHalf[IF stage = "coarse" THEN "coarse"
                      ELSE IF cycles = <<>> THEN "fine" ELSE "tight"]

(* Fault: a plan that never started is taken for one that has ended.          *)
ScanFailsUnseen ==
    /\ Going /\ step = "scan"
    /\ step' = "fit"
    /\ UNCHANGED <<stage, beam, lift, theta, lastRun, fit, widened, cycles, aligned, reads, verdict>>

Scan ==
    /\ Going /\ step = "scan"
    /\ step' = "fit"
    /\ IF stage = "theta"
       THEN /\ lastRun' = [of |-> Current, kind |-> "theta", centre |-> theta,
                           half |-> ThetaHalf[widened]]
            /\ UNCHANGED lift
       ELSE /\ lastRun' = [of |-> Current, kind |-> "lift", centre |-> lift,
                           half |-> LiftWidth]
            /\ lift' = lift + LiftWidth
    /\ UNCHANGED <<stage, beam, theta, fit, widened, cycles, aligned, reads, verdict>>

(* The plan fails before it opens a run: nothing is fitted.                   *)
ScanFails ==
    /\ Going /\ step = "scan"
    /\ EndWith("stopped")
    /\ UNCHANGED lastRun

(* What fit_lift_halfcut and fit_theta_peak may say of a run: a single point  *)
(* has neither an edge nor a peak.                                            *)
Verdicts(run) ==
    LET offsets == CASE run.kind = "lift" ->
                          {d \in LiftOffsets : -run.half <= d /\ d <= run.half}
                     [] run.kind = "theta" ->
                          {d \in ThetaOffsets : ThetaStep - run.half < d
                                                /\ d < run.half - ThetaStep}
                     [] OTHER -> {}
    IN {[of |-> run.of, kind |-> run.kind, detected |-> TRUE, position |-> run.centre + d] :
           d \in offsets}
       \cup {[NoFit EXCEPT !.of = run.of, !.kind = run.kind]}

Fit ==
    /\ Going /\ step = "fit"
    /\ fit' \in Verdicts(lastRun)
    /\ step' = "move"
    /\ UNCHANGED <<stage, beam, lift, theta, lastRun, widened, cycles, aligned, reads, verdict>>

(* The fit tool answers with an error: the run is not in Tiled, or has no     *)
(* data.                                                                      *)
FitFails ==
    /\ Going /\ step = "fit"
    /\ EndWith("stopped")
    /\ UNCHANGED lastRun

MoveLift ==
    /\ Going /\ step = "move" /\ stage \in {"coarse", "fine"} /\ fit.detected
    /\ lift' = fit.position
    /\ step' = "gate"
    /\ stage' = IF stage = "coarse" THEN "fine" ELSE "theta"
    /\ widened' = FALSE
    /\ aligned' = [aligned EXCEPT !.lift = Len(cycles) + 1]
    /\ UNCHANGED <<beam, theta, lastRun, fit, cycles, reads, verdict>>

MoveTheta ==
    /\ Going /\ step = "move" /\ stage = "theta" /\ fit.detected
    /\ theta' = fit.position
    /\ stage' = "record" /\ step' = "gate"
    /\ aligned' = [aligned EXCEPT !.theta = Len(cycles) + 1]
    /\ UNCHANGED <<beam, lift, lastRun, fit, widened, cycles, reads, verdict>>

(* Fault: the scan is widened for as long as there is no peak.               *)
WidenOn ==
    /\ Going /\ step = "move" /\ stage = "theta" /\ ~fit.detected
    /\ widened' = TRUE /\ step' = "gate"
    /\ UNCHANGED <<stage, beam, lift, theta, lastRun, fit, cycles, aligned, reads, verdict>>

Widen ==
    /\ Going /\ step = "move" /\ stage = "theta" /\ ~fit.detected /\ ~widened
    /\ widened' = TRUE /\ step' = "gate"
    /\ UNCHANGED <<stage, beam, lift, theta, lastRun, fit, cycles, aligned, reads, verdict>>

StopOnFit ==
    /\ Going /\ step = "move" /\ ~fit.detected /\ (stage = "theta" => widened)
    /\ EndWith("stopped")
    /\ UNCHANGED lastRun

(* Fault: the cycle is recorded with the lift of the fit before, where theta  *)
(* is repeated alone until it agrees.                                         *)
RecordTheta ==
    /\ Going /\ stage = "record"
    /\ cycles' = Append(cycles, [lift |-> lift, theta |-> theta])
    /\ verdict' = IF Converged(cycles') THEN "converged"
                  ELSE IF Len(cycles') >= MaxCycles THEN "capped" ELSE ""
    /\ stage' = "theta" /\ widened' = FALSE
    /\ UNCHANGED <<step, beam, lift, theta, lastRun, fit, aligned, reads>>

(* Fault: the loop is not capped.                                            *)
RecordUncapped ==
    /\ Going /\ stage = "record"
    /\ cycles' = Append(cycles, [lift |-> lift, theta |-> theta])
    /\ verdict' = IF Converged(cycles') THEN "converged" ELSE ""
    /\ stage' = "fine" /\ widened' = FALSE
    /\ UNCHANGED <<step, beam, lift, theta, lastRun, fit, aligned, reads>>

Record ==
    /\ Going /\ stage = "record"
    /\ cycles' = Append(cycles, [lift |-> lift, theta |-> theta])
    /\ verdict' = IF Converged(cycles') THEN "converged"
                  ELSE IF Len(cycles') >= MaxCycles THEN "capped" ELSE ""
    /\ stage' = "fine" /\ widened' = FALSE
    /\ UNCHANGED <<step, beam, lift, theta, lastRun, fit, aligned, reads>>

ProcedureStep ==
    \/ Preflight \/ BeamGate \/ Scan \/ Fit \/ MoveLift \/ MoveTheta \/ Widen
    \/ StopOnFit \/ Record

ProcedureNext == ProcedureStep \/ BeamChanges \/ QuickRead \/ ScanFails \/ FitFails

(* The agent goes on with what the prompt says comes next.                    *)
ProcedureSpec ==
    ProcedureInit /\ [][ProcedureNext]_procedureVars /\ WF_procedureVars(ProcedureStep)

-----------------------------------------------------------------------------
(* Properties *)

Cycle == [lift : Int, theta : Int]

(* Types of the state; the loop is capped.                                    *)
ProcedureTypeOK ==
    /\ stage \in {"preflight", "coarse", "fine", "theta", "record"}
    /\ step \in {"gate", "scan", "fit", "move"}
    /\ beam \in BOOLEAN /\ widened \in BOOLEAN
    /\ lift \in Int /\ theta \in Int
    /\ lastRun.kind \in {"none", "read", "lift", "theta"} /\ fit.detected \in BOOLEAN
    /\ cycles \in Seq(Cycle) /\ Len(cycles) <= MaxCycles
    /\ aligned \in [{"lift", "theta"} -> 0 .. MaxCycles]
    /\ reads \in 0 .. MaxReads
    /\ verdict \in {"", "converged", "capped", "stopped"}

(* "NEVER guess a half-cut or peak": a motor is only moved to a position that *)
(* was detected for that motor in the very scan the agent is at, not in the   *)
(* run of an earlier scan or of a quick read.                                 *)
MovesAreMeasured ==
    [][/\ lift' # lift /\ step # "scan" =>
             fit.detected /\ fit.of = Current /\ fit.kind = "lift" /\ lift' = fit.position
       /\ theta' # theta /\ stage # "preflight" =>
             fit.detected /\ fit.of = Current /\ fit.kind = "theta" /\ theta' = fit.position
      ]_procedureVars

(* What is compared for convergence are whole cycles: each is recorded with   *)
(* both motors where a fit of that very cycle has put them.                   *)
CyclesAreWhole ==
    [][cycles' # cycles =>
          /\ aligned = [lift |-> Len(cycles'), theta |-> Len(cycles')]
          /\ cycles'[Len(cycles')] = [lift |-> lift, theta |-> theta]]_procedureVars

(* "Three cycles within tolerance": when the alignment is said to have        *)
(* converged, the motors are where the last cycle put them, every cycle that  *)
(* was compared is within the tolerances of the one before, and no two are    *)
(* further apart than the tolerances between them add up to.                  *)
ConvergedMeansStable ==
    verdict = "converged" =>
        LET n == Len(cycles)
            recent == n - StableRequired .. n
        IN /\ n > StableRequired
           /\ cycles[n] = [lift |-> lift, theta |-> theta]
           /\ \A i, j \in recent : i <= j =>
                 /\ Apart(cycles[i].lift, cycles[j].lift) <= (j - i) * LiftTol
                 /\ Apart(cycles[i].theta, cycles[j].theta) <= (j - i) * ThetaTol

(* An alignment that has begun ends: no scan is widened, and no loop goes on, *)
(* for ever.                                                                  *)
ProcedureEnds == (stage # "preflight") ~> (verdict # "")
=============================================================================
