---------------------------- MODULE DeadbandMotor ---------------------------
(***************************************************************************)
(* DeadbandEpicsMotor.move of devices/motor.py, over a motor record that   *)
(* reports no motion for a target within its retry deadband, and over the  *)
(* bookkeeping of ophyd's EpicsMotor: the callbacks on the end of a        *)
(* requested move, which a new request ends in failure.                    *)
(***************************************************************************)
EXTENDS Integers, Sequences

CONSTANTS Track,      \* positions
          Deadband,   \* .RDBD of the record
          Override,   \* move_tolerance: one number, or {} for None
          Fallback,   \* the tolerance used when .RDBD is zero
          Racing,     \* may the record move between the check and the request?
          MaxMoves    \* bound: calls of move

ASSUME MotorAssumption ==
    /\ Track \subseteq Int
    /\ Deadband \in Nat /\ Fallback \in Nat /\ Override \subseteq Nat
    /\ Racing \in BOOLEAN /\ MaxMoves \in Nat

VARIABLES
    readback,   \* record: where the motor is
    setpoint,   \* record: the target last written
    running,    \* record: is DMOV 0?
    reports,    \* changes of DMOV on their way to the client: is it moving?
    movingSeen, \* EpicsMotor._moving
    call,       \* the call of move: "none", or what it made of the comparison
    wanted,     \* its target
    moves       \* the status of every move, in order of request

motorVars == <<readback, setpoint, running, reports, movingSeen, call, wanted, moves>>

Distance(a, b) == IF a >= b THEN a - b ELSE b - a

Tolerance ==
    IF Override # {} THEN CHOOSE t \in Override : TRUE
    ELSE IF Deadband > 0 THEN Deadband ELSE Fallback

MotorInit ==
    /\ readback = 0 /\ setpoint = 0 /\ running = FALSE
    /\ reports = <<>> /\ movingSeen = FALSE
    /\ call = "none" /\ wanted = 0 /\ moves = <<>>

Quiet == ~running /\ reports = <<>> /\ ~movingSeen

-----------------------------------------------------------------------------
(* The callbacks on the end of a requested move: those of the pending one. *)

EndPending(how) ==
    [i \in DOMAIN moves |-> IF moves[i].status = "pending"
                            THEN [moves[i] EXCEPT !.status = how] ELSE moves[i]]

(* PositionerBase.move: the pending move fails, and the new one is pending.  *)
Requested(target, status) ==
    Append(EndPending("failed"), [target |-> target, status |-> status, quiet |-> Quiet])

(* The record takes a new target: at rest and too close, it does not move.   *)
PutSetpoint(target) ==
    /\ setpoint' = target
    /\ \/ /\ running \/ Distance(target, readback) >= Deadband
          /\ running' = TRUE
          /\ reports' = IF running THEN reports ELSE Append(reports, TRUE)
       \/ /\ ~running /\ Distance(target, readback) <= Deadband
          /\ UNCHANGED <<running, reports>>
    /\ UNCHANGED readback

-----------------------------------------------------------------------------
(* move(): the comparison, and then the request *)

(* Fault: a move of exactly the tolerance is left to the record.             *)
CheckStrictly(target) ==
    /\ call = "none" /\ Len(moves) < MaxMoves
    /\ call' = IF Distance(target, readback) < Tolerance THEN "null" ELSE "real"
    /\ wanted' = target
    /\ UNCHANGED <<readback, setpoint, running, reports, movingSeen, moves>>

Check(target) ==
    /\ call = "none" /\ Len(moves) < MaxMoves
    /\ call' = IF Distance(target, readback) <= Tolerance THEN "null" ELSE "real"
    /\ wanted' = target
    /\ UNCHANGED <<readback, setpoint, running, reports, movingSeen, moves>>

(* Fault: a null move has a status of its own, unknown to the positioner,    *)
(* and _done_moving ends the move that is still pending.                     *)
RequestAside ==
    /\ call # "none"
    /\ moves' = IF call = "null"
                THEN Append(EndPending("done"),
                            [target |-> wanted, status |-> "done", quiet |-> Quiet])
                ELSE Requested(wanted, "pending")
    /\ PutSetpoint(wanted)
    /\ call' = "none" /\ wanted' = 0
    /\ UNCHANGED movingSeen

(* A null move is done at once, but its target is written all the same.      *)
Request ==
    /\ call # "none"
    /\ moves' = Requested(wanted, IF call = "null" THEN "done" ELSE "pending")
    /\ PutSetpoint(wanted)
    /\ call' = "none" /\ wanted' = 0
    /\ UNCHANGED movingSeen

-----------------------------------------------------------------------------
(* The record, and what the client hears of it *)

Undisturbed == Racing \/ call = "none"

Travel ==
    /\ Undisturbed /\ running
    /\ IF readback = setpoint
       THEN running' = FALSE /\ reports' = Append(reports, FALSE) /\ UNCHANGED readback
       ELSE /\ readback' = IF readback < setpoint THEN readback + 1 ELSE readback - 1
            /\ UNCHANGED <<running, reports>>
    /\ UNCHANGED <<setpoint, movingSeen, call, wanted, moves>>

(* _move_changed: the end of a motion ends the pending move, whichever it is. *)
MoveChanged ==
    /\ Undisturbed /\ reports # <<>>
    /\ reports' = Tail(reports)
    /\ movingSeen' = Head(reports)
    /\ moves' = IF movingSeen /\ ~Head(reports) THEN EndPending("done") ELSE moves
    /\ UNCHANGED <<readback, setpoint, running, call, wanted>>

MotorNext == (\E target \in Track : Check(target)) \/ Request \/ Travel \/ MoveChanged

(* A call of move goes on, a motion ends, and its events arrive.              *)
MotorProgress == Request \/ Travel \/ MoveChanged

MotorSpec == MotorInit /\ [][MotorNext]_motorVars /\ WF_motorVars(MotorProgress)

-----------------------------------------------------------------------------
(* Properties *)

(* Types of the state; of the moves, only the last one can be pending.        *)
MotorTypeOK ==
    /\ readback \in Int /\ setpoint \in Track \cup {0} /\ running \in BOOLEAN
    /\ reports \in Seq(BOOLEAN) /\ movingSeen \in BOOLEAN
    /\ call \in {"none", "null", "real"} /\ wanted \in Track \cup {0}
    /\ call # "none" => wanted \in Track
    /\ moves \in Seq([target : Track, status : {"pending", "done", "failed"}, quiet : BOOLEAN])
    /\ \A i \in DOMAIN moves : moves[i].status = "pending" => i = Len(moves)

(* "The returned MoveStatus is marked done right away so that Bluesky does    *)
(* not hang": the status of every move ends.                                  *)
NoHang ==
    \A i \in 1 .. MaxMoves :
        (i <= Len(moves)) ~> (i <= Len(moves) /\ moves[i].status # "pending")

(* A move that another one replaces in flight is never reported as a success, *)
(* be the other one a null move or not.                                       *)
SupersededFails ==
    [][Len(moves') > Len(moves) =>
          \A i \in DOMAIN moves : moves[i].status = "pending" => moves'[i].status = "failed"]_motorVars

(* The success of a move that was asked of a motor at rest says where the     *)
(* motor is.                                                                  *)
DoneMeansThere ==
    [][\A i \in DOMAIN moves' :
          /\ moves'[i].status = "done" /\ moves'[i].quiet
          /\ i \notin DOMAIN moves \/ moves[i].status = "pending"
          => Distance(readback', moves'[i].target) <= Tolerance]_motorVars

(* The status of a move tells the truth about it.                             *)
StatusesAreTrue == SupersededFails /\ DoneMeansThere
=============================================================================
