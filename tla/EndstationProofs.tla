-------------------------- MODULE EndstationProofs --------------------------
(***************************************************************************)
(* What the devices of the endstation promise - the motor, the detectors,  *)
(* the cameras' discovery and the read-out of a diode - and what all the   *)
(* parts promise together.                                                 *)
(***************************************************************************)
EXTENDS MCEndstation, AlignmentProofs

-----------------------------------------------------------------------------
(* The motor *)

MoveRecord == [target : Track, status : {"pending", "done", "failed"}, quiet : BOOLEAN]

(* The comparison of a call still holds when the request is made.             *)
CheckIsFresh == call = "null" => Distance(wanted, readback) <= Tolerance

(* What the client has to hear of a motion that began at rest: its start and  *)
(* its end, the end only when the motor is at its target.                     *)
HonestReports ==
    \/ running /\ movingSeen /\ reports = <<>>
    \/ running /\ ~movingSeen /\ reports = <<TRUE>>
    \/ ~running /\ readback = setpoint /\ ~movingSeen /\ reports = <<TRUE, FALSE>>
    \/ ~running /\ readback = setpoint /\ movingSeen /\ reports = <<FALSE>>
    \/ ~running /\ ~movingSeen /\ reports = <<>>

OwnMotion ==
    \A i \in DOMAIN moves :
        moves[i].status = "pending" /\ moves[i].quiet = TRUE =>
            setpoint = moves[i].target /\ HonestReports

MotorInv == MotorTypeOK /\ CheckIsFresh /\ OwnMotion

-----------------------------------------------------------------------------
LEMMA TolerancesAreNatural == Tolerance \in Nat
BY MotorAssumption DEF Tolerance

LEMMA DistancesAreNatural ==
    /\ \A a, b \in Int : Distance(a, b) \in Nat
    /\ \A a \in Int : Distance(a, a) = 0
BY DEF Distance

(* What EndPending leaves behind: as many moves, none of them pending, and    *)
(* those that were not pending as they were.                                  *)
LEMMA EndPendingEnds ==
    ASSUME moves \in Seq(MoveRecord), NEW how \in {"done", "failed"}
    PROVE  /\ EndPending(how) \in Seq(MoveRecord)
           /\ Len(EndPending(how)) = Len(moves)
           /\ DOMAIN EndPending(how) = DOMAIN moves
           /\ \A i \in DOMAIN moves :
                 /\ EndPending(how)[i].status # "pending"
                 /\ EndPending(how)[i].target = moves[i].target
                 /\ EndPending(how)[i].quiet = moves[i].quiet
                 /\ moves[i].status = "pending" => EndPending(how)[i].status = how
                 /\ moves[i].status # "pending" => EndPending(how)[i] = moves[i]
<1>1. \A i \in DOMAIN moves : moves[i] \in MoveRecord
  OBVIOUS
<1>2. \A i \in DOMAIN moves : EndPending(how)[i] \in MoveRecord
  BY <1>1 DEF EndPending, MoveRecord
<1>3. EndPending(how) \in [1 .. Len(moves) -> MoveRecord]
  BY <1>2 DEF EndPending
<1>4. EndPending(how) \in Seq(MoveRecord) /\ Len(EndPending(how)) = Len(moves)
  BY <1>3
<1>5. QED
  BY <1>1, <1>4 DEF EndPending, MoveRecord

(* A new move is the last one, and the only one that can be pending.          *)
LEMMA RequestedIsLast ==
    ASSUME moves \in Seq(MoveRecord), NEW target \in Track, NEW status \in {"pending", "done"}
    PROVE  /\ Requested(target, status) \in Seq(MoveRecord)
           /\ Len(Requested(target, status)) = Len(moves) + 1
           /\ \A i \in DOMAIN moves : Requested(target, status)[i] = EndPending("failed")[i]
           /\ \A i \in DOMAIN Requested(target, status) : i \in DOMAIN moves \/ i = Len(moves) + 1
           /\ Requested(target, status)[Len(moves) + 1]
                 = [target |-> target, status |-> status, quiet |-> Quiet]
<1> DEFINE new == [target |-> target, status |-> status, quiet |-> Quiet]
<1>1. new \in MoveRecord
  BY DEF MoveRecord, Quiet
<1>2. EndPending("failed") \in Seq(MoveRecord) /\ Len(EndPending("failed")) = Len(moves)
  BY EndPendingEnds
<1>3. QED
  BY <1>1, <1>2 DEF Requested

(* Appending to a sequence, and taking its head off.                          *)
LEMMA SequencesStayTyped ==
    ASSUME NEW S, NEW s \in Seq(S)
    PROVE  /\ \A x \in S : Append(s, x) \in Seq(S)
           /\ s # <<>> => Head(s) \in S /\ Tail(s) \in Seq(S)
OBVIOUS

LEMMA ShortSequences ==
    ASSUME NEW a, NEW b
    PROVE  /\ Append(<<>>, a) = <<a>> /\ Append(<<a>>, b) = <<a, b>>
           /\ Head(<<a>>) = a /\ Tail(<<a>>) = <<>>
           /\ Head(<<a, b>>) = a /\ Tail(<<a, b>>) = <<b>>
<1>1. Append(<<>>, a) = <<a>>
  OBVIOUS
<1>2. Append(<<a>>, b) = <<a, b>>
  <2> DEFINE s == Append(<<a>>, b)
             t == <<a, b>>
  <2>1. <<a>> \in Seq({a, b}) /\ Len(<<a>>) = 1 /\ <<a>>[1] = a
    OBVIOUS
  <2>2. s \in Seq({a, b}) /\ Len(s) = 2 /\ s[1] = a /\ s[2] = b
    BY <2>1
  <2>3. t \in Seq({a, b}) /\ Len(t) = 2 /\ t[1] = a /\ t[2] = b
    OBVIOUS
  <2>4. \A i \in 1 .. 2 : s[i] = t[i]
    BY <2>2, <2>3
  <2> HIDE DEF s, t
  <2>5. s = t
    BY <2>2, <2>3, <2>4
  <2>6. QED
    BY <2>5 DEF s, t
<1>3. Head(<<a>>) = a /\ Head(<<a, b>>) = a
  OBVIOUS
<1>4. Tail(<<a>>) = <<>>
  OBVIOUS
<1>5. Tail(<<a, b>>) = <<b>>
  OBVIOUS
<1>6. QED
  BY <1>1, <1>2, <1>3, <1>4, <1>5

-----------------------------------------------------------------------------
LEMMA MotorStarts == MotorInit => MotorTypeOK
<1>1. <<>> \in Seq(BOOLEAN) /\ <<>> \in Seq(MoveRecord) /\ DOMAIN <<>> = {}
  OBVIOUS
<1>2. SUFFICES ASSUME MotorInit PROVE MotorTypeOK
  OBVIOUS
<1>3. reports \in Seq(BOOLEAN) /\ moves \in Seq(MoveRecord) /\ DOMAIN moves = {}
  BY <1>1, <1>2 DEF MotorInit
<1>4. readback \in Int /\ setpoint = 0 /\ wanted = 0 /\ call = "none"
  BY <1>2 DEF MotorInit
<1>5. running = FALSE /\ movingSeen = FALSE
  BY <1>2, Zenon DEF MotorInit
<1>6. QED
  BY <1>3, <1>4, <1>5 DEF MotorTypeOK, MoveRecord

LEMMA MotorKeepsTypes == MotorTypeOK /\ [MotorNext]_motorVars => MotorTypeOK'
<1> USE MotorAssumption
<1> SUFFICES ASSUME MotorTypeOK, [MotorNext]_motorVars PROVE MotorTypeOK'
  OBVIOUS
<1> USE DEF MotorTypeOK
<1>1. CASE \E target \in Track : Check(target)
  BY <1>1 DEF Check
<1>2. CASE Request
  <2>1. wanted \in Track
    BY <1>2 DEF Request
  <2>2. PICK target \in Track, status \in {"pending", "done"} : moves' = Requested(target, status)
    BY <1>2, <2>1 DEF Request
  <2>3. moves \in Seq(MoveRecord)
    BY DEF MoveRecord
  <2>4. moves' \in Seq(MoveRecord)
    BY <2>2, <2>3, RequestedIsLast
  <2>5. \A i \in DOMAIN moves' : moves'[i].status = "pending" => i = Len(moves')
    <3>1. \A i \in DOMAIN moves : moves'[i].status # "pending"
      BY <2>2, <2>3, RequestedIsLast, EndPendingEnds
    <3>2. QED
      BY <3>1, <2>2, <2>3, RequestedIsLast
  <2>6. setpoint' = wanted /\ readback' = readback /\ running' \in BOOLEAN /\ reports' \in Seq(BOOLEAN)
    <3>1. PutSetpoint(wanted)
      BY <1>2, <2>1 DEF Request
    <3>2. reports \in Seq(BOOLEAN) /\ running \in BOOLEAN
      OBVIOUS
    <3>3. Append(reports, TRUE) \in Seq(BOOLEAN)
      BY <3>2, SequencesStayTyped
    <3>4. QED
      BY <3>1, <3>2, <3>3, ZenonT(20) DEF PutSetpoint
  <2>7. QED
    BY <1>2, <2>4, <2>5, <2>6 DEF Request, MoveRecord
<1>3. CASE Travel
  <2>1. readback' \in Int /\ running' \in BOOLEAN /\ reports' \in Seq(BOOLEAN)
    <3>1. reports \in Seq(BOOLEAN) /\ readback \in Int
      OBVIOUS
    <3>2. Append(reports, FALSE) \in Seq(BOOLEAN)
      BY <3>1, SequencesStayTyped
    <3>3. readback + 1 \in Int /\ readback - 1 \in Int
      BY <3>1
    <3>4. CASE readback = setpoint
      BY <1>3, <3>1, <3>2, <3>4 DEF Travel
    <3>5. CASE readback # setpoint
      BY <1>3, <3>1, <3>3, <3>5 DEF Travel
    <3>6. QED
      BY <3>4, <3>5
  <2>2. QED
    BY <1>3, <2>1 DEF Travel
<1>4. CASE MoveChanged
  <2>1. reports' \in Seq(BOOLEAN) /\ movingSeen' \in BOOLEAN
    <3>1. reports \in Seq(BOOLEAN)
      OBVIOUS
    <3>2. QED
      BY <1>4, <3>1, SequencesStayTyped, Zenon DEF MoveChanged
  <2>2. moves \in Seq(MoveRecord)
    BY DEF MoveRecord
  <2>3. moves' = moves \/ moves' = EndPending("done")
    BY <1>4 DEF MoveChanged
  <2>4. moves' \in Seq(MoveRecord) /\ \A i \in DOMAIN moves' : moves'[i].status = "pending" => i = Len(moves')
    BY <2>2, <2>3, EndPendingEnds
  <2>5. QED
    BY <1>4, <2>1, <2>4 DEF MoveChanged, MoveRecord
<1>5. CASE UNCHANGED motorVars
  BY <1>5 DEF motorVars
<1>6. QED
  BY <1>1, <1>2, <1>3, <1>4, <1>5 DEF MotorNext

(* Every reachable state of the motor and its client is well typed, and of    *)
(* all moves only the last one can be pending: move() never leaves an earlier *)
(* status behind.                                                             *)
THEOREM MotorTypeCorrect == MotorSpec => []MotorTypeOK
BY MotorStarts, MotorKeepsTypes, PTL DEF MotorSpec

(* A move that is replaced in flight fails, whether the move that replaces it *)
(* is a null move, which ends at once, or not.                                *)
THEOREM ReplacedMovesFail == MotorSpec => SupersededFails
<1> DEFINE Step == Len(moves') > Len(moves) =>
        \A i \in DOMAIN moves : moves[i].status = "pending" => moves'[i].status = "failed"
<1>1. MotorTypeOK /\ [MotorNext]_motorVars => [Step]_motorVars
  <2> SUFFICES ASSUME MotorTypeOK, MotorNext PROVE Step
    OBVIOUS
  <2>1. moves \in Seq(MoveRecord)
    BY DEF MotorTypeOK, MoveRecord
  <2>2. CASE Request
    <3>1. wanted \in Track
      BY <2>2 DEF Request, MotorTypeOK
    <3>2. PICK target \in Track, status \in {"pending", "done"} : moves' = Requested(target, status)
      BY <2>2, <3>1 DEF Request
    <3>3. QED
      BY <2>1, <3>2, RequestedIsLast, EndPendingEnds
  <2>3. CASE MoveChanged
    <3>1. moves' = moves \/ moves' = EndPending("done")
      BY <2>3 DEF MoveChanged
    <3>2. Len(moves') = Len(moves)
      BY <2>1, <3>1, EndPendingEnds
    <3>3. QED
      BY <2>1, <3>2
  <2>4. CASE moves' = moves
    BY <2>1, <2>4
  <2>5. QED
    BY <2>2, <2>3, <2>4 DEF MotorNext, Check, Travel
<1>2. QED
  BY MotorTypeCorrect, <1>1, PTL DEF MotorSpec, SupersededFails

-----------------------------------------------------------------------------
(* The record does not move between the check and the request: what a null    *)
(* move was compared with is where the motor is when it is requested, and the *)
(* reports of a motion that began at rest speak of that motion.               *)
LEMMA InitIsHonest == MotorInit => MotorInv
<1>1. SUFFICES ASSUME MotorInit PROVE CheckIsFresh /\ OwnMotion
  BY MotorStarts DEF MotorInv
<1>2. call = "none" /\ DOMAIN moves = {}
  BY <1>1 DEF MotorInit
<1>3. QED
  BY <1>2 DEF CheckIsFresh, OwnMotion

LEMMA StepKeepsHonesty == Racing = FALSE /\ MotorInv /\ [MotorNext]_motorVars => MotorInv'
<1> SUFFICES ASSUME Racing = FALSE, MotorInv, [MotorNext]_motorVars
             PROVE  CheckIsFresh' /\ OwnMotion'
  BY MotorKeepsTypes DEF MotorInv
<1>1. moves \in Seq(MoveRecord) /\ readback \in Int /\ setpoint \in Int
  BY MotorAssumption DEF MotorInv, MotorTypeOK, MoveRecord
<1>2. CASE \E target \in Track : Check(target)
  <2>1. PICK target \in Track : Check(target)
    BY <1>2
  <2>2. CheckIsFresh'
    BY <2>1 DEF Check, CheckIsFresh, Distance, Tolerance
  <2>3. OwnMotion'
    BY <2>1 DEF Check, MotorInv, OwnMotion, HonestReports
  <2>4. QED
    BY <2>2, <2>3
<1>3. CASE Request
  <2>1. CheckIsFresh'
    BY <1>3 DEF Request, CheckIsFresh
  <2>2. wanted \in Track
    BY <1>3 DEF Request, MotorInv, MotorTypeOK
  <2>3. PICK status \in {"pending", "done"} : moves' = Requested(wanted, status)
    BY <1>3 DEF Request
  <2>4. /\ \A i \in DOMAIN moves : moves'[i].status # "pending"
        /\ \A i \in DOMAIN moves' : i \in DOMAIN moves \/ i = Len(moves) + 1
        /\ moves'[Len(moves) + 1] = [target |-> wanted, status |-> status, quiet |-> Quiet]
    BY <1>1, <2>2, <2>3, RequestedIsLast, EndPendingEnds
  <2>5. ASSUME Quiet PROVE setpoint' = wanted /\ HonestReports'
    <3>1. PutSetpoint(wanted) /\ movingSeen' = movingSeen
      BY <1>3 DEF Request
    <3>2. ~running /\ reports = <<>> /\ ~movingSeen
      BY <2>5 DEF Quiet
    <3>3. CASE running' = TRUE /\ reports' = Append(reports, TRUE)
      BY <3>1, <3>2, <3>3 DEF PutSetpoint, HonestReports
    <3>4. CASE running' = running /\ reports' = reports
      BY <3>1, <3>2, <3>4 DEF PutSetpoint, HonestReports
    <3>5. QED
      BY <3>1, <3>2, <3>3, <3>4 DEF PutSetpoint
  <2>6. OwnMotion'
    BY <2>4, <2>5 DEF OwnMotion
  <2>7. QED
    BY <2>1, <2>6
<1>4. CASE Travel
  <2>1. CheckIsFresh'
    BY <1>4 DEF Travel, Undisturbed, CheckIsFresh
  <2>2. ASSUME HonestReports PROVE HonestReports'
    <3>1. CASE readback = setpoint
      <4>1. /\ running /\ ~running' /\ reports' = Append(reports, FALSE)
            /\ readback' = setpoint' /\ movingSeen' = movingSeen
        BY <1>4, <3>1 DEF Travel
      <4>2. CASE movingSeen /\ reports = <<>>
        <5>1. reports' = <<FALSE>>
          BY <4>1, <4>2, ShortSequences
        <5>2. QED
          BY <4>1, <4>2, <5>1 DEF HonestReports
      <4>3. CASE ~movingSeen /\ reports = <<TRUE>>
        <5>1. reports' = <<TRUE, FALSE>>
          BY <4>1, <4>3, ShortSequences
        <5>2. QED
          BY <4>1, <4>3, <5>1 DEF HonestReports
      <4>4. QED
        BY <2>2, <4>1, <4>2, <4>3 DEF HonestReports
    <3>2. CASE readback # setpoint
      BY <1>4, <2>2, <3>2 DEF Travel, HonestReports
    <3>3. QED
      BY <3>1, <3>2
  <2>3. OwnMotion'
    BY <1>4, <2>2 DEF Travel, MotorInv, OwnMotion
  <2>4. QED
    BY <2>1, <2>3
<1>5. CASE MoveChanged
  <2>1. CheckIsFresh'
    BY <1>5 DEF MoveChanged, Undisturbed, CheckIsFresh
  <2>2. CASE movingSeen /\ ~Head(reports)
    <3>1. moves' = EndPending("done")
      BY <1>5, <2>2 DEF MoveChanged
    <3>2. \A i \in DOMAIN moves' : moves'[i].status # "pending"
      BY <1>1, <3>1, EndPendingEnds
    <3>3. QED
      BY <2>1, <3>2 DEF OwnMotion
  <2>3. CASE ~(movingSeen /\ ~Head(reports))
    <3>1. moves' = moves
      BY <1>5, <2>3 DEF MoveChanged
    <3>2. ASSUME HonestReports PROVE HonestReports'
      <4>1. movingSeen' = Head(reports) /\ reports' = Tail(reports)
            /\ readback' = readback /\ setpoint' = setpoint /\ running' = running /\ reports # <<>>
        BY <1>5 DEF MoveChanged
      <4>2. CASE running /\ ~movingSeen /\ reports = <<TRUE>>
        <5>1. movingSeen' /\ reports' = <<>>
          BY <4>1, <4>2, ShortSequences
        <5>2. QED
          BY <4>1, <4>2, <5>1 DEF HonestReports
      <4>3. CASE ~running /\ readback = setpoint /\ ~movingSeen /\ reports = <<TRUE, FALSE>>
        <5>1. movingSeen' /\ reports' = <<FALSE>>
          BY <4>1, <4>3, ShortSequences
        <5>2. QED
          BY <4>1, <4>3, <5>1 DEF HonestReports
      <4>4. ~(movingSeen /\ reports = <<FALSE>>)
        BY <2>3, ShortSequences
      <4>5. QED
        BY <3>2, <4>1, <4>2, <4>3, <4>4 DEF HonestReports
    <3>3. OwnMotion'
      BY <1>5, <3>1, <3>2 DEF MoveChanged, MotorInv, OwnMotion
    <3>4. QED
      BY <2>1, <3>3
  <2>4. QED
    BY <2>2, <2>3
<1>6. CASE UNCHANGED motorVars
  BY <1>6 DEF motorVars, MotorInv, CheckIsFresh, OwnMotion, HonestReports, Distance
<1>7. QED
  BY <1>2, <1>3, <1>4, <1>5, <1>6 DEF MotorNext

(* If the motor is not racing a call of move(), a move that was asked of a    *)
(* motor at rest is done only when the motor is within the tolerance of its   *)
(* target, null moves included.                                               *)
THEOREM DoneIsThere == ASSUME Racing = FALSE PROVE MotorSpec => DoneMeansThere
<1> DEFINE Step == \A i \in DOMAIN moves' :
          /\ moves'[i].status = "done" /\ moves'[i].quiet
          /\ i \notin DOMAIN moves \/ moves[i].status = "pending"
          => Distance(readback', moves'[i].target) <= Tolerance
<1>1. MotorInv /\ [MotorNext]_motorVars => [Step]_motorVars
  <2> SUFFICES ASSUME MotorInv, MotorNext PROVE Step
    OBVIOUS
  <2>1. moves \in Seq(MoveRecord) /\ readback \in Int /\ setpoint \in Int
    BY MotorAssumption DEF MotorInv, MotorTypeOK, MoveRecord
  <2>2. CASE moves' = moves
    BY <2>1, <2>2
  <2>3. CASE Request
    <3>1. wanted \in Track /\ readback' = readback
      BY <2>3 DEF Request, PutSetpoint, MotorInv, MotorTypeOK
    <3>2. PICK status \in {"pending", "done"} :
             moves' = Requested(wanted, status) /\ (status = "done" => call = "null")
      <4>1. CASE call = "null"
        BY <2>3, <4>1 DEF Request
      <4>2. CASE call # "null"
        BY <2>3, <4>2 DEF Request
      <4>3. QED
        BY <4>1, <4>2
    <3>3. /\ \A i \in DOMAIN moves : moves[i].status = "pending" => moves'[i].status = "failed"
          /\ \A i \in DOMAIN moves' : i \in DOMAIN moves \/ i = Len(moves) + 1
          /\ moves'[Len(moves) + 1].status = status /\ moves'[Len(moves) + 1].target = wanted
      <4>1. \A i \in DOMAIN moves : moves'[i] = EndPending("failed")[i]
        BY <2>1, <3>1, <3>2, RequestedIsLast
      <4>2. \A i \in DOMAIN moves : moves[i].status = "pending" => moves'[i].status = "failed"
        BY <2>1, <4>1, EndPendingEnds
      <4>3. /\ \A i \in DOMAIN moves' : i \in DOMAIN moves \/ i = Len(moves) + 1
            /\ moves'[Len(moves) + 1] = [target |-> wanted, status |-> status, quiet |-> Quiet]
        BY <2>1, <3>1, <3>2, RequestedIsLast
      <4>4. QED
        BY <4>2, <4>3
    <3>4. status = "done" => Distance(readback, wanted) <= Tolerance
      BY <2>1, <3>1, <3>2, MotorAssumption DEF MotorInv, CheckIsFresh, Distance
    <3>5. QED
      BY <3>1, <3>3, <3>4
  <2>4. CASE MoveChanged /\ moves' = EndPending("done") /\ movingSeen /\ ~Head(reports)
    <3>1. SUFFICES ASSUME NEW i \in DOMAIN moves, moves[i].status = "pending", moves[i].quiet = TRUE
                   PROVE  Distance(readback', moves'[i].target) <= Tolerance
      BY <2>1, <2>4, EndPendingEnds
    <3>2. setpoint = moves[i].target /\ HonestReports
      BY <3>1 DEF MotorInv, OwnMotion
    <3>3. reports = <<FALSE>> /\ readback = setpoint
      BY <2>4, <3>2 DEF HonestReports, MoveChanged
    <3>4. readback' = readback /\ moves'[i].target = moves[i].target
      BY <2>1, <2>4, <3>1, EndPendingEnds DEF MoveChanged
    <3>5. Distance(readback, readback) = 0 /\ Tolerance \in Nat
      BY <2>1, DistancesAreNatural, TolerancesAreNatural
    <3>6. QED
      BY <3>2, <3>3, <3>4, <3>5
  <2>5. QED
    BY <2>2, <2>3, <2>4 DEF MotorNext, Check, Travel, MoveChanged
<1>2. MotorSpec => []MotorInv
  BY InitIsHonest, StepKeepsHonesty, PTL DEF MotorSpec
<1>3. QED
  BY <1>1, <1>2, PTL DEF MotorSpec, DoneMeansThere

(* The status of every move tells the truth, if the motor is not racing a     *)
(* call of move().                                                            *)
THEOREM MovesEndTruly == ASSUME Racing = FALSE PROVE MotorSpec => StatusesAreTrue
<1>1. MotorSpec => SupersededFails
  BY ReplacedMovesFail
<1>2. MotorSpec => DoneMeansThere
  BY DoneIsThere
<1>3. QED
  BY <1>1, <1>2 DEF StatusesAreTrue

-----------------------------------------------------------------------------
(* Staging *)

(* What a write may write.                                                    *)
Writes ==
    ({"acquire"} \X {0, 1}) \cup ({"image_mode"} \X {"Single", "Multiple", "Continuous"})
        \cup ({"trigger_mode"} \X {"Internal", "External"})

Put(r, w) == [r EXCEPT ![w[1]] = w[2]]

Modes == {"image_mode", "trigger_mode"}

(* What no lost write has touched; an acquisition is over, too, when an image *)
(* mode was lost.                                                             *)
Sure == IF lost = {} THEN {"acquire", "image_mode"} ELSE {"image_mode"} \ lost

(* These values are the user's, or the user's are remembered.                 *)
Keeps(values) ==
    \A s \in Sure :
        values[s] = user[s] \/ \E i \in DOMAIN originals : originals[i] = <<s, user[s]>>

OriginalsFit ==
    /\ Len(originals) <= Len(StageSigs)
    /\ \A i \in DOMAIN originals :
          /\ originals[i][1] = StageSigs[i][1]
          /\ originals[i][1] \in Sure => originals[i][2] = user[originals[i][1]]

SetUp == model = "andor" => settings["image_mode"] = "Multiple"

(* A stage writes the stage signals in order, and remembers each when it has. *)
StagingLoop ==
    /\ Len(originals) + Len(todo) = Len(StageSigs)
    /\ \A i \in DOMAIN todo : todo[i] = StageSigs[Len(originals) + i]
    /\ Len(originals) = Len(StageSigs) => SetUp

(* An unstage writes what is remembered, the last one first.                  *)
UnstagingLoop ==
    /\ Len(todo) = Len(originals)
    /\ \A i \in 1 .. Len(todo) : todo[i] = originals[Len(originals) - i + 1]

(* A warm-up starts from a detector that is set up and remembers what it was,  *)
(* and gives back what it found.                                              *)
WarmupLoop ==
    /\ model = "andor" /\ Len(originals) = Len(StageSigs)
    /\ saved["image_mode"] = "Multiple"

CooldownLoop ==
    /\ \A i \in DOMAIN todo : todo[i][2] = saved[todo[i][1]]
    /\ \A s \in Modes : settings[s] = saved[s] \/ \E i \in DOMAIN todo : todo[i][1] = s

StagingLabels ==
    /\ model \in {"none", "andor", "pimte"} /\ warm \in BOOLEAN /\ halfWarm \in BOOLEAN
    /\ staged \in {"no", "partially", "yes"} /\ shutter \in Shutters
    /\ phase \in {"idle", "staging", "unstaging", "warmup", "cooldown"}
    /\ goal \in {"none", "stage", "trigger", "raise"}
    /\ outcome \in {"none", "ok", "failed", "RedundantStaging", "RuntimeError"}
    /\ lost \subseteq Signals /\ timeouts \in 0 .. MaxTimeouts
    /\ asked = <<>> \/ asked \in Shutters \X (0 .. Attempts - 1)

StagingInv ==
    /\ settings \in Settings /\ user \in Settings /\ saved \in Settings
    /\ originals \in Seq(Writes) /\ todo \in Seq(Writes)
    /\ OriginalsFit /\ Keeps(settings)
    /\ user["acquire"] = 1 => user["image_mode"] = "Continuous"
    /\ staged = "no" => Len(originals) = 0
    /\ staged = "yes" => Len(originals) = Len(StageSigs) /\ SetUp
    /\ phase = "idle" => Len(todo) = 0
    /\ phase # "idle" => staged = "partially"
    /\ phase = "staging" => StagingLoop
    /\ phase = "unstaging" => UnstagingLoop
    /\ phase \in {"warmup", "cooldown"} => WarmupLoop
    /\ phase = "cooldown" => CooldownLoop
    /\ model = "none" => phase = "idle" /\ Len(originals) = 0 /\ staged = "no"

LEMMA EmptySequences ==
    ASSUME NEW S
    PROVE  /\ \A s : s = <<>> => s \in Seq(S) /\ Len(s) = 0 /\ DOMAIN s = {}
           /\ \A s \in Seq(S) : Len(s) = 0 => s = <<>>
           /\ \A s \in Seq(S) : s # <<>> => Len(s) > 0
<1>1. \A s : s = <<>> => s \in Seq(S) /\ Len(s) = 0 /\ DOMAIN s = {}
  OBVIOUS
<1>2. \A s \in Seq(S) : Len(s) = 0 => s = <<>>
  OBVIOUS
<1>3. \A s \in Seq(S) : s # <<>> => Len(s) > 0
  OBVIOUS
<1>4. QED
  BY <1>1, <1>2, <1>3

LEMMA SettingsHaveFields ==
    ASSUME NEW r \in Settings
    PROVE  /\ r["acquire"] \in {0, 1} /\ r["image_mode"] \in {"Single", "Multiple", "Continuous"}
           /\ r["trigger_mode"] \in {"Internal", "External"}
           /\ \A s \in Signals : <<s, r[s]>> \in Writes
BY DEF Settings, Signals, Writes

LEMMA SettingsTakeWrites ==
    ASSUME NEW r \in Settings, NEW w \in Writes
    PROVE  /\ Put(r, w) \in Settings /\ Put(r, w)[w[1]] = w[2]
           /\ \A s \in Signals : s # w[1] => Put(r, w)[s] = r[s]
<1> USE DEF Put
<1>1. CASE w[1] = "acquire" /\ w[2] \in {0, 1}
  BY <1>1 DEF Settings, Signals
<1>2. CASE w[1] = "image_mode" /\ w[2] \in {"Single", "Multiple", "Continuous"}
  BY <1>2 DEF Settings, Signals
<1>3. CASE w[1] = "trigger_mode" /\ w[2] \in {"Internal", "External"}
  BY <1>3 DEF Settings, Signals
<1>4. QED
  BY <1>1, <1>2, <1>3 DEF Writes

LEMMA WritesArePairs ==
    \A w \in Writes : w = <<w[1], w[2]>> /\ w[1] \in Signals
BY DEF Writes, Signals

LEMMA ModesAreSignals == Modes \subseteq Signals /\ "acquire" \notin Modes
BY DEF Modes, Signals

LEMMA SureSignals == Sure \subseteq {"acquire", "image_mode"} /\ Sure \subseteq Signals
BY DEF Sure, Signals

LEMMA SureShrinks == lost \subseteq lost' => Sure' \subseteq Sure
BY DEF Sure

LEMMA WhatIsWritten ==
    /\ StageSigs \in Seq(Writes) /\ Len(StageSigs) = (IF model = "andor" THEN 2 ELSE 1)
    /\ StageSigs[1] = <<"acquire", 0>>
    /\ model = "andor" => StageSigs[2] = <<"image_mode", "Multiple">>
    /\ WarmupSigs \in Seq(Writes) /\ Len(WarmupSigs) = 3
    /\ \A i \in DOMAIN StageSigs : StageSigs[i][1] \in {"acquire", "image_mode"}
    /\ WarmupSigs[1][1] = "image_mode" /\ WarmupSigs[2][1] = "trigger_mode" /\ WarmupSigs[3][1] = "acquire"
<1>1. /\ <<"acquire", 0>> \in Writes /\ <<"image_mode", "Multiple">> \in Writes
      /\ <<"image_mode", "Single">> \in Writes /\ <<"trigger_mode", "Internal">> \in Writes
      /\ <<"acquire", 1>> \in Writes
  BY DEF Writes
<1>2. CASE model = "andor"
  <2>1. StageSigs = << <<"acquire", 0>>, <<"image_mode", "Multiple">> >>
    BY <1>2 DEF StageSigs
  <2>2. QED
    BY <1>1, <1>2, <2>1 DEF WarmupSigs
<1>3. CASE model # "andor"
  <2>1. StageSigs = << <<"acquire", 0>> >>
    BY <1>3 DEF StageSigs
  <2>2. QED
    BY <1>1, <1>3, <2>1 DEF WarmupSigs
<1>4. QED
  BY <1>2, <1>3

LEMMA ReversedSequences ==
    ASSUME NEW S, NEW s \in Seq(S)
    PROVE  /\ Reverse(s) \in Seq(S) /\ Len(Reverse(s)) = Len(s)
           /\ \A i \in 1 .. Len(s) : Reverse(s)[i] = s[Len(s) - i + 1]
BY DEF Reverse

LEMMA FrontsOfSequences ==
    ASSUME NEW S, NEW s \in Seq(S), Len(s) > 0
    PROVE  /\ Front(s) \in Seq(S) /\ Len(Front(s)) = Len(s) - 1
           /\ \A i \in 1 .. Len(s) - 1 : Front(s)[i] = s[i]
<1> DEFINE n == Len(s) - 1
<1>1. n \in Nat /\ n <= Len(s) /\ \A i \in 1 .. n : s[i] \in S
  OBVIOUS
<1>2. Front(s) = SubSeq(s, 1, n)
  BY DEF Front
<1> HIDE DEF n
<1>3. SubSeq(s, 1, n) = [i \in 1 .. n |-> s[i]]
  <2>1. SubSeq(s, 1, n) = [i \in 1 .. 1 + n - 1 |-> s[1 + i - 1]]
    BY <1>1
  <2>2. 1 + n - 1 = n /\ \A i \in 1 .. n : 1 + i - 1 = i
    BY <1>1
  <2>3. QED
    BY <2>1, <2>2
<1>4. SubSeq(s, 1, n) \in Seq(S) /\ Len(SubSeq(s, 1, n)) = n
  BY <1>1, <1>3
<1>5. QED
  BY <1>2, <1>3, <1>4 DEF n

(* What is remembered is remembered as the user set it.                       *)
LEMMA RememberedWell ==
    ASSUME originals \in Seq(Writes), OriginalsFit, NEW s \in Sure, Remembers(s)
    PROVE  \E i \in DOMAIN originals : originals[i] = <<s, user[s]>>
<1>1. PICK i \in DOMAIN originals : originals[i][1] = s
  BY DEF Remembers
<1>2. originals[i] \in Writes
  BY <1>1
<1>3. originals[i] = <<originals[i][1], originals[i][2]>>
  BY <1>2, WritesArePairs
<1>4. originals[i][2] = user[s]
  BY <1>1 DEF OriginalsFit
<1>5. QED
  BY <1>1, <1>3, <1>4

LEMMA FullRemembers ==
    ASSUME originals \in Seq(Writes), OriginalsFit
    PROVE  /\ Len(originals) > 0 <=> Remembers("acquire")
           /\ model = "andor" /\ Len(originals) = Len(StageSigs) => Remembers("image_mode")
           /\ Remembers("image_mode") => Remembers("acquire")
<1>1. DOMAIN originals = 1 .. Len(originals) /\ Len(originals) \in Nat
  OBVIOUS
<1>2. \A i \in DOMAIN originals : originals[i][1] = StageSigs[i][1]
  BY DEF OriginalsFit
<1>3. Len(originals) > 0 => 1 \in DOMAIN originals /\ originals[1][1] = "acquire"
  BY <1>1, <1>2, WhatIsWritten
<1>4. Len(originals) = 2 /\ model = "andor" => 2 \in DOMAIN originals /\ originals[2][1] = "image_mode"
  BY <1>1, <1>2, WhatIsWritten
<1>5. DOMAIN originals # {} => Len(originals) > 0
  BY <1>1
<1>6. QED
  BY <1>3, <1>4, <1>5, WhatIsWritten DEF Remembers

LEMMA StagingKeepsLabels ==
    StagingInv /\ StagingLabels /\ [StagingNext]_stagingVars => StagingLabels'
<1> SUFFICES ASSUME StagingInv, StagingLabels, [StagingNext]_stagingVars PROVE StagingLabels'
  OBVIOUS
<1> USE DEF StagingLabels
<1>1. CASE Build
  BY <1>1, Zenon DEF Build
<1>2. CASE Stage
  BY <1>2, Zenon DEF Stage, BeginStage, BeginUnstage, Begin, cameraVars
<1>3. CASE Unstage
  BY <1>3, Zenon DEF Unstage, BeginUnstage, Begin, cameraVars
<1>4. CASE Trigger
  BY <1>4, Zenon DEF Trigger, BeginStage, Begin, cameraVars
<1>5. CASE StopAcquiring
  BY <1>5, Zenon DEF StopAcquiring, cameraVars
<1>6. CASE Write
  BY <1>6, Zenon DEF Write, cameraVars
<1>7. CASE TimeOut
  <2>1. timeouts' \in 0 .. MaxTimeouts
    <3>1. timeouts \in 0 .. MaxTimeouts /\ timeouts < MaxTimeouts /\ timeouts' = timeouts + 1
      BY <1>7, Zenon DEF TimeOut
    <3>2. QED
      BY <3>1, StagingAssumption
  <2>2. lost' \subseteq Signals
    <3>1. lost' = lost \/ (todo # <<>> /\ lost' = lost \cup {Head(todo)[1]})
      BY <1>7, Zenon DEF TimeOut
    <3>2. lost \subseteq Signals
      BY Zenon
    <3>3. todo # <<>> => Head(todo)[1] \in Signals
      <4>1. todo # <<>> => Head(todo) \in Writes
        BY DEF StagingInv
      <4>2. QED
        BY <4>1, WritesArePairs
    <3>4. QED
      BY <3>1, <3>2, <3>3
  <2>3. /\ phase' \in {"idle", "unstaging"} /\ goal' \in {"none", "raise"}
        /\ staged' = staged \/ staged' = "partially"
        /\ outcome' = outcome \/ outcome' = "failed"
        /\ halfWarm' \in BOOLEAN
    BY <1>7, Zenon DEF TimeOut, Return, BeginUnstage, Begin
  <2>4. UNCHANGED <<model, warm, shutter, asked>>
    BY <1>7, Zenon DEF TimeOut
  <2>5. QED
    BY <2>1, <2>2, <2>3, <2>4, Zenon
<1>8. CASE UnstageDone
  BY <1>8, Zenon DEF UnstageDone, BeginStage, Begin, Return, cameraVars
<1>9. CASE StageDone
  BY <1>9, Zenon DEF StageDone, Staged, Begin, Return, cameraVars
<1>10. CASE WarmupDone
  BY <1>10, Zenon DEF WarmupDone, Begin, cameraVars
<1>11. CASE CooldownDone
  BY <1>11, Zenon DEF CooldownDone, Staged, Begin, Return, cameraVars
<1>12. CASE Acquired
  BY <1>12, Zenon DEF Acquired
<1>13. ASSUME NEW mode \in Shutters, KeepShutter(mode) PROVE StagingLabels'
  <2>1. asked' = <<mode, 0>> /\ (shutter' = shutter \/ shutter' = mode)
    BY <1>13, Zenon DEF KeepShutter
  <2>2. <<mode, 0>> \in Shutters \X (0 .. Attempts - 1)
    BY StagingAssumption
  <2>3. asked' \in Shutters \X (0 .. Attempts - 1) /\ shutter' \in Shutters
    BY <1>13, <2>1, <2>2, Zenon
  <2>4. QED
    BY <1>13, <2>3, Zenon DEF KeepShutter
<1>14. ASSUME asked # <<>> PROVE asked[1] \in Shutters /\ asked[2] \in 0 .. Attempts - 1
  <2>1. asked \in Shutters \X (0 .. Attempts - 1)
    BY <1>14, Zenon
  <2> HIDE DEF StagingLabels
  <2>2. QED
    BY <2>1
<1>15. CASE ShutterSet
  BY <1>14, <1>15, Zenon DEF ShutterSet
<1>16. CASE ShutterTimeOut
  <2>1. /\ asked # <<>> /\ timeouts < MaxTimeouts /\ timeouts' = timeouts + 1
        /\ shutter' = shutter \/ shutter' = asked[1]
        /\ \/ asked[2] + 1 < Attempts /\ asked' = <<asked[1], asked[2] + 1>> /\ outcome' = outcome
           \/ asked' = <<>> /\ outcome' = "failed"
    BY <1>16, Zenon DEF ShutterTimeOut
  <2>2. timeouts' \in 0 .. MaxTimeouts
    <3>1. timeouts \in 0 .. MaxTimeouts
      BY Zenon
    <3> HIDE DEF StagingLabels
    <3>2. QED
      BY <2>1, <3>1, StagingAssumption
  <2>3. asked[2] + 1 < Attempts => <<asked[1], asked[2] + 1>> \in Shutters \X (0 .. Attempts - 1)
    <3>1. asked[1] \in Shutters /\ asked[2] \in 0 .. Attempts - 1
      BY <1>14, <2>1, Zenon
    <3> HIDE DEF StagingLabels
    <3>2. QED
      BY <3>1, StagingAssumption
  <2>4. asked' = <<>> \/ asked' \in Shutters \X (0 .. Attempts - 1)
    BY <2>1, <2>3, Zenon
  <2>5. UNCHANGED <<model, warm, lost, halfWarm, staged, phase, goal>> /\ shutter' \in Shutters
    BY <1>14, <1>16, <2>1, Zenon DEF ShutterTimeOut
  <2>6. QED
    BY <2>1, <2>2, <2>4, <2>5, Zenon
<1>17. CASE UNCHANGED stagingVars
  BY <1>17, Zenon DEF stagingVars
<1>18. QED
  BY <1>1, <1>2, <1>3, <1>4, <1>5, <1>6, <1>7, <1>8, <1>9, <1>10, <1>11, <1>12, <1>13, <1>15,
     <1>16, <1>17, Zenon DEF StagingNext

(* A step that leaves the modes alone, and an acquire that is not remembered   *)
(* as the user wants it.                                                      *)
LEMMA ModesStay ==
    ASSUME StagingInv, settings' \in Settings, \A s \in Modes : settings'[s] = settings[s],
           user' \in Settings, \A s \in Modes : user'[s] = user[s],
           user'["acquire"] = user["acquire"] \/ user'["acquire"] = 0,
           Len(originals) > 0 => user' = user,
           "acquire" \in Sure /\ Len(originals) = 0 => settings'["acquire"] = user'["acquire"],
           UNCHANGED <<model, originals, staged, phase, todo, saved, lost>>
    PROVE  StagingInv'
<1>1. SetUp' = SetUp /\ StageSigs' = StageSigs /\ Sure' = Sure
  BY DEF SetUp, Modes, StageSigs, Sure
<1>2. StagingLoop' = StagingLoop /\ UnstagingLoop' = UnstagingLoop /\ WarmupLoop' = WarmupLoop
  BY <1>1 DEF StagingLoop, UnstagingLoop, WarmupLoop
<1>3. CooldownLoop' = CooldownLoop
  BY DEF CooldownLoop
<1>4. originals \in Seq(Writes) /\ OriginalsFit /\ Keeps(settings)
  BY DEF StagingInv
<1>5. OriginalsFit'
  <2>1. CASE Len(originals) = 0
    <3>1. DOMAIN originals' = {}
      BY <1>4, <2>1
    <3>2. Len(originals') <= Len(StageSigs')
      BY <1>1, <1>4 DEF OriginalsFit
    <3>3. QED
      BY <3>1, <3>2 DEF OriginalsFit
  <2>2. CASE Len(originals) # 0
    <3>1. user' = user
      BY <1>4, <2>2
    <3>2. QED
      BY <1>1, <1>4, <3>1 DEF OriginalsFit
  <2>3. QED
    BY <2>1, <2>2
<1>6. Keeps(settings)'
  <2> SUFFICES ASSUME NEW s \in Sure, settings'[s] # user'[s]
               PROVE  \E i \in DOMAIN originals : originals[i] = <<s, user'[s]>>
    BY <1>1 DEF Keeps
  <2>1. CASE s = "acquire"
    <3>1. Len(originals) > 0
      BY <1>4, <2>1
    <3>2. Remembers("acquire") /\ user' = user
      BY <1>4, <3>1, FullRemembers
    <3>3. QED
      BY <1>4, <2>1, <3>2, RememberedWell
  <2>2. CASE s = "image_mode"
    <3>1. settings'[s] = settings[s] /\ user'[s] = user[s]
      BY <2>2 DEF Modes
    <3>2. QED
      BY <1>4, <3>1 DEF Keeps
  <2>3. QED
    BY <2>1, <2>2, SureSignals
<1>7. user'["acquire"] = 1 => user'["image_mode"] = "Continuous"
  <2>1. user'["image_mode"] = user["image_mode"]
    BY DEF Modes
  <2>2. QED
    BY <2>1 DEF StagingInv
<1>8. QED
  BY <1>1, <1>2, <1>3, <1>5, <1>6, <1>7, Zenon DEF StagingInv

LEMMA SettingsStay ==
    ASSUME StagingInv,
           UNCHANGED <<model, user, settings, originals, staged, phase, todo, saved, lost>>
    PROVE  StagingInv'
<1>1. settings \in Settings /\ user \in Settings /\ Keeps(settings) /\ originals \in Seq(Writes)
  BY DEF StagingInv
<1>2. "acquire" \in Sure /\ Len(originals) = 0 => settings["acquire"] = user["acquire"]
  BY <1>1 DEF Keeps
<1>3. QED
  BY <1>1, <1>2, ModesStay

LEMMA StageBegins ==
    ASSUME StagingInv, model # "none", Len(originals) = 0, BeginStage,
           UNCHANGED <<model, user, settings, originals, saved, lost>>
    PROVE  StagingInv'
<1>1. phase' = "staging" /\ todo' = StageSigs /\ staged' = "partially"
  BY DEF BeginStage, Begin
<1>2. StageSigs' = StageSigs /\ Sure' = Sure
  BY DEF StageSigs, Sure
<1>3. /\ StageSigs \in Seq(Writes) /\ Len(StageSigs) \in {1, 2}
      /\ \A i \in DOMAIN StageSigs : i \in Nat
  BY WhatIsWritten
<1>4. StagingLoop'
  <2>1. Len(originals') + Len(todo') = Len(StageSigs')
    BY <1>1, <1>2, <1>3
  <2>2. \A i \in DOMAIN todo' : todo'[i] = StageSigs'[Len(originals') + i]
    BY <1>1, <1>2, <1>3
  <2>3. Len(originals') # Len(StageSigs')
    BY <1>2, <1>3
  <2>4. QED
    BY <2>1, <2>2, <2>3 DEF StagingLoop
<1>5. Keeps(settings)' /\ OriginalsFit'
  BY <1>2 DEF StagingInv, Keeps, OriginalsFit
<1>6. /\ settings' \in Settings /\ user' \in Settings /\ saved' \in Settings
      /\ originals' \in Seq(Writes) /\ todo' \in Seq(Writes)
      /\ user'["acquire"] = 1 => user'["image_mode"] = "Continuous"
  BY <1>1, <1>3 DEF StagingInv
<1>7. QED
  BY <1>1, <1>4, <1>5, <1>6 DEF StagingInv

LEMMA UnstageBegins ==
    ASSUME StagingInv, model # "none", BeginUnstage,
           UNCHANGED <<model, user, originals, saved>>,
           settings' \in Settings, lost \subseteq lost',
           \A s \in Sure' : settings'[s] = user[s] \/ Remembers(s)
    PROVE  StagingInv'
<1>1. phase' = "unstaging" /\ todo' = Reverse(originals) /\ staged' = "partially"
  BY DEF BeginUnstage, Begin
<1>2. originals \in Seq(Writes) /\ OriginalsFit
  BY DEF StagingInv
<1>3. /\ todo' \in Seq(Writes) /\ Len(todo') = Len(originals)
      /\ \A i \in 1 .. Len(originals) : todo'[i] = originals[Len(originals) - i + 1]
  BY <1>1, <1>2, ReversedSequences
<1>4. UnstagingLoop'
  BY <1>3 DEF UnstagingLoop
<1>5. Sure' \subseteq Sure /\ StageSigs' = StageSigs
  BY SureShrinks DEF StageSigs
<1>6. OriginalsFit'
  BY <1>2, <1>5 DEF OriginalsFit
<1>7. Keeps(settings)'
  <2> SUFFICES ASSUME NEW s \in Sure', settings'[s] # user[s]
               PROVE  \E i \in DOMAIN originals : originals[i] = <<s, user[s]>>
    BY DEF Keeps
  <2>1. s \in Sure /\ Remembers(s)
    BY <1>5
  <2>2. QED
    BY <1>2, <2>1, RememberedWell
<1>8. /\ settings' \in Settings /\ user' \in Settings /\ saved' \in Settings
      /\ originals' \in Seq(Writes)
      /\ user'["acquire"] = 1 => user'["image_mode"] = "Continuous"
  BY DEF StagingInv
<1>9. QED
  BY <1>1, <1>3, <1>4, <1>6, <1>7, <1>8 DEF StagingInv

(* A loop that is over leaves a call that has ended, or another loop.         *)
LEMMA CallReturns ==
    ASSUME StagingInv, model # "none", phase' = "idle", Len(todo') = 0, todo' \in Seq(Writes),
           Keeps(settings)', settings' \in Settings, OriginalsFit',
           originals' \in Seq(Writes), UNCHANGED <<model, user, saved>>,
           staged' = "no" => Len(originals') = 0,
           staged' = "yes" => Len(originals') = Len(StageSigs') /\ SetUp'
    PROVE  StagingInv'
BY DEF StagingInv

LEMMA BuildKeeps == StagingInv /\ Build => StagingInv'
<1> SUFFICES ASSUME StagingInv, Build PROVE StagingInv'
  OBVIOUS
<1>1. /\ model = "none" /\ model' \in {"andor", "pimte"} /\ user' = settings'
      /\ settings' \in {s \in Settings : s.acquire = 1 => s.image_mode = "Continuous"}
      /\ UNCHANGED <<originals, staged, phase, todo, saved, lost>>
  BY DEF Build
<1>2. phase = "idle" /\ Len(originals) = 0 /\ staged = "no"
  BY <1>1 DEF StagingInv
<1>3. Len(StageSigs') \in Nat
  <2>1. StageSigs' = << <<"acquire", 0>>, <<"image_mode", "Multiple">> >> \/ StageSigs' = << <<"acquire", 0>> >>
    BY DEF StageSigs
  <2>2. QED
    BY <2>1
<1>4. originals \in Seq(Writes) /\ DOMAIN originals = {}
  BY <1>2 DEF StagingInv
<1>5. Keeps(settings)' /\ OriginalsFit'
  BY <1>1, <1>2, <1>3, <1>4 DEF Keeps, OriginalsFit
<1>6. settings' \in Settings /\ (user'["acquire"] = 1 => user'["image_mode"] = "Continuous")
  BY <1>1
<1>7. QED
  BY <1>1, <1>2, <1>3, <1>5, <1>6 DEF StagingInv

LEMMA StagingPhases == StagingLabels => phase \in {"idle", "staging", "unstaging", "warmup", "cooldown"}
BY Zenon DEF StagingLabels

LEMMA WriteKeeps == StagingInv /\ StagingLabels /\ Write => StagingInv'
<1> SUFFICES ASSUME StagingInv, StagingLabels, Write PROVE StagingInv'
  OBVIOUS
<1> DEFINE w == Head(todo)
<1>1. /\ todo # <<>> /\ settings' = [settings EXCEPT ![w[1]] = w[2]] /\ todo' = Tail(todo)
      /\ originals' = CASE phase = "staging" -> Append(originals, <<w[1], settings[w[1]]>>)
                        [] phase = "unstaging" -> Front(originals)
                        [] OTHER -> originals
      /\ UNCHANGED <<model, user, lost, staged, phase, saved>>
  BY Zenon DEF Write, Written, cameraVars
<1>2. /\ settings \in Settings /\ originals \in Seq(Writes) /\ todo \in Seq(Writes)
      /\ OriginalsFit /\ Keeps(settings) /\ user \in Settings /\ saved \in Settings
      /\ user["acquire"] = 1 => user["image_mode"] = "Continuous"
  BY DEF StagingInv
<1>3. Len(todo) > 0
  BY <1>1, <1>2, EmptySequences
<1>4. /\ w \in Writes /\ w = todo[1] /\ todo' \in Seq(Writes) /\ Len(todo') = Len(todo) - 1
      /\ \A i \in DOMAIN todo' : todo'[i] = todo[i + 1] /\ i + 1 \in DOMAIN todo
      /\ \A i \in DOMAIN todo : i = 1 \/ (i - 1 \in DOMAIN todo' /\ todo'[i - 1] = todo[i])
      /\ 1 \in DOMAIN todo
  <2>1. w = todo[1] /\ w \in Writes /\ 1 \in DOMAIN todo
    BY <1>2, <1>3
  <2>2. /\ Tail(todo) \in Seq(Writes) /\ Len(Tail(todo)) = Len(todo) - 1
        /\ \A i \in 1 .. Len(todo) - 1 : Tail(todo)[i] = todo[i + 1]
    BY <1>2, <1>3
  <2> HIDE DEF w
  <2>3. DOMAIN todo = 1 .. Len(todo) /\ DOMAIN Tail(todo) = 1 .. Len(todo) - 1 /\ Len(todo) \in Nat
    BY <1>2, <2>2
  <2>4. \A i \in DOMAIN Tail(todo) : Tail(todo)[i] = todo[i + 1] /\ i + 1 \in DOMAIN todo
    BY <2>2, <2>3
  <2>5. \A i \in DOMAIN todo : i = 1 \/ (i - 1 \in DOMAIN Tail(todo) /\ Tail(todo)[i - 1] = todo[i])
    <3> TAKE i \in DOMAIN todo
    <3>1. CASE i # 1
      <4>1. i - 1 \in 1 .. Len(todo) - 1 /\ (i - 1) + 1 = i
        BY <2>3, <3>1
      <4>2. QED
        BY <2>2, <2>3, <4>1
    <3>2. QED
      BY <3>1
  <2>6. QED
    BY <1>1, <2>1, <2>2, <2>4, <2>5
<1> HIDE DEF w
<1>5. settings' \in Settings /\ settings'[w[1]] = w[2] /\ \A s \in Signals : s # w[1] => settings'[s] = settings[s]
  <2>1. settings' = Put(settings, w)
    BY <1>1, Zenon DEF Put
  <2>2. QED
    BY <1>2, <1>4, <2>1, SettingsTakeWrites
<1>6. w = <<w[1], w[2]>> /\ w[1] \in Signals
  BY <1>4, WritesArePairs
<1>7. StageSigs' = StageSigs /\ Sure' = Sure
  BY <1>1 DEF StageSigs, Sure
<1>8. phase # "idle" /\ model # "none" /\ staged = "partially"
  BY <1>2, <1>3 DEF StagingInv
<1>9. CASE phase = "staging"
  <2>1. StagingLoop
    BY <1>9 DEF StagingInv
  <2> DEFINE o == <<w[1], settings[w[1]]>>
  <2>2. o \in Writes
    BY <1>2, <1>6, SettingsHaveFields
  <2>3. o[1] = w[1] /\ o[2] = settings[w[1]] /\ originals' = Append(originals, o)
    BY <1>1, <1>9
  <2>4. w = StageSigs[Len(originals) + 1]
    BY <1>4, <2>1 DEF StagingLoop
  <2> HIDE DEF o
  <2>5. /\ originals' \in Seq(Writes) /\ Len(originals') = Len(originals) + 1
        /\ \A i \in DOMAIN originals : i \in DOMAIN originals' /\ originals'[i] = originals[i]
        /\ \A i \in DOMAIN originals' : i \in DOMAIN originals \/ i = Len(originals) + 1
        /\ Len(originals) + 1 \in DOMAIN originals' /\ originals'[Len(originals) + 1] = o
        /\ Len(originals) \in Nat
    BY <1>2, <2>2, <2>3
  <2>6. Len(originals') + Len(todo') = Len(StageSigs') /\ Len(originals') <= Len(StageSigs')
    <3>1. Len(originals) + Len(todo) = Len(StageSigs)
      BY <2>1 DEF StagingLoop
    <3>2. Len(originals) \in Nat /\ Len(todo) \in Nat /\ Len(todo') = Len(todo) - 1
      BY <1>2, <1>4
    <3>3. QED
      BY <1>3, <1>7, <2>5, <3>1, <3>2
  <2>7. w[1] \in Sure => settings[w[1]] = user[w[1]]
    <3> SUFFICES ASSUME w[1] \in Sure, settings[w[1]] # user[w[1]] PROVE FALSE
      OBVIOUS
    <3>1. PICK i \in DOMAIN originals : originals[i] = <<w[1], user[w[1]]>>
      BY <1>2 DEF Keeps
    <3>2. StageSigs[i][1] = StageSigs[Len(originals) + 1][1]
      BY <1>2, <2>4, <3>1 DEF OriginalsFit
    <3>3. i \in 1 .. Len(originals) /\ Len(originals) + 1 <= Len(StageSigs) /\ Len(originals) \in Nat
      BY <1>2, <1>7, <2>5, <2>6, <3>1
    <3>4. Len(StageSigs) = IF model = "andor" THEN 2 ELSE 1
      BY WhatIsWritten
    <3>5. model = "andor" /\ i = 1 /\ Len(originals) = 1
      <4> DEFINE n == Len(originals)
      <4>1. i \in 1 .. n /\ n \in Nat /\ n + 1 <= 2 /\ (model # "andor" => n + 1 <= 1)
        BY <3>3, <3>4
      <4> HIDE DEF n
      <4>2. model = "andor"
        BY <4>1
      <4>3. i = 1 /\ n = 1
        BY <4>1
      <4>4. QED
        BY <4>2, <4>3 DEF n
    <3>6. StageSigs[1] = <<"acquire", 0>> /\ StageSigs[2] = <<"image_mode", "Multiple">>
      BY <3>5, WhatIsWritten
    <3>7. QED
      BY <3>2, <3>5, <3>6
  <2>8. OriginalsFit'
    <3>1. ASSUME NEW i \in DOMAIN originals'
          PROVE  /\ originals'[i][1] = StageSigs'[i][1]
                 /\ originals'[i][1] \in Sure' => originals'[i][2] = user'[originals'[i][1]]
      <4>1. CASE i \in DOMAIN originals
        BY <1>1, <1>2, <1>7, <2>5, <4>1 DEF OriginalsFit
      <4>2. CASE i = Len(originals) + 1
        BY <1>1, <1>7, <2>3, <2>4, <2>5, <2>7, <4>2
      <4>3. QED
        BY <2>5, <4>1, <4>2
    <3>2. QED
      BY <2>6, <3>1 DEF OriginalsFit
  <2>9. Keeps(settings)'
    <3> SUFFICES ASSUME NEW s \in Sure, settings'[s] # user[s]
                 PROVE  \E i \in DOMAIN originals' : originals'[i] = <<s, user[s]>>
      BY <1>1, <1>7 DEF Keeps
    <3>1. CASE s = w[1]
      <4>1. o = <<s, user[s]>>
        BY <2>7, <3>1 DEF o
      <4>2. QED
        BY <2>5, <4>1
    <3>2. CASE s # w[1]
      <4>1. settings'[s] = settings[s]
        BY <1>5, <3>2, SureSignals
      <4>2. PICK i \in DOMAIN originals : originals[i] = <<s, user[s]>>
        BY <1>2, <4>1 DEF Keeps
      <4>3. QED
        BY <2>5, <4>2
    <3>3. QED
      BY <3>1, <3>2
  <2>10. StagingLoop'
    <3>1. ASSUME NEW i \in DOMAIN todo' PROVE todo'[i] = StageSigs'[Len(originals') + i]
      <4>1. todo'[i] = todo[i + 1] /\ i + 1 \in DOMAIN todo /\ i \in Nat
        BY <1>4
      <4>2. todo[i + 1] = StageSigs[Len(originals) + (i + 1)]
        BY <2>1, <4>1 DEF StagingLoop
      <4>3. Len(originals) + (i + 1) = Len(originals') + i
        BY <2>5, <4>1
      <4>4. QED
        BY <1>7, <4>1, <4>2, <4>3
    <3>2. Len(originals') = Len(StageSigs') => SetUp'
      <4> SUFFICES ASSUME Len(originals') = Len(StageSigs'), model = "andor"
                   PROVE  settings'["image_mode"] = "Multiple"
        BY <1>1 DEF SetUp
      <4>1. Len(originals) + 1 = 2
        BY <1>7, <2>5, WhatIsWritten
      <4>2. w = <<"image_mode", "Multiple">>
        BY <2>4, <4>1, WhatIsWritten
      <4>3. QED
        BY <1>5, <4>2
    <3>3. QED
      BY <2>6, <3>1, <3>2 DEF StagingLoop
  <2>11. QED
    BY <1>1, <1>2, <1>4, <1>5, <1>8, <1>9, <2>5, <2>8, <2>9, <2>10 DEF StagingInv
<1>10. CASE phase = "unstaging"
  <2>1. UnstagingLoop
    BY <1>10 DEF StagingInv
  <2>2. Len(originals) > 0 /\ Len(originals) = Len(todo) /\ Len(originals) \in Nat
    BY <1>2, <1>3, <2>1 DEF UnstagingLoop
  <2>3. originals' = Front(originals)
    BY <1>1, <1>10
  <2>4. /\ originals' \in Seq(Writes) /\ Len(originals') = Len(originals) - 1
        /\ \A i \in 1 .. Len(originals) - 1 : originals'[i] = originals[i]
    BY <1>2, <2>2, <2>3, FrontsOfSequences
  <2>5. /\ DOMAIN originals' = 1 .. Len(originals) - 1 /\ DOMAIN originals = 1 .. Len(originals)
        /\ \A i \in DOMAIN originals' : i \in DOMAIN originals /\ originals'[i] = originals[i]
        /\ \A i \in DOMAIN originals : i \in DOMAIN originals' \/ i = Len(originals)
    BY <1>2, <2>2, <2>4
  <2>6. w = originals[Len(originals)] /\ Len(originals) \in DOMAIN originals
    <3>1. Len(originals) - 1 + 1 = Len(originals) /\ 1 \in 1 .. Len(todo)
      BY <2>2
    <3>2. todo[1] = originals[Len(originals) - 1 + 1]
      BY <2>1, <3>1 DEF UnstagingLoop
    <3>3. QED
      BY <1>4, <2>2, <2>5, <3>1, <3>2
  <2>7. w[1] \in Sure => w[2] = user[w[1]]
    BY <1>2, <2>6 DEF OriginalsFit
  <2>8. OriginalsFit'
    <3>1. Len(originals') <= Len(StageSigs')
      <4>1. Len(originals) <= Len(StageSigs) /\ Len(StageSigs) \in Nat
        BY <1>2, WhatIsWritten DEF OriginalsFit
      <4>2. QED
        BY <1>7, <2>2, <2>4, <4>1
    <3>2. QED
      BY <1>1, <1>2, <1>7, <2>5, <3>1 DEF OriginalsFit
  <2>9. Keeps(settings)'
    <3> SUFFICES ASSUME NEW s \in Sure, settings'[s] # user[s]
                 PROVE  \E i \in DOMAIN originals' : originals'[i] = <<s, user[s]>>
      BY <1>1, <1>7 DEF Keeps
    <3>1. s # w[1]
      BY <1>5, <2>7
    <3>2. settings'[s] = settings[s]
      BY <1>5, <3>1, SureSignals
    <3>3. PICK i \in DOMAIN originals : originals[i] = <<s, user[s]>>
      BY <1>2, <3>2 DEF Keeps
    <3>4. i # Len(originals)
      BY <2>6, <3>1, <3>3
    <3>5. QED
      BY <2>5, <3>3, <3>4
  <2>10. UnstagingLoop'
    <3>1. Len(todo') = Len(originals')
      BY <1>4, <2>2, <2>4
    <3>2. \A i \in 1 .. Len(todo') : todo'[i] = originals'[Len(originals') - i + 1]
      <4> TAKE i \in 1 .. Len(todo')
      <4>1. /\ i \in DOMAIN todo' /\ i + 1 \in 1 .. Len(todo)
            /\ Len(originals') - i + 1 \in 1 .. Len(originals) - 1
            /\ Len(originals) - (i + 1) + 1 = Len(originals') - i + 1
        BY <1>2, <1>4, <2>2, <2>4, <3>1
      <4>2. todo'[i] = todo[i + 1]
        BY <1>4, <4>1
      <4>3. todo[i + 1] = originals[Len(originals) - (i + 1) + 1]
        BY <2>1, <4>1 DEF UnstagingLoop
      <4>4. originals'[Len(originals') - i + 1] = originals[Len(originals') - i + 1]
        BY <2>4, <4>1
      <4>5. QED
        BY <4>1, <4>2, <4>3, <4>4
    <3>3. QED
      BY <3>1, <3>2 DEF UnstagingLoop
  <2>11. QED
    BY <1>1, <1>2, <1>4, <1>5, <1>8, <1>10, <2>4, <2>8, <2>9, <2>10 DEF StagingInv
<1>11. CASE phase \in {"warmup", "cooldown"}
  <2>1. originals' = originals /\ WarmupLoop
    BY <1>1, <1>11 DEF StagingInv
  <2>2. WarmupLoop' /\ OriginalsFit'
    BY <1>1, <1>2, <1>7, <2>1 DEF WarmupLoop, OriginalsFit
  <2>3. phase = "cooldown" => CooldownLoop'
    <3> SUFFICES ASSUME phase = "cooldown" PROVE CooldownLoop'
      OBVIOUS
    <3>1. CooldownLoop
      BY DEF StagingInv
    <3>2. \A i \in DOMAIN todo' : todo'[i][2] = saved'[todo'[i][1]]
      BY <1>1, <1>4, <3>1 DEF CooldownLoop
    <3>3. ASSUME NEW s \in Modes, settings'[s] # saved[s]
          PROVE  \E i \in DOMAIN todo' : todo'[i][1] = s
      <4>1. w[2] = saved[w[1]]
        BY <1>4, <3>1 DEF CooldownLoop
      <4>2. s # w[1]
        BY <1>5, <3>3, <4>1
      <4>3. settings[s] # saved[s]
        BY <1>5, <3>3, <4>2, ModesAreSignals
      <4>4. PICK i \in DOMAIN todo : todo[i][1] = s
        BY <3>1, <4>3 DEF CooldownLoop
      <4>5. i # 1
        BY <1>4, <4>2, <4>4
      <4>6. QED
        BY <1>4, <4>4, <4>5
    <3>4. QED
      BY <1>1, <3>2, <3>3 DEF CooldownLoop
  <2>4. Keeps(settings)'
    <3>1. Remembers("acquire") /\ Remembers("image_mode")
      BY <1>2, <2>1, FullRemembers DEF WarmupLoop
    <3>2. \A s \in Sure : \E i \in DOMAIN originals : originals[i] = <<s, user[s]>>
      BY <1>2, <3>1, RememberedWell, SureSignals
    <3>3. QED
      BY <1>1, <1>7, <2>1, <3>2 DEF Keeps
  <2>5. QED
    BY <1>1, <1>2, <1>4, <1>5, <1>8, <1>11, <2>1, <2>2, <2>3, <2>4 DEF StagingInv
<1>12. QED
  BY <1>8, <1>9, <1>10, <1>11, StagingPhases

LEMMA AcquireIsNoMode ==
    ASSUME NEW r \in Settings, NEW v \in {0, 1}
    PROVE  /\ [r EXCEPT !.acquire = v] \in Settings
           /\ \A s \in Modes : [r EXCEPT !.acquire = v][s] = r[s]
BY DEF Settings, Modes

LEMMA KeptOrRemembered ==
    ASSUME NEW values, Keeps(values)
    PROVE  \A s \in Sure : values[s] = user[s] \/ Remembers(s)
<1> SUFFICES ASSUME NEW s \in Sure, values[s] # user[s] PROVE Remembers(s)
  OBVIOUS
<1>1. PICK i \in DOMAIN originals : originals[i] = <<s, user[s]>>
  BY DEF Keeps
<1>2. QED
  BY <1>1 DEF Remembers

LEMMA IdleCallsKeep == StagingInv /\ (Stage \/ Unstage \/ Trigger \/ StopAcquiring) => StagingInv'
<1> SUFFICES ASSUME StagingInv, Stage \/ Unstage \/ Trigger \/ StopAcquiring PROVE StagingInv'
  OBVIOUS
<1>1. phase = "idle" /\ model # "none"
  BY Zenon DEF Stage, Unstage, Trigger, StopAcquiring, Idle
<1>2. Keeps(settings) /\ settings \in Settings
  BY <1>1 DEF StagingInv
<1>3. \A s \in Sure : settings[s] = user[s] \/ Remembers(s)
  BY <1>2, KeptOrRemembered
<1>4. ASSUME BeginUnstage, UNCHANGED <<model, user, settings, originals, saved, lost>> PROVE StagingInv'
  <2>1. lost \subseteq lost' /\ settings' \in Settings
    BY <1>2, <1>4
  <2>2. \A s \in Sure' : settings'[s] = user[s] \/ Remembers(s)
    BY <1>3, <1>4, <2>1, SureShrinks
  <2>3. QED
    BY <1>1, <1>4, <2>1, <2>2, UnstageBegins
<1>5. ASSUME staged = "no", BeginStage, UNCHANGED <<model, user, settings, originals, saved, lost>>
      PROVE  StagingInv'
  <2>1. Len(originals) = 0
    BY <1>5 DEF StagingInv
  <2>2. QED
    BY <1>1, <1>2, <1>5, <2>1, StageBegins
<1>6. CASE Stage
  <2>1. BeginUnstage \/ (staged = "no" /\ BeginStage) \/ UNCHANGED <<staged, phase, todo>>
    BY <1>6, Zenon DEF Stage
  <2>2. UNCHANGED <<model, user, settings, originals, saved, lost>>
    BY <1>6, Zenon DEF Stage, cameraVars
  <2>3. QED
    BY <1>4, <1>5, <2>1, <2>2, SettingsStay
<1>7. CASE Unstage
  <2>1. BeginUnstage /\ UNCHANGED <<model, user, settings, originals, saved, lost>>
    BY <1>7, Zenon DEF Unstage, cameraVars
  <2>2. QED
    BY <1>4, <2>1
<1>8. /\ [settings EXCEPT !.acquire = 0] \in Settings /\ [settings EXCEPT !.acquire = 1] \in Settings
      /\ \A s \in Modes : /\ [settings EXCEPT !.acquire = 0][s] = settings[s]
                          /\ [settings EXCEPT !.acquire = 1][s] = settings[s]
  BY <1>2, AcquireIsNoMode
<1>9. CASE Trigger
  <2>1. \/ staged = "no" /\ BeginStage /\ UNCHANGED settings
        \/ UNCHANGED <<settings, staged, phase, todo>>
        \/ /\ staged = "yes" /\ settings' = [settings EXCEPT !.acquire = 1]
           /\ UNCHANGED <<staged, phase, todo>>
    BY <1>9, Zenon DEF Trigger
  <2>2. UNCHANGED <<model, user, originals, saved, lost>>
    BY <1>9, Zenon DEF Trigger, cameraVars
  <2>3. CASE /\ staged = "yes" /\ settings' = [settings EXCEPT !.acquire = 1]
             /\ UNCHANGED <<staged, phase, todo>>
    <3>1. Len(originals) = Len(StageSigs) /\ Len(StageSigs) \in {1, 2}
      BY <2>3, WhatIsWritten DEF StagingInv
    <3>2. user \in Settings /\ Len(originals) # 0
      BY <3>1 DEF StagingInv
    <3>3. settings' \in Settings /\ \A s \in Modes : settings'[s] = settings[s]
      BY <1>8, <2>3
    <3>4. QED
      BY <2>2, <2>3, <3>2, <3>3, ModesStay
  <2>4. QED
    BY <1>5, <2>1, <2>2, <2>3, SettingsStay
<1>10. CASE StopAcquiring
  <2>1. /\ settings' = [settings EXCEPT !.acquire = 0]
        /\ user' = IF Remembers("acquire") THEN user ELSE [user EXCEPT !.acquire = 0]
        /\ UNCHANGED <<model, originals, staged, phase, todo, saved, lost>>
    BY <1>10, Zenon DEF StopAcquiring
  <2>2. user \in Settings /\ originals \in Seq(Writes) /\ OriginalsFit
    BY DEF StagingInv
  <2>3. Len(originals) > 0 => user' = user
    BY <2>1, <2>2, FullRemembers
  <2>4. Len(originals) = 0 => user' = [user EXCEPT !.acquire = 0]
    <3>1. Len(originals) = 0 => ~(Len(originals) > 0)
      OBVIOUS
    <3>2. QED
      BY <2>1, <2>2, <3>1, FullRemembers
  <2>5. user' \in Settings /\ \A s \in Modes : user'[s] = user[s]
    BY <2>1, <2>2, AcquireIsNoMode
  <2>6. [user EXCEPT !.acquire = 0]["acquire"] = 0 /\ settings'["acquire"] = 0
    BY <1>2, <2>1, <2>2 DEF Settings
  <2>7. user'["acquire"] = user["acquire"] \/ user'["acquire"] = 0
    BY <2>1, <2>6
  <2>8. Len(originals) = 0 => settings'["acquire"] = user'["acquire"]
    BY <2>4, <2>6
  <2>9. settings' \in Settings /\ \A s \in Modes : settings'[s] = settings[s]
    BY <1>8, <2>1
  <2>10. QED
    BY <2>1, <2>3, <2>5, <2>7, <2>8, <2>9, ModesStay
<1>11. QED
  BY <1>6, <1>7, <1>9, <1>10

LEMMA TimeOutKeeps == StagingInv /\ StagingLabels /\ TimeOut => StagingInv'
<1> SUFFICES ASSUME StagingInv, StagingLabels, TimeOut PROVE StagingInv'
  OBVIOUS
<1>1. /\ todo # <<>> \/ phase \in {"staging", "cooldown"}
      /\ settings' = settings \/ (todo # <<>> /\ settings' = Put(settings, Head(todo)))
      /\ UNCHANGED <<model, user, originals, saved>>
  <2>1. /\ todo # <<>> \/ phase \in {"staging", "cooldown"}
        /\ settings' \in {settings} \cup (IF todo = <<>> THEN {} ELSE {Written})
        /\ UNCHANGED <<model, user, originals, saved>>
    BY Zenon DEF TimeOut
  <2>2. settings' = settings \/ (todo # <<>> /\ settings' = Written)
    BY <2>1, Zenon
  <2>3. Written = Put(settings, Head(todo))
    BY Zenon DEF Written, Put
  <2>4. QED
    BY <2>1, <2>2, <2>3, Zenon
<1>2. /\ settings \in Settings /\ todo \in Seq(Writes) /\ originals \in Seq(Writes)
      /\ OriginalsFit /\ Keeps(settings)
  BY DEF StagingInv
<1>3. todo # <<>> => Len(todo) > 0 /\ Head(todo) \in Writes /\ Head(todo) = todo[1]
  BY <1>2
<1>4. settings' \in Settings
  BY <1>1, <1>2, <1>3, SettingsTakeWrites
<1>5. model # "none" /\ phase # "idle" /\ staged = "partially"
  BY <1>1, <1>3 DEF StagingInv
<1>6. CASE phase = "unstaging"
  <2>1. phase' = "idle" /\ todo' = <<>> /\ UNCHANGED <<staged, lost>>
    BY <1>6, Zenon DEF TimeOut, Return, Begin
  <2>2. UnstagingLoop /\ Keeps(settings) /\ originals \in Seq(Writes) /\ Sure' = Sure
    BY <1>2, <1>6, <2>1 DEF StagingInv, Sure
  <2>3. Len(todo') = 0 /\ todo' \in Seq(Writes)
    BY <2>1, EmptySequences, Zenon
  <2>4. Keeps(settings)'
    <3>1. CASE settings' = settings
      BY <1>1, <2>1, <2>2, <3>1 DEF Keeps
    <3>2. CASE todo # <<>> /\ settings' = Put(settings, Head(todo))
      <4> DEFINE w == Head(todo)
      <4>1. w \in Writes /\ w = todo[1] /\ Len(todo) > 0
        BY <1>3, <3>2
      <4>2. w = originals[Len(originals)] /\ Len(originals) \in DOMAIN originals
        <5>1. 1 \in 1 .. Len(todo) /\ Len(originals) = Len(todo) /\ Len(originals) \in Nat
          BY <1>2, <2>2, <4>1 DEF UnstagingLoop
        <5>2. Len(originals) - 1 + 1 = Len(originals) /\ Len(originals) >= 1
          BY <4>1, <5>1
        <5>3. todo[1] = originals[Len(originals) - 1 + 1]
          BY <2>2, <5>1 DEF UnstagingLoop
        <5>4. QED
          BY <2>2, <4>1, <5>1, <5>2, <5>3
      <4>3. w[1] \in Sure => w[2] = user[w[1]]
        BY <1>2, <4>2 DEF OriginalsFit
      <4>4. settings' = Put(settings, w)
        BY <3>2
      <4> HIDE DEF w
      <4>5. settings'[w[1]] = w[2] /\ \A s \in Signals : s # w[1] => settings'[s] = settings[s]
        BY <1>2, <4>1, <4>4, SettingsTakeWrites
      <4>6. QED
        BY <1>1, <2>1, <2>2, <4>3, <4>5, SureSignals DEF Keeps
    <3>3. QED
      BY <1>1, <3>1, <3>2
  <2>5. OriginalsFit'
    <3>1. StageSigs' = StageSigs
      BY <1>1 DEF StageSigs
    <3>2. QED
      BY <1>1, <1>2, <2>2, <3>1 DEF OriginalsFit
  <2>6. originals' \in Seq(Writes)
    BY <1>1, <2>2
  <2>7. staged' # "no" /\ staged' # "yes"
    BY <1>5, <2>1
  <2>8. QED
    BY <1>1, <1>4, <1>5, <2>1, <2>3, <2>4, <2>5, <2>6, <2>7, CallReturns
<1>7. CASE phase # "unstaging"
  <2>1. /\ BeginUnstage
        /\ lost' = IF phase = "staging" /\ settings' # settings
                   THEN lost \cup {Head(todo)[1]} ELSE lost
    BY <1>7, Zenon DEF TimeOut
  <2>2. lost \subseteq lost'
    BY <2>1
  <2>3. \A s \in Sure : settings[s] = user[s] \/ Remembers(s)
    BY <1>2, KeptOrRemembered
  <2>4. \A s \in Sure' : settings'[s] = user[s] \/ Remembers(s)
    <3>1. CASE settings' = settings
      BY <2>2, <2>3, <3>1, SureShrinks
    <3>2. CASE settings' # settings /\ phase = "staging"
      <4> DEFINE w == Head(todo)
      <4>1. w \in Writes /\ settings' = Put(settings, w)
        BY <1>1, <1>3, <3>2
      <4>2. lost' = lost \cup {w[1]}
        BY <2>1, <3>2
      <4> HIDE DEF w
      <4>3. \A s \in Signals : s # w[1] => settings'[s] = settings[s]
        BY <1>2, <4>1, SettingsTakeWrites
      <4>4. Sure' \subseteq Sure \ {w[1]}
        BY <2>2, <4>2, SureShrinks DEF Sure
      <4>5. QED
        BY <2>3, <4>3, <4>4, SureSignals
    <3>3. CASE phase # "staging"
      <4>1. WarmupLoop
        BY <1>5, <1>7, <3>3, StagingPhases DEF StagingInv
      <4>2. Remembers("acquire") /\ Remembers("image_mode")
        <5>1. Len(originals) = Len(StageSigs) /\ model = "andor"
          BY <4>1 DEF WarmupLoop
        <5>2. QED
          BY <1>2, <5>1, FullRemembers
      <4>3. Sure' \subseteq {"acquire", "image_mode"}
        BY <2>2, SureShrinks, SureSignals
      <4>4. QED
        BY <4>2, <4>3
    <3>4. QED
      BY <3>1, <3>2, <3>3
  <2>5. QED
    BY <1>1, <1>4, <1>5, <2>1, <2>2, <2>4, UnstageBegins
<1>8. QED
  BY <1>6, <1>7

LEMMA StagedKeeps ==
    ASSUME StagingInv, model # "none", Staged, SetUp, Len(originals) = Len(StageSigs),
           UNCHANGED <<model, user, originals, saved, lost>>
    PROVE  StagingInv'
<1>1. /\ phase' = "idle" /\ todo' = <<>> /\ staged' = "yes"
      /\ settings' = settings \/ settings' = [settings EXCEPT !.acquire = 1]
  BY Zenon DEF Staged, Return, Begin
<1>2. /\ settings \in Settings /\ OriginalsFit /\ Keeps(settings)
      /\ originals \in Seq(Writes)
  BY DEF StagingInv
<1>3. settings' \in Settings /\ \A s \in Modes : settings'[s] = settings[s]
  BY <1>1, <1>2, AcquireIsNoMode
<1>4. Len(todo') = 0 /\ todo' \in Seq(Writes)
  BY <1>1, EmptySequences, Zenon
<1>5. StageSigs' = StageSigs /\ Sure' = Sure
  BY DEF StageSigs, Sure
<1>6. OriginalsFit' /\ SetUp'
  BY <1>2, <1>3, <1>5 DEF OriginalsFit, SetUp, Modes
<1>7. Keeps(settings)'
  <2> SUFFICES ASSUME NEW s \in Sure, settings'[s] # user[s]
               PROVE  \E i \in DOMAIN originals : originals[i] = <<s, user[s]>>
    BY <1>5 DEF Keeps
  <2>1. CASE s = "acquire"
    <3>1. Len(originals) > 0
      BY WhatIsWritten
    <3>2. Remembers("acquire")
      BY <1>2, <3>1, FullRemembers
    <3>3. QED
      BY <1>2, <2>1, <3>2, RememberedWell
  <2>2. CASE s = "image_mode"
    <3>1. settings'[s] = settings[s]
      BY <1>3, <2>2 DEF Modes
    <3>2. QED
      BY <1>2, <3>1 DEF Keeps
  <2>3. QED
    BY <2>1, <2>2, SureSignals
<1>8. Len(originals') = Len(StageSigs') /\ originals' \in Seq(Writes) /\ staged' # "no"
  BY <1>1, <1>2, <1>5
<1>9. QED
  BY <1>1, <1>3, <1>4, <1>6, <1>7, <1>8, CallReturns

LEMMA LoopsEndWell ==
    StagingInv /\ (UnstageDone \/ StageDone \/ WarmupDone \/ CooldownDone) => StagingInv'
<1> SUFFICES ASSUME StagingInv, UnstageDone \/ StageDone \/ WarmupDone \/ CooldownDone
             PROVE  StagingInv'
  OBVIOUS
<1>1. todo = <<>> /\ phase \in {"unstaging", "staging", "warmup", "cooldown"}
  BY Zenon DEF UnstageDone, StageDone, WarmupDone, CooldownDone
<1>2. Len(todo) = 0 /\ DOMAIN todo = {}
  BY <1>1, EmptySequences, Zenon
<1>3. model # "none"
  BY <1>1 DEF StagingInv
<1>4. /\ settings \in Settings /\ user \in Settings /\ saved \in Settings
      /\ originals \in Seq(Writes) /\ OriginalsFit /\ Keeps(settings)
      /\ user["acquire"] = 1 => user["image_mode"] = "Continuous"
  BY DEF StagingInv
<1>5. CASE UnstageDone
  <2>1. phase = "unstaging" /\ UNCHANGED <<model, user, settings, originals, saved, lost>>
    BY <1>5, Zenon DEF UnstageDone, cameraVars
  <2>2. Len(originals) = 0
    BY <1>2, <2>1 DEF StagingInv, UnstagingLoop
  <2>3. BeginStage \/ (staged' = "no" /\ phase' = "idle" /\ todo' = <<>>)
    BY <1>5, Zenon DEF UnstageDone, Return, Begin
  <2>4. CASE staged' = "no" /\ phase' = "idle" /\ todo' = <<>>
    <3>1. Len(todo') = 0 /\ todo' \in Seq(Writes)
      BY <2>4, EmptySequences, Zenon
    <3>2. Keeps(settings)' /\ OriginalsFit' /\ settings' \in Settings
      BY <1>4, <2>1 DEF Keeps, OriginalsFit, Sure, StageSigs
    <3>3. Len(originals') = 0 /\ originals' \in Seq(Writes)
      BY <1>4, <2>1, <2>2
    <3>4. staged' # "yes"
      BY <2>4
    <3>5. QED
      BY <1>3, <2>1, <2>4, <3>1, <3>2, <3>3, <3>4, CallReturns
  <2>5. QED
    BY <1>3, <2>1, <2>2, <2>3, <2>4, StageBegins
<1>6. CASE StageDone
  <2>1. /\ phase = "staging" /\ UNCHANGED <<model, user, originals, lost>>
        /\ \/ /\ model = "andor" /\ phase' = "warmup" /\ todo' = WarmupSigs /\ saved' = settings
              /\ UNCHANGED <<staged, settings>>
           \/ Staged /\ UNCHANGED saved
    BY <1>6, Zenon DEF StageDone, Begin, cameraVars
  <2>2. StagingLoop /\ staged = "partially"
    BY <2>1 DEF StagingInv
  <2>3. Len(originals) = Len(StageSigs) /\ SetUp
    <3>1. Len(originals) + Len(todo) = Len(StageSigs) /\ Len(originals) \in Nat
      BY <1>4, <2>2 DEF StagingLoop
    <3>2. QED
      BY <1>2, <2>2, <3>1 DEF StagingLoop
  <2>4. CASE /\ model = "andor" /\ phase' = "warmup" /\ todo' = WarmupSigs /\ saved' = settings
             /\ UNCHANGED <<staged, settings>>
    <3>1. StageSigs' = StageSigs /\ Sure' = Sure
      BY <2>1 DEF StageSigs, Sure
    <3>2. WarmupLoop'
      BY <2>1, <2>3, <2>4, <3>1 DEF WarmupLoop, SetUp
    <3>3. Keeps(settings)' /\ OriginalsFit'
      BY <1>4, <2>1, <2>4, <3>1 DEF Keeps, OriginalsFit
    <3>4. todo' \in Seq(Writes)
      BY <2>4, WhatIsWritten
    <3>5. QED
      BY <1>3, <1>4, <2>1, <2>2, <2>4, <3>2, <3>3, <3>4 DEF StagingInv
  <2>5. QED
    BY <1>3, <2>1, <2>2, <2>3, <2>4, StagedKeeps
<1>7. CASE WarmupDone
  <2>1. /\ phase = "warmup" /\ phase' = "cooldown" /\ todo' = RestoreSigs(saved)
        /\ UNCHANGED <<model, user, settings, originals, staged, saved, lost>>
    BY <1>7, Zenon DEF WarmupDone, Begin, cameraVars
  <2>2. WarmupLoop /\ staged = "partially"
    BY <2>1 DEF StagingInv
  <2> DEFINE signals == [i \in 1 .. 3 |-> Reverse(WarmupSigs)[i][1]]
  <2>3. /\ Len(WarmupSigs) = 3
        /\ signals[1] = "acquire" /\ signals[2] = "trigger_mode" /\ signals[3] = "image_mode"
    BY WhatIsWritten DEF Reverse
  <2>4. todo' = [i \in 1 .. 3 |-> <<signals[i], saved[signals[i]]>>]
    BY <2>1, <2>3 DEF RestoreSigs
  <2> HIDE DEF signals
  <2>5. \A i \in 1 .. 3 : signals[i] \in Signals /\ <<signals[i], saved[signals[i]]>> \in Writes
    <3>1. \A i \in 1 .. 3 : signals[i] \in Signals
      BY <2>3 DEF Signals
    <3>2. QED
      BY <1>4, <3>1, SettingsHaveFields
  <2>6. todo' \in [1 .. 3 -> Writes]
    BY <2>4, <2>5
  <2>7. todo' \in Seq(Writes) /\ DOMAIN todo' = 1 .. 3
    BY <2>6
  <2>8. CooldownLoop'
    <3>1. \A i \in DOMAIN todo' : todo'[i][1] = signals[i] /\ todo'[i][2] = saved'[todo'[i][1]]
      BY <2>1, <2>4, <2>7
    <3>2. \A s \in Modes : \E i \in DOMAIN todo' : todo'[i][1] = s
      <4>1. todo'[2][1] = "trigger_mode" /\ todo'[3][1] = "image_mode" /\ {2, 3} \subseteq DOMAIN todo'
        BY <2>3, <2>7, <3>1
      <4>2. QED
        BY <4>1 DEF Modes
    <3>3. QED
      BY <3>1, <3>2 DEF CooldownLoop
  <2>9. StageSigs' = StageSigs /\ Sure' = Sure
    BY <2>1 DEF StageSigs, Sure
  <2>10. WarmupLoop'
    BY <2>1, <2>2, <2>9 DEF WarmupLoop
  <2>11. Keeps(settings)' /\ OriginalsFit'
    BY <1>4, <2>1, <2>9 DEF Keeps, OriginalsFit
  <2>12. QED
    BY <1>3, <1>4, <2>1, <2>2, <2>7, <2>8, <2>10, <2>11 DEF StagingInv
<1>8. CASE CooldownDone
  <2>1. /\ phase = "cooldown" /\ Staged
        /\ UNCHANGED <<model, user, originals, saved, lost>>
    BY <1>8, Zenon DEF CooldownDone, cameraVars
  <2>2. CooldownLoop /\ WarmupLoop
    BY <2>1 DEF StagingInv
  <2>3. \A s \in Modes : settings[s] = saved[s]
    BY <1>2, <2>2 DEF CooldownLoop
  <2>4. Len(originals) = Len(StageSigs) /\ SetUp
    BY <2>2, <2>3 DEF WarmupLoop, SetUp, Modes
  <2>5. QED
    BY <1>3, <2>1, <2>4, StagedKeeps
<1>9. QED
  BY <1>5, <1>6, <1>7, <1>8

(* A camera that stops by itself was not acquiring for the user: that one      *)
(* acquires continuously, and only a stage, which remembers acquire first,    *)
(* has changed its image mode.                                                *)
LEMMA AcquiredKeeps == StagingInv /\ Acquired => StagingInv'
<1> SUFFICES ASSUME StagingInv, Acquired PROVE StagingInv'
  OBVIOUS
<1>1. /\ settings.image_mode # "Continuous" /\ settings' = [settings EXCEPT !.acquire = 0]
      /\ UNCHANGED <<model, user, originals, staged, phase, todo, saved, lost>>
  BY Zenon DEF Acquired
<1>2. /\ settings \in Settings /\ user \in Settings /\ originals \in Seq(Writes)
      /\ OriginalsFit /\ Keeps(settings)
      /\ user["acquire"] = 1 => user["image_mode"] = "Continuous"
  BY DEF StagingInv
<1>3. settings' \in Settings /\ (\A s \in Modes : settings'[s] = settings[s]) /\ settings'["acquire"] = 0
  BY <1>1, <1>2, AcquireIsNoMode DEF Settings
<1>4. ASSUME "acquire" \in Sure, Len(originals) = 0 PROVE user["acquire"] = 0
  <2>1. "image_mode" \in Sure
    BY <1>4 DEF Sure
  <2>2. ~Remembers("image_mode")
    <3>1. DOMAIN originals = {}
      BY <1>2, <1>4
    <3>2. QED
      BY <3>1 DEF Remembers
  <2>3. settings["image_mode"] = user["image_mode"]
    BY <1>2, <2>1, <2>2, KeptOrRemembered
  <2>4. QED
    BY <1>1, <1>2, <2>3, SettingsHaveFields
<1>5. QED
  BY <1>1, <1>2, <1>3, <1>4, ModesStay

LEMMA StagingKeeps == StagingInv /\ StagingLabels /\ [StagingNext]_stagingVars => StagingInv'
<1> SUFFICES ASSUME StagingInv, StagingLabels, [StagingNext]_stagingVars PROVE StagingInv'
  OBVIOUS
<1>1. CASE (\E mode \in Shutters : KeepShutter(mode)) \/ ShutterSet \/ ShutterTimeOut \/ UNCHANGED stagingVars
  <2>1. UNCHANGED <<model, user, settings, originals, staged, phase, todo, saved, lost>>
    BY <1>1, Zenon DEF KeepShutter, ShutterSet, ShutterTimeOut, stagingVars
  <2>2. QED
    BY <2>1, SettingsStay
<1>2. QED
  BY <1>1, AcquiredKeeps, BuildKeeps, IdleCallsKeep, WriteKeeps, TimeOutKeeps, LoopsEndWell, Zenon
     DEF StagingNext

-----------------------------------------------------------------------------
(* The trigger mode, which only a warm-up writes *)

TriggerInv ==
    ~halfWarm =>
        /\ phase \in {"idle", "staging", "unstaging"}
              => settings["trigger_mode"] = user["trigger_mode"]
        /\ phase \in {"warmup", "cooldown"}
              => saved["trigger_mode"] = user["trigger_mode"]

LEMMA StageWritesNoTrigger ==
    ASSUME StagingInv, phase \in {"staging", "unstaging"}, todo # <<>>
    PROVE  Written \in Settings /\ Written["trigger_mode"] = settings["trigger_mode"]
<1>1. /\ settings \in Settings /\ todo \in Seq(Writes) /\ originals \in Seq(Writes)
      /\ OriginalsFit
  BY DEF StagingInv
<1>2. Len(todo) > 0 /\ 1 \in DOMAIN todo /\ Head(todo) = todo[1] /\ Head(todo) \in Writes
  BY <1>1
<1>3. todo[1][1] \in {"acquire", "image_mode"}
  <2>1. CASE phase = "staging"
    <3>1. StagingLoop
      BY <2>1 DEF StagingInv
    <3>2. todo[1] = StageSigs[Len(originals) + 1] /\ Len(originals) + Len(todo) = Len(StageSigs)
      BY <1>2, <3>1 DEF StagingLoop
    <3>3. Len(originals) + 1 \in DOMAIN StageSigs
      BY <1>1, <1>2, <3>2, WhatIsWritten
    <3>4. QED
      BY <3>2, <3>3, WhatIsWritten
  <2>2. CASE phase = "unstaging"
    <3>1. UnstagingLoop
      BY <2>2 DEF StagingInv
    <3>2. Len(todo) = Len(originals) /\ 1 \in 1 .. Len(todo)
      BY <1>1, <1>2, <3>1 DEF UnstagingLoop
    <3>3. todo[1] = originals[Len(originals) - 1 + 1]
      BY <3>1, <3>2 DEF UnstagingLoop
    <3>4. Len(originals) - 1 + 1 = Len(originals) /\ Len(originals) \in DOMAIN originals
      BY <1>1, <1>2, <3>2
    <3>5. todo[1][1] = StageSigs[Len(originals)][1] /\ Len(originals) <= Len(StageSigs)
      BY <1>1, <3>3, <3>4 DEF OriginalsFit
    <3>6. Len(originals) \in DOMAIN StageSigs
      BY <1>1, <3>4, <3>5, WhatIsWritten
    <3>7. QED
      BY <3>5, <3>6, WhatIsWritten
  <2>3. QED
    BY <2>1, <2>2
<1>4. Written = Put(settings, Head(todo))
  BY Zenon DEF Written, Put
<1>5. "trigger_mode" \in Signals /\ Head(todo)[1] # "trigger_mode"
  BY <1>2, <1>3 DEF Signals
<1>6. QED
  BY <1>1, <1>2, <1>4, <1>5, SettingsTakeWrites

(* A step within the calls, the stages and the unstages that writes no        *)
(* trigger mode.                                                              *)
LEMMA TriggerStays ==
    ASSUME TriggerInv, halfWarm => halfWarm',
           phase \in {"idle", "staging", "unstaging"}, phase' \in {"idle", "staging", "unstaging"},
           settings'["trigger_mode"] = settings["trigger_mode"],
           user'["trigger_mode"] = user["trigger_mode"]
    PROVE  TriggerInv'
BY DEF TriggerInv

LEMMA TriggerKeeps ==
    StagingInv /\ StagingLabels /\ TriggerInv /\ [StagingNext]_stagingVars => TriggerInv'
<1> SUFFICES ASSUME StagingInv, StagingLabels, TriggerInv, [StagingNext]_stagingVars PROVE TriggerInv'
  OBVIOUS
<1>1. /\ settings \in Settings /\ user \in Settings
      /\ phase \in {"idle", "staging", "unstaging", "warmup", "cooldown"}
  BY StagingPhases DEF StagingInv
<1>2. /\ \A v \in {0, 1} : [settings EXCEPT !.acquire = v]["trigger_mode"] = settings["trigger_mode"]
      /\ [user EXCEPT !.acquire = 0]["trigger_mode"] = user["trigger_mode"]
  BY <1>1, AcquireIsNoMode DEF Modes
<1>3. CASE Build
  <2>1. user' = settings'
    BY <1>3, Zenon DEF Build
  <2>2. phase' = "idle"
    BY <1>3, Zenon DEF Build, StagingInv
  <2>3. QED
    BY <2>1, <2>2 DEF TriggerInv
<1>4. CASE Stage \/ Unstage \/ Trigger \/ StopAcquiring
  <2>1. /\ phase = "idle" /\ phase' \in {"idle", "staging", "unstaging"} /\ halfWarm' = halfWarm
        /\ \/ settings' = settings \/ settings' = [settings EXCEPT !.acquire = 0]
           \/ settings' = [settings EXCEPT !.acquire = 1]
        /\ user' = user \/ user' = [user EXCEPT !.acquire = 0]
    BY <1>4, Zenon DEF Stage, Unstage, Trigger, StopAcquiring, Idle, BeginStage, BeginUnstage, Begin, cameraVars
  <2>2. settings'["trigger_mode"] = settings["trigger_mode"] /\ user'["trigger_mode"] = user["trigger_mode"]
    BY <1>2, <2>1
  <2>3. QED
    BY <2>1, <2>2, TriggerStays
<1>5. CASE Write
  <2>1. todo # <<>> /\ settings' = Written /\ UNCHANGED <<user, halfWarm, phase, saved>>
    BY <1>5, Zenon DEF Write, cameraVars
  <2>2. phase # "idle"
    BY <2>1, EmptySequences DEF StagingInv
  <2>3. CASE phase \in {"staging", "unstaging"}
    BY <2>1, <2>3, StageWritesNoTrigger, TriggerStays
  <2>4. CASE phase \in {"warmup", "cooldown"}
    BY <2>1, <2>4 DEF TriggerInv
  <2>5. QED
    BY <1>1, <2>2, <2>3, <2>4
<1>6. CASE TimeOut
  <2>1. /\ todo # <<>> \/ phase \in {"staging", "cooldown"}
        /\ settings' \in {settings} \cup (IF todo = <<>> THEN {} ELSE {Written})
        /\ user' = user
    BY <1>6, Zenon DEF TimeOut
  <2>2. settings' = settings \/ (todo # <<>> /\ settings' = Written)
    BY <2>1, Zenon
  <2>3. phase # "idle"
    BY <2>1, EmptySequences DEF StagingInv
  <2>4. CASE phase \in {"staging", "unstaging"}
    <3>1. phase' \in {"idle", "unstaging"} /\ (halfWarm => halfWarm')
      BY <1>6, Zenon DEF TimeOut, Return, BeginUnstage, Begin
    <3>2. settings'["trigger_mode"] = settings["trigger_mode"]
      BY <2>2, <2>4, StageWritesNoTrigger
    <3>3. QED
      BY <2>1, <2>4, <3>1, <3>2, TriggerStays
  <2>5. CASE phase \in {"warmup", "cooldown"}
    <3>1. phase' = "unstaging" /\ halfWarm' = (halfWarm \/ todo # <<>>)
      BY <1>6, <2>5, Zenon DEF TimeOut, BeginUnstage, Begin
    <3>2. CASE todo # <<>>
      BY <3>1, <3>2 DEF TriggerInv
    <3>3. CASE todo = <<>>
      <4>1. phase = "cooldown" /\ settings' = settings /\ CooldownLoop
        BY <2>1, <2>2, <2>5, <3>3 DEF StagingInv
      <4>2. DOMAIN todo = {}
        BY <3>3, EmptySequences, Zenon
      <4>3. settings["trigger_mode"] = saved["trigger_mode"]
        BY <4>1, <4>2 DEF CooldownLoop, Modes
      <4>4. QED
        BY <2>1, <3>1, <3>3, <4>1, <4>3 DEF TriggerInv
    <3>4. QED
      BY <3>2, <3>3
  <2>6. QED
    BY <1>1, <2>3, <2>4, <2>5
<1>7. CASE UnstageDone
  <2>1. /\ phase = "unstaging" /\ phase' \in {"idle", "staging"}
        /\ UNCHANGED <<settings, user, halfWarm>>
    BY <1>7, Zenon DEF UnstageDone, BeginStage, Begin, Return, cameraVars
  <2>2. QED
    BY <2>1, TriggerStays
<1>8. CASE StageDone
  <2>1. /\ phase = "staging" /\ UNCHANGED <<user, halfWarm>>
        /\ \/ phase' = "warmup" /\ saved' = settings
           \/ /\ phase' = "idle"
              /\ settings' = settings \/ settings' = [settings EXCEPT !.acquire = 1]
    BY <1>8, Zenon DEF StageDone, Staged, Return, Begin, cameraVars
  <2>2. QED
    BY <1>2, <2>1 DEF TriggerInv
<1>9. CASE WarmupDone
  <2>1. phase = "warmup" /\ phase' = "cooldown" /\ UNCHANGED <<user, saved, halfWarm>>
    BY <1>9, Zenon DEF WarmupDone, Begin, cameraVars
  <2>2. QED
    BY <2>1 DEF TriggerInv
<1>10. CASE CooldownDone
  <2>1. /\ phase = "cooldown" /\ todo = <<>> /\ phase' = "idle" /\ UNCHANGED <<user, halfWarm>>
        /\ settings' = settings \/ settings' = [settings EXCEPT !.acquire = 1]
    BY <1>10, Zenon DEF CooldownDone, Staged, Return, Begin, cameraVars
  <2>2. CooldownLoop /\ DOMAIN todo = {}
    BY <2>1, EmptySequences, Zenon DEF StagingInv
  <2>3. settings["trigger_mode"] = saved["trigger_mode"]
    BY <2>2 DEF CooldownLoop, Modes
  <2>4. QED
    BY <1>2, <2>1, <2>3 DEF TriggerInv
<1>11. CASE Acquired
  <2>1. settings' = [settings EXCEPT !.acquire = 0] /\ UNCHANGED <<user, phase, saved, halfWarm>>
    BY <1>11, Zenon DEF Acquired
  <2>2. QED
    BY <1>2, <2>1 DEF TriggerInv
<1>12. CASE (\E mode \in Shutters : KeepShutter(mode)) \/ ShutterSet \/ ShutterTimeOut \/ UNCHANGED stagingVars
  <2>1. UNCHANGED <<settings, user, phase, saved, halfWarm>>
    BY <1>12, Zenon DEF KeepShutter, ShutterSet, ShutterTimeOut, stagingVars
  <2>2. QED
    BY <2>1 DEF TriggerInv
<1>13. QED
  BY <1>3, <1>4, <1>5, <1>6, <1>7, <1>8, <1>9, <1>10, <1>11, <1>12, Zenon DEF StagingNext

LEMMA NothingIsStaged == StagingInit => StagingInv /\ StagingLabels /\ TriggerInv
<1> SUFFICES ASSUME StagingInit PROVE StagingInv /\ StagingLabels /\ TriggerInv
  OBVIOUS
<1>1. originals \in Seq(Writes) /\ Len(originals) = 0 /\ todo \in Seq(Writes) /\ Len(todo) = 0 /\ DOMAIN originals = {}
  BY EmptySequences, Zenon DEF StagingInit
<1>2. /\ settings = [acquire |-> 0, image_mode |-> "Single", trigger_mode |-> "Internal"]
      /\ user = settings /\ saved = settings /\ lost = {} /\ timeouts = 0
      /\ phase = "idle" /\ staged = "no" /\ model = "none"
  BY Zenon DEF StagingInit
<1>3. settings \in Settings
  BY <1>2 DEF Settings
<1>4. Len(originals) <= Len(StageSigs)
  BY <1>1, WhatIsWritten
<1>5. Keeps(settings) /\ OriginalsFit
  BY <1>1, <1>2, <1>4 DEF Keeps, OriginalsFit
<1>6. StagingInv /\ TriggerInv
  BY <1>1, <1>2, <1>3, <1>5 DEF StagingInv, TriggerInv
<1>7. lost \subseteq Signals /\ timeouts \in 0 .. MaxTimeouts
  BY <1>2, StagingAssumption
<1>8. StagingLabels
  BY <1>7, Zenon DEF StagingInit, StagingLabels, Shutters
<1>9. QED
  BY <1>6, <1>8

LEMMA StagedIsRestored ==
    StagingInv /\ StagingLabels /\ TriggerInv => StagingTypeOK /\ UserSettingsKept
<1> SUFFICES ASSUME StagingInv, StagingLabels, TriggerInv PROVE StagingTypeOK /\ UserSettingsKept
  OBVIOUS
<1>1. staged = "no" => originals = <<>>
  <2>1. originals \in Seq(Writes) /\ (staged = "no" => Len(originals) = 0)
    BY DEF StagingInv
  <2>2. QED
    BY <2>1, EmptySequences, Zenon
<1>2. /\ settings \in Settings /\ user \in Settings /\ saved \in Settings
      /\ Len(originals) <= Len(StageSigs) /\ Keeps(settings) /\ (staged = "yes" => SetUp)
  BY Zenon DEF StagingInv, OriginalsFit
<1>3. StagingTypeOK
  BY <1>1, <1>2, Zenon DEF StagingTypeOK, StagingLabels
<1>4. ("image_mode" \notin lost => Kept("image_mode")) /\ (lost = {} => Kept("acquire"))
  BY <1>2 DEF Keeps, Kept, Sure
<1>5. UserSettingsKept
  BY <1>2, <1>4 DEF UserSettingsKept, SetUp, TriggerInv
<1>6. QED
  BY <1>3, <1>5

(* Whatever write times out, in a stage, a warm-up or an unstage, and for any *)
(* number of time-outs: the state is well typed, a detector that is unstaged  *)
(* remembers nothing, a stage signal is as the user set it or remembered so   *)
(* unless a stage wrote it without seeing the readback, the trigger mode is   *)
(* the user's again after every warm-up that did not fail half-way, and a     *)
(* staged Andor is set up for several images.                                 *)
THEOREM UserSettingsComeBack == StagingSpec => [](StagingTypeOK /\ UserSettingsKept)
BY StagedIsRestored, NothingIsStaged, StagingKeeps, StagingKeepsLabels, TriggerKeeps, PTL DEF StagingSpec

-----------------------------------------------------------------------------
(* Discovery *)

Datagrams(queue) == {queue[k] : k \in DOMAIN queue}
Waiting == Datagrams(inbox)

(* An interface that was heard has its entry, or its answer waits in the      *)
(* socket.  Before the deadline there is nothing else in either; after it a   *)
(* single recvfrom may still return.                                          *)
DiscoveryInv ==
    /\ DiscoveryTypeOK
    /\ \A i \in Interfaces : onTheWay[i] <= sent
    /\ heard \subseteq DOMAIN seen \cup Waiting
    /\ ticks < Deadline => DOMAIN seen \cup (Waiting \cap Interfaces) \subseteq heard
    /\ receiving => DOMAIN seen \subseteq heard
    /\ \A i, j \in DOMAIN seen \ heard : i = j

(* What the queue of a socket holds after one datagram has come or gone.      *)
LEMMA QueueOfDatagrams ==
    ASSUME NEW S, NEW queue \in Seq(S)
    PROVE  /\ \A d \in S : /\ Append(queue, d) \in Seq(S)
                           /\ Datagrams(Append(queue, d)) = Datagrams(queue) \cup {d}
           /\ queue # <<>> =>
                 /\ Tail(queue) \in Seq(S) /\ Head(queue) \in S
                 /\ Datagrams(queue) = {Head(queue)} \cup Datagrams(Tail(queue))
<1>1. ASSUME NEW d \in S
      PROVE  /\ Append(queue, d) \in Seq(S)
             /\ Datagrams(Append(queue, d)) = Datagrams(queue) \cup {d}
  <2>1. /\ Append(queue, d) \in Seq(S)
        /\ DOMAIN Append(queue, d) = 1 .. Len(queue) + 1 /\ DOMAIN queue = 1 .. Len(queue)
        /\ Len(queue) \in Nat
    OBVIOUS
  <2>2. \A k \in 1 .. Len(queue) + 1 : Append(queue, d)[k] = IF k = Len(queue) + 1 THEN d ELSE queue[k]
    OBVIOUS
  <2>3. QED
    BY <2>1, <2>2 DEF Datagrams
<1>2. ASSUME queue # <<>>
      PROVE  /\ Tail(queue) \in Seq(S) /\ Head(queue) \in S
             /\ Datagrams(queue) = {Head(queue)} \cup Datagrams(Tail(queue))
  <2>1. /\ Tail(queue) \in Seq(S) /\ Head(queue) \in S /\ Head(queue) = queue[1]
        /\ Len(queue) \in Nat /\ Len(queue) >= 1
        /\ DOMAIN Tail(queue) = 1 .. Len(queue) - 1 /\ DOMAIN queue = 1 .. Len(queue)
    BY <1>2
  <2>2. \A k \in 1 .. Len(queue) - 1 : Tail(queue)[k] = queue[k + 1]
    BY <1>2
  <2>3. \A k \in 1 .. Len(queue) : k = 1 \/ (queue[k] = Tail(queue)[k - 1] /\ k - 1 \in 1 .. Len(queue) - 1)
    <3> TAKE k \in 1 .. Len(queue)
    <3>1. CASE k = 1
      BY <3>1
    <3>2. CASE k # 1
      <4>1. k - 1 \in 1 .. Len(queue) - 1 /\ (k - 1) + 1 = k
        BY <2>1, <3>2
      <4>2. Tail(queue)[k - 1] = queue[(k - 1) + 1]
        BY <2>2, <4>1
      <4>3. QED
        BY <4>1, <4>2
    <3>3. QED
      BY <3>1, <3>2
  <2>4. \A k \in 1 .. Len(queue) - 1 : Tail(queue)[k] = queue[k + 1] /\ k + 1 \in 1 .. Len(queue)
    BY <2>1, <2>2
  <2>5. 1 \in 1 .. Len(queue)
    BY <2>1
  <2>6. Datagrams(queue) \subseteq {Head(queue)} \cup Datagrams(Tail(queue))
    BY <2>1, <2>3 DEF Datagrams
  <2>7. {Head(queue)} \cup Datagrams(Tail(queue)) \subseteq Datagrams(queue)
    BY <2>1, <2>4, <2>5 DEF Datagrams
  <2>8. QED
    BY <2>1, <2>6, <2>7
<1>3. QED
  BY <1>1, <1>2

LEMMA NobodyFoundYet == DiscoveryInit => DiscoveryInv
<1> SUFFICES ASSUME DiscoveryInit PROVE DiscoveryInv
  OBVIOUS
<1>1. \A s : s = <<>> => DOMAIN s = {} /\ s \in Seq(Interfaces \cup Chatter)
  OBVIOUS
<1>2. DOMAIN seen = {} /\ DOMAIN inbox = {} /\ inbox \in Seq(Interfaces \cup Chatter)
  BY <1>1, Zenon DEF DiscoveryInit
<1>3. Waiting = {}
  BY <1>2 DEF Waiting, Datagrams
<1>4. /\ sent = 0 /\ onTheWay = [i \in Interfaces |-> 0] /\ heard = {} /\ ticks = 0
      /\ ended = FALSE /\ receiving = FALSE /\ noise = 0
  BY Zenon DEF DiscoveryInit
<1>5. /\ sent \in 0 .. Broadcasts /\ ticks \in 0 .. Deadline /\ noise \in 0 .. MaxNoise
      /\ onTheWay \in [Interfaces -> 0 .. Broadcasts]
      /\ \A i \in Interfaces : onTheWay[i] <= sent
  BY <1>4, DiscoveryAssumption
<1>6. ended \in BOOLEAN /\ receiving \in BOOLEAN /\ ~receiving
  BY <1>4, Zenon
<1>7. /\ DOMAIN seen \cup (Waiting \cap Interfaces) \subseteq heard
      /\ heard \subseteq DOMAIN seen \cup Waiting /\ \A i, j \in DOMAIN seen \ heard : i = j
  BY <1>2, <1>3, <1>4
<1>8. heard \subseteq Interfaces /\ \A i \in DOMAIN seen : i \in Interfaces /\ seen[i] = CameraOf[i]
  BY <1>2, <1>4
<1>9. QED
  BY <1>2, <1>5, <1>6, <1>7, <1>8, Zenon DEF DiscoveryInv, DiscoveryTypeOK

LEMMA StepKeepsTheHeard == DiscoveryInv /\ [DiscoveryNext]_discoveryVars => DiscoveryInv'
<1> SUFFICES ASSUME DiscoveryInv, [DiscoveryNext]_discoveryVars PROVE DiscoveryInv'
  OBVIOUS
<1> USE DiscoveryAssumption
<1>1. /\ inbox \in Seq(Interfaces \cup Chatter) /\ heard \subseteq Interfaces
      /\ sent \in 0 .. Broadcasts /\ ticks \in 0 .. Deadline
      /\ DOMAIN seen \subseteq Interfaces /\ \A i \in DOMAIN seen : seen[i] = CameraOf[i]
  BY DEF DiscoveryInv, DiscoveryTypeOK
<1>2. CASE SendTo
  BY <1>2 DEF SendTo, DiscoveryInv, DiscoveryTypeOK, Waiting, Datagrams
<1>3. ASSUME NEW i \in Interfaces, Arrive(i) PROVE DiscoveryInv'
  <2>1. inbox' \in Seq(Interfaces \cup Chatter) /\ Waiting' = Waiting \cup {i}
    BY <1>1, <1>3, QueueOfDatagrams DEF Arrive, Waiting, Datagrams
  <2>2. /\ onTheWay' \in [Interfaces -> 0 .. Broadcasts]
        /\ \A j \in Interfaces : onTheWay'[j] <= sent'
    BY <1>1, <1>3 DEF Arrive, DiscoveryInv, DiscoveryTypeOK
  <2>3. heard' \subseteq Interfaces
    BY <1>1, <1>3 DEF Arrive
  <2>4. QED
    BY <1>1, <1>3, <2>1, <2>2, <2>3 DEF Arrive, DiscoveryInv, DiscoveryTypeOK
<1>4. ASSUME NEW datagram \in Chatter, HearNoise(datagram) PROVE DiscoveryInv'
  <2>1. inbox' \in Seq(Interfaces \cup Chatter) /\ Waiting' = Waiting \cup {datagram}
    BY <1>1, <1>4, QueueOfDatagrams DEF HearNoise, Waiting, Datagrams
  <2>2. Waiting' \cap Interfaces = Waiting \cap Interfaces
    BY <2>1
  <2>3. QED
    BY <1>1, <1>4, <2>1, <2>2 DEF HearNoise, DiscoveryInv, DiscoveryTypeOK
<1>5. CASE Recv
  <2>1. /\ inbox' \in Seq(Interfaces \cup Chatter) /\ Head(inbox) \in Interfaces \cup Chatter
        /\ Waiting = {Head(inbox)} \cup Waiting'
    <3>1. inbox # <<>> /\ inbox' = Tail(inbox)
      BY <1>5, Zenon DEF Recv
    <3>2. /\ Tail(inbox) \in Seq(Interfaces \cup Chatter) /\ Head(inbox) \in Interfaces \cup Chatter
          /\ Datagrams(inbox) = {Head(inbox)} \cup Datagrams(Tail(inbox))
      BY <1>1, <3>1, QueueOfDatagrams
    <3>3. Waiting' = Datagrams(Tail(inbox))
      BY <3>1, Zenon DEF Waiting, Datagrams
    <3>4. QED
      BY <3>1, <3>2, <3>3, Zenon DEF Waiting
  <2>2. /\ DOMAIN seen \subseteq heard /\ receiving' = FALSE
        /\ UNCHANGED <<sent, onTheWay, heard, ticks, ended, noise>>
    BY <1>5, Zenon DEF Recv, DiscoveryInv
  <2>3. CASE Head(inbox) \in Chatter
    <3>1. seen' = seen /\ Waiting' \cap Interfaces = Waiting \cap Interfaces
      BY <1>5, <2>1, <2>3 DEF Recv
    <3>2. heard' \subseteq DOMAIN seen' \cup Waiting'
      BY <1>1, <2>1, <2>2, <2>3, <3>1 DEF DiscoveryInv
    <3>3. QED
      BY <1>1, <2>1, <2>2, <3>1, <3>2 DEF DiscoveryInv, DiscoveryTypeOK
  <2>4. CASE Head(inbox) \notin Chatter
    <3>1. /\ DOMAIN seen' = DOMAIN seen \cup {Head(inbox)}
          /\ \A i \in DOMAIN seen' : seen'[i] = CameraOf[i]
      BY <1>1, <1>5, <2>4 DEF Recv, With
    <3>2. \A i, j \in DOMAIN seen' \ heard' : i = j
      BY <2>2, <3>1
    <3>3. ticks < Deadline => Head(inbox) \in heard
      BY <2>1, <2>4 DEF DiscoveryInv
    <3>4. QED
      BY <1>1, <2>1, <2>2, <2>4, <3>1, <3>2, <3>3 DEF DiscoveryInv, DiscoveryTypeOK
  <2>5. QED
    BY <2>3, <2>4
<1>6. CASE RecvTimeOut \/ Listen
  <2>1. UNCHANGED <<sent, onTheWay, inbox, heard, seen, ticks, ended, noise>> /\ receiving' \in BOOLEAN
    BY <1>6, Zenon DEF RecvTimeOut, Listen
  <2>2. receiving' => receiving \/ ticks < Deadline
    BY <1>6, Zenon DEF RecvTimeOut, Listen
  <2>3. Waiting' = Waiting
    BY <2>1 DEF Waiting, Datagrams
  <2>4. QED
    BY <2>1, <2>2, <2>3 DEF DiscoveryInv, DiscoveryTypeOK
<1>7. CASE Tick
  <2>1. /\ UNCHANGED <<sent, onTheWay, inbox, heard, seen, receiving, ended, noise>>
        /\ ticks < Deadline /\ ticks' = ticks + 1
    BY <1>7, Zenon DEF Tick
  <2>2. Waiting' = Waiting /\ ticks' \in 0 .. Deadline
    BY <1>1, <2>1 DEF Waiting, Datagrams
  <2>3. QED
    BY <2>1, <2>2 DEF DiscoveryInv, DiscoveryTypeOK
<1>8. CASE DeadlineOver
  BY <1>8 DEF DeadlineOver, DiscoveryInv, DiscoveryTypeOK, Waiting, Datagrams
<1>9. CASE UNCHANGED discoveryVars
  BY <1>9 DEF discoveryVars, DiscoveryInv, DiscoveryTypeOK, Waiting, Datagrams
<1>10. QED
  BY <1>2, <1>3, <1>4, <1>5, <1>6, <1>7, <1>8, <1>9 DEF DiscoveryNext

LEMMA HeardIsFound == DiscoveryInv => DiscoveryTypeOK /\ FindsWhoAnswers
<1> SUFFICES ASSUME DiscoveryInv PROVE DiscoveryTypeOK /\ FindsWhoAnswers
  OBVIOUS
<1>1. \A i \in heard \ DOMAIN seen : \E k \in DOMAIN inbox : inbox[k] = i
  BY DEF DiscoveryInv, Waiting, Datagrams
<1>2. QED
  BY <1>1 DEF DiscoveryInv, FindsWhoAnswers

(* "Same camera may answer multiple broadcasts": for any number of cameras    *)
(* and interfaces, commands and noise, and however the answers come, repeat   *)
(* or are lost, discover() returns every address that was heard before the    *)
(* deadline, each with its camera, but for answers left unread in the socket, *)
(* and at most one that was heard later.                                      *)
THEOREM EveryAnswerCounts == DiscoverySpec => [](DiscoveryTypeOK /\ FindsWhoAnswers)
BY HeardIsFound, NobodyFoundYet, StepKeepsTheHeard, PTL DEF DiscoverySpec

-----------------------------------------------------------------------------
(* The read-out of a diode *)

LEMMA NothingIsShownYet == WidgetInit => WidgetTypeOK
<1> SUFFICES ASSUME WidgetInit PROVE WidgetTypeOK
  OBVIOUS
<1>1. QED
  BY Zenon, WidgetAssumption DEF WidgetInit, WidgetTypeOK

LEMMA StepShowsUnits == WidgetTypeOK /\ [WidgetNext]_widgetVars => WidgetTypeOK'
<1> SUFFICES ASSUME WidgetTypeOK, [WidgetNext]_widgetVars PROVE WidgetTypeOK'
  OBVIOUS
<1> USE WidgetAssumption
<1>1. CASE ClearItems
  BY <1>1 DEF ClearItems, WidgetTypeOK
<1>2. CASE Refresh
  BY <1>2 DEF Refresh, Update, WidgetTypeOK
<1>3. CASE CloseWidget
  BY <1>3 DEF CloseWidget, WidgetTypeOK
<1>4. ASSUME NEW d \in Devices, SetItem(d) PROVE WidgetTypeOK'
  BY <1>4 DEF SetItem, Update, WidgetTypeOK
<1>5. ASSUME NEW d \in Devices, ConnectionChanges(d) PROVE WidgetTypeOK'
  BY <1>5 DEF ConnectionChanges, WidgetTypeOK
<1>6. CASE UNCHANGED widgetVars
  BY <1>6 DEF widgetVars, WidgetTypeOK
<1>7. QED
  BY <1>1, <1>2, <1>3, <1>4, <1>5, <1>6 DEF WidgetNext

(* Whatever is selected, whatever disconnects and however often the timer     *)
(* fires, a selected device that has a diode is the one that is read, and the *)
(* units are those of what is read.                                           *)
THEOREM UnitsMatchTheValue == WidgetSpec => []WidgetTypeOK
BY NothingIsShownYet, StepShowsUnits, PTL DEF WidgetSpec

-----------------------------------------------------------------------------
(* The parts together *)

EndstationInv ==
    /\ MeantInv /\ ColumnsInv /\ ProcedureInv /\ Ended
    /\ MotorTypeOK /\ StagingInv /\ StagingLabels /\ TriggerInv /\ WidgetTypeOK /\ DiscoveryInv

LEMMA EndstationStarts == Init => EndstationInv
<1> SUFFICES ASSUME Init PROVE EndstationInv
  OBVIOUS
<1>1. /\ FitInit /\ ColumnsInit /\ ProcedureInit /\ MotorInit /\ StagingInit /\ WidgetInit
      /\ DiscoveryInit
  BY DEF Init
<1>2. Ended
  BY <1>1, Zenon DEF ProcedureInit, Ended
<1>3. QED
  BY <1>1, <1>2, NoVerdictYet, NoRunYet, ProcedureStarts, MotorStarts, NothingIsStaged,
     NothingIsShownYet, NobodyFoundYet, Zenon DEF EndstationInv

(* A step of the endstation is a step of each part or leaves it alone.        *)
LEMMA PartsTakeTheirSteps ==
    [Next]_vars =>
        /\ [FitNext]_fitVars /\ [ColumnsNext]_columnsVars /\ [ProcedureNext]_procedureVars
        /\ [MotorNext]_motorVars /\ [StagingNext]_stagingVars /\ [WidgetNext]_widgetVars
        /\ [DiscoveryNext]_discoveryVars
<1> SUFFICES ASSUME [Next]_vars
             PROVE  /\ [FitNext]_fitVars /\ [ColumnsNext]_columnsVars /\ [ProcedureNext]_procedureVars
                    /\ [MotorNext]_motorVars /\ [StagingNext]_stagingVars /\ [WidgetNext]_widgetVars
                    /\ [DiscoveryNext]_discoveryVars
  OBVIOUS
<1>1. CASE Next
  BY <1>1, Zenon DEF Next, FollowFit, FollowColumns, FollowProcedure, FollowMotor, FollowStaging,
                     FollowWidget, FollowDiscovery
<1>2. CASE UNCHANGED vars
  BY <1>2, Zenon DEF vars
<1>3. QED
  BY <1>1, <1>2

LEMMA EndstationKeeps == EndstationInv /\ [Next]_vars => EndstationInv'
<1> SUFFICES ASSUME EndstationInv, [Next]_vars PROVE EndstationInv'
  OBVIOUS
<1>1. /\ [FitNext]_fitVars /\ [ColumnsNext]_columnsVars /\ [ProcedureNext]_procedureVars
      /\ [MotorNext]_motorVars /\ [StagingNext]_stagingVars /\ [WidgetNext]_widgetVars
      /\ [DiscoveryNext]_discoveryVars
  BY PartsTakeTheirSteps, Zenon
<1>2. /\ MeantInv /\ ColumnsInv /\ ProcedureInv /\ Ended
      /\ MotorTypeOK /\ StagingInv /\ StagingLabels /\ TriggerInv /\ WidgetTypeOK /\ DiscoveryInv
  BY Zenon DEF EndstationInv
<1>3. MeantInv' /\ ColumnsInv'
  BY <1>1, <1>2, StepIsMeant, StepReadsColumns, Zenon
<1>4. ProcedureInv' /\ Ended'
  BY <1>1, <1>2, ProcedureKeepsTypes, StepKeepsEnd, Zenon
<1>5. MotorTypeOK' /\ WidgetTypeOK' /\ DiscoveryInv'
  BY <1>1, <1>2, MotorKeepsTypes, StepShowsUnits, StepKeepsTheHeard, Zenon
<1>6. StagingInv' /\ StagingLabels' /\ TriggerInv'
  BY <1>1, <1>2, StagingKeeps, StagingKeepsLabels, TriggerKeeps, Zenon
<1>7. QED
  BY <1>3, <1>4, <1>5, <1>6, Zenon DEF EndstationInv

(* Whichever part goes on, and whatever happens to it, every part is typed.   *)
THEOREM PartsAreTyped == Spec => []PartsTypeOK
<1>1. EndstationInv => PartsTypeOK
  BY MeantIsTyped, ReadColumnsAreTyped, StagedIsRestored, HeardIsFound, Zenon
     DEF EndstationInv, PartsTypeOK, ProcedureInv
<1>2. QED
  BY <1>1, EndstationStarts, EndstationKeeps, PTL DEF Spec

(* What is promised of each part by itself is promised of the endstation: of  *)
(* its fits, of the columns they are made of, of the procedure that follows   *)
(* them, of the detectors' settings and of the cameras found.                 *)
THEOREM PartsKeepTheirPromises ==
    Spec => [](/\ PositionIsMeant /\ SlopeIsNoPeak /\ ToolsReadTheScan /\ ConvergedMeansStable
               /\ UserSettingsKept /\ FindsWhoAnswers)
<1>1. EndstationInv => /\ PositionIsMeant /\ SlopeIsNoPeak /\ ToolsReadTheScan
                       /\ ConvergedMeansStable /\ UserSettingsKept /\ FindsWhoAnswers
  BY MeantIsTyped, ToolsReadRight, ConvergedIsStable, StagedIsRestored, HeardIsFound, Zenon
     DEF EndstationInv, MeantInv, FitInv
<1>2. QED
  BY <1>1, EndstationStarts, EndstationKeeps, PTL DEF Spec
=============================================================================
