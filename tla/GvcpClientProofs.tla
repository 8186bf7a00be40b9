-------------------------- MODULE GvcpClientProofs --------------------------
(***************************************************************************)
(* Proofs about GvcpClient, for any callers, values, number of retries and *)
(* behaviour of the network: type correctness with the exclusive use of    *)
(* the socket, and that the result of a call is about that call.  Over a   *)
(* network that keeps datagrams in order, also that a write that returned  *)
(* is not undone by what is left of earlier calls.                         *)
(***************************************************************************)
EXTENDS GvcpClient, TLAPS

UsesSocket(c) == pc[c] \in {"send", "recv"}

(* A caller in a call has no result of it yet, its id is no other running   *)
(* call's, and it has an attempt left when it is about to send.             *)
RunningCalls ==
    /\ \A c \in Callers : Running(c) => result[c] = Pending
    /\ \A c \in Callers : pc[c] = "send" => tries[c] <= Retries
    /\ \A c, d \in Callers :
          Running(c) /\ Running(d) /\ c # d => call[c].id # call[d].id

(* A request with a running call's id is that call's request.               *)
RequestsAreOwn ==
    \A c \in Callers : \A q \in toDevice :
       Running(c) /\ q.id = call[c].id => UsesSocket(c) /\ q = call[c]

(* An acknowledgement with a running call's id tells the truth about it.    *)
AcksAreTrue ==
    \A c \in Callers : \A a \in toHost :
       Running(c) /\ a.id = call[c].id
         => /\ UsesSocket(c)
            /\ a.status = 0 /\ IsWrite(call[c]) => call[c].num \in applied
            /\ a.status = 0 /\ ~IsWrite(call[c]) => a.value \in held[c]

IInv == /\ TypeOK
        /\ RunningCalls
        /\ RequestsAreOwn
        /\ AcksAreTrue
        /\ ReadsAreCurrent
        /\ WritesAreApplied

-----------------------------------------------------------------------------
LEMMA InitEstablishes == Init => IInv
<1> USE ClientAssumption
<1> SUFFICES ASSUME Init PROVE IInv
  OBVIOUS
<1>1. TypeOK
  <2>1. NoCall \in Requests
    BY DEF NoCall, Requests, Ids, AckValue
  <2>2. Pending \in [outcome : Outcomes, value : AckValue]
    BY DEF Pending, Outcomes, AckValue
  <2>3. 0 \in 0 .. (Retries + 1) /\ 0 \in 0 .. MaxDups /\ 1 \in 1 .. NumIds
    OBVIOUS
  <2>4. \A c \in Callers : pc[c] = "idle" /\ lock # c
    BY DEF Init
  <2>5. QED BY <2>1, <2>2, <2>3, <2>4 DEF Init, TypeOK
<1>2. /\ RunningCalls /\ RequestsAreOwn /\ AcksAreTrue
      /\ ReadsAreCurrent /\ WritesAreApplied
  BY DEF Init, RunningCalls, RequestsAreOwn, AcksAreTrue, ReadsAreCurrent, WritesAreApplied,
         Succeeded, Running, Pending
<1>3. QED BY <1>1, <1>2 DEF IInv

(* A call that begins takes an id nobody uses.                              *)
LEMMA InvokePreserves ==
  ASSUME IInv, NEW c \in Callers, NEW v \in Values \cup {None}, Invoke(c, v)
  PROVE  IInv'
<1> USE ClientAssumption
<1> DEFINE new == [id |-> req_ids, value |-> v, num |-> 0]
<1>1. /\ call' = [call EXCEPT ![c] = new]
      /\ pc' = [pc EXCEPT ![c] = "lock"]
      /\ result' = [result EXCEPT ![c] = Pending]
      /\ held' = [held EXCEPT ![c] = {reg}]
      /\ pc[c] = "idle"
      /\ UNCHANGED <<lock, closed, tries, toDevice, toHost, reg, dups, calls, applied, settled>>
      /\ req_ids' = NextReqId
  BY DEF Invoke, network
<1>2. TypeOK'
  <2>1. req_ids' \in 1 .. NumIds
    BY <1>1 DEF NextReqId, IInv, TypeOK
  <2>2. new \in Requests
    BY DEF Requests, Ids, AckValue, IInv, TypeOK
  <2>3. Pending \in [outcome : Outcomes, value : AckValue]
    BY DEF Pending, Outcomes, AckValue
  <2>4. QED BY <1>1, <2>1, <2>2, <2>3 DEF IInv, TypeOK
<1>3. /\ \A d \in Callers : d # c => /\ pc'[d] = pc[d] /\ call'[d] = call[d]
                                     /\ result'[d] = result[d] /\ held'[d] = held[d]
      /\ pc'[c] = "lock" /\ call'[c] = new /\ result'[c] = Pending
  BY <1>1 DEF IInv, TypeOK
<1>4. /\ \A m \in toDevice \cup toHost : m.id # req_ids
      /\ \A d \in Callers : Running(d) => call[d].id # req_ids
  BY DEF Invoke, IdIsFresh
<1>5. RunningCalls'
  BY <1>1, <1>3, <1>4 DEF IInv, RunningCalls, Running
<1>6. RequestsAreOwn' /\ AcksAreTrue'
  BY <1>1, <1>3, <1>4 DEF IInv, RequestsAreOwn, AcksAreTrue, Running, UsesSocket, IsWrite
<1>7. ReadsAreCurrent' /\ WritesAreApplied'
  BY <1>1, <1>3 DEF IInv, ReadsAreCurrent, WritesAreApplied, Succeeded, IsWrite, Pending
<1>8. QED BY <1>2, <1>5, <1>6, <1>7 DEF IInv

(* A call that waits for the lock has no datagram on its way, so its number *)
(* may still change.                                                        *)
LEMMA AcquirePreserves ==
  ASSUME IInv, NEW c \in Callers, Acquire(c)
  PROVE  IInv'
<1> USE ClientAssumption
<1>1. /\ call[c] \in Requests
      /\ call' = [call EXCEPT ![c].num = calls + 1]
      /\ UNCHANGED <<req_ids, closed, result, toDevice, toHost, reg, dups, held, applied, settled>>
      /\ pc' = [pc EXCEPT ![c] = "send"]
      /\ tries' = [tries EXCEPT ![c] = 0]
      /\ pc[c] = "lock" /\ lock = None /\ lock' = c /\ calls' = calls + 1
  BY DEF Acquire, network, IInv, TypeOK
<1>2. /\ \A d \in Callers : d # c => /\ pc'[d] = pc[d] /\ call'[d] = call[d]
                                     /\ tries'[d] = tries[d]
      /\ pc'[c] = "send" /\ call'[c].id = call[c].id /\ call'[c].value = call[c].value
      /\ tries'[c] = 0
      /\ call'[c] \in Requests
  BY <1>1 DEF IInv, TypeOK, Requests
<1>3. TypeOK'
  <2>1. call' \in [Callers -> Requests]
    BY <1>1, <1>2 DEF IInv, TypeOK
  <2>2. tries' \in [Callers -> 0 .. (Retries + 1)]
    BY <1>1 DEF IInv, TypeOK
  <2>3. \A d \in Callers : pc'[d] \in {"send", "recv"} <=> lock' = d
    BY <1>1, <1>2 DEF IInv, TypeOK
  <2>4. pc' \in [Callers -> {"idle", "lock", "send", "recv"}] /\ calls' \in Nat
    BY <1>1 DEF IInv, TypeOK
  <2>5. QED BY <1>1, <2>1, <2>2, <2>3, <2>4 DEF IInv, TypeOK
<1>4. RunningCalls'
  BY <1>1, <1>2 DEF IInv, RunningCalls, Running
<1>5. RequestsAreOwn' /\ AcksAreTrue'
  BY <1>1, <1>2 DEF IInv, RequestsAreOwn, AcksAreTrue, Running, UsesSocket, IsWrite
<1>6. ReadsAreCurrent' /\ WritesAreApplied'
  BY <1>1, <1>2 DEF IInv, RunningCalls, ReadsAreCurrent, WritesAreApplied, Succeeded,
     IsWrite, Running, Pending
<1>7. QED BY <1>3, <1>4, <1>5, <1>6 DEF IInv

LEMMA SendPreserves ==
  ASSUME IInv, NEW c \in Callers, Send(c)
  PROVE  IInv'
<1> USE ClientAssumption
<1>1. /\ UNCHANGED <<req_ids, lock, closed, call, result, toHost, reg, dups, calls, held, applied>>
      /\ toDevice' = toDevice \cup {call[c]}
      /\ pc' = [pc EXCEPT ![c] = "recv"]
      /\ tries' = [tries EXCEPT ![c] = @ + 1]
      /\ pc[c] = "send"
      /\ call[c] \in Requests
      /\ tries[c] <= Retries
      /\ settled' \in {None, settled}
  BY DEF Send, IInv, TypeOK, RunningCalls
<1>2. /\ \A d \in Callers : d # c => pc'[d] = pc[d] /\ tries'[d] = tries[d]
      /\ pc'[c] = "recv"
  BY <1>1 DEF IInv, TypeOK
<1>3. TypeOK'
  <2>1. tries' \in [Callers -> 0 .. (Retries + 1)]
    BY <1>1 DEF IInv, TypeOK
  <2>2. \A d \in Callers : pc'[d] \in {"send", "recv"} <=> lock' = d
    BY <1>1, <1>2 DEF IInv, TypeOK
  <2>3. QED BY <1>1, <2>1, <2>2 DEF IInv, TypeOK
<1>4. RunningCalls'
  BY <1>1, <1>2 DEF IInv, RunningCalls, Running
<1>5. RequestsAreOwn' /\ AcksAreTrue'
  BY <1>1, <1>2
  DEF IInv, RunningCalls, RequestsAreOwn, AcksAreTrue, Running, UsesSocket, IsWrite
<1>6. ReadsAreCurrent' /\ WritesAreApplied'
  BY <1>1 DEF IInv, ReadsAreCurrent, WritesAreApplied, Succeeded, IsWrite
<1>7. QED BY <1>3, <1>4, <1>5, <1>6 DEF IInv

-----------------------------------------------------------------------------
(* However a call ends: it was the one that used the socket, what the       *)
(* channels carry was on its way before, and a success is a true one.       *)
LEMMA FinishPreserves ==
  ASSUME IInv, NEW c \in Callers, NEW r \in [outcome : Outcomes, value : AckValue],
         UsesSocket(c), Finish(c, r),
         toDevice' \subseteq toDevice, toHost' \subseteq toHost,
         dups' \in 0 .. MaxDups, settled' \in Values \cup {None},
         r.outcome = "ok" /\ IsWrite(call[c]) => call[c].num \in applied,
         r.outcome = "ok" /\ ~IsWrite(call[c]) => r.value \in held[c]
  PROVE  IInv'
<1> USE ClientAssumption
<1>1. /\ UNCHANGED <<req_ids, closed, call, tries, reg, calls, held, applied>>
      /\ result' = [result EXCEPT ![c] = r]
      /\ pc' = [pc EXCEPT ![c] = "idle"]
      /\ lock' = None
  BY DEF Finish
<1>2. /\ \A d \in Callers : d # c => pc'[d] = pc[d] /\ result'[d] = result[d]
      /\ pc'[c] = "idle" /\ result'[c] = r
  BY <1>1 DEF IInv, TypeOK
<1>3. TypeOK'
  <2>1. \A d \in Callers : pc'[d] \in {"send", "recv"} <=> lock' = d
    BY <1>1, <1>2 DEF IInv, TypeOK, UsesSocket
  <2>2. /\ result' \in [Callers -> [outcome : Outcomes, value : AckValue]]
        /\ pc' \in [Callers -> {"idle", "lock", "send", "recv"}]
    BY <1>1 DEF IInv, TypeOK
  <2>3. QED BY <1>1, <2>1, <2>2 DEF IInv, TypeOK
<1>4. RunningCalls'
  BY <1>1, <1>2 DEF IInv, RunningCalls, Running
<1>5. RequestsAreOwn' /\ AcksAreTrue'
  BY <1>1, <1>2 DEF IInv, RequestsAreOwn, AcksAreTrue, Running, UsesSocket, IsWrite
<1>6. ReadsAreCurrent' /\ WritesAreApplied'
  BY <1>1, <1>2 DEF IInv, ReadsAreCurrent, WritesAreApplied, Succeeded, IsWrite
<1>7. QED BY <1>3, <1>4, <1>5, <1>6 DEF IInv

(* A step that lets no caller move and puts nothing new in the channels.    *)
LEMMA QuietPreserves ==
  ASSUME IInv,
         UNCHANGED <<req_ids, lock, pc, call, tries, result, reg, calls, held, applied, settled>>,
         toDevice' \subseteq toDevice, toHost' \subseteq toHost,
         dups' \in 0 .. MaxDups, closed' \in BOOLEAN
  PROVE  IInv'
<1>1. TypeOK'
  BY DEF IInv, TypeOK
<1>2. RunningCalls' /\ RequestsAreOwn' /\ AcksAreTrue'
  BY DEF IInv, RunningCalls, RequestsAreOwn, AcksAreTrue, Running, UsesSocket, IsWrite
<1>3. ReadsAreCurrent' /\ WritesAreApplied'
  BY DEF IInv, ReadsAreCurrent, WritesAreApplied, Succeeded, IsWrite
<1>4. QED BY <1>1, <1>2, <1>3 DEF IInv

LEMMA TimeoutPreserves ==
  ASSUME IInv, NEW c \in Callers, Timeout(c)
  PROVE  IInv'
<1>1. /\ UNCHANGED <<req_ids, lock, closed, call, tries, result, toDevice, toHost, reg, dups,
                     calls, held, applied, settled>>
      /\ pc' = [pc EXCEPT ![c] = "send"]
      /\ pc[c] = "recv" /\ tries[c] <= Retries
  BY DEF Timeout, network, history
<1>2. /\ \A d \in Callers : d # c => pc'[d] = pc[d]
      /\ pc'[c] = "send"
  BY <1>1 DEF IInv, TypeOK
<1>3. TypeOK'
  <2>1. \A d \in Callers : pc'[d] \in {"send", "recv"} <=> lock' = d
    BY <1>1, <1>2 DEF IInv, TypeOK
  <2>2. QED BY <1>1, <2>1 DEF IInv, TypeOK
<1>4. RunningCalls'
  BY <1>1, <1>2 DEF IInv, RunningCalls, Running
<1>5. RequestsAreOwn' /\ AcksAreTrue'
  BY <1>1, <1>2 DEF IInv, RequestsAreOwn, AcksAreTrue, Running, UsesSocket, IsWrite
<1>6. ReadsAreCurrent' /\ WritesAreApplied'
  BY <1>1 DEF IInv, ReadsAreCurrent, WritesAreApplied, Succeeded, IsWrite
<1>7. QED BY <1>3, <1>4, <1>5, <1>6 DEF IInv

(* What a receiver takes from its channel was in it, and repeats are counted. *)
LEMMA ReceiveTakes ==
  ASSUME IInv, NEW c \in Callers, NEW a \in toHost, Receive(c, a)
  PROVE  /\ pc[c] = "recv" /\ toDevice' = toDevice /\ toHost' \subseteq toHost
         /\ dups' \in 0 .. MaxDups
BY ClientAssumption DEF Receive, Left, IInv, TypeOK

LEMMA RecvAckPreserves ==
  ASSUME IInv, NEW c \in Callers, NEW a \in toHost, RecvAck(c, a)
  PROVE  IInv'
<1> DEFINE r == IF a.status = 0 THEN Success(a.value) ELSE Failure("GvcpError")
<1>1. /\ Receive(c, a) /\ Finish(c, r) /\ a.id = call[c].id
      /\ settled' \in {settled, call[c].value}
  BY DEF RecvAck, IsForeign
<1>2. /\ pc[c] = "recv" /\ toDevice' = toDevice /\ toHost' \subseteq toHost
      /\ dups' \in 0 .. MaxDups
  BY <1>1, ReceiveTakes
<1>3. r \in [outcome : Outcomes, value : AckValue]
  BY DEF IInv, TypeOK, Acks, AckValue, Outcomes, Success, Failure
<1>4. settled' \in Values \cup {None}
  BY <1>1 DEF IInv, TypeOK, Requests, AckValue
<1>5. UsesSocket(c) /\ Running(c)
  BY <1>2 DEF UsesSocket, Running
<1>6. r.outcome = "ok" => a.status = 0 /\ r.value = a.value
  BY DEF Success, Failure
<1>7. /\ r.outcome = "ok" /\ IsWrite(call[c]) => call[c].num \in applied
      /\ r.outcome = "ok" /\ ~IsWrite(call[c]) => r.value \in held[c]
  BY <1>1, <1>5, <1>6 DEF IInv, AcksAreTrue
<1> HIDE DEF r
<1>8. QED BY <1>1, <1>2, <1>3, <1>4, <1>5, <1>7, FinishPreserves

(* The ways a call ends in an exception without an acknowledgement.         *)
LEMMA FailurePreserves ==
  ASSUME IInv, NEW c \in Callers, RecvShort(c) \/ GiveUp(c) \/ RaiseClosed(c)
  PROVE  IInv'
<1>1. PICK e \in {"ValueError", "TimeoutError", "OSError"} :
         Finish(c, Failure(e)) /\ UNCHANGED <<network, dups, settled>>
  BY DEF RecvShort, GiveUp, RaiseClosed
<1>2. UsesSocket(c)
  BY DEF RecvShort, GiveUp, RaiseClosed, UsesSocket
<1>3. Failure(e) \in [outcome : Outcomes, value : AckValue] /\ Failure(e).outcome # "ok"
  BY DEF Failure, Outcomes, AckValue
<1>4. /\ toDevice' \subseteq toDevice /\ toHost' \subseteq toHost
      /\ dups' \in 0 .. MaxDups /\ settled' \in Values \cup {None}
  BY <1>1 DEF network, IInv, TypeOK
<1>5. QED BY <1>1, <1>2, <1>3, <1>4, FinishPreserves

(* The device answers a running call only while that call uses the socket,  *)
(* and what it answers is what it has just done.                            *)
LEMMA ExecutePreserves ==
  ASSUME IInv, NEW q \in toDevice, NEW accepted \in BOOLEAN, Execute(q, accepted)
  PROVE  IInv'
<1> USE ClientAssumption
<1>1. /\ UNCHANGED <<req_ids, lock, closed, pc, call, tries, result, calls, settled>>
      /\ toDevice' \subseteq toDevice /\ dups' \in 0 .. MaxDups
      /\ toHost' \subseteq toHost \cup {Ack(q, accepted)}
      /\ reg' = IF accepted /\ IsWrite(q) THEN q.value ELSE reg
      /\ applied' = IF accepted /\ IsWrite(q) THEN applied \cup {q.num} ELSE applied
      /\ q \in Requests
  BY DEF Execute, Left, IInv, TypeOK
<1>2. held' = [d \in Callers |-> IF Running(d) THEN held[d] \cup {reg'} ELSE held[d]]
  BY DEF Execute
<1>3. Ack(q, accepted) \in Acks /\ reg' \in Values /\ applied' \subseteq Nat
  BY <1>1 DEF Ack, Acks, Requests, AckValue, IsWrite, IInv, TypeOK
<1>4. \A d \in Callers : /\ held[d] \subseteq held'[d]
                         /\ Running(d) => reg' \in held'[d]
                         /\ ~Running(d) => held'[d] = held[d]
  BY <1>2
<1>5. TypeOK'
  <2>1. held' \in [Callers -> SUBSET Values]
    BY <1>2, <1>3 DEF IInv, TypeOK
  <2>2. QED BY <1>1, <1>3, <2>1 DEF IInv, TypeOK
<1>6. RunningCalls' /\ RequestsAreOwn'
  BY <1>1 DEF IInv, RunningCalls, RequestsAreOwn, Running, UsesSocket
<1>7. AcksAreTrue'
  <2> SUFFICES ASSUME NEW d \in Callers, NEW a \in toHost', Running(d), a.id = call[d].id
               PROVE  /\ UsesSocket(d)
                      /\ a.status = 0 /\ IsWrite(call[d]) => call[d].num \in applied'
                      /\ a.status = 0 /\ ~IsWrite(call[d]) => a.value \in held'[d]
    BY <1>1 DEF AcksAreTrue, Running, UsesSocket, IsWrite
  <2>1. CASE a \in toHost
    BY <1>1, <1>4, <2>1 DEF IInv, AcksAreTrue
  <2>2. CASE a = Ack(q, accepted)
    <3>1. UsesSocket(d) /\ q = call[d]
      BY <2>2 DEF Ack, IInv, RequestsAreOwn
    <3>2. a.status = 0 => accepted
      BY <2>2 DEF Ack
    <3>3. a.status = 0 /\ IsWrite(call[d]) => call[d].num \in applied'
      BY <1>1, <3>1, <3>2
    <3>4. a.status = 0 /\ ~IsWrite(call[d]) => a.value = reg'
      BY <1>1, <2>2, <3>1, <3>2 DEF Ack
    <3>5. QED BY <1>4, <3>1, <3>3, <3>4
  <2>3. QED BY <1>1, <2>1, <2>2
<1>8. ReadsAreCurrent' /\ WritesAreApplied'
  BY <1>1, <1>4 DEF IInv, ReadsAreCurrent, WritesAreApplied, Succeeded, IsWrite
<1>9. QED BY <1>5, <1>6, <1>7, <1>8 DEF IInv

-----------------------------------------------------------------------------
LEMMA NextPreserves == IInv /\ [Next]_vars => IInv'
<1> SUFFICES ASSUME IInv, [Next]_vars PROVE IInv'
  OBVIOUS
<1>1. ASSUME NEW c \in Callers, Step(c) PROVE IInv'
  <2>1. CASE Acquire(c)
    BY <2>1, AcquirePreserves
  <2>2. CASE Send(c)
    BY <2>2, SendPreserves
  <2>3. CASE AnswerArrives(c)
    <3>1. PICK a \in toHost : RecvForeign(c, a) \/ RecvAck(c, a)
      BY <2>3 DEF AnswerArrives
    <3>2. CASE RecvForeign(c, a)
      <4>1. Receive(c, a) /\ UNCHANGED <<req_ids, lock, closed, pc, call, tries, result,
                                         reg, history>>
        BY <3>2 DEF RecvForeign
      <4>2. toDevice' = toDevice /\ toHost' \subseteq toHost /\ dups' \in 0 .. MaxDups
        BY <4>1, ReceiveTakes
      <4>3. closed' \in BOOLEAN
        BY <4>1 DEF IInv, TypeOK
      <4>4. QED BY <4>1, <4>2, <4>3, QuietPreserves DEF history
    <3>3. CASE RecvAck(c, a)
      BY <3>3, RecvAckPreserves
    <3>4. QED BY <3>1, <3>2, <3>3
  <2>4. CASE RecvShort(c) \/ GiveUp(c) \/ RaiseClosed(c)
    BY <2>4, FailurePreserves
  <2>5. CASE Timeout(c)
    BY <2>5, TimeoutPreserves
  <2>6. QED BY <1>1, <2>1, <2>2, <2>3, <2>4, <2>5 DEF Step
<1>2. ASSUME NEW c \in Callers, NEW v \in Values \cup {None}, Invoke(c, v) PROVE IInv'
  BY <1>2, InvokePreserves
<1>3. CASE close \/ Lose \/ UNCHANGED vars
  <2>1. /\ UNCHANGED <<req_ids, lock, pc, call, tries, result, reg, calls, held, applied, settled>>
        /\ toDevice' \subseteq toDevice /\ toHost' \subseteq toHost /\ dups' = dups
        /\ closed' \in {closed, TRUE}
    BY <1>3 DEF close, Lose, vars, network, history
  <2>2. dups' \in 0 .. MaxDups /\ closed' \in BOOLEAN
    BY <2>1 DEF IInv, TypeOK
  <2>3. QED BY <2>1, <2>2, QuietPreserves
<1>4. ASSUME NEW q \in toDevice, NEW accepted \in BOOLEAN, Execute(q, accepted) PROVE IInv'
  BY <1>4, ExecutePreserves
<1>5. QED BY <1>1, <1>2, <1>3, <1>4 DEF Next

(* IInv holds in every state of every behaviour.                            *)
THEOREM InductiveInvariant == Spec => []IInv
<1>1. Init => IInv
  BY InitEstablishes
<1>2. IInv /\ [Next]_vars => IInv'
  BY NextPreserves
<1>3. QED BY <1>1, <1>2, PTL DEF Spec

(* The state keeps its types, and the socket is used only by the caller that *)
(* holds the lock.                                                          *)
THEOREM TypeCorrect == Spec => []TypeOK
<1>1. IInv => TypeOK
  BY DEF IInv
<1>2. QED BY <1>1, InductiveInvariant, PTL

(* A read returns a value the register had during the call, whatever is     *)
(* lost, repeated, delayed or reordered.                                    *)
THEOREM ReadsReturnCurrentValues == Spec => []ReadsAreCurrent
<1>1. IInv => ReadsAreCurrent
  BY DEF IInv
<1>2. QED BY <1>1, InductiveInvariant, PTL

(* A write that returns has been performed by the device.                   *)
THEOREM WritesThatReturnAreApplied == Spec => []WritesAreApplied
<1>1. IInv => WritesAreApplied
  BY DEF IInv
<1>2. QED BY <1>1, InductiveInvariant, PTL
-----------------------------------------------------------------------------
(* What keeps a write that returned in the register, when the network does  *)
(* not reorder datagrams.                                                   *)

(* The call that has the lock is the last one, and what is on its way to    *)
(* the device is that call's request or an earlier one's.                   *)
LastCall ==
    /\ \A q \in toDevice : q.num <= calls
    /\ \A c \in Callers : UsesSocket(c) =>
          /\ call[c].num = calls
          /\ \A q \in toDevice : q.num = calls => q = call[c]

(* Once the device has acknowledged the write of the running call, all the  *)
(* earlier calls' requests are gone.                                        *)
AckedWriteHolds ==
    \A c \in Callers : \A a \in toHost :
       UsesSocket(c) /\ a.id = call[c].id /\ a.status = 0 /\ IsWrite(call[c])
         => /\ reg = call[c].value
            /\ \A q \in toDevice : q = call[c]

(* Nothing left on its way to the device writes another value.              *)
SettledHolds ==
    settled # None =>
       /\ reg = settled
       /\ \A q \in toDevice : IsWrite(q) => q.value = settled

OrderInv == LastCall /\ AckedWriteHolds /\ SettledHolds

LEMMA InitInOrder == Init => OrderInv
BY DEF Init, OrderInv, LastCall, AckedWriteHolds, SettledHolds, UsesSocket

LEMMA InvokeKeepsOrder ==
  ASSUME IInv, OrderInv, NEW c \in Callers, NEW v \in Values \cup {None}, Invoke(c, v)
  PROVE  OrderInv'
<1>1. /\ \A d \in Callers : UsesSocket(d)' => UsesSocket(d) /\ call'[d] = call[d]
      /\ UNCHANGED <<toDevice, toHost, reg, calls, settled>>
  BY DEF Invoke, UsesSocket, network, IInv, TypeOK
<1>2. QED BY <1>1 DEF OrderInv, LastCall, AckedWriteHolds, SettledHolds, IsWrite

(* The new call has a number no datagram carries.                           *)
LEMMA AcquireKeepsOrder ==
  ASSUME IInv, OrderInv, NEW c \in Callers, Acquire(c)
  PROVE  OrderInv'
<1>1. /\ UNCHANGED <<toDevice, toHost, reg, settled>>
      /\ calls \in Nat /\ calls' = calls + 1
      /\ toDevice \subseteq Requests
      /\ call[c] \in Requests
      /\ call'[c] = [call[c] EXCEPT !.num = calls + 1]
      /\ pc[c] = "lock"
  BY DEF Acquire, network, IInv, TypeOK
<1>0. \A d \in Callers : UsesSocket(d)' => d = c
  <2>1. \A d \in Callers : d # c => pc'[d] = pc[d]
    BY DEF Acquire, IInv, TypeOK
  <2>2. \A d \in Callers : pc[d] \notin {"send", "recv"}
    BY ClientAssumption DEF Acquire, IInv, TypeOK
  <2>3. QED BY <2>1, <2>2 DEF UsesSocket
<1>2. call'[c].num = calls + 1 /\ call'[c].id = call[c].id
  BY <1>1 DEF Requests
<1>3. \A q \in toDevice : q.num \in Nat /\ q.num <= calls
  BY <1>1 DEF OrderInv, LastCall, Requests
<1>4. \A q \in toDevice : q.num <= calls' /\ q.num # calls'
  BY <1>1, <1>3
<1>5. LastCall'
  BY <1>1, <1>0, <1>2, <1>4 DEF LastCall
<1>6. \A a \in toHost : a.id # call[c].id
  BY <1>1 DEF IInv, AcksAreTrue, Running, UsesSocket
<1>7. AckedWriteHolds'
  BY <1>1, <1>0, <1>2, <1>6 DEF AckedWriteHolds
<1>8. SettledHolds'
  BY <1>1 DEF OrderInv, SettledHolds, IsWrite
<1>9. QED BY <1>5, <1>7, <1>8 DEF OrderInv

LEMMA SendKeepsOrder ==
  ASSUME IInv, OrderInv, NEW c \in Callers, Send(c)
  PROVE  OrderInv'
<1>1. /\ UNCHANGED <<call, toHost, reg, calls>>
      /\ toDevice' = toDevice \cup {call[c]}
      /\ settled' = IF IsWrite(call[c]) THEN None ELSE settled
      /\ UsesSocket(c)
      /\ \A d \in Callers : UsesSocket(d)' => d = c
      /\ call[c].num = calls
      /\ calls \in Nat
  BY DEF Send, UsesSocket, IInv, TypeOK, OrderInv, LastCall
<1>2. LastCall'
  BY <1>1 DEF OrderInv, LastCall
<1>3. AckedWriteHolds'
  BY <1>1 DEF OrderInv, AckedWriteHolds, IsWrite
<1>4. SettledHolds'
  BY <1>1 DEF OrderInv, SettledHolds, IsWrite
<1>5. QED BY <1>2, <1>3, <1>4 DEF OrderInv

(* A step that starts no call, puts nothing new in the channels and changes *)
(* neither the register nor what is settled.                                *)
LEMMA QuietKeepsOrder ==
  ASSUME OrderInv,
         \A c \in Callers : UsesSocket(c)' => UsesSocket(c),
         UNCHANGED <<call, reg, calls, settled>>,
         toDevice' \subseteq toDevice, toHost' \subseteq toHost
  PROVE  OrderInv'
BY DEF OrderInv, LastCall, AckedWriteHolds, SettledHolds, IsWrite

(* A write that returns finds the register and all requests its own.        *)
LEMMA RecvAckKeepsOrder ==
  ASSUME IInv, OrderInv, NEW c \in Callers, NEW a \in toHost, RecvAck(c, a)
  PROVE  OrderInv'
<1>1. /\ UNCHANGED <<call, reg, calls>>
      /\ a.id = call[c].id
      /\ settled' = IF a.status = 0 /\ IsWrite(call[c]) THEN call[c].value ELSE settled
      /\ \A d \in Callers : UsesSocket(d)' => UsesSocket(d)
  BY DEF RecvAck, Finish, IsForeign, UsesSocket, IInv, TypeOK
<1>2. UsesSocket(c) /\ toDevice' \subseteq toDevice /\ toHost' \subseteq toHost
  BY ReceiveTakes DEF RecvAck, UsesSocket
<1>3. LastCall' /\ AckedWriteHolds'
  BY <1>1, <1>2 DEF OrderInv, LastCall, AckedWriteHolds, IsWrite
<1>4. CASE a.status = 0 /\ IsWrite(call[c])
  <2>1. reg = call[c].value /\ \A q \in toDevice : q = call[c]
    BY <1>1, <1>2, <1>4 DEF OrderInv, AckedWriteHolds
  <2>2. SettledHolds'
    BY <1>1, <1>2, <1>4, <2>1 DEF SettledHolds, IsWrite
  <2>3. QED BY <1>3, <2>2 DEF OrderInv
<1>5. CASE ~(a.status = 0 /\ IsWrite(call[c]))
  <2>1. SettledHolds'
    BY <1>1, <1>2, <1>5 DEF OrderInv, SettledHolds, IsWrite
  <2>2. QED BY <1>3, <2>1 DEF OrderInv
<1>6. QED BY <1>4, <1>5

(* The device performs the oldest request.  When that is the running call's *)
(* no older one is left.                                                    *)
LEMMA ExecuteKeepsOrder ==
  ASSUME ~Reorders, IInv, OrderInv,
         NEW q \in toDevice, NEW accepted \in BOOLEAN, Execute(q, accepted)
  PROVE  OrderInv'
<1>1. /\ UNCHANGED <<pc, call, calls, settled>>
      /\ toDevice' \subseteq toDevice
      /\ toHost' \subseteq toHost \cup {Ack(q, accepted)}
      /\ reg' = IF accepted /\ IsWrite(q) THEN q.value ELSE reg
      /\ \A other \in toDevice : q.num <= other.num
      /\ toDevice \subseteq Requests /\ calls \in Nat
  BY DEF Execute, Left, Deliverable, IInv, TypeOK
<1>2. LastCall'
  BY <1>1 DEF OrderInv, LastCall, UsesSocket
<1>3. SettledHolds'
  BY <1>1 DEF OrderInv, SettledHolds, IsWrite
<1>4. ASSUME NEW c \in Callers, NEW a \in toHost', UsesSocket(c), a.id = call[c].id,
             a.status = 0, IsWrite(call[c])
      PROVE  reg' = call[c].value /\ \A r \in toDevice : r = call[c]
  <2>1. CASE a \in toHost
    <3>1. reg = call[c].value /\ \A r \in toDevice : r = call[c]
      BY <1>4, <2>1 DEF OrderInv, AckedWriteHolds
    <3>2. QED BY <1>1, <3>1
  <2>2. CASE a = Ack(q, accepted)
    <3>1. q = call[c] /\ accepted
      BY <1>4, <2>2 DEF Ack, IInv, RequestsAreOwn, Running, UsesSocket
    <3>2. \A r \in toDevice : r.num \in Nat /\ r.num <= calls /\ calls <= r.num
      BY <1>1, <1>4, <3>1 DEF OrderInv, LastCall, Requests
    <3>3. \A r \in toDevice : r.num = calls
      BY <1>1, <3>2
    <3>4. QED BY <1>1, <1>4, <3>1, <3>3 DEF OrderInv, LastCall
  <2>3. QED BY <1>1, <1>4, <2>1, <2>2
<1>5. AckedWriteHolds'
  BY <1>1, <1>4 DEF AckedWriteHolds, UsesSocket, IsWrite
<1>6. QED BY <1>2, <1>3, <1>5 DEF OrderInv

LEMMA NextKeepsOrder ==
  ASSUME ~Reorders, IInv, OrderInv, [Next]_vars
  PROVE  OrderInv'
<1>1. ASSUME NEW c \in Callers, Step(c) PROVE OrderInv'
  <2>1. CASE Acquire(c)
    BY <2>1, AcquireKeepsOrder
  <2>2. CASE Send(c)
    BY <2>2, SendKeepsOrder
  <2>3. CASE AnswerArrives(c)
    <3>1. PICK a \in toHost : RecvForeign(c, a) \/ RecvAck(c, a)
      BY <2>3 DEF AnswerArrives
    <3>2. CASE RecvForeign(c, a)
      <4>1. toDevice' = toDevice /\ toHost' \subseteq toHost
        BY <3>2, ReceiveTakes DEF RecvForeign
      <4>2. QED BY <3>2, <4>1, QuietKeepsOrder DEF RecvForeign, history, UsesSocket
    <3>3. QED BY <3>1, <3>2, RecvAckKeepsOrder
  <2>4. CASE RecvShort(c) \/ GiveUp(c) \/ RaiseClosed(c) \/ Timeout(c)
    <3>1. /\ \A d \in Callers : UsesSocket(d)' => UsesSocket(d)
          /\ UNCHANGED <<call, reg, calls, settled, toDevice, toHost>>
      BY <2>4 DEF RecvShort, GiveUp, RaiseClosed, Timeout, Finish, UsesSocket, network,
         history, IInv, TypeOK
    <3>2. QED BY <3>1, QuietKeepsOrder
  <2>5. QED BY <1>1, <2>1, <2>2, <2>3, <2>4 DEF Step
<1>2. ASSUME NEW c \in Callers, NEW v \in Values \cup {None}, Invoke(c, v) PROVE OrderInv'
  BY <1>2, InvokeKeepsOrder
<1>3. CASE close \/ Lose \/ UNCHANGED vars
  <2>1. /\ UNCHANGED <<pc, call, reg, calls, settled>>
        /\ toDevice' \subseteq toDevice /\ toHost' \subseteq toHost
    BY <1>3 DEF close, Lose, vars, network, history
  <2>2. QED BY <2>1, QuietKeepsOrder DEF UsesSocket
<1>4. ASSUME NEW q \in toDevice, NEW accepted \in BOOLEAN, Execute(q, accepted)
      PROVE  OrderInv'
  BY <1>4, ExecuteKeepsOrder
<1>5. QED BY <1>1, <1>2, <1>3, <1>4 DEF Next

(* Over a network that keeps datagrams in order, the value of a write that  *)
(* returned stays in the register until another write is sent.              *)
THEOREM WritesStay ==
  ASSUME ~Reorders
  PROVE  Spec => []WriteStays
<1>1. Init => OrderInv
  BY InitInOrder
<1>2. IInv /\ OrderInv /\ [Next]_vars => OrderInv'
  BY NextKeepsOrder
<1>3. OrderInv => WriteStays
  BY DEF OrderInv, SettledHolds, WriteStays
<1>4. QED BY <1>1, <1>2, <1>3, InductiveInvariant, PTL DEF Spec

-----------------------------------------------------------------------------
(* Over a network that does not reorder, GvcpClient implements              *)
(* RemoteRegister.                                                          *)

IsNewest(n) == n \in Numbers /\ \A m \in Numbers : m <= n

(* No request on its way is older than the last write performed, those with *)
(* a number of their own are equal, and after a write has settled nothing   *)
(* newer than it is a write.                                                *)
InTurn ==
    /\ IsNewest(LastApplied) /\ LastApplied <= calls
    /\ \A q \in toDevice : LastApplied <= q.num
    /\ \A q \in toDevice : IsWrite(q) /\ q.num = LastApplied => q.value = reg
    /\ \A q, r \in toDevice : q.num = r.num => q = r
    /\ settled # None => \A q \in toDevice : IsWrite(q) => q.num = LastApplied
    /\ \A c \in Callers : 
          UsesSocket(c) /\ IsWrite(call[c]) /\ call[c].num = LastApplied => call[c].value = reg

LEMMA NewestIsLast ==
  ASSUME applied \subseteq Nat, NEW n, IsNewest(n)
  PROVE  LastApplied = n
<1>1. Numbers \subseteq Nat
  BY DEF Numbers
<1>2. \A k \in Numbers : (\A m \in Numbers : m <= k) => k = n
  BY <1>1 DEF IsNewest
<1>3. QED BY <1>2 DEF IsNewest, LastApplied

LEMMA InitInTurn == Init => InTurn /\ Register!Init
<1> SUFFICES ASSUME Init PROVE InTurn /\ Register!Init
  OBVIOUS
<1>1. applied = {} /\ toDevice = {} /\ calls = 0 /\ settled = None /\ reg \in Values
  BY DEF Init
<1>2. LastApplied = 0 /\ IsNewest(0)
  <2>1. IsNewest(0)
    BY <1>1 DEF IsNewest, Numbers
  <2>2. QED BY <1>1, <2>1, NewestIsLast
<1>3. InTurn
  BY <1>1, <1>2 DEF InTurn, Init, UsesSocket
<1>4. Register!Init
  BY <1>1, <1>2 DEF Register!Init
<1>5. QED BY <1>3, <1>4

(* A step that sends and performs nothing, and settles nothing new.         *)
LEMMA QuietInTurn ==
  ASSUME InTurn, toDevice' \subseteq toDevice, UNCHANGED <<reg, calls, applied, settled>>,
         \A c \in Callers : UsesSocket(c)' => UsesSocket(c) /\ call'[c] = call[c]
  PROVE  InTurn' /\ UNCHANGED Register!vars
<1>1. LastApplied' = LastApplied /\ Numbers' = Numbers
  BY DEF LastApplied, Numbers
<1>2. InTurn'
  BY <1>1 DEF InTurn, IsNewest, IsWrite
<1>3. QED BY <1>1, <1>2 DEF Register!vars

LEMMA AcquireInTurn ==
  ASSUME IInv, OrderInv, InTurn, NEW c \in Callers, Acquire(c)
  PROVE  InTurn' /\ Register!Next
<1>1. /\ calls \in Nat /\ calls' = calls + 1 /\ applied \subseteq Nat
      /\ UNCHANGED <<toDevice, reg, applied, settled>>
      /\ call'[c] = [call[c] EXCEPT !.num = calls + 1] /\ call[c] \in Requests
  BY DEF Acquire, network, IInv, TypeOK
<1>2. LastApplied' = LastApplied /\ Numbers' = Numbers
  BY <1>1 DEF LastApplied, Numbers
<1>3. LastApplied \in Nat /\ LastApplied <= calls
  BY <1>1 DEF InTurn, IsNewest, Numbers
<1>4. \A d \in Callers : UsesSocket(d)' => d = c
  <2>1. \A d \in Callers : d # c => pc'[d] = pc[d]
    BY DEF Acquire, IInv, TypeOK
  <2>2. \A d \in Callers : pc[d] \notin {"send", "recv"}
    BY ClientAssumption DEF Acquire, IInv, TypeOK
  <2>3. QED BY <2>1, <2>2 DEF UsesSocket
<1>5. call'[c].num # LastApplied'
  <2>1. call'[c].num = calls + 1
    BY <1>1 DEF Requests
  <2>2. QED BY <1>1, <1>2, <1>3, <2>1
<1>6. LastApplied' <= calls'
  BY <1>1, <1>2, <1>3
<1>7. InTurn'
  BY <1>1, <1>2, <1>4, <1>5, <1>6 DEF InTurn, IsNewest, IsWrite
<1>8. Register!Begin
  BY <1>1, <1>2 DEF Register!Begin
<1>9. QED BY <1>7, <1>8 DEF Register!Next

LEMMA SendInTurn ==
  ASSUME IInv, OrderInv, InTurn, NEW c \in Callers, Send(c)
  PROVE  InTurn' /\ [Register!Next]_(Register!vars)
<1>1. /\ toDevice' = toDevice \cup {call[c]}
      /\ settled' = IF IsWrite(call[c]) THEN None ELSE settled
      /\ UNCHANGED <<reg, calls, applied, call>>
      /\ UsesSocket(c)
      /\ \A d \in Callers : UsesSocket(d)' => UsesSocket(d)
  BY DEF Send, UsesSocket, IInv, TypeOK
<1>2. LastApplied' = LastApplied /\ Numbers' = Numbers
  BY <1>1 DEF LastApplied, Numbers
<1>3. /\ call[c].num = calls
      /\ \A q \in toDevice : q.num = calls => q = call[c]
  BY <1>1 DEF OrderInv, LastCall
<1>4. LastApplied <= call[c].num
  BY <1>3 DEF InTurn
<1>5. IsWrite(call[c]) /\ call[c].num = LastApplied => call[c].value = reg
  BY <1>1 DEF InTurn
<1>6. \A q, r \in toDevice' : q.num = r.num => q = r
  BY <1>1, <1>3 DEF InTurn
<1>7. \A q \in toDevice' : LastApplied <= q.num /\ (IsWrite(q) /\ q.num = LastApplied => q.value = reg)
  BY <1>1, <1>4, <1>5 DEF InTurn
<1>8. settled' # None => \A q \in toDevice' : IsWrite(q) => q.num = LastApplied
  BY <1>1 DEF InTurn
<1>9. InTurn'
  BY <1>1, <1>2, <1>6, <1>7, <1>8 DEF InTurn, IsNewest, IsWrite
<1>10. [Register!Next]_(Register!vars)
  BY <1>1, <1>2 DEF Register!Next, Register!Sent, Register!vars
<1>11. QED BY <1>9, <1>10

LEMMA RecvAckInTurn ==
  ASSUME IInv, OrderInv, InTurn, NEW c \in Callers, NEW a \in toHost, RecvAck(c, a)
  PROVE  InTurn' /\ [Register!Next]_(Register!vars)
<1>1. /\ UNCHANGED <<call, reg, calls, applied>>
      /\ a.id = call[c].id
      /\ settled' = IF a.status = 0 /\ IsWrite(call[c]) THEN call[c].value ELSE settled
      /\ \A d \in Callers : UsesSocket(d)' => UsesSocket(d)
  BY DEF RecvAck, Finish, IsForeign, UsesSocket, IInv, TypeOK
<1>2. UsesSocket(c) /\ Running(c) /\ toDevice' \subseteq toDevice
  BY ReceiveTakes DEF RecvAck, UsesSocket, Running
<1>3. LastApplied' = LastApplied /\ Numbers' = Numbers
  BY <1>1 DEF LastApplied, Numbers
<1>4. CASE a.status = 0 /\ IsWrite(call[c])
  <2>1. reg = call[c].value /\ \A q \in toDevice : q = call[c]
    BY <1>1, <1>2, <1>4 DEF OrderInv, AckedWriteHolds
  <2>2. call[c].num \in applied /\ call[c].num = calls
    BY <1>1, <1>2, <1>4 DEF IInv, AcksAreTrue, OrderInv, LastCall
  <2>3. LastApplied = calls
    <3>1. calls <= LastApplied /\ LastApplied <= calls
      BY <2>2 DEF InTurn, IsNewest, Numbers
    <3>2. LastApplied \in Nat /\ calls \in Nat
      BY DEF InTurn, IsNewest, Numbers, IInv, TypeOK
    <3>3. QED BY <3>1, <3>2
  <2>4. \A q \in toDevice : q.num = LastApplied
    BY <2>1, <2>2, <2>3
  <2>5. InTurn'
    BY <1>1, <1>2, <1>3, <2>4 DEF InTurn, IsNewest, IsWrite
  <2>6. Register!Return
    BY <1>1, <1>3, <1>4, <2>1, <2>3 DEF Register!Return
  <2>7. QED BY <2>5, <2>6 DEF Register!Next
<1>5. CASE ~(a.status = 0 /\ IsWrite(call[c]))
  BY <1>1, <1>2, <1>5, QuietInTurn
<1>6. QED BY <1>4, <1>5

(* The device performs the oldest request that is left.                     *)
LEMMA ExecuteInTurn ==
  ASSUME ~Reorders, IInv, OrderInv, InTurn,
         NEW q \in toDevice, NEW accepted \in BOOLEAN, Execute(q, accepted)
  PROVE  InTurn' /\ [Register!Next]_(Register!vars)
<1>1. /\ UNCHANGED <<pc, call, calls, settled>>
      /\ toDevice' \subseteq toDevice
      /\ reg' = IF accepted /\ IsWrite(q) THEN q.value ELSE reg
      /\ applied' = IF accepted /\ IsWrite(q) THEN applied \cup {q.num} ELSE applied
      /\ \A other \in toDevice : q.num <= other.num
      /\ toDevice \subseteq Requests /\ calls \in Nat /\ applied \subseteq Nat
  BY DEF Execute, Left, Deliverable, IInv, TypeOK
<1>2. CASE accepted /\ IsWrite(q)
  <2>1. /\ q.num \in Nat /\ q.value \in Values
        /\ LastApplied <= q.num /\ q.num <= calls /\ LastApplied \in Nat
    <3>1. q.num \in Nat /\ q.value \in Values \cup {None}
      BY <1>1 DEF Requests, AckValue
    <3>2. LastApplied <= q.num /\ q.num <= calls /\ LastApplied \in Numbers
      BY DEF InTurn, IsNewest, OrderInv, LastCall
    <3>3. QED BY <1>1, <1>2, <3>1, <3>2 DEF IsWrite, Numbers
  <2>2. reg' = q.value /\ Numbers' = Numbers \cup {q.num}
    BY <1>1, <1>2 DEF Numbers
  <2>3. LastApplied' = q.num /\ IsNewest(q.num)'
    <3>1. \A m \in Numbers : m \in Nat /\ m <= LastApplied
      BY <1>1 DEF InTurn, IsNewest, Numbers
    <3>2. \A m \in Numbers \cup {q.num} : m <= q.num
      BY <2>1, <3>1
    <3>3. IsNewest(q.num)'
      BY <2>2, <3>2 DEF IsNewest
    <3>4. \A k \in Numbers' : (\A m \in Numbers' : m <= k) => k = q.num
      BY <2>1, <2>2, <3>1, <3>2
    <3>5. QED BY <3>3, <3>4 DEF LastApplied, IsNewest
  <2>4. \A r \in toDevice : r.num = q.num => r = q
    BY DEF InTurn
  <2>5. ASSUME NEW c \in Callers, UsesSocket(c), call[c].num = q.num
        PROVE  call[c] = q
    <3>1. call[c].num = calls /\ \A r \in toDevice : r.num = calls => r = call[c]
      BY <2>5 DEF OrderInv, LastCall
    <3>2. QED BY <2>5, <3>1
  <2>6. settled # None => q.num = LastApplied
    BY <1>2 DEF InTurn
  <2>7. InTurn'
    <3>1. \A r \in toDevice' : q.num <= r.num /\ (IsWrite(r) /\ r.num = q.num => r.value = reg')
      BY <1>1, <2>2, <2>4
    <3>2. \A r, t \in toDevice' : r.num = t.num => r = t
      BY <1>1 DEF InTurn
    <3>3. settled' # None => \A r \in toDevice' : IsWrite(r) => r.num = q.num
      BY <1>1, <2>6 DEF InTurn
    <3>4. \A c \in Callers : UsesSocket(c)' /\ IsWrite(call'[c]) /\ call'[c].num = q.num => call'[c].value = reg'
      BY <1>1, <2>2, <2>5 DEF UsesSocket
    <3>5. q.num <= calls'
      BY <1>1, <2>1
    <3>6. QED BY <2>3, <3>1, <3>2, <3>3, <3>4, <3>5 DEF InTurn, IsWrite
  <2>8. q.num = LastApplied => q.value = reg
    BY <1>2 DEF InTurn
  <2>9. Register!Perform(q.num, q.value)
    BY <1>1, <2>2, <2>3, <2>6, <2>8 DEF Register!Perform
  <2>10. q.num \in LastApplied .. calls
    BY <1>1, <2>1
  <2>11. QED BY <2>1, <2>7, <2>9, <2>10 DEF Register!Next
<1>3. CASE ~(accepted /\ IsWrite(q))
  BY <1>1, <1>3, QuietInTurn DEF UsesSocket
<1>4. QED BY <1>2, <1>3

LEMMA NextInTurn ==
  ASSUME ~Reorders, IInv, OrderInv, InTurn, [Next]_vars
  PROVE  InTurn' /\ [Register!Next]_(Register!vars)
<1>1. ASSUME NEW c \in Callers, Step(c)
      PROVE  InTurn' /\ [Register!Next]_(Register!vars)
  <2>1. CASE Acquire(c)
    BY <2>1, AcquireInTurn
  <2>2. CASE Send(c)
    BY <2>2, SendInTurn
  <2>3. CASE AnswerArrives(c)
    <3>1. PICK a \in toHost : RecvForeign(c, a) \/ RecvAck(c, a)
      BY <2>3 DEF AnswerArrives
    <3>2. CASE RecvForeign(c, a)
      <4>1. toDevice' = toDevice
        BY <3>2, ReceiveTakes DEF RecvForeign
      <4>2. QED BY <3>2, <4>1, QuietInTurn DEF RecvForeign, history, UsesSocket
    <3>3. QED BY <3>1, <3>2, RecvAckInTurn
  <2>4. CASE RecvShort(c) \/ GiveUp(c) \/ RaiseClosed(c) \/ Timeout(c)
    <3>1. /\ \A d \in Callers : UsesSocket(d)' => UsesSocket(d)
          /\ UNCHANGED <<call, reg, calls, applied, settled, toDevice>>
      BY <2>4 DEF RecvShort, GiveUp, RaiseClosed, Timeout, Finish, UsesSocket, network,
         history, IInv, TypeOK
    <3>2. QED BY <3>1, QuietInTurn
  <2>5. QED BY <1>1, <2>1, <2>2, <2>3, <2>4 DEF Step
<1>2. ASSUME NEW c \in Callers, NEW v \in Values \cup {None}, Invoke(c, v)
      PROVE  InTurn' /\ [Register!Next]_(Register!vars)
  <2>1. /\ \A d \in Callers : UsesSocket(d)' => UsesSocket(d) /\ call'[d] = call[d]
        /\ UNCHANGED <<toDevice, reg, calls, applied, settled>>
    BY <1>2 DEF Invoke, UsesSocket, network, IInv, TypeOK
  <2>2. QED BY <2>1, QuietInTurn
<1>3. CASE close \/ Lose \/ UNCHANGED vars
  <2>1. UNCHANGED <<pc, call, reg, calls, applied, settled>> /\ toDevice' \subseteq toDevice
    BY <1>3 DEF close, Lose, vars, network, history
  <2>2. QED BY <2>1, QuietInTurn DEF UsesSocket
<1>4. ASSUME NEW q \in toDevice, NEW accepted \in BOOLEAN, Execute(q, accepted)
      PROVE  InTurn' /\ [Register!Next]_(Register!vars)
  BY <1>4, ExecuteInTurn
<1>5. QED BY <1>1, <1>2, <1>3, <1>4 DEF Next

(* Over a network that keeps datagrams in order, writes are performed in    *)
(* the order of their calls, whichever of them give up, and a write that    *)
(* returns is the last one: GvcpClient implements RemoteRegister.           *)
THEOREM WritesInOrder ==
  ASSUME ~Reorders
  PROVE  Spec => RegisterSpec
<1>1. Init => OrderInv /\ InTurn /\ Register!Init
  BY InitInOrder, InitInTurn
<1>2. IInv /\ OrderInv /\ InTurn /\ [Next]_vars
         => OrderInv' /\ InTurn' /\ [Register!Next]_(Register!vars)
  BY NextKeepsOrder, NextInTurn
<1>3. QED BY <1>1, <1>2, InductiveInvariant, PTL DEF Spec, RegisterSpec, Register!Spec
=============================================================================
