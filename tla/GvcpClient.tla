----------------------------- MODULE GvcpClient -----------------------------
(***************************************************************************)
(* The register channel of the camera: GvcpClient of                       *)
(* observers/blackfly/gvcp_transport.py, called by several threads (the    *)
(* user's and the heartbeat), over UDP to a device with one register.      *)
(*                                                                         *)
(* A call takes a request id, waits for the lock, and then sends the same  *)
(* datagram up to Retries + 1 times, each time reading acknowledgements    *)
(* until one carries its id or the socket times out.  Datagrams are lost,  *)
(* repeated and delayed; an answer may come after its call has given up.   *)
(***************************************************************************)
EXTENDS Integers, FiniteSets

CONSTANTS Callers,   \* threads that use the client
          Values,    \* values of the device's register
          NumIds,    \* request ids cycle through 1 .. NumIds (0xFFFF in the code)
          Retries,   \* GvcpClient._retries
          MaxCalls,  \* bound: calls in all
          MaxDups,   \* bound: datagrams the network delivers a second time
          Reorders,  \* may the network reorder datagrams?
          None

ASSUME ClientAssumption ==
    /\ NumIds \in Nat \ {0}
    /\ Retries \in Nat
    /\ MaxCalls \in Nat
    /\ MaxDups \in Nat
    /\ Reorders \in BOOLEAN
    /\ None \notin Values
    /\ None \notin Callers

VARIABLES req_ids,   \* GvcpClient._req_ids: the next id of the cycle
          lock,      \* GvcpClient._lock: the caller that holds it, or None
          closed,    \* has the socket been closed?
          pc,        \* where each caller is: idle, lock (waiting for it), send, recv
          call,      \* the call each caller makes, or made last
          tries,     \* attempts that call has sent
          result,    \* what it returned or raised, Pending before
          toDevice,  \* requests on their way to the device
          toHost,    \* acknowledgements on their way, or in the socket's buffer
          reg,       \* device: the register
          dups,      \* deliveries the network has repeated
          calls,     \* history: calls that got the lock so far, which numbers them
          held,      \* history: values the register has had during each call
          applied,   \* history: calls whose write the device has performed
          settled    \* history: value of the last write that returned, None
                     \*   as soon as another write is sent

network == <<toDevice, toHost>>
history == <<calls, held, applied, settled>>
vars == <<req_ids, lock, closed, pc, call, tries, result, network, reg, dups, history>>

-----------------------------------------------------------------------------
(* A call with value None reads the register; any other writes that value.  *)
IsWrite(m) == m.value # None

Running(c) == pc[c] # "idle"

Success(v) == [outcome |-> "ok", value |-> v]
Failure(e) == [outcome |-> e, value |-> None]
Pending    == [outcome |-> "pending", value |-> None]

(* What the variable call holds before the first call of a caller.          *)
NoCall == [id |-> 0, value |-> None, num |-> 0]

Init ==
    /\ req_ids = 1
    /\ lock = None
    /\ closed = FALSE
    /\ pc = [c \in Callers |-> "idle"]
    /\ call = [c \in Callers |-> NoCall]
    /\ tries = [c \in Callers |-> 0]
    /\ result = [c \in Callers |-> Pending]
    /\ toDevice = {} /\ toHost = {}
    /\ reg \in Values
    /\ dups = 0
    /\ calls = 0
    /\ held = [c \in Callers |-> {}]
    /\ applied = {}
    /\ settled = None

-----------------------------------------------------------------------------
(* GvcpClient._call *)

(* The cycle of ids is long: when an id comes round again, no datagram that  *)
(* carries it is left and no other call that took it is still running.       *)
IdIsFresh(id) ==
    /\ \A m \in toDevice \cup toHost : m.id # id
    /\ \A c \in Callers : Running(c) => call[c].id # id

NextReqId == (req_ids % NumIds) + 1

Invoke(c, v) ==
    /\ pc[c] = "idle"
    /\ calls + Cardinality({d \in Callers : pc[d] = "lock"}) < MaxCalls
    /\ IdIsFresh(req_ids)
    /\ call' = [call EXCEPT ![c] = [id |-> req_ids, value |-> v, num |-> 0]]
    /\ req_ids' = NextReqId
    /\ pc' = [pc EXCEPT ![c] = "lock"]
    /\ result' = [result EXCEPT ![c] = Pending]
    /\ held' = [held EXCEPT ![c] = {reg}]
    /\ UNCHANGED <<lock, closed, tries, network, reg, dups, calls, applied, settled>>

(* Fault: nothing is locked.                                                 *)
AcquireNoLock(c) ==
    /\ pc[c] = "lock"
    /\ lock' = c
    /\ tries' = [tries EXCEPT ![c] = 0]
    /\ pc' = [pc EXCEPT ![c] = "send"]
    /\ calls' = calls + 1
    /\ call' = [call EXCEPT ![c].num = calls + 1]
    /\ UNCHANGED <<req_ids, closed, result, network, reg, dups, held, applied, settled>>

Acquire(c) ==
    /\ pc[c] = "lock"
    /\ lock = None
    /\ lock' = c
    /\ tries' = [tries EXCEPT ![c] = 0]
    /\ pc' = [pc EXCEPT ![c] = "send"]
    /\ calls' = calls + 1
    /\ call' = [call EXCEPT ![c].num = calls + 1]
    /\ UNCHANGED <<req_ids, closed, result, network, reg, dups, held, applied, settled>>

(* The with-statement releases the lock however the call ends.               *)
Finish(c, r) ==
    /\ result' = [result EXCEPT ![c] = r]
    /\ pc' = [pc EXCEPT ![c] = "idle"]
    /\ lock' = None
    /\ UNCHANGED <<req_ids, closed, call, tries, reg, calls, held, applied>>

(* Fault: the attempts are not counted.                                      *)
SendForever(c) ==
    /\ pc[c] = "send"
    /\ ~closed
    /\ toDevice' = toDevice \cup {call[c]}
    /\ pc' = [pc EXCEPT ![c] = "recv"]
    /\ settled' = IF IsWrite(call[c]) THEN None ELSE settled
    /\ UNCHANGED <<req_ids, lock, closed, call, tries, result, toHost, reg, dups, calls,
                   held, applied>>

Send(c) ==
    /\ pc[c] = "send"
    /\ ~closed
    /\ toDevice' = toDevice \cup {call[c]}
    /\ tries' = [tries EXCEPT ![c] = @ + 1]
    /\ pc' = [pc EXCEPT ![c] = "recv"]
    /\ settled' = IF IsWrite(call[c]) THEN None ELSE settled
    /\ UNCHANGED <<req_ids, lock, closed, call, result, toHost, reg, dups, calls, held, applied>>

Deliverable(m, channel) == Reorders \/ \A other \in channel : m.num <= other.num

(* What a delivery of m leaves in its channel: the network may repeat it.    *)
Left(m, channel) ==
    IF dups < MaxDups THEN {channel, channel \ {m}} ELSE {channel \ {m}}

Receive(c, a) ==
    /\ pc[c] = "recv" /\ ~closed
    /\ Deliverable(a, toHost)
    /\ toHost' \in Left(a, toHost)
    /\ dups' = IF toHost' = toHost THEN dups + 1 ELSE dups
    /\ UNCHANGED toDevice

(* Fault: the id of the acknowledgement is not compared.                     *)
IsForeignNever(c, a) == FALSE

IsForeign(c, a) == a.id # call[c].id

(* An acknowledgement of another call: recvfrom again.                       *)
RecvForeign(c, a) ==
    /\ Receive(c, a)
    /\ IsForeign(c, a)
    /\ UNCHANGED <<req_ids, lock, closed, pc, call, tries, result, reg, history>>

(* Fault: the status of the acknowledgement is not looked at.                *)
RecvAckAnyStatus(c, a) ==
    /\ Receive(c, a)
    /\ ~IsForeign(c, a)
    /\ Finish(c, Success(a.value))
    /\ settled' = IF IsWrite(call[c]) THEN call[c].value ELSE settled

RecvAck(c, a) ==
    /\ Receive(c, a)
    /\ ~IsForeign(c, a)
    /\ Finish(c, IF a.status = 0 THEN Success(a.value) ELSE Failure("GvcpError"))
    /\ settled' = IF a.status = 0 /\ IsWrite(call[c]) THEN call[c].value ELSE settled

(* A datagram too short for its header or for the value ends the call.       *)
RecvShort(c) ==
    /\ pc[c] = "recv" /\ ~closed
    /\ Finish(c, Failure("ValueError"))
    /\ UNCHANGED <<network, dups, settled>>

(* socket.timeout, or an ICMP error taken for one                            *)
Timeout(c) ==
    /\ pc[c] = "recv"
    /\ tries[c] <= Retries
    /\ pc' = [pc EXCEPT ![c] = "send"]
    /\ UNCHANGED <<req_ids, lock, closed, call, tries, result, network, reg, dups, history>>

GiveUp(c) ==
    /\ pc[c] = "recv"
    /\ tries[c] > Retries
    /\ Finish(c, Failure("TimeoutError"))
    /\ UNCHANGED <<network, dups, settled>>

(* sendto and recvfrom raise OSError on a closed socket.                     *)
RaiseClosed(c) ==
    /\ pc[c] \in {"send", "recv"}
    /\ closed
    /\ Finish(c, Failure("OSError"))
    /\ UNCHANGED <<network, dups, settled>>

(* The socket goes, and what is in its buffer or on its way to it.           *)
close ==
    /\ ~closed
    /\ closed' = TRUE
    /\ toHost' = {}
    /\ UNCHANGED <<req_ids, lock, pc, call, tries, result, toDevice, reg, dups, history>>

-----------------------------------------------------------------------------
(* The network and the device *)

Lose ==
    /\ \/ \E q \in toDevice : toDevice' = toDevice \ {q} /\ UNCHANGED toHost
       \/ \E a \in toHost : toHost' = toHost \ {a} /\ UNCHANGED toDevice
    /\ UNCHANGED <<req_ids, lock, closed, pc, call, tries, result, reg, dups, history>>

(* The device performs the request or denies it, and acknowledges it with    *)
(* the id it came with.                                                      *)
Ack(q, accepted) ==
    [id     |-> q.id,
     status |-> IF accepted THEN 0 ELSE 1,
     value  |-> IF accepted /\ ~IsWrite(q) THEN reg ELSE None,
     num    |-> q.num]

Execute(q, accepted) ==
    /\ Deliverable(q, toDevice)
    /\ toDevice' \in Left(q, toDevice)
    /\ dups' = IF toDevice' = toDevice THEN dups + 1 ELSE dups
    /\ toHost' = IF closed THEN toHost ELSE toHost \cup {Ack(q, accepted)}
    /\ reg' = IF accepted /\ IsWrite(q) THEN q.value ELSE reg
    /\ held' = [c \in Callers |-> IF Running(c) THEN held[c] \cup {reg'} ELSE held[c]]
    /\ applied' = IF accepted /\ IsWrite(q) THEN applied \cup {q.num} ELSE applied
    /\ UNCHANGED <<req_ids, lock, closed, pc, call, tries, result, calls, settled>>

-----------------------------------------------------------------------------
AnswerArrives(c) == \E a \in toHost : RecvForeign(c, a) \/ RecvAck(c, a)

Step(c) == \/ Acquire(c) \/ Send(c)
           \/ AnswerArrives(c) \/ RecvShort(c)
           \/ Timeout(c) \/ GiveUp(c) \/ RaiseClosed(c)

Next ==
    \/ \E c \in Callers : Step(c) \/ \E v \in Values \cup {None} : Invoke(c, v)
    \/ close
    \/ Lose
    \/ \E q \in toDevice, accepted \in BOOLEAN : Execute(q, accepted)

Spec == Init /\ [][Next]_vars

(* Each thread runs, its timeout expires and the lock is handed on; nothing  *)
(* is asked of the network or of the device.                                 *)
LiveSpec == Spec /\ \A c \in Callers : WF_vars(Step(c))

-----------------------------------------------------------------------------
(* Properties *)

Ids      == 0 .. NumIds
AckValue == Values \cup {None}
Requests == [id : Ids, value : AckValue, num : Nat]
Acks     == [id : Ids, status : {0, 1}, value : AckValue, num : Nat]
Outcomes == {"pending", "ok", "GvcpError", "ValueError", "TimeoutError", "OSError"}

(* Types of the state; the lock is held by the one caller that uses the      *)
(* socket, and is free when none does.                                       *)
TypeOK ==
    /\ req_ids \in 1 .. NumIds
    /\ lock \in Callers \cup {None}
    /\ closed \in BOOLEAN
    /\ pc \in [Callers -> {"idle", "lock", "send", "recv"}]
    /\ call \in [Callers -> Requests]
    /\ tries \in [Callers -> 0 .. (Retries + 1)]
    /\ result \in [Callers -> [outcome : Outcomes, value : AckValue]]
    /\ toDevice \subseteq Requests
    /\ toHost \subseteq Acks
    /\ reg \in Values
    /\ dups \in 0 .. MaxDups
    /\ calls \in Nat
    /\ held \in [Callers -> SUBSET Values]
    /\ applied \subseteq Nat
    /\ settled \in Values \cup {None}
    /\ \A c \in Callers : pc[c] \in {"send", "recv"} <=> lock = c

Succeeded(c) == result[c].outcome = "ok"

(* A read that returns a value returns one the register had at some moment    *)
(* between the call and its return, whatever late answers of this and of      *)
(* earlier calls are in the socket's buffer.                                  *)
ReadsAreCurrent ==
    \A c \in Callers :
       Succeeded(c) /\ ~IsWrite(call[c]) => result[c].value \in held[c]

(* A write that returns was performed by the device: no denial or loss is     *)
(* mistaken for success because another call's answer arrived.                *)
WritesAreApplied ==
    \A c \in Callers :
       Succeeded(c) /\ IsWrite(call[c]) => call[c].num \in applied

(* Over a network that keeps datagrams in order, the value of a write that    *)
(* returned stays in the register until another write is sent: no leftover    *)
(* attempt of an earlier call that timed out overwrites it.                   *)
WriteStays == settled # None => reg = settled

(* Numbers of the writes performed, and of the last of them.                  *)
Numbers == applied \cup {0}

LastApplied == CHOOSE n \in Numbers : \A m \in Numbers : m <= n

Register == INSTANCE RemoteRegister WITH register <- reg, newest <- LastApplied

(* Over a network that keeps datagrams in order, writes are performed in the  *)
(* order in which their calls got the lock, also those of calls that gave up, *)
(* and a write that returns is the last one performed until another is sent. *)
RegisterSpec == Register!Spec

(* Every call ends, in a value or an exception, and lets the next one have    *)
(* the lock, whatever the network and the device do.                          *)
CallEnds == \A c \in Callers : Running(c) ~> ~Running(c)
=============================================================================
