----------------------------- MODULE Discovery ------------------------------
(***************************************************************************)
(* discover() of observers/blackfly/discovery.py: a DISCOVERY_CMD to every *)
(* broadcast address, and then the answers of whoever answers, until the   *)
(* deadline.  Answers are lost, repeated and delayed, the socket hears     *)
(* other traffic too, and the clock runs on whatever waits in it.          *)
(***************************************************************************)
EXTENDS Integers, Sequences

CONSTANTS Interfaces,  \* the addresses that cameras answer from
          CameraOf,    \* whose address it is; a camera may have several
          Broadcasts,  \* number of addresses the command is sent to
          Deadline,    \* clock ticks of the timeout
          MaxNoise     \* bound: datagrams that are no answer

Chatter == {"malformed header", "other ack", "malformed payload", "reset"}

ASSUME DiscoveryAssumption ==
    /\ Interfaces \cap Chatter = {}
    /\ Broadcasts \in Nat /\ Deadline \in Nat /\ MaxNoise \in Nat

VARIABLES
    sent,       \* commands sent
    onTheWay,   \* answers on their way: how many of each interface
    inbox,      \* the datagrams the socket holds
    heard,      \* interfaces of which an answer reached the socket in time
    seen,       \* the result: what each address answered
    ticks,      \* the clock, from the deadline's computation to the deadline
    receiving,  \* is it in recvfrom?
    ended,      \* has discover() returned?
    noise       \* datagrams that were no answer

discoveryVars == <<sent, onTheWay, inbox, heard, seen, ticks, receiving, ended, noise>>

DiscoveryInit ==
    /\ sent = 0 /\ onTheWay = [i \in Interfaces |-> 0]
    /\ inbox = <<>> /\ heard = {} /\ seen = <<>>
    /\ ticks = 0 /\ receiving = FALSE /\ ended = FALSE /\ noise = 0

-----------------------------------------------------------------------------
(* The network *)

(* Every interface in reach answers each command, if command and answer are   *)
(* not lost.                                                                  *)
SendTo ==
    /\ ~ended /\ sent < Broadcasts
    /\ sent' = sent + 1
    /\ \E reached \in SUBSET Interfaces :
          onTheWay' = [i \in Interfaces |-> onTheWay[i] + IF i \in reached THEN 1 ELSE 0]
    /\ UNCHANGED <<inbox, heard, seen, ticks, receiving, ended, noise>>

(* The socket is closed with the end of discover().                           *)
Arrive(i) ==
    /\ ~ended /\ onTheWay[i] > 0
    /\ onTheWay' = [onTheWay EXCEPT ![i] = @ - 1]
    /\ inbox' = Append(inbox, i)
    /\ heard' = IF ticks < Deadline THEN heard \cup {i} ELSE heard
    /\ UNCHANGED <<sent, seen, ticks, receiving, ended, noise>>

HearNoise(datagram) ==
    /\ ~ended /\ noise < MaxNoise /\ sent > 0
    /\ noise' = noise + 1
    /\ inbox' = Append(inbox, datagram)
    /\ UNCHANGED <<sent, onTheWay, heard, seen, ticks, receiving, ended>>

Tick ==
    /\ ~ended /\ sent = Broadcasts /\ ticks < Deadline
    /\ ticks' = ticks + 1
    /\ UNCHANGED <<sent, onTheWay, inbox, heard, seen, receiving, ended, noise>>

-----------------------------------------------------------------------------
(* The loop *)

(* Before the deadline there is another recvfrom.                             *)
Listen ==
    /\ ~ended /\ ~receiving /\ sent = Broadcasts /\ ticks < Deadline
    /\ receiving' = TRUE
    /\ UNCHANGED <<sent, onTheWay, inbox, heard, seen, ticks, ended, noise>>

With(i) == [j \in DOMAIN seen \cup {i} |-> IF j = i THEN CameraOf[i] ELSE seen[j]]

(* Fault: the answers are told apart by camera, the first one stays.          *)
RecvByCamera ==
    /\ receiving /\ inbox # <<>>
    /\ receiving' = FALSE
    /\ inbox' = Tail(inbox)
    /\ seen' = IF /\ Head(inbox) \in Interfaces
                  /\ \A i \in DOMAIN seen : seen[i] # CameraOf[Head(inbox)]
               THEN With(Head(inbox)) ELSE seen
    /\ UNCHANGED <<sent, onTheWay, heard, ticks, ended, noise>>

(* Anything but an answer that parses is skipped.                             *)
Recv ==
    /\ receiving /\ inbox # <<>>
    /\ receiving' = FALSE
    /\ inbox' = Tail(inbox)
    /\ seen' = IF Head(inbox) \in Chatter THEN seen ELSE With(Head(inbox))
    /\ UNCHANGED <<sent, onTheWay, heard, ticks, ended, noise>>

RecvTimeOut ==
    /\ receiving /\ inbox = <<>>
    /\ receiving' = FALSE
    /\ UNCHANGED <<sent, onTheWay, inbox, heard, seen, ticks, ended, noise>>

DeadlineOver ==
    /\ ~ended /\ ~receiving /\ sent = Broadcasts /\ ticks = Deadline
    /\ ended' = TRUE
    /\ UNCHANGED <<sent, onTheWay, inbox, heard, seen, ticks, receiving, noise>>

DiscoveryNext ==
    \/ SendTo \/ Tick \/ Listen \/ Recv \/ RecvTimeOut \/ DeadlineOver
    \/ \E i \in Interfaces : Arrive(i)
    \/ \E datagram \in Chatter : HearNoise(datagram)

DiscoverySpec == DiscoveryInit /\ [][DiscoveryNext]_discoveryVars

-----------------------------------------------------------------------------
(* Properties *)

(* Types of the state; an address of the result comes with its camera.        *)
DiscoveryTypeOK ==
    /\ sent \in 0 .. Broadcasts /\ ticks \in 0 .. Deadline /\ noise \in 0 .. MaxNoise
    /\ onTheWay \in [Interfaces -> 0 .. Broadcasts]
    /\ inbox \in Seq(Interfaces \cup Chatter)
    /\ heard \subseteq Interfaces /\ receiving \in BOOLEAN /\ ended \in BOOLEAN
    /\ \A i \in DOMAIN seen : i \in Interfaces /\ seen[i] = CameraOf[i]

(* "Same camera may answer multiple broadcasts": however the answers repeat   *)
(* and among whatever traffic they come, discover() returns every address of  *)
(* which an answer came before the deadline, unless the answer still lay      *)
(* unread in the socket then; and of the answers that came later at most the  *)
(* one that a recvfrom begun before the deadline was waiting for.             *)
FindsWhoAnswers ==
    ended =>
        /\ \A i \in heard \ DOMAIN seen : \E k \in DOMAIN inbox : inbox[k] = i
        /\ \A i, j \in DOMAIN seen \ heard : i = j
=============================================================================
