--------------------------- MODULE BlackflyCamera ---------------------------
(***************************************************************************)
(* Control and streaming of one camera: BlackflyCamera of                  *)
(* observers/blackfly/camera.py, with the user's thread, the heartbeat     *)
(* thread, a receiver thread for each stream, and the device.              *)
(*                                                                         *)
(* A register call is one step.  It is answered, or it raises after the    *)
(* device performed it, or it raises and the device never saw it: what     *)
(* GvcpClient promises of a call over a network that keeps its datagrams   *)
(* in order.  The n-th socket that start_stream opens, the stop event and  *)
(* the receiver thread that go with it, and the frames that arrive on it   *)
(* are all numbered n.                                                     *)
(***************************************************************************)
EXTENDS Integers

CONSTANTS MaxStarts,     \* bound: calls of start_stream
          SlowCallbacks  \* may on_frame take longer than stop_stream waits?

ASSUME CameraAssumption == MaxStarts \in Nat /\ SlowCallbacks \in BOOLEAN

VARIABLES
    (* the device *)
    ccp,            \* does the host have control?
    acquiring,      \* is it sending images?
    dest,           \* the socket it sends them to
    quiet,          \* has it missed the host's last command?
    (* the user's thread *)
    pc,             \* what it is about to do
    closing,        \* is the stop_stream it executes called by close()?
    opened,         \* _opened
    clientClosed,   \* has _client.close() been called?
    (* the heartbeat thread *)
    hpc,            \* unborn, wait (for the event, 1 s), read (CCP), dead
    hbStop,         \* _heartbeat_stop
    (* streams *)
    sk,             \* _stream_sk, 0 for None
    openSks,        \* sockets that are open
    ev,             \* _receiver_stop
    setEvs,         \* stop events that are set
    thr,            \* _receiver_thread, 0 for None
    latest,         \* _latest_frame, 0 for None
    rpc,            \* each receiver: unborn, loop, recv, got, callback, dead
    rsk,            \* the socket each receiver read last
    (* history *)
    live,           \* between the start of a receiver and the return of stop_stream
    stopRaised      \* did the last stop_acquisition raise?

device    == <<ccp, acquiring, dest, quiet>>
heartbeat == <<hpc, hbStop>>
stream    == <<sk, openSks, ev, setEvs, thr, latest>>
receivers == <<rpc, rsk>>
user      == <<closing, opened, clientClosed>>
history   == <<live, stopRaised>>
vars == <<device, pc, user, heartbeat, stream, receivers, history>>

Streams == 1 .. MaxStarts

Alive(n) == rpc[n] \notin {"unborn", "dead"}

Init ==
    /\ ccp = FALSE /\ acquiring = FALSE /\ dest = 0 /\ quiet = FALSE
    /\ pc = "idle" /\ closing = FALSE /\ opened = FALSE /\ clientClosed = FALSE
    /\ hpc = "unborn" /\ hbStop = FALSE
    /\ sk = 0 /\ openSks = {} /\ ev = 0 /\ setEvs = {} /\ thr = 0 /\ latest = 0
    /\ rpc = [n \in Streams |-> "unborn"]
    /\ rsk = [n \in Streams |-> 0]
    /\ live = FALSE /\ stopRaised = FALSE

-----------------------------------------------------------------------------
(* Register calls *)

Outcome == {"answered", "unanswered", "lost"}

Reaches(o)  == o # "lost" /\ ~clientClosed
Answered(o) == o = "answered" /\ ~clientClosed

(* The device lets only its controller write registers other than CCP.       *)
Performed(o) == Reaches(o) /\ ccp
Succeeds(o)  == Answered(o) /\ ccp

Heard(o) == quiet' = IF clientClosed THEN quiet ELSE o = "lost"

(* Without a command for the heartbeat timeout, the device drops control.    *)
Expire ==
    /\ ccp
    /\ quiet \/ hpc \notin {"wait", "read"}
    /\ ccp' = FALSE
    /\ acquiring' \in {acquiring, FALSE}
    /\ UNCHANGED <<dest, quiet, pc, user, heartbeat, stream, receivers, history>>

-----------------------------------------------------------------------------
(* open *)

open ==
    /\ pc = "idle" /\ ~opened
    /\ pc' = "open_ccp"
    /\ UNCHANGED <<device, user, heartbeat, stream, receivers, history>>

OpenWriteCcp(o) ==
    /\ pc = "open_ccp"
    /\ ccp' = (ccp \/ Reaches(o))
    /\ pc' = IF Answered(o) THEN "open_check" ELSE "idle"
    /\ Heard(o)
    /\ UNCHANGED <<acquiring, dest, user, heartbeat, stream, receivers, history>>

OpenCheckCcp(o) ==
    /\ pc = "open_check"
    /\ pc' = IF Succeeds(o) THEN "open_timeout" ELSE "idle"
    /\ Heard(o)
    /\ UNCHANGED <<ccp, acquiring, dest, user, heartbeat, stream, receivers, history>>

(* Fault: the thread is started before the timeout is written.               *)
OpenStartHeartbeatEarly(o) ==
    /\ pc = "open_timeout"
    /\ pc' = "idle"
    /\ hpc' = "wait" /\ hbStop' = FALSE
    /\ opened' = Succeeds(o)
    /\ Heard(o)
    /\ UNCHANGED <<ccp, acquiring, dest, closing, clientClosed, stream, receivers, history>>

OpenStartHeartbeat(o) ==
    /\ pc = "open_timeout"
    /\ pc' = "idle"
    /\ IF Succeeds(o)
       THEN opened' = TRUE /\ hpc' = "wait" /\ hbStop' = FALSE
       ELSE UNCHANGED <<opened, heartbeat>>
    /\ Heard(o)
    /\ UNCHANGED <<ccp, acquiring, dest, closing, clientClosed, stream, receivers, history>>

-----------------------------------------------------------------------------
(* The heartbeat thread *)

HeartbeatWait ==
    /\ hpc = "wait"
    /\ hpc' = IF hbStop THEN "dead" ELSE "read"
    /\ UNCHANGED <<device, pc, user, hbStop, stream, receivers, history>>

(* Fault: the value read is not looked at.                                   *)
HeartbeatReadBlindly(o) ==
    /\ hpc = "read"
    /\ hpc' = "wait"
    /\ Heard(o)
    /\ UNCHANGED <<ccp, acquiring, dest, pc, user, hbStop, stream, receivers, history>>

HeartbeatRead(o) ==
    /\ hpc = "read"
    /\ hpc' = IF Answered(o) /\ ~ccp THEN "dead" ELSE "wait"
    /\ Heard(o)
    /\ UNCHANGED <<ccp, acquiring, dest, pc, user, hbStop, stream, receivers, history>>

-----------------------------------------------------------------------------
(* start_stream.  The lifecycle the class documents starts a stream only     *)
(* when the one before has been stopped, also if its start raised.           *)

start_stream ==
    /\ pc = "idle" /\ opened /\ ~live
    /\ sk < MaxStarts
    /\ sk' = sk + 1
    /\ openSks' = openSks \cup {sk + 1}
    /\ pc' = "configure"
    /\ UNCHANGED <<device, user, heartbeat, ev, setEvs, thr, latest, receivers, history>>

StartReceiverOldFrame ==
    /\ ev' = sk
    /\ thr' = sk
    /\ rpc' = [rpc EXCEPT ![sk] = "loop"]
    /\ live' = TRUE
    /\ UNCHANGED latest

StartReceiver ==
    /\ ev' = sk
    /\ latest' = 0
    /\ thr' = sk
    /\ rpc' = [rpc EXCEPT ![sk] = "loop"]
    /\ live' = TRUE

(* configure_stream is four register calls, of which the second gives the    *)
(* device the port; when all succeed the receiver is started.                *)
Configure(o) ==
    /\ pc = "configure"
    /\ Heard(o)
    /\ IF Succeeds(o)
       THEN dest' = sk /\ StartReceiver /\ pc' = "acquire"
       ELSE /\ dest' \in IF ccp /\ ~clientClosed THEN {dest, sk} ELSE {dest}
            /\ pc' = "idle"
            /\ UNCHANGED <<ev, latest, thr, rpc, live>>
    /\ UNCHANGED <<ccp, acquiring, user, heartbeat, sk, openSks, setEvs, rsk, stopRaised>>

StartAcquisition(o) ==
    /\ pc = "acquire"
    /\ acquiring' = (acquiring \/ Performed(o))
    /\ pc' = "idle"
    /\ Heard(o)
    /\ UNCHANGED <<ccp, dest, user, heartbeat, stream, receivers, history>>

-----------------------------------------------------------------------------
(* stop_stream *)

stop_stream ==
    /\ pc = "idle" /\ opened
    /\ pc' = "stop"
    /\ UNCHANGED <<device, user, heartbeat, stream, receivers, history>>

(* Whether or not stop_acquisition raises, the event is set and the socket   *)
(* closed.                                                                   *)
StopAcquisition(o) ==
    /\ pc = "stop"
    /\ acquiring' = (acquiring /\ ~Performed(o))
    /\ stopRaised' = ~Succeeds(o)
    /\ setEvs' = setEvs \cup {ev}
    /\ openSks' = openSks \ {sk}
    /\ pc' = "join"
    /\ Heard(o)
    /\ UNCHANGED <<ccp, dest, user, heartbeat, sk, ev, thr, latest, receivers, live>>

(* join(timeout=2.0): the receiver's own wait is 0.5 s, so only on_frame can *)
(* make it late.                                                             *)
(* Fault: stop_stream does not wait for the receiver.                        *)
JoinSkipped == TRUE

JoinEnds == thr # 0 => \/ rpc[thr] = "dead"
                       \/ SlowCallbacks /\ rpc[thr] = "callback"

JoinReceiver ==
    /\ pc = "join"
    /\ JoinEnds
    /\ live' = FALSE
    /\ pc' = IF closing THEN "close_heartbeat" ELSE "idle"
    /\ UNCHANGED <<device, user, heartbeat, stream, receivers, stopRaised>>

-----------------------------------------------------------------------------
(* close *)

(* Fault: the stream is left to the user.                                    *)
closeOnly ==
    /\ pc = "idle" /\ opened
    /\ closing' = TRUE
    /\ pc' = "close_heartbeat"
    /\ UNCHANGED <<device, opened, clientClosed, heartbeat, stream, receivers, history>>

close ==
    /\ pc = "idle" /\ opened
    /\ closing' = TRUE
    /\ pc' = IF thr # 0 /\ Alive(thr) THEN "stop" ELSE "close_heartbeat"
    /\ UNCHANGED <<device, opened, clientClosed, heartbeat, stream, receivers, history>>

CloseStopHeartbeat ==
    /\ pc = "close_heartbeat"
    /\ hbStop' = TRUE
    /\ pc' = "close_join"
    /\ UNCHANGED <<device, user, hpc, stream, receivers, history>>

(* join(timeout=4.0), longer than the thread's wait or its register call     *)
CloseJoinHeartbeat ==
    /\ pc = "close_join"
    /\ hpc = "dead"
    /\ pc' = "release"
    /\ UNCHANGED <<device, user, heartbeat, stream, receivers, history>>

CloseRelease(o) ==
    /\ pc = "release"
    /\ Heard(o)
    /\ IF Performed(o)
       THEN ccp' = FALSE /\ acquiring' \in {acquiring, FALSE}
       ELSE UNCHANGED <<ccp, acquiring>>
    /\ clientClosed' = TRUE
    /\ opened' = FALSE
    /\ closing' = FALSE
    /\ pc' = "idle"
    /\ UNCHANGED <<dest, heartbeat, stream, receivers, history>>

-----------------------------------------------------------------------------
(* A receiver thread.  It looks up the event and the socket each time round. *)

ReceiverLoop(n) ==
    /\ rpc[n] = "loop"
    /\ IF ev \in setEvs
       THEN rpc' = [rpc EXCEPT ![n] = "dead"] /\ UNCHANGED rsk
       ELSE rpc' = [rpc EXCEPT ![n] = "recv"] /\ rsk' = [rsk EXCEPT ![n] = sk]
    /\ UNCHANGED <<device, pc, user, heartbeat, stream, history>>

(* recvfrom returns the last packet of a frame, or raises.  A packet that    *)
(* completes no image, or an image that cannot be decoded, and a timeout all *)
(* lead back to the top of the loop.                                         *)
ReceiverRecv(n) ==
    /\ rpc[n] = "recv"
    /\ \/ rsk[n] \notin openSks /\ rpc' = [rpc EXCEPT ![n] = "dead"]
       \/ rsk[n] \in openSks /\ dest = rsk[n] /\ rpc' = [rpc EXCEPT ![n] = "got"]
       \/ rpc' = [rpc EXCEPT ![n] = "loop"]
    /\ UNCHANGED <<device, pc, user, heartbeat, stream, rsk, history>>

ReceiverDeliver(n) ==
    /\ rpc[n] = "got"
    /\ latest' = rsk[n]
    /\ rpc' = [rpc EXCEPT ![n] = "callback"]
    /\ UNCHANGED <<device, pc, user, heartbeat, sk, openSks, ev, setEvs, thr, rsk, history>>

(* on_frame returns or raises.                                               *)
CallbackReturns(n) ==
    /\ rpc[n] = "callback"
    /\ rpc' = [rpc EXCEPT ![n] = "loop"]
    /\ UNCHANGED <<device, pc, user, heartbeat, stream, rsk, history>>

-----------------------------------------------------------------------------
UserCalls == open \/ start_stream \/ stop_stream \/ close

UserStep ==
    \/ JoinReceiver \/ CloseStopHeartbeat \/ CloseJoinHeartbeat
    \/ \E o \in Outcome :
          \/ OpenWriteCcp(o) \/ OpenCheckCcp(o) \/ OpenStartHeartbeat(o)
          \/ Configure(o) \/ StartAcquisition(o) \/ StopAcquisition(o)
          \/ CloseRelease(o)

HeartbeatStep == HeartbeatWait \/ \E o \in Outcome : HeartbeatRead(o)

ReceiverStep(n) ==
    ReceiverLoop(n) \/ ReceiverRecv(n) \/ ReceiverDeliver(n) \/ CallbackReturns(n)

Next == \/ Expire
        \/ UserCalls
        \/ UserStep
        \/ HeartbeatStep
        \/ \E n \in Streams : ReceiverStep(n)

Spec == Init /\ [][Next]_vars

(* Threads run, the device's clock does, and of the heartbeat's reads not    *)
(* all go unanswered.  Nothing makes the user call anything.                 *)
LiveSpec ==
    /\ Spec
    /\ WF_vars(Expire)
    /\ WF_vars(UserStep)
    /\ WF_vars(HeartbeatStep)
    /\ SF_vars(HeartbeatRead("answered"))
    /\ \A n \in Streams : WF_vars(ReceiverStep(n))

-----------------------------------------------------------------------------
(* Properties *)

PcSet == {"idle", "open_ccp", "open_check", "open_timeout", "configure", "acquire",
          "stop", "join", "close_heartbeat", "close_join", "release"}

(* Types of the state.                                                       *)
TypeOK ==
    /\ ccp \in BOOLEAN /\ acquiring \in BOOLEAN /\ quiet \in BOOLEAN
    /\ dest \in 0 .. MaxStarts
    /\ pc \in PcSet
    /\ closing \in BOOLEAN /\ opened \in BOOLEAN /\ clientClosed \in BOOLEAN
    /\ hpc \in {"unborn", "wait", "read", "dead"} /\ hbStop \in BOOLEAN
    /\ sk \in 0 .. MaxStarts
    /\ openSks \subseteq Streams
    /\ ev \in 0 .. sk /\ thr = ev
    /\ setEvs \subseteq 0 .. MaxStarts
    /\ latest \in 0 .. MaxStarts
    /\ rpc \in [Streams -> {"unborn", "loop", "recv", "got", "callback", "dead"}]
    /\ rsk \in [Streams -> 0 .. MaxStarts]
    /\ live \in BOOLEAN /\ stopRaised \in BOOLEAN

(* Unless on_frame takes longer than stop_stream waits for it, no receiver    *)
(* outlives its stream: when stop_stream has returned, on_frame is not        *)
(* running and is not called again, and the next stream has its socket to     *)
(* itself.  A closed camera has no heartbeat thread left either.              *)
NothingAfterStop ==
    /\ ~live => \A n \in Streams : ~Alive(n)
    /\ clientClosed => hpc = "dead" /\ \A n \in Streams : ~Alive(n)

(* Under the same proviso get_latest_frame never answers with a frame of an   *)
(* earlier stream while a stream is up.                                       *)
FreshFrames == live => latest \in {0, thr}

(* close() releases control of a device that is still acquiring only when the *)
(* AcquisitionStop it, or the stop_stream before it, sent has failed; also    *)
(* when start_stream raised half-way.                                         *)
StopBeforeRelease ==
    [][ \A o \in Outcome : CloseRelease(o) /\ acquiring => stopRaised ]_vars

(* The class documents more: "close() will stop an active stream before      *)
(* releasing CCP".  close() goes by the receiver thread, though, not by the   *)
(* device: after a stop_stream that raised it does not try again.             *)
CloseStopsStream == [][ close /\ ccp /\ acquiring => pc' = "stop" ]_vars

(* Control is not kept by a host that does not know it has it: after close(), *)
(* and after an open() that raised with CCP already written, the device is    *)
(* free again, whether or not the release arrived.                            *)
ControlIsReturned == pc = "idle" /\ ~opened ~> ~ccp \/ pc # "idle"

(* When the device has dropped control the heartbeat thread notices and ends, *)
(* rather than keep alive a channel it does not own.                          *)
LossIsNoticed == opened /\ ~ccp ~> hpc = "dead"
=============================================================================
