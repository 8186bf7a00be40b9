------------------------ MODULE BlackflyCameraProofs ------------------------
(***************************************************************************)
(* Proofs about BlackflyCamera, for any number of streams and any outcome  *)
(* of the register calls, when on_frame returns before stop_stream gives   *)
(* up waiting for it.                                                      *)
(***************************************************************************)
EXTENDS BlackflyCamera, TLAPS

(* The only thread that runs is that of the stream that is up; it reads     *)
(* that stream's socket.                                                    *)
OneReceiver ==
    /\ \A n \in Streams : Alive(n) => live /\ n = thr
    /\ \A n \in Streams : rpc[n] \in {"recv", "got", "callback"} => rsk[n] = n

(* While a stream is up nobody but stop_stream ends its thread.             *)
StreamIsUp ==
    /\ live => thr = sk /\ thr \in Streams /\ latest \in {0, thr}
    /\ live /\ pc # "join" => Alive(thr) /\ ev \notin setEvs /\ sk \in openSks
    /\ setEvs \subseteq 0 .. ev

(* A stream that is being started has a socket of its own, and an event     *)
(* nobody has set.                                                          *)
Starting ==
    /\ pc = "configure" => ~live /\ sk \in openSks /\ ev < sk
    /\ pc = "acquire" => live

(* close() ends the threads in order, and a closed camera cannot be opened. *)
Closing ==
    /\ pc \in {"close_heartbeat", "close_join", "release"} => ~live
    /\ pc = "release" => hpc = "dead"
    /\ clientClosed => ~opened /\ ~live /\ hpc = "dead" /\ pc \in {"idle", "open_ccp"}

(* A device that acquires without a stream missed its AcquisitionStop.      *)
StopWasTried == acquiring /\ (~live \/ pc = "join") => stopRaised

Threads == OneReceiver /\ StreamIsUp /\ Starting /\ Closing /\ StopWasTried

IInv == TypeOK /\ Threads

-----------------------------------------------------------------------------
LEMMA InitEstablishes == Init => IInv
<1> SUFFICES ASSUME Init PROVE IInv
  OBVIOUS
<1>1. TypeOK
  <2>1. 0 \in 0 .. MaxStarts /\ 0 \in 0 .. 0
    BY CameraAssumption
  <2>2. QED BY <2>1 DEF Init, TypeOK, PcSet
<1>2. Threads
  BY DEF Init, Threads, OneReceiver, StreamIsUp, Starting, Closing, StopWasTried, Alive
<1>3. QED BY <1>1, <1>2 DEF IInv

-----------------------------------------------------------------------------
(* The device and the heartbeat thread *)

LEMMA ExpirePreserves ==
  ASSUME IInv, Expire
  PROVE  IInv'
<1>1. TypeOK'
  BY DEF Expire, user, heartbeat, stream, receivers, history, IInv, TypeOK
<1>2. Threads'
  <2>1. OneReceiver' /\ StreamIsUp' /\ Starting'
    BY DEF Expire, stream, receivers, history, IInv, Threads, OneReceiver, StreamIsUp,
           Starting, Alive
  <2>2. Closing'
    BY DEF Expire, user, heartbeat, stream, receivers, history, IInv, Threads, Closing
  <2>3. StopWasTried'
    BY DEF Expire, stream, receivers, history, IInv, Threads, TypeOK, StopWasTried
  <2>4. QED BY <2>1, <2>2, <2>3 DEF Threads
<1>3. QED BY <1>1, <1>2 DEF IInv

LEMMA HeartbeatWaitPreserves ==
  ASSUME IInv, HeartbeatWait
  PROVE  IInv'
<1>1. TypeOK'
  BY DEF HeartbeatWait, device, user, heartbeat, stream, receivers, history, IInv, TypeOK
<1>2. Threads'
  BY DEF HeartbeatWait, device, user, heartbeat, stream, receivers, history, IInv, Threads,
         TypeOK, OneReceiver, StreamIsUp, Starting, Closing, StopWasTried, Alive
<1>3. QED BY <1>1, <1>2 DEF IInv

LEMMA HeartbeatReadPreserves ==
  ASSUME IInv, NEW o \in Outcome, HeartbeatRead(o)
  PROVE  IInv'
<1>1. TypeOK'
  BY DEF HeartbeatRead, Heard, user, heartbeat, stream, receivers, history, IInv, TypeOK
<1>2. Threads'
  BY DEF HeartbeatRead, Heard, user, heartbeat, stream, receivers, history, IInv, Threads,
         TypeOK, OneReceiver, StreamIsUp, Starting, Closing, StopWasTried, Alive
<1>3. QED BY <1>1, <1>2 DEF IInv

-----------------------------------------------------------------------------
(* open: no call of a closed client is answered, so a closed camera gets no  *)
(* further than its first register.                                          *)

LEMMA openPreserves ==
  ASSUME IInv, open
  PROVE  IInv'
<1>1. TypeOK'
  BY DEF open, device, user, heartbeat, stream, receivers, history, PcSet, IInv, TypeOK
<1>2. Threads'
  BY DEF open, device, user, heartbeat, stream, receivers, history, IInv, Threads, TypeOK,
         OneReceiver, StreamIsUp, Starting, Closing, StopWasTried, Alive
<1>3. QED BY <1>1, <1>2 DEF IInv

LEMMA OpenWriteCcpPreserves ==
  ASSUME IInv, NEW o \in Outcome, OpenWriteCcp(o)
  PROVE  IInv'
<1>1. TypeOK'
  BY DEF OpenWriteCcp, Heard, Reaches, user, heartbeat, stream, receivers, history, PcSet,
         IInv, TypeOK
<1>2. Threads'
  BY DEF OpenWriteCcp, Heard, Answered, user, heartbeat, stream, receivers, history, IInv,
         Threads, TypeOK, OneReceiver, StreamIsUp, Starting, Closing, StopWasTried, Alive
<1>3. QED BY <1>1, <1>2 DEF IInv

LEMMA OpenCheckCcpPreserves ==
  ASSUME IInv, NEW o \in Outcome, OpenCheckCcp(o)
  PROVE  IInv'
<1>1. TypeOK'
  BY DEF OpenCheckCcp, Heard, user, heartbeat, stream, receivers, history, PcSet, IInv,
         TypeOK
<1>2. Threads'
  BY DEF OpenCheckCcp, Heard, Succeeds, Answered, user, heartbeat, stream, receivers,
         history, IInv, Threads, TypeOK, OneReceiver, StreamIsUp, Starting, Closing,
         StopWasTried, Alive
<1>3. QED BY <1>1, <1>2 DEF IInv

LEMMA OpenStartHeartbeatPreserves ==
  ASSUME IInv, NEW o \in Outcome, OpenStartHeartbeat(o)
  PROVE  IInv'
<1>1. TypeOK'
  BY DEF OpenStartHeartbeat, Heard, user, heartbeat, stream, receivers, history, PcSet,
         IInv, TypeOK
<1>2. Threads'
  BY DEF OpenStartHeartbeat, Heard, Succeeds, Answered, user, heartbeat, stream, receivers,
         history, IInv, Threads, TypeOK, OneReceiver, StreamIsUp, Starting, Closing,
         StopWasTried, Alive
<1>3. QED BY <1>1, <1>2 DEF IInv

-----------------------------------------------------------------------------
(* Streams *)

LEMMA start_streamPreserves ==
  ASSUME IInv, start_stream
  PROVE  IInv'
<1>1. TypeOK'
  <2>1. sk' \in 0 .. MaxStarts /\ ev' \in 0 .. sk' /\ openSks' \subseteq Streams
    BY CameraAssumption DEF start_stream, Streams, IInv, TypeOK
  <2>2. QED
    BY <2>1 DEF start_stream, device, user, heartbeat, receivers, history, PcSet, IInv,
       TypeOK
<1>2. Threads'
  BY DEF start_stream, device, user, heartbeat, stream, receivers, history, Streams, IInv,
         Threads, TypeOK, OneReceiver, StreamIsUp, Starting, Closing, StopWasTried, Alive
<1>3. QED BY <1>1, <1>2 DEF IInv

(* The receiver starts with an event nobody has set and a socket nobody has   *)
(* closed, and none runs beside it.                                          *)
LEMMA ConfigurePreserves ==
  ASSUME IInv, NEW o \in Outcome, Configure(o)
  PROVE  IInv'
<1>1. TypeOK'
  <2>1. /\ UNCHANGED <<ccp, acquiring, user, heartbeat, sk, openSks, setEvs, rsk, stopRaised>>
        /\ dest' \in {dest, sk} /\ quiet' \in BOOLEAN /\ pc' \in PcSet
    BY DEF Configure, Heard, PcSet, IInv, TypeOK
  <2>2. \/ StartReceiver
        \/ UNCHANGED <<ev, latest, thr, rpc, live>>
    BY DEF Configure
  <2>3. CASE StartReceiver
    <3>1. sk' = sk /\ sk \in 0 .. MaxStarts
      BY <2>1 DEF IInv, TypeOK
    <3>2. ev' \in 0 .. sk' /\ thr' = ev' /\ latest' \in 0 .. MaxStarts
      BY <2>3, <3>1, CameraAssumption DEF StartReceiver
    <3>3. rpc' \in [Streams -> {"unborn", "loop", "recv", "got", "callback", "dead"}]
      BY <2>3 DEF StartReceiver, IInv, TypeOK
    <3>4. QED
      BY <2>1, <2>3, <3>2, <3>3 DEF StartReceiver, user, heartbeat, IInv, TypeOK
  <2>4. CASE UNCHANGED <<ev, latest, thr, rpc, live>>
    BY <2>1, <2>4 DEF user, heartbeat, IInv, TypeOK
  <2>5. QED BY <2>2, <2>3, <2>4
<1>2. Threads'
  <2>1. OneReceiver'
    BY DEF Configure, StartReceiver, Streams, IInv, Threads, TypeOK, OneReceiver, Starting,
           Alive
  <2>2. StreamIsUp'
    <3>1. /\ pc = "configure" /\ sk' = sk /\ openSks' = openSks /\ setEvs' = setEvs
          /\ ~live /\ sk \in openSks /\ ev < sk /\ setEvs \subseteq 0 .. ev
          /\ sk \in Streams /\ ev \in Nat
          /\ rpc \in [Streams -> {"unborn", "loop", "recv", "got", "callback", "dead"}]
      BY DEF Configure, Streams, IInv, Threads, TypeOK, StreamIsUp, Starting
    <3>2. CASE StartReceiver /\ pc' = "acquire"
      <4>1. ev' = sk /\ thr' = sk /\ latest' = 0 /\ rpc'[sk] = "loop"
        BY <3>1, <3>2 DEF StartReceiver
      <4>2. sk \notin setEvs /\ setEvs \subseteq 0 .. sk
        BY <3>1 DEF Streams
      <4>3. QED BY <3>1, <4>1, <4>2 DEF StreamIsUp, Alive
    <3>3. CASE UNCHANGED <<ev, latest, thr, rpc, live>>
      BY <3>1, <3>3 DEF StreamIsUp
    <3>4. QED BY <3>2, <3>3 DEF Configure
  <2>3. Starting' /\ Closing'
    BY DEF Configure, StartReceiver, user, heartbeat, IInv, Threads, Closing, Starting
  <2>4. StopWasTried'
    BY DEF Configure, StartReceiver, IInv, Threads, StopWasTried
  <2>5. QED BY <2>1, <2>2, <2>3, <2>4 DEF Threads
<1>3. QED BY <1>1, <1>2 DEF IInv

LEMMA StartAcquisitionPreserves ==
  ASSUME IInv, NEW o \in Outcome, StartAcquisition(o)
  PROVE  IInv'
<1>1. TypeOK'
  BY DEF StartAcquisition, Heard, user, heartbeat, stream, receivers, history, PcSet, IInv,
         TypeOK
<1>2. Threads'
  BY DEF StartAcquisition, Heard, user, heartbeat, stream, receivers, history, IInv,
         Threads, TypeOK, OneReceiver, StreamIsUp, Starting, Closing, StopWasTried, Alive
<1>3. QED BY <1>1, <1>2 DEF IInv

LEMMA stop_streamPreserves ==
  ASSUME IInv, stop_stream
  PROVE  IInv'
<1>1. TypeOK'
  BY DEF stop_stream, device, user, heartbeat, stream, receivers, history, PcSet, IInv,
         TypeOK
<1>2. Threads'
  BY DEF stop_stream, device, user, heartbeat, stream, receivers, history, IInv, Threads,
         TypeOK, OneReceiver, StreamIsUp, Starting, Closing, StopWasTried, Alive
<1>3. QED BY <1>1, <1>2 DEF IInv

(* If the device is left acquiring, the command has failed.                  *)
LEMMA StopAcquisitionPreserves ==
  ASSUME IInv, NEW o \in Outcome, StopAcquisition(o)
  PROVE  IInv'
<1>1. TypeOK'
  <2>1. acquiring' \in BOOLEAN /\ stopRaised' \in BOOLEAN /\ quiet' \in BOOLEAN
    BY DEF StopAcquisition, Heard, IInv, TypeOK
  <2>2. setEvs' \subseteq 0 .. MaxStarts /\ openSks' \subseteq Streams
    BY CameraAssumption DEF StopAcquisition, IInv, TypeOK
  <2>3. QED BY <2>1, <2>2 DEF StopAcquisition, user, heartbeat, receivers, PcSet, IInv,
     TypeOK
<1>2. Threads'
  BY DEF StopAcquisition, Heard, Performed, Succeeds, Reaches, Answered, user, heartbeat,
         receivers, IInv, Threads, TypeOK, OneReceiver, StreamIsUp, Starting, Closing,
         StopWasTried, Alive
<1>3. QED BY <1>1, <1>2 DEF IInv

(* Without slow callbacks the join ends with the thread.                     *)
LEMMA JoinReceiverPreserves ==
  ASSUME ~SlowCallbacks, IInv, JoinReceiver
  PROVE  IInv'
<1>1. TypeOK'
  BY DEF JoinReceiver, device, user, heartbeat, stream, receivers, history, PcSet, IInv,
         TypeOK
<1>2. Threads'
  <2>1. OneReceiver'
    <3>1. rpc' = rpc /\ rsk' = rsk /\ (thr # 0 => rpc[thr] = "dead")
      BY DEF JoinReceiver, JoinEnds, receivers
    <3>2. \A n \in Streams : ~Alive(n)
      BY <3>1 DEF IInv, Threads, OneReceiver, Alive, Streams
    <3>3. QED BY <3>1, <3>2 DEF IInv, Threads, OneReceiver, Alive
  <2>2. StreamIsUp' /\ Starting'
    BY DEF JoinReceiver, stream, IInv, Threads, TypeOK, StreamIsUp, Starting
  <2>3. Closing'
    BY DEF JoinReceiver, user, heartbeat, IInv, Threads, Closing
  <2>4. StopWasTried'
    BY DEF JoinReceiver, device, IInv, Threads, StopWasTried
  <2>5. QED BY <2>1, <2>2, <2>3, <2>4 DEF Threads
<1>3. QED BY <1>1, <1>2 DEF IInv

-----------------------------------------------------------------------------
(* close: while a stream is up its thread is alive, so close() stops it. *)

LEMMA closePreserves ==
  ASSUME IInv, close
  PROVE  IInv'
<1>1. TypeOK'
  BY DEF close, device, user, heartbeat, stream, receivers, history, PcSet, IInv, TypeOK
<1>2. Threads'
  <2>1. OneReceiver'
    BY DEF close, stream, receivers, history, IInv, Threads, OneReceiver, Alive
  <2>2. StreamIsUp'
    BY DEF close, stream, receivers, history, IInv, Threads, TypeOK, StreamIsUp, Alive
  <2>3. Starting' /\ Closing'
    <3>1. /\ pc = "idle" /\ opened /\ live' = live /\ clientClosed' = clientClosed
          /\ pc' \in {"stop", "close_heartbeat"}
          /\ pc' = "close_heartbeat" => ~(thr # 0 /\ Alive(thr))
      BY DEF close, history
    <3>2. ~clientClosed /\ (live => thr # 0 /\ Alive(thr))
      BY <3>1 DEF IInv, Threads, StreamIsUp, Closing, Streams
    <3>3. QED BY <3>1, <3>2 DEF Starting, Closing
  <2>4. StopWasTried'
    BY DEF close, device, stream, receivers, history, IInv, Threads, StopWasTried
  <2>5. QED BY <2>1, <2>2, <2>3, <2>4 DEF Threads
<1>3. QED BY <1>1, <1>2 DEF IInv

LEMMA CloseStopHeartbeatPreserves ==
  ASSUME IInv, CloseStopHeartbeat
  PROVE  IInv'
<1>1. TypeOK'
  BY DEF CloseStopHeartbeat, device, user, heartbeat, stream, receivers, history, PcSet,
         IInv, TypeOK
<1>2. Threads'
  BY DEF CloseStopHeartbeat, device, user, heartbeat, stream, receivers, history, IInv,
         Threads, TypeOK, OneReceiver, StreamIsUp, Starting, Closing, StopWasTried, Alive
<1>3. QED BY <1>1, <1>2 DEF IInv

LEMMA CloseJoinHeartbeatPreserves ==
  ASSUME IInv, CloseJoinHeartbeat
  PROVE  IInv'
<1>1. TypeOK'
  BY DEF CloseJoinHeartbeat, device, user, heartbeat, stream, receivers, history, PcSet,
         IInv, TypeOK
<1>2. Threads'
  BY DEF CloseJoinHeartbeat, device, user, heartbeat, stream, receivers, history, IInv,
         Threads, TypeOK, OneReceiver, StreamIsUp, Starting, Closing, StopWasTried, Alive
<1>3. QED BY <1>1, <1>2 DEF IInv

LEMMA CloseReleasePreserves ==
  ASSUME IInv, NEW o \in Outcome, CloseRelease(o)
  PROVE  IInv'
<1>1. TypeOK'
  BY DEF CloseRelease, Heard, user, heartbeat, stream, receivers, history, PcSet, IInv,
         TypeOK
<1>2. Threads'
  BY DEF CloseRelease, Heard, user, heartbeat, stream, receivers, history, IInv, Threads,
         TypeOK, OneReceiver, StreamIsUp, Starting, Closing, StopWasTried, Alive
<1>3. QED BY <1>1, <1>2 DEF IInv

-----------------------------------------------------------------------------
(* Receiver threads *)

LEMMA ReceiverLoopPreserves ==
  ASSUME IInv, NEW n \in Streams, ReceiverLoop(n)
  PROVE  IInv'
<1>1. TypeOK'
  BY DEF ReceiverLoop, device, user, heartbeat, stream, receivers, history, IInv, TypeOK
<1>2. Threads'
  <2>1. OneReceiver'
    <3>1. /\ Alive(n) /\ UNCHANGED <<live, thr, sk>>
          /\ \A m \in Streams : m # n => rpc'[m] = rpc[m] /\ rsk'[m] = rsk[m]
          /\ rpc'[n] = "recv" => rsk'[n] = sk
          /\ rpc'[n] \in {"recv", "dead"}
      BY DEF ReceiverLoop, stream, history, Alive, IInv, TypeOK
    <3>2. live /\ n = thr /\ sk = n
      BY <3>1 DEF IInv, Threads, OneReceiver, StreamIsUp
    <3>3. QED BY <3>1, <3>2 DEF IInv, Threads, OneReceiver, Alive
  <2>2. StreamIsUp'
    BY DEF ReceiverLoop, stream, receivers, history, IInv, Threads, TypeOK, OneReceiver,
           StreamIsUp, Alive
  <2>3. Starting' /\ Closing'
    BY DEF ReceiverLoop, user, heartbeat, stream, receivers, history, IInv, Threads,
           Starting, Closing
  <2>4. StopWasTried'
    BY DEF ReceiverLoop, device, stream, receivers, history, IInv, Threads, StopWasTried
  <2>5. QED BY <2>1, <2>2, <2>3, <2>4 DEF Threads
<1>3. QED BY <1>1, <1>2 DEF IInv

LEMMA ReceiverRecvPreserves ==
  ASSUME IInv, NEW n \in Streams, ReceiverRecv(n)
  PROVE  IInv'
<1>1. TypeOK'
  BY DEF ReceiverRecv, device, user, heartbeat, stream, receivers, history, IInv, TypeOK
<1>2. Threads'
  BY DEF ReceiverRecv, device, user, heartbeat, stream, receivers, history, Streams, IInv,
         Threads, TypeOK, OneReceiver, StreamIsUp, Starting, Closing, StopWasTried, Alive
<1>3. QED BY <1>1, <1>2 DEF IInv

LEMMA ReceiverDeliverPreserves ==
  ASSUME IInv, NEW n \in Streams, ReceiverDeliver(n)
  PROVE  IInv'
<1>1. TypeOK'
  BY DEF ReceiverDeliver, device, user, heartbeat, stream, receivers, history, IInv, TypeOK
<1>2. Threads'
  BY DEF ReceiverDeliver, device, user, heartbeat, stream, receivers, history, Streams,
         IInv, Threads, TypeOK, OneReceiver, StreamIsUp, Starting, Closing, StopWasTried,
         Alive
<1>3. QED BY <1>1, <1>2 DEF IInv

LEMMA CallbackReturnsPreserves ==
  ASSUME IInv, NEW n \in Streams, CallbackReturns(n)
  PROVE  IInv'
<1>1. TypeOK'
  BY DEF CallbackReturns, device, user, heartbeat, stream, receivers, history, IInv, TypeOK
<1>2. Threads'
  BY DEF CallbackReturns, device, user, heartbeat, stream, receivers, history, Streams,
         IInv, Threads, TypeOK, OneReceiver, StreamIsUp, Starting, Closing, StopWasTried,
         Alive
<1>3. QED BY <1>1, <1>2 DEF IInv

-----------------------------------------------------------------------------
LEMMA NextPreserves == ~SlowCallbacks /\ IInv /\ [Next]_vars => IInv'
<1> SUFFICES ASSUME ~SlowCallbacks, IInv, [Next]_vars PROVE IInv'
  OBVIOUS
<1>1. CASE Expire
  BY <1>1, ExpirePreserves
<1>2. CASE UserCalls
  BY <1>2, openPreserves, start_streamPreserves, stop_streamPreserves, closePreserves
  DEF UserCalls
<1>3. CASE UserStep
  <2>1. CASE JoinReceiver \/ CloseStopHeartbeat \/ CloseJoinHeartbeat
    BY <2>1, JoinReceiverPreserves, CloseStopHeartbeatPreserves, CloseJoinHeartbeatPreserves
  <2>2. ASSUME NEW o \in Outcome,
               OpenWriteCcp(o) \/ OpenCheckCcp(o) \/ OpenStartHeartbeat(o)
        PROVE  IInv'
    BY <2>2, OpenWriteCcpPreserves, OpenCheckCcpPreserves, OpenStartHeartbeatPreserves
  <2>3. ASSUME NEW o \in Outcome,
               Configure(o) \/ StartAcquisition(o) \/ StopAcquisition(o) \/ CloseRelease(o)
        PROVE  IInv'
    BY <2>3, ConfigurePreserves, StartAcquisitionPreserves, StopAcquisitionPreserves,
       CloseReleasePreserves
  <2>4. QED BY <1>3, <2>1, <2>2, <2>3 DEF UserStep
<1>4. CASE HeartbeatStep
  BY <1>4, HeartbeatWaitPreserves, HeartbeatReadPreserves DEF HeartbeatStep
<1>5. ASSUME NEW n \in Streams, ReceiverStep(n) PROVE IInv'
  BY <1>5, ReceiverLoopPreserves, ReceiverRecvPreserves, ReceiverDeliverPreserves,
     CallbackReturnsPreserves DEF ReceiverStep
<1>6. CASE UNCHANGED vars
  BY <1>6 DEF vars, device, user, heartbeat, stream, receivers, history, IInv, Threads,
     TypeOK, OneReceiver, StreamIsUp, Starting, Closing, StopWasTried, Alive
<1>7. QED BY <1>1, <1>2, <1>3, <1>4, <1>5, <1>6 DEF Next

(* IInv holds in every state of every behaviour.                            *)
THEOREM InductiveInvariant == ~SlowCallbacks => (Spec => []IInv)
<1> SUFFICES ASSUME ~SlowCallbacks PROVE Spec => []IInv
  OBVIOUS
<1>1. Init => IInv
  BY InitEstablishes
<1>2. IInv /\ [Next]_vars => IInv'
  BY NextPreserves
<1>3. QED BY <1>1, <1>2, PTL DEF Spec

(* The state keeps its types, and the stop event and the thread of a stream *)
(* are replaced together.                                                   *)
THEOREM TypeCorrect == ~SlowCallbacks => (Spec => []TypeOK)
<1>1. IInv => TypeOK
  BY DEF IInv
<1>2. QED BY <1>1, InductiveInvariant, PTL

(* When stop_stream has returned, no thread is left to call on_frame, and   *)
(* when the camera has been closed, none to keep its control alive.         *)
THEOREM NoCallbackAfterStop == ~SlowCallbacks => (Spec => []NothingAfterStop)
<1>1. IInv => NothingAfterStop
  BY DEF IInv, Threads, OneReceiver, Closing, NothingAfterStop
<1>2. QED BY <1>1, InductiveInvariant, PTL

(* A frame that get_latest_frame returns while a stream is up is a frame of *)
(* that stream.                                                             *)
THEOREM LatestFrameIsFresh == ~SlowCallbacks => (Spec => []FreshFrames)
<1>1. IInv => FreshFrames
  BY DEF IInv, Threads, StreamIsUp, FreshFrames
<1>2. QED BY <1>1, InductiveInvariant, PTL

(* Control of a device that is still acquiring is given back only after its *)
(* AcquisitionStop was sent and failed.                                     *)
THEOREM StopComesBeforeRelease == ~SlowCallbacks => (Spec => StopBeforeRelease)
<1>1. IInv => \A o \in Outcome : CloseRelease(o) /\ acquiring => stopRaised
  BY DEF IInv, Threads, Closing, StopWasTried, CloseRelease
<1>2. QED BY <1>1, InductiveInvariant, PTL DEF StopBeforeRelease, Spec
=============================================================================
