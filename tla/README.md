# Verification of lightfall-endstation-7011

TLA+ models of the concurrent and failure-prone parts of the endstation plugin
for beamline 7.0.1.1, the TLC configurations that check them on small instances,
and TLAPS proofs of the properties that matter most. Source paths are relative to
`src/lightfall_endstation_7011/` unless they start with `tests/` or `docs/`.

## 1. The system

The package is a plugin of the (external) Lightfall desktop program. It adds
devices, widgets, panels and agent skills. These threads of control meet in it: the
Qt thread (on which the IPC service also delivers the XPCS service's events), the
Bluesky run-engine thread, and for each GigE camera a heartbeat thread, a receiver
thread and the thread of whoever calls the camera.

| Part | State | Operations | Talks to |
|---|---|---|---|
| `observers/blackfly/gvsp.py` FrameAssembler | block id, leader, payload dict | `feed` | fed by the receiver loop |
| `observers/blackfly/gvcp_transport.py` GvcpClient | socket, lock, id cycle | `read_register`, `write_register`, `read_memory`, `close` | the device over UDP |
| `observers/blackfly/camera.py` BlackflyCamera | opened, stream socket, stop events, threads, latest frame | `open`, `close`, `start_stream`, `stop_stream`, `get_latest_frame`, two thread loops | GvcpClient, FrameAssembler, `on_frame` of the view |
| `observers/blackfly/discovery.py` | answers by IP | `discover` | all devices of the subnet |
| `xpcs/binding.py` RunBindingController | token, bound run | `enable`, `disable`, document callback | run engine, XPCSClient |
| `xpcs/client.py` XPCSClient | NATS subscriptions | requests with a 2 s timeout, fire-and-forget publishes | XPCS service |
| `xpcs/panel.py`, `xpcs/plots.py` | curves, controls, visible mask | event slots, `resync` | XPCSClient, overlay |
| `xpcs/roi_overlay.py` | ROIs, masks, colours, debounce timers | add, remove, move, clear, `sync_from_status` | panel |
| `devices/motor.py` DeadbandEpicsMotor | (ophyd) | `move` | ophyd statuses |
| `devices/andor.py`, `devices/pimte3.py` | staging, shutter mode, warm-up flag | `stage`, `unstage`, `trigger`, `stop` | ophyd, EPICS areaDetector |
| `alignment/convergence.py`, `alignment/fitting.py` | history of cycles | `record`, `is_converged`, `fit_falling_edge_halfcut`, `fit_peak` | the agent's tools |
| `alignment/skill.py` | none of its own: motors, runs and diode are the host's | beam check, scans, quick reads, fits, plots; the procedure of the prompt | run engine, run catalogue, agent |
| `widgets/diode.py` DiodeControllerWidget | device, signal, timer | `can_control`, `set_items`, refresh, close | the host's selection, ophyd |
| `widgets/andor.py`, `widgets/pimte.py`, `pipelines/*`, `support/*`, `manifest.py` | layout, declarations, prompt text | | |

### What makes it hard, and what makes each part correct

* **Reassembly.** UDP loses, reorders and repeats; block ids are 16 bits wide and
  wrap. A frame must never mix two images, a complete one must not be
  withheld, and no damage may wedge the assembler.
* **Register channel.** Two threads share a socket; answers arrive after their call
  gave up; retries repeat writes. A call's result must be about that call, a
  value once written must stay, every call must end and free the lock.
* **Camera.** Four threads; every register call may raise half-way; the device
  drops control by itself. Streams and threads must end in order, no callback
  may come after `stop_stream`, control must never be kept by accident.
* **Run binding.** Requests time out after they took effect; documents arrive on
  another thread during `disable`. Backend and toggle must agree; a run that is
  bound must be stopped.
* **Panel and overlay.** Events arrive during the blocking calls of `resync`;
  debounced edits of ROIs that are gone; colours must stay distinct.
* **Motor.** A null move must not hang and must not pass an unfinished move off as done.
* **Detectors.** Any write of a stage, warm-up or unstage may time out, its value arrived
  or not; what the user had set must not be lost on the way.
* **Alignment.** The decision rules (converged, monotonic, at the boundary) must not
  accept what their documentation rules out; no motor may follow a fit of another scan; the
  loops must end.
* **Diode, discovery.** The value shown is that of the diode selected; answers that are
  repeated, late or foreign must not add, hide or end anything.

`PROJECT.json` lists the hazards one by one with the line where each bites
and the property that covers it, or the reason why none does yet.

## 2. Plan

A project of this size keeps to about a dozen TLC runs, so each module has one run
for its safety and liveness together where its state space allows it, and a
violation run only where the code contradicts a text of the repository.

Done:

1. `FrameFeed`, `FrameAssembler`, `FrameAssemblerProofs`: reassembly, its abstract
   specification, and the proofs, the refinement among them.
2. `RemoteRegister`, `GvcpClient`, `MCGvcpClient`, `GvcpClientProofs`: the register channel, what it promises,
   and the proof that it does.
3. `BlackflyCamera`, `BlackflyCameraProofs`: control and streaming, on top of what 2
   promises of a call.
4. `ROIOverlay`, `ROIOverlayProofs`, `RunBinding`, `RunBindingProofs`, and `MCXPCS`, which checks both: the parts of the XPCS panel in
   which user, service and run engine act at the same time.
5. `XPCSPanel`, `XPCSPanelProofs`: the event slots and `resync` against a service that
   keeps running.
6. `DeadbandMotor`, `DetectorStaging`: devices whose calls overlap or fail half-way.
7. `ScanFit`, `ScanColumns`, `AlignmentProcedure`, `AlignmentProofs`: what
   is decided about one scan, which columns it is decided from, and where the agent goes next.
8. `Discovery`, `DiodeWidget`. `MCEndstation` checks the parts of 6 to 8, `EndstationProofs` proves
   those of 6 and 8 and puts all of them together.
9. Proofs of every invariant and every action property that a passing run checks.

Left:

10. `BlackflyCamera` stated over several instances of `RemoteRegister` instead of over register calls that
   are steps, so that what the client implements is what the camera is built on in one specification.

## 3. The modules and the code

### FrameFeed, FrameAssembler

`FrameAssembler.feed(p)` is the method of that name, one disjunct for each branch in
the order of the code: a leader (`FeedLeader`, which also resets), a packet of
another block or without a leader (`FeedForeign`), a payload, a trailer (which
returns a `Frame` when `IsComplete`, and resets in either case). `block_id`, `leader` and `payloads` are the three
attributes. A packet carries its kind, its block id, its packet id, and - what
is not on the wire - the image its bytes were cut from; the byte layout, timestamps
and geometry are left out. The camera sends the packets of an image in order
(`NewFrame`, `SendPacket`), the network drops, repeats and, if `Reorders`, reorders
(`Drop`, `Arrives`); a packet that `parse_packet` rejects is a lost one, for the receiver
loop only goes on. `FrameFeed` is what a viewer relies on over an ordered network: the images
shown are some of those captured, each once, in the order of their capture.

### RemoteRegister, GvcpClient

One `_call` of each of several threads: `Invoke` takes the id, outside the lock, `Acquire` the lock, then `Send`,
`RecvForeign`, `RecvAck`, `RecvShort`, `Timeout`, `GiveUp`, `RaiseClosed` are the statements
and exceptions of the loop, `Finish` the end of the `with` block. `close` is the client's
`close`. `read_register` (and `read_memory`, which differs in layout only) is a call with value
`None`, `write_register` one with the value it writes. The network is two sets of
datagrams; the device performs a request or denies it (`Execute`) and echoes its id.
`RemoteRegister` is what a caller relies on over an ordered network: writes are performed in the order in which
their calls got the lock, some late and some never, and one that returns is the last performed until another is sent.
`Register` maps to it: the newest write is the highest number of a call that the device has performed a write of.

### BlackflyCamera

The user's thread is the program counter `pc`, the methods `open`, `close`, `start_stream`,
`stop_stream` begin its actions, and every register call or `join` is a step of its own that
may raise. The heartbeat thread is `hpc`, the receiver thread of the n-th stream `rpc[n]`. The stop
event, socket and thread that `start_stream` makes are all numbered by the stream,
because the receiver loop looks `self._receiver_stop` and `self._stream_sk` up anew in each
round: `ev` and `sk` are what it finds, `rsk[n]` the socket it read last. The device drops control
when its heartbeat time is over (`Expire`) and performs commands only for the host in
control. `live` and `stopRaised` are history. A frame is its stream's number; decoding
is not modelled, but a decode error is (the loop goes on).

### ROIOverlay

All of the panel runs on the Qt thread, so one handler is one action: the buttons
(`OnAddRoi`, `OnClearRois`, `OnAddMask`, `OnApplyMask`, `OnClearMask`), a drag, which starts the region's
debounce timer, its expiry (`TimerFires`), the first `resync` of a panel, and the slot for a
new detector, which empties the overlay and replaces it. `RemoveRoi` is the overlay's
`remove_roi`, which no control of the panel calls singly. `rois`, `colors` and `pending` are `rois`,
`_colors` and the running timers; of the masks only the number is kept. The service
(external) keeps `backend` and `backendMask`, drops both when a run binds another detector and
when it restarts.

### RunBinding

The Qt thread's `enable` and `disable` are cut at each call that can fail or that another thread
can see (`Enable`, `Subscribe`, `Unsubscribe`, `Disable`), the document callback on the run engine's
thread at `bind_run` and at the end of its branch. `token` and `bound` are `_token` and `_bound_uid`; `processing` and
`open` are what the service has heard. `failed` and `covered` are history.

### XPCSPanel

The service (external) binds runs, changes state, completes sections, publishes results and meets
errors; each sends an event to `queue`, which the Qt thread empties one by one
(`HandleEvent`; a disjunct for each of the four slots of `panel.py`). `resync` is cut where it
blocks: `ResyncStatus`, then one `ResyncPage` per request; meanwhile events queue up, though the
answers used at once are newer. Every curve, section and point of the four plots is stamped with
the run it is of, which is all that is kept of its data; a region whose arrays differ in length
is `ragged`, and each plot treats it in its own way. The user may reset, clear, and close the panel and open another. The error label
shows what the service said last or, if the toggle raised since, what that exception says (`ToggleFails`), which may be nothing.
`early`, `missed`, `failing`, `toggleFailed` and `wasReset` are history: a run bound before the panel opened, an answer of `resync` that did not come,
an error since the file that streams, a toggle that failed after it, a reset of the run.

### ScanFit, ScanColumns

`ScanFit` is one call of `fit_falling_edge_halfcut` or of `fit_peak`. The least squares may end in
any `Outcome`: an exception, numbers that are not finite, any centre, any of three grades of R^2. What the code
makes of it, gate by gate and tier by tier (`TryShape`, `FallBack`), is exact, the prominence and
the centroid included, in integers: both sides of each comparison are squared or multiplied out.
`ScanColumns` is `_select_xy_fields` as the fit tool and the plot tool of `alignment/skill.py` call it on one run. Of a name, only what it contains matters;
of the data, whether there are none, one or several points (`points`), which columns have no gap (`finite`), and how much each varies.

### AlignmentProcedure

The program here is the prompt of `alignment/skill.py` with the tools it names: coarse lift scan, then cycles of a
lift and a theta scan, each of a beam check, a scan, a fit and a move, and after each cycle the tracker of
`convergence.py`. `stage` and `step` say where the agent is. `lastRun` is what `ncs_wait_for_idle`
reports, which a quick read (`QuickRead`, possible at any step after the preflight) changes too: if it comes between a scan
and its fit, the fit is of its single point and finds nothing. A scan whose plan fails, a fit without data, a beam check that cannot
read the diode end the procedure. A lift scan leaves the motor at its end, a theta scan takes it back.

### DeadbandMotor

`move()` is `Check` (the comparison of `motor.py:82`) and `Request` (the rest, in `EpicsMotor`
and `PositionerBase`). The motor record does not move for a target within its deadband; at exactly the
deadband it may or may not. Its changes of DMOV reach the client late, in order. `moves` is the
status of every move.

### DetectorStaging

Both detectors, `model` telling them apart. ophyd's `stage` and `unstage` write signal by signal, so each `Write` is a step, and each may
time out instead (`TimeOut`), its value arrived or not. `originals` is `_original_vals`, `staged` is `_staged`; `lost` (a stage's write that arrived and
timed out, which ophyd does not remember) and `halfWarm` (a warm-up that failed half-way) are history. `stop()` changes what the user wants of `acquire`, unless it
is remembered. The Andor's
stage undoes a half-failed one first and warms its HDF5 plugin up at the end; the PIMTE's
shutter calls try five times, the Andor's once.

### Discovery, DiodeWidget

`discover()`: a command to each broadcast address, then `recvfrom` until the deadline; any
interface answers any command, late or not at all. The clock (`Tick`) goes on whatever waits in the socket, and a `recvfrom` begun before the
deadline (`Listen`) may return after it. The diode widget: the host's selection, the timer, a
device that connects and disconnects; `can_control` is `Priority`.

### MCEndstation, MCXPCS

The parts of the last five headings before this share no state, so in `MCEndstation` one behaviour follows one of them
(`part`), while the others rest in their initial state. A run therefore has the sum of
their states, not the product, and each property is checked over all behaviours of its part.

`MCXPCS` does the same for `RunBinding` and `ROIOverlay`.

Every definition that models code is listed in `PROJECT.json` ("map") with the
lines it stands for. Definitions whose comment begins with "Fault:" are not part of a
model: each is a plausible mistake in the definition after it, and the property
named with it in `PROJECT.json` ("mutants") is violated when it takes that definition's place.

## 4. The runs

| Run | Properties | What it shows |
|---|---|---|
| `reorder` | `FrameIntegrity`, `CompleteBlockReturned` | No torn frame and no complete one withheld, with loss, reordering, two repeats and ids that wrap after two images. |
| `in_order` | `FeedSpec`, `Recovers` | Over an ordered network `FrameAssembler` implements `FrameFeed`, and after any losses it is whole again with the first complete image. |
| `delayed` | `ReadsAreCurrent`, `WritesAreApplied` | Two threads, three calls, late and repeated answers: a result is about its own call. |
| `client_in_order` | `WriteStays`, `RegisterSpec`, `CallEnds` | Over an ordered network `GvcpClient` implements `RemoteRegister`, so an abandoned write does not undo a later one; every call ends. |
| `lifecycle` | `NothingAfterStop`, `FreshFrames`, `StopBeforeRelease`, `ControlIsReturned`, `LossIsNoticed` | Three streams, failing calls, lost control: threads end with their stream, control comes last and is given back. |
| `toggle_and_regions` | of the regions: `TypeOK`, `PanelMatchesService`, `ColorsDistinctSoFar`, `NoUnsolicitedChange`, `Recovers` | Panel and service agree on every region unless a request is lost or the service restarts, and come to agree after drags, reopening and changes of detector. |
| | of the toggle: `EnabledIsProcessing`, `BoundRunIsStopped`, `DisableIsHeard` | Toggle, documents, late and lost messages in any order. |
| `panel` | `OneRunShown`, `SeriesAscend`, `SectionsComplete`, `TextsAreCurrent`, `ResyncEnds` | Whatever queues up behind `resync`, and whichever answers are lost: once the panel has caught up it shows one run, every section of it if it was bound while the panel was open, the state of the service, and the error that was met last, of the service or of the toggle. |
| `parts` | `PartsTypeOK` | Types of the parts, with the caps on cycles and on attempts at the shutter. |
| | of the fits: `PositionIsMeant`, `SlopeIsNoPeak` | No peak in a slope, no detection at the boundary, a position exactly where one is promised. |
| | of the columns: `ToolsReadTheScan` | The fit reads the motor that was scanned, and the plot shows that fit if nothing stands between (a single point, a gap, a second diode, a device that varies more). |
| | of the procedure: `MovesAreMeasured`, `CyclesAreWhole`, `ConvergedMeansStable`, `ProcedureEnds` | Motors go where the scan at hand says, convergence is about whole cycles, everything ends. |
| | of the motor: `StatusesAreTrue`, `NoHang` | Every move ends, and a replaced one in failure; one asked of a motor at rest ends in success only at its target. All if the motor is not racing the call. |
| | of the detectors: `UserSettingsKept` | Whatever write of a stage, warm-up, trigger or unstage fails, image mode and `acquire` are the user's or remembered with the user's value, but for a stage's write that arrived and timed out; the trigger mode is the user's again but for a warm-up that failed half-way; a staged Andor has its image mode. |
| | of diode and discovery: `ShowsSelected`, `FindsWhoAnswers` | The diode selected is shown in the end; who is heard in time is found unless the answer still lies unread in the socket, and at most one who answers later. |

The types of five modules are left to their theorems and not checked again by a run: `TypeCorrect` of `FrameAssembler`,
`GvcpClient`, `BlackflyCamera` and `RunBinding`, `PanelTypeCorrect` of `XPCSPanel`.

Four runs are expected to end in a violation; each is a finding:

* `close_stops_stream`: `camera.py:55` documents that `close()` stops an active stream before it
  releases CCP. It goes by the receiver thread (`camera.py:110`): after a `stop_stream()`
  whose AcquisitionStop raised, the thread is gone, the device still acquires, and
  `close()` does not try again. `StopBeforeRelease` is what does hold.
* `binding_late_enable`: the reply to `enable` comes after the 2 s; the service processes, the
  controller is not enabled, and letting the button up sends nothing (`binding.py:114`), though
  the toggle is to drive everything (design document, lines 235 and 243). `DisableIsHeard` is what holds.
* `motor_race`: `devices/motor.py:3` promises to handle moves within the deadband without hanging. The
  position is compared before the request; a motor that was still on its way, and comes to rest
  within its retry deadband of the new target in between, does not move again, and nothing ends the status. With
  `Racing = FALSE`, as in `parts`, `NoHang` holds.
* `panel_backfill_doc`: the sections a new panel fetches are to fill the overlay, and panel restarts to "recover cleanly" (design document,
  lines 274 to 279; plan `docs/superpowers/plans/2026-06-05-xpcs-panel.md`, line 1409). `resync` does not set `_run_uid`, so the first `xpcs.state` event of the
  run under way is taken for a new run (`xpcs/panel.py:238`) and clears them, and nothing fetches them again. `SectionsComplete` is what holds:
  every section of a run bound while the panel is open, and of an earlier one until an event names it.

The design document is `docs/superpowers/specs/2026-06-05-xpcs-lightfall-port-design.md`.

Observations that have no run, for want of a text that promises otherwise or of a state that could tell:

* Panel: the design (line 275) has the echoed mask rebuild the overlay; `resync` (`panel.py:323`) hands it the regions
  only. Line 277 has panels recover from a restart of the service; `resync` is called when a panel is made
  (`panel.py:106`) and never again.
* Overlay: a comment (`xpcs/roi_overlay.py:28`) has up to `len(ROI_COLORS)` live regions stay
  distinct; after an overflow a doubly used colour stays so when others are removed one by one.
* Alignment: for a fit between the two thresholds of R^2 the position is reported though nothing is
  detected, where the prompt has it null. On more than 20 points one rising step in a falling scan still counts as monotonic. A failed lift fit
  leaves the lift at the end of its scan. The plot takes the first column with "iode" in its name, and a run
  without a lift column for a theta scan.
* Motor: a `move_tolerance` smaller than the retry deadband leaves moves between the two to a record
  that does not move.
* Detectors: a warm-up that fails half-way leaves the trigger mode it set. A stage's write that arrives and times out is not remembered, so
  what it replaced is lost. The PIMTE refuses to stage after a
  half-failed stage until it is unstaged.
* Diode: a tagged device without a component `diode` goes on showing the one before.

### Bounds

* `FrameAssembler`: two payloads are the least that can be lost separately or come
  from two images; ids wrap after two images (`reorder`: a stale block's id is
  the next one's but one) or four. In `in_order` the first three of five images may be damaged, so
  that every mixture of fragments precedes a whole one, and the fifth reuses the first one's id.
* `GvcpClient`: two threads, as in the program; three calls let an answer be late for
  a call after the next, and ids come round after two. `client_in_order` has the code's two
  retries, so each of its two calls sends up to three datagrams. Values and (for safety) callers
  are interchangeable, hence the symmetry of `delayed`; the run with liveness has none.
* `BlackflyCamera`: three streams put a restart between two others, so a thread, event or
  frame that survives has both a predecessor and a successor to be confused with.
* `ROIOverlay`: three regions and two colours, so that colours run out; two shapes tell a
  region moved from one that was not; one mask.
* `RunBinding`: three runs; the controller keeps one uid, so two would do.
* `XPCSPanel`: pages of two sections and up to three of them give a full page, a partial one, and one
  that has become empty; two runs and four happenings let a run change between any two pages.
* `ScanFit`: six points are two more than a fit takes, so that a boundary on either side, a plateau and a peak
  fit in; three heights; thresholds of 1 noise and 1/4 make few points count as the code's 5 and
  1/20 make many (the proofs of `SlopeIsNoPeak` and `PositionIsMeant` have neither bound).
* `ScanColumns`: four columns: the motor's, two diodes, and one more that varies less or more; none, one or several points; gaps in the motor's
  columns or in all others.
* `AlignmentProcedure`: four cycles are one more than convergence takes with the code's two comparisons; three offsets
  of a fit leave pairs within and beyond the tolerance; one quick read, which falls between any two steps after the preflight.
* `DeadbandMotor`: three moves on positions at, within and beyond the deadband of one another.
* `DetectorStaging`: two time-outs, the second one in the clean-up after the first; two attempts at the shutter.
* `Discovery`: two broadcasts, three interfaces of two cameras, one foreign datagram; `DiodeWidget`: every combination
  of class, tag and component.

`CHECK_DEADLOCK FALSE` appears only where the environment is bounded and may end: all images
sent and received, all calls made. The other modules are checked for deadlock.

### Fairness

* `FrameAssembler` (`Recovers`): the camera goes on sending and the receiver thread reading (weak).
* `GvcpClient` (`CallEnds`): weak, for each thread separately, over all its steps. The
  socket has a timeout, so a blocked `recvfrom` ends; a waiter gets the lock because it is
  free for good once the others' calls, bounded in number, have ended. Nothing is asked of network and device.
* `BlackflyCamera`: weak for each thread and for the device's clock; strong for an answered
  heartbeat read, i.e. not every one is lost for ever. The user need not call anything:
  `ControlIsReturned` lets him go on calling instead.
* `ROIOverlay`: the Qt loop runs: timers fire, queued signals are handled (weak).
* `RunBinding`: the Qt thread finishes the handler it is in (weak). Nothing is asked
  of user and run engine.
* `XPCSPanel` (`ResyncEnds`): the Qt loop runs, so a queued event is handled and a request ends,
  with an answer or by its time-out (weak, for `HandleEvent` and for `Resync`). Nothing is asked of the service.
* `MCEndstation`: one weak condition for what has to go on in the part that is followed: the agent does what
  the prompt says is next (`ProcedureEnds`), a call of `move` continues, a motion ends and its events arrive
  (`NoHang`), the timer of the widget fires (`ShowsSelected`). In a behaviour only one part moves, so the one condition
  is each part's own.

## 5. Assumptions

* **Fresh ids.** `IdIsFresh` in `FrameAssembler` and `GvcpClient`: no datagram outlives a whole cycle of
  65536 block ids or 65535 request ids, and not every leader of a whole cycle is lost. Nothing in the code checks it.
* **Order.** `FeedSpec`, `Recovers`, `WriteStays` and `RegisterSpec` are about a network that keeps the
  order of datagrams, as the direct link of a camera does. They do not hold otherwise: a repeated old
  leader, or a late retransmission, brings back an old image or value.
* **Foreign datagrams** are finitely many (`CallEnds`): the inner loop of `_call` (`gvcp_transport.py:54`) has no deadline of its own, and a stream of
  them that never pauses would keep it from its time-out. In `Discovery` they are bounded too, but there the deadline ends the loop.
* **`sendto` succeeds** on a socket that is open, once it has been opened.
* **Register calls are steps** in `BlackflyCamera`, with outcome answered, performed but
  unanswered, or lost. `GvcpClient` is the reason: a call that returns has been performed
  (theorem `WritesThatReturnAreApplied`), none takes effect after a later one over an ordered network
  (`WritesInOrder`), and the lock serialises the threads (`TypeCorrect`).
* **Callbacks return in time.** `stop_stream` waits 2 s for the receiver thread. With `SlowCallbacks
  = TRUE` the wait may end before the thread does; TLC then refutes `NothingAfterStop`. The proofs and the
  run have `SlowCallbacks = FALSE`. The heartbeat thread is assumed to end within its own join.
* **Lifecycle.** `start_stream` is called on an open camera without a stream, as its callers do;
  calling it twice in a row is outside the model.
* **One NATS connection** keeps the order of what the panel sends; the service is external and does what its
  messages say. In `ROIOverlay` no run binds another detector while the panel's first `resync` is still to come.
* In `RunBinding` the engine's `unsubscribe` does not raise for a token it gave out. A start document in
  flight may bind a run after `disable()`; the model has this, and since nothing promises
  otherwise `BoundRunIsStopped` speaks of unbroken subscriptions.
* In `XPCSPanel` the service announces a run by `xpcs.state` before anything of it, streams each run
  from one file, and sends the average with every result and with every section.
* In `AlignmentProcedure` the agent follows the prompt; what it may observe and which tool fails is open.
* In `DeadbandMotor` record, `EpicsMotor` and `PositionerBase` are external, as the code and its tests use them. `DoneMeansThere` and
  `NoHang` are about a record that does not move between comparison and request (`Racing = FALSE`).
* `None` is Python's: neither a number, a grade nor a position (`ScanFit`, and likewise elsewhere). What others broadcast is no answer of a
  camera (`Discovery`). Region identifiers have eight hexadecimal digits, so there are finitely many (`ROIOverlay`).
* In `DetectorStaging` a camera that acquires before it is staged does so continuously.

## 6. What is proved

All theorems hold for every value of the constants under the named assumptions of the
modules: scans of any length, any number of threads, regions, runs, cameras or time-outs. Every invariant and
every action property of the passing runs is among them, and so are the types of every
module. Each theorem rests on an inductive invariant:

* `FrameAssemblerProofs`: *types; every datagram and the open block are less than an id cycle old; the
  payloads kept are those of the leader's image.* `SameIdSameFrame` (two frames less than a
  cycle apart with equal ids are equal) makes the step for wrapped ids. `NoTornFrame` proves
  `FrameIntegrity`. `InOrderDelivery` proves the refinement of `FrameFeed` when `Reorders` is false, with the
  further invariant that what is on its way is not older than what was handed on. `CompleteBlocksReturn` proves the
  action property `CompleteBlockReturned` from another one: *of what was heard since the last leader one packet is a
  leader, and until its trailer comes, that image is being assembled, with every payload heard of it (`StillAssembling`).*
* `GvcpClientProofs`: *running calls have distinct ids and no result (`RunningCalls`); a request with a
  running call's id is that call's (`RequestsAreOwn`); an acknowledgement with that id tells the
  truth about it (`AcksAreTrue`).* The last is why one comparison of ids in `_call` suffices: `ReadsReturnCurrentValues`,
  `WritesThatReturnAreApplied`. `WritesStay`, for a network that does not reorder, adds that *the caller
  with the lock has the highest number, and once its write is acknowledged, or a write has settled, nothing on its way to the device
  writes another value (`LastCall`, `AckedWriteHolds`, `SettledHolds`).* `WritesInOrder` proves the refinement of `RemoteRegister`
  with one more invariant (`InTurn`): *no request on its way is older than the last write performed; those of one call are
  equal, and those of the last write performed write what the register holds; once a write has settled, no newer one is on its way.*
* `BlackflyCameraProofs`, with callbacks that return in time: *only the thread of the stream that is up runs, and on
  its own socket (`OneReceiver`); a stream that is up has its thread, an unset event and an open
  socket (`StreamIsUp`); a stream being started has an event nobody has set (`Starting`); `close` ends threads in
  order (`Closing`); a device that acquires without a stream has missed a stop (`StopWasTried`).*
  From it `NoCallbackAfterStop` (which covers `close` as well), `LatestFrameIsFresh` and the action property `StopComesBeforeRelease`.
* `RunBindingProofs`: *the service is told before the engine is subscribed and after it is unsubscribed (`QtOrder`);
  an unbroken subscription reaches from start to stop document (`RunOrder`).* From it
  `EnabledImpliesProcessing` and `BoundRunsAreStopped`.
* `ROIOverlayProofs`: *types; every timer that runs is that of a region the user has moved; `peak` is at least the number of regions
  shown (`OverlayInv`).* While there are fewer regions than colours, not all colours are taken (a pigeonhole argument,
  `NewColor`), so `_allocate_color` finds a free one; `sync_from_status` gives as many regions different ones, for below the length of the
  palette the position modulo that length is the position itself. From it `OverlayTypeCorrect`, `ColorsStayDistinct`,
  `PanelAndServiceAgree` and the action property `NoOldTimerReports`.
* `XPCSPanelProofs`: *the newest state event that still waits says what state the service is in, and if none waits
  the label does, once `resync` has had its answer.* `LabelEndsCurrent` proves `LabelIsCurrent`; without the
  first half, the older events behind a newer answer could end anywhere. `ErrorEndsCurrent` rests on an invariant of
  its own (`ErrorInv`): *the events that wait, handled one after the other, turn the message that is shown into one of an error
  the service has met, or of a toggle that failed since (`Leads`).* Together they are `TextsEndCurrent`, the proof of `TextsAreCurrent`. The plots have four more, each
  on top of the ones before: *types of what waits and of what is drawn (`PanelInv`, `PanelTypeCorrect`); named events wait in the order of
  their runs, and all that is shown and waits is of the service's run, or the event that will clear the panel for it still waits
  (`RunsInv`, `OneRunIsShown`); every section of the service is drawn, or waits behind the event that announces its run, or is yet to be fetched by
  `resync` (`SectionsInv`, `SectionsEndComplete`); results that wait are of one run with the points and the results before them, or
  the panel is cleared before they are handled (`SeriesInv`, `SeriesNeverMix`).*
* `AlignmentProofs`, the fits: *the scan is a sequence of numbers, and nothing is decided before there is one.* `UpsOfASlope` and
  `SlopesAreMonotonic` show that `_is_monotonic` holds of every profile that rises or never rises, whatever its tolerance;
  with it every tier ends at the boundary flag: `NoPeakInASlope`. `PositionsAreMeant` rests on `MeantInv`: *a result is a well formed one whose
  position is present, absent and in the scan as its verdict says*; its lemmas say that sums of numbers are numbers
  (`SumsAreIntegers`), that some reading is the highest, and that a fallback always has a position.
* The columns: *a run has columns of its motor, which vary alike and more than nothing, and one of a diode (`RunTaken`); what a
  tool has read is what it would read of this run.* `ScansAreReadRight` then follows `_select_xy_fields` branch by branch, over any list of columns.
* The procedure: *what is about to be fitted is the run of the current scan or a quick read, and what is about to
  be moved to is a fit of the current scan (`FreshFit`); a cycle has lift, then theta, moved to a fit of its own (`CycleSoFar`).* From
  it `MotorsGoWhereMeasured` and `OnlyWholeCyclesCount`. `ProcedureTypeCorrect` contains the cap on the number of cycles.
  `ConvergenceIsStable` has the comparisons of `is_converged`, each of two neighbouring cycles, and chains them into a bound on any two of the
  last ones.
* `EndstationProofs`, the motor: *only the last move can be pending; what a call found within the tolerance still is; for a move that
  began at rest, the reports on their way are those of that very motion, the last of them sent at the target
  (`OwnMotion`).* From it `ReplacedMovesFail` and, with `Racing = FALSE`, `DoneIsThere`;
  together `MovesEndTruly`, the proof of `StatusesAreTrue`.
* The detectors: *at any point of a stage, an unstage and a warm-up, what is still to be written and what is remembered
  together hold every setting of the user that the detector does not have, but for what was lost (`StagingLoop`, `UnstagingLoop`, `WarmupLoop`, `CooldownLoop`).* From
  it `UserSettingsComeBack`, for any number of time-outs.
* Discovery and the diode: *an interface that was heard has its entry, or its answer waits in the socket; while a `recvfrom` is under way
  none but those have one, and once the last has returned at most one more* (`EveryAnswerCounts`); the types of the widget say that the device shown is the one selected, in its own units (`UnitsMatchTheValue`).
* The parts together: `PartsAreTyped` and `PartsKeepTheirPromises` carry what is proved of each part over to `Spec` of
  `MCEndstation`, of which every step is a step of one part and leaves the others alone.

Induction over data is out of the prover's reach, so an argument that would need it - every sum is a number, every
profile has a highest reading, converged neighbours make a converged window - is one by the least exception instead: of the numbers at which
the claim fails there would be a least one (well-foundedness of the naturals, `LeastNumber`), and the one before it already gives the claim. For the same reason
the sums of `ScanFit` are a recursive function (`Total`), not a fold.

Only model-checked: all liveness (`Recovers` of both modules, `CallEnds`, `ControlIsReturned`, `LossIsNoticed`, `DisableIsHeard`,
`ResyncEnds`, `ProcedureEnds`, `NoHang`, `ShowsSelected`), which is beyond the prover.

## 7. What is not modelled

* Pixel decoding and the numerics of the least squares: arithmetic on arrays. What the code makes of
  their results is modelled, over every result they could have.
* The values of curves, their colours, layout and labels; `ScanFit` and `ScanColumns` stop where drawing begins.
* The file store paths and plugin signals of the detectors that staging only passes on.
* Device classes that only declare components (`devices/diode.py`, `devices/lakeshore.py`), the two camera
  widgets (host widgets with a cooler panel), pipelines, notebooks, plugin manifests, and the prompt texts of the
  skills other than the alignment procedure: nothing in them changes a state of its own.

`PROJECT.json` ("components") has each part with its status.
