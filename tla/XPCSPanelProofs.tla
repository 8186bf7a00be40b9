-------------------------- MODULE XPCSPanelProofs ---------------------------
(***************************************************************************)
(* What XPCSPanel promises for any number of runs, sections, frames and    *)
(* events, any page size and any requests left unanswered: its texts,      *)
(* then its types, then its plots, which show one run (RunsInv), lack no   *)
(* section (SectionsInv) and draw lines that ascend (SeriesInv).  Each     *)
(* invariant assumes the ones before it.                                   *)
(***************************************************************************)
EXTENDS XPCSPanel, TLAPS

IsState(e) == e.subject = "state"

NoState(q) == \A i \in DOMAIN q : ~IsState(q[i])

LastStateIs(q, state) ==
    \A i \in DOMAIN q :
        IsState(q[i]) /\ (\A j \in DOMAIN q : IsState(q[j]) => j <= i) => q[i].state = state

LabelIs(state) == label = state \/ (Lossy /\ label = Missing)

(* The newest of the events that still wait says what state the service is    *)
(* in; if none does, the label has it, from an event or from resync.          *)
IInv ==
    /\ \E S : queue \in Seq(S)
    /\ LastStateIs(queue, service.state)
    /\ NoState(queue) /\ phase # "opening" => LabelIs(service.state)

-----------------------------------------------------------------------------
LEMMA EventsAreQueued ==
    ASSUME NEW S, NEW q \in Seq(S), NEW e
    PROVE  /\ Append(q, e) \in Seq(S \cup {e})
           /\ DOMAIN Append(q, e) = DOMAIN q \cup {Len(q) + 1}
           /\ Len(q) \in Nat /\ DOMAIN q = 1 .. Len(q)
           /\ \A i \in DOMAIN q : Append(q, e)[i] = q[i]
           /\ Append(q, e)[Len(q) + 1] = e
<1>1. q \in Seq(S \cup {e}) /\ e \in S \cup {e}
  OBVIOUS
<1>2. QED
  BY <1>1

LEMMA EventsAreTaken ==
    ASSUME NEW S, NEW q \in Seq(S), q # <<>>
    PROVE  /\ Tail(q) \in Seq(S)
           /\ Len(q) \in Nat \ {0} /\ DOMAIN q = 1 .. Len(q)
           /\ DOMAIN Tail(q) = 1 .. Len(q) - 1
           /\ \A i \in 1 .. Len(q) - 1 : Tail(q)[i] = q[i + 1]
           /\ Head(q) = q[1]
OBVIOUS

(* A state that is sent is the last one that waits.                           *)
LEMMA StateIsSent ==
    ASSUME NEW S, NEW q \in Seq(S), NEW e, IsState(e)
    PROVE  LastStateIs(Append(q, e), e.state) /\ ~NoState(Append(q, e))
<1> DEFINE r == Append(q, e)
<1>1. /\ DOMAIN r = DOMAIN q \cup {Len(q) + 1} /\ Len(q) \in Nat /\ DOMAIN q = 1 .. Len(q)
      /\ r[Len(q) + 1] = e
  BY EventsAreQueued
<1> HIDE DEF r
<1>2. ~NoState(r)
  BY <1>1 DEF NoState
<1>3. ASSUME NEW i \in DOMAIN r, \A j \in DOMAIN r : IsState(r[j]) => j <= i PROVE r[i].state = e.state
  <2>1. Len(q) + 1 <= i
    BY <1>1, <1>3
  <2>2. i = Len(q) + 1
    BY <1>1, <2>1
  <2>3. QED
    BY <1>1, <2>2
<1>4. QED
  BY <1>2, <1>3 DEF LastStateIs, r

(* Any other event leaves the states that wait as they are.                   *)
LEMMA OtherIsSent ==
    ASSUME NEW S, NEW q \in Seq(S), NEW e, ~IsState(e), NEW state, LastStateIs(q, state)
    PROVE  LastStateIs(Append(q, e), state) /\ (NoState(Append(q, e)) => NoState(q))
<1> DEFINE r == Append(q, e)
<1>1. /\ DOMAIN r = DOMAIN q \cup {Len(q) + 1} /\ r[Len(q) + 1] = e
      /\ \A i \in DOMAIN q : r[i] = q[i]
  BY EventsAreQueued
<1> HIDE DEF r
<1>2. NoState(r) => NoState(q)
  BY <1>1 DEF NoState
<1>3. ASSUME NEW i \in DOMAIN r, IsState(r[i]), \A j \in DOMAIN r : IsState(r[j]) => j <= i
      PROVE  r[i].state = state
  <2>1. i \in DOMAIN q /\ r[i] = q[i]
    BY <1>1, <1>3
  <2>2. \A j \in DOMAIN q : IsState(q[j]) => j <= i
    BY <1>1, <1>3
  <2>3. QED
    BY <1>3, <2>1, <2>2 DEF LastStateIs
<1>4. QED
  BY <1>2, <1>3 DEF LastStateIs, r

(* When the last state is taken, it is what the service is in.                *)
LEMMA EventIsTaken ==
    ASSUME NEW S, NEW q \in Seq(S), q # <<>>, NEW state, LastStateIs(q, state)
    PROVE  /\ LastStateIs(Tail(q), state)
           /\ NoState(Tail(q)) => IF IsState(Head(q)) THEN Head(q).state = state ELSE NoState(q)
<1> DEFINE r == Tail(q)
<1>1. /\ Len(q) \in Nat \ {0} /\ DOMAIN q = 1 .. Len(q) /\ DOMAIN r = 1 .. Len(q) - 1
      /\ \A i \in 1 .. Len(q) - 1 : r[i] = q[i + 1]
      /\ Head(q) = q[1]
  BY EventsAreTaken
<1> HIDE DEF r
<1>2. \A i \in DOMAIN q : i = 1 \/ (i - 1 \in DOMAIN r /\ r[i - 1] = q[i])
  BY <1>1
<1>3. ASSUME NEW i \in DOMAIN r, IsState(r[i]), \A j \in DOMAIN r : IsState(r[j]) => j <= i
      PROVE  r[i].state = state
  <2>1. i + 1 \in DOMAIN q /\ r[i] = q[i + 1]
    BY <1>1
  <2>2. ASSUME NEW j \in DOMAIN q, IsState(q[j]) PROVE j <= i + 1
    <3>1. CASE j = 1
      BY <1>1, <3>1
    <3>2. CASE j - 1 \in DOMAIN r /\ r[j - 1] = q[j]
      <4>1. j - 1 <= i
        BY <1>3, <2>2, <3>2
      <4>2. QED
        BY <1>1, <4>1
    <3>3. QED
      BY <1>2, <3>1, <3>2
  <2>3. QED
    BY <1>3, <2>1, <2>2 DEF LastStateIs
<1>4. ASSUME NoState(r) PROVE \A i \in DOMAIN q : IsState(q[i]) => i = 1
  BY <1>2, <1>4 DEF NoState
<1>5. ASSUME NoState(r), IsState(q[1]) PROVE q[1].state = state
  <2>1. 1 \in DOMAIN q /\ \A j \in DOMAIN q : IsState(q[j]) => j <= 1
    BY <1>1, <1>4, <1>5
  <2>2. QED
    BY <1>5, <2>1 DEF LastStateIs
<1>6. ASSUME NoState(r), ~IsState(q[1]) PROVE NoState(q)
  BY <1>4, <1>6 DEF NoState
<1>7. QED
  BY <1>1, <1>3, <1>5, <1>6 DEF LastStateIs, r

-----------------------------------------------------------------------------
LEMMA InitIsCurrent == Init => IInv
<1>1. SUFFICES ASSUME Init PROVE IInv
  OBVIOUS
<1>2. queue = <<>> /\ phase = "opening"
  BY <1>1, Zenon DEF Init
<1>3. queue \in Seq({}) /\ DOMAIN queue = {}
  BY <1>2
<1>4. QED
  BY <1>2, <1>3 DEF IInv, LastStateIs

LEMMA StepIsCurrent == IInv /\ [Next]_vars => IInv'
<1> SUFFICES ASSUME IInv, [Next]_vars PROVE IInv'
  OBVIOUS
<1>1. PICK S : queue \in Seq(S)
  BY DEF IInv
<1>2. ASSUME NEW e, queue' = Append(queue, e), IsState(e), e.state = service'.state PROVE IInv'
  <2>1. queue' \in Seq(S \cup {e})
    BY <1>1, <1>2, EventsAreQueued
  <2>2. LastStateIs(queue', service'.state) /\ ~NoState(queue')
    BY <1>1, <1>2, StateIsSent
  <2>3. QED
    BY <2>1, <2>2 DEF IInv
<1>3. ASSUME NEW e, queue' = Append(queue, e), ~IsState(e), service'.state = service.state,
             phase' = phase, label' = label
      PROVE  IInv'
  <2>1. queue' \in Seq(S \cup {e})
    BY <1>1, <1>3, EventsAreQueued
  <2>2. LastStateIs(queue', service'.state) /\ (NoState(queue') => NoState(queue))
    BY <1>1, <1>3, OtherIsSent DEF IInv
  <2>3. QED
    BY <1>3, <2>1, <2>2 DEF IInv, LabelIs
<1>4. ASSUME queue' = queue, service'.state = service.state, phase' = phase, label' = label
      PROVE  IInv'
  BY <1>4 DEF IInv, LabelIs
<1>5. CASE BindRun
  <2> DEFINE e == State("Processing", service.run + 1)
  <2>1. IsState(e) /\ e.state = "Processing"
    BY DEF IsState, State
  <2>2. queue' = Append(queue, e) /\ service'.state = "Processing"
    BY <1>5 DEF BindRun, Send
  <2>3. QED
    BY <1>2, <2>1, <2>2
<1>6. ASSUME NEW state \in States, Transition(state) PROVE IInv'
  <2>1. PICK run \in {service.run, NoRun} : queue' = Append(queue, State(state, run))
    BY <1>6, Zenon DEF Transition, Send
  <2>2. IsState(State(state, run)) /\ State(state, run).state = state
    BY DEF IsState, State
  <2>3. service' = [service EXCEPT !.state = state]
    BY <1>6, Zenon DEF Transition
  <2>4. QED
    BY <1>2, <2>1, <2>2, <2>3
<1>7. CASE CompleteSection
  <2>1. PICK e : queue' = Append(queue, e) /\ e.subject = "section"
    BY <1>7 DEF CompleteSection, Send
  <2>2. service'.state = service.state /\ phase' = phase /\ label' = label
    BY <1>7 DEF CompleteSection, resync, texts
  <2>3. QED
    BY <1>3, <2>1, <2>2 DEF IsState
<1>8. ASSUME NEW ids, NEW ragged, NEW more, PublishG2(ids, ragged, more) PROVE IInv'
  <2> DEFINE e == [subject |-> "g2", run |-> service.run, frames |-> service.frames + more,
                   ids |-> ids, ragged |-> ragged]
  <2>1. queue' = Append(queue, e) /\ ~IsState(e)
    BY <1>8 DEF PublishG2, Send, IsState
  <2>2. service'.state = service.state /\ phase' = phase /\ label' = label
    BY <1>8 DEF PublishG2, resync, texts
  <2>3. QED
    BY <1>3, <2>1, <2>2
<1>9. CASE ReportError
  <2>1. PICK e : queue' = Append(queue, e) /\ e.subject = "error"
    BY <1>9 DEF ReportError, Send
  <2>2. service'.state = service.state /\ phase' = phase /\ label' = label
    BY <1>9 DEF ReportError, resync, texts
  <2>3. QED
    BY <1>3, <2>1, <2>2 DEF IsState
<1>10. CASE Reset
  BY <1>4, <1>10 DEF Reset, resync, texts
<1>11. CASE OnClearRois \/ ToggleFails
  BY <1>4, <1>11 DEF OnClearRois, ToggleFails, resync, texts
<1>12. CASE Reopen
  <2>1. queue' = <<>> /\ phase' = "opening"
    BY <1>12, Zenon DEF Reopen
  <2>2. queue' \in Seq({}) /\ DOMAIN queue' = {}
    BY <2>1
  <2>3. QED
    BY <2>1, <2>2 DEF IInv, LastStateIs
<1>13. CASE HandleEvent
  <2>1. queue # <<>> /\ queue' = Tail(queue) /\ service' = service /\ phase' = phase
    BY <1>13, Zenon DEF HandleEvent, resync
  <2>2. IF IsState(Head(queue)) THEN label' = Head(queue).state ELSE label' = label
    BY <1>13 DEF HandleEvent, IsState, OnG2Updated, OnSectionCompleted, OnStateChanged, OnError, texts
  <2>3. /\ LastStateIs(queue', service.state)
        /\ NoState(queue') => IF IsState(Head(queue)) THEN Head(queue).state = service.state
                              ELSE NoState(queue)
    BY <1>1, <2>1, EventIsTaken DEF IInv
  <2>4. queue' \in Seq(S)
    BY <1>1, <2>1, EventsAreTaken
  <2>5. QED
    BY <2>1, <2>2, <2>3, <2>4 DEF IInv, LabelIs
<1>14. ASSUME NEW answered \in Answered, ResyncStatus(answered) PROVE IInv'
  <2>1. queue' = queue /\ service' = service
    BY <1>14, Zenon DEF ResyncStatus
  <2>2. LabelIs(service.state)'
    BY <1>14, <2>1, Zenon DEF ResyncStatus, LabelIs, Answered
  <2>3. QED
    BY <2>1, <2>2 DEF IInv
<1>15. ASSUME NEW answered \in Answered, ResyncPage(answered) PROVE IInv'
  <2>1. queue' = queue /\ service' = service /\ label' = label /\ phase = "paging"
    BY <1>15, Zenon DEF ResyncPage, texts
  <2>2. QED
    BY <2>1 DEF IInv, LabelIs
<1>16. CASE UNCHANGED vars
  BY <1>4, <1>16 DEF vars, resync, texts
<1>17. QED
  BY <1>5, <1>6, <1>7, <1>8, <1>9, <1>10, <1>11, <1>12, <1>13, <1>14, <1>15, <1>16, Zenon
     DEF Next, Service, Resync

(* However the answer of resync overtakes the events that wait behind it, and *)
(* however panels are closed and opened: the state shown by a panel that has  *)
(* caught up is the state of the service, or that it did not answer.          *)
THEOREM LabelEndsCurrent == Spec => []LabelIsCurrent
<1>1. IInv => LabelIsCurrent
  BY DEF IInv, LabelIsCurrent, Quiet, NoState, LabelIs
<1>2. QED
  BY <1>1, InitIsCurrent, StepIsCurrent, PTL DEF Spec

-----------------------------------------------------------------------------
(* What a slot makes of the error, and of the file it was seen with.          *)
Handled(e, err, path, errAfter, pathAfter) ==
    /\ pathAfter = IF e.subject = "g2" THEN e.run ELSE path
    /\ errAfter = IF e.subject = "error" THEN "service"
                  ELSE IF e.subject = "g2" /\ path # e.run THEN "none" ELSE err

(* The events of q, handled in their order, lead from one to the other.       *)
Leads(q, err, path, errAfter, pathAfter) ==
    \E errs, paths :
        /\ errs[0] = err
        /\ paths[0] = path
        /\ \A i \in DOMAIN q : Handled(q[i], errs[i - 1], paths[i - 1], errs[i], paths[i])
        /\ errs[Len(q)] = errAfter
        /\ paths[Len(q)] = pathAfter

(* What the error label may show when nothing waits.                          *)
Told(text) ==
    /\ text = "service" => failing
    /\ text = "toggle" => toggleFailed
    /\ failing => text = "service" \/ toggleFailed

(* The events that wait turn what the label shows into something of the kind. *)
ErrorInv ==
    /\ \E S : queue \in Seq(S)
    /\ \E text : Told(text) /\ Leads(queue, error, file_path, text, streamed)

LEMMA NoneLeadsNowhere ==
    ASSUME NEW err, NEW path, NEW errAfter, NEW pathAfter
    PROVE  Leads(<<>>, err, path, errAfter, pathAfter) <=> err = errAfter /\ path = pathAfter
<1>1. Len(<<>>) = 0 /\ DOMAIN <<>> = {}
  OBVIOUS
<1>2. ASSUME Leads(<<>>, err, path, errAfter, pathAfter) PROVE err = errAfter /\ path = pathAfter
  BY <1>1, <1>2 DEF Leads
<1>3. ASSUME err = errAfter, path = pathAfter PROVE Leads(<<>>, err, path, errAfter, pathAfter)
  <2> DEFINE errs  == [i \in {0} |-> err]
             paths == [i \in {0} |-> path]
  <2>1. errs[0] = err /\ paths[0] = path
    OBVIOUS
  <2>2. QED
    BY <1>1, <1>3, <2>1 DEF Leads
<1>4. QED
  BY <1>2, <1>3

LEMMA OneMoreLeads ==
    ASSUME NEW S, NEW q \in Seq(S), NEW e,
           NEW err, NEW path, NEW errMid, NEW pathMid, NEW errAfter, NEW pathAfter,
           Leads(q, err, path, errMid, pathMid),
           Handled(e, errMid, pathMid, errAfter, pathAfter)
    PROVE  Leads(Append(q, e), err, path, errAfter, pathAfter)
<1>1. PICK errs, paths :
        /\ errs[0] = err
        /\ paths[0] = path
        /\ \A i \in DOMAIN q : Handled(q[i], errs[i - 1], paths[i - 1], errs[i], paths[i])
        /\ errs[Len(q)] = errMid
        /\ paths[Len(q)] = pathMid
  BY DEF Leads
<1> DEFINE n == Len(q)
           r == Append(q, e)
           errs2  == [i \in 0 .. n + 1 |-> IF i = n + 1 THEN errAfter ELSE errs[i]]
           paths2 == [i \in 0 .. n + 1 |-> IF i = n + 1 THEN pathAfter ELSE paths[i]]
<1>2. /\ n \in Nat /\ DOMAIN q = 1 .. n /\ DOMAIN r = 1 .. n + 1 /\ Len(r) = n + 1
      /\ \A i \in 1 .. n : r[i] = q[i]
      /\ r[n + 1] = e
  BY EventsAreQueued
<1> HIDE DEF n, r
<1>3. /\ \A i \in 0 .. n : errs2[i] = errs[i] /\ paths2[i] = paths[i]
      /\ errs2[n + 1] = errAfter /\ paths2[n + 1] = pathAfter
  BY <1>2
<1> HIDE DEF errs2, paths2
<1>4. ASSUME NEW i \in DOMAIN r PROVE Handled(r[i], errs2[i - 1], paths2[i - 1], errs2[i], paths2[i])
  <2>1. CASE i \in 1 .. n
    <3>1. i - 1 \in 0 .. n /\ i \in 0 .. n
      BY <1>2, <2>1
    <3>2. Handled(q[i], errs[i - 1], paths[i - 1], errs[i], paths[i])
      BY <1>1, <1>2, <2>1
    <3>3. QED
      BY <1>2, <1>3, <2>1, <3>1, <3>2
  <2>2. CASE i = n + 1
    <3>1. i - 1 = n /\ n \in 0 .. n
      BY <1>2, <2>2
    <3>2. /\ errs2[i - 1] = errs[n] /\ paths2[i - 1] = pathMid /\ r[i] = e
          /\ errs2[i] = errAfter /\ paths2[i] = pathAfter
      BY <1>1, <1>2, <1>3, <2>2, <3>1 DEF n
    <3>3. errs[n] = errMid
      BY <1>1 DEF n
    <3>4. QED
      BY <3>2, <3>3
  <2>3. QED
    BY <1>2, <2>1, <2>2
<1>5. errs2[0] = err /\ paths2[0] = path
  BY <1>1, <1>2, <1>3
<1>6. errs2[Len(r)] = errAfter /\ paths2[Len(r)] = pathAfter
  BY <1>2, <1>3
<1>7. QED
  BY <1>4, <1>5, <1>6 DEF Leads, r

LEMMA OneLessLeads ==
    ASSUME NEW S, NEW q \in Seq(S), q # <<>>,
           NEW err, NEW path, NEW errMid, NEW pathMid, NEW errAfter, NEW pathAfter,
           Leads(q, err, path, errAfter, pathAfter),
           Handled(Head(q), err, path, errMid, pathMid)
    PROVE  Leads(Tail(q), errMid, pathMid, errAfter, pathAfter)
<1>1. PICK errs, paths :
        /\ errs[0] = err
        /\ paths[0] = path
        /\ \A i \in DOMAIN q : Handled(q[i], errs[i - 1], paths[i - 1], errs[i], paths[i])
        /\ errs[Len(q)] = errAfter
        /\ paths[Len(q)] = pathAfter
  BY DEF Leads
<1> DEFINE n == Len(q)
           r == Tail(q)
           errs2  == [i \in 0 .. n - 1 |-> errs[i + 1]]
           paths2 == [i \in 0 .. n - 1 |-> paths[i + 1]]
<1>2. /\ n \in Nat \ {0} /\ DOMAIN q = 1 .. n /\ DOMAIN r = 1 .. n - 1 /\ Len(r) = n - 1
      /\ \A i \in 1 .. n - 1 : r[i] = q[i + 1]
      /\ Head(q) = q[1]
  BY EventsAreTaken
<1> HIDE DEF n, r
<1>3. \A i \in 0 .. n - 1 : errs2[i] = errs[i + 1] /\ paths2[i] = paths[i + 1]
  OBVIOUS
<1> HIDE DEF errs2, paths2
<1>4. ASSUME NEW i \in DOMAIN r PROVE Handled(r[i], errs2[i - 1], paths2[i - 1], errs2[i], paths2[i])
  <2>1. /\ i + 1 \in DOMAIN q /\ i - 1 \in 0 .. n - 1 /\ i \in 0 .. n - 1
        /\ (i + 1) - 1 = i /\ (i - 1) + 1 = i
    BY <1>2
  <2>2. Handled(q[i + 1], errs[(i + 1) - 1], paths[(i + 1) - 1], errs[i + 1], paths[i + 1])
    BY <1>1, <2>1
  <2>3. /\ errs2[i - 1] = errs[i] /\ paths2[i - 1] = paths[i]
        /\ errs2[i] = errs[i + 1] /\ paths2[i] = paths[i + 1]
    BY <1>3, <2>1
  <2>4. r[i] = q[i + 1]
    BY <1>2
  <2>5. QED
    BY <2>1, <2>2, <2>3, <2>4
<1>5. errs2[0] = errMid /\ paths2[0] = pathMid
  <2>1. Handled(q[1], errs[0], paths[0], errs[1], paths[1])
    <3>1. 1 \in DOMAIN q /\ 1 - 1 = 0
      BY <1>2
    <3>2. Handled(q[1], errs[1 - 1], paths[1 - 1], errs[1], paths[1])
      BY <1>1, <3>1
    <3>3. QED
      BY <3>1, <3>2
  <2>2. errs2[0] = errs[1] /\ paths2[0] = paths[1]
    BY <1>2, <1>3
  <2>3. QED
    BY <1>1, <1>2, <2>1, <2>2 DEF Handled
<1>6. errs2[Len(r)] = errAfter /\ paths2[Len(r)] = pathAfter
  <2>1. errs2[Len(r)] = errs[n] /\ paths2[Len(r)] = paths[n]
    <3>1. n - 1 \in 0 .. n - 1 /\ (n - 1) + 1 = n
      BY <1>2
    <3>2. QED
      BY <1>2, <1>3, <3>1
  <2>2. QED
    BY <1>1, <2>1 DEF n
<1>7. QED
  BY <1>4, <1>5, <1>6 DEF Leads, r

(* Events lead from another text to another, or wipe the difference out.      *)
LEMMA OtherTextLeads ==
    ASSUME NEW S, NEW q \in Seq(S), NEW err, NEW path, NEW errAfter, NEW pathAfter,
           Leads(q, err, path, errAfter, pathAfter), NEW text
    PROVE  \E after \in {errAfter, text} : Leads(q, text, path, after, pathAfter)
<1>1. PICK errs, paths :
        /\ errs[0] = err
        /\ paths[0] = path
        /\ \A i \in DOMAIN q : Handled(q[i], errs[i - 1], paths[i - 1], errs[i], paths[i])
        /\ errs[Len(q)] = errAfter
        /\ paths[Len(q)] = pathAfter
  BY DEF Leads
<1> DEFINE n == Len(q)
           Wipes(i) == q[i].subject = "error" \/ (q[i].subject = "g2" /\ paths[i - 1] # q[i].run)
           wiped(i) == \E j \in 1 .. i : Wipes(j)
           errs2 == [i \in 0 .. n |-> IF wiped(i) THEN errs[i] ELSE text]
<1>2. n \in Nat /\ DOMAIN q = 1 .. n
  OBVIOUS
<1> HIDE DEF n
<1>3. /\ \A i \in 0 .. n : errs2[i] = IF wiped(i) THEN errs[i] ELSE text
      /\ 0 \in 0 .. n /\ n \in 0 .. n /\ ~wiped(0)
  BY <1>2
<1>4. ASSUME NEW i \in DOMAIN q PROVE Handled(q[i], errs2[i - 1], paths[i - 1], errs2[i], paths[i])
  <2>1. Handled(q[i], errs[i - 1], paths[i - 1], errs[i], paths[i])
    BY <1>1
  <2>2. i \in 0 .. n /\ i - 1 \in 0 .. n /\ i \in 1 .. i
    BY <1>2
  <2>3. wiped(i) <=> wiped(i - 1) \/ Wipes(i)
    <3>1. 1 .. i = 1 .. (i - 1) \cup {i}
      BY <2>2
    <3> HIDE DEF Wipes
    <3>2. QED
      BY <3>1, Zenon
  <2> HIDE DEF errs2, wiped
  <2>4. CASE Wipes(i)
    <3>1. errs2[i] = errs[i]
      BY <1>3, <2>2, <2>3, <2>4
    <3>2. QED
      BY <2>1, <2>4, <3>1 DEF Handled
  <2>5. CASE ~Wipes(i)
    <3>1. errs[i] = errs[i - 1]
      BY <2>1, <2>5 DEF Handled
    <3>2. errs2[i] = errs2[i - 1]
      BY <1>3, <2>2, <2>3, <2>5, <3>1
    <3>3. QED
      BY <2>1, <2>5, <3>2 DEF Handled
  <2>6. QED
    BY <2>4, <2>5
<1>5. errs2[0] = text /\ errs2[n] \in {errAfter, text}
  BY <1>1, <1>3 DEF n
<1> HIDE DEF errs2
<1>6. Leads(q, text, path, errs2[n], pathAfter)
  BY <1>1, <1>4, <1>5 DEF Leads, n
<1>7. QED
  BY <1>5, <1>6

-----------------------------------------------------------------------------
LEMMA InitLeads == Init => ErrorInv
<1>1. SUFFICES ASSUME Init PROVE ErrorInv
  OBVIOUS
<1>2. /\ queue = <<>> /\ error = "none" /\ failing = FALSE /\ toggleFailed = FALSE
      /\ file_path = streamed
  BY <1>1, Zenon DEF Init
<1>3. queue \in Seq({}) /\ Told(error)
  BY <1>2 DEF Told
<1>4. QED
  BY <1>2, <1>3, NoneLeadsNowhere DEF ErrorInv

LEMMA StepLeads == ErrorInv /\ [Next]_vars => ErrorInv'
<1> SUFFICES ASSUME ErrorInv, [Next]_vars PROVE ErrorInv'
  OBVIOUS
<1>1. PICK S : queue \in Seq(S)
  BY DEF ErrorInv
<1> PICK text : Told(text) /\ Leads(queue, error, file_path, text, streamed)
  BY DEF ErrorInv
<1>2. ASSUME NEW e, queue' = Append(queue, e), error' = error, file_path' = file_path,
             NEW after, Handled(e, text, streamed, after, streamed'), Told(after)'
      PROVE  ErrorInv'
  <2>1. queue' \in Seq(S \cup {e})
    BY <1>1, <1>2, EventsAreQueued
  <2>2. Leads(Append(queue, e), error, file_path, after, streamed')
    BY <1>1, <1>2, OneMoreLeads
  <2>3. Leads(queue', error', file_path', after, streamed')
    BY <1>2, <2>2
  <2>4. QED
    BY <1>2, <2>1, <2>3 DEF ErrorInv, Leads
<1>3. ASSUME NEW e, queue' = Append(queue, e), e.subject \notin {"g2", "error"},
             UNCHANGED <<error, file_path, failing, toggleFailed, streamed>>
      PROVE  ErrorInv'
  <2>1. Handled(e, text, streamed, text, streamed') /\ Told(text)'
    BY <1>3 DEF Handled, Told
  <2>2. QED
    BY <1>2, <1>3, <2>1
<1>4. ASSUME UNCHANGED <<queue, error, file_path, failing, toggleFailed, streamed>> PROVE ErrorInv'
  <2>1. Told(text)' /\ Leads(queue, error, file_path, text, streamed)'
    BY <1>4 DEF Told, Leads
  <2>2. QED
    BY <1>1, <1>4, <2>1 DEF ErrorInv
<1>5. CASE BindRun \/ CompleteSection \/ \E state \in States : Transition(state)
  <2> DEFINE Sent == \E e : queue' = Append(queue, e) /\ e.subject \in {"state", "section"}
  <2>1. Sent
    <3>1. CASE BindRun
      <4>1. queue' = Append(queue, State("Processing", service.run + 1))
        BY <3>1, Zenon DEF BindRun, Send
      <4>2. State("Processing", service.run + 1).subject = "state"
        BY DEF State
      <4>3. QED
        BY <4>1, <4>2
    <3>2. CASE CompleteSection
      <4> DEFINE e == [subject |-> "section", run |-> service.run, index |-> service.sections + 1]
      <4>1. queue' = Append(queue, e)
        BY <3>2, Zenon DEF CompleteSection, Send
      <4>2. e.subject = "section"
        OBVIOUS
      <4>3. QED
        BY <4>1, <4>2
    <3>3. ASSUME NEW state \in States, Transition(state) PROVE Sent
      <4>1. PICK run \in {service.run, NoRun} : queue' = Append(queue, State(state, run))
        BY <3>3, Zenon DEF Transition, Send
      <4>2. State(state, run).subject = "state"
        BY DEF State
      <4>3. QED
        BY <4>1, <4>2
    <3>4. QED
      BY <1>5, <3>1, <3>2, <3>3
  <2>2. UNCHANGED <<error, file_path, failing, toggleFailed, streamed>>
    BY <1>5, Zenon DEF BindRun, CompleteSection, Transition, texts, history
  <2>3. QED
    BY <1>3, <2>1, <2>2
<1>6. ASSUME NEW ids, NEW ragged, NEW more, PublishG2(ids, ragged, more) PROVE ErrorInv'
  <2> DEFINE e == [subject |-> "g2", run |-> service.run, frames |-> service.frames + more,
                   ids |-> ids, ragged |-> ragged]
  <2>1. e.subject = "g2" /\ e.run = service.run
    OBVIOUS
  <2>2. queue' = Append(queue, e) /\ error' = error /\ file_path' = file_path
    BY <1>6, Zenon DEF PublishG2, Send, texts
  <2>3. /\ streamed' = service.run
        /\ failing' <=> failing /\ streamed = service.run
        /\ toggleFailed' <=> toggleFailed /\ streamed = service.run
    BY <1>6, Zenon DEF PublishG2
  <2>0. PICK after : after = IF streamed = service.run THEN text ELSE "none"
    OBVIOUS
  <2> HIDE DEF e
  <2>4. Handled(e, text, streamed, after, streamed')
    BY <2>0, <2>1, <2>3 DEF Handled
  <2>5. Told(after)'
    <3>1. CASE streamed = service.run
      BY <2>0, <2>3, <3>1, Zenon DEF Told
    <3>2. CASE streamed # service.run
      <4>1. after = "none" /\ (failing' <=> FALSE)
        BY <2>0, <2>3, <3>2
      <4>2. QED
        BY <4>1, Zenon DEF Told
    <3>3. QED
      BY <3>1, <3>2
  <2>6. QED
    BY <1>2, <2>2, <2>4, <2>5
<1>7. CASE ReportError
  <2>1. PICK e : queue' = Append(queue, e) /\ e.subject = "error"
    BY <1>7 DEF ReportError, Send
  <2>2. UNCHANGED <<error, file_path, streamed>> /\ failing' = TRUE
    BY <1>7, Zenon DEF ReportError, texts
  <2>3. Handled(e, text, streamed, "service", streamed') /\ Told("service")'
    BY <2>1, <2>2 DEF Handled, Told
  <2>4. QED
    BY <1>2, <2>1, <2>2, <2>3
<1>8. CASE Reset \/ OnClearRois
  BY <1>4, <1>8, Zenon DEF Reset, OnClearRois, texts, history
<1>9. CASE Reopen
  <2>1. /\ queue' = <<>> /\ error' = "none" /\ failing' = FALSE /\ toggleFailed' = FALSE
        /\ file_path' = streamed'
    BY <1>9, Zenon DEF Reopen
  <2>2. queue' \in Seq({}) /\ Told(error)'
    BY <2>1 DEF Told
  <2>3. Leads(queue', error', file_path', error', streamed')
    BY <2>1, <2>2, NoneLeadsNowhere
  <2>4. QED
    BY <2>2, <2>3 DEF ErrorInv, Leads
<1>14. CASE ToggleFails
  <2>1. /\ error' \in {"toggle", "none"} /\ toggleFailed' = TRUE
        /\ UNCHANGED <<queue, file_path, failing, streamed>>
    BY <1>14, Zenon DEF ToggleFails
  <2>2. PICK after \in {text, error'} : Leads(queue, error', file_path, after, streamed)
    BY <1>1, OtherTextLeads
  <2>3. Told(after)'
    BY <2>1, <2>2 DEF Told
  <2>4. QED
    BY <1>1, <2>1, <2>2, <2>3 DEF ErrorInv, Leads
<1>10. CASE HandleEvent
  <2> DEFINE e == Head(queue)
  <2>1. queue # <<>> /\ queue' = Tail(queue) /\ UNCHANGED <<failing, toggleFailed, streamed>>
    BY <1>10, Zenon DEF HandleEvent, history
  <2>2. OnG2Updated(e) \/ OnSectionCompleted(e) \/ OnStateChanged(e) \/ OnError(e)
    BY <1>10, Zenon DEF HandleEvent
  <2> HIDE DEF e
  <2>3. Handled(e, error, file_path, error', file_path')
    <3>1. CASE OnG2Updated(e)
      <4>1. /\ e.subject = "g2" /\ file_path' = e.run
            /\ error' = IF file_path = e.run THEN error ELSE "none"
        BY <3>1, Zenon DEF OnG2Updated
      <4>2. QED
        BY <4>1 DEF Handled
    <3>2. CASE OnSectionCompleted(e) \/ OnStateChanged(e)
      <4>1. e.subject \in {"section", "state"} /\ file_path' = file_path /\ error' = error
        BY <3>2, Zenon DEF OnSectionCompleted, OnStateChanged, texts
      <4>2. e.subject \notin {"g2", "error"}
        BY <4>1
      <4>3. QED
        BY <4>1, <4>2 DEF Handled
    <3>3. CASE OnError(e)
      <4>1. e.subject = "error" /\ file_path' = file_path /\ error' = "service"
        BY <3>3, Zenon DEF OnError
      <4>2. QED
        BY <4>1 DEF Handled
    <3>4. QED
      BY <2>2, <3>1, <3>2, <3>3
  <2>4. Leads(Tail(queue), error', file_path', text, streamed)
    BY <1>1, <2>1, <2>3, OneLessLeads DEF e
  <2>5. Leads(queue', error', file_path', text, streamed') /\ Told(text)'
    BY <2>1, <2>4 DEF Told
  <2>6. queue' \in Seq(S)
    BY <1>1, <2>1, EventsAreTaken
  <2>7. QED
    BY <2>5, <2>6 DEF ErrorInv, Leads
<1>11. CASE Resync
  BY <1>4, <1>11, Zenon DEF Resync, ResyncStatus, ResyncPage, texts, history
<1>12. CASE UNCHANGED vars
  BY <1>4, <1>12, Zenon DEF vars, texts, history
<1>13. QED
  BY <1>5, <1>6, <1>7, <1>8, <1>9, <1>10, <1>11, <1>12, <1>14, Zenon DEF Next, Service

(* However errors and results of several files wait behind one another, and   *)
(* whenever the toggle fails between them: a panel that has caught up shows   *)
(* an error of the service only if it sent one since it began to stream its   *)
(* present file, and leaves such an error out only if a toggle failed since.  *)
THEOREM ErrorEndsCurrent == Spec => []ErrorIsCurrent
<1>1. ErrorInv => ErrorIsCurrent
  BY NoneLeadsNowhere DEF ErrorInv, ErrorIsCurrent, Quiet, Told
<1>2. QED
  BY <1>1, InitLeads, StepLeads, PTL DEF Spec

(* Whatever the panel says of the service is true once it has caught up.      *)
THEOREM TextsEndCurrent == Spec => []TextsAreCurrent
<1>1. LabelIsCurrent /\ ErrorIsCurrent <=> TextsAreCurrent
  BY DEF TextsAreCurrent
<1>2. QED
  BY <1>1, LabelEndsCurrent, ErrorEndsCurrent, PTL
-----------------------------------------------------------------------------
(* The plots.  An event names a run unless it is an error or a change of      *)
(* state that is sent without one.                                            *)
Named(e) == e.subject \in {"state", "section", "g2"} /\ e.run # NoRun

EventOK(e, run) ==
    \/ e.subject = "state" /\ e.state \in States /\ e.run \in 0 .. run
    \/ e.subject = "section" /\ e.run \in 1 .. run /\ e.index \in 1 .. MaxSections
    \/ e.subject = "g2" /\ e.run \in 1 .. run /\ e.frames \in 1 .. MaxFrames /\ e.ids \subseteq Curves
    \/ e.subject = "error"

Services == [state : States, run : 0 .. MaxRuns, sections : 0 .. MaxSections, frames : 0 .. MaxFrames]
Drawn    == [run : RunStamps, index : 1 .. MaxSections]

(* TypeOK, with what waits in the queue and with the plots as sequences.      *)
PanelInv ==
    /\ TypeOK
    /\ \E S : queue \in Seq(S)
    /\ \A i \in DOMAIN queue : EventOK(queue[i], service.run)
    /\ service.run = NoRun => service.sections = 0
    /\ run_uid <= service.run
    /\ sections \in Seq(Drawn)
    /\ \A c \in DOMAIN series : series[c] \in Seq(Points)
    /\ phase = "opening" => fetched = 0

(* Runs wait in the order in which they were bound.                           *)
RunsInOrder ==
    \A i, j \in DOMAIN queue :
        i < j /\ Named(queue[i]) /\ Named(queue[j]) => queue[i].run <= queue[j].run

(* Either all that is shown and waits is of the run of the service, or the    *)
(* event that will clear the panel for this run still waits.                  *)
CaughtUp ==
    /\ ShownRuns \subseteq {service.run}
    /\ \A i \in DOMAIN queue : Named(queue[i]) => queue[i].run = service.run

BindWaits ==
    /\ run_uid # service.run /\ service.run # NoRun
    /\ \E i \in DOMAIN queue : IsState(queue[i]) /\ queue[i].run = service.run

RunsInv == RunsInOrder /\ (CaughtUp \/ BindWaits)

(* Results that wait are of one run with the points and with the results      *)
(* before them, or the panel is cleared before they are handled.              *)
IsResult(e) == e.subject = "g2"

PointsOf(c) == {series[c][i] : i \in DOMAIN series[c]}
AllPoints == UNION {PointsOf(c) : c \in DOMAIN series}

ClearedBefore(k) ==
    /\ run_uid # queue[k].run
    /\ \E j \in DOMAIN queue : j < k /\ IsState(queue[j]) /\ queue[j].run = queue[k].run

OneRunUpTo(k) ==
    /\ \A p \in AllPoints : p.run = queue[k].run
    /\ \A i \in DOMAIN queue : i < k /\ IsResult(queue[i]) => queue[i].run = queue[k].run

(* ... and while the run is not reset they count at least as many frames.     *)
FramesInOrder ==
    /\ \A i, k \in DOMAIN queue :
          /\ IsResult(queue[k]) /\ queue[k].run = service.run => queue[k].frames <= service.frames
          /\ i < k /\ IsResult(queue[i]) /\ IsResult(queue[k])
             /\ queue[i].run = service.run /\ queue[k].run = service.run
             => queue[i].frames <= queue[k].frames
    /\ \A p \in AllPoints : p.run = service.run =>
          /\ p.frames <= service.frames
          /\ \A k \in DOMAIN queue : IsResult(queue[k]) /\ queue[k].run = service.run
                => p.frames <= queue[k].frames

SeriesInv ==
    /\ \A k \in DOMAIN queue : IsResult(queue[k]) => ClearedBefore(k) \/ OneRunUpTo(k)
    /\ \A p, q \in AllPoints : p.run = q.run
    /\ \A p \in AllPoints : p.run <= service.run
    /\ ~wasReset => FramesInOrder
    /\ SeriesAscend

(* The panel has heard of the service's run when it handles the k-th event.   *)
HeardBefore(k) ==
    \/ run_uid = service.run
    \/ \E j \in DOMAIN queue : j < k /\ IsState(queue[j]) /\ queue[j].run = service.run

IsSection(e, i) == e.subject = "section" /\ e.run = service.run /\ e.index = i

(* Some event has named a run to the panel, or will.                          *)
HeardOfRun == run_uid # NoRun \/ \E j \in DOMAIN queue : IsState(queue[j]) /\ queue[j].run # NoRun

(* A section of the service is drawn, or waits, or resync will fetch it.      *)
Coming(i) ==
    \/ \E k \in DOMAIN queue : IsSection(queue[k], i)
    \/ /\ run_uid = service.run \/ early
       /\ \/ [run |-> service.run, index |-> i] \in ToSet(sections)
          \/ phase = "paging" /\ fetched < i /\ i <= wanted
          \/ phase = "opening" /\ early

(* A panel opened after the run was bound promises its sections while no      *)
(* event names a run, any other one only after the event that names its run.  *)
Promised == ~missed /\ (early => ~HeardOfRun)

SectionsInv ==
    Promised =>
        /\ ~early =>
              /\ service.run # NoRun => HeardBefore(Len(queue) + 1)
              /\ \A k \in DOMAIN queue : queue[k].subject = "section" /\ queue[k].run = service.run
                    => HeardBefore(k)
        /\ \A i \in 1 .. service.sections : Coming(i)

LEMMA SmallerOfTwo ==
    ASSUME NEW a \in Nat, NEW b \in Nat
    PROVE  Min({a, b}) = IF a <= b THEN a ELSE b
BY DEF Min

LEMMA AppendedSet ==
    ASSUME NEW S, NEW s \in Seq(S), NEW e \in S
    PROVE  Append(s, e) \in Seq(S) /\ ToSet(Append(s, e)) = ToSet(s) \cup {e}
<1>1. /\ Append(s, e) \in Seq(S) /\ DOMAIN Append(s, e) = DOMAIN s \cup {Len(s) + 1}
      /\ \A i \in DOMAIN s : Append(s, e)[i] = s[i]
      /\ Append(s, e)[Len(s) + 1] = e
  OBVIOUS
<1> DEFINE r == Append(s, e)
<1> HIDE DEF r
<1>2. ToSet(r) = ToSet(s) \cup {e}
  BY <1>1 DEF r, ToSet
<1>3. QED
  BY <1>1, <1>2 DEF r

LEMMA JoinedSet ==
    ASSUME NEW S, NEW s \in Seq(S), NEW t \in Seq(S)
    PROVE  s \o t \in Seq(S) /\ ToSet(s \o t) = ToSet(s) \cup ToSet(t)
<1> DEFINE r == s \o t
<1>1. /\ r \in Seq(S) /\ Len(s) \in Nat /\ Len(t) \in Nat
      /\ DOMAIN s = 1 .. Len(s) /\ DOMAIN t = 1 .. Len(t) /\ DOMAIN r = 1 .. Len(s) + Len(t)
      /\ \A i \in 1 .. Len(s) : r[i] = s[i]
      /\ \A i \in 1 .. Len(t) : r[Len(s) + i] = t[i]
  OBVIOUS
<1> HIDE DEF r
<1>2. \A i \in DOMAIN r : i \in DOMAIN s \/ (i - Len(s) \in DOMAIN t /\ r[i] = t[i - Len(s)])
  <2> SUFFICES ASSUME NEW i \in DOMAIN r, i \notin DOMAIN s
               PROVE  i - Len(s) \in DOMAIN t /\ r[i] = t[i - Len(s)]
    OBVIOUS
  <2>1. i - Len(s) \in 1 .. Len(t) /\ Len(s) + (i - Len(s)) = i
    BY <1>1
  <2>2. QED
    BY <1>1, <2>1
<1>3. ToSet(r) \subseteq ToSet(s) \cup ToSet(t)
  BY <1>1, <1>2 DEF ToSet
<1>4. ToSet(s) \subseteq ToSet(r)
  BY <1>1 DEF ToSet
<1>5. ToSet(t) \subseteq ToSet(r)
  <2>1. \A i \in 1 .. Len(t) : Len(s) + i \in DOMAIN r
    BY <1>1
  <2>2. QED
    BY <1>1, <2>1 DEF ToSet
<1>6. QED
  BY <1>1, <1>3, <1>4, <1>5 DEF r

LEMMA SetOfSeq ==
    ASSUME NEW S, NEW s \in Seq(S)
    PROVE  ToSet(s) \subseteq S
BY DEF ToSet

LEMMA EmptySet ==
    ASSUME NEW s, DOMAIN s = {}
    PROVE  ToSet(s) = {}
BY DEF ToSet

LEMMA EmptySeq ==
    ASSUME NEW S, NEW s, s = <<>>
    PROVE  s \in Seq(S) /\ Len(s) = 0 /\ DOMAIN s = {}
OBVIOUS

LEMMA PageFetched ==
    ASSUME PanelInv, NEW answered \in BOOLEAN
    PROVE  /\ Page(answered) \in Seq(Drawn)
           /\ Len(Page(answered)) \in Nat
           /\ fetched + Len(Page(answered)) \in 0 .. MaxSections
           /\ answered => ToSet(Page(answered)) =
                 {[run |-> service.run, index |-> i] :
                    i \in fetched + 1 .. fetched + Len(Page(answered))}
           /\ Len(Page(answered)) <= PageLimit
           /\ answered /\ Len(Page(answered)) < PageLimit
                 => service.sections <= fetched + Len(Page(answered))
           /\ ToSet(Page(answered)) \subseteq [run : {service.run}, index : 1 .. MaxSections]
<1> DEFINE rest == service.sections - Min({fetched, service.sections})
           n == Min({PageLimit, rest})
           page == [i \in 1 .. n |-> [run |-> service.run, index |-> fetched + i]]
<1>0. /\ service \in Services /\ fetched \in 0 .. MaxSections /\ MaxSections \in Nat
      /\ PageLimit \in Nat \ {0} /\ MaxRuns \in Nat
      /\ service.run = NoRun => service.sections = 0
  BY PanelAssumption DEF PanelInv, TypeOK, Services
<1>1. /\ service.sections \in 0 .. MaxSections /\ service.run \in 0 .. MaxRuns
  BY <1>0 DEF Services
<1>2. rest = IF fetched <= service.sections THEN service.sections - fetched ELSE 0
  BY <1>0, <1>1, SmallerOfTwo
<1>3. rest \in Nat
  BY <1>0, <1>1, <1>2
<1>4. n = IF PageLimit <= rest THEN PageLimit ELSE rest
  BY <1>0, <1>3, SmallerOfTwo
<1> HIDE DEF rest, n
<1>5. n \in Nat /\ n <= PageLimit /\ (n # 0 => fetched + n <= service.sections)
      /\ (n < PageLimit => service.sections <= fetched + n)
  BY <1>0, <1>1, <1>2, <1>3, <1>4
<1>6. \A i \in 1 .. n : fetched + i \in 1 .. MaxSections /\ service.run \in RunStamps
  BY <1>0, <1>1, <1>5 DEF RunStamps, NoRun
<1>7. page \in Seq(Drawn) /\ Len(page) = n /\ DOMAIN page = 1 .. n
  BY <1>5, <1>6 DEF Drawn
<1>8. ToSet(page) = {[run |-> service.run, index |-> i] : i \in fetched + 1 .. fetched + n}
  <2>1. \A i \in fetched + 1 .. fetched + n : i - fetched \in 1 .. n /\ fetched + (i - fetched) = i
    BY <1>0, <1>5
  <2>2. \A i \in 1 .. n : fetched + i \in fetched + 1 .. fetched + n
    BY <1>0, <1>5
  <2>3. \A i \in 1 .. n : page[i] = [run |-> service.run, index |-> fetched + i]
    OBVIOUS
  <2> HIDE DEF page
  <2>4. QED
    BY <1>7, <2>1, <2>2, <2>3 DEF ToSet
<1>9. ToSet(page) \subseteq [run : {service.run}, index : 1 .. MaxSections]
  <2>1. \A i \in 1 .. n : page[i] \in [run : {service.run}, index : 1 .. MaxSections]
    BY <1>6
  <2> HIDE DEF page
  <2>2. QED
    BY <1>7, <2>1 DEF ToSet
<1>10. CASE answered
  <2>1. Page(answered) = page
    BY <1>10 DEF Page, n, rest
  <2> HIDE DEF page
  <2>2. fetched + n \in 0 .. MaxSections
    BY <1>0, <1>1, <1>5
  <2>3. QED
    BY <1>5, <1>7, <1>8, <1>9, <2>1, <2>2
<1>11. CASE ~answered
  <2>1. Page(answered) = <<>>
    BY <1>11, Zenon DEF Page
  <2> DEFINE page0 == Page(answered)
  <2>2. page0 = <<>>
    BY <2>1
  <2> HIDE DEF page0
  <2>3. page0 \in Seq(Drawn) /\ Len(page0) = 0 /\ DOMAIN page0 = {}
    BY <2>2, EmptySeq
  <2>4. ToSet(page0) = {}
    BY <2>3, EmptySet
  <2>5. QED
    BY <1>0, <1>11, <2>3, <2>4 DEF page0
<1>12. QED
  BY <1>10, <1>11

-----------------------------------------------------------------------------
(* What the steps of the service have in common: an event is queued, and the  *)
(* panel does not move.                                                       *)
Sends(e) ==
    /\ queue' = Append(queue, e)
    /\ EventOK(e, service'.run)
    /\ Named(e) => e.run = service'.run
    /\ service' \in Services
    /\ service'.run = NoRun => service'.sections = 0
    /\ events < MaxEvents /\ events' = events + 1
    /\ UNCHANGED <<resync, plots, texts>>

Announces(e) ==
    /\ Sends(e)
    /\ IsState(e) /\ e.run = service'.run
    /\ service'.run = service.run + 1 /\ service'.sections = 0
    /\ early' = FALSE /\ missed' = FALSE /\ wasReset' = FALSE

Reports(e) ==
    /\ Sends(e)
    /\ service'.run = service.run
    /\ service'.frames >= service.frames
    /\ IsResult(e) => e.frames = service'.frames
    /\ \/ service'.sections = service.sections
       \/ /\ service.run # NoRun
          /\ service'.sections = service.sections + 1
          /\ IsSection(e, service'.sections)
    /\ UNCHANGED <<early, missed, wasReset>>

LEMMA ServiceSends ==
    ASSUME PanelInv, Service
    PROVE  \E e : Announces(e) \/ Reports(e)
<1>0. /\ service \in Services /\ events \in 0 .. MaxEvents
      /\ MaxRuns \in Nat /\ MaxSections \in Nat /\ MaxFrames \in Nat /\ MaxEvents \in Nat
      /\ "Processing" \in States
      /\ service.run = NoRun => service.sections = 0
  BY PanelAssumption, Zenon DEF PanelInv, TypeOK, Services
<1>1. /\ service.state \in States /\ service.run \in 0 .. MaxRuns
      /\ service.sections \in 0 .. MaxSections /\ service.frames \in 0 .. MaxFrames
  BY <1>0 DEF Services
<1>2. CASE BindRun
  <2> DEFINE e == State("Processing", service.run + 1)
             s == [state |-> "Processing", run |-> service.run + 1, sections |-> 0, frames |-> 0]
  <2>1. /\ queue' = Append(queue, e) /\ service' = s /\ service.run < MaxRuns
        /\ events < MaxEvents /\ events' = events + 1
        /\ UNCHANGED <<resync, plots, texts>> /\ early' = FALSE /\ missed' = FALSE /\ wasReset' = FALSE
    BY <1>2, Zenon DEF BindRun, Send, Happens
  <2>2. e.subject = "state" /\ e.state = "Processing" /\ e.run = service.run + 1
    BY DEF State
  <2>3. /\ s \in Services /\ s.run = service.run + 1 /\ s.sections = 0
    BY <1>0, <1>1, <2>1 DEF Services
  <2> HIDE DEF e, s
  <2>4. EventOK(e, s.run) /\ s.run # NoRun
    BY <1>0, <1>1, <2>2, <2>3 DEF EventOK, NoRun
  <2>5. Announces(e)
    BY <2>1, <2>2, <2>3, <2>4 DEF Announces, Sends, IsState
  <2>6. QED
    BY <2>5
<1>3. ASSUME NEW state \in States, Transition(state) PROVE \E e : Reports(e)
  <2> DEFINE s == [service EXCEPT !.state = state]
  <2>1. PICK run \in {service.run, NoRun} : queue' = Append(queue, State(state, run))
    BY <1>3, Zenon DEF Transition, Send
  <2> DEFINE e == State(state, run)
  <2>2. /\ queue' = Append(queue, e) /\ service' = s
        /\ events < MaxEvents /\ events' = events + 1
        /\ UNCHANGED <<resync, plots, texts, early, missed, wasReset>>
    BY <1>3, <2>1, Zenon DEF Transition, Happens, history
  <2>3. e.subject = "state" /\ e.state = state /\ e.run = run
    BY DEF State
  <2>4. /\ s \in Services /\ s.run = service.run /\ s.sections = service.sections
        /\ s.frames = service.frames
    BY <1>0 DEF Services
  <2> HIDE DEF e, s
  <2>5. EventOK(e, s.run) /\ (Named(e) => e.run = s.run) /\ s.frames >= service.frames
    BY <1>0, <1>1, <2>1, <2>3, <2>4 DEF EventOK, Named, NoRun
  <2>6. Reports(e)
    BY <1>0, <2>2, <2>3, <2>4, <2>5 DEF Reports, Sends, IsResult
  <2>7. QED
    BY <2>6
<1>4. CASE CompleteSection
  <2> DEFINE e == [subject |-> "section", run |-> service.run, index |-> service.sections + 1]
             s == [service EXCEPT !.sections = @ + 1]
  <2>1. /\ queue' = Append(queue, e) /\ service' = s
        /\ service.run # NoRun /\ service.sections < MaxSections
        /\ events < MaxEvents /\ events' = events + 1
        /\ UNCHANGED <<resync, plots, texts, early, missed, wasReset>>
    BY <1>4, Zenon DEF CompleteSection, Send, Happens, history
  <2>2. e.subject = "section" /\ e.run = service.run /\ e.index = service.sections + 1
    OBVIOUS
  <2>3. /\ s \in Services /\ s.run = service.run /\ s.sections = service.sections + 1
        /\ s.frames = service.frames
    BY <1>0, <1>1, <2>1 DEF Services
  <2> HIDE DEF e, s
  <2>4. EventOK(e, s.run) /\ s.frames >= service.frames
    BY <1>0, <1>1, <2>1, <2>2, <2>3 DEF EventOK, NoRun
  <2>5. IsSection(e, s.sections)
    BY <2>2, <2>3 DEF IsSection
  <2>6. Reports(e)
    BY <2>1, <2>2, <2>3, <2>4, <2>5 DEF Reports, Sends, IsResult
  <2>7. QED
    BY <2>6
<1>5. ASSUME NEW ids \in {Curves, {"average"}}, NEW more \in {0, 1}, NEW ragged,
             PublishG2(ids, ragged, more)
      PROVE  \E e : Reports(e)
  <2> DEFINE e == [subject |-> "g2", run |-> service.run, frames |-> service.frames + more,
                   ids |-> ids, ragged |-> ragged]
             s == [service EXCEPT !.frames = @ + more]
  <2>1. /\ queue' = Append(queue, e) /\ service' = s
        /\ service.run # NoRun /\ service.frames + more \in 1 .. MaxFrames
        /\ events < MaxEvents /\ events' = events + 1
        /\ UNCHANGED <<resync, plots, texts, early, missed, wasReset>>
    BY <1>5, Zenon DEF PublishG2, Send, Happens
  <2>2. e.subject = "g2" /\ e.run = service.run /\ e.frames = service.frames + more /\ e.ids = ids
    OBVIOUS
  <2>3. /\ s \in Services /\ s.run = service.run /\ s.sections = service.sections
        /\ s.frames = service.frames + more
    BY <1>0, <1>1, <2>1 DEF Services
  <2> HIDE DEF e, s
  <2>4. ids \subseteq Curves
    BY <1>5 DEF Curves
  <2>5. EventOK(e, s.run) /\ s.frames >= service.frames
    BY <1>0, <1>1, <2>1, <2>2, <2>3, <2>4 DEF EventOK, NoRun
  <2>6. Reports(e)
    BY <1>0, <2>1, <2>2, <2>3, <2>5 DEF Reports, Sends
  <2>7. QED
    BY <2>6
<1>6. CASE ReportError
  <2> DEFINE e == [subject |-> "error"]
  <2>1. /\ queue' = Append(queue, e) /\ service' = service
        /\ events < MaxEvents /\ events' = events + 1
        /\ UNCHANGED <<resync, plots, texts, early, missed, wasReset>>
    BY <1>6, Zenon DEF ReportError, Send, Happens
  <2>2. e.subject = "error"
    OBVIOUS
  <2> HIDE DEF e
  <2>3. EventOK(e, service.run) /\ ~Named(e) /\ service.frames >= service.frames
    BY <1>1, <2>2 DEF EventOK, Named
  <2>4. Reports(e)
    BY <1>0, <2>1, <2>2, <2>3 DEF Reports, Sends, IsResult
  <2>5. QED
    BY <2>4
<1>7. QED
  BY <1>2, <1>3, <1>4, <1>5, <1>6, Zenon DEF Service

-----------------------------------------------------------------------------
PlotOK(plot) == DOMAIN plot \subseteq Curves /\ Range(plot) \subseteq RunStamps

SeriesOK(s) == DOMAIN s \subseteq Curves /\ \A c \in DOMAIN s : s[c] \in Seq(Points)

(* PanelInv, said of each variable.                                           *)
PlotTypes ==
    /\ service \in Services /\ (service.run = NoRun => service.sections = 0)
    /\ events \in 0 .. MaxEvents /\ Len(queue) <= events
    /\ \E S : queue \in Seq(S)
    /\ \A i \in DOMAIN queue : EventOK(queue[i], service.run)
    /\ phase \in {"opening", "paging", "ready"}
    /\ wanted \in 0 .. MaxSections /\ fetched \in 0 .. MaxSections
    /\ phase = "opening" => fetched = 0
    /\ label \in States \cup {"-", Missing}
    /\ run_uid \in 0 .. MaxRuns /\ file_path \in 0 .. MaxRuns /\ error \in {"none", "service", "toggle"}
    /\ run_uid <= service.run
    /\ PlotOK(g2) /\ PlotOK(intensity) /\ SeriesOK(series)
    /\ sections \in Seq(Drawn)

LEMMA TypesOfPlots == PanelInv <=> PlotTypes
<1>1. sections \in Seq(Drawn) => ToSet(sections) \subseteq Drawn
  BY SetOfSeq
<1>2. SeriesOK(series) => \A c \in DOMAIN series : ToSet(series[c]) \subseteq Points
  BY SetOfSeq DEF SeriesOK
<1>3. (\A plot \in {g2, intensity} : DOMAIN plot \subseteq Curves /\ Range(plot) \subseteq RunStamps)
        <=> PlotOK(g2) /\ PlotOK(intensity)
  BY DEF PlotOK
<1>4. QED
  BY <1>1, <1>2, <1>3, Zenon DEF PlotTypes, PanelInv, TypeOK, SeriesOK, Drawn, Services

LEMMA NoPlot ==
    ASSUME NEW plot, plot = NoCurve
    PROVE  PlotOK(plot) /\ SeriesOK(plot) /\ DOMAIN plot = {} /\ Range(plot) = {}
<1>1. DOMAIN plot = {}
  BY DEF NoCurve
<1> HIDE DEF NoCurve
<1>2. ASSUME NEW f, DOMAIN f = {} PROVE Range(f) = {}
  BY <1>2 DEF Range
<1>3. Range(plot) = {}
  BY <1>1, <1>2, Zenon
<1>4. QED
  BY <1>1, <1>3, Zenon DEF PlotOK, SeriesOK

(* What a result makes of the curves, and of their points.                    *)
LEMMA CurvesOfResult ==
    ASSUME PanelInv, NEW e, IsResult(e), EventOK(e, service.run)
    PROVE  /\ PlotOK(G2Curves(e)) /\ Range(G2Curves(e)) \subseteq Range(g2) \cup {e.run}
           /\ PlotOK(IntensityCurves(e)) /\ Range(IntensityCurves(e)) \subseteq {e.run}
           /\ e.run \in RunStamps /\ e.frames \in 1 .. MaxFrames /\ e.ids \subseteq Curves
<1>1. /\ service.run \in 0 .. MaxRuns /\ MaxRuns \in Nat
      /\ PlotOK(g2)
  BY TypesOfPlots, PanelAssumption DEF PlotTypes, Services
<1>2. e.run \in 1 .. service.run /\ e.frames \in 1 .. MaxFrames /\ e.ids \subseteq Curves
  BY DEF EventOK, IsResult
<1>3. e.run \in RunStamps
  BY <1>1, <1>2 DEF RunStamps
<1>4. Range(G2Curves(e)) \subseteq Range(g2) \cup {e.run}
  BY DEF G2Curves, Range
<1>5. DOMAIN G2Curves(e) \subseteq Curves
  BY <1>2 DEF G2Curves
<1>6. Range(IntensityCurves(e)) \subseteq {e.run} /\ DOMAIN IntensityCurves(e) \subseteq Curves
  BY <1>2 DEF IntensityCurves, Range
<1>7. QED
  BY <1>1, <1>2, <1>3, <1>4, <1>5, <1>6 DEF PlotOK

LEMMA PointsOfResult ==
    ASSUME PanelInv, NEW e, IsResult(e), EventOK(e, service.run)
    PROVE  /\ SeriesOK(ConvergenceSeries(e))
           /\ DOMAIN ConvergenceSeries(e) = DOMAIN series \cup e.ids
           /\ \A c \in DOMAIN ConvergenceSeries(e) :
                LET old == IF c \in DOMAIN series THEN series[c] ELSE <<>>
                    new == ConvergenceSeries(e)[c]
                    p   == [run |-> e.run, frames |-> e.frames]
                IN  /\ old \in Seq(Points) /\ p \in Points
                    /\ \/ new = old
                       \/ /\ new = Append(old, p)
                          /\ old # <<>> => old[Len(old)].frames # e.frames
<1>1. SeriesOK(series)
  BY TypesOfPlots DEF PlotTypes
<1>2. e.run \in RunStamps /\ e.frames \in 1 .. MaxFrames /\ e.ids \subseteq Curves
  BY CurvesOfResult
<1> DEFINE after == ConvergenceSeries(e)
           p == [run |-> e.run, frames |-> e.frames]
           old(c) == IF c \in DOMAIN series THEN series[c] ELSE <<>>
<1>3. p \in Points
  BY <1>2 DEF Points
<1>4. DOMAIN after = DOMAIN series \cup e.ids
  BY DEF ConvergenceSeries
<1>5. \A c \in DOMAIN after : after[c] = IF c \in e.ids THEN WithPoint(old(c), e) ELSE old(c)
  BY DEF ConvergenceSeries
<1>6. \A c \in DOMAIN after : old(c) \in Seq(Points)
  <2>1. \A c : c \notin DOMAIN series => old(c) = <<>>
    OBVIOUS
  <2>2. \A c \in DOMAIN series : old(c) \in Seq(Points)
    BY <1>1 DEF SeriesOK
  <2> HIDE DEF old
  <2>3. QED
    BY <2>1, <2>2, EmptySeq
<1> HIDE DEF old, after, p
<1>7. \A s : \/ WithPoint(s, e) = s
             \/ /\ WithPoint(s, e) = Append(s, p)
                /\ s # <<>> => s[Len(s)].frames # e.frames
  BY DEF WithPoint, Last, p
<1>8. \A c \in DOMAIN after : \/ after[c] = old(c)
                              \/ /\ after[c] = Append(old(c), p)
                                 /\ old(c) # <<>> => old(c)[Len(old(c))].frames # e.frames
  BY <1>5, <1>7, Zenon
<1>9. \A c \in DOMAIN after : after[c] \in Seq(Points)
  BY <1>3, <1>6, <1>8, AppendedSet
<1>10. DOMAIN after \subseteq Curves
  BY <1>1, <1>2, <1>4 DEF SeriesOK
<1>11. SeriesOK(after)
  BY <1>9, <1>10, Zenon DEF SeriesOK
<1>12. QED
  BY <1>3, <1>4, <1>6, <1>8, <1>11, Zenon DEF old, after, p

-----------------------------------------------------------------------------
LEMMA InitTypes == Init => PanelInv
<1> SUFFICES ASSUME Init PROVE PanelInv
  OBVIOUS
<1>0. /\ MaxRuns \in Nat /\ MaxSections \in Nat /\ MaxFrames \in Nat /\ MaxEvents \in Nat
  BY PanelAssumption
<1>1. /\ phase = "opening" /\ wanted = 0 /\ fetched = 0 /\ events = 0
      /\ label = "-" /\ run_uid = 0 /\ file_path = 0 /\ error = "none"
      /\ g2 = NoCurve /\ intensity = NoCurve /\ sections = <<>> /\ series = NoCurve
      /\ queue = <<>>
  BY Zenon DEF Init, NoRun
<1>2. /\ service \in Services /\ (service.run = NoRun => service.sections = 0)
      /\ service.run \in Nat
  <2>1. CASE service \in [state : States, run : {NoRun}, sections : {0}, frames : {0}]
    BY <1>0, <2>1 DEF Services, NoRun
  <2>2. CASE service \in [state : States, run : {1} \cap (0 .. MaxRuns),
                          sections : 0 .. MaxSections, frames : {0}]
    BY <1>0, <2>2 DEF Services, NoRun
  <2>3. QED
    BY <2>1, <2>2, Zenon DEF Init
<1>3. /\ queue \in Seq({}) /\ Len(queue) = 0 /\ DOMAIN queue = {} /\ sections \in Seq(Drawn)
  BY <1>1, EmptySeq
<1>4. PlotOK(g2) /\ PlotOK(intensity) /\ SeriesOK(series)
  BY <1>1, NoPlot
<1>5. QED
  <2>1. /\ label \in States \cup {"-", Missing} /\ error \in {"none", "service", "toggle"}
        /\ phase \in {"opening", "paging", "ready"}
        /\ \E S : queue \in Seq(S)
    BY <1>1, <1>3, Zenon
  <2>2. /\ events \in 0 .. MaxEvents /\ Len(queue) <= events
        /\ wanted \in 0 .. MaxSections /\ fetched \in 0 .. MaxSections
        /\ run_uid \in 0 .. MaxRuns /\ file_path \in 0 .. MaxRuns
        /\ run_uid <= service.run
    BY <1>0, <1>1, <1>2, <1>3
  <2>3. \A i \in DOMAIN queue : EventOK(queue[i], service.run)
    BY <1>3
  <2>4. PlotTypes
    BY <1>1, <1>2, <1>3, <1>4, <2>1, <2>2, <2>3, Zenon DEF PlotTypes
  <2>5. QED
    BY <2>4, TypesOfPlots

LEMMA SendKeepsTypes ==
    ASSUME PanelInv, NEW e, Sends(e), service'.run \in {service.run, service.run + 1}
    PROVE  PanelInv'
<1>0. MaxRuns \in Nat /\ MaxEvents \in Nat
  BY PanelAssumption
<1>1. PICK S : queue \in Seq(S)
  BY DEF PanelInv
<1>2. /\ service \in Services /\ events \in 0 .. MaxEvents /\ Len(queue) <= events
      /\ \A i \in DOMAIN queue : EventOK(queue[i], service.run)
      /\ run_uid <= service.run /\ run_uid \in 0 .. MaxRuns
  BY TypesOfPlots, Zenon DEF PlotTypes
<1>3. /\ queue' = Append(queue, e) /\ EventOK(e, service'.run) /\ service' \in Services
      /\ events < MaxEvents /\ events' = events + 1
      /\ UNCHANGED <<phase, wanted, fetched, g2, intensity, sections, series, label, run_uid,
                     file_path, error>>
      /\ (service'.run = NoRun => service'.sections = 0)
  BY Zenon DEF Sends, resync, plots, texts
<1>4. service.run \in Nat /\ service'.run \in Nat /\ service.run <= service'.run
  BY <1>2, <1>3 DEF Services
<1>5. run_uid' <= service'.run
  BY <1>0, <1>2, <1>3, <1>4
<1>6. /\ queue' \in Seq(S \cup {e}) /\ Len(queue') = Len(queue) + 1 /\ Len(queue) \in Nat
      /\ DOMAIN queue' = DOMAIN queue \cup {Len(queue) + 1}
      /\ \A i \in DOMAIN queue : queue'[i] = queue[i]
      /\ queue'[Len(queue) + 1] = e
  BY <1>1, <1>3, EventsAreQueued
<1>7. Len(queue') <= events' /\ events' \in 0 .. MaxEvents
  BY <1>0, <1>2, <1>3, <1>6
<1>8. \A x : EventOK(x, service.run) => EventOK(x, service'.run)
  BY <1>4 DEF EventOK
<1>9. \A i \in DOMAIN queue' : EventOK(queue'[i], service'.run)
  BY <1>2, <1>3, <1>6, <1>8, Zenon
<1>10. PlotOK(g2)' /\ PlotOK(intensity)' /\ SeriesOK(series)'
  BY <1>3, TypesOfPlots, Zenon DEF PlotTypes, PlotOK, SeriesOK
<1>11. /\ phase' \in {"opening", "paging", "ready"}
       /\ wanted' \in 0 .. MaxSections /\ fetched' \in 0 .. MaxSections
       /\ phase' = "opening" => fetched' = 0
       /\ label' \in States \cup {"-", Missing}
       /\ run_uid' \in 0 .. MaxRuns /\ file_path' \in 0 .. MaxRuns /\ error' \in {"none", "service", "toggle"}
       /\ sections' \in Seq(Drawn)
  BY <1>3, TypesOfPlots, Zenon DEF PlotTypes
<1>12. \E T : queue' \in Seq(T)
  BY <1>6
<1>13. PlotTypes'
  BY <1>3, <1>5, <1>7, <1>9, <1>10, <1>11, <1>12, Zenon DEF PlotTypes
<1>14. QED
  BY <1>13, TypesOfPlots, PTL

(* An event is taken from the front of the queue.                             *)
LEMMA EventHandled ==
    ASSUME PanelInv, HandleEvent
    PROVE  /\ \E S : queue \in Seq(S) /\ queue' \in Seq(S)
           /\ Len(queue) \in Nat \ {0} /\ DOMAIN queue = 1 .. Len(queue)
           /\ Len(queue') = Len(queue) - 1 /\ DOMAIN queue' = 1 .. Len(queue) - 1
           /\ \A i \in DOMAIN queue' : i + 1 \in DOMAIN queue /\ queue'[i] = queue[i + 1]
           /\ \A i \in DOMAIN queue : i # 1 => i - 1 \in DOMAIN queue' /\ queue'[i - 1] = queue[i]
           /\ 1 \in DOMAIN queue /\ Head(queue) = queue[1]
           /\ EventOK(queue[1], service.run)
           /\ LET e == queue[1]
              IN OnG2Updated(e) \/ OnSectionCompleted(e) \/ OnStateChanged(e) \/ OnError(e)
           /\ phase # "paging"
           /\ UNCHANGED <<service, events, phase, wanted, fetched, early, missed, wasReset>>
<1>1. PICK S : queue \in Seq(S)
  BY DEF PanelInv
<1>2. /\ queue # <<>> /\ queue' = Tail(queue) /\ phase \in {"opening", "ready"}
      /\ LET e == Head(queue)
         IN OnG2Updated(e) \/ OnSectionCompleted(e) \/ OnStateChanged(e) \/ OnError(e)
      /\ UNCHANGED <<service, events, phase, wanted, fetched, early, missed, wasReset>>
  BY Zenon DEF HandleEvent, resync, history
<1>3. /\ queue' \in Seq(S) /\ Len(queue) \in Nat \ {0} /\ DOMAIN queue = 1 .. Len(queue)
      /\ DOMAIN queue' = 1 .. Len(queue) - 1 /\ Len(queue') = Len(queue) - 1
      /\ \A i \in 1 .. Len(queue) - 1 : queue'[i] = queue[i + 1]
      /\ Head(queue) = queue[1]
  <2>1. Len(Tail(queue)) = Len(queue) - 1
    BY <1>1, <1>2
  <2>2. QED
    BY <1>1, <1>2, <2>1, EventsAreTaken
<1> DEFINE n == Len(queue)
<1>4. n \in Nat \ {0} /\ DOMAIN queue = 1 .. n /\ DOMAIN queue' = 1 .. n - 1
  BY <1>3
<1> HIDE DEF n
<1>5. /\ \A i \in DOMAIN queue' : i + 1 \in DOMAIN queue
      /\ \A i \in DOMAIN queue : i # 1 => i - 1 \in DOMAIN queue' /\ (i - 1) + 1 = i
      /\ 1 \in DOMAIN queue
  BY <1>4
<1>6. \A i \in DOMAIN queue' : queue'[i] = queue[i + 1]
  BY <1>3, Zenon
<1>7. \A i \in DOMAIN queue : i # 1 => i - 1 \in DOMAIN queue' /\ queue'[i - 1] = queue[i]
  BY <1>5, <1>6
<1>8. EventOK(queue[1], service.run)
  BY <1>5, Zenon DEF PanelInv
<1>9. phase # "paging"
  BY <1>2
<1>10. QED
  BY <1>1, <1>2, <1>3, <1>5, <1>6, <1>7, <1>8, <1>9, Zenon

(* What a handler does to the plots and the texts.                            *)
LEMMA HandlersTypes ==
    ASSUME PanelInv, NEW e, EventOK(e, service.run),
           OnG2Updated(e) \/ OnSectionCompleted(e) \/ OnStateChanged(e) \/ OnError(e)
    PROVE  /\ PlotOK(g2)' /\ PlotOK(intensity)' /\ SeriesOK(series)' /\ sections' \in Seq(Drawn)
           /\ label' \in States \cup {"-", Missing}
           /\ run_uid' \in 0 .. MaxRuns /\ file_path' \in 0 .. MaxRuns /\ error' \in {"none", "service", "toggle"}
           /\ run_uid' <= service.run
<1>0. /\ service.run \in 0 .. MaxRuns /\ MaxRuns \in Nat
      /\ PlotOK(g2) /\ PlotOK(intensity) /\ SeriesOK(series) /\ sections \in Seq(Drawn)
      /\ label \in States \cup {"-", Missing}
      /\ run_uid \in 0 .. MaxRuns /\ file_path \in 0 .. MaxRuns /\ error \in {"none", "service", "toggle"}
      /\ run_uid <= service.run
  BY TypesOfPlots, PanelAssumption DEF PlotTypes, Services
<1>1. CASE OnG2Updated(e)
  <2>1. /\ g2' = G2Curves(e) /\ intensity' = IntensityCurves(e) /\ series' = ConvergenceSeries(e)
        /\ file_path' = e.run /\ error' = IF file_path = e.run THEN error ELSE "none"
        /\ UNCHANGED <<sections, label, run_uid>> /\ IsResult(e)
    BY <1>1, Zenon DEF OnG2Updated, IsResult
  <2>2. /\ PlotOK(G2Curves(e)) /\ PlotOK(IntensityCurves(e)) /\ SeriesOK(ConvergenceSeries(e))
        /\ e.run \in RunStamps
    BY <2>1, CurvesOfResult, PointsOfResult
  <2>3. PlotOK(g2)' /\ PlotOK(intensity)' /\ SeriesOK(series)'
    BY <2>1, <2>2, Zenon DEF PlotOK, SeriesOK
  <2>4. file_path' \in 0 .. MaxRuns
    BY <1>0, <2>1, <2>2 DEF RunStamps
  <2>5. error' \in {"none", "service", "toggle"}
    BY <1>0, <2>1
  <2>6. QED
    BY <1>0, <2>1, <2>3, <2>4, <2>5, Zenon
<1>2. CASE OnSectionCompleted(e)
  <2>1. /\ sections' = Append(sections, [run |-> e.run, index |-> e.index])
        /\ UNCHANGED <<g2, intensity, series, texts>> /\ e.subject = "section"
    BY <1>2, Zenon DEF OnSectionCompleted, AddSection
  <2>2. e.run \in RunStamps /\ e.index \in 1 .. MaxSections
    BY <1>0, <2>1 DEF EventOK, RunStamps
  <2>3. sections' \in Seq(Drawn)
    BY <1>0, <2>1, <2>2 DEF Drawn
  <2>4. QED
    BY <1>0, <2>1, <2>3, Zenon DEF texts, PlotOK, SeriesOK
<1>3. CASE OnStateChanged(e)
  <2>1. /\ e.subject = "state" /\ label' = e.state /\ UNCHANGED <<file_path, error>>
        /\ \/ run_uid' = e.run /\ ClearPlots
           \/ UNCHANGED <<run_uid, plots>>
    BY <1>3, Zenon DEF OnStateChanged
  <2>2. e.state \in States /\ e.run \in 0 .. service.run
    BY <2>1 DEF EventOK
  <2>3. e.run \in 0 .. MaxRuns /\ e.run <= service.run
    BY <1>0, <2>2
  <2>4. CASE run_uid' = e.run /\ ClearPlots
    <3>1. g2' = NoCurve /\ intensity' = NoCurve /\ sections' = <<>> /\ series' = NoCurve
      BY <2>4 DEF ClearPlots
    <3>2. PlotOK(g2)' /\ PlotOK(intensity)' /\ SeriesOK(series)'
      BY <3>1, NoPlot, Zenon DEF PlotOK, SeriesOK
    <3>3. sections' \in Seq(Drawn)
      BY <3>1
    <3>4. QED
      BY <1>0, <2>1, <2>2, <2>3, <2>4, <3>2, <3>3, Zenon
  <2>5. CASE UNCHANGED <<run_uid, plots>>
    BY <1>0, <2>1, <2>2, <2>5, Zenon DEF plots, PlotOK, SeriesOK
  <2>6. QED
    BY <2>1, <2>4, <2>5
<1>4. CASE OnError(e)
  <2>1. UNCHANGED <<plots, label, run_uid, file_path>> /\ error' = "service"
    BY <1>4, Zenon DEF OnError
  <2>2. QED
    BY <1>0, <2>1, Zenon DEF plots, PlotOK, SeriesOK
<1>5. QED
  BY <1>1, <1>2, <1>3, <1>4

LEMMA HandleKeepsTypes ==
    ASSUME PanelInv, HandleEvent
    PROVE  PanelInv'
<1> DEFINE e == queue[1]
<1>1. /\ OnG2Updated(e) \/ OnSectionCompleted(e) \/ OnStateChanged(e) \/ OnError(e)
      /\ EventOK(e, service.run)
      /\ UNCHANGED <<service, events, phase, wanted, fetched>>
      /\ \E S : queue' \in Seq(S)
      /\ Len(queue) \in Nat \ {0} /\ Len(queue') = Len(queue) - 1
      /\ \A i \in DOMAIN queue' : i + 1 \in DOMAIN queue /\ queue'[i] = queue[i + 1]
  BY EventHandled, Zenon
<1>2. PlotTypes
  BY TypesOfPlots
<1> HIDE DEF e
<1>3. /\ PlotOK(g2)' /\ PlotOK(intensity)' /\ SeriesOK(series)' /\ sections' \in Seq(Drawn)
      /\ label' \in States \cup {"-", Missing}
      /\ run_uid' \in 0 .. MaxRuns /\ file_path' \in 0 .. MaxRuns /\ error' \in {"none", "service", "toggle"}
      /\ run_uid' <= service.run
  BY <1>1, HandlersTypes, Zenon
<1>4. Len(queue') <= events'
  <2>1. Len(queue) <= events /\ events \in Nat
    BY <1>2, PanelAssumption DEF PlotTypes
  <2>2. QED
    BY <1>1, <2>1
<1>5. \A i \in DOMAIN queue' : EventOK(queue'[i], service'.run)
  <2>1. \A i \in DOMAIN queue : EventOK(queue[i], service.run)
    BY <1>2, Zenon DEF PlotTypes
  <2>2. QED
    BY <1>1, <2>1, Zenon
<1>6. PlotTypes'
  BY <1>1, <1>2, <1>3, <1>4, <1>5, Zenon DEF PlotTypes
<1>7. QED
  BY <1>6, TypesOfPlots, PTL

LEMMA ResyncKeepsTypes ==
    ASSUME PanelInv, Resync
    PROVE  PanelInv'
<1>1. PlotTypes
  BY TypesOfPlots
<1>2. ASSUME NEW answered \in Answered, ResyncStatus(answered) PROVE PlotTypes'
  <2>1. /\ phase = "opening"
        /\ \/ label' = service.state /\ wanted' = service.sections /\ sections' \in {<<>>, sections}
           \/ label' = Missing /\ UNCHANGED <<wanted, sections>>
        /\ phase' \in {"paging", "ready"}
        /\ UNCHANGED <<service, queue, events, fetched, g2, intensity, series,
                       run_uid, file_path, error>>
    <3>1. /\ phase = "opening"
          /\ \/ label' = service.state /\ wanted' = service.sections
                /\ (sections' = <<>> \/ sections' = sections)
             \/ label' = Missing /\ UNCHANGED <<wanted, sections>>
          /\ phase' = "paging" \/ phase' = "ready"
          /\ UNCHANGED <<service, queue, events, fetched, g2, intensity, series,
                         run_uid, file_path, error>>
      BY <1>2, Zenon DEF ResyncStatus
    <3>2. QED
      BY <3>1, Zenon
  <2>2. service.state \in States /\ service.sections \in 0 .. MaxSections /\ <<>> \in Seq(Drawn)
    BY <1>1 DEF PlotTypes, Services
  <2>3. /\ label' \in States \cup {"-", Missing} /\ wanted' \in 0 .. MaxSections
        /\ sections' \in Seq(Drawn)
    <3>1. /\ label \in States \cup {"-", Missing} /\ wanted \in 0 .. MaxSections
          /\ sections \in Seq(Drawn)
      BY <1>1, Zenon DEF PlotTypes
    <3>2. QED
      BY <2>1, <2>2, <3>1, Zenon
  <2>4. phase' \in {"opening", "paging", "ready"} /\ (phase' = "opening" => fetched' = 0)
    BY <2>1
  <2>5. QED
    BY <1>1, <2>1, <2>3, <2>4, Zenon DEF PlotTypes, PlotOK, SeriesOK
<1>3. ASSUME NEW answered \in Answered, ResyncPage(answered) PROVE PlotTypes'
  <2>1. /\ sections' = sections \o Page(answered)
        /\ fetched' = fetched + Len(Page(answered))
        /\ phase' = "paging" \/ phase' = "ready"
        /\ UNCHANGED <<service, queue, events, wanted, g2, intensity, series, texts>>
    BY <1>3, Zenon DEF ResyncPage
  <2>2. answered \in BOOLEAN
    BY DEF Answered
  <2>3. Page(answered) \in Seq(Drawn) /\ fetched + Len(Page(answered)) \in 0 .. MaxSections
    BY <2>2, PageFetched
  <2>4. sections' \in Seq(Drawn)
    <3>1. sections \in Seq(Drawn)
      BY <1>1, Zenon DEF PlotTypes
    <3>2. QED
      BY <2>1, <2>3, <3>1, JoinedSet, Zenon
  <2>5. phase' \in {"opening", "paging", "ready"} /\ phase' # "opening"
    BY <2>1
  <2>6. QED
    BY <1>1, <2>1, <2>3, <2>4, <2>5, Zenon DEF texts, PlotTypes, PlotOK, SeriesOK
<1>4. PlotTypes'
  BY <1>2, <1>3, Zenon DEF Resync
<1>5. QED
  BY <1>4, TypesOfPlots, PTL

LEMMA UserKeepsTypes ==
    ASSUME PanelInv, Reset \/ OnClearRois \/ ToggleFails \/ Reopen
    PROVE  PanelInv'
<1>1. PlotTypes
  BY TypesOfPlots
<1>2. events < MaxEvents /\ events' = events + 1
  BY Zenon DEF Reset, OnClearRois, ToggleFails, Reopen, Happens
<1>3. events \in Nat /\ MaxEvents \in Nat
  BY <1>1, PanelAssumption DEF PlotTypes
<1>4. events' \in 0 .. MaxEvents
  BY <1>2, <1>3
<1>5. service \in Services
  BY <1>1, Zenon DEF PlotTypes
<1>6. CASE Reset
  <2>1. /\ service' = [service EXCEPT !.sections = 0, !.frames = 0]
        /\ UNCHANGED <<queue, resync, plots, texts>>
    BY <1>6, Zenon DEF Reset
  <2>2. service' \in Services /\ service'.run = service.run /\ service'.sections = 0
    <3>1. 0 \in 0 .. MaxSections /\ 0 \in 0 .. MaxFrames
      BY PanelAssumption
    <3>2. service' = [state |-> service.state, run |-> service.run, sections |-> 0, frames |-> 0]
      BY <1>5, <2>1 DEF Services
    <3>3. QED
      BY <1>5, <3>1, <3>2 DEF Services
  <2>3. Len(queue') <= events'
    <3>1. Len(queue) <= events /\ \E S : queue \in Seq(S)
      BY <1>1, Zenon DEF PlotTypes
    <3>2. Len(queue) \in Nat
      BY <3>1
    <3>3. QED
      BY <1>2, <1>3, <2>1, <3>1, <3>2
  <2>4. PlotTypes'
    BY <1>1, <1>4, <2>1, <2>2, <2>3, Zenon DEF PlotTypes, resync, plots, texts, PlotOK, SeriesOK
  <2>5. QED
    BY <2>4, TypesOfPlots, PTL
<1>7. CASE OnClearRois \/ ToggleFails
  <2>1. /\ \/ g2' = NoCurve /\ intensity' = NoCurve
           \/ UNCHANGED <<g2, intensity>>
        /\ error' = error \/ error' \in {"toggle", "none"}
        /\ UNCHANGED <<service, queue, phase, wanted, fetched, sections, series,
                       label, run_uid, file_path>>
    BY <1>7, Zenon DEF OnClearRois, ToggleFails, resync, plots, texts
  <2>2. /\ PlotOK(g2)' /\ PlotOK(intensity)'
        /\ error' \in {"none", "service", "toggle"}
    BY <1>1, <2>1, NoPlot, Zenon DEF PlotTypes, PlotOK
  <2>3. Len(queue') <= events'
    <3>1. Len(queue) <= events /\ \E S : queue \in Seq(S)
      BY <1>1, Zenon DEF PlotTypes
    <3>2. Len(queue) \in Nat
      BY <3>1
    <3>3. QED
      BY <1>2, <1>3, <2>1, <3>1, <3>2
  <2>4. PlotTypes'
    BY <1>1, <1>4, <2>1, <2>2, <2>3, Zenon DEF PlotTypes, SeriesOK
  <2>5. QED
    BY <2>4, TypesOfPlots, PTL
<1>8. CASE Reopen
  <2>1. /\ phase' = "opening" /\ wanted' = 0 /\ fetched' = 0
        /\ label' = "-" /\ run_uid' = 0 /\ file_path' = 0 /\ error' = "none"
        /\ g2' = NoCurve /\ intensity' = NoCurve /\ sections' = <<>> /\ series' = NoCurve
        /\ queue' = <<>>
        /\ service' \in {service, [service EXCEPT !.state = "Disabled"]}
    BY <1>8, Zenon DEF Reopen, NoRun
  <2>2. /\ service' \in Services /\ service'.run = service.run
        /\ service'.sections = service.sections /\ service.run \in Nat
    BY <1>5, <2>1, PanelAssumption DEF Services
  <2>3. PlotOK(g2)' /\ PlotOK(intensity)' /\ SeriesOK(series)'
    BY <2>1, NoPlot, Zenon DEF PlotOK, SeriesOK
  <2>4. /\ queue' \in Seq({}) /\ Len(queue') = 0 /\ DOMAIN queue' = {} /\ sections' \in Seq(Drawn)
    BY <2>1, EmptySeq
  <2>5. /\ Len(queue') <= events' /\ run_uid' <= service'.run
        /\ wanted' \in 0 .. MaxSections /\ fetched' \in 0 .. MaxSections
        /\ run_uid' \in 0 .. MaxRuns /\ file_path' \in 0 .. MaxRuns
    BY <1>4, <2>1, <2>2, <2>4, PanelAssumption
  <2>6. /\ phase' \in {"opening", "paging", "ready"}
        /\ label' \in States \cup {"-", Missing} /\ error' \in {"none", "service", "toggle"}
        /\ \E S : queue' \in Seq(S)
    BY <2>1, <2>4, Zenon
  <2>7. \A i \in DOMAIN queue' : EventOK(queue'[i], service'.run)
    BY <2>4
  <2>8. service'.run = NoRun => service'.sections = 0
    BY <1>1, <2>2, Zenon DEF PlotTypes
  <2>9. PlotTypes'
    BY <1>4, <2>1, <2>2, <2>3, <2>4, <2>5, <2>6, <2>7, <2>8, Zenon DEF PlotTypes
  <2>10. QED
    BY <2>9, TypesOfPlots, PTL
<1>9. QED
  BY <1>6, <1>7, <1>8

LEMMA StepTypes == PanelInv /\ [Next]_vars => PanelInv'
<1> SUFFICES ASSUME PanelInv, [Next]_vars PROVE PanelInv'
  OBVIOUS
<1>1. CASE Service
  <2>1. PICK e : Announces(e) \/ Reports(e)
    BY <1>1, ServiceSends
  <2>2. Sends(e) /\ service'.run \in {service.run, service.run + 1}
    BY <2>1, Zenon DEF Announces, Reports
  <2>3. QED
    BY <2>2, SendKeepsTypes
<1>2. CASE UNCHANGED vars
  <2>1. PlotTypes
    BY TypesOfPlots
  <2>2. PlotTypes'
    BY <1>2, <2>1, Zenon DEF PlotTypes, vars, resync, plots, texts, PlotOK, SeriesOK
  <2>3. QED
    BY <2>2, TypesOfPlots, PTL
<1>3. QED
  BY <1>1, <1>2, HandleKeepsTypes, ResyncKeepsTypes, UserKeepsTypes, Zenon DEF Next

(* PanelInv holds in every state of every behaviour.                          *)
THEOREM PanelInvariant == Spec => []PanelInv
<1>1. QED
  BY InitTypes, StepTypes, PTL DEF Spec

(* The panel's state keeps its types: every curve, section and point bears a  *)
(* run that was bound, and resync never counts past the sections there are.   *)
THEOREM PanelTypeCorrect == Spec => []TypeOK
<1>1. PanelInv => TypeOK
  BY DEF PanelInv
<1>2. QED
  BY <1>1, PanelInvariant, PTL

-----------------------------------------------------------------------------
(* All that is shown is of the service's run, said of each plot.              *)
ShowsOwnRun ==
    /\ Range(g2) \subseteq {service.run}
    /\ Range(intensity) \subseteq {service.run}
    /\ \A s \in ToSet(sections) : s.run = service.run
    /\ \A p \in AllPoints : p.run = service.run

LEMMA OwnRunShown == ShownRuns \subseteq {service.run} <=> ShowsOwnRun
<1>1. UNION {{p.run : p \in ToSet(series[c])} : c \in DOMAIN series} = {p.run : p \in AllPoints}
  BY DEF AllPoints, PointsOf, ToSet
<1> DEFINE A == Range(g2)
           B == Range(intensity)
           C == {s.run : s \in ToSet(sections)}
           D == {p.run : p \in AllPoints}
<1>2. ShownRuns = A \cup B \cup C \cup D
  BY <1>1, Zenon DEF ShownRuns
<1>3. C \subseteq {service.run} <=> \A s \in ToSet(sections) : s.run = service.run
  OBVIOUS
<1>4. D \subseteq {service.run} <=> \A p \in AllPoints : p.run = service.run
  OBVIOUS
<1>5. ShowsOwnRun <=> A \subseteq {service.run} /\ B \subseteq {service.run}
                      /\ C \subseteq {service.run} /\ D \subseteq {service.run}
  BY <1>3, <1>4, Zenon DEF ShowsOwnRun
<1> HIDE DEF A, B, C, D
<1>6. QED
  BY <1>2, <1>5

Blank == g2 = NoCurve /\ intensity = NoCurve /\ sections = <<>> /\ series = NoCurve

LEMMA NothingShown == Blank => ShowsOwnRun /\ AllPoints = {}
<1> SUFFICES ASSUME Blank PROVE ShowsOwnRun /\ AllPoints = {}
  OBVIOUS
<1>0. g2 = NoCurve /\ intensity = NoCurve /\ sections = <<>> /\ series = NoCurve
  BY DEF Blank
<1>1. Range(g2) = {} /\ Range(intensity) = {} /\ DOMAIN series = {}
  BY <1>0, NoPlot, Zenon
<1>2. DOMAIN sections = {}
  BY <1>0, EmptySeq
<1>3. ToSet(sections) = {}
  BY <1>2, EmptySet
<1>4. AllPoints = {}
  BY <1>1 DEF AllPoints
<1>5. QED
  BY <1>1, <1>3, <1>4, Zenon DEF ShowsOwnRun

LEMMA SamePoints == ASSUME series' = series PROVE AllPoints' = AllPoints
BY DEF AllPoints, PointsOf

(* An event of run, or none, adds nothing of another run to the plots.        *)
LEMMA EventShowsItsRun ==
    ASSUME PanelInv, NEW e, EventOK(e, service.run),
           OnG2Updated(e) \/ OnSectionCompleted(e) \/ OnStateChanged(e) \/ OnError(e),
           service' = service, ShowsOwnRun, Named(e) => e.run = service.run
    PROVE  ShowsOwnRun'
<1>1. CASE OnG2Updated(e)
  <2>1. /\ g2' = G2Curves(e) /\ intensity' = IntensityCurves(e) /\ series' = ConvergenceSeries(e)
        /\ sections' = sections /\ IsResult(e)
    BY <1>1, Zenon DEF OnG2Updated, IsResult
  <2>2. /\ Range(G2Curves(e)) \subseteq Range(g2) \cup {e.run}
        /\ Range(IntensityCurves(e)) \subseteq {e.run}
        /\ e.run \in RunStamps
    BY <2>1, CurvesOfResult, Zenon
  <2>3. e.run = service.run
    BY <2>1, <2>2, PanelAssumption DEF Named, IsResult, RunStamps, NoRun
  <2>4. \A c \in DOMAIN series' : \A i \in DOMAIN series'[c] : series'[c][i].run = service.run
    <3> SUFFICES ASSUME NEW c \in DOMAIN series'
                 PROVE  \A i \in DOMAIN series'[c] : series'[c][i].run = service.run
      OBVIOUS
    <3> DEFINE old == IF c \in DOMAIN series THEN series[c] ELSE <<>>
               new == series'[c]
               p   == [run |-> e.run, frames |-> e.frames]
    <3>1. /\ old \in Seq(Points) /\ p \in Points
          /\ new = old \/ new = Append(old, p)
      BY <2>1, PointsOfResult, Zenon
    <3>2. \A i \in DOMAIN old : old[i].run = service.run
      <4>1. CASE c \in DOMAIN series
        BY <4>1 DEF ShowsOwnRun, AllPoints, PointsOf
      <4>2. CASE c \notin DOMAIN series
        BY <4>2
      <4>3. QED
        BY <4>1, <4>2
    <3>3. p.run = service.run
      BY <2>3
    <3> HIDE DEF old, new, p
    <3>4. CASE new = old
      BY <3>2, <3>4 DEF new
    <3>5. CASE new = Append(old, p)
      <4>1. /\ DOMAIN new = DOMAIN old \cup {Len(old) + 1}
            /\ \A i \in DOMAIN old : new[i] = old[i]
            /\ new[Len(old) + 1] = p
        BY <3>1, <3>5, EventsAreQueued
      <4>2. \A i \in DOMAIN new : new[i].run = service.run
        BY <3>2, <3>3, <4>1
      <4>3. QED
        BY <4>2 DEF new
    <3>6. QED
      BY <3>1, <3>4, <3>5
  <2>5. \A p \in AllPoints' : p.run = service.run
    BY <2>4 DEF AllPoints, PointsOf
  <2>6. Range(g2') \subseteq {service.run} /\ Range(intensity') \subseteq {service.run}
    <3>1. Range(g2) \subseteq {service.run}
      BY Zenon DEF ShowsOwnRun
    <3>2. QED
      BY <2>1, <2>2, <2>3, <3>1, Zenon
  <2>7. QED
    BY <2>1, <2>5, <2>6, Zenon DEF ShowsOwnRun
<1>2. CASE OnSectionCompleted(e)
  <2>1. /\ sections' = Append(sections, [run |-> e.run, index |-> e.index])
        /\ UNCHANGED <<g2, intensity, series>> /\ e.subject = "section"
    BY <1>2, Zenon DEF OnSectionCompleted, AddSection
  <2> DEFINE s == [run |-> e.run, index |-> e.index]
  <2>2. e.run \in RunStamps /\ e.index \in 1 .. MaxSections /\ sections \in Seq(Drawn)
    <3>1. service.run \in 0 .. MaxRuns /\ sections \in Seq(Drawn)
      BY TypesOfPlots DEF PlotTypes, Services
    <3>2. QED
      BY <2>1, <3>1, PanelAssumption DEF EventOK, RunStamps
  <2>3. s \in Drawn
    BY <2>2 DEF Drawn
  <2>4. e.run = service.run
    BY <2>1, <2>2, PanelAssumption DEF Named, RunStamps, NoRun
  <2>5. s.run = service.run
    BY <2>4
  <2> HIDE DEF s
  <2>6. ToSet(sections') = ToSet(sections) \cup {s}
    BY <2>1, <2>2, <2>3, AppendedSet DEF s
  <2>7. \A x \in ToSet(sections') : x.run = service.run
    BY <2>5, <2>6 DEF ShowsOwnRun
  <2>8. QED
    BY <2>1, <2>7, SamePoints, Zenon DEF ShowsOwnRun
<1>3. CASE OnStateChanged(e)
  <2>1. ClearPlots \/ UNCHANGED plots
    BY <1>3, Zenon DEF OnStateChanged
  <2>2. CASE ClearPlots
    <3>1. Blank'
      BY <2>2, Zenon DEF ClearPlots, Blank
    <3>2. QED
      BY <3>1, NothingShown, PTL
  <2>3. CASE UNCHANGED plots
    BY <2>3, SamePoints, Zenon DEF plots, ShowsOwnRun
  <2>4. QED
    BY <2>1, <2>2, <2>3
<1>4. CASE OnError(e)
  BY <1>4, SamePoints, Zenon DEF OnError, plots, ShowsOwnRun
<1>5. QED
  BY <1>1, <1>2, <1>3, <1>4

-----------------------------------------------------------------------------
LEMMA InitRuns == Init => RunsInv
<1> SUFFICES ASSUME Init PROVE RunsInv
  OBVIOUS
<1>1. /\ g2 = NoCurve /\ intensity = NoCurve /\ sections = <<>> /\ series = NoCurve
      /\ queue = <<>>
  BY Zenon DEF Init
<1>2. ShowsOwnRun
  BY <1>1, NothingShown, Zenon DEF Blank
<1>3. DOMAIN queue = {}
  BY <1>1, EmptySeq
<1>4. QED
  BY <1>2, <1>3, OwnRunShown DEF RunsInv, RunsInOrder, CaughtUp

LEMMA SendKeepsRuns ==
    ASSUME PanelInv, RunsInv, NEW e, Announces(e) \/ Reports(e)
    PROVE  RunsInv'
<1>1. PICK S : queue \in Seq(S)
  BY DEF PanelInv
<1>2. Sends(e) /\ service'.run \in {service.run, service.run + 1}
  BY Zenon DEF Announces, Reports
<1>3. /\ queue' = Append(queue, e) /\ EventOK(e, service'.run)
      /\ (Named(e) => e.run = service'.run)
      /\ UNCHANGED <<g2, intensity, sections, series, run_uid>>
  BY <1>2, Zenon DEF Sends, plots, texts
<1>4. /\ DOMAIN queue' = DOMAIN queue \cup {Len(queue) + 1}
      /\ Len(queue) \in Nat /\ DOMAIN queue = 1 .. Len(queue)
      /\ \A i \in DOMAIN queue : queue'[i] = queue[i]
      /\ queue'[Len(queue) + 1] = e
  BY <1>1, <1>3, EventsAreQueued
<1> DEFINE n == Len(queue)
<1>5. /\ DOMAIN queue' = DOMAIN queue \cup {n + 1} /\ n \in Nat /\ DOMAIN queue = 1 .. n
      /\ queue'[n + 1] = e
  BY <1>4
<1> HIDE DEF n
<1>6. service.run \in Nat /\ run_uid \in Nat /\ run_uid <= service.run
  BY TypesOfPlots, PanelAssumption DEF PlotTypes, Services
<1>7. \A i \in DOMAIN queue : Named(queue[i]) => queue[i].run \in Nat /\ queue[i].run <= service.run
  <2>1. \A x : EventOK(x, service.run) /\ Named(x) => x.run \in Nat /\ x.run <= service.run
    BY <1>6 DEF EventOK, Named
  <2>2. QED
    BY <2>1, Zenon DEF PanelInv
<1>8. RunsInOrder'
  <2> SUFFICES ASSUME NEW i \in DOMAIN queue', NEW j \in DOMAIN queue', i < j,
                      Named(queue'[i]), Named(queue'[j])
               PROVE  queue'[i].run <= queue'[j].run
    BY DEF RunsInOrder
  <2>1. CASE j \in DOMAIN queue
    <3>1. i \in DOMAIN queue
      BY <1>5, <2>1
    <3>2. queue'[i] = queue[i] /\ queue'[j] = queue[j]
      BY <1>4, <2>1, <3>1, Zenon
    <3>3. QED
      BY <2>1, <3>1, <3>2 DEF RunsInv, RunsInOrder
  <2>2. CASE j = n + 1
    <3>1. i \in DOMAIN queue
      BY <1>5, <2>2
    <3>2. queue'[i] = queue[i] /\ queue'[j] = e
      BY <1>4, <1>5, <2>2, <3>1, Zenon
    <3>3. queue[i].run \in Nat /\ queue[i].run <= service.run /\ e.run = service'.run
      BY <1>3, <1>7, <3>1, <3>2
    <3>4. QED
      BY <1>2, <1>6, <3>2, <3>3
  <2>3. QED
    BY <1>5, <2>1, <2>2
<1>9. CASE Announces(e)
  <2>1. IsState(e) /\ e.run = service'.run /\ service'.run = service.run + 1
    BY <1>9, Zenon DEF Announces
  <2>2. run_uid' # service'.run /\ service'.run # NoRun
    BY <1>3, <1>6, <2>1 DEF NoRun
  <2>3. n + 1 \in DOMAIN queue' /\ IsState(queue'[n + 1]) /\ queue'[n + 1].run = service'.run
    BY <1>5, <2>1
  <2>4. BindWaits'
    BY <2>2, <2>3 DEF BindWaits, IsState
  <2>5. QED
    BY <1>8, <2>4 DEF RunsInv
<1>10. CASE Reports(e)
  <2>1. service'.run = service.run
    BY <1>10, Zenon DEF Reports
  <2>2. CASE CaughtUp
    <3>1. ShowsOwnRun
      BY <2>2, OwnRunShown DEF CaughtUp
    <3>2. ShowsOwnRun'
      BY <1>3, <2>1, <3>1, SamePoints, Zenon DEF ShowsOwnRun
    <3>3. (ShownRuns \subseteq {service.run})'
      BY <3>2, OwnRunShown, PTL
    <3>4. \A i \in DOMAIN queue' : Named(queue'[i]) => queue'[i].run = service'.run
      <4>1. \A i \in DOMAIN queue : Named(queue[i]) => queue[i].run = service.run
        BY <2>2, Zenon DEF CaughtUp
      <4>2. QED
        BY <1>3, <1>4, <1>5, <2>1, <4>1, Zenon
    <3>5. CaughtUp'
      BY <3>3, <3>4, Zenon DEF CaughtUp, Named
    <3>6. QED
      BY <1>8, <3>5 DEF RunsInv
  <2>3. CASE BindWaits
    <3>1. PICK i \in DOMAIN queue : IsState(queue[i]) /\ queue[i].run = service.run
      BY <2>3 DEF BindWaits
    <3>2. i \in DOMAIN queue' /\ queue'[i] = queue[i]
      BY <1>4, <3>1
    <3>3. BindWaits'
      BY <1>3, <2>1, <2>3, <3>1, <3>2 DEF BindWaits, IsState
    <3>4. QED
      BY <1>8, <3>3 DEF RunsInv
  <2>4. QED
    BY <2>2, <2>3 DEF RunsInv
<1>11. QED
  BY <1>9, <1>10

LEMMA HandleKeepsRuns ==
    ASSUME PanelInv, RunsInv, HandleEvent
    PROVE  RunsInv'
<1> DEFINE e == queue[1]
<1>1. /\ OnG2Updated(e) \/ OnSectionCompleted(e) \/ OnStateChanged(e) \/ OnError(e)
      /\ EventOK(e, service.run)
      /\ service' = service
      /\ \A i \in DOMAIN queue' : i + 1 \in DOMAIN queue /\ queue'[i] = queue[i + 1]
      /\ \A i \in DOMAIN queue : i # 1 => i - 1 \in DOMAIN queue' /\ queue'[i - 1] = queue[i]
      /\ 1 \in DOMAIN queue
      /\ DOMAIN queue = 1 .. Len(queue) /\ Len(queue) \in Nat
  BY EventHandled, Zenon
<1>0. Len(queue) \in Nat
  <2>1. Len(queue) \in Nat \ {0}
    BY EventHandled, Zenon
  <2>2. QED
    BY <2>1
<1>2. \A i \in DOMAIN queue' : i \in Nat \ {0} /\ 1 < i + 1
  <2>1. DOMAIN queue' = 1 .. Len(queue) - 1
    BY EventHandled, Zenon
  <2>2. QED
    BY <1>0, <2>1
<1>3. RunsInOrder'
  <2> SUFFICES ASSUME NEW i \in DOMAIN queue', NEW j \in DOMAIN queue', i < j,
                      Named(queue'[i]), Named(queue'[j])
               PROVE  queue'[i].run <= queue'[j].run
    BY DEF RunsInOrder
  <2>1. i + 1 < j + 1
    BY <1>2
  <2>2. QED
    BY <1>1, <2>1 DEF RunsInv, RunsInOrder
<1>4. CASE CaughtUp
  <2>1. /\ ShowsOwnRun
        /\ \A i \in DOMAIN queue : Named(queue[i]) => queue[i].run = service.run
    BY <1>4, OwnRunShown DEF CaughtUp
  <2>2. Named(e) => e.run = service.run
    BY <1>1, <2>1, Zenon
  <2> HIDE DEF e
  <2>3. ShowsOwnRun'
    BY <1>1, <2>1, <2>2, EventShowsItsRun, Zenon
  <2>4. (ShownRuns \subseteq {service.run})'
    BY <2>3, OwnRunShown, PTL
  <2>5. \A i \in DOMAIN queue' : Named(queue'[i]) => queue'[i].run = service'.run
    BY <1>1, <2>1, Zenon
  <2>6. CaughtUp'
    BY <2>4, <2>5, Zenon DEF CaughtUp, Named
  <2>7. QED
    BY <1>3, <2>6 DEF RunsInv
<1>5. CASE BindWaits
  <2>1. run_uid # service.run /\ service.run # NoRun
    BY <1>5 DEF BindWaits
  <2>2. CASE IsState(e) /\ e.run = service.run
    <3>1. ClearPlots
      BY <1>1, <2>1, <2>2, Zenon
      DEF OnG2Updated, OnSectionCompleted, OnStateChanged, OnError, IsState
    <3>2. ShowsOwnRun'
      <4>1. Blank'
        BY <3>1, Zenon DEF ClearPlots, Blank
      <4>2. QED
        BY <4>1, NothingShown, PTL
    <3>3. (ShownRuns \subseteq {service.run})'
      BY <3>2, OwnRunShown, PTL
    <3>4. ASSUME NEW i \in DOMAIN queue', Named(queue'[i]) PROVE queue'[i].run = service'.run
      <4>1. /\ i + 1 \in DOMAIN queue /\ queue'[i] = queue[i + 1] /\ 1 < i + 1
            /\ Named(queue[1])
        BY <1>1, <1>2, <2>1, <2>2, <3>4 DEF Named, IsState
      <4>2. service.run <= queue'[i].run
        BY <1>1, <2>2, <3>4, <4>1 DEF RunsInv, RunsInOrder
      <4>3. service.run \in Nat /\ queue'[i].run \in Nat /\ queue'[i].run <= service.run
        <5>1. EventOK(queue[i + 1], service.run) /\ service.run \in Nat
          BY <4>1, TypesOfPlots, PanelAssumption DEF PlotTypes, Services
        <5>2. QED
          BY <3>4, <4>1, <5>1 DEF EventOK, Named
      <4>4. QED
        BY <1>1, <4>2, <4>3
    <3>5. CaughtUp'
      BY <3>3, <3>4, Zenon DEF CaughtUp, Named
    <3>6. QED
      BY <1>3, <3>5 DEF RunsInv
  <2>3. CASE ~(IsState(e) /\ e.run = service.run)
    <3>1. PICK i \in DOMAIN queue : IsState(queue[i]) /\ queue[i].run = service.run
      BY <1>5 DEF BindWaits
    <3>2. i - 1 \in DOMAIN queue' /\ queue'[i - 1] = queue[i]
      BY <1>1, <2>3, <3>1
    <3>3. run_uid' # service.run
      BY <1>1, <2>1, <2>3, Zenon
      DEF OnG2Updated, OnSectionCompleted, OnStateChanged, OnError, IsState, texts
    <3>4. BindWaits'
      BY <1>1, <2>1, <3>1, <3>2, <3>3 DEF BindWaits, IsState
    <3>5. QED
      BY <1>3, <3>4 DEF RunsInv
  <2>4. QED
    BY <2>2, <2>3
<1>6. QED
  BY <1>4, <1>5 DEF RunsInv

(* resync draws sections of the run the service has when it answers.          *)
LEMMA ResyncKeepsRuns ==
    ASSUME PanelInv, RunsInv, Resync
    PROVE  RunsInv'
<1>1. PICK answered \in Answered : ResyncStatus(answered) \/ ResyncPage(answered)
  BY Zenon DEF Resync
<1>2. UNCHANGED <<service, queue, g2, intensity, series, run_uid>>
  BY <1>1, Zenon DEF ResyncStatus, ResyncPage, texts
<1>3. \A s \in ToSet(sections') : s \in ToSet(sections) \/ s.run = service.run
  <2>1. CASE ResyncStatus(answered)
    <3>1. sections' = <<>> \/ sections' = sections
      BY <2>1, Zenon DEF ResyncStatus
    <3>2. CASE sections' = <<>>
      <4>1. DOMAIN sections' = {}
        BY <3>2, EmptySeq
      <4>2. QED
        BY <4>1, EmptySet
    <3>3. QED
      BY <3>1, <3>2, Zenon
  <2>2. CASE ResyncPage(answered)
    <3>1. sections' = sections \o Page(answered) /\ answered \in BOOLEAN
      BY <2>2, Zenon DEF ResyncPage, Answered
    <3>2. /\ Page(answered) \in Seq(Drawn)
          /\ ToSet(Page(answered)) \subseteq [run : {service.run}, index : 1 .. MaxSections]
      BY <3>1, PageFetched, Zenon
    <3>3. sections \in Seq(Drawn)
      BY Zenon DEF PanelInv
    <3>4. ToSet(sections') = ToSet(sections) \cup ToSet(Page(answered))
      BY <3>1, <3>2, <3>3, JoinedSet, Zenon
    <3> DEFINE P == ToSet(Page(answered))
    <3> HIDE DEF P
    <3>5. \A s \in P : s.run = service.run
      BY <3>2 DEF P
    <3>6. QED
      BY <3>4, <3>5, Zenon DEF P
  <2>3. QED
    BY <1>1, <2>1, <2>2
<1>4. RunsInOrder'
  BY <1>2, Zenon DEF RunsInv, RunsInOrder, Named
<1>5. CASE CaughtUp
  <2>1. ShowsOwnRun
    BY <1>5, OwnRunShown DEF CaughtUp
  <2>2. ShowsOwnRun'
    BY <1>2, <1>3, <2>1, SamePoints, Zenon DEF ShowsOwnRun
  <2>3. (ShownRuns \subseteq {service.run})'
    BY <2>2, OwnRunShown, PTL
  <2>4. CaughtUp'
    BY <1>2, <1>5, <2>3, Zenon DEF CaughtUp, Named
  <2>5. QED
    BY <1>4, <2>4 DEF RunsInv
<1>6. CASE BindWaits
  BY <1>2, <1>4, <1>6, Zenon DEF RunsInv, BindWaits, IsState
<1>7. QED
  BY <1>5, <1>6 DEF RunsInv

LEMMA UserKeepsRuns ==
    ASSUME PanelInv, RunsInv, Reset \/ OnClearRois \/ ToggleFails \/ Reopen \/ UNCHANGED vars
    PROVE  RunsInv'
<1>0. service \in Services
  BY TypesOfPlots, Zenon DEF PlotTypes
<1>1. CASE Reopen
  <2>1. /\ g2' = NoCurve /\ intensity' = NoCurve /\ sections' = <<>> /\ series' = NoCurve
        /\ queue' = <<>>
    BY <1>1, Zenon DEF Reopen
  <2>2. ShowsOwnRun'
    <3>1. Blank'
      BY <2>1, Zenon DEF Blank
    <3>2. QED
      BY <3>1, NothingShown, PTL
  <2>3. (ShownRuns \subseteq {service.run})'
    BY <2>2, OwnRunShown, PTL
  <2>4. DOMAIN queue' = {}
    BY <2>1, EmptySeq
  <2>5. QED
    BY <2>3, <2>4 DEF RunsInv, RunsInOrder, CaughtUp
<1>2. CASE Reset \/ OnClearRois \/ ToggleFails \/ UNCHANGED vars
  <2>1. /\ UNCHANGED <<queue, sections, series, run_uid>>
        /\ \/ UNCHANGED <<g2, intensity>>
           \/ g2' = NoCurve /\ intensity' = NoCurve
    BY <1>2, Zenon DEF Reset, OnClearRois, ToggleFails, vars, plots, texts
  <2>2. service'.run = service.run
    <3>1. service' \in {service, [service EXCEPT !.sections = 0, !.frames = 0]}
      BY <1>2, Zenon DEF Reset, OnClearRois, ToggleFails, vars
    <3>2. QED
      BY <1>0, <3>1 DEF Services
  <2>3. Range(g2') \subseteq Range(g2) /\ Range(intensity') \subseteq Range(intensity)
    BY <2>1, NoPlot, Zenon
  <2>4. RunsInOrder'
    BY <2>1, Zenon DEF RunsInv, RunsInOrder, Named
  <2>5. CASE CaughtUp
    <3>1. ShowsOwnRun
      BY <2>5, OwnRunShown DEF CaughtUp
    <3>2. ShowsOwnRun'
      BY <2>1, <2>2, <2>3, <3>1, SamePoints, Zenon DEF ShowsOwnRun
    <3>3. (ShownRuns \subseteq {service.run})'
      BY <3>2, OwnRunShown, PTL
    <3>4. CaughtUp'
      BY <2>1, <2>2, <2>5, <3>3, Zenon DEF CaughtUp, Named
    <3>5. QED
      BY <2>4, <3>4 DEF RunsInv
  <2>6. CASE BindWaits
    BY <2>1, <2>2, <2>4, <2>6, Zenon DEF RunsInv, BindWaits, IsState
  <2>7. QED
    BY <2>5, <2>6 DEF RunsInv
<1>3. QED
  BY <1>1, <1>2

LEMMA StepRuns == PanelInv /\ RunsInv /\ [Next]_vars => RunsInv'
<1> SUFFICES ASSUME PanelInv, RunsInv, [Next]_vars PROVE RunsInv'
  OBVIOUS
<1>1. CASE Service
  <2>1. PICK e : Announces(e) \/ Reports(e)
    BY <1>1, ServiceSends
  <2>2. QED
    BY <2>1, SendKeepsRuns
<1>2. QED
  BY <1>1, HandleKeepsRuns, ResyncKeepsRuns, UserKeepsRuns, Zenon DEF Next

(* Whatever events of earlier runs still wait when resync draws its pages, and *)
(* however runs follow one another: a panel that has caught up shows nothing  *)
(* of an earlier run than the service's.                                      *)
THEOREM OneRunIsShown == Spec => []OneRunShown
<1>1. RunsInv => OneRunShown
  <2> SUFFICES ASSUME RunsInv, Quiet PROVE ShownRuns \subseteq {service.run}
    BY DEF OneRunShown
  <2>1. DOMAIN queue = {}
    BY EmptySeq DEF Quiet
  <2>2. QED
    BY <2>1 DEF RunsInv, CaughtUp, BindWaits
<1>2. QED
  BY <1>1, InitRuns, StepRuns, PanelInvariant, PTL DEF Spec

-----------------------------------------------------------------------------
LEMMA InitSections == Init => SectionsInv
<1> SUFFICES ASSUME Init PROVE SectionsInv
  OBVIOUS
<1>1. queue = <<>> /\ phase = "opening" /\ (early <=> service.run # NoRun)
  BY Zenon DEF Init
<1>2. DOMAIN queue = {}
  BY <1>1, EmptySeq
<1>3. ~early => \A i \in 1 .. service.sections : FALSE
  <2>1. ~early => service.sections = 0
    BY <1>1, InitTypes, Zenon DEF PanelInv
  <2>2. QED
    BY <2>1
<1>4. QED
  BY <1>1, <1>2, <1>3, Zenon DEF SectionsInv, Coming

LEMMA SendKeepsSections ==
    ASSUME PanelInv, SectionsInv, NEW e, Announces(e) \/ Reports(e)
    PROVE  SectionsInv'
<1>1. PICK S : queue \in Seq(S)
  BY DEF PanelInv
<1>2. /\ queue' = Append(queue, e)
      /\ UNCHANGED <<sections, phase, wanted, fetched, run_uid>>
  BY Zenon DEF Announces, Reports, Sends, plots, texts, resync
<1> DEFINE n == Len(queue)
<1>3. /\ DOMAIN queue' = DOMAIN queue \cup {n + 1}
      /\ n \in Nat /\ DOMAIN queue = 1 .. n
      /\ \A i \in DOMAIN queue : queue'[i] = queue[i]
      /\ queue'[n + 1] = e
      /\ Len(queue') = n + 1
  BY <1>1, <1>2, EventsAreQueued
<1>4. service.run \in Nat /\ service.sections \in Nat
  BY TypesOfPlots, PanelAssumption DEF PlotTypes, Services
<1> HIDE DEF n
<1>5. CASE Announces(e)
  <2>1. /\ IsState(e) /\ e.run = service'.run
        /\ service'.run = service.run + 1 /\ service'.sections = 0
    BY <1>5, Zenon DEF Announces
  <2>2. HeardBefore(Len(queue) + 1)'
    <3>1. n + 1 \in DOMAIN queue' /\ n + 1 < Len(queue') + 1
      BY <1>3
    <3>2. QED
      BY <1>3, <2>1, <3>1 DEF HeardBefore, IsState
  <2>3. \A k \in DOMAIN queue' : ~(queue'[k].subject = "section" /\ queue'[k].run = service'.run)
    <3>1. \A k \in DOMAIN queue : queue[k].subject = "section" => queue[k].run \in 1 .. service.run
      BY DEF PanelInv, EventOK
    <3>2. \A k \in DOMAIN queue : queue[k].subject = "section" => queue[k].run # service'.run
      BY <1>4, <2>1, <3>1
    <3>3. e.subject # "section"
      BY <2>1 DEF IsState
    <3>4. QED
      BY <1>3, <3>2, <3>3, Zenon
  <2>4. \A i \in 1 .. service'.sections : FALSE
    BY <2>1
  <2>5. QED
    BY <2>2, <2>3, <2>4, Zenon DEF SectionsInv
<1>6. CASE Reports(e)
  <2>1. /\ service'.run = service.run /\ missed' = missed /\ early' = early
        /\ \/ service'.sections = service.sections
           \/ /\ service.run # NoRun
              /\ service'.sections = service.sections + 1
              /\ IsSection(e, service'.sections)
    BY <1>6, Zenon DEF Reports
  <2>2. (Named(e) => e.run = service'.run) /\ EventOK(e, service'.run)
    BY <1>6, Zenon DEF Reports, Sends
  <2>0. Promised' => Promised
    BY <1>2, <1>3, <2>1, Zenon DEF Promised, HeardOfRun, IsState
  <2> SUFFICES ASSUME Promised PROVE SectionsInv'
    BY <2>0 DEF SectionsInv
  <2>3. \A m : HeardBefore(m) => HeardBefore(m)'
    BY <1>2, <1>3, <2>1, Zenon DEF HeardBefore, IsState
  <2>4. \A m \in Nat : HeardBefore(m) => HeardBefore(m + 1)'
    BY <1>2, <1>3, <2>1 DEF HeardBefore, IsState
  <2>5. ~early /\ service'.run # NoRun => HeardBefore(Len(queue) + 1)'
    <3>1. PICK m \in Nat : m = n + 1 /\ m + 1 = Len(queue') + 1
      BY <1>3
    <3>2. ~early /\ service'.run # NoRun => HeardBefore(m)
      BY <2>1, <3>1, Zenon DEF SectionsInv, n
    <3>3. ~early /\ service'.run # NoRun => HeardBefore(m + 1)'
      BY <2>4, <3>2, Zenon
    <3>4. QED
      BY <3>1, <3>3, Zenon DEF HeardBefore
  <2>6. ASSUME ~early, NEW k \in DOMAIN queue',
               queue'[k].subject = "section", queue'[k].run = service'.run
        PROVE  HeardBefore(k)'
    <3>1. CASE k \in DOMAIN queue
      <4>1. HeardBefore(k)
        BY <1>3, <2>1, <2>6, <3>1, Zenon DEF SectionsInv
      <4>2. QED
        BY <2>3, <4>1
    <3>2. CASE k = n + 1
      <4>1. service.run # NoRun
        BY <1>3, <2>1, <2>2, <2>6, <3>2 DEF EventOK, NoRun
      <4>2. HeardBefore(n + 1)
        BY <2>6, <4>1, Zenon DEF SectionsInv, n
      <4>3. QED
        BY <2>3, <3>2, <4>2
    <3>3. QED
      BY <1>3, <3>1, <3>2
  <2>7. ASSUME NEW i \in 1 .. service'.sections PROVE Coming(i)'
    <3>1. CASE i \in 1 .. service.sections
      <4>1. Coming(i)
        BY <3>1, Zenon DEF SectionsInv
      <4>2. CASE \E k \in DOMAIN queue : IsSection(queue[k], i)
        BY <1>3, <2>1, <4>2, Zenon DEF Coming, IsSection
      <4>3. QED
        BY <1>2, <2>1, <4>1, <4>2, Zenon DEF Coming
    <3>2. CASE i \notin 1 .. service.sections
      <4>1. IsSection(e, i)
        BY <1>4, <2>1, <2>7, <3>2
      <4>2. n + 1 \in DOMAIN queue' /\ queue'[n + 1] = e
        BY <1>3
      <4>3. QED
        BY <2>1, <4>1, <4>2 DEF Coming, IsSection
    <3>3. QED
      BY <3>1, <3>2
  <2>8. QED
    BY <2>1, <2>5, <2>6, <2>7, Zenon DEF SectionsInv
<1>7. QED
  BY <1>5, <1>6

LEMMA HandleKeepsSections ==
    ASSUME PanelInv, RunsInv, SectionsInv, HandleEvent
    PROVE  SectionsInv'
<1> DEFINE e == queue[1]
           n == Len(queue)
<1>1. /\ OnG2Updated(e) \/ OnSectionCompleted(e) \/ OnStateChanged(e) \/ OnError(e)
      /\ EventOK(e, service.run)
      /\ UNCHANGED <<service, early, missed, phase>> /\ phase # "paging"
      /\ n \in Nat \ {0} /\ Len(queue') = n - 1
      /\ DOMAIN queue = 1 .. n /\ DOMAIN queue' = 1 .. n - 1
      /\ \A i \in DOMAIN queue' : i + 1 \in DOMAIN queue /\ queue'[i] = queue[i + 1]
      /\ \A i \in DOMAIN queue : i # 1 => i - 1 \in DOMAIN queue' /\ queue'[i - 1] = queue[i]
      /\ 1 \in DOMAIN queue
  BY EventHandled, Zenon
<1> HIDE DEF n
<1>2. /\ service.run \in Nat /\ run_uid \in Nat /\ run_uid <= service.run
      /\ sections \in Seq(Drawn) /\ MaxRuns \in Nat /\ service.run <= MaxRuns
  BY TypesOfPlots, PanelAssumption DEF PlotTypes, Services
<1>0. Promised' => Promised
  <2> SUFFICES ASSUME Promised', early, HeardOfRun PROVE FALSE
    BY <1>1, Zenon DEF Promised
  <2>1. run_uid' = NoRun /\ \A j \in DOMAIN queue' : ~(IsState(queue'[j]) /\ queue'[j].run # NoRun)
    BY <1>1, Zenon DEF Promised, HeardOfRun, IsState
  <2>2. \A j \in DOMAIN queue : j # 1 => ~(IsState(queue[j]) /\ queue[j].run # NoRun)
    BY <1>1, <2>1
  <2>3. CASE run_uid # NoRun
    <3>1. run_uid' = run_uid \/ (OnStateChanged(e) /\ run_uid' = e.run /\ e.run # NoRun)
      BY <1>1, Zenon DEF OnG2Updated, OnSectionCompleted, OnStateChanged, OnError, texts
    <3>2. QED
      BY <2>1, <2>3, <3>1
  <2>4. CASE run_uid = NoRun
    <3>1. IsState(e) /\ e.run # NoRun
      BY <2>2, <2>4 DEF HeardOfRun
    <3>2. OnStateChanged(e)
      BY <1>1, <3>1, Zenon DEF OnG2Updated, OnSectionCompleted, OnError, IsState
    <3>3. run_uid' = e.run
      BY <2>4, <3>1, <3>2, Zenon DEF OnStateChanged
    <3>4. QED
      BY <2>1, <3>1, <3>3
  <2>5. QED
    BY <2>3, <2>4
<1> SUFFICES ASSUME Promised PROVE SectionsInv'
  BY <1>0 DEF SectionsInv
(* Once the panel has heard of the run, no event that waits clears it.        *)
<1>3. ASSUME run_uid = service.run \/ early
      PROVE  /\ run_uid' = run_uid
             /\ sections' = IF e.subject = "section"
                            THEN AddSection(sections, e.run, e.index) ELSE sections
  <2>2. e.subject = "state" => e.run \in {NoRun, run_uid}
    <3>1. CASE early
      BY <1>1, <3>1 DEF Promised, HeardOfRun, IsState
    <3>2. CASE run_uid = service.run
      <4>1. Named(e) => e.run = service.run
        BY <1>1, <3>2, Zenon DEF RunsInv, CaughtUp, BindWaits
      <4>2. QED
        BY <3>2, <4>1 DEF Named
    <3>3. QED
      BY <1>3, <3>1, <3>2
  <2> HIDE DEF e
  <2>3. CASE OnStateChanged(e)
    <3>1. UNCHANGED <<run_uid, plots>> /\ e.subject = "state"
      BY <2>2, <2>3, Zenon DEF OnStateChanged
    <3>2. QED
      BY <1>3, <3>1 DEF plots
  <2>4. CASE OnG2Updated(e) \/ OnError(e)
    <3>1. UNCHANGED <<sections, run_uid>> /\ e.subject \in {"g2", "error"}
      BY <2>4, Zenon DEF OnG2Updated, OnError, plots
    <3>2. QED
      BY <1>3, <3>1
  <2>5. CASE OnSectionCompleted(e)
    BY <1>3, <2>5, Zenon DEF OnSectionCompleted, texts
  <2>6. QED
    BY <1>1, <2>3, <2>4, <2>5
<1>4. ASSUME IsState(e), e.run = service.run, service.run # NoRun PROVE run_uid' = service.run
  <2>1. OnStateChanged(e)
    BY <1>1, <1>4, Zenon DEF OnG2Updated, OnSectionCompleted, OnError, IsState
  <2>2. QED
    BY <1>3, <1>4, <2>1, Zenon DEF OnStateChanged
<1>5. ASSUME NEW m \in Nat, m > 1, HeardBefore(m) PROVE HeardBefore(m - 1)'
  <2>1. CASE run_uid' = service.run
    BY <1>1, <2>1 DEF HeardBefore
  <2>2. CASE run_uid' # service.run
    <3>1. PICK j \in DOMAIN queue : j < m /\ IsState(queue[j]) /\ queue[j].run = service.run
      BY <1>3, <1>5, <2>2 DEF HeardBefore
    <3>2. run_uid # service.run /\ service.run # NoRun
      BY <1>2, <1>3, <2>2 DEF NoRun
    <3>3. j # 1
      BY <1>4, <2>2, <3>1, <3>2
    <3>4. j - 1 \in DOMAIN queue' /\ queue'[j - 1] = queue[j] /\ j - 1 < m - 1
      BY <1>1, <1>5, <3>1, <3>3
    <3>5. QED
      BY <1>1, <3>1, <3>4 DEF HeardBefore, IsState
  <2>3. QED
    BY <2>1, <2>2
<1>6. ~early /\ service'.run # NoRun => HeardBefore(Len(queue) + 1)'
  <2>1. PICK m \in Nat : m = n + 1 /\ m > 1 /\ m - 1 = Len(queue') + 1
    BY <1>1
  <2>2. ~early /\ service.run # NoRun => HeardBefore(m)
    BY <2>1, Zenon DEF SectionsInv, n
  <2>3. ~early /\ service.run # NoRun => HeardBefore(m - 1)'
    BY <1>5, <2>1, <2>2
  <2>4. QED
    BY <1>1, <2>1, <2>3, Zenon DEF HeardBefore
<1>7. ASSUME ~early, NEW k \in DOMAIN queue',
             queue'[k].subject = "section", queue'[k].run = service'.run
      PROVE  HeardBefore(k)'
  <2>1. k + 1 \in DOMAIN queue /\ queue'[k] = queue[k + 1] /\ k + 1 \in Nat /\ k + 1 > 1
        /\ (k + 1) - 1 = k
    BY <1>1
  <2>2. HeardBefore(k + 1)
    BY <1>1, <1>7, <2>1, Zenon DEF SectionsInv
  <2>3. HeardBefore((k + 1) - 1)'
    BY <1>5, <2>1, <2>2
  <2>4. QED
    BY <2>1, <2>3
<1>8. ASSUME NEW i \in 1 .. service'.sections PROVE Coming(i)'
  <2>1. Coming(i)
    BY <1>1, Zenon DEF SectionsInv
  <2> DEFINE s == [run |-> service.run, index |-> i]
  <2>2. CASE \E k \in DOMAIN queue : IsSection(queue[k], i)
    <3>1. PICK k \in DOMAIN queue : IsSection(queue[k], i)
      BY <2>2
    <3>2. CASE k = 1
      <4>1. e.subject = "section" /\ e.run = service.run /\ e.index = i
        BY <3>1, <3>2 DEF IsSection
      <4>2. ~early => HeardBefore(1)
        BY <1>1, <4>1, Zenon DEF SectionsInv
      <4>3. run_uid = service.run \/ early
        BY <1>1, <4>2 DEF HeardBefore
      <4>4. run_uid' = run_uid /\ sections' = Append(sections, s)
        BY <1>3, <4>1, <4>3 DEF AddSection
      <4>5. s \in Drawn
        BY <1>1, <1>2, <4>1 DEF EventOK, Drawn, RunStamps
      <4> HIDE DEF s
      <4>6. s \in ToSet(sections')
        BY <1>2, <4>4, <4>5, AppendedSet
      <4>7. QED
        BY <1>1, <4>3, <4>4, <4>6 DEF Coming, s
    <3>3. CASE k # 1
      <4>1. k - 1 \in DOMAIN queue' /\ queue'[k - 1] = queue[k]
        BY <1>1, <3>3, Zenon
      <4>2. QED
        BY <1>1, <3>1, <4>1 DEF Coming, IsSection
    <3>4. QED
      BY <3>2, <3>3
  <2>3. CASE (run_uid = service.run \/ early) /\ s \in ToSet(sections)
    <3>1. run_uid' = service.run \/ early'
      BY <1>1, <1>3, <2>3
    <3>2. CASE e.subject = "section"
      <4> DEFINE x == [run |-> e.run, index |-> e.index]
      <4>1. sections' = Append(sections, x)
        BY <1>3, <2>3, <3>2 DEF AddSection
      <4>2. x \in Drawn
        BY <1>1, <1>2, <3>2 DEF EventOK, Drawn, RunStamps
      <4> HIDE DEF x, s
      <4>3. s \in ToSet(sections')
        BY <1>2, <2>3, <4>1, <4>2, AppendedSet
      <4>4. QED
        BY <1>1, <3>1, <4>3 DEF Coming, s
    <3>3. CASE e.subject # "section"
      <4>1. sections' = sections
        BY <1>3, <2>3, <3>3
      <4>2. QED
        BY <1>1, <2>3, <3>1, <4>1 DEF Coming
    <3>4. QED
      BY <3>2, <3>3
  <2>4. CASE phase = "opening" /\ early
    BY <1>1, <2>4, Zenon DEF Coming
  <2>5. QED
    BY <1>1, <2>1, <2>2, <2>3, <2>4, Zenon DEF Coming
<1>9. QED
  BY <1>1, <1>6, <1>7, <1>8, Zenon DEF SectionsInv

(* The pages are fetched from the first section on and leave none out; what   *)
(* is completed after the status was asked for waits in the queue.            *)
LEMMA ResyncKeepsSections ==
    ASSUME PanelInv, SectionsInv, Resync
    PROVE  SectionsInv'
<1>1. PICK answered \in Answered : ResyncStatus(answered) \/ ResyncPage(answered)
  BY Zenon DEF Resync
<1>2. UNCHANGED <<service, queue, run_uid, early>>
  BY <1>1, Zenon DEF ResyncStatus, ResyncPage, texts
<1> SUFFICES ASSUME Promised' PROVE SectionsInv'
  BY DEF SectionsInv
<1>3. Promised
  <2>1. ~missed
    BY <1>1, Zenon DEF ResyncStatus, ResyncPage, Promised
  <2>2. QED
    BY <1>2, <2>1, Zenon DEF Promised, HeardOfRun, IsState
<1>4. /\ service.sections \in Nat /\ fetched \in Nat /\ wanted \in Nat /\ sections \in Seq(Drawn)
      /\ (phase = "opening" => fetched = 0) /\ PageLimit \in Nat
  BY TypesOfPlots, PanelAssumption DEF PlotTypes, Services
<1>5. ASSUME NEW i \in 1 .. service.sections PROVE Coming(i)'
  <2> DEFINE s == [run |-> service.run, index |-> i]
  <2>1. Coming(i)
    BY <1>3, <1>5, Zenon DEF SectionsInv
  <2>2. CASE \E k \in DOMAIN queue : IsSection(queue[k], i)
    BY <1>2, <2>2, Zenon DEF Coming, IsSection
  <2>3. CASE (run_uid = service.run \/ early) /\ ResyncStatus(answered)
    <3>1. /\ phase = "opening" /\ fetched' = fetched
          /\ \/ wanted' = service.sections
             \/ sections' = sections /\ ~early
          /\ phase' = IF wanted' > 0 THEN "paging" ELSE "ready"
      BY <2>3, Zenon DEF ResyncStatus, Promised
    <3>2. CASE wanted' = service.sections
      <4>1. phase' = "paging" /\ fetched' < i /\ i <= wanted'
        BY <1>4, <1>5, <3>1, <3>2
      <4>2. QED
        BY <1>2, <2>3, <4>1 DEF Coming
    <3>3. CASE sections' = sections /\ ~early
      <4>1. CASE s \in ToSet(sections)
        BY <1>2, <2>3, <3>3, <4>1 DEF Coming
      <4>2. CASE s \notin ToSet(sections)
        BY <2>1, <2>2, <3>1, <3>3, <4>2, Zenon DEF Coming
      <4>3. QED
        BY <4>1, <4>2
    <3>4. QED
      BY <3>1, <3>2, <3>3
  <2>4. CASE (run_uid = service.run \/ early) /\ ResyncPage(answered)
    <3> DEFINE page == Page(answered)
               n == Len(page)
    <3>1. /\ answered /\ answered \in BOOLEAN /\ phase = "paging"
          /\ sections' = sections \o page
          /\ fetched' = fetched + n /\ wanted' = wanted
          /\ phase' = IF n = PageLimit /\ fetched' < wanted THEN "paging" ELSE "ready"
      BY <2>4, Zenon DEF ResyncPage, Answered, Promised
    <3>2. /\ page \in Seq(Drawn) /\ n \in Nat
          /\ n <= PageLimit
          /\ n < PageLimit => service.sections <= fetched + n
          /\ ToSet(page) = {[run |-> service.run, index |-> k] : k \in fetched + 1 .. fetched + n}
      BY <3>1, PageFetched, Zenon
    <3> HIDE DEF n, page
    <3>3. ToSet(sections') = ToSet(sections) \cup ToSet(page)
      BY <1>4, <3>1, <3>2, JoinedSet
    <3>4. CASE s \in ToSet(sections)
      BY <1>2, <2>4, <3>3, <3>4 DEF Coming
    <3>5. CASE fetched < i /\ i <= wanted
      <4>1. CASE i <= fetched + n
        <5>1. i \in fetched + 1 .. fetched + n
          BY <1>4, <3>2, <3>5, <4>1
        <5>2. s \in ToSet(page)
          BY <3>2, <5>1
        <5>3. QED
          BY <1>2, <2>4, <3>3, <5>2 DEF Coming
      <4>2. CASE i > fetched + n
        <5>1. ~(service.sections <= fetched + n) /\ fetched' < i /\ fetched' < wanted'
          BY <1>4, <1>5, <3>1, <3>2, <3>5, <4>2
        <5>2. n = PageLimit
          BY <1>4, <3>2, <5>1
        <5>3. phase' = "paging" /\ i <= wanted'
          BY <3>1, <3>5, <5>1, <5>2
        <5>4. QED
          BY <1>2, <2>4, <5>1, <5>3 DEF Coming
      <4>3. QED
        BY <1>4, <3>2, <4>1, <4>2
    <3>6. QED
      BY <2>1, <2>2, <3>1, <3>4, <3>5, Zenon DEF Coming
  <2>5. QED
    BY <1>1, <2>1, <2>2, <2>3, <2>4, Zenon DEF Coming
<1>6. ~early =>
      /\ service.run # NoRun => HeardBefore(Len(queue) + 1)
      /\ \A k \in DOMAIN queue : queue[k].subject = "section" /\ queue[k].run = service.run
            => HeardBefore(k)
  BY <1>3, Zenon DEF SectionsInv
<1>7. ~early' =>
      /\ service'.run # NoRun => HeardBefore(Len(queue) + 1)'
      /\ \A k \in DOMAIN queue' : queue'[k].subject = "section" /\ queue'[k].run = service'.run
            => HeardBefore(k)'
  BY <1>2, <1>6, Zenon DEF HeardBefore, IsState
<1>8. QED
  BY <1>2, <1>5, <1>7, Zenon DEF SectionsInv

LEMMA UserKeepsSections ==
    ASSUME PanelInv, SectionsInv, Reset \/ OnClearRois \/ ToggleFails \/ Reopen \/ UNCHANGED vars
    PROVE  SectionsInv'
<1>0. service \in Services /\ (service.run = NoRun => service.sections = 0)
  BY TypesOfPlots, Zenon DEF PlotTypes
<1>1. CASE Reopen
  <2>1. /\ queue' = <<>> /\ phase' = "opening" /\ (early' <=> service.run # NoRun)
        /\ service' \in {service, [service EXCEPT !.state = "Disabled"]}
    BY <1>1, Zenon DEF Reopen
  <2>2. DOMAIN queue' = {}
    BY <2>1, EmptySeq
  <2>3. service'.run = service.run /\ service'.sections = service.sections
    BY <1>0, <2>1 DEF Services
  <2>4. CASE service.run # NoRun
    BY <2>1, <2>2, <2>3, <2>4, Zenon DEF SectionsInv, Coming
  <2>5. CASE service.run = NoRun
    <3>1. service'.run = NoRun /\ \A i \in 1 .. service'.sections : FALSE
      BY <1>0, <2>3, <2>5
    <3>2. QED
      BY <2>2, <3>1, Zenon DEF SectionsInv
  <2>6. QED
    BY <2>4, <2>5
<1>2. CASE Reset
  <2>1. /\ service' = [service EXCEPT !.sections = 0, !.frames = 0]
        /\ UNCHANGED <<queue, run_uid, early, missed>>
    BY <1>2, Zenon DEF Reset, texts
  <2>2. service'.run = service.run /\ \A i \in 1 .. service'.sections : FALSE
    BY <1>0, <2>1 DEF Services
  <2>3. \A m : HeardBefore(m) => HeardBefore(m)'
    BY <2>1, <2>2, Zenon DEF HeardBefore, IsState
  <2>4. HeardBefore(Len(queue) + 1) => HeardBefore(Len(queue) + 1)'
    BY <2>1, <2>2, Zenon DEF HeardBefore, IsState
  <2>5. Promised' => Promised
    BY <2>1, Zenon DEF Promised, HeardOfRun, IsState
  <2>6. QED
    BY <2>1, <2>2, <2>3, <2>4, <2>5, Zenon DEF SectionsInv
<1>3. CASE OnClearRois \/ ToggleFails \/ UNCHANGED vars
  <2>1. UNCHANGED <<queue, run_uid, early, missed, service, sections, phase, wanted, fetched>>
    BY <1>3, Zenon DEF OnClearRois, ToggleFails, vars, plots, texts, resync, history
  <2>2. \A m : HeardBefore(m) => HeardBefore(m)'
    BY <2>1, Zenon DEF HeardBefore, IsState
  <2>3. HeardBefore(Len(queue) + 1) => HeardBefore(Len(queue) + 1)'
    BY <2>1, Zenon DEF HeardBefore, IsState
  <2>4. \A i : Coming(i) => Coming(i)'
    BY <2>1, Zenon DEF Coming, IsSection
  <2>5. Promised' => Promised
    BY <2>1, Zenon DEF Promised, HeardOfRun, IsState
  <2>6. QED
    BY <2>1, <2>2, <2>3, <2>4, <2>5, Zenon DEF SectionsInv
<1>4. QED
  BY <1>1, <1>2, <1>3

LEMMA StepSections == PanelInv /\ RunsInv /\ SectionsInv /\ [Next]_vars => SectionsInv'
<1> SUFFICES ASSUME PanelInv, RunsInv, SectionsInv, [Next]_vars PROVE SectionsInv'
  OBVIOUS
<1>1. CASE Service
  <2>1. PICK e : Announces(e) \/ Reports(e)
    BY <1>1, ServiceSends
  <2>2. QED
    BY <2>1, SendKeepsSections
<1>2. QED
  BY <1>1, HandleKeepsSections, ResyncKeepsSections, UserKeepsSections, Zenon DEF Next

(* However many pages resync fetches, and whatever is completed meanwhile or   *)
(* however often runs change under it: a panel that no answer was kept from   *)
(* draws every section of the run in the end, if it was open when the run was *)
(* bound, or as long as no event has named a run to it.                       *)
THEOREM SectionsEndComplete == Spec => []SectionsComplete
<1>1. SectionsInv => SectionsComplete
  <2> SUFFICES ASSUME SectionsInv, Quiet, ~missed, early => run_uid = NoRun,
                      NEW i \in 1 .. service.sections
               PROVE  [run |-> service.run, index |-> i] \in ToSet(sections)
    BY DEF SectionsComplete, DrawsSections
  <2>1. DOMAIN queue = {} /\ phase = "ready"
    BY EmptySeq DEF Quiet
  <2>2. Coming(i)
    BY <2>1, Zenon DEF SectionsInv, Promised, HeardOfRun
  <2>3. QED
    BY <2>1, <2>2 DEF Coming
<1>2. QED
  BY <1>1, InitRuns, StepRuns, InitSections, StepSections, PanelInvariant, PTL DEF Spec

-----------------------------------------------------------------------------
LEMMA NoSeries == AllPoints = {} /\ DOMAIN queue = {} /\ DOMAIN series = {} => SeriesInv
BY DEF SeriesInv, FramesInOrder, SeriesAscend

LEMMA InitSeries == Init => SeriesInv
<1> SUFFICES ASSUME Init PROVE SeriesInv
  OBVIOUS
<1>1. Blank /\ queue = <<>>
  BY Zenon DEF Init, Blank
<1>2. DOMAIN series = {}
  BY <1>1, NoPlot, Zenon DEF Blank
<1>3. QED
  BY <1>1, <1>2, NothingShown, EmptySeq, NoSeries

LEMMA SendKeepsSeries ==
    ASSUME PanelInv, RunsInv, SeriesInv, NEW e, Announces(e) \/ Reports(e)
    PROVE  SeriesInv'
<1>1. PICK S : queue \in Seq(S)
  BY DEF PanelInv
<1>2. /\ queue' = Append(queue, e) /\ EventOK(e, service'.run) /\ (Named(e) => e.run = service'.run)
      /\ UNCHANGED <<series, run_uid>>
  BY Zenon DEF Announces, Reports, Sends, plots, texts
<1> DEFINE n == Len(queue)
<1>3. /\ DOMAIN queue' = DOMAIN queue \cup {n + 1}
      /\ n \in Nat /\ DOMAIN queue = 1 .. n
      /\ \A i \in DOMAIN queue : queue'[i] = queue[i]
      /\ queue'[n + 1] = e
  BY <1>1, <1>2, EventsAreQueued
<1> HIDE DEF n
<1>4. service.run \in Nat /\ service.frames \in Nat
  BY TypesOfPlots, PanelAssumption DEF PlotTypes, Services
<1>5. AllPoints' = AllPoints
  BY <1>2, SamePoints
<1>6. \A p \in AllPoints : p.run \in Nat /\ p.frames \in Nat /\ p.run <= service.run
  <2>1. \A c \in DOMAIN series : series[c] \in Seq(Points)
    BY Zenon DEF PanelInv
  <2>2. \A p \in AllPoints : p \in Points
    BY <2>1 DEF AllPoints, PointsOf
  <2>3. QED
    BY <2>2, PanelAssumption DEF Points, RunStamps, SeriesInv
<1>7. \A k \in DOMAIN queue : IsResult(queue[k]) =>
         queue[k].run \in 1 .. service.run /\ queue[k].frames \in Nat
  BY PanelAssumption DEF PanelInv, EventOK, IsResult
<1>8. service'.run \in Nat /\ service.run <= service'.run
  BY <1>4 DEF Announces, Reports
<1>9. ASSUME NEW k \in DOMAIN queue', IsResult(queue'[k])
      PROVE  (ClearedBefore(k) \/ OneRunUpTo(k))'
  <2>1. CASE k \in DOMAIN queue
    <3>1. \A i \in DOMAIN queue' : i < k => i \in DOMAIN queue
      BY <1>3, <2>1
    <3>2. IsResult(queue[k]) /\ queue'[k] = queue[k]
      BY <1>3, <1>9, <2>1, Zenon
    <3>3. CASE ClearedBefore(k)
      BY <1>2, <1>3, <3>2, <3>3, Zenon DEF ClearedBefore, IsState
    <3>4. CASE OneRunUpTo(k)
      BY <1>3, <1>5, <3>1, <3>2, <3>4, Zenon DEF OneRunUpTo, IsResult
    <3>5. QED
      BY <2>1, <3>2, <3>3, <3>4, Zenon DEF SeriesInv
  <2>2. CASE k = n + 1
    <3>1. queue'[k] = e /\ IsResult(e)
      BY <1>3, <1>9, <2>2
    <3>2. e.run = service'.run /\ service'.run # NoRun
      BY <1>2, <3>1, <1>8 DEF Named, IsResult, EventOK, NoRun
    <3>3. service'.run = service.run
      BY <3>1, Zenon DEF Announces, Reports, IsState, IsResult
    <3>4. \A i \in DOMAIN queue' : i < k => i \in DOMAIN queue
      BY <1>3, <2>2
    <3>5. CASE CaughtUp
      <4>1. \A p \in AllPoints : p.run = service.run
        BY <3>5, OwnRunShown, Zenon DEF CaughtUp, ShowsOwnRun
      <4>2. \A i \in DOMAIN queue : IsResult(queue[i]) => queue[i].run = service.run
        BY <1>7, <3>5 DEF CaughtUp, Named, IsResult, NoRun
      <4>3. OneRunUpTo(k)'
        BY <1>3, <1>5, <3>1, <3>2, <3>3, <3>4, <4>1, <4>2, Zenon DEF OneRunUpTo, IsResult
      <4>4. QED
        BY <4>3
    <3>6. CASE BindWaits
      <4>1. PICK j \in DOMAIN queue : IsState(queue[j]) /\ queue[j].run = service.run
        BY <3>6 DEF BindWaits
      <4>2. j < k /\ j \in DOMAIN queue' /\ queue'[j] = queue[j]
        BY <1>3, <2>2
      <4>3. ClearedBefore(k)'
        BY <1>2, <3>1, <3>2, <3>3, <3>6, <4>1, <4>2, Zenon DEF ClearedBefore, BindWaits, IsState
      <4>4. QED
        BY <4>3
    <3>7. QED
      BY <3>5, <3>6 DEF RunsInv
  <2>3. QED
    BY <1>3, <2>1, <2>2
<1>10. (\A p, q \in AllPoints' : p.run = q.run) /\ \A p \in AllPoints' : p.run <= service'.run
  <2>1. \A p \in AllPoints : p.run <= service'.run
    BY <1>4, <1>6, <1>8
  <2>2. \A p, q \in AllPoints : p.run = q.run
    BY Zenon DEF SeriesInv
  <2>3. QED
    BY <1>5, <2>1, <2>2, Zenon
<1>11. CASE Announces(e)
  <2>1. IsState(e) /\ service'.run = service.run + 1
    BY <1>11, Zenon DEF Announces
  <2>2. \A k \in DOMAIN queue' : IsResult(queue'[k]) => queue'[k].run # service'.run
    <3>1. \A k \in DOMAIN queue : IsResult(queue[k]) => queue[k].run # service'.run
      BY <1>4, <1>7, <2>1
    <3>2. ~IsResult(e)
      BY <2>1 DEF IsState, IsResult
    <3>3. QED
      BY <1>3, <3>1, <3>2, Zenon
  <2>3. \A p \in AllPoints' : p.run # service'.run
    <3>1. \A p \in AllPoints : p.run # service'.run
      BY <1>4, <1>6, <2>1
    <3>2. QED
      BY <1>5, <3>1, Zenon
  <2>4. FramesInOrder'
    BY <2>2, <2>3, Zenon DEF FramesInOrder, IsResult
  <2>5. SeriesAscend'
    <3>1. \A c \in DOMAIN series' : \A i \in DOMAIN series'[c] : series'[c][i] \in AllPoints'
      BY DEF AllPoints, PointsOf
    <3>2. QED
      BY <1>10, <2>3, <3>1, Zenon DEF SeriesAscend
  <2>6. QED
    BY <1>9, <1>10, <2>4, <2>5, Zenon DEF SeriesInv, IsResult
<1>12. CASE Reports(e)
  <2>1. /\ service'.run = service.run /\ service'.frames >= service.frames
        /\ IsResult(e) => e.frames = service'.frames
        /\ wasReset' = wasReset
        /\ service' \in Services
    BY <1>12, Zenon DEF Reports, Sends
  <2>2. service'.frames \in Nat
    BY <2>1 DEF Services
  <2>3. ASSUME ~wasReset PROVE FramesInOrder'
    <3>0. FramesInOrder
      BY <2>3, Zenon DEF SeriesInv
    <3>1. \A k \in DOMAIN queue : IsResult(queue[k]) /\ queue[k].run = service.run
             => queue[k].frames <= service.frames
      BY <3>0, Zenon DEF FramesInOrder
    <3>2. \A p \in AllPoints : p.run = service.run => p.frames <= service.frames
      BY <3>0, Zenon DEF FramesInOrder
    <3>3. ASSUME NEW k \in DOMAIN queue', IsResult(queue'[k]), queue'[k].run = service'.run
          PROVE  queue'[k].frames <= service'.frames
      <4>1. CASE k \in DOMAIN queue
        <5>1. queue[k].frames <= service.frames /\ queue[k].frames \in Nat /\ queue'[k] = queue[k]
          BY <1>3, <1>7, <2>1, <3>1, <3>3, <4>1
        <5>2. QED
          BY <1>4, <2>1, <2>2, <5>1
      <4>2. CASE k = n + 1
        BY <1>3, <2>1, <2>2, <3>3, <4>2
      <4>3. QED
        BY <1>3, <4>1, <4>2
    <3>4. ASSUME NEW i \in DOMAIN queue', NEW k \in DOMAIN queue', i < k,
                 IsResult(queue'[i]), IsResult(queue'[k]),
                 queue'[i].run = service'.run, queue'[k].run = service'.run
          PROVE  queue'[i].frames <= queue'[k].frames
      <4>1. CASE k \in DOMAIN queue
        <5>1. i \in DOMAIN queue
          BY <1>3, <3>4, <4>1
        <5>2. queue'[i] = queue[i] /\ queue'[k] = queue[k]
          BY <1>3, <4>1, <5>1, Zenon
        <5>3. QED
          BY <2>1, <3>0, <3>4, <4>1, <5>1, <5>2 DEF FramesInOrder
      <4>2. CASE k = n + 1
        BY <1>3, <2>1, <3>3, <3>4, <4>2
      <4>3. QED
        BY <1>3, <4>1, <4>2
    <3>5. ASSUME NEW p \in AllPoints, p.run = service.run
          PROVE  /\ p.frames <= service'.frames
                 /\ \A k \in DOMAIN queue' : IsResult(queue'[k]) /\ queue'[k].run = service'.run
                       => p.frames <= queue'[k].frames
      <4>1. p.frames <= service'.frames
        BY <1>4, <1>6, <2>1, <2>2, <3>2, <3>5
      <4>2. ASSUME NEW k \in DOMAIN queue', IsResult(queue'[k]), queue'[k].run = service'.run
            PROVE  p.frames <= queue'[k].frames
        <5>1. CASE k \in DOMAIN queue
          BY <1>3, <2>1, <3>0, <3>5, <4>2, <5>1 DEF FramesInOrder
        <5>2. CASE k = n + 1
          BY <1>3, <2>1, <4>1, <4>2, <5>2
        <5>3. QED
          BY <1>3, <5>1, <5>2
      <4>3. QED
        BY <4>1, <4>2
    <3>6. QED
      BY <1>5, <2>1, <3>3, <3>4, <3>5, Zenon DEF FramesInOrder, IsResult
  <2>4. SeriesAscend'
    <3>1. SeriesAscend
      BY Zenon DEF SeriesInv
    <3>2. QED
      BY <1>2, <2>1, <3>1 DEF SeriesAscend
  <2>5. QED
    BY <1>9, <1>10, <2>1, <2>3, <2>4, Zenon DEF SeriesInv, IsResult
<1>13. QED
  BY <1>11, <1>12

(* A result adds a point to a curve, of other frames than the point before.   *)
GainsPoint(c, p) ==
    \E m \in Nat :
        /\ DOMAIN series'[c] = 1 .. m + 1
        /\ series'[c][m + 1] = p
        /\ m > 0 => /\ c \in DOMAIN series /\ DOMAIN series[c] = 1 .. m
                    /\ series[c][m].frames # p.frames
                    /\ \A i \in 1 .. m : series'[c][i] = series[c][i]

LEMMA ResultAddsPoints ==
    ASSUME PanelInv, NEW e, IsResult(e), EventOK(e, service.run), series' = ConvergenceSeries(e)
    PROVE  \A c \in DOMAIN series' :
             \/ c \in DOMAIN series /\ series'[c] = series[c]
             \/ DOMAIN series'[c] = {}
             \/ GainsPoint(c, [run |-> e.run, frames |-> e.frames])
<1> SUFFICES ASSUME NEW c \in DOMAIN series'
    PROVE  \/ c \in DOMAIN series /\ series'[c] = series[c]
           \/ DOMAIN series'[c] = {}
           \/ GainsPoint(c, [run |-> e.run, frames |-> e.frames])
  OBVIOUS
<1> DEFINE old == IF c \in DOMAIN series THEN series[c] ELSE <<>>
           new == series'[c]
           p   == [run |-> e.run, frames |-> e.frames]
           m   == Len(old)
<1>1. /\ old \in Seq(Points) /\ p \in Points
      /\ \/ new = old
         \/ new = Append(old, p) /\ (old # <<>> => old[m].frames # e.frames)
  BY PointsOfResult, Zenon
<1>2. c \notin DOMAIN series => old = <<>>
  OBVIOUS
<1>3. c \in DOMAIN series => old = series[c]
  OBVIOUS
<1> HIDE DEF old, new, p
<1>4. m \in Nat /\ DOMAIN old = 1 .. m /\ (old = <<>> <=> m = 0)
  BY <1>1
<1>5. CASE new = old
  <2>1. CASE c \in DOMAIN series
    BY <1>3, <1>5, <2>1 DEF new
  <2>2. CASE c \notin DOMAIN series
    <3>1. DOMAIN new = {}
      BY <1>2, <1>4, <1>5, <2>2
    <3>2. QED
      BY <3>1 DEF new
  <2>3. QED
    BY <2>1, <2>2
<1>6. CASE new = Append(old, p) /\ (old # <<>> => old[m].frames # e.frames)
  <2>1. /\ DOMAIN new = 1 .. m + 1 /\ new[m + 1] = p
        /\ \A i \in 1 .. m : new[i] = old[i]
    BY <1>1, <1>6
  <2>3. m > 0 => /\ c \in DOMAIN series /\ DOMAIN series[c] = 1 .. m
                 /\ series[c][m].frames # e.frames
                 /\ \A i \in 1 .. m : new[i] = series[c][i]
    <3> SUFFICES ASSUME m > 0
                 PROVE  /\ c \in DOMAIN series /\ DOMAIN series[c] = 1 .. m
                        /\ series[c][m].frames # e.frames
                        /\ \A i \in 1 .. m : new[i] = series[c][i]
      OBVIOUS
    <3>1. old # <<>> /\ c \in DOMAIN series
      BY <1>2, <1>4
    <3>2. old = series[c]
      BY <1>3, <3>1
    <3> HIDE DEF m
    <3>3. QED
      BY <1>4, <1>6, <2>1, <3>1, <3>2, Zenon
  <2>4. p.frames = e.frames
    BY DEF p
  <2> HIDE DEF m
  <2>5. GainsPoint(c, p)
    BY <1>4, <2>1, <2>3, <2>4, Zenon DEF new, GainsPoint
  <2>6. QED
    BY <2>5 DEF p
<1>7. QED
  BY <1>1, <1>5, <1>6

LEMMA HandleKeepsSeries ==
    ASSUME PanelInv, RunsInv, SeriesInv, HandleEvent
    PROVE  SeriesInv'
<1> DEFINE e == queue[1]
           n == Len(queue)
<1>1. /\ OnG2Updated(e) \/ OnSectionCompleted(e) \/ OnStateChanged(e) \/ OnError(e)
      /\ EventOK(e, service.run)
      /\ service' = service /\ wasReset' = wasReset
      /\ n \in Nat \ {0}
      /\ DOMAIN queue = 1 .. n /\ DOMAIN queue' = 1 .. n - 1
      /\ \A i \in DOMAIN queue' : i + 1 \in DOMAIN queue /\ queue'[i] = queue[i + 1]
      /\ \A i \in DOMAIN queue : i # 1 => i - 1 \in DOMAIN queue' /\ queue'[i - 1] = queue[i]
      /\ 1 \in DOMAIN queue
  BY EventHandled, Zenon
<1> HIDE DEF n
<1>2. service.run \in Nat /\ run_uid \in Nat
  BY TypesOfPlots, PanelAssumption DEF PlotTypes, Services
<1>3. \A i \in DOMAIN queue' : 1 < i + 1 /\ i \in Nat
  BY <1>1
<1>4. \A k \in DOMAIN queue : IsResult(queue[k]) =>
         queue[k].run \in 1 .. service.run /\ queue[k].frames \in Nat
  BY PanelAssumption DEF PanelInv, EventOK, IsResult
<1>5. \A p \in AllPoints : p.run \in Nat /\ p.frames \in Nat
  <2>1. \A c \in DOMAIN series : series[c] \in Seq(Points)
    BY Zenon DEF PanelInv
  <2>2. \A p \in AllPoints : p \in Points
    BY <2>1 DEF AllPoints, PointsOf
  <2>3. QED
    BY <2>2, PanelAssumption DEF Points, RunStamps
<1>6. CASE OnG2Updated(e)
  <2> DEFINE p0 == [run |-> e.run, frames |-> e.frames]
  <2>1. /\ series' = ConvergenceSeries(e) /\ run_uid' = run_uid /\ IsResult(e)
    BY <1>6, Zenon DEF OnG2Updated, IsResult
  <2>0. \A c \in DOMAIN series' :
           \/ c \in DOMAIN series /\ series'[c] = series[c]
           \/ DOMAIN series'[c] = {}
           \/ GainsPoint(c, p0)
    BY <1>1, <2>1, ResultAddsPoints, Zenon
  <2>2. e.run \in 1 .. service.run /\ e.frames \in Nat
    BY <1>1, <1>4, <2>1
  <2>3. OneRunUpTo(1)
    <3>1. ~ClearedBefore(1)
      BY <1>1 DEF ClearedBefore
    <3>2. QED
      BY <1>1, <2>1, <3>1, Zenon DEF SeriesInv
  <2>4. \A p \in AllPoints : p.run = e.run
    BY <2>3, Zenon DEF OneRunUpTo
  <2>5. AllPoints' \subseteq AllPoints \cup {p0}
    <3> SUFFICES ASSUME NEW c \in DOMAIN series', NEW i \in DOMAIN series'[c]
                 PROVE  series'[c][i] \in AllPoints \cup {p0}
      BY DEF AllPoints, PointsOf
    <3> HIDE DEF e
    <3>1. CASE c \in DOMAIN series /\ series'[c] = series[c]
      BY <3>1 DEF AllPoints, PointsOf
    <3>2. CASE GainsPoint(c, p0)
      <4>1. PICK m \in Nat :
                  /\ DOMAIN series'[c] = 1 .. m + 1
                  /\ series'[c][m + 1] = p0
                  /\ m > 0 => /\ c \in DOMAIN series /\ DOMAIN series[c] = 1 .. m
                              /\ \A j \in 1 .. m : series'[c][j] = series[c][j]
        BY <3>2, Zenon DEF GainsPoint
      <4>2. CASE i = m + 1
        BY <4>1, <4>2
      <4>3. CASE i # m + 1
        <5>1. i \in 1 .. m /\ m > 0
          BY <4>1, <4>3
        <5>2. QED
          BY <4>1, <5>1 DEF AllPoints, PointsOf
      <4>4. QED
        BY <4>2, <4>3
    <3>3. CASE DOMAIN series'[c] = {}
      BY <3>3
    <3>4. QED
      BY <2>0, <3>1, <3>2, <3>3, Zenon
  <2>6. p0.run = e.run /\ p0.frames = e.frames
    OBVIOUS
  <2> HIDE DEF p0
  <2>7. \A p \in AllPoints' : p.run = e.run
    BY <2>4, <2>5, <2>6, Zenon
  <2>8. ASSUME NEW k \in DOMAIN queue', IsResult(queue'[k])
        PROVE  (ClearedBefore(k) \/ OneRunUpTo(k))'
    <3>1. /\ k + 1 \in DOMAIN queue /\ queue'[k] = queue[k + 1] /\ 1 < k + 1
          /\ ClearedBefore(k + 1) \/ OneRunUpTo(k + 1)
      BY <1>1, <1>3, <2>8, Zenon DEF SeriesInv
    <3>2. CASE ClearedBefore(k + 1)
      <4>1. PICK j \in DOMAIN queue :
               j < k + 1 /\ IsState(queue[j]) /\ queue[j].run = queue[k + 1].run
        BY <3>2 DEF ClearedBefore
      <4>2. j # 1
        BY <2>1, <4>1 DEF IsState, IsResult
      <4>3. j - 1 \in DOMAIN queue' /\ queue'[j - 1] = queue[j] /\ j - 1 < k
        BY <1>1, <4>1, <4>2
      <4>4. run_uid' # queue'[k].run
        BY <2>1, <3>1, <3>2 DEF ClearedBefore
      <4>5. QED
        BY <3>1, <4>1, <4>3, <4>4 DEF ClearedBefore, IsState
    <3>3. CASE OneRunUpTo(k + 1)
      <4>1. e.run = queue'[k].run
        BY <1>1, <2>1, <3>1, <3>3 DEF OneRunUpTo
      <4>2. \A i \in DOMAIN queue' : i < k => i + 1 < k + 1
        BY <1>1
      <4>3. \A i \in DOMAIN queue' : i < k /\ IsResult(queue'[i]) => queue'[i].run = queue'[k].run
        BY <1>1, <3>1, <3>3, <4>2, Zenon DEF OneRunUpTo
      <4>4. OneRunUpTo(k)'
        BY <2>7, <4>1, <4>3, Zenon DEF OneRunUpTo, IsResult
      <4>5. QED
        BY <4>4
    <3>4. QED
      BY <3>1, <3>2, <3>3
  <2>9. (\A p, q \in AllPoints' : p.run = q.run) /\ \A p \in AllPoints' : p.run <= service'.run
    BY <1>1, <2>2, <2>7
  <2>10. ASSUME ~wasReset PROVE FramesInOrder'
    <3>1. FramesInOrder
      BY <2>10, Zenon DEF SeriesInv
    <3>2. ASSUME NEW p \in AllPoints', p.run = service.run
          PROVE  /\ p.frames <= service.frames
                 /\ \A k \in DOMAIN queue' : IsResult(queue'[k]) /\ queue'[k].run = service.run
                       => p.frames <= queue'[k].frames
      <4>1. CASE p \in AllPoints
        BY <1>1, <3>1, <3>2, <4>1, Zenon DEF FramesInOrder
      <4>2. CASE p = p0
        BY <1>1, <1>3, <2>1, <2>6, <3>1, <3>2, <4>2, Zenon DEF FramesInOrder
      <4>3. QED
        BY <2>5, <4>1, <4>2
    <3>3. ASSUME NEW i \in DOMAIN queue', NEW k \in DOMAIN queue'
          PROVE  /\ IsResult(queue'[k]) /\ queue'[k].run = service.run
                       => queue'[k].frames <= service.frames
                 /\ i < k /\ IsResult(queue'[i]) /\ IsResult(queue'[k])
                    /\ queue'[i].run = service.run /\ queue'[k].run = service.run
                       => queue'[i].frames <= queue'[k].frames
      <4>1. i < k => i + 1 < k + 1
        BY <1>3
      <4>2. QED
        BY <1>1, <3>1, <4>1, Zenon DEF FramesInOrder
    <3>4. QED
      BY <1>1, <3>2, <3>3, Zenon DEF FramesInOrder, IsResult
  <2>11. SeriesAscend'
    <3>0. SeriesAscend
      BY Zenon DEF SeriesInv
    <3> SUFFICES ASSUME NEW c \in DOMAIN series', NEW i \in DOMAIN series'[c],
                        NEW j \in DOMAIN series'[c], i < j
                 PROVE  /\ series'[c][i].run = series'[c][j].run
                        /\ ~wasReset' /\ series'[c][i].run = service'.run
                           => series'[c][i].frames < series'[c][j].frames
      BY DEF SeriesAscend
    <3>1. series'[c][i].run = series'[c][j].run
      BY <2>7 DEF AllPoints, PointsOf
    <3>2. ASSUME ~wasReset, series'[c][i].run = service.run
          PROVE  series'[c][i].frames < series'[c][j].frames
      <4> HIDE DEF e
      <4>1. CASE c \in DOMAIN series /\ series'[c] = series[c]
        BY <3>0, <3>2, <4>1 DEF SeriesAscend
      <4>2. CASE DOMAIN series'[c] = {}
        BY <4>2
      <4>3. CASE GainsPoint(c, p0)
        <5>1. PICK m \in Nat :
                    /\ DOMAIN series'[c] = 1 .. m + 1
                    /\ series'[c][m + 1] = p0
                    /\ m > 0 => /\ c \in DOMAIN series /\ DOMAIN series[c] = 1 .. m
                                /\ series[c][m].frames # p0.frames
                                /\ \A x \in 1 .. m : series'[c][x] = series[c][x]
          BY <4>3, Zenon DEF GainsPoint
        <5>2. i \in 1 .. m /\ m > 0 /\ j \in 1 .. m + 1
          BY <5>1
        <5>3. /\ c \in DOMAIN series /\ DOMAIN series[c] = 1 .. m
              /\ series'[c][i] = series[c][i] /\ series[c][i].run = service.run
              /\ m \in DOMAIN series[c]
          BY <3>2, <5>1, <5>2
        <5>4. CASE j \in 1 .. m
          <6>1. series'[c][j] = series[c][j] /\ j \in DOMAIN series[c]
            BY <5>1, <5>2, <5>4
          <6>2. QED
            BY <3>0, <3>2, <5>2, <5>3, <6>1 DEF SeriesAscend
        <5>5. CASE j = m + 1
          <6>1. series[c][i] \in AllPoints /\ series[c][m] \in AllPoints
            BY <5>2, <5>3 DEF AllPoints, PointsOf
          <6>2. series[c][m].run = service.run /\ e.run = service.run
            BY <2>4, <5>3, <6>1
          <6>3. series[c][m].frames <= e.frames
            <7>1. FramesInOrder
              BY <3>2, Zenon DEF SeriesInv
            <7>2. QED
              BY <1>1, <2>1, <6>1, <6>2, <7>1, Zenon DEF FramesInOrder, e
          <6>4. i = m \/ series[c][i].frames < series[c][m].frames
            BY <3>0, <3>2, <5>2, <5>3 DEF SeriesAscend
          <6>5. series[c][i].frames \in Nat /\ series[c][m].frames \in Nat
            BY <1>5, <6>1
          <6>6. series[c][m].frames < e.frames
            BY <2>2, <2>6, <5>1, <5>2, <6>3, <6>5
          <6>7. series[c][i].frames < e.frames
            BY <2>2, <6>4, <6>5, <6>6
          <6>8. QED
            BY <2>6, <5>1, <5>3, <5>5, <6>7
        <5>6. QED
          BY <5>2, <5>4, <5>5
      <4>4. QED
        BY <2>0, <4>1, <4>2, <4>3, Zenon
    <3>3. QED
      BY <1>1, <3>1, <3>2
  <2>12. QED
    BY <1>1, <2>8, <2>9, <2>10, <2>11, Zenon DEF SeriesInv, IsResult
<1>7. CASE OnStateChanged(e) /\ ClearPlots /\ run_uid' = e.run
  <2>1. IsState(e) /\ Blank'
    BY <1>7, Zenon DEF OnStateChanged, IsState, ClearPlots, Blank
  <2>3. DOMAIN series' = {}
    BY <2>1, NoPlot, Zenon DEF Blank
  <2>2. AllPoints' = {}
    BY <2>3 DEF AllPoints
  <2>4. ASSUME NEW k \in DOMAIN queue', IsResult(queue'[k])
        PROVE  (ClearedBefore(k) \/ OneRunUpTo(k))'
    <3>1. /\ k + 1 \in DOMAIN queue /\ queue'[k] = queue[k + 1] /\ 1 < k + 1
          /\ ClearedBefore(k + 1) \/ OneRunUpTo(k + 1)
      BY <1>1, <1>3, <2>4, Zenon DEF SeriesInv
    <3>2. \A i \in DOMAIN queue' : i < k => i + 1 < k + 1
      BY <1>1
    <3>3. CASE run_uid' = queue'[k].run
      <4>1. ASSUME NEW i \in DOMAIN queue', i < k, IsResult(queue'[i])
            PROVE  queue'[i].run = queue'[k].run
        <5>1. i + 1 \in DOMAIN queue /\ queue'[i] = queue[i + 1] /\ 1 < i + 1 /\ i + 1 < k + 1
          BY <1>1, <1>3, <3>2, <4>1
        <5>2. queue[i + 1].run \in 1 .. service.run /\ queue[k + 1].run \in 1 .. service.run
          BY <1>4, <2>4, <3>1, <4>1, <5>1
        <5>3. Named(queue[1]) /\ Named(queue[i + 1]) /\ Named(queue[k + 1])
          BY <1>7, <2>1, <2>4, <3>1, <3>3, <4>1, <5>1, <5>2 DEF Named, IsState, IsResult, NoRun
        <5>4. queue[1].run <= queue[i + 1].run /\ queue[i + 1].run <= queue[k + 1].run
          BY <1>1, <3>1, <5>1, <5>3 DEF RunsInv, RunsInOrder
        <5>5. queue[1].run = queue[k + 1].run
          BY <1>7, <3>1, <3>3
        <5>6. QED
          BY <3>1, <5>1, <5>2, <5>4, <5>5
      <4>2. OneRunUpTo(k)'
        BY <2>2, <4>1, Zenon DEF OneRunUpTo, IsResult
      <4>3. QED
        BY <4>2
    <3>4. CASE run_uid' # queue'[k].run
      <4>1. CASE ClearedBefore(k + 1)
        <5>1. PICK j \in DOMAIN queue :
                 j < k + 1 /\ IsState(queue[j]) /\ queue[j].run = queue[k + 1].run
          BY <4>1 DEF ClearedBefore
        <5>2. j # 1
          BY <1>7, <3>1, <3>4, <5>1
        <5>3. j - 1 \in DOMAIN queue' /\ queue'[j - 1] = queue[j] /\ j - 1 < k
          BY <1>1, <5>1, <5>2
        <5>4. QED
          BY <3>1, <3>4, <5>1, <5>3 DEF ClearedBefore, IsState
      <4>2. CASE OneRunUpTo(k + 1)
        <5>1. \A i \in DOMAIN queue' : i < k /\ IsResult(queue'[i]) => queue'[i].run = queue'[k].run
          BY <1>1, <3>1, <3>2, <4>2, Zenon DEF OneRunUpTo
        <5>2. OneRunUpTo(k)'
          BY <2>2, <5>1, Zenon DEF OneRunUpTo, IsResult
        <5>3. QED
          BY <5>2
      <4>3. QED
        BY <3>1, <4>1, <4>2
    <3>5. QED
      BY <3>3, <3>4
  <2>5. ASSUME ~wasReset PROVE FramesInOrder'
    <3>1. FramesInOrder
      BY <2>5, Zenon DEF SeriesInv
    <3>2. ASSUME NEW i \in DOMAIN queue', NEW k \in DOMAIN queue'
          PROVE  /\ IsResult(queue'[k]) /\ queue'[k].run = service.run
                       => queue'[k].frames <= service.frames
                 /\ i < k /\ IsResult(queue'[i]) /\ IsResult(queue'[k])
                    /\ queue'[i].run = service.run /\ queue'[k].run = service.run
                       => queue'[i].frames <= queue'[k].frames
      <4>1. i < k => i + 1 < k + 1
        BY <1>3
      <4>2. QED
        BY <1>1, <3>1, <4>1, Zenon DEF FramesInOrder
    <3>3. QED
      BY <1>1, <2>2, <3>2, Zenon DEF FramesInOrder, IsResult
  <2>6. SeriesAscend'
    BY <2>3, Zenon DEF SeriesAscend
  <2>7. QED
    BY <1>1, <2>2, <2>4, <2>5, <2>6, Zenon DEF SeriesInv, IsResult
<1>8. CASE /\ series' = series /\ run_uid' = run_uid /\ ~IsResult(e)
           /\ IsState(e) => e.run \in {NoRun, run_uid}
  <2>1. AllPoints' = AllPoints
    BY <1>8, SamePoints
  <2>2. ASSUME NEW k \in DOMAIN queue', IsResult(queue'[k])
        PROVE  (ClearedBefore(k) \/ OneRunUpTo(k))'
    <3>1. /\ k + 1 \in DOMAIN queue /\ queue'[k] = queue[k + 1] /\ 1 < k + 1
          /\ ClearedBefore(k + 1) \/ OneRunUpTo(k + 1)
      BY <1>1, <1>3, <2>2, Zenon DEF SeriesInv
    <3>2. \A i \in DOMAIN queue' : i < k => i + 1 < k + 1
      BY <1>1
    <3>3. CASE ClearedBefore(k + 1)
      <4>1. PICK j \in DOMAIN queue :
               j < k + 1 /\ IsState(queue[j]) /\ queue[j].run = queue[k + 1].run
        BY <3>3 DEF ClearedBefore
      <4>2. run_uid # queue[k + 1].run /\ queue[k + 1].run # NoRun
        <5>1. queue[k + 1].run \in 1 .. service.run
          BY <1>4, <2>2, <3>1
        <5>2. QED
          BY <3>3, <5>1 DEF ClearedBefore, NoRun
      <4>3. j # 1
        BY <1>8, <4>1, <4>2
      <4>4. j - 1 \in DOMAIN queue' /\ queue'[j - 1] = queue[j] /\ j - 1 < k
        BY <1>1, <4>1, <4>3
      <4>5. QED
        BY <1>8, <3>1, <4>1, <4>2, <4>4 DEF ClearedBefore, IsState
    <3>4. CASE OneRunUpTo(k + 1)
      <4>1. \A i \in DOMAIN queue' : i < k /\ IsResult(queue'[i]) => queue'[i].run = queue'[k].run
        BY <1>1, <3>1, <3>2, <3>4, Zenon DEF OneRunUpTo
      <4>2. OneRunUpTo(k)'
        BY <2>1, <3>1, <3>4, <4>1, Zenon DEF OneRunUpTo, IsResult
      <4>3. QED
        BY <4>2
    <3>5. QED
      BY <3>1, <3>3, <3>4
  <2>3. ASSUME ~wasReset PROVE FramesInOrder'
    <3>1. FramesInOrder
      BY <2>3, Zenon DEF SeriesInv
    <3>2. ASSUME NEW i \in DOMAIN queue', NEW k \in DOMAIN queue'
          PROVE  /\ IsResult(queue'[k]) /\ queue'[k].run = service.run
                       => queue'[k].frames <= service.frames
                 /\ i < k /\ IsResult(queue'[i]) /\ IsResult(queue'[k])
                    /\ queue'[i].run = service.run /\ queue'[k].run = service.run
                       => queue'[i].frames <= queue'[k].frames
      <4>1. i < k => i + 1 < k + 1
        BY <1>3
      <4>2. QED
        BY <1>1, <3>1, <4>1, Zenon DEF FramesInOrder
    <3>3. \A p \in AllPoints : p.run = service.run =>
             /\ p.frames <= service.frames
             /\ \A k \in DOMAIN queue' : IsResult(queue'[k]) /\ queue'[k].run = service.run
                   => p.frames <= queue'[k].frames
      BY <1>1, <3>1, Zenon DEF FramesInOrder
    <3>4. QED
      BY <1>1, <2>1, <3>2, <3>3, Zenon DEF FramesInOrder, IsResult
  <2>4. SeriesAscend'
    <3>1. SeriesAscend
      BY Zenon DEF SeriesInv
    <3>2. QED
      BY <1>1, <1>8, <3>1 DEF SeriesAscend
  <2>5. (\A p, q \in AllPoints' : p.run = q.run) /\ \A p \in AllPoints' : p.run <= service'.run
    BY <1>1, <2>1, Zenon DEF SeriesInv
  <2>6. QED
    BY <1>1, <2>2, <2>3, <2>4, <2>5, Zenon DEF SeriesInv, IsResult
<1>9. QED
  <2>1. CASE OnSectionCompleted(e) \/ OnError(e)
    <3>1. UNCHANGED <<series, run_uid>> /\ e.subject \in {"section", "error"}
      BY <2>1, Zenon DEF OnSectionCompleted, OnError, plots, texts
    <3>2. ~IsResult(e) /\ ~IsState(e)
      BY <3>1 DEF IsResult, IsState
    <3>3. QED
      BY <1>8, <3>1, <3>2
  <2>2. CASE OnStateChanged(e)
    <3>1. /\ e.subject = "state"
          /\ \/ run_uid' = e.run /\ ClearPlots
             \/ e.run \in {NoRun, run_uid} /\ UNCHANGED <<run_uid, plots>>
      BY <2>2, Zenon DEF OnStateChanged
    <3>2. ~IsResult(e)
      BY <3>1 DEF IsResult
    <3>3. QED
      BY <1>7, <1>8, <2>2, <3>1, <3>2, Zenon DEF plots
  <2>3. QED
    BY <1>1, <1>6, <2>1, <2>2

(* The rest of the steps leave the points and the queue alone.                *)
LEMMA SameSeries ==
    ASSUME SeriesInv,
           UNCHANGED <<queue, series, run_uid>>, service'.run = service.run,
           wasReset' \/ (service'.frames = service.frames /\ wasReset' = wasReset)
    PROVE  SeriesInv'
<1>1. AllPoints' = AllPoints
  BY SamePoints
<1>2. \A k \in DOMAIN queue' : IsResult(queue'[k]) => (ClearedBefore(k) \/ OneRunUpTo(k))'
  BY <1>1, Zenon DEF SeriesInv, ClearedBefore, OneRunUpTo, IsResult, IsState
<1>3. (\A p, q \in AllPoints' : p.run = q.run) /\ \A p \in AllPoints' : p.run <= service'.run
  BY <1>1, Zenon DEF SeriesInv
<1>4. ASSUME ~wasReset' PROVE FramesInOrder'
  <2>1. FramesInOrder /\ service'.frames = service.frames
    BY <1>4, Zenon DEF SeriesInv
  <2>2. QED
    BY <1>1, <2>1 DEF FramesInOrder, IsResult
<1>5. SeriesAscend'
  <2>1. SeriesAscend
    BY Zenon DEF SeriesInv
  <2>2. ~wasReset' => ~wasReset
    OBVIOUS
  <2>3. QED
    BY <2>1, <2>2 DEF SeriesAscend
<1>6. QED
  BY <1>2, <1>3, <1>4, <1>5, Zenon DEF SeriesInv, IsResult

LEMMA StepSeries == PanelInv /\ RunsInv /\ SeriesInv /\ [Next]_vars => SeriesInv'
<1> SUFFICES ASSUME PanelInv, RunsInv, SeriesInv, [Next]_vars PROVE SeriesInv'
  OBVIOUS
<1>1. CASE Service
  <2>1. PICK e : Announces(e) \/ Reports(e)
    BY <1>1, ServiceSends
  <2>2. QED
    BY <2>1, SendKeepsSeries
<1>2. CASE HandleEvent
  BY <1>2, HandleKeepsSeries
<1>3. CASE Resync
  <2>1. UNCHANGED <<queue, series, run_uid, service, wasReset>>
    BY <1>3, Zenon DEF Resync, ResyncStatus, ResyncPage, texts, history
  <2>2. QED
    BY <2>1, SameSeries
<1>4. CASE Reset
  <2>1. UNCHANGED <<queue, series, run_uid>> /\ wasReset' = TRUE
    BY <1>4, Zenon DEF Reset, plots, texts
  <2>2. service'.run = service.run
    BY <1>4, TypesOfPlots DEF Reset, PlotTypes, Services
  <2>3. QED
    BY <2>1, <2>2, SameSeries
<1>5. CASE OnClearRois \/ ToggleFails
  <2>1. UNCHANGED <<queue, series, run_uid, service, wasReset>>
    BY <1>5, Zenon DEF OnClearRois, ToggleFails, plots, texts, history
  <2>2. QED
    BY <2>1, SameSeries
<1>6. CASE Reopen
  <2>1. Blank' /\ queue' = <<>>
    BY <1>6, Zenon DEF Reopen, Blank
  <2>2. DOMAIN series' = {}
    BY <2>1, NoPlot, Zenon DEF Blank
  <2>3. AllPoints' = {}
    BY <2>2 DEF AllPoints
  <2>4. DOMAIN queue' = {}
    BY <2>1, EmptySeq
  <2>5. QED
    BY <2>2, <2>3, <2>4 DEF SeriesInv, FramesInOrder, SeriesAscend
<1>7. CASE UNCHANGED vars
  <2>1. UNCHANGED <<queue, series, run_uid, service, wasReset>>
    BY <1>7, Zenon DEF vars, plots, texts, history
  <2>2. QED
    BY <2>1, SameSeries
<1>8. QED
  BY <1>1, <1>2, <1>3, <1>4, <1>5, <1>6, <1>7, Zenon DEF Next

(* No line of the convergence plot mixes two runs, whatever the service and   *)
(* the user do and whether or not the panel has caught up; within a run that  *)
(* is not reset its frames ascend.                                            *)
THEOREM SeriesNeverMix == Spec => []SeriesAscend
<1>1. SeriesInv => SeriesAscend
  BY Zenon DEF SeriesInv
<1>2. QED
  BY <1>1, InitRuns, StepRuns, InitSeries, StepSeries, PanelInvariant, PTL DEF Spec
=============================================================================
