--------------------------- MODULE ButtonHandler ---------------------------
(* The buttons of the panel: the queue of events of the input device and     *)
(* class ButtonHandler, which reads them in batches into one buffer. The     *)
(* operator presses and releases buttons at any time, also while the process *)
(* is busy with another callback, which may take seconds. A read is started  *)
(* again before the batch of the previous one is looked at, and reads at     *)
(* once what the device has (Boost.Asio reads speculatively): into the       *)
(* buffer the batch is still in.                                             *)
EXTENDS Integers, Sequences

CONSTANTS
  BufferSize,  \* the events ipEvent has room for
  MaxPresses   \* bound: how often buttons are pressed

VARIABLES
  \* the operator and the input device, which are not under src/
  presses,     \* the presses so far are 1..presses
  held,        \* how many buttons are held
  queue,       \* the events the device has, oldest first
  attached,    \* the device can be read
  \* the process
  ipEvent,     \* the buffer
  read,        \* of async_read: "none", "waiting", "done" or "error"
  transferred, \* the events a read has transferred
  \* history
  passed,      \* the presses passed to processPanelButtonEvent
  hurried      \* the operator went on before the last event was handled

deviceVars == <<presses, held, queue, attached>>
readVars == <<ipEvent, read, transferred>>
vars == <<deviceVars, readVars, passed, hurried>>

\* The device queues an event with the event that ends its report, and a read
\* takes whole reports.
ASSUME BufferAssumption ==
  /\ BufferSize \in Nat \ {0} /\ BufferSize % 2 = 0
  /\ MaxPresses \in Nat

\* An event is the number of the press it reports, which of the three buttons it
\* is makes no difference here, or an event with the value 0: a release, or the end
\* of a report.
ZERO == 0
Events == {ZERO} \cup 1..MaxPresses

-----------------------------------------------------------------------------
\* The operator.
Idle == queue = <<>> /\ read # "done"

Report(event) ==
  /\ attached
  /\ queue' = queue \o <<event, ZERO>>
  /\ hurried' = (hurried \/ ~Idle)
  /\ UNCHANGED <<attached, readVars, passed>>

Press ==
  /\ presses < MaxPresses
  /\ presses' = presses + 1 /\ held' = held + 1
  /\ Report(presses')

Release ==
  /\ held > 0
  /\ held' = held - 1
  /\ Report(ZERO)
  /\ UNCHANGED presses

\* The driver is unbound: from now on every read fails.
Detach ==
  /\ attached
  /\ attached' = FALSE
  /\ UNCHANGED <<presses, held, queue, readVars, passed, hurried>>

-----------------------------------------------------------------------------
\* performAsyncRead: the read is done at once if the device has events, or has
\* failed; otherwise it waits.
\* Mutant: the read waits until the buffer can be filled, the default of async_read.
PerformAsyncRead_WaitsForAll ==
  IF ~attached
  THEN /\ read' = "error" /\ transferred' = 0
       /\ UNCHANGED <<ipEvent, queue>>
  ELSE IF Len(queue) < BufferSize
  THEN /\ read' = "waiting" /\ transferred' = 0
       /\ UNCHANGED <<ipEvent, queue>>
  ELSE /\ ipEvent' = SubSeq(queue, 1, BufferSize)
       /\ queue' = SubSeq(queue, BufferSize + 1, Len(queue))
       /\ read' = "done" /\ transferred' = BufferSize
PerformAsyncRead ==
  LET n == IF Len(queue) < BufferSize THEN Len(queue) ELSE BufferSize
  IN  IF attached
      THEN /\ ipEvent' = [i \in 1..BufferSize |-> IF i <= n THEN queue[i] ELSE ipEvent[i]]
           /\ queue' = SubSeq(queue, n + 1, Len(queue))
           /\ read' = IF n = 0 THEN "waiting" ELSE "done"
           /\ transferred' = n
      ELSE /\ read' = "error" /\ transferred' = 0
           /\ UNCHANGED <<ipEvent, queue>>

\* The constructor.
Open ==
  /\ read = "none"
  /\ PerformAsyncRead
  /\ UNCHANGED <<presses, held, attached, passed, hurried>>

\* The event loop finds that the device has events, or has failed.
ReadReady ==
  /\ read = "waiting" /\ (queue # <<>> \/ ~attached)
  /\ PerformAsyncRead
  /\ UNCHANGED <<presses, held, attached, passed, hurried>>

\* The events the loop passes on: those before the first event with the value 0.
\* Mutants: the loop goes on behind such an event; the loop handles the events
\* with the value 0, as its comment says.
Handled_GoesOn(buffer, n) == SelectSeq(SubSeq(buffer, 1, n), LAMBDA e : e # ZERO)
Handled_Releases(buffer, n) == SelectSeq(SubSeq(buffer, 1, n), LAMBDA e : e = ZERO)
Handled(buffer, n) ==
  LET before == {i \in 0..n : \A j \in 1..i : buffer[j] # ZERO}
  IN  SubSeq(buffer, 1, CHOOSE i \in before : \A j \in before : j <= i)

\* The next read is started first, then the events of this one are taken from the
\* buffer. After an error there are none, and the next read fails again.
ProcessInputEvent ==
  /\ read \in {"done", "error"}
  /\ PerformAsyncRead
  /\ passed' = IF read = "done" THEN passed \o Handled(ipEvent', transferred) ELSE passed
  /\ UNCHANGED <<presses, held, attached, hurried>>

-----------------------------------------------------------------------------
Init ==
  /\ presses = 0 /\ held = 0 /\ queue = <<>> /\ attached = TRUE
  /\ ipEvent = [i \in 1..BufferSize |-> ZERO]
  /\ read = "none" /\ transferred = 0
  /\ passed = <<>> /\ hurried = FALSE

Next ==
  \/ Press \/ Release \/ Detach
  \/ Open \/ ReadReady \/ ProcessInputEvent

\* The event loop runs; the operator need not do anything.
Spec == Init /\ [][Next]_vars /\ WF_vars(Open) /\ WF_vars(ReadReady) /\ WF_vars(ProcessInputEvent)

-----------------------------------------------------------------------------
ButtonTypeOK ==
  /\ presses \in 0..MaxPresses /\ held \in 0..presses
  /\ queue \in Seq(Events) /\ attached \in BOOLEAN
  /\ ipEvent \in [1..BufferSize -> Events]
  /\ read \in {"none", "waiting", "done", "error"}
  /\ transferred \in 0..BufferSize
  /\ passed \in Seq(1..presses) /\ hurried \in BOOLEAN

\* A press that was passed on is never passed on behind a later one.
PassedInOrder ==
  \A i, j \in 1..Len(passed) : i < j => passed[i] <= passed[j]

\* A press is passed on at most twice.
PassedAtMostTwice ==
  \A i, j, k \in 1..Len(passed) :
    i < j /\ j < k => ~(passed[i] = passed[j] /\ passed[j] = passed[k])

\* Whatever the operator does, and however long the process is busy: nothing is
\* passed on that was not pressed, in the order of the presses, and a press at
\* most twice, though the buffer of a batch is read into before the batch is
\* handled and may keep events of older ones.
InputInv == ButtonTypeOK /\ PassedInOrder /\ PassedAtMostTwice

\* An operator who waits until the last event was handled is heard: every press is
\* passed on exactly once. The premise is needed: of presses that wait together
\* only the first of a batch is passed on, and one that arrives between a read and
\* its handler takes the place of the press before and is passed on twice.
PatientOperatorIsHeard ==
  ~hurried /\ attached /\ read \in {"waiting", "done", "error"} /\ Idle
  => passed = [i \in 1..presses |-> i]

\* The handler never stops reading: events are taken from the device as long as
\* it is attached.
EventsAreRead == queue # <<>> ~> (queue = <<>> \/ ~attached)
=============================================================================
