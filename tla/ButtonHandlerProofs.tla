------------------------ MODULE ButtonHandlerProofs ------------------------
(* The safety properties of ButtonHandler, for every size of the buffer and   *)
(* number of presses.                                                         *)
EXTENDS ButtonHandler, SequenceTheorems, TLAPS

\* The events with the value 0 that end the reports are in the even positions.
ReportsAreWhole ==
  /\ Len(queue) % 2 = 0
  /\ \A i \in 1..Len(queue) : i % 2 = 0 => queue[i] = ZERO
  /\ \A i \in 1..BufferSize : i % 2 = 0 => ipEvent[i] = ZERO

\* The device has its presses in order, all of them after those that were read.
QueueInOrder ==
  /\ \A i \in 1..Len(queue) : queue[i] <= presses
  /\ \A i, j \in 1..Len(queue) : i < j /\ queue[j] # ZERO => queue[i] < queue[j]
  /\ \A i \in 1..Len(queue), j \in 1..Len(passed) : queue[i] # ZERO => passed[j] < queue[i]
  /\ \A i \in 1..Len(queue) : queue[i] # ZERO => ipEvent[1] < queue[i]

\* The press at the front of the buffer was passed on at most once, and no later one.
FrontNotOld ==
  read = "done" /\ ipEvent[1] # ZERO =>
    /\ \A i \in 1..Len(passed) : passed[i] <= ipEvent[1]
    /\ \A i, j \in 1..Len(passed) : i < j => ~(passed[i] = ipEvent[1] /\ passed[j] = ipEvent[1])

\* The inductive invariant.
InputIndInv ==
  /\ InputInv
  /\ ReportsAreWhole /\ QueueInOrder /\ FrontNotOld
  /\ ipEvent[1] <= presses
  /\ read = "done" => transferred > 0

-----------------------------------------------------------------------------
\* A buffer has room for a report.
LEMMA BufferFits == BufferSize \in Nat /\ BufferSize >= 2 /\ BufferSize % 2 = 0
BY BufferAssumption

\* Sums and differences of even numbers are even.
LEMMA EvenSum ==
  ASSUME NEW a \in Nat, NEW b \in Nat, b % 2 = 0
  PROVE  (a + b) % 2 = a % 2 /\ (a >= b => (a - b) % 2 = a % 2)
OBVIOUS

\* The positions a report takes.
LEMMA EvenNext ==
  ASSUME NEW n \in Nat, n % 2 = 0
  PROVE  (n + 2) % 2 = 0 /\ (n + 1) % 2 = 1
OBVIOUS

\* A report is queued behind the others.
LEMMA AppendTwo ==
  ASSUME NEW S, NEW q \in Seq(S), NEW a \in S, NEW b \in S
  PROVE  /\ q \o <<a, b>> \in Seq(S) /\ Len(q \o <<a, b>>) = Len(q) + 2
         /\ \A i \in 1..Len(q) : (q \o <<a, b>>)[i] = q[i]
         /\ (q \o <<a, b>>)[Len(q) + 1] = a /\ (q \o <<a, b>>)[Len(q) + 2] = b
         /\ \A i \in 1..(Len(q) + 2) : i \in 1..Len(q) \/ i = Len(q) + 1 \/ i = Len(q) + 2
<1> DEFINE more == <<a, b>>
           all == q \o more
<1>1. more \in Seq(S) /\ Len(more) = 2 /\ more[1] = a /\ more[2] = b
  OBVIOUS
<1> HIDE DEF more
<1>2. Len(q) \in Nat
  BY LenProperties
<1>3. /\ all \in Seq(S) /\ Len(all) = Len(q) + Len(more)
      /\ \A i \in 1..(Len(q) + Len(more)) :
           all[i] = IF i <= Len(q) THEN q[i] ELSE more[i - Len(q)]
  BY <1>1, ConcatProperties
<1> HIDE DEF all
<1>4. /\ Len(all) = Len(q) + 2
      /\ \A i \in 1..Len(q) : all[i] = q[i]
      /\ all[Len(q) + 1] = a /\ all[Len(q) + 2] = b
  BY <1>1, <1>2, <1>3
<1>5. \A i \in 1..(Len(q) + 2) : i \in 1..Len(q) \/ i = Len(q) + 1 \/ i = Len(q) + 2
  BY <1>2
<1> QED BY <1>3, <1>4, <1>5 DEF all, more

\* Of a batch only the first event can be passed on: the second ends its report.
LEMMA HandledIsFront ==
  ASSUME NEW buffer \in [1..BufferSize -> Events], buffer[2] = ZERO,
         NEW n \in 1..BufferSize
  PROVE  Handled(buffer, n) = IF buffer[1] = ZERO THEN <<>> ELSE <<buffer[1]>>
<1> DEFINE before == {i \in 0..n : \A j \in 1..i : buffer[j] # ZERO}
           last == CHOOSE i \in before : \A j \in before : j <= i
<1>1. Handled(buffer, n) = SubSeq(buffer, 1, last)
  BY DEF Handled
<1>2. n \in Nat /\ n >= 1
  BY BufferFits
<1>3. \A i \in before : i \in {0, 1}
  <2> SUFFICES ASSUME NEW i \in before, i >= 2 PROVE FALSE
    BY <1>2
  <2>1. 2 \in 1..i
    OBVIOUS
  <2> QED BY <2>1
<1>4. CASE buffer[1] = ZERO
  <2>1. before = {0}
    BY <1>2, <1>3, <1>4
  <2>2. last = 0
    BY <2>1
  <2>3. SubSeq(buffer, 1, 0) = <<>>
    BY SubSeqEmpty
  <2> QED BY <1>1, <1>4, <2>2, <2>3
<1>5. CASE buffer[1] # ZERO
  <2>1. before = {0, 1}
    BY <1>2, <1>3, <1>5
  <2>2. last = 1
    BY <2>1
  <2>3. \A i \in 1..1 : buffer[i] \in Events
    BY BufferFits
  <2>4. /\ SubSeq(buffer, 1, 1) \in Seq(Events)
        /\ Len(SubSeq(buffer, 1, 1)) = 1
        /\ \A i \in 1..1 : SubSeq(buffer, 1, 1)[i] = buffer[1 + i - 1]
    BY <2>3, SubSeqProperties
  <2>5. buffer[1] \in Events
    BY BufferFits
  <2>6. /\ <<buffer[1]>> \in Seq(Events)
        /\ Len(<<buffer[1]>>) = 1 /\ <<buffer[1]>>[1] = buffer[1]
    BY <2>5
  <2>7. SubSeq(buffer, 1, 1) = <<buffer[1]>>
    <3> DEFINE s == SubSeq(buffer, 1, 1)
               u == <<buffer[1]>>
    <3>1. s \in Seq(Events) /\ u \in Seq(Events) /\ Len(s) = 1 /\ Len(u) = 1
      BY <2>4, <2>6
    <3>2. s[1] = buffer[1] /\ u[1] = buffer[1]
      BY <2>4, <2>6
    <3> HIDE DEF s, u
    <3>3. Len(s) = Len(u) /\ \A i \in 1..Len(s) : s[i] = u[i]
      BY <3>1, <3>2
    <3>4. s = u
      BY <3>1, <3>3, SeqEqual
    <3> QED BY <3>4 DEF s, u
  <2> QED BY <1>1, <1>5, <2>2, <2>7
<1> QED BY <1>4, <1>5

\* What a read does: it takes whole reports from the front of the queue.
LEMMA ReadTakesReports ==
  ASSUME InputIndInv, PerformAsyncRead, attached,
         UNCHANGED <<presses, attached>>
  PROVE  /\ queue' \in Seq(Events) /\ ipEvent' \in [1..BufferSize -> Events]
         /\ read' = IF queue = <<>> THEN "waiting" ELSE "done"
         /\ transferred' \in 0..BufferSize /\ (queue # <<>> => transferred' > 0)
         /\ ipEvent'[1] = IF queue = <<>> THEN ipEvent[1] ELSE queue[1]
         /\ ReportsAreWhole'
         /\ \A i \in 1..Len(queue') : \E j \in 2..Len(queue) : queue'[i] = queue[j]
         /\ \A i, j \in 1..Len(queue') : i < j =>
              \E k, l \in 2..Len(queue) : k < l /\ queue'[i] = queue[k] /\ queue'[j] = queue[l]
<1> DEFINE n == IF Len(queue) < BufferSize THEN Len(queue) ELSE BufferSize
<1>1. /\ queue \in Seq(Events) /\ Len(queue) \in Nat
      /\ \A i \in 1..Len(queue) : queue[i] \in Events
      /\ ipEvent \in [1..BufferSize -> Events]
  BY LenProperties, ElementOfSeq DEF InputIndInv, InputInv, ButtonTypeOK
<1>2. /\ n \in 0..BufferSize /\ n <= Len(queue) /\ n % 2 = 0
      /\ (Len(queue) > 0 => n >= 2)
  <2>1. Len(queue) % 2 = 0
    BY DEF InputIndInv, ReportsAreWhole
  <2>2. CASE Len(queue) < BufferSize
    <3>1. n = Len(queue)
      BY <2>2
    <3>2. Len(queue) > 0 => Len(queue) >= 2
      BY <1>1, <2>1
    <3> HIDE DEF n
    <3> QED BY <1>1, <2>1, <2>2, <3>1, <3>2, BufferFits
  <2>3. CASE ~(Len(queue) < BufferSize)
    <3>1. n = BufferSize
      BY <2>3
    <3> HIDE DEF n
    <3> QED BY <1>1, <2>3, <3>1, BufferFits
  <2> QED BY <2>2, <2>3
<1>3. /\ ipEvent' = [i \in 1..BufferSize |-> IF i <= n THEN queue[i] ELSE ipEvent[i]]
      /\ queue' = SubSeq(queue, n + 1, Len(queue))
      /\ read' = IF n = 0 THEN "waiting" ELSE "done"
      /\ transferred' = n
  BY DEF PerformAsyncRead
<1> HIDE DEF n
<1>4. queue = <<>> <=> Len(queue) = 0
  BY <1>1, EmptySeq
<1>5. n = 0 <=> Len(queue) = 0
  BY <1>1, <1>2
<1>6. ipEvent' \in [1..BufferSize -> Events]
  BY <1>1, <1>2, <1>3
<1>7. ipEvent'[1] = IF queue = <<>> THEN ipEvent[1] ELSE queue[1]
  BY <1>1, <1>2, <1>3, <1>4, BufferFits
<1>8. /\ queue' \in Seq(Events)
      /\ Len(queue') = Len(queue) - n
      /\ \A i \in 1..Len(queue') : queue'[i] = queue[i + n]
  <2>1. \A i \in (n + 1)..Len(queue) : queue[i] \in Events
    BY <1>1, <1>2
  <2>2. n + 1 \in Int /\ Len(queue) \in Int
    BY <1>1, <1>2
  <2>3. /\ queue' \in Seq(Events)
        /\ Len(queue') = IF n + 1 <= Len(queue) THEN Len(queue) - (n + 1) + 1 ELSE 0
        /\ \A i \in 1..(Len(queue) - (n + 1) + 1) : queue'[i] = queue[(n + 1) + i - 1]
    BY <1>3, <2>1, <2>2, SubSeqProperties
  <2> QED BY <1>1, <1>2, <2>3
<1>9. ReportsAreWhole'
  <2>1. Len(queue') % 2 = 0
    <3>1. Len(queue) % 2 = 0
      BY DEF InputIndInv, ReportsAreWhole
    <3>2. n \in Nat /\ Len(queue) >= n
      BY <1>1, <1>2
    <3>3. (Len(queue) - n) % 2 = Len(queue) % 2
      BY <1>1, <1>2, <3>2, EvenSum
    <3> QED BY <1>8, <3>1, <3>3
  <2>2. ASSUME NEW i \in 1..Len(queue'), i % 2 = 0 PROVE queue'[i] = ZERO
    <3>1. i \in Nat /\ n \in Nat /\ i + n \in 1..Len(queue)
      BY <1>1, <1>2, <1>8
    <3>2. (i + n) % 2 = 0
      BY <1>2, <2>2, <3>1, EvenSum
    <3> QED BY <1>8, <3>1, <3>2 DEF InputIndInv, ReportsAreWhole
  <2>3. ASSUME NEW i \in 1..BufferSize, i % 2 = 0 PROVE ipEvent'[i] = ZERO
    BY <1>1, <1>2, <1>3, <2>3 DEF InputIndInv, ReportsAreWhole
  <2> QED BY <2>1, <2>2, <2>3 DEF ReportsAreWhole
<1>10. \A i \in 1..Len(queue') : i + n \in 2..Len(queue) /\ queue'[i] = queue[i + n]
  BY <1>1, <1>2, <1>5, <1>8
<1>11. \A i, j \in 1..Len(queue') : i < j => i + n < j + n
  BY <1>2
<1>12. \A i, j \in 1..Len(queue') : i < j =>
         \E k, l \in 2..Len(queue) : k < l /\ queue'[i] = queue[k] /\ queue'[j] = queue[l]
  BY <1>10, <1>11
<1>13. transferred' \in 0..BufferSize /\ (queue # <<>> => transferred' > 0)
  BY <1>2, <1>3, <1>4, <1>1
<1>14. read' = IF queue = <<>> THEN "waiting" ELSE "done"
  BY <1>3, <1>4, <1>5
<1> QED BY <1>6, <1>7, <1>8, <1>9, <1>10, <1>12, <1>13, <1>14

-----------------------------------------------------------------------------
\* A handler that starts has read and passed on nothing.
LEMMA InputInit == Init => InputIndInv
<1> SUFFICES ASSUME Init PROVE InputIndInv
  OBVIOUS
<1>1. /\ queue \in Seq(Events) /\ Len(queue) = 0
      /\ passed \in Seq(1..presses) /\ Len(passed) = 0
  BY EmptySeq DEF Init
<1>2. ButtonTypeOK
  <2>1. presses \in 0..MaxPresses /\ held \in 0..presses /\ transferred \in 0..BufferSize
    BY BufferFits, BufferAssumption DEF Init
  <2>2. ipEvent \in [1..BufferSize -> Events]
    BY DEF Init, Events
  <2>3. attached \in BOOLEAN /\ hurried \in BOOLEAN /\ read \in {"none", "waiting", "done", "error"}
    BY DEF Init
  <2> QED BY <1>1, <2>1, <2>2, <2>3 DEF ButtonTypeOK
<1>3. PassedInOrder /\ PassedAtMostTwice /\ FrontNotOld
  BY <1>1 DEF PassedInOrder, PassedAtMostTwice, FrontNotOld
<1>4. ReportsAreWhole
  BY <1>1, BufferFits DEF Init, ReportsAreWhole
<1>5. QueueInOrder
  BY <1>1 DEF QueueInOrder
<1>6. ipEvent[1] <= presses /\ read # "done"
  BY BufferFits DEF Init, ZERO
<1> QED BY <1>2, <1>3, <1>4, <1>5, <1>6 DEF InputIndInv, InputInv

\* The typing facts the arithmetic of the steps needs.
LEMMA InputTypes ==
  ASSUME ButtonTypeOK
  PROVE  /\ presses \in Nat
         /\ queue \in Seq(Events) /\ Len(queue) \in Nat
         /\ \A i \in 1..Len(queue) : queue[i] \in Nat
         /\ passed \in Seq(1..presses) /\ Len(passed) \in Nat
         /\ \A i \in 1..Len(passed) : passed[i] \in Nat /\ passed[i] <= presses /\ passed[i] > 0
         /\ ipEvent \in [1..BufferSize -> Events] /\ ipEvent[1] \in Nat
<1>1. presses \in Nat /\ Events \subseteq Nat
  BY BufferAssumption DEF ButtonTypeOK, Events, ZERO
<1>2. /\ queue \in Seq(Events) /\ Len(queue) \in Nat
      /\ \A i \in 1..Len(queue) : queue[i] \in Events
  BY LenProperties, ElementOfSeq DEF ButtonTypeOK
<1>3. /\ passed \in Seq(1..presses) /\ Len(passed) \in Nat
      /\ \A i \in 1..Len(passed) : passed[i] \in 1..presses
  BY LenProperties, ElementOfSeq DEF ButtonTypeOK
<1>4. ipEvent \in [1..BufferSize -> Events] /\ ipEvent[1] \in Events
  BY BufferFits DEF ButtonTypeOK
<1>5. \A i \in 1..Len(queue) : queue[i] \in Nat
  BY <1>1, <1>2
<1>6. \A i \in 1..Len(passed) : passed[i] \in Nat /\ passed[i] <= presses /\ passed[i] > 0
  <2> SUFFICES ASSUME NEW i \in 1..Len(passed)
               PROVE  passed[i] \in Nat /\ passed[i] <= presses /\ passed[i] > 0
    OBVIOUS
  <2>1. passed[i] \in 1..presses
    BY <1>3
  <2> QED BY <1>1, <2>1
<1> QED BY <1>1, <1>2, <1>3, <1>4, <1>5, <1>6

\* The operator presses or releases a button.
LEMMA ReportStep ==
  ASSUME InputIndInv, NEW event \in Events, Report(event),
         presses' \in 0..MaxPresses, presses <= presses', held' \in 0..presses',
         event = ZERO \/ (presses < event /\ event <= presses')
  PROVE  InputIndInv'
<1>1. /\ queue' = queue \o <<event, ZERO>> /\ hurried' \in BOOLEAN
      /\ UNCHANGED <<attached, ipEvent, read, transferred, passed>>
  BY DEF Report, InputIndInv, InputInv, ButtonTypeOK, readVars
<1>2. /\ presses \in Nat
      /\ queue \in Seq(Events) /\ Len(queue) \in Nat
      /\ \A i \in 1..Len(queue) : queue[i] \in Nat
      /\ passed \in Seq(1..presses) /\ Len(passed) \in Nat
      /\ \A i \in 1..Len(passed) : passed[i] \in Nat /\ passed[i] <= presses /\ passed[i] > 0
      /\ ipEvent \in [1..BufferSize -> Events] /\ ipEvent[1] \in Nat
  BY InputTypes DEF InputIndInv, InputInv
<1>3. presses' \in Nat /\ event \in Nat /\ ZERO \in Events
  BY BufferAssumption DEF Events, ZERO
<1>5. /\ queue' \in Seq(Events) /\ Len(queue') = Len(queue) + 2
      /\ \A i \in 1..Len(queue) : queue'[i] = queue[i]
      /\ queue'[Len(queue) + 1] = event /\ queue'[Len(queue) + 2] = ZERO
      /\ \A i \in 1..Len(queue') : i \in 1..Len(queue) \/ i = Len(queue) + 1 \/ i = Len(queue) + 2
  BY <1>1, <1>2, <1>3, AppendTwo
<1>7. ButtonTypeOK' /\ PassedInOrder' /\ PassedAtMostTwice' /\ FrontNotOld'
  <2>1. passed \in Seq(1..presses')
    <3>1. 1..presses \subseteq 1..presses'
      BY <1>2, <1>3
    <3>2. \A i \in 1..Len(passed) : passed[i] \in 1..presses'
      BY <1>2, <1>3
    <3>3. passed \in [1..Len(passed) -> 1..presses']
      BY <1>2, <3>2, LenProperties
    <3> QED BY <1>2, <3>3
  <2> QED BY <1>1, <1>5, <2>1
        DEF InputIndInv, InputInv, ButtonTypeOK, PassedInOrder, PassedAtMostTwice, FrontNotOld
<1>8. ReportsAreWhole'
  <2>1. Len(queue) % 2 = 0 /\ \A i \in 1..Len(queue) : i % 2 = 0 => queue[i] = ZERO
    BY DEF InputIndInv, ReportsAreWhole
  <2>2. (Len(queue) + 2) % 2 = 0 /\ (Len(queue) + 1) % 2 # 0
    BY <1>2, <2>1, EvenNext
  <2> QED BY <1>1, <1>5, <2>1, <2>2 DEF InputIndInv, ReportsAreWhole
<1>9. QueueInOrder'
  <2>1. QueueInOrder /\ ipEvent[1] <= presses
    BY DEF InputIndInv
  <2>2. ASSUME NEW i \in 1..Len(queue')
        PROVE  \/ i \in 1..Len(queue) /\ queue'[i] = queue[i] /\ queue[i] <= presses
               \/ queue'[i] = event /\ presses < event /\ event <= presses'
               \/ queue'[i] = 0
    <3>1. CASE i \in 1..Len(queue)
      BY <1>5, <2>1, <3>1 DEF QueueInOrder
    <3>2. CASE i = Len(queue) + 1
      BY <1>5, <3>2 DEF ZERO
    <3>3. CASE i = Len(queue) + 2
      BY <1>5, <3>3 DEF ZERO
    <3> QED BY <1>5, <3>1, <3>2, <3>3
  <2>3. ASSUME NEW i \in 1..Len(queue') PROVE queue'[i] <= presses'
    <3>1. CASE i \in 1..Len(queue) /\ queue'[i] = queue[i] /\ queue[i] <= presses
      BY <1>2, <1>3, <3>1
    <3>2. CASE queue'[i] = 0 \/ (queue'[i] = event /\ event <= presses')
      BY <1>3, <3>2
    <3> QED BY <2>2, <3>1, <3>2
  <2>4. ASSUME NEW i \in 1..Len(queue'), NEW j \in 1..Len(queue'), i < j, queue'[j] # 0
        PROVE  queue'[i] < queue'[j]
    <3>1. CASE j \in 1..Len(queue)
      <4>1. i \in 1..Len(queue)
        BY <1>2, <2>4, <3>1
      <4> QED BY <1>5, <2>1, <2>4, <3>1, <4>1 DEF QueueInOrder, ZERO
    <3>2. CASE j \notin 1..Len(queue)
      <4>1. j = Len(queue) + 1 /\ queue'[j] = event /\ presses < event
        BY <1>5, <2>4, <3>2 DEF ZERO
      <4>2. i \in 1..Len(queue)
        BY <1>2, <2>4, <4>1
      <4>3. queue'[i] = queue[i] /\ queue[i] <= presses
        BY <1>5, <2>1, <4>2 DEF QueueInOrder
      <4> QED BY <1>2, <1>3, <4>1, <4>2, <4>3
    <3> QED BY <3>1, <3>2
  <2>5. ASSUME NEW i \in 1..Len(queue'), NEW j \in 1..Len(passed), queue'[i] # 0
        PROVE  passed[j] < queue'[i]
    <3>1. CASE i \in 1..Len(queue) /\ queue'[i] = queue[i]
      BY <2>1, <2>5, <3>1 DEF QueueInOrder, ZERO
    <3>2. CASE queue'[i] = event /\ presses < event
      BY <1>2, <1>3, <3>2
    <3> QED BY <2>2, <2>5, <3>1, <3>2
  <2>6. ASSUME NEW i \in 1..Len(queue'), queue'[i] # 0
        PROVE  ipEvent[1] < queue'[i]
    <3>1. CASE i \in 1..Len(queue) /\ queue'[i] = queue[i]
      BY <2>1, <2>6, <3>1 DEF QueueInOrder, ZERO
    <3>2. CASE queue'[i] = event /\ presses < event
      BY <1>2, <1>3, <2>1, <3>2
    <3> QED BY <2>2, <2>6, <3>1, <3>2
  <2> QED BY <1>1, <2>3, <2>4, <2>5, <2>6 DEF QueueInOrder, ZERO
<1>10. (ipEvent[1] <= presses /\ (read = "done" => transferred > 0))'
  BY <1>1, <1>2, <1>3 DEF InputIndInv
<1> QED BY <1>7, <1>8, <1>9, <1>10 DEF InputIndInv, InputInv

\* The driver is unbound.
LEMMA DetachStep == InputIndInv /\ Detach => InputIndInv'
<1> SUFFICES ASSUME InputIndInv, Detach PROVE InputIndInv'
  OBVIOUS
<1>1. attached' = FALSE /\ UNCHANGED <<presses, held, queue, readVars, passed, hurried>>
  BY DEF Detach
<1>2. ButtonTypeOK'
  BY <1>1 DEF InputIndInv, InputInv, ButtonTypeOK, readVars
<1>3. PassedInOrder' /\ PassedAtMostTwice' /\ FrontNotOld'
  BY <1>1 DEF InputIndInv, InputInv, PassedInOrder, PassedAtMostTwice, FrontNotOld, readVars
<1>4. ReportsAreWhole' /\ QueueInOrder'
  BY <1>1 DEF InputIndInv, ReportsAreWhole, QueueInOrder, readVars
<1> QED BY <1>1, <1>2, <1>3, <1>4 DEF InputIndInv, InputInv, readVars

\* A read that is started: what the queue and the buffer are then.
LEMMA ReadStep ==
  ASSUME InputIndInv, PerformAsyncRead, UNCHANGED <<presses, attached>>
  PROVE  /\ queue' \in Seq(Events) /\ ipEvent' \in [1..BufferSize -> Events]
         /\ read' \in {"none", "waiting", "done", "error"} /\ transferred' \in 0..BufferSize
         /\ ReportsAreWhole'
         /\ \A i \in 1..Len(queue') :
              /\ queue'[i] <= presses
              /\ queue'[i] # ZERO => /\ \A j \in 1..Len(passed) : passed[j] < queue'[i]
                                     /\ ipEvent'[1] < queue'[i]
         /\ \A i, j \in 1..Len(queue') : i < j /\ queue'[j] # ZERO => queue'[i] < queue'[j]
         /\ ipEvent'[1] <= presses
         /\ read' = "done" => attached /\ queue # <<>> /\ transferred' > 0
         /\ ipEvent'[1] = IF attached /\ queue # <<>> THEN queue[1] ELSE ipEvent[1]
<1>1. /\ presses \in Nat
      /\ queue \in Seq(Events) /\ Len(queue) \in Nat
      /\ \A i \in 1..Len(queue) : queue[i] \in Nat
      /\ passed \in Seq(1..presses) /\ Len(passed) \in Nat
      /\ \A i \in 1..Len(passed) : passed[i] \in Nat /\ passed[i] <= presses /\ passed[i] > 0
      /\ ipEvent \in [1..BufferSize -> Events] /\ ipEvent[1] \in Nat
  BY InputTypes DEF InputIndInv, InputInv
<1>2. QueueInOrder /\ ipEvent[1] <= presses /\ ReportsAreWhole
  BY DEF InputIndInv
<1>3. CASE ~attached
  <2>1. read' = "error" /\ transferred' = 0 /\ UNCHANGED <<ipEvent, queue>>
    BY <1>3 DEF PerformAsyncRead
  <2>2. 0 \in 0..BufferSize
    BY BufferFits
  <2>3. ReportsAreWhole'
    BY <1>2, <2>1 DEF ReportsAreWhole
  <2> QED BY <1>1, <1>2, <1>3, <2>1, <2>2, <2>3 DEF QueueInOrder
<1>4. CASE attached
  <2>1. /\ queue' \in Seq(Events) /\ ipEvent' \in [1..BufferSize -> Events]
        /\ read' = IF queue = <<>> THEN "waiting" ELSE "done"
        /\ transferred' \in 0..BufferSize /\ (queue # <<>> => transferred' > 0)
        /\ ipEvent'[1] = IF queue = <<>> THEN ipEvent[1] ELSE queue[1]
        /\ ReportsAreWhole'
        /\ \A i \in 1..Len(queue') : \E j \in 2..Len(queue) : queue'[i] = queue[j]
        /\ \A i, j \in 1..Len(queue') : i < j =>
             \E k, l \in 2..Len(queue) : k < l /\ queue'[i] = queue[k] /\ queue'[j] = queue[l]
    BY <1>4, ReadTakesReports
  <2>2. queue # <<>> => 1 \in 1..Len(queue)
    BY <1>1, EmptySeq
  <2>3. ipEvent'[1] <= presses
    BY <1>1, <1>2, <2>1, <2>2 DEF QueueInOrder
  <2>4. 2..Len(queue) \subseteq 1..Len(queue)
    BY <1>1
  <2>5. ASSUME NEW i \in 1..Len(queue')
        PROVE  /\ queue'[i] <= presses
               /\ queue'[i] # ZERO => /\ \A j \in 1..Len(passed) : passed[j] < queue'[i]
                                      /\ ipEvent'[1] < queue'[i]
    <3>1. PICK j \in 2..Len(queue) : queue'[i] = queue[j]
      BY <2>1
    <3>2. j \in 1..Len(queue) /\ 1 < j /\ 1 \in 1..Len(queue)
      BY <1>1, <3>1
    <3> QED BY <1>2, <2>1, <3>1, <3>2 DEF QueueInOrder
  <2>6. ASSUME NEW i \in 1..Len(queue'), NEW j \in 1..Len(queue'), i < j, queue'[j] # ZERO
        PROVE  queue'[i] < queue'[j]
    <3>1. PICK k \in 2..Len(queue), l \in 2..Len(queue) :
            k < l /\ queue'[i] = queue[k] /\ queue'[j] = queue[l]
      BY <2>1, <2>6
    <3> QED BY <1>2, <2>4, <2>6, <3>1 DEF QueueInOrder
  <2> QED BY <1>4, <2>1, <2>3, <2>5, <2>6
<1> QED BY <1>3, <1>4

\* A read is started and nothing is passed on.
LEMMA SilentStep ==
  ASSUME InputIndInv, PerformAsyncRead, UNCHANGED <<presses, held, attached, hurried, passed>>
  PROVE  InputIndInv'
<1>1. /\ queue' \in Seq(Events) /\ ipEvent' \in [1..BufferSize -> Events]
      /\ read' \in {"none", "waiting", "done", "error"} /\ transferred' \in 0..BufferSize
      /\ ReportsAreWhole'
      /\ \A i \in 1..Len(queue') :
           /\ queue'[i] <= presses
           /\ queue'[i] # ZERO => /\ \A j \in 1..Len(passed) : passed[j] < queue'[i]
                                  /\ ipEvent'[1] < queue'[i]
      /\ \A i, j \in 1..Len(queue') : i < j /\ queue'[j] # ZERO => queue'[i] < queue'[j]
      /\ ipEvent'[1] <= presses
      /\ read' = "done" => attached /\ queue # <<>> /\ transferred' > 0
      /\ ipEvent'[1] = IF attached /\ queue # <<>> THEN queue[1] ELSE ipEvent[1]
  BY ReadStep
<1>2. /\ queue \in Seq(Events) /\ Len(queue) \in Nat /\ \A i \in 1..Len(queue) : queue[i] \in Nat
      /\ \A i \in 1..Len(passed) : passed[i] \in Nat
  BY InputTypes DEF InputIndInv, InputInv
<1>3. queue # <<>> => 1 \in 1..Len(queue)
  BY <1>2, EmptySeq
<1>4. ButtonTypeOK'
  BY <1>1 DEF InputIndInv, InputInv, ButtonTypeOK
<1>5. PassedInOrder' /\ PassedAtMostTwice'
  BY DEF InputIndInv, InputInv, PassedInOrder, PassedAtMostTwice
<1>6. QueueInOrder'
  BY <1>1 DEF QueueInOrder
<1>7. FrontNotOld'
  <2> SUFFICES ASSUME read' = "done", ipEvent'[1] # ZERO
               PROVE  \A i \in 1..Len(passed) : passed[i] < ipEvent'[1]
    <3>1. (\A i \in 1..Len(passed) : passed[i] < ipEvent'[1]) =>
             /\ \A i \in 1..Len(passed) : passed[i] <= ipEvent'[1]
             /\ \A i \in 1..Len(passed) : passed[i] # ipEvent'[1]
      <4>1. ipEvent'[1] \in Nat
        BY <1>1, BufferFits DEF Events, ZERO
      <4> QED BY <1>2, <4>1
    <3> QED BY <3>1 DEF FrontNotOld
  <2>1. ipEvent'[1] = queue[1] /\ 1 \in 1..Len(queue)
    BY <1>1, <1>3
  <2> QED BY <2>1 DEF InputIndInv, QueueInOrder
<1> QED BY <1>1, <1>4, <1>5, <1>6, <1>7 DEF InputIndInv, InputInv

\* A read is started and the press at the front of the buffer is passed on.
LEMMA PassedStep ==
  ASSUME InputIndInv, PerformAsyncRead, read = "done",
         UNCHANGED <<presses, held, attached, hurried>>,
         ipEvent'[1] # ZERO, passed' = Append(passed, ipEvent'[1])
  PROVE  InputIndInv'
<1> DEFINE e == ipEvent'[1]
           n == Len(passed)
<1>1. /\ queue' \in Seq(Events) /\ ipEvent' \in [1..BufferSize -> Events]
      /\ read' \in {"none", "waiting", "done", "error"} /\ transferred' \in 0..BufferSize
      /\ ReportsAreWhole'
      /\ \A i \in 1..Len(queue') :
           /\ queue'[i] <= presses
           /\ queue'[i] # ZERO => /\ \A j \in 1..Len(passed) : passed[j] < queue'[i]
                                  /\ ipEvent'[1] < queue'[i]
      /\ \A i, j \in 1..Len(queue') : i < j /\ queue'[j] # ZERO => queue'[i] < queue'[j]
      /\ ipEvent'[1] <= presses
      /\ read' = "done" => attached /\ queue # <<>> /\ transferred' > 0
      /\ ipEvent'[1] = IF attached /\ queue # <<>> THEN queue[1] ELSE ipEvent[1]
  BY ReadStep
<1>2. /\ presses \in Nat
      /\ queue \in Seq(Events) /\ Len(queue) \in Nat /\ \A i \in 1..Len(queue) : queue[i] \in Nat
      /\ passed \in Seq(1..presses) /\ n \in Nat
      /\ \A i \in 1..n : passed[i] \in Nat /\ passed[i] <= presses
  BY InputTypes DEF InputIndInv, InputInv
<1>3. e \in 1..presses /\ e \in Nat
  <2>1. e \in Events
    BY <1>1, BufferFits
  <2>2. e \in Nat /\ e # 0
    BY <2>1, BufferAssumption DEF Events, ZERO
  <2>3. e <= presses
    BY <1>1
  <2> HIDE DEF e
  <2> QED BY <1>2, <2>2, <2>3
<1>4. queue # <<>> => 1 \in 1..Len(queue)
  BY <1>2, EmptySeq
<1>5. attached /\ queue # <<>> => \A i \in 1..n : passed[i] < e
  BY <1>1, <1>4 DEF InputIndInv, QueueInOrder
<1>6. /\ \A i \in 1..n : passed[i] <= e
      /\ \A i, j \in 1..n : i < j => ~(passed[i] = e /\ passed[j] = e)
  <2>1. CASE attached /\ queue # <<>>
    <3>1. \A i \in 1..n : passed[i] < e
      BY <1>5, <2>1
    <3>2. \A i \in 1..n : passed[i] <= e /\ passed[i] # e
      <4> HIDE DEF e, n
      <4> QED BY <1>2, <1>3, <3>1
    <3> QED BY <3>2
  <2>2. CASE ~(attached /\ queue # <<>>)
    <3>1. e = ipEvent[1]
      BY <1>1, <2>2
    <3>2. ipEvent[1] # ZERO
      BY <3>1
    <3> HIDE DEF e
    <3> QED BY <3>1, <3>2 DEF InputIndInv, FrontNotOld
  <2> QED BY <2>1, <2>2
<1>7. passed' = Append(passed, e)
  OBVIOUS
<1> HIDE DEF e, n
<1>8. /\ passed' \in Seq(1..presses) /\ Len(passed') = n + 1
      /\ \A i \in 1..n : passed'[i] = passed[i]
      /\ passed'[n + 1] = e
  BY <1>2, <1>3, <1>7, AppendProperties DEF n
<1>9. \A i \in 1..Len(passed') : i \in 1..n \/ i = n + 1
  BY <1>2, <1>8
<1>10. ButtonTypeOK'
  BY <1>1, <1>8 DEF InputIndInv, InputInv, ButtonTypeOK
<1>11. PassedInOrder'
  <2> SUFFICES ASSUME NEW i \in 1..Len(passed'), NEW j \in 1..Len(passed'), i < j
               PROVE  passed'[i] <= passed'[j]
    BY DEF PassedInOrder
  <2>1. i \in 1..n
    BY <1>2, <1>9, <1>8
  <2>2. CASE j \in 1..n
    BY <1>8, <2>1, <2>2 DEF InputIndInv, InputInv, PassedInOrder, n
  <2>3. CASE j = n + 1
    BY <1>6, <1>8, <2>1, <2>3
  <2> QED BY <1>9, <2>2, <2>3
<1>12. PassedAtMostTwice'
  <2> SUFFICES ASSUME NEW i \in 1..Len(passed'), NEW j \in 1..Len(passed'),
                      NEW k \in 1..Len(passed'), i < j, j < k
               PROVE  ~(passed'[i] = passed'[j] /\ passed'[j] = passed'[k])
    BY DEF PassedAtMostTwice
  <2>1. i \in 1..n /\ j \in 1..n
    BY <1>2, <1>8
  <2>2. CASE k \in 1..n
    BY <1>8, <2>1, <2>2 DEF InputIndInv, InputInv, PassedAtMostTwice, n
  <2>3. CASE k = n + 1
    BY <1>6, <1>8, <2>1, <2>3
  <2> QED BY <1>9, <2>2, <2>3
<1>13. QueueInOrder'
  <2> SUFFICES ASSUME NEW i \in 1..Len(queue'), NEW j \in 1..Len(passed'), queue'[i] # ZERO
               PROVE  passed'[j] < queue'[i]
    BY <1>1 DEF QueueInOrder
  <2>1. CASE j \in 1..n
    BY <1>1, <1>8, <2>1 DEF n
  <2>2. CASE j = n + 1
    BY <1>1, <1>8, <2>2 DEF e
  <2> QED BY <1>9, <2>1, <2>2
<1>14. FrontNotOld'
  <2> SUFFICES ASSUME read' = "done"
               PROVE  /\ \A i \in 1..Len(passed') : passed'[i] <= e
                      /\ \A i, j \in 1..Len(passed') : i < j => ~(passed'[i] = e /\ passed'[j] = e)
    BY DEF FrontNotOld, e
  <2>1. \A i \in 1..n : passed[i] < e
    BY <1>1, <1>5
  <2>2. \A i \in 1..n : passed'[i] <= e /\ passed'[i] # e
    BY <1>2, <1>3, <1>8, <2>1
  <2>3. passed'[n + 1] <= e
    BY <1>3, <1>8
  <2>4. \A i, j \in 1..Len(passed') : i < j => i \in 1..n
    BY <1>2, <1>8
  <2> QED BY <1>9, <2>2, <2>3, <2>4
<1> QED BY <1>1, <1>10, <1>11, <1>12, <1>13, <1>14 DEF InputIndInv, InputInv

\* A batch is handled: what is passed on is the press at its front, if any.
LEMMA BatchPasses ==
  ASSUME InputIndInv, ProcessInputEvent
  PROVE  passed' = IF read = "done" /\ ipEvent'[1] # ZERO
                   THEN Append(passed, ipEvent'[1]) ELSE passed
<1>1. PerformAsyncRead /\ UNCHANGED <<presses, attached>>
  BY DEF ProcessInputEvent
<1>2. ipEvent' \in [1..BufferSize -> Events] /\ ReportsAreWhole'
  BY <1>1, ReadStep
<1>3. ipEvent'[2] = ZERO
  BY <1>2, BufferFits DEF ReportsAreWhole
<1>4. passed \in Seq(1..presses)
  BY DEF InputIndInv, InputInv, ButtonTypeOK
<1>5. CASE read # "done"
  BY <1>5 DEF ProcessInputEvent
<1>6. CASE read = "done"
  <2>1. transferred \in 1..BufferSize
    BY <1>6, BufferFits DEF InputIndInv, InputInv, ButtonTypeOK
  <2>2. passed' = passed \o Handled(ipEvent', transferred)
    BY <1>6 DEF ProcessInputEvent
  <2>3. Handled(ipEvent', transferred) = IF ipEvent'[1] = ZERO THEN <<>> ELSE <<ipEvent'[1]>>
    BY <1>2, <1>3, <2>1, HandledIsFront
  <2>4. passed \o <<>> = passed
    BY <1>4, ConcatEmptySeq
  <2>5. passed \o <<ipEvent'[1]>> = Append(passed, ipEvent'[1])
    BY <1>4
  <2> QED BY <1>6, <2>2, <2>3, <2>4, <2>5
<1> QED BY <1>5, <1>6

\* The invariant is inductive.
LEMMA InputNext == InputIndInv /\ [Next]_vars => InputIndInv'
<1> SUFFICES ASSUME InputIndInv, [Next]_vars PROVE InputIndInv'
  OBVIOUS
<1>1. presses \in Nat
  BY InputTypes DEF InputIndInv, InputInv
<1>2. held \in 0..presses /\ presses \in 0..MaxPresses
  BY DEF InputIndInv, InputInv, ButtonTypeOK
<1>3. CASE Press
  <2>1. presses' \in 0..MaxPresses /\ presses' = presses + 1 /\ held' \in 0..presses'
    BY <1>1, <1>2, <1>3, BufferAssumption DEF Press
  <2>2. presses' \in Events /\ presses < presses' /\ presses <= presses' /\ presses' <= presses'
    BY <1>1, <2>1, BufferAssumption DEF Events
  <2>3. Report(presses')
    BY <1>3 DEF Press
  <2> QED BY <2>1, <2>2, <2>3, ReportStep
<1>4. CASE Release
  <2>1. presses' = presses /\ presses <= presses' /\ held' \in 0..presses' /\ Report(ZERO)
    BY <1>1, <1>2, <1>4 DEF Release
  <2>2. ZERO \in Events
    BY DEF Events
  <2> QED BY <1>2, <2>1, <2>2, ReportStep
<1>5. CASE Detach
  BY <1>5, DetachStep
<1>6. CASE Open \/ ReadReady
  BY <1>6, SilentStep DEF Open, ReadReady
<1>7. CASE ProcessInputEvent
  <2>1. PerformAsyncRead /\ UNCHANGED <<presses, held, attached, hurried>>
    BY <1>7 DEF ProcessInputEvent
  <2> QED BY <1>7, <2>1, BatchPasses, SilentStep, PassedStep
<1>8. CASE UNCHANGED vars
  BY <1>8 DEF InputIndInv, InputInv, ButtonTypeOK, PassedInOrder, PassedAtMostTwice,
              ReportsAreWhole, QueueInOrder, FrontNotOld, vars, deviceVars, readVars
<1> QED BY <1>3, <1>4, <1>5, <1>6, <1>7, <1>8 DEF Next

\* What is passed on was pressed, in the order of the presses, and no press is passed
\* on more than twice, though the next read of the buffer is started before a batch is
\* handled.
THEOREM InputInvariance == Spec => []InputInv
<1>1. InputIndInv => InputInv
  BY DEF InputIndInv
<1> QED BY <1>1, InputInit, InputNext, PTL DEF Spec

-----------------------------------------------------------------------------
(* The patient operator: at most one event is on its way to the handler.      *)

PassedUpTo(n) == passed = [i \in 1..n |-> i]

\* The event e is on its way, all before it are handled.
OnlyWaits(e) ==
  \/ e = ZERO /\ PassedUpTo(presses)
  \/ e = presses /\ presses # 0 /\ PassedUpTo(presses - 1)

PatientInv ==
  attached /\ ~hurried =>
    /\ read # "error"
    /\ \/ queue = <<>> /\ read # "done" /\ PassedUpTo(presses)
       \/ read # "done" /\ Len(queue) = 2 /\ OnlyWaits(queue[1])
       \/ queue = <<>> /\ read = "done" /\ OnlyWaits(ipEvent[1])

\* The buffer has room for the event, so one read empties the queue.
LEMMA ReadEmptiesQueue ==
  ASSUME InputIndInv, PerformAsyncRead, attached, queue = <<>> \/ Len(queue) = 2
  PROVE  queue' = <<>>
<1> DEFINE n == IF Len(queue) < BufferSize THEN Len(queue) ELSE BufferSize
<1>1. Len(queue) = 0 \/ Len(queue) = 2
  BY EmptySeq
<1>2. n = Len(queue)
  BY <1>1, BufferFits
<1>3. queue' = SubSeq(queue, n + 1, Len(queue))
  BY DEF PerformAsyncRead
<1> HIDE DEF n
<1>4. n + 1 \in Int /\ Len(queue) \in Int /\ Len(queue) < n + 1
  BY <1>1, <1>2
<1> QED BY <1>3, <1>4, SubSeqEmpty

\* The next press is passed on behind the others.
LEMMA PassedNext ==
  ASSUME NEW n \in Nat, n # 0, PassedUpTo(n - 1), passed' = Append(passed, n)
  PROVE  PassedUpTo(n)'
<1> DEFINE q == [i \in 1..(n - 1) |-> i]
<1>1. n - 1 \in Nat /\ (n - 1) + 1 = n
  OBVIOUS
<1>2. q \in Seq(Nat) /\ Len(q) = n - 1 /\ \A i \in 1..(n - 1) : q[i] = i
  BY <1>1
<1>3. passed = q
  BY DEF PassedUpTo
<1> HIDE DEF q
<1>4. /\ passed' \in Seq(Nat) /\ Len(passed') = n
      /\ \A i \in 1..(n - 1) : passed'[i] = i
      /\ passed'[n] = n
  BY <1>1, <1>2, <1>3, AppendProperties
<1>5. \A i \in 1..n : passed'[i] = i
  BY <1>1, <1>4
<1>6. passed' = [i \in 1..n |-> passed'[i]]
  BY <1>4, LenProperties
<1> QED BY <1>5, <1>6 DEF PassedUpTo

LEMMA PatientInit == Init => PatientInv
<1> SUFFICES ASSUME Init PROVE PatientInv
  OBVIOUS
<1>1. [i \in 1..0 |-> i] = <<>>
  BY EmptySeq
<1> QED BY <1>1 DEF Init, PatientInv, PassedUpTo

LEMMA PatientNext == InputIndInv /\ PatientInv /\ [Next]_vars => PatientInv'
<1> SUFFICES ASSUME InputIndInv, PatientInv, [Next]_vars, attached', ~hurried' PROVE PatientInv'
  BY DEF PatientInv
<1>1. presses \in Nat /\ queue \in Seq(Events) /\ Len(queue) \in Nat
  BY InputTypes DEF InputIndInv, InputInv
<1>2. hurried \in BOOLEAN
  BY DEF InputIndInv, InputInv, ButtonTypeOK
<1>3. ASSUME NEW event \in Events, Report(event),
             (event = ZERO /\ presses' = presses) \/ (event = presses' /\ presses' = presses + 1)
      PROVE  PatientInv'
  <2>1. attached /\ ~hurried /\ queue = <<>> /\ read # "done"
    BY <1>3 DEF Report, Idle
  <2>2. PassedUpTo(presses) /\ read # "error"
    BY <2>1, EmptySeq DEF PatientInv
  <2>3. queue' = queue \o <<event, ZERO>> /\ UNCHANGED <<read, passed>>
    BY <1>3 DEF Report, readVars
  <2>4. ZERO \in Events
    BY DEF Events
  <2>5. Len(queue) = 0
    BY <2>1, EmptySeq
  <2>6. Len(queue') = 2 /\ queue'[1] = event
    BY <1>1, <2>3, <2>4, <2>5, AppendTwo
  <2>7. OnlyWaits(event)'
    <3>1. CASE event = ZERO /\ presses' = presses
      BY <2>2, <2>3, <3>1 DEF OnlyWaits, PassedUpTo
    <3>2. CASE event = presses' /\ presses' = presses + 1
      <4>1. presses' - 1 = presses /\ presses' # 0
        BY <1>1, <3>2
      <4>2. passed' = [i \in 1..(presses' - 1) |-> i]
        BY <2>2, <2>3, <4>1 DEF PassedUpTo
      <4> QED BY <3>2, <4>1, <4>2 DEF OnlyWaits, PassedUpTo
    <3> QED BY <1>3, <3>1, <3>2
  <2> QED BY <2>1, <2>2, <2>3, <2>6, <2>7 DEF PatientInv, OnlyWaits, PassedUpTo
<1>4. CASE Press
  <2>1. presses' = presses + 1 /\ Report(presses') /\ presses' \in Events
    BY <1>1, <1>4, BufferAssumption DEF Press, Events
  <2> QED BY <1>3, <2>1
<1>5. CASE Release
  BY <1>3, <1>5 DEF Release, Events
<1>6. CASE Detach
  BY <1>6 DEF Detach
<1>7. CASE Open \/ ReadReady
  <2>1. PerformAsyncRead /\ UNCHANGED <<presses, held, attached, passed, hurried>> /\ read # "done"
    BY <1>7 DEF Open, ReadReady
  <2>2. attached /\ ~hurried
    BY <2>1
  <2>3. queue' = <<>>
    BY <2>1, <2>2, ReadEmptiesQueue DEF PatientInv
  <2>4. /\ read' = IF queue = <<>> THEN "waiting" ELSE "done"
        /\ ipEvent'[1] = IF queue = <<>> THEN ipEvent[1] ELSE queue[1]
    BY <2>1, <2>2, ReadTakesReports
  <2>5. CASE queue = <<>>
    <3>1. PassedUpTo(presses)
      BY <2>1, <2>2, <2>5, EmptySeq DEF PatientInv
    <3> QED BY <2>1, <2>3, <2>4, <2>5, <3>1 DEF PatientInv, PassedUpTo
  <2>6. CASE queue # <<>>
    <3>1. OnlyWaits(queue[1])
      BY <2>1, <2>2, <2>6 DEF PatientInv
    <3> QED BY <2>1, <2>3, <2>4, <2>6, <3>1 DEF PatientInv, PassedUpTo, OnlyWaits
  <2> QED BY <2>5, <2>6
<1>8. CASE ProcessInputEvent
  <2>1. PerformAsyncRead /\ UNCHANGED <<presses, held, attached, hurried>>
    BY <1>8 DEF ProcessInputEvent
  <2>2. attached /\ ~hurried
    BY <2>1
  <2>3. read = "done"
    BY <1>8, <2>2 DEF ProcessInputEvent, PatientInv
  <2>4. queue = <<>> /\ OnlyWaits(ipEvent[1])
    BY <2>2, <2>3 DEF PatientInv
  <2>5. queue' = <<>> /\ read' = "waiting" /\ ipEvent'[1] = ipEvent[1]
    BY <2>1, <2>2, <2>4, ReadEmptiesQueue, ReadTakesReports
  <2>6. passed' = IF ipEvent[1] # ZERO THEN Append(passed, ipEvent[1]) ELSE passed
    BY <1>8, <2>3, <2>5, BatchPasses
  <2>7. PassedUpTo(presses)'
    <3>1. CASE ipEvent[1] = ZERO
      <4>1. PassedUpTo(presses)
        BY <2>4, <3>1 DEF OnlyWaits, ZERO
      <4> QED BY <2>1, <2>6, <3>1, <4>1 DEF PassedUpTo
    <3>2. CASE ipEvent[1] # ZERO
      <4>1. ipEvent[1] = presses /\ presses # 0 /\ PassedUpTo(presses - 1)
        BY <2>4, <3>2 DEF OnlyWaits
      <4>2. passed' = Append(passed, presses)
        BY <2>6, <3>2, <4>1
      <4>3. passed' = [i \in 1..presses |-> i]
        BY <1>1, <4>1, <4>2, PassedNext DEF PassedUpTo
      <4> QED BY <2>1, <4>3 DEF PassedUpTo
    <3> QED BY <3>1, <3>2
  <2> QED BY <2>5, <2>7 DEF PatientInv
<1>9. CASE UNCHANGED vars
  BY <1>9 DEF PatientInv, OnlyWaits, PassedUpTo, vars, deviceVars, readVars
<1> QED BY <1>4, <1>5, <1>6, <1>7, <1>8, <1>9 DEF Next

\* An operator who waits until the last event was handled is heard: every press is
\* passed on exactly once, whatever the size of the buffer.
THEOREM PatientOperatorInvariance == Spec => []PatientOperatorIsHeard
<1>1. PatientInv => PatientOperatorIsHeard
  <2> SUFFICES ASSUME PatientInv, attached, ~hurried, Idle, read \in {"waiting", "done", "error"}
               PROVE  PassedUpTo(presses)
    BY DEF PatientOperatorIsHeard, PassedUpTo
  <2>1. queue = <<>> /\ read # "done" /\ Len(queue) = 0
    BY EmptySeq DEF Idle
  <2> QED BY <2>1 DEF PatientInv
<1> QED BY <1>1, InputInit, InputNext, PatientInit, PatientNext, PTL DEF Spec
-----------------------------------------------------------------------------
(* How long events can wait.                                                 *)

\* What the operator can still do, and the events that wait.
EventsLeft == 6 * (MaxPresses - presses) + 3 * held + Len(queue)

\* While events wait, every step but the removal of the device, also one of the
\* operator, uses up a part of it: none is handled without a read that takes events.
EventStep ==
  queue # <<>> /\ attached /\ attached' =>
    EventsLeft' \in 0..(EventsLeft - 1) \/ UNCHANGED vars

\* A read with events on the device takes some of them.
LEMMA ReadTakesEvents ==
  ASSUME InputIndInv, PerformAsyncRead, attached, queue # <<>>
  PROVE  Len(queue') \in 0..(Len(queue) - 1)
<1> DEFINE n == IF Len(queue) < BufferSize THEN Len(queue) ELSE BufferSize
<1>1. /\ queue \in Seq(Events) /\ Len(queue) \in Nat /\ Len(queue) > 0
      /\ \A i \in 1..Len(queue) : queue[i] \in Events
  BY LenProperties, ElementOfSeq, EmptySeq DEF InputIndInv, InputInv, ButtonTypeOK
<1>2. n \in 1..Len(queue)
  BY <1>1, BufferFits
<1>3. queue' = SubSeq(queue, n + 1, Len(queue))
  BY DEF PerformAsyncRead
<1> HIDE DEF n
<1>4. n + 1 \in Int /\ Len(queue) \in Int /\ \A i \in (n + 1)..Len(queue) : queue[i] \in Events
  BY <1>1, <1>2
<1>5. Len(queue') = IF n + 1 <= Len(queue) THEN Len(queue) - (n + 1) + 1 ELSE 0
  BY <1>3, <1>4, SubSeqProperties
<1> QED BY <1>1, <1>2, <1>5

\* Two events wait behind the others.
LEMMA ReportAddsTwo ==
  ASSUME ButtonTypeOK, NEW event \in Events, Report(event)
  PROVE  Len(queue) \in Nat /\ Len(queue') = Len(queue) + 2
<1>1. queue \in Seq(Events) /\ ZERO \in Events
  BY DEF ButtonTypeOK, Events
<1>2. queue' = queue \o <<event, ZERO>>
  BY DEF Report
<1> QED BY <1>1, <1>2, LenProperties

\* Every step uses up a part of what is left.
LEMMA EventsCounted == InputIndInv /\ [Next]_vars => EventStep
<1> SUFFICES ASSUME InputIndInv, [Next]_vars, queue # <<>>, attached, attached'
             PROVE  EventsLeft' \in 0..(EventsLeft - 1) \/ UNCHANGED vars
  BY DEF EventStep
<1>1. ButtonTypeOK /\ ButtonTypeOK'
  BY InputNext DEF InputIndInv, InputInv
<1>2. /\ MaxPresses \in Nat /\ presses \in 0..MaxPresses /\ held \in 0..presses
      /\ Len(queue) \in Nat
  BY <1>1, InputTypes, BufferAssumption DEF ButtonTypeOK
<1>3. CASE Press
  <2>1. presses' = presses + 1 /\ presses < MaxPresses /\ held' = held + 1
    BY <1>3 DEF Press
  <2>2. presses' \in Events
    BY <1>2, <2>1 DEF Events
  <2>3. Len(queue') = Len(queue) + 2
    BY <1>1, <1>3, <2>2, ReportAddsTwo DEF Press
  <2> QED BY <1>2, <2>1, <2>3 DEF EventsLeft
<1>4. CASE Release
  <2>1. presses' = presses /\ held > 0 /\ held' = held - 1
    BY <1>4 DEF Release
  <2>2. ZERO \in Events
    BY DEF Events
  <2>3. Len(queue') = Len(queue) + 2
    BY <1>1, <1>4, <2>2, ReportAddsTwo DEF Release
  <2> QED BY <1>2, <2>1, <2>3 DEF EventsLeft
<1>5. CASE Open \/ ReadReady \/ ProcessInputEvent
  <2>1. PerformAsyncRead /\ presses' = presses /\ held' = held
    BY <1>5 DEF Open, ReadReady, ProcessInputEvent
  <2>2. Len(queue') \in 0..(Len(queue) - 1)
    BY <2>1, ReadTakesEvents
  <2> QED BY <1>2, <2>1, <2>2 DEF EventsLeft
<1>6. ~Detach
  BY DEF Detach
<1> QED BY <1>3, <1>4, <1>5, <1>6 DEF Next

\* The safety of EventsAreRead, for every size of the buffer and any number of presses:
\* while events wait at an attached device, every step of the operator and of the
\* handler uses up a part of a bounded number, so no sequence of handlers goes on
\* without reading them. That the handlers run is the fairness.
THEOREM EventsAreTaken == Spec => [][EventStep]_vars
<1>1. Spec => []InputIndInv
  BY InputInit, InputNext, PTL DEF Spec
<1>2. InputIndInv /\ [Next]_vars => EventStep
  BY EventsCounted
<1> QED BY <1>1, <1>2, PTL DEF Spec
=============================================================================
