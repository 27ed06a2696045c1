--------------------------- MODULE ExecutorProofs ---------------------------
(* The safety properties of Executor, for every set of functions, size of    *)
(* the queues and number of PELs, progress codes and executions.             *)
EXTENDS Executor, SequenceTheorems, TLAPS

\* The handlers of the timer that are queued or armed come from executions.
TimerBound == expired + (IF timerArmed THEN 1 ELSE 0) <= executions

\* The inductive invariant.
ExecutorIndInv == ExecutorInv /\ TimerBound

-----------------------------------------------------------------------------
\* The stored entries are the last MaxStored ones.
LEMMA StoredIsSuffix ==
  ASSUME NEW S, NEW q \in Seq(S), NEW e \in Seq(S)
  PROVE  /\ Stored(q, e) \in Seq(S)
         /\ Len(Stored(q, e)) \in Nat /\ Len(Stored(q, e)) <= MaxStored
         /\ Len(Stored(q, e)) <= Len(q) + Len(e)
         /\ Len(q) + Len(e) # 0 => Len(Stored(q, e)) # 0
         /\ \A i \in 1..Len(Stored(q, e)) :
              Stored(q, e)[i] = (q \o e)[i + (Len(q) + Len(e)) - Len(Stored(q, e))]
<1> DEFINE all == q \o e
           n == Len(all)
           first == IF n <= MaxStored THEN 1 ELSE n - MaxStored + 1
           s == Stored(q, e)
<1>1. /\ all \in Seq(S) /\ n = Len(q) + Len(e) /\ n \in Nat
      /\ \A i \in 1..n : all[i] \in S
  BY ConcatProperties, ElementOfSeq, LenProperties
<1>2. s = SubSeq(all, first, n)
  BY DEF Stored
<1>3. MaxStored \in Nat \ {0}
  BY ExecutorAssumption
<1> HIDE DEF all, n, s
<1>4. first \in Int /\ first >= 1
  BY <1>1, <1>3
<1>5. \A i \in first..n : all[i] \in S
  BY <1>1, <1>4
<1>6. /\ s \in Seq(S)
      /\ Len(s) = IF first <= n THEN n - first + 1 ELSE 0
      /\ \A i \in 1..(n - first + 1) : s[i] = all[first + i - 1]
  <2> HIDE DEF first
  <2> QED BY <1>1, <1>2, <1>4, <1>5, SubSeqProperties
<1>7. Len(s) = IF n <= MaxStored THEN n ELSE MaxStored
  <2>1. Len(s) = IF first <= n THEN n - first + 1 ELSE 0
    BY <1>6
  <2>2. CASE n <= MaxStored
    <3>1. first = 1
      BY <2>2
    <3> HIDE DEF first
    <3> QED BY <1>1, <2>1, <2>2, <3>1
  <2>3. CASE ~(n <= MaxStored)
    <3>1. first = n - MaxStored + 1 /\ first <= n
      BY <1>1, <1>3, <2>3
    <3> HIDE DEF first
    <3> QED BY <1>1, <1>3, <2>1, <2>3, <3>1
  <2> QED BY <2>2, <2>3
<1>8. Len(s) \in Nat /\ first = n - Len(s) + 1
  BY <1>1, <1>3, <1>7
<1>9. ASSUME NEW i \in 1..Len(s) PROVE s[i] = all[i + n - Len(s)]
  <2> HIDE DEF first
  <2>1. i \in 1..(n - first + 1) /\ first + i - 1 = i + n - Len(s)
    BY <1>1, <1>8
  <2> QED BY <2>1, <1>6
<1>10. \A i \in 1..Len(s) : s[i] = (q \o e)[i + (Len(q) + Len(e)) - Len(s)]
  BY <1>1, <1>9 DEF all
<1>11. Len(s) <= MaxStored /\ Len(s) <= n /\ (n # 0 => Len(s) # 0)
  BY <1>1, <1>3, <1>7
<1> QED BY <1>1, <1>6, <1>8, <1>10, <1>11 DEF s

\* A pair of neighbours in s is one in all.
NeighboursOf(s, all) ==
  \A i \in 1..(Len(s) - 1) : \E k \in 1..(Len(all) - 1) : s[i] = all[k] /\ s[i + 1] = all[k + 1]

LEMMA StoredNeighbours ==
  ASSUME NEW S, NEW q \in Seq(S), NEW e \in Seq(S)
  PROVE  NeighboursOf(Stored(q, e), q \o e) /\ Len(q \o e) = Len(q) + Len(e)
<1>a. Len(q \o e) = Len(q) + Len(e)
  BY ConcatProperties
<1> SUFFICES ASSUME NEW i \in 1..(Len(Stored(q, e)) - 1)
             PROVE  \E k \in 1..(Len(q \o e) - 1) :
                      Stored(q, e)[i] = (q \o e)[k] /\ Stored(q, e)[i + 1] = (q \o e)[k + 1]
  BY <1>a, Zenon DEF NeighboursOf
<1> DEFINE s == Stored(q, e)
           all == q \o e
           n == Len(q) + Len(e)
           k == i + n - Len(s)
<1>1. n \in Nat
  BY LenProperties
<1>2. /\ Len(s) \in Nat /\ Len(s) <= n
      /\ \A j \in 1..Len(s) : s[j] = all[j + n - Len(s)]
  BY StoredIsSuffix
<1> HIDE DEF s, all, n
<1>3. i \in 1..Len(s) /\ i + 1 \in 1..Len(s) /\ i \in Int
  BY <1>2 DEF s
<1>4. s[i] = all[k]
  BY <1>2, <1>3
<1>5. s[i + 1] = all[(i + 1) + n - Len(s)] /\ (i + 1) + n - Len(s) = k + 1
  BY <1>1, <1>2, <1>3
<1>6. s[i + 1] = all[k + 1]
  BY <1>5
<1>7. k \in 1..(n - 1)
  BY <1>1, <1>2, <1>3
<1> HIDE DEF k
<1>8. k \in 1..(Len(all) - 1)
  BY <1>a, <1>7, Zenon DEF n, all
<1> QED BY <1>4, <1>6, <1>8, Zenon DEF s, all

\* Progress codes stay consecutive when the next one is stored.
LEMMA StoredCodes ==
  ASSUME NEW n \in Nat, NEW q \in Seq(1..n),
         \A i \in 1..(Len(q) - 1) : q[i + 1] = q[i] + 1,
         q # <<>> => q[Len(q)] = n
  PROVE  LET s == Stored(q, <<n + 1>>)
         IN  /\ s \in Seq(1..(n + 1)) /\ Len(s) <= MaxStored
             /\ \A i \in 1..(Len(s) - 1) : s[i + 1] = s[i] + 1
             /\ s # <<>> => s[Len(s)] = n + 1
<1> DEFINE e == <<n + 1>>
           s == Stored(q, e)
           all == q \o e
           m == Len(q)
           T == 1..(n + 1)
<1>1. q \in Seq(T) /\ e \in Seq(T) /\ Len(e) = 1 /\ e[1] = n + 1
  <2>1. 1..n \subseteq 1..(n + 1)
    OBVIOUS
  <2> QED BY <2>1, SeqMonotonic
<1>2. m \in Nat /\ (m # 0 => q # <<>>)
  BY LenProperties
<1> HIDE DEF e, T, s, all, m
<1>3. \A i \in 1..(m + 1) : all[i] = IF i <= m THEN q[i] ELSE e[i - m]
  <2>1. \A i \in 1..(Len(q) + Len(e)) : all[i] = IF i <= Len(q) THEN q[i] ELSE e[i - Len(q)]
    BY <1>1, ConcatProperties, Zenon DEF all
  <2> QED BY <2>1, <1>1 DEF m
<1>4. /\ s \in Seq(T) /\ Len(s) \in Nat /\ Len(s) <= MaxStored /\ Len(s) # 0
      /\ \A i \in 1..Len(s) : s[i] = all[i + (m + 1) - Len(s)]
  <2>1. /\ s \in Seq(T) /\ Len(s) \in Nat /\ Len(s) <= MaxStored
        /\ Len(q) + Len(e) # 0 => Len(s) # 0
        /\ \A i \in 1..Len(s) : s[i] = all[i + (Len(q) + Len(e)) - Len(s)]
    BY <1>1, StoredIsSuffix, Zenon DEF s, all
  <2> QED BY <2>1, <1>1, <1>2 DEF m
<1>5. \A i \in 1..(Len(s) - 1) : \E k \in 1..m : s[i] = all[k] /\ s[i + 1] = all[k + 1]
  <2>1. NeighboursOf(s, all) /\ Len(all) = Len(q) + Len(e)
    BY <1>1, StoredNeighbours, Zenon DEF s, all
  <2>2. Len(all) - 1 = m
    BY <2>1, <1>1, <1>2 DEF m
  <2> QED BY <2>1, <2>2 DEF NeighboursOf
<1>6. \A i \in 1..(m - 1) : q[i + 1] = q[i] + 1
  BY DEF m
<1>7. m # 0 => q[m] = n
  BY <1>2 DEF m
<1>8. \A k \in 1..m : all[k + 1] = all[k] + 1
  <2> TAKE k \in 1..m
  <2>1. CASE k < m
    BY <2>1, <1>2, <1>3, <1>6
  <2>2. CASE k = m
    <3>1. all[m + 1] = e[1] /\ all[m] = q[m]
      BY <2>2, <1>2, <1>3
    <3> QED BY <2>2, <3>1, <1>1, <1>2, <1>7
  <2> QED BY <2>1, <2>2, <1>2
<1>9. \A i \in 1..(Len(s) - 1) : s[i + 1] = s[i] + 1
  BY <1>5, <1>8
<1>10. s[Len(s)] = n + 1
  <2>1. Len(s) \in 1..Len(s) /\ Len(s) + (m + 1) - Len(s) = m + 1
    BY <1>2, <1>4
  <2>2. s[Len(s)] = all[Len(s) + (m + 1) - Len(s)]
    BY <2>1, <1>4
  <2>3. all[m + 1] = e[1]
    BY <1>2, <1>3
  <2> QED BY <2>1, <2>2, <2>3, <1>1
<1> QED BY <1>4, <1>9, <1>10 DEF s, e, T

\* The PELs of function 64 are followed by their successor or by the first one.
LEMMA StoredPels ==
  ASSUME NEW n \in Nat, NEW q \in Seq(1..n),
         \A i \in 1..(Len(q) - 1) : q[i + 1] \in {q[i] + 1, 1}
  PROVE  LET s == Stored(q, [i \in 1..n |-> i])
         IN  /\ s \in Seq(1..n) /\ Len(s) <= MaxStored
             /\ \A i \in 1..(Len(s) - 1) : s[i + 1] \in {s[i] + 1, 1}
<1> DEFINE e == [i \in 1..n |-> i]
           s == Stored(q, e)
           all == q \o e
           m == Len(q)
           T == 1..n
<1>1. q \in Seq(T) /\ e \in Seq(T) /\ Len(e) = n /\ \A i \in 1..n : e[i] = i
  OBVIOUS
<1>2. m \in Nat
  BY LenProperties
<1> HIDE DEF e, T, s, all, m
<1>3. \A i \in 1..(m + n) : all[i] = IF i <= m THEN q[i] ELSE e[i - m]
  <2>1. \A i \in 1..(Len(q) + Len(e)) : all[i] = IF i <= Len(q) THEN q[i] ELSE e[i - Len(q)]
    BY <1>1, ConcatProperties, Zenon DEF all
  <2> QED BY <2>1, <1>1 DEF m
<1>4. s \in Seq(T) /\ Len(s) <= MaxStored
  BY <1>1, StoredIsSuffix, Zenon DEF s
<1>5. \A i \in 1..(Len(s) - 1) : \E k \in 1..(m + n - 1) : s[i] = all[k] /\ s[i + 1] = all[k + 1]
  <2>1. NeighboursOf(s, all) /\ Len(all) = Len(q) + Len(e)
    BY <1>1, StoredNeighbours, Zenon DEF s, all
  <2>2. Len(all) - 1 = m + n - 1
    BY <2>1, <1>1 DEF m
  <2> TAKE i \in 1..(Len(s) - 1)
  <2>3. PICK k \in 1..(Len(all) - 1) : s[i] = all[k] /\ s[i + 1] = all[k + 1]
    BY <2>1, Zenon DEF NeighboursOf
  <2> QED BY <2>2, <2>3
<1>6. \A i \in 1..(m - 1) : q[i + 1] \in {q[i] + 1, 1}
  BY DEF m
<1>7. \A k \in 1..(m + n - 1) : all[k + 1] \in {all[k] + 1, 1}
  <2> TAKE k \in 1..(m + n - 1)
  <2>1. CASE k < m
    <3>1. all[k + 1] = q[k + 1] /\ all[k] = q[k]
      BY <2>1, <1>2, <1>3
    <3>2. k \in 1..(m - 1)
      BY <2>1, <1>2
    <3> QED BY <3>1, <3>2, <1>6
  <2>2. CASE k = m
    <3>1. all[k + 1] = e[1]
      BY <2>2, <1>2, <1>3
    <3>2. 1 \in 1..n
      BY <2>2, <1>2
    <3> QED BY <3>1, <3>2, <1>1
  <2>3. CASE k > m
    <3>1. all[k + 1] = e[k + 1 - m] /\ all[k] = e[k - m]
      BY <2>3, <1>2, <1>3
    <3>2. k + 1 - m \in 1..n /\ k - m \in 1..n
      BY <2>3, <1>2
    <3> QED BY <3>1, <3>2, <1>1, <1>2
  <2> QED BY <2>1, <2>2, <2>3, <1>2
<1>8. \A i \in 1..(Len(s) - 1) : s[i + 1] \in {s[i] + 1, 1}
  BY <1>5, <1>7
<1> QED BY <1>4, <1>8 DEF s, e, T
-----------------------------------------------------------------------------
\* The ways in which sending a function can end.
LEMMA EndsTypes == Ends \subseteq {"threw", "sent", "reported", "unreported", "ended"}
<1>1. \A succeed : CreatePEL(succeed) \in {"reported", "unreported", "ended"}
  BY Zenon DEF CreatePEL
<1> QED BY <1>1 DEF Ends, SendPanelFunctionToPhyp

LEMMA InitEstablishes == Init => ExecutorIndInv
<1> SUFFICES ASSUME Init PROVE ExecutorIndInv
  OBVIOUS
<1>1. pelEventIdQueue = <<>> /\ iplSrcs = <<>> /\ pels \in 0..MaxPels /\ codes = 0
  BY DEF Init
<1>2. ExecutorTypeOK
  <2>1. NoStatus \in Statuses /\ NoSend \in Sends /\ LatestPel \in Srcs
    BY ExecutorAssumption, <1>1 DEF NoStatus, NoSend, LatestPel, Srcs, DataOf, Statuses, Sends,
      NoSrc, Src, Results
  <2>2. pelEventIdQueue \in Seq(1..pels) /\ Len(pelEventIdQueue) <= MaxStored
        /\ iplSrcs \in Seq(1..codes) /\ Len(iplSrcs) <= MaxStored
    BY <1>1, ExecutorAssumption
  <2>3. executions \in 0..MaxExecutions /\ expired \in 0..executions /\ codes \in 0..MaxCodes
    BY ExecutorAssumption DEF Init
  <2>4. /\ acfWindowActive \in BOOLEAN /\ timerArmed \in BOOLEAN /\ openedBy74 \in BOOLEAN
        /\ isExternallyTriggered \in BOOLEAN /\ pels \in 0..MaxPels
    BY DEF Init
  <2>5. executionStatus \in Statuses /\ shown \in Statuses /\ lastSend \in Sends
        /\ latestSrcAndHexwords \in Srcs
    BY <2>1 DEF Init
  <2> QED BY <2>2, <2>3, <2>4, <2>5 DEF ExecutorTypeOK
<1>3. QueuesInOrder
  BY <1>1 DEF QueuesInOrder
<1>4. FailureMeansNotSent
  BY DEF Init, FailureMeansNotSent, NoSend, NoStatus, DataOf
<1>5. ~isExternallyTriggered /\ WindowHasTimer /\ TimerBound
  BY DEF Init, WindowHasTimer, TimerBound
<1> QED BY <1>2, <1>3, <1>4, <1>5 DEF ExecutorIndInv, ExecutorInv

\* What a function shows has the type of a status.
LEMMA StatusTypes ==
  ASSUME ExecutorTypeOK
  PROVE  /\ \A f \in Nat, result \in Results : Status(f, result) \in Statuses
         /\ \A src \in Srcs : DataOf(src) \in Statuses
         /\ NoSrc \in Srcs /\ NoStatus \in Statuses /\ NoSend \in Sends /\ LatestPel \in Srcs
<1>1. NoSrc \in Srcs
  BY DEF Srcs
<1>2. \A src \in Srcs : DataOf(src) \in Statuses
  BY DEF DataOf, Statuses, Results
<1>3. \A f \in Nat, result \in Results : Status(f, result) \in Statuses
  BY <1>1 DEF Status, Statuses
<1>4. NoStatus \in Statuses
  BY <1>1, <1>2 DEF NoStatus
<1>5. NoSend \in Sends
  BY <1>4 DEF NoSend, Sends
<1>6. LatestPel \in Srcs
  BY ExecutorAssumption DEF LatestPel, Srcs, ExecutorTypeOK
<1> QED BY <1>1, <1>2, <1>3, <1>4, <1>5, <1>6

\* A new process has lost the window, its timers and the stored entries.
LEMMA RestartKeepsInv ==
  ASSUME ExecutorIndInv, Restarted, lastSend' = NoSend, codes' \in 0..MaxCodes
  PROVE  ExecutorIndInv'
<1>1. pelEventIdQueue' = <<>> /\ iplSrcs' = <<>> /\ pels' = pels /\ executions' = executions
  BY DEF Restarted
<1>2. ExecutorTypeOK'
  <2>1. NoStatus \in Statuses /\ NoSend \in Sends /\ LatestPel \in Srcs
    BY StatusTypes DEF ExecutorIndInv, ExecutorInv
  <2>2. <<>> \in Seq(1..pels) /\ <<>> \in Seq(1..codes') /\ Len(<<>>) <= MaxStored
    BY ExecutorAssumption
  <2>3. pelEventIdQueue' \in Seq(1..pels') /\ Len(pelEventIdQueue') <= MaxStored
        /\ iplSrcs' \in Seq(1..codes') /\ Len(iplSrcs') <= MaxStored
    BY <1>1, <2>2
  <2>4. expired' \in 0..executions' /\ executions' \in 0..MaxExecutions
    BY <1>1 DEF Restarted, ExecutorIndInv, ExecutorInv, ExecutorTypeOK
  <2>5. shown' \in Statuses /\ executionStatus' \in Statuses /\ lastSend' \in Sends
        /\ latestSrcAndHexwords' \in Srcs
    BY <2>1 DEF Restarted
  <2>6. /\ acfWindowActive' \in BOOLEAN /\ timerArmed' \in BOOLEAN /\ openedBy74' \in BOOLEAN
        /\ isExternallyTriggered' \in BOOLEAN /\ pels' \in 0..MaxPels
    BY <1>1 DEF Restarted, ExecutorIndInv, ExecutorInv, ExecutorTypeOK
  <2> QED BY <2>3, <2>4, <2>5, <2>6 DEF ExecutorTypeOK
<1>3. QueuesInOrder'
  BY <1>1 DEF QueuesInOrder
<1>4. FailureMeansNotSent'
  BY DEF FailureMeansNotSent, NoSend, NoStatus, DataOf
<1>5. ~isExternallyTriggered' /\ WindowHasTimer' /\ TimerBound'
  BY <1>1 DEF Restarted, WindowHasTimer, TimerBound, ExecutorIndInv, ExecutorInv, ExecutorTypeOK
<1> QED BY <1>2, <1>3, <1>4, <1>5 DEF ExecutorIndInv, ExecutorInv
-----------------------------------------------------------------------------
\* The invariant in two parts: the stored SRCs, and the rest.
SrcInv ==
  /\ pels \in 0..MaxPels /\ codes \in 0..MaxCodes /\ latestSrcAndHexwords \in Srcs
  /\ pelEventIdQueue \in Seq(1..pels) /\ Len(pelEventIdQueue) <= MaxStored
  /\ iplSrcs \in Seq(1..codes) /\ Len(iplSrcs) <= MaxStored
  /\ QueuesInOrder

WindowInv ==
  /\ acfWindowActive \in BOOLEAN /\ timerArmed \in BOOLEAN /\ openedBy74 \in BOOLEAN
  /\ executions \in 0..MaxExecutions /\ expired \in 0..executions
  /\ WindowHasTimer /\ TimerBound

PhypInv ==
  /\ isExternallyTriggered = FALSE /\ executionStatus \in Statuses
  /\ shown \in Statuses /\ lastSend \in Sends
  /\ FailureMeansNotSent

LEMMA PartsOfInv == ExecutorIndInv <=> SrcInv /\ WindowInv /\ PhypInv
  BY DEF ExecutorIndInv, ExecutorInv, ExecutorTypeOK, SrcInv, WindowInv, PhypInv

LEMMA PartsOfInvPrimed == ExecutorIndInv' <=> SrcInv' /\ WindowInv' /\ PhypInv'
  BY DEF ExecutorIndInv, ExecutorInv, ExecutorTypeOK, SrcInv, WindowInv, PhypInv

\* A step that leaves a part alone keeps its invariant.
LEMMA SrcVarsUnchanged == SrcInv /\ UNCHANGED srcVars => SrcInv'
  BY DEF SrcInv, srcVars, QueuesInOrder

LEMMA WindowVarsUnchanged == WindowInv /\ UNCHANGED windowVars => WindowInv'
  BY DEF WindowInv, windowVars, WindowHasTimer, TimerBound

LEMMA PhypVarsUnchanged == PhypInv /\ UNCHANGED phypVars /\ shown' \in Statuses => PhypInv'
  BY DEF PhypInv, phypVars, FailureMeansNotSent

LEMMA Types == ExecutorIndInv => ExecutorTypeOK
  BY DEF ExecutorIndInv, ExecutorInv

\* Functions for PHYP, executed at the panel.
LEMMA ExecutePhypFunctionKeepsInv ==
  ASSUME ExecutorIndInv, NEW f \in PhypFunctions, ExecutePhypFunction(f)
  PROVE  ExecutorIndInv'
<1>1. PICK end \in Ends :
        LET result == IF end = "threw" THEN "FF" ELSE "00"
        IN  \/ /\ end # "ended"
               /\ DisplayExecutionStatus(isExternallyTriggered, f, result)
               /\ lastSend' = [caller |-> "panel", end |-> end, status |-> Status(f, result)]
               /\ UNCHANGED <<windowVars, srcVars, isExternallyTriggered>>
            \/ end = "ended" /\ Restarted /\ lastSend' = NoSend /\ UNCHANGED codes
  BY Zenon DEF ExecutePhypFunction
<1>2. CASE end = "ended"
  <2>1. Restarted /\ lastSend' = NoSend /\ codes' = codes
    BY <1>1, <1>2
  <2>2. codes' \in 0..MaxCodes
    BY <2>1, PartsOfInv DEF SrcInv
  <2> QED BY <2>1, <2>2, RestartKeepsInv
<1>3. CASE end # "ended"
  <2> DEFINE result == IF end = "threw" THEN "FF" ELSE "00"
  <2>1. /\ DisplayExecutionStatus(isExternallyTriggered, f, result)
        /\ lastSend' = [caller |-> "panel", end |-> end, status |-> Status(f, result)]
        /\ UNCHANGED <<windowVars, srcVars, isExternallyTriggered>>
    BY <1>1, <1>3
  <2>2. f \in Nat /\ result \in Results /\ Status(f, result) \in Statuses
    <3>1. f \in Nat
      BY ExecutorAssumption
    <3>2. result \in Results
      BY DEF Results
    <3> QED BY <3>1, <3>2, Types, StatusTypes
  <2>3. PhypInv
    BY PartsOfInv
  <2>4. executionStatus' \in Statuses /\ shown' \in Statuses
    <3> HIDE DEF result
    <3> QED BY <2>1, <2>2, <2>3 DEF DisplayExecutionStatus, PhypInv
  <2>5. end \in {"threw", "sent", "reported", "unreported"}
    BY <1>3, EndsTypes
  <2>6. lastSend' \in Sends
    <3> HIDE DEF result
    <3> QED BY <2>1, <2>2, <2>5 DEF Sends
  <2>7. FailureMeansNotSent'
    BY <2>1, <2>5 DEF FailureMeansNotSent, Status
  <2>8. PhypInv'
    BY <2>1, <2>3, <2>4, <2>6, <2>7 DEF PhypInv
  <2>9. UNCHANGED srcVars /\ UNCHANGED windowVars
    BY <2>1
  <2> QED BY <2>8, <2>9, PartsOfInv, PartsOfInvPrimed, SrcVarsUnchanged, WindowVarsUnchanged
<1> QED BY <1>2, <1>3

\* The same for D-Bus clients: the flag is not set afterwards.
LEMMA ExecuteFunctionDirectlyKeepsInv ==
  ASSUME ExecutorIndInv, NEW f \in RemoteFunctions, ExecuteFunctionDirectly(f)
  PROVE  ExecutorIndInv'
<1>1. PICK end \in Ends :
        LET returns == end \notin {"threw", "ended"}
        IN  /\ IF returns THEN DisplayExecutionStatus(TRUE, f, "00")
               ELSE UNCHANGED <<executionStatus, shown>>
            /\ isExternallyTriggered' = FALSE
            /\ lastSend' = [caller |-> "client", end |-> end,
                            status |-> IF returns THEN executionStatus'
                                       ELSE Status(f, "InternalFailure")]
            /\ UNCHANGED <<windowVars, srcVars>>
  BY Zenon DEF ExecuteFunctionDirectly
<1>2. f \in Nat
  BY ExecutorAssumption
<1>3. Status(f, "00") \in Statuses /\ Status(f, "InternalFailure") \in Statuses
  <2>1. "00" \in Results /\ "InternalFailure" \in Results
    BY DEF Results
  <2> QED BY <1>2, <2>1, Types, StatusTypes
<1>4. PhypInv
  BY PartsOfInv
<1>5. ASSUME end \notin {"threw", "ended"} PROVE PhypInv'
  <2>1. end \in {"sent", "reported", "unreported"}
    BY <1>5, EndsTypes
  <2>2. /\ executionStatus' = Status(f, "00") /\ shown' = shown /\ isExternallyTriggered' = FALSE
        /\ lastSend' = [caller |-> "client", end |-> end, status |-> Status(f, "00")]
    BY <1>1, <1>5 DEF DisplayExecutionStatus
  <2>3. lastSend' \in Sends /\ FailureMeansNotSent'
    BY <2>1, <2>2, <1>3 DEF Sends, FailureMeansNotSent, Status
  <2> QED BY <1>3, <1>4, <2>2, <2>3 DEF PhypInv
<1>6. ASSUME end \in {"threw", "ended"} PROVE PhypInv'
  <2>1. /\ executionStatus' = executionStatus /\ shown' = shown /\ isExternallyTriggered' = FALSE
        /\ lastSend' = [caller |-> "client", end |-> end, status |-> Status(f, "InternalFailure")]
    BY <1>1, <1>6
  <2>2. lastSend' \in Sends /\ FailureMeansNotSent'
    BY <2>1, <1>3, <1>6 DEF Sends, FailureMeansNotSent, Status
  <2> QED BY <1>4, <2>1, <2>2 DEF PhypInv
<1>7. PhypInv'
  BY <1>5, <1>6
<1>8. UNCHANGED srcVars /\ UNCHANGED windowVars
  BY <1>1
<1> QED BY <1>7, <1>8, PartsOfInv, PartsOfInvPrimed, SrcVarsUnchanged, WindowVarsUnchanged
\* Function 74, its timer and the clients that write the property.
LEMMA Execute74KeepsInv == ExecutorIndInv /\ Execute74 => ExecutorIndInv'
<1> SUFFICES ASSUME ExecutorIndInv, Execute74 PROVE ExecutorIndInv'
  OBVIOUS
<1>1. WindowInv /\ PhypInv /\ executions < MaxExecutions /\ executions' = executions + 1
  BY PartsOfInv DEF Execute74
<1>2. UNCHANGED <<expired, srcVars, isExternallyTriggered, lastSend>>
  BY DEF Execute74
<1>3. WindowInv'
  <2> USE ExecutorAssumption
  <2>1. CASE timerArmed /\ UNCHANGED <<timerArmed, acfWindowActive, openedBy74>>
    BY <1>1, <1>2, <2>1 DEF WindowInv, WindowHasTimer, TimerBound
  <2>2. CASE ~timerArmed /\ timerArmed' = TRUE /\ acfWindowActive' = TRUE /\ openedBy74' = TRUE
    BY <1>1, <1>2, <2>2 DEF WindowInv, WindowHasTimer, TimerBound
  <2>3. CASE ~timerArmed /\ UNCHANGED <<timerArmed, acfWindowActive, openedBy74>>
    BY <1>1, <1>2, <2>3 DEF WindowInv, WindowHasTimer, TimerBound
  <2> QED BY <2>1, <2>2, <2>3 DEF Execute74
<1>4. PhypInv'
  <2>1. PICK result \in {"00", "FF"} : DisplayExecutionStatus(isExternallyTriggered, 74, result)
    BY DEF Execute74
  <2>2. Status(74, result) \in Statuses
    <3>1. result \in Results
      BY <2>1 DEF Results
    <3> QED BY <3>1, Types, StatusTypes
  <2>3. executionStatus' \in Statuses /\ shown' \in Statuses
    BY <1>1, <2>1, <2>2 DEF DisplayExecutionStatus, PhypInv
  <2> QED BY <1>1, <1>2, <2>3 DEF PhypInv, FailureMeansNotSent
<1>5. UNCHANGED srcVars
  BY <1>2
<1> QED BY <1>3, <1>4, <1>5, PartsOfInv, PartsOfInvPrimed, SrcVarsUnchanged

LEMMA TimerKeepsInv ==
  ASSUME ExecutorIndInv,
         TimerExpires \/ CloseWindow \/ (\E value \in BOOLEAN : WriteACFWindowActive(value))
  PROVE  ExecutorIndInv'
<1>1. WindowInv /\ PhypInv /\ SrcInv
  BY PartsOfInv
<1>2. UNCHANGED <<executions, phypVars, srcVars, shown>>
  BY DEF TimerExpires, CloseWindow, WriteACFWindowActive
<1>3. WindowInv'
  <2>0. executions \in Nat /\ executions' = executions /\ expired \in Nat
        /\ expired + (IF timerArmed THEN 1 ELSE 0) <= executions
    BY <1>1, <1>2, ExecutorAssumption DEF WindowInv, TimerBound
  <2>1. CASE TimerExpires
    <3>1. /\ timerArmed /\ timerArmed' = FALSE /\ expired' = expired + 1
          /\ UNCHANGED <<acfWindowActive, openedBy74>>
      BY <2>1 DEF TimerExpires
    <3>2. expired' \in 1..executions /\ TimerBound'
      BY <2>0, <3>1 DEF TimerBound
    <3>3. WindowHasTimer'
      BY <1>1, <3>1, <3>2 DEF WindowInv, WindowHasTimer
    <3>4. /\ acfWindowActive' \in BOOLEAN /\ timerArmed' \in BOOLEAN /\ openedBy74' \in BOOLEAN
          /\ executions' \in 0..MaxExecutions
      BY <1>1, <2>0, <3>1 DEF WindowInv
    <3>5. expired' \in 0..executions'
      BY <2>0, <3>2
    <3> QED BY <3>2, <3>3, <3>4, <3>5 DEF WindowInv
  <2>2. CASE CloseWindow
    <3>1. /\ expired > 0 /\ expired' = expired - 1 /\ timerArmed' = timerArmed
          /\ acfWindowActive' = FALSE /\ openedBy74' = FALSE
      BY <2>2 DEF CloseWindow
    <3>2. expired' \in 0..executions /\ TimerBound'
      BY <2>0, <3>1 DEF TimerBound
    <3>3. WindowHasTimer'
      BY <3>1 DEF WindowHasTimer
    <3> QED BY <1>1, <2>0, <3>1, <3>2, <3>3 DEF WindowInv
  <2>3. CASE \E value \in BOOLEAN : WriteACFWindowActive(value)
    <3>1. /\ acfWindowActive' \in BOOLEAN /\ openedBy74' = FALSE
          /\ UNCHANGED <<timerArmed, expired>>
      BY <2>3 DEF WriteACFWindowActive
    <3>2. TimerBound' /\ WindowHasTimer'
      BY <2>0, <3>1 DEF TimerBound, WindowHasTimer
    <3> QED BY <1>1, <2>0, <3>1, <3>2 DEF WindowInv
  <2> QED BY <2>1, <2>2, <2>3
<1>4. PhypInv' /\ SrcInv'
  <2>1. shown' \in Statuses
    BY <1>1, <1>2 DEF PhypInv
  <2> QED BY <1>1, <1>2, <2>1, PhypVarsUnchanged, SrcVarsUnchanged
<1> QED BY <1>3, <1>4, PartsOfInvPrimed

\* The events that store SRCs.
LEMMA PelCreatedKeepsInv == ExecutorIndInv /\ PelCreated => ExecutorIndInv'
<1> SUFFICES ASSUME ExecutorIndInv, PelCreated PROVE ExecutorIndInv'
  OBVIOUS
<1>1. WindowInv /\ PhypInv /\ SrcInv
  BY PartsOfInv
<1>2. /\ pels' = pels + 1 /\ pels < MaxPels /\ latestSrcAndHexwords' = Src("pel", pels + 1)
      /\ UNCHANGED <<windowVars, phypVars, codes, pelEventIdQueue, iplSrcs, shown>>
  BY DEF PelCreated
<1>3. pels' \in 1..MaxPels /\ 1..pels \subseteq 1..pels'
  BY <1>1, <1>2, ExecutorAssumption DEF SrcInv
<1>4. pelEventIdQueue' \in Seq(1..pels')
  BY <1>1, <1>2, <1>3, SeqMonotonic DEF SrcInv
<1>5. latestSrcAndHexwords' \in Srcs
  BY <1>2, <1>3 DEF Srcs
<1>6. SrcInv'
  BY <1>1, <1>2, <1>3, <1>4, <1>5 DEF SrcInv, QueuesInOrder
<1>7. shown' \in Statuses
  BY <1>1, <1>2 DEF PhypInv
<1> QED BY <1>1, <1>2, <1>6, <1>7, PartsOfInvPrimed, WindowVarsUnchanged, PhypVarsUnchanged

LEMMA GetPelEventIdCountKeepsInv == ExecutorIndInv /\ GetPelEventIdCount => ExecutorIndInv'
<1> SUFFICES ASSUME ExecutorIndInv, GetPelEventIdCount PROVE ExecutorIndInv'
  OBVIOUS
<1>1. WindowInv /\ PhypInv /\ SrcInv
  BY PartsOfInv
<1>2. /\ pelEventIdQueue' = Stored(pelEventIdQueue, [i \in 1..pels |-> i])
      /\ latestSrcAndHexwords' = IF pels = 0 THEN latestSrcAndHexwords ELSE LatestPel
      /\ UNCHANGED <<windowVars, phypVars, pels, codes, iplSrcs, shown>>
  BY DEF GetPelEventIdCount
<1>3. pels \in Nat /\ pelEventIdQueue \in Seq(1..pels)
  BY <1>1, ExecutorAssumption DEF SrcInv
<1>4. \A i \in 1..(Len(pelEventIdQueue) - 1) :
        pelEventIdQueue[i + 1] \in {pelEventIdQueue[i] + 1, 1}
  BY <1>1 DEF SrcInv, QueuesInOrder
<1>5. /\ pelEventIdQueue' \in Seq(1..pels) /\ Len(pelEventIdQueue') <= MaxStored
      /\ \A i \in 1..(Len(pelEventIdQueue') - 1) :
           pelEventIdQueue'[i + 1] \in {pelEventIdQueue'[i] + 1, 1}
  BY <1>2, <1>3, <1>4, StoredPels
<1>6. latestSrcAndHexwords' \in Srcs
  BY <1>1, <1>2, Types, StatusTypes DEF SrcInv
<1>7. SrcInv'
  BY <1>1, <1>2, <1>5, <1>6 DEF SrcInv, QueuesInOrder
<1>8. shown' \in Statuses
  BY <1>1, <1>2 DEF PhypInv
<1> QED BY <1>1, <1>2, <1>7, <1>8, PartsOfInvPrimed, WindowVarsUnchanged, PhypVarsUnchanged

LEMMA ProgressCodeKeepsInv == ExecutorIndInv /\ ProgressCodeCallBack => ExecutorIndInv'
<1> SUFFICES ASSUME ExecutorIndInv, ProgressCodeCallBack PROVE ExecutorIndInv'
  OBVIOUS
<1>1. WindowInv /\ PhypInv /\ SrcInv /\ codes' = codes + 1 /\ codes < MaxCodes
  BY PartsOfInv DEF ProgressCodeCallBack
<1>2. codes' \in 1..MaxCodes /\ codes \in Nat
  BY <1>1, ExecutorAssumption DEF SrcInv
<1>3. CASE Restarted /\ lastSend' = NoSend
  BY <1>2, <1>3, RestartKeepsInv
<1>4. ASSUME shown' = DataOf(Src("code", codes')),
             iplSrcs' = Stored(iplSrcs, <<codes'>>),
             latestSrcAndHexwords' \in {Src("code", codes'), latestSrcAndHexwords},
             UNCHANGED <<windowVars, phypVars, pels, pelEventIdQueue>>
      PROVE  ExecutorIndInv'
  <2>1. Src("code", codes') \in Srcs
    BY <1>2 DEF Srcs
  <2>2. /\ iplSrcs \in Seq(1..codes)
        /\ \A i \in 1..(Len(iplSrcs) - 1) : iplSrcs[i + 1] = iplSrcs[i] + 1
        /\ iplSrcs # <<>> => iplSrcs[Len(iplSrcs)] = codes
    BY <1>1 DEF SrcInv, QueuesInOrder
  <2>3. /\ iplSrcs' \in Seq(1..codes') /\ Len(iplSrcs') <= MaxStored
        /\ \A i \in 1..(Len(iplSrcs') - 1) : iplSrcs'[i + 1] = iplSrcs'[i] + 1
        /\ iplSrcs' # <<>> => iplSrcs'[Len(iplSrcs')] = codes'
    BY <1>1, <1>2, <1>4, <2>2, StoredCodes
  <2>4. latestSrcAndHexwords' \in Srcs
    BY <1>1, <1>4, <2>1 DEF SrcInv
  <2>5. SrcInv'
    BY <1>1, <1>2, <1>4, <2>3, <2>4 DEF SrcInv, QueuesInOrder
  <2>6. shown' \in Statuses
    BY <1>4, <2>1, Types, StatusTypes
  <2> QED BY <1>1, <1>4, <2>5, <2>6, PartsOfInvPrimed, WindowVarsUnchanged, PhypVarsUnchanged
<1> QED BY <1>3, <1>4 DEF ProgressCodeCallBack

\* The functions that show what is stored.
LEMMA ShowKeepsInv ==
  ASSUME ExecutorIndInv,
         \/ \E f \in 11..13 : Execute11to13(f)
         \/ \E sub \in 0..(MaxStored - 1) : Execute63(sub) \/ Execute64(sub)
  PROVE  ExecutorIndInv'
<1>1. WindowInv /\ PhypInv /\ SrcInv
  BY PartsOfInv
<1>2. UNCHANGED <<windowVars, phypVars, srcVars>>
  BY DEF Execute11to13, Execute63, Execute64, ExecuteStored
<1>3. shown' \in Statuses
  <2>1. CASE \E f \in 11..13 : Execute11to13(f)
    BY <1>1, <2>1, Types, StatusTypes DEF Execute11to13, SrcInv
  <2>2. ASSUME NEW sub \in 0..(MaxStored - 1), Execute63(sub) PROVE shown' \in Statuses
    <3>1. CASE shown' = DataOf(NoSrc)
      BY <3>1, Types, StatusTypes
    <3>2. CASE sub < Len(iplSrcs) /\ shown' = DataOf(Src("code", iplSrcs[sub + 1]))
      <4>1. iplSrcs \in Seq(1..codes) /\ codes \in 0..MaxCodes /\ sub + 1 \in 1..Len(iplSrcs)
        BY <1>1, <3>2, ExecutorAssumption DEF SrcInv
      <4>2. iplSrcs[sub + 1] \in 1..codes
        BY <4>1, ElementOfSeq, Zenon
      <4>3. Src("code", iplSrcs[sub + 1]) \in Srcs
        BY <4>1, <4>2, ExecutorAssumption DEF Srcs
      <4> QED BY <3>2, <4>3, Types, StatusTypes
    <3> QED BY <2>2, <3>1, <3>2 DEF Execute63, ExecuteStored
  <2>3. ASSUME NEW sub \in 0..(MaxStored - 1), Execute64(sub) PROVE shown' \in Statuses
    <3>1. CASE shown' = DataOf(NoSrc)
      BY <3>1, Types, StatusTypes
    <3>2. CASE sub < Len(pelEventIdQueue) /\ shown' = DataOf(Src("pel", pelEventIdQueue[sub + 1]))
      <4>1. /\ pelEventIdQueue \in Seq(1..pels) /\ pels \in 0..MaxPels
            /\ sub + 1 \in 1..Len(pelEventIdQueue)
        BY <1>1, <3>2, ExecutorAssumption DEF SrcInv
      <4>2. pelEventIdQueue[sub + 1] \in 1..pels
        BY <4>1, ElementOfSeq, Zenon
      <4>3. Src("pel", pelEventIdQueue[sub + 1]) \in Srcs
        BY <4>1, <4>2, ExecutorAssumption DEF Srcs
      <4> QED BY <3>2, <4>3, Types, StatusTypes
    <3> QED BY <2>3, <3>1, <3>2 DEF Execute64, ExecuteStored
  <2> QED BY <2>1, <2>2, <2>3
<1> QED BY <1>1, <1>2, <1>3, PartsOfInvPrimed, SrcVarsUnchanged, WindowVarsUnchanged,
           PhypVarsUnchanged

LEMMA StutterKeepsInv == ExecutorIndInv /\ UNCHANGED vars => ExecutorIndInv'
<1> SUFFICES ASSUME ExecutorIndInv, UNCHANGED vars PROVE ExecutorIndInv'
  OBVIOUS
<1>1. WindowInv /\ PhypInv /\ SrcInv
  BY PartsOfInv
<1>2. UNCHANGED windowVars /\ UNCHANGED phypVars /\ UNCHANGED srcVars /\ shown' = shown
  BY DEF vars
<1>3. shown' \in Statuses
  BY <1>1, <1>2 DEF PhypInv
<1> QED BY <1>1, <1>2, <1>3, PartsOfInvPrimed, SrcVarsUnchanged, WindowVarsUnchanged,
           PhypVarsUnchanged

LEMMA NextKeepsInv == ExecutorIndInv /\ [Next]_vars => ExecutorIndInv'
<1> SUFFICES ASSUME ExecutorIndInv, [Next]_vars PROVE ExecutorIndInv'
  OBVIOUS
<1>1. CASE \E f \in PhypFunctions : ExecutePhypFunction(f)
  BY <1>1, ExecutePhypFunctionKeepsInv
<1>2. CASE \E f \in RemoteFunctions : ExecuteFunctionDirectly(f)
  BY <1>2, ExecuteFunctionDirectlyKeepsInv
<1>3. CASE Execute74
  BY <1>3, Execute74KeepsInv
<1>4. CASE TimerExpires \/ CloseWindow \/ (\E value \in BOOLEAN : WriteACFWindowActive(value))
  BY <1>4, TimerKeepsInv
<1>5. CASE PelCreated
  BY <1>5, PelCreatedKeepsInv
<1>6. CASE GetPelEventIdCount
  BY <1>6, GetPelEventIdCountKeepsInv
<1>7. CASE ProgressCodeCallBack
  BY <1>7, ProgressCodeKeepsInv
<1>8. CASE \/ \E f \in 11..13 : Execute11to13(f)
           \/ \E sub \in 0..(MaxStored - 1) : Execute63(sub) \/ Execute64(sub)
  BY <1>8, ShowKeepsInv
<1>9. CASE UNCHANGED vars
  BY <1>9, StutterKeepsInv
<1> QED BY <1>1, <1>2, <1>3, <1>4, <1>5, <1>6, <1>7, <1>8, <1>9, Zenon DEF Next

\* Between two callbacks no external request is left over, a window that function
\* 74 opened has a timer, no status is wrong about a failure, and functions 63 and
\* 64 count through their entries in order.
THEOREM ExecutorInvariance == Spec => []ExecutorInv
<1>1. ExecutorIndInv => ExecutorInv
  BY DEF ExecutorIndInv
<1> QED BY <1>1, InitEstablishes, NextKeepsInv, PTL DEF Spec

\* The status of a function goes to the one who asked for it.
THEOREM AnswersGoToCallers == Spec => AnswerGoesToCaller
<1> DEFINE Answers ==
      /\ \A f \in RemoteFunctions :
           ExecuteFunctionDirectly(f) => UNCHANGED shown /\ lastSend'.status.function = f
      /\ \A f \in PhypFunctions :
           ExecutePhypFunction(f) =>
             \/ UNCHANGED executionStatus /\ shown' = lastSend'.status
             \/ lastSend' = NoSend
<1>1. ExecutorInv => Answers
  <2> SUFFICES ASSUME ExecutorInv PROVE Answers
    OBVIOUS
  <2>1. ASSUME NEW f \in RemoteFunctions, ExecuteFunctionDirectly(f)
        PROVE  UNCHANGED shown /\ lastSend'.status.function = f
    BY <2>1 DEF ExecuteFunctionDirectly, DisplayExecutionStatus, Status
  <2>2. ASSUME NEW f \in PhypFunctions, ExecutePhypFunction(f)
        PROVE  \/ UNCHANGED executionStatus /\ shown' = lastSend'.status
               \/ lastSend' = NoSend
    BY <2>2 DEF ExecutePhypFunction, DisplayExecutionStatus, ExecutorInv
  <2> QED BY <2>1, <2>2
<1>2. ExecutorInv /\ [Next]_vars => [Answers]_vars
  BY <1>1
<1> HIDE DEF Answers
<1>3. Spec => [][Answers]_vars
  BY <1>2, ExecutorInvariance, PTL DEF Spec
<1> QED BY <1>3 DEF Answers, AnswerGoesToCaller
-----------------------------------------------------------------------------
(* How long a window of function 74 can stay open.                           *)

\* The executions that are left, the timer, and the handlers that are queued.
HandlersLeft == 3 * (MaxExecutions - executions) + 2 * (IF timerArmed THEN 1 ELSE 0) + expired

\* A window of function 74 has a timer or a handler that will close it, and no more
\* happens to it than the executions allow.
WindowIsBounded ==
  openedBy74 => (timerArmed \/ expired > 0) /\ HandlersLeft \in 1..(3 * MaxExecutions)

\* Every step either closes the window, leaves it alone, or brings its end closer: a
\* restart uses up an execution, and the timer queues the handler.
WindowStep ==
  openedBy74 => ~openedBy74' \/ UNCHANGED windowVars \/ HandlersLeft' < HandlersLeft

\* The window is bounded by the executions.
LEMMA WindowBound == ExecutorIndInv => WindowIsBounded
<1> SUFFICES ASSUME ExecutorIndInv, openedBy74
             PROVE  (timerArmed \/ expired > 0) /\ HandlersLeft \in 1..(3 * MaxExecutions)
  BY DEF WindowIsBounded
<1>1. timerArmed \/ expired > 0
  BY DEF ExecutorIndInv, ExecutorInv, WindowHasTimer
<1>2. /\ MaxExecutions \in Nat /\ executions \in 0..MaxExecutions /\ expired \in Nat
      /\ expired + (IF timerArmed THEN 1 ELSE 0) <= executions
  BY ExecutorAssumption DEF ExecutorIndInv, ExecutorInv, ExecutorTypeOK, TimerBound
<1> QED BY <1>1, <1>2 DEF HandlersLeft

\* No step of the executor makes the window longer.
LEMMA WindowCounted == ExecutorIndInv /\ [Next]_vars => WindowStep
<1> SUFFICES ASSUME ExecutorIndInv, [Next]_vars, openedBy74, openedBy74'
             PROVE  UNCHANGED windowVars \/ HandlersLeft' < HandlersLeft
  BY DEF WindowStep
<1>1. /\ MaxExecutions \in Nat /\ executions \in 0..MaxExecutions /\ expired \in Nat
  BY ExecutorAssumption DEF ExecutorIndInv, ExecutorInv, ExecutorTypeOK
<1>2. CASE Execute74
  <2>1. executions < MaxExecutions /\ executions' = executions + 1 /\ expired' = expired
    BY <1>2 DEF Execute74
  <2>2. timerArmed' = timerArmed \/ (~timerArmed /\ timerArmed')
    BY <1>2 DEF Execute74
  <2> QED BY <1>1, <2>1, <2>2 DEF HandlersLeft
<1>3. CASE TimerExpires
  <2>1. timerArmed /\ ~timerArmed' /\ expired' = expired + 1 /\ executions' = executions
    BY <1>3 DEF TimerExpires
  <2> QED BY <1>1, <2>1 DEF HandlersLeft
<1>4. ~CloseWindow /\ ~Restarted /\ \A value \in BOOLEAN : ~WriteACFWindowActive(value)
  BY DEF CloseWindow, Restarted, WriteACFWindowActive
<1>5. CASE UNCHANGED vars
  BY <1>5 DEF vars
<1>6. CASE \E f \in PhypFunctions : ExecutePhypFunction(f)
  BY <1>4, <1>6 DEF ExecutePhypFunction
<1>7. CASE \E f \in RemoteFunctions : ExecuteFunctionDirectly(f)
  BY <1>7 DEF ExecuteFunctionDirectly
<1>8. CASE PelCreated \/ GetPelEventIdCount \/ ProgressCodeCallBack
  BY <1>4, <1>8 DEF PelCreated, GetPelEventIdCount, ProgressCodeCallBack
<1>9. CASE \/ \E f \in 11..13 : Execute11to13(f)
           \/ \E sub \in 0..(MaxStored - 1) : Execute63(sub) \/ Execute64(sub)
  BY <1>9 DEF Execute11to13, Execute63, Execute64, ExecuteStored
<1> QED BY <1>2, <1>3, <1>4, <1>5, <1>6, <1>7, <1>8, <1>9 DEF Next

\* The safety of WindowCloses, for any number of executions: an open window of function
\* 74 has its timer or handler, and no interleaving of restarts, failures, clients and
\* the timer takes more than three steps per execution before it is closed, whatever
\* else the executor does meanwhile. That the timer runs out is the fairness.
THEOREM WindowEnds == Spec => []WindowIsBounded /\ [][WindowStep]_vars
<1>1. Spec => []ExecutorIndInv
  BY InitEstablishes, NextKeepsInv, PTL DEF Spec
<1>2. ExecutorIndInv => WindowIsBounded
  BY WindowBound
<1>3. ExecutorIndInv /\ [Next]_vars => WindowStep
  BY WindowCounted
<1> QED BY <1>1, <1>2, <1>3, PTL DEF Spec
=============================================================================
