------------------------- MODULE PelListenerProofs -------------------------
(* The safety properties of PelListener and the refinement of FunctionAccess, *)
(* for every set of kinds of PELs and every number of them.                   *)
EXTENDS PelListener, SequenceTheorems, WellFoundedInduction, TLAPS

\* The signal s waits in the queue q.
InQueue(q, s) == \E i \in 1..Len(q) : q[i] = s
AddedSignal(p) == [pel |-> p, added |-> TRUE]
RemovedSignal(p) == [pel |-> p, added |-> FALSE]

\* Of two PELs that exist the older one is signalled first.
AddedInOrder ==
  \A i \in 1..Len(signals) : signals[i].added =>
    \A p \in pels : p > signals[i].pel =>
      \E j \in (i + 1)..Len(signals) : signals[j] = AddedSignal(p)

\* What the listener knows while there are signals to handle: the newer PELs and
\* the removal of the last one are signalled.
KnowsNewest ==
  /\ lastPelObjPath \in Pels /\ kind[lastPelObjPath].serious
  /\ \A p \in SeriousPels : p > lastPelObjPath => InQueue(signals, AddedSignal(p))
  /\ \/ latestSrcAndHexwords \in {lastPelObjPath, ProgressCode}
     \/ InQueue(signals, RemovedSignal(lastPelObjPath))
     \/ /\ latestSrcAndHexwords \in Pels /\ kind[latestSrcAndHexwords].serious
        /\ InQueue(signals, AddedSignal(latestSrcAndHexwords))

AllComplete == \A p \in Pels : kind[p].serious => kind[p].complete

\* The inductive invariant.
ListenerIndInv ==
  /\ ListenerInv
  /\ AddedInOrder
  /\ ~started => ~functionStateEnabled
  /\ AllComplete /\ ~readFailed /\ functionStateEnabled => KnowsNewest

-----------------------------------------------------------------------------
\* A set of numbers that are at most n has a largest one.
LEMMA LargestExists ==
  ASSUME NEW n \in Nat, NEW S \in SUBSET (1..n), S # {}
  PROVE  \E p \in S : \A q \in S : q <= p
<1> DEFINE T == {n - p : p \in S}
<1>1. \A p \in S : n - p \in Nat
  OBVIOUS
<1>2. T \subseteq Nat /\ T # {}
  BY <1>1
<1>3. \E x \in T : \A y \in T : ~ (<<y, x>> \in OpToRel(<, Nat))
  <2> HIDE DEF T
  <2> QED BY <1>2, NatLessThanWellFounded, WFMin
<1>4. PICK x \in T : \A y \in T : ~ (<<y, x>> \in OpToRel(<, Nat))
  BY <1>3
<1>5. \A y \in T : ~ (y < x)
  BY <1>2, <1>4 DEF OpToRel
<1>6. PICK p \in S : x = n - p
  OBVIOUS
<1>7. \A q \in S : q <= p
  BY <1>5, <1>6
<1> QED BY <1>7

\* The newest of the serious PELs exists and no other is newer.
LEMMA NewestIsLargest ==
  ASSUME PelTypeOK, SeriousPels # {}
  PROVE  /\ Newest \in pels /\ Newest \in Pels /\ kind[Newest].serious
         /\ \A p \in SeriousPels : p <= Newest
<1>1. SeriousPels \in SUBSET (1..created) /\ created \in Nat /\ created <= MaxPels
  <2>1. pels \in SUBSET (1..created) /\ created \in 0..MaxPels
    BY DEF PelTypeOK
  <2>2. SeriousPels \subseteq pels
    BY DEF SeriousPels
  <2>3. created \in Nat /\ created <= MaxPels
    BY <2>1, PelAssumption
  <2> QED BY <2>1, <2>2, <2>3
<1>2. \E p \in SeriousPels : \A q \in SeriousPels : q <= p
  <2>1. SeriousPels \in SUBSET (1..created) /\ created \in Nat /\ SeriousPels # {}
    BY <1>1
  <2> QED BY <2>1, LargestExists, Zenon
<1>3. Newest \in SeriousPels /\ \A p \in SeriousPels : p <= Newest
  BY <1>2 DEF Newest
<1> QED BY <1>1, <1>3, PelAssumption DEF SeriousPels, Pels

\* A signal that is sent waits behind the others.
LEMMA QueueAppend ==
  ASSUME NEW S, NEW q \in Seq(S), NEW s \in S
  PROVE  /\ Append(q, s) \in Seq(S)
         /\ Len(q) \in Nat /\ Len(Append(q, s)) = Len(q) + 1
         /\ \A i \in 1..Len(q) : Append(q, s)[i] = q[i]
         /\ Append(q, s)[Len(q) + 1] = s
         /\ InQueue(Append(q, s), s)
         /\ \A t : InQueue(q, t) => InQueue(Append(q, s), t)
<1>1. /\ Append(q, s) \in Seq(S) /\ Len(q) \in Nat
      /\ Len(Append(q, s)) = Len(q) + 1
      /\ \A i \in 1..Len(q) : Append(q, s)[i] = q[i]
      /\ Append(q, s)[Len(q) + 1] = s
  BY AppendProperties, LenProperties
<1> QED BY <1>1 DEF InQueue

\* A signal that waits is the first one or stays when that is taken.
LEMMA QueueTail ==
  ASSUME NEW S, NEW q \in Seq(S), q # <<>>
  PROVE  /\ Tail(q) \in Seq(S) /\ Head(q) \in S /\ Head(q) = q[1]
         /\ Len(q) \in Nat /\ Len(q) >= 1 /\ Len(Tail(q)) = Len(q) - 1
         /\ \A i \in 1..Len(Tail(q)) : Tail(q)[i] = q[i + 1]
         /\ \A t : InQueue(q, t) => t = Head(q) \/ InQueue(Tail(q), t)
<1>1. /\ Tail(q) \in Seq(S) /\ Head(q) \in S /\ Len(q) \in Nat
      /\ Len(Tail(q)) = Len(q) - 1
      /\ \A i \in 1..Len(Tail(q)) : Tail(q)[i] = q[i + 1]
  BY HeadTailProperties, LenProperties
<1>2. Len(q) >= 1
  BY <1>1, EmptySeq, LenProperties
<1>3. Head(q) = q[1]
  OBVIOUS
<1>4. ASSUME NEW t, NEW i \in 1..Len(q), q[i] = t, t # Head(q)
      PROVE  InQueue(Tail(q), t)
  <2>1. i - 1 \in 1..Len(Tail(q)) /\ Tail(q)[i - 1] = q[(i - 1) + 1] /\ (i - 1) + 1 = i
    BY <1>1, <1>2, <1>3, <1>4
  <2> QED BY <2>1, <1>4 DEF InQueue
<1> QED BY <1>1, <1>2, <1>3, <1>4 DEF InQueue

-----------------------------------------------------------------------------
\* A process that starts knows of no PEL.
LEMMA ListenerInit == Init => ListenerIndInv
<1> SUFFICES ASSUME Init PROVE ListenerIndInv
  OBVIOUS
<1>1. signals \in Seq(Signals) /\ Len(signals) = 0
  BY EmptySeq DEF Init
<1>2. PelTypeOK
  BY <1>1 DEF Init, PelTypeOK
<1>3. FlagTellsFunctions /\ LastPelExistsOrIsSignalled
  BY DEF Init, FlagTellsFunctions, LastPelExistsOrIsSignalled
<1>4. AddedInOrder
  BY <1>1 DEF AddedInOrder
<1> QED BY <1>2, <1>3, <1>4 DEF Init, ListenerIndInv, ListenerInv

\* A PEL is created: its signal is the last one.
LEMMA CreatedStep == ListenerIndInv /\ PelCreated => ListenerIndInv'
<1> SUFFICES ASSUME ListenerIndInv, PelCreated PROVE ListenerIndInv'
  OBVIOUS
<1>0. \A p \in pels' : p \in Nat /\ p <= created'
  <2>1. pels \subseteq 1..created /\ created \in Nat
    BY PelAssumption DEF ListenerIndInv, ListenerInv, PelTypeOK
  <2>2. pels' = pels \cup {created + 1} /\ created' = created + 1
    BY DEF PelCreated
  <2> QED BY <2>1, <2>2
<1> USE PelAssumption DEF ListenerIndInv, ListenerInv
<1> DEFINE s == AddedSignal(created')
<1>1. /\ created' = created + 1 /\ pels' = pels \cup {created'}
      /\ signals' = Append(signals, s)
      /\ UNCHANGED <<kind, started, listenerVars, latestSrcAndHexwords, readFailed>>
  BY DEF PelCreated, Signal, AddedSignal
<1>2. created \in Nat /\ created' \in Pels /\ created' \in Nat /\ signals \in Seq(Signals) /\ s \in Signals
  BY <1>1 DEF PelCreated, PelTypeOK, Pels, Signals, AddedSignal
<1>3. /\ signals' \in Seq(Signals)
      /\ Len(signals) \in Nat /\ Len(signals') = Len(signals) + 1
      /\ \A i \in 1..Len(signals) : signals'[i] = signals[i]
      /\ signals'[Len(signals) + 1] = s
      /\ InQueue(signals', s)
      /\ \A t : InQueue(signals, t) => InQueue(signals', t)
  <2> HIDE DEF s
  <2> QED BY <1>1, <1>2, QueueAppend
<1>4. PelTypeOK'
  BY <1>1, <1>2, <1>3 DEF PelCreated, PelTypeOK, listenerVars, Pels
<1>5. FlagTellsFunctions' /\ (~started => ~functionStateEnabled)'
  BY <1>1 DEF FlagTellsFunctions, listenerVars
<1>6. LastPelExistsOrIsSignalled'
  <2>1. \/ lastPelObjPath = NoPath \/ lastPelObjPath \in pels
        \/ InQueue(signals, RemovedSignal(lastPelObjPath))
    BY DEF LastPelExistsOrIsSignalled, InQueue, RemovedSignal
  <2>2. lastPelObjPath' = lastPelObjPath
    BY <1>1 DEF listenerVars
  <2>3. \/ lastPelObjPath' = NoPath \/ lastPelObjPath' \in pels'
        \/ InQueue(signals', RemovedSignal(lastPelObjPath'))
    BY <1>1, <1>3, <2>1, <2>2
  <2> QED BY <2>3 DEF LastPelExistsOrIsSignalled, InQueue, RemovedSignal
<1>7. AddedInOrder'
  <2> SUFFICES ASSUME NEW i \in 1..Len(signals'), signals'[i].added,
                      NEW p \in pels', p > signals'[i].pel
               PROVE  \E j \in (i + 1)..Len(signals') : signals'[j] = AddedSignal(p)
    BY DEF AddedInOrder, AddedSignal
  <2>1. p \in Nat /\ p <= created'
    BY <1>0
  <2>2. CASE i = Len(signals) + 1
    <3>1. signals'[i].pel = created'
      BY <1>3, <2>2 DEF AddedSignal
    <3> QED BY <1>2, <2>1, <3>1
  <2>3. CASE i # Len(signals) + 1 /\ p = created'
    BY <1>3, <2>3
  <2>4. CASE i # Len(signals) + 1 /\ p # created'
    <3>1. i \in 1..Len(signals) /\ p \in pels /\ signals'[i] = signals[i]
      BY <1>1, <1>3, <2>4
    <3>2. PICK j \in (i + 1)..Len(signals) : signals[j] = AddedSignal(p)
      BY <3>1 DEF AddedInOrder
    <3>3. j \in (i + 1)..Len(signals') /\ signals'[j] = signals[j]
      BY <1>3, <3>1, <3>2
    <3> QED BY <3>2, <3>3
  <2> QED BY <2>2, <2>3, <2>4
<1>8. ASSUME (AllComplete /\ ~readFailed /\ functionStateEnabled)' PROVE KnowsNewest'
  <2>1. KnowsNewest /\ lastPelObjPath' = lastPelObjPath /\ kind' = kind
        /\ latestSrcAndHexwords' = latestSrcAndHexwords
    BY <1>1, <1>8 DEF AllComplete, listenerVars
  <2>2. \A p \in SeriousPels' : p = created' \/ p \in SeriousPels
    BY <1>1 DEF SeriousPels
  <2> QED BY <1>3, <2>1, <2>2 DEF KnowsNewest, AddedSignal, RemovedSignal
<1> QED BY <1>4, <1>5, <1>6, <1>7, <1>8

\* A PEL is erased: if it is the last one its removal is signalled.
LEMMA ErasedStep ==
  ASSUME ListenerIndInv, NEW p \in Pels, PelErased(p) PROVE ListenerIndInv'
<1> USE PelAssumption DEF ListenerIndInv, ListenerInv
<1> DEFINE s == RemovedSignal(p)
<1>1. /\ pels' = pels \ {p} /\ signals' = Append(signals, s)
      /\ UNCHANGED <<kind, created, started, listenerVars, latestSrcAndHexwords, readFailed>>
  BY DEF PelErased, Signal, RemovedSignal
<1>2. signals \in Seq(Signals) /\ s \in Signals
  BY <1>1 DEF PelTypeOK, Signals, RemovedSignal
<1>3. /\ signals' \in Seq(Signals)
      /\ Len(signals) \in Nat /\ Len(signals') = Len(signals) + 1
      /\ \A i \in 1..Len(signals) : signals'[i] = signals[i]
      /\ signals'[Len(signals) + 1] = s
      /\ InQueue(signals', s)
      /\ \A t : InQueue(signals, t) => InQueue(signals', t)
  <2> HIDE DEF s
  <2> QED BY <1>1, <1>2, QueueAppend
<1>4. PelTypeOK'
  BY <1>1, <1>2, <1>3 DEF PelTypeOK, listenerVars
<1>5. FlagTellsFunctions' /\ (~started => ~functionStateEnabled)'
  BY <1>1 DEF FlagTellsFunctions, listenerVars
<1>6. LastPelExistsOrIsSignalled'
  <2>1. \/ lastPelObjPath = NoPath \/ lastPelObjPath \in pels
        \/ InQueue(signals, RemovedSignal(lastPelObjPath))
    BY DEF LastPelExistsOrIsSignalled, InQueue, RemovedSignal
  <2>2. lastPelObjPath' = lastPelObjPath
    BY <1>1 DEF listenerVars
  <2>3. \/ lastPelObjPath' = NoPath \/ lastPelObjPath' \in pels'
        \/ InQueue(signals', RemovedSignal(lastPelObjPath'))
    BY <1>1, <1>3, <2>1, <2>2
  <2> QED BY <2>3 DEF LastPelExistsOrIsSignalled, InQueue, RemovedSignal
<1>7. AddedInOrder'
  <2> SUFFICES ASSUME NEW i \in 1..Len(signals'), signals'[i].added,
                      NEW q \in pels', q > signals'[i].pel
               PROVE  \E j \in (i + 1)..Len(signals') : signals'[j] = AddedSignal(q)
    BY DEF AddedInOrder, AddedSignal
  <2>1. i \in 1..Len(signals) /\ q \in pels /\ signals'[i] = signals[i]
    BY <1>1, <1>3 DEF RemovedSignal
  <2>2. PICK j \in (i + 1)..Len(signals) : signals[j] = AddedSignal(q)
    BY <2>1 DEF AddedInOrder
  <2>3. j \in (i + 1)..Len(signals') /\ signals'[j] = signals[j]
    BY <1>3, <2>1, <2>2
  <2> QED BY <2>2, <2>3
<1>8. ASSUME (AllComplete /\ ~readFailed /\ functionStateEnabled)' PROVE KnowsNewest'
  <2>1. KnowsNewest /\ lastPelObjPath' = lastPelObjPath /\ kind' = kind
        /\ latestSrcAndHexwords' = latestSrcAndHexwords
    BY <1>1, <1>8 DEF AllComplete, listenerVars
  <2>2. SeriousPels' \subseteq SeriousPels
    BY <1>1 DEF SeriousPels
  <2> QED BY <1>3, <2>1, <2>2 DEF KnowsNewest, AddedSignal, RemovedSignal
<1> QED BY <1>4, <1>5, <1>6, <1>7, <1>8

\* The functions that a PEL with that many lines enables are 11 to 13 and the call
\* outs, and 11 to 13 stay enabled.
LEMMA PelFunctionsEnabled ==
  ASSUME PelTypeOK, FlagTellsFunctions, NEW lines \in Nat, SetPelRelatedFunctionState(lines)
  PROVE  /\ functionStateEnabled' = TRUE
         /\ functionActiveState' \in SUBSET PelFunctions
         /\ 11..13 \subseteq functionActiveState'
<1> DEFINE size == (IF lines < 6 THEN lines ELSE 6) - 1
           callOuts == IF lines = 0 THEN {} ELSE 14..(13 + size)
           first == IF functionStateEnabled THEN {} ELSE 11..13
           rest == IF lines = 0 THEN functionActiveState
                   ELSE functionActiveState \ (14 + size)..19
<1>1. functionStateEnabled' = TRUE /\ functionActiveState' = rest \cup first \cup callOuts
  BY DEF SetPelRelatedFunctionState
<1>2. size \in -1..5 /\ (lines # 0 => size >= 0)
  OBVIOUS
<1>3. functionActiveState \in SUBSET PelFunctions
  BY DEF PelTypeOK
<1>4. callOuts \subseteq PelFunctions /\ first \subseteq PelFunctions /\ rest \subseteq PelFunctions
  BY <1>2, <1>3 DEF PelFunctions
<1>5. 11..13 \subseteq rest \cup first
  <2> SUFFICES ASSUME functionStateEnabled PROVE 11..13 \subseteq rest
    OBVIOUS
  <2>1. 11..13 \subseteq functionActiveState
    BY DEF FlagTellsFunctions
  <2> QED BY <1>2, <2>1
<1> HIDE DEF callOuts, first, rest
<1> QED BY <1>1, <1>4, <1>5

\* The existing PELs are listed: the newest serious one is the last one.
LEMMA ListedStep == ListenerIndInv /\ GetListOfExistingPels => ListenerIndInv'
<1> SUFFICES ASSUME ListenerIndInv, GetListOfExistingPels PROVE ListenerIndInv'
  OBVIOUS
<1> USE PelAssumption DEF ListenerIndInv, ListenerInv
<1>1. /\ ~started /\ started' = TRUE
      /\ UNCHANGED <<kind, created, pels, signals>>
  BY DEF GetListOfExistingPels, logVars
<1>2. AddedInOrder'
  BY <1>1 DEF AddedInOrder
<1>3. CASE SeriousPels # {} /\ lastPelObjPath' = Newest
  <2>1. PICK got \in SUBSET {"Resolution"} :
             /\ SetPelRelatedFunctionState(Lines(Newest, got))
             /\ readFailed' = (got = {})
             /\ latestSrcAndHexwords' = Newest
    <3>1. CASE UNCHANGED <<listenerVars, latestSrcAndHexwords>>
      <4>1. lastPelObjPath = Newest
        BY <1>3, <3>1 DEF listenerVars
      <4>2. lastPelObjPath = NoPath
        BY <1>1 DEF FlagTellsFunctions
      <4>3. Newest \in Pels
        BY <1>3, NewestIsLargest
      <4> QED BY <4>1, <4>2, <4>3 DEF Pels, NoPath
    <3> QED BY <3>1 DEF GetListOfExistingPels
  <2>2. /\ Newest \in pels /\ Newest \in Pels /\ kind[Newest].serious
        /\ \A p \in SeriousPels : p <= Newest
    BY <1>3, NewestIsLargest
  <2>3. Lines(Newest, got) \in Nat
    <3>1. kind[Newest] \in Kinds
      BY <2>2 DEF PelTypeOK
    <3> QED BY <3>1 DEF Lines
  <2>4. /\ functionStateEnabled' = TRUE
        /\ functionActiveState' \in SUBSET PelFunctions
        /\ 11..13 \subseteq functionActiveState'
    BY <2>1, <2>3, PelFunctionsEnabled
  <2>5. PelTypeOK'
    BY <1>1, <1>3, <2>1, <2>2, <2>4 DEF PelTypeOK
  <2>6. FlagTellsFunctions' /\ LastPelExistsOrIsSignalled'
    BY <1>1, <1>3, <2>2, <2>4 DEF FlagTellsFunctions, LastPelExistsOrIsSignalled
  <2>7. SeriousPels' = SeriousPels /\ \A p \in SeriousPels : p \in Nat
    BY <1>1 DEF SeriousPels, PelTypeOK
  <2>8. Newest \in Nat
    BY <2>2 DEF Pels
  <2>9. KnowsNewest'
    BY <1>1, <1>3, <2>1, <2>2, <2>7, <2>8 DEF KnowsNewest
  <2> QED BY <1>1, <1>2, <2>5, <2>6, <2>9
<1>4. CASE UNCHANGED <<listenerVars, latestSrcAndHexwords>> /\ readFailed' \in BOOLEAN
  BY <1>1, <1>2, <1>4
    DEF listenerVars, PelTypeOK, FlagTellsFunctions, LastPelExistsOrIsSignalled
<1> QED BY <1>3, <1>4 DEF GetListOfExistingPels

\* Taking the first signal keeps the order of the others.
LEMMA TakenSignal ==
  ASSUME PelTypeOK, AddedInOrder, signals # <<>>, signals' = Tail(signals), pels' = pels
  PROVE  /\ AddedInOrder'
         /\ signals' \in Seq(Signals) /\ Head(signals) \in Signals
         /\ \A t : InQueue(signals, t) => t = Head(signals) \/ InQueue(signals', t)
         /\ Head(signals).added =>
              \A p \in pels : p > Head(signals).pel => InQueue(signals', AddedSignal(p))
<1>1. signals \in Seq(Signals)
  BY DEF PelTypeOK
<1>2. /\ signals' \in Seq(Signals) /\ Head(signals) \in Signals /\ Head(signals) = signals[1]
      /\ Len(signals) \in Nat /\ Len(signals) >= 1 /\ Len(signals') = Len(signals) - 1
      /\ \A i \in 1..Len(signals') : signals'[i] = signals[i + 1]
      /\ \A t : InQueue(signals, t) => t = Head(signals) \/ InQueue(signals', t)
  BY <1>1, QueueTail
<1>3. AddedInOrder'
  <2> SUFFICES ASSUME NEW i \in 1..Len(signals'), signals'[i].added,
                      NEW p \in pels, p > signals'[i].pel
               PROVE  \E j \in (i + 1)..Len(signals') : signals'[j] = AddedSignal(p)
    BY DEF AddedInOrder, AddedSignal
  <2>1. i + 1 \in 1..Len(signals) /\ signals'[i] = signals[i + 1]
    BY <1>2
  <2>2. PICK j \in ((i + 1) + 1)..Len(signals) : signals[j] = AddedSignal(p)
    BY <2>1 DEF AddedInOrder
  <2>3. j - 1 \in (i + 1)..Len(signals') /\ j - 1 \in 1..Len(signals') /\ (j - 1) + 1 = j
    BY <1>2, <2>1, <2>2
  <2>4. signals'[j - 1] = signals[j]
    BY <1>2, <2>3
  <2> QED BY <2>2, <2>3, <2>4
<1>4. ASSUME Head(signals).added, NEW p \in pels, p > Head(signals).pel
      PROVE  InQueue(signals', AddedSignal(p))
  <2>1. PICK j \in (1 + 1)..Len(signals) : signals[j] = AddedSignal(p)
    BY <1>2, <1>4 DEF AddedInOrder
  <2>2. j - 1 \in 1..Len(signals') /\ (j - 1) + 1 = j
    BY <1>2, <2>1
  <2>3. signals'[j - 1] = AddedSignal(p)
    BY <1>2, <2>1, <2>2
  <2> QED BY <2>2, <2>3 DEF InQueue
<1> QED BY <1>2, <1>3, <1>4

\* The signal of a PEL that was created is handled.
LEMMA AddedStep ==
  ASSUME ListenerIndInv, HandleSignal, Head(signals).added
  PROVE  ListenerIndInv'
<1> USE PelAssumption DEF ListenerIndInv, ListenerInv
<1> DEFINE p == Head(signals).pel
<1>1. /\ started /\ signals # <<>> /\ signals' = Tail(signals)
      /\ PELEventCallBack(p)
      /\ UNCHANGED <<kind, created, pels, started>>
  BY DEF HandleSignal, logVars
<1>2. /\ AddedInOrder'
      /\ signals' \in Seq(Signals) /\ Head(signals) \in Signals
      /\ \A t : InQueue(signals, t) => t = Head(signals) \/ InQueue(signals', t)
      /\ \A q \in pels : q > p => InQueue(signals', AddedSignal(q))
  BY <1>1, TakenSignal
<1>3. p \in Pels /\ kind[p] \in Kinds /\ Head(signals) = AddedSignal(p)
  BY <1>2 DEF Signals, PelTypeOK, AddedSignal
<1> HIDE DEF p
<1>4. PICK got \in Reads(p) :
        /\ readFailed' = (readFailed \/ got # PelProperties)
        /\ IF "Severity" \in got /\ ~kind[p].serious
           THEN UNCHANGED <<listenerVars, latestSrcAndHexwords>>
           ELSE SetPelRelatedFunctionState(Lines(p, got)) /\ StoreLastPel(p, got)
  BY <1>1 DEF PELEventCallBack
<1>5. got # {} => p \in pels
  BY DEF Reads
<1>6. LastPelExistsOrIsSignalled <=>
        \/ lastPelObjPath = NoPath \/ lastPelObjPath \in pels
        \/ InQueue(signals, RemovedSignal(lastPelObjPath))
  BY DEF LastPelExistsOrIsSignalled, InQueue, RemovedSignal
<1>7. LastPelExistsOrIsSignalled' <=>
        \/ lastPelObjPath' = NoPath \/ lastPelObjPath' \in pels'
        \/ InQueue(signals', RemovedSignal(lastPelObjPath'))
  BY DEF LastPelExistsOrIsSignalled, InQueue, RemovedSignal
<1>8. readFailed' \in BOOLEAN
  BY <1>4 DEF PelTypeOK
<1>9. CASE "Severity" \in got /\ ~kind[p].serious
  <2>1. UNCHANGED <<listenerVars, latestSrcAndHexwords>>
    BY <1>4, <1>9
  <2>2. PelTypeOK'
    BY <1>1, <1>2, <1>8, <2>1 DEF PelTypeOK, listenerVars
  <2>3. FlagTellsFunctions' /\ LastPelExistsOrIsSignalled'
    BY <1>1, <1>2, <1>3, <1>6, <1>7, <2>1
      DEF FlagTellsFunctions, listenerVars, AddedSignal, RemovedSignal
  <2>4. ASSUME (AllComplete /\ ~readFailed /\ functionStateEnabled)' PROVE KnowsNewest'
    <3>1. KnowsNewest
      BY <1>1, <1>4, <2>1, <2>4 DEF AllComplete, listenerVars
    <3>2. \A q \in Pels : kind[q].serious /\ InQueue(signals, AddedSignal(q))
                             => InQueue(signals', AddedSignal(q))
      BY <1>2, <1>3, <1>9 DEF AddedSignal
    <3>3. \A q \in Pels : InQueue(signals, RemovedSignal(q)) => InQueue(signals', RemovedSignal(q))
      BY <1>2, <1>3 DEF AddedSignal, RemovedSignal
    <3>4. SeriousPels' = SeriousPels /\ \A q \in SeriousPels : q \in Pels /\ kind[q].serious
      BY <1>1 DEF SeriousPels, PelTypeOK, Pels
    <3> QED BY <1>1, <2>1, <3>1, <3>2, <3>3, <3>4 DEF KnowsNewest, listenerVars
  <2> QED BY <1>1, <1>2, <2>2, <2>3, <2>4
<1>10. CASE ~("Severity" \in got /\ ~kind[p].serious)
  <2>1. SetPelRelatedFunctionState(Lines(p, got)) /\ StoreLastPel(p, got)
    BY <1>4, <1>10
  <2>2. Lines(p, got) \in Nat
    BY <1>3 DEF Lines
  <2>3. /\ functionStateEnabled' = TRUE
        /\ functionActiveState' \in SUBSET PelFunctions
        /\ 11..13 \subseteq functionActiveState'
    BY <2>1, <2>2, PelFunctionsEnabled
  <2>4. FlagTellsFunctions'
    BY <2>3 DEF FlagTellsFunctions
  <2>5. CASE "EventId" \in got /\ kind[p].complete
    <3>1. lastPelObjPath' = p /\ latestSrcAndHexwords' = p /\ p \in pels
      BY <1>5, <2>1, <2>5 DEF StoreLastPel
    <3>2. PelTypeOK' /\ LastPelExistsOrIsSignalled'
      BY <1>1, <1>2, <1>3, <1>7, <1>8, <2>3, <3>1 DEF PelTypeOK
    <3>3. ASSUME (AllComplete /\ ~readFailed /\ functionStateEnabled)' PROVE KnowsNewest'
      <4>1. got = PelProperties
        BY <1>4, <3>3
      <4>2. kind[p].serious
        BY <1>10, <4>1, <1>3 DEF PelProperties
      <4>3. SeriousPels' \subseteq pels
        BY <1>1 DEF SeriousPels
      <4> QED BY <1>1, <1>2, <1>3, <3>1, <4>2, <4>3 DEF KnowsNewest
    <3> QED BY <1>1, <1>2, <2>4, <3>2, <3>3
  <2>6. CASE ~("EventId" \in got /\ kind[p].complete)
    <3>1. UNCHANGED <<lastPelObjPath, latestSrcAndHexwords>>
      BY <2>1, <2>6 DEF StoreLastPel
    <3>2. PelTypeOK' /\ LastPelExistsOrIsSignalled'
      BY <1>1, <1>2, <1>3, <1>6, <1>7, <1>8, <2>3, <3>1
        DEF PelTypeOK, AddedSignal, RemovedSignal
    <3>3. ASSUME (AllComplete /\ ~readFailed /\ functionStateEnabled)' PROVE FALSE
      <4>1. got = PelProperties
        BY <1>4, <3>3
      <4>2. kind[p].serious /\ ~kind[p].complete
        BY <1>10, <2>6, <4>1, <1>3 DEF PelProperties
      <4> QED BY <1>1, <1>3, <3>3, <4>2 DEF AllComplete
    <3> QED BY <1>1, <1>2, <2>4, <3>2, <3>3
  <2> QED BY <2>5, <2>6
<1> QED BY <1>9, <1>10

\* The signal of a PEL that was erased is handled.
LEMMA RemovedStep ==
  ASSUME ListenerIndInv, HandleSignal, ~Head(signals).added
  PROVE  ListenerIndInv'
<1> USE PelAssumption DEF ListenerIndInv, ListenerInv
<1> DEFINE p == Head(signals).pel
<1>1. /\ started /\ signals # <<>> /\ signals' = Tail(signals)
      /\ PELDeleteEventCallBack(p)
      /\ UNCHANGED <<kind, created, pels, started>>
  BY DEF HandleSignal, logVars
<1>2. /\ AddedInOrder'
      /\ signals' \in Seq(Signals) /\ Head(signals) \in Signals
      /\ \A t : InQueue(signals, t) => t = Head(signals) \/ InQueue(signals', t)
  BY <1>1, TakenSignal
<1>3. p \in Pels /\ Head(signals) = RemovedSignal(p)
  BY <1>2 DEF Signals, RemovedSignal
<1> HIDE DEF p
<1>4. UNCHANGED <<latestSrcAndHexwords, readFailed>>
  BY <1>1 DEF PELDeleteEventCallBack
<1>5. CASE p = lastPelObjPath
  <2>1. /\ functionActiveState' = functionActiveState \ PelFunctions
        /\ lastPelObjPath' = NoPath /\ functionStateEnabled' = FALSE
    BY <1>1, <1>5 DEF PELDeleteEventCallBack
  <2>2. functionActiveState' = {}
    BY <2>1 DEF PelTypeOK
  <2>3. PelTypeOK'
    BY <1>1, <1>2, <1>4, <2>1, <2>2 DEF PelTypeOK
  <2> QED BY <1>2, <2>1, <2>2, <2>3 DEF FlagTellsFunctions, LastPelExistsOrIsSignalled
<1>6. CASE p # lastPelObjPath
  <2>1. UNCHANGED listenerVars
    BY <1>1, <1>6 DEF PELDeleteEventCallBack
  <2>2. PelTypeOK'
    BY <1>1, <1>2, <1>4, <2>1 DEF PelTypeOK, listenerVars
  <2>3. \A q : q # p /\ InQueue(signals, RemovedSignal(q)) => InQueue(signals', RemovedSignal(q))
    BY <1>2, <1>3 DEF RemovedSignal
  <2>4. LastPelExistsOrIsSignalled <=>
          \/ lastPelObjPath = NoPath \/ lastPelObjPath \in pels
          \/ InQueue(signals, RemovedSignal(lastPelObjPath))
    BY DEF LastPelExistsOrIsSignalled, InQueue, RemovedSignal
  <2>5. LastPelExistsOrIsSignalled' <=>
          \/ lastPelObjPath' = NoPath \/ lastPelObjPath' \in pels'
          \/ InQueue(signals', RemovedSignal(lastPelObjPath'))
    BY DEF LastPelExistsOrIsSignalled, InQueue, RemovedSignal
  <2>6. FlagTellsFunctions' /\ LastPelExistsOrIsSignalled'
    BY <1>1, <1>6, <2>1, <2>3, <2>4, <2>5 DEF FlagTellsFunctions, listenerVars
  <2>7. ASSUME (AllComplete /\ ~readFailed /\ functionStateEnabled)' PROVE KnowsNewest'
    <3>1. KnowsNewest
      BY <1>1, <1>4, <2>1, <2>7 DEF AllComplete, listenerVars
    <3>2. \A q : InQueue(signals, AddedSignal(q)) => InQueue(signals', AddedSignal(q))
      BY <1>2, <1>3 DEF AddedSignal, RemovedSignal
    <3>3. SeriousPels' = SeriousPels
      BY <1>1 DEF SeriousPels
    <3> QED BY <1>1, <1>4, <1>6, <2>1, <2>3, <3>1, <3>2, <3>3 DEF KnowsNewest, listenerVars
  <2> QED BY <1>1, <1>2, <2>1, <2>2, <2>6, <2>7 DEF listenerVars
<1> QED BY <1>5, <1>6

\* A progress code or the opening of function 64 changes what is shown.
LEMMA SrcStep ==
  ASSUME ListenerIndInv, StoreSRCAndHexwords \/ GetPelEventIdCount
  PROVE  ListenerIndInv'
<1> USE PelAssumption DEF ListenerIndInv, ListenerInv
<1>1. UNCHANGED <<logVars, signals, started, listenerVars, readFailed>> /\ started
  BY DEF StoreSRCAndHexwords, GetPelEventIdCount
<1>2. /\ FlagTellsFunctions' /\ LastPelExistsOrIsSignalled' /\ AddedInOrder'
      /\ SeriousPels' = SeriousPels
  BY <1>1 DEF FlagTellsFunctions, LastPelExistsOrIsSignalled, AddedInOrder, SeriousPels,
              logVars, listenerVars
<1>3. CASE StoreSRCAndHexwords
  <2>1. latestSrcAndHexwords' = ProgressCode
    BY <1>3 DEF StoreSRCAndHexwords
  <2>2. PelTypeOK'
    BY <1>1, <2>1 DEF PelTypeOK, logVars, listenerVars
  <2> QED BY <1>1, <1>2, <2>1, <2>2 DEF KnowsNewest, AllComplete, logVars, listenerVars
<1>4. CASE GetPelEventIdCount
  <2>1. latestSrcAndHexwords' = Newest /\ SeriousPels # {}
    BY <1>4 DEF GetPelEventIdCount
  <2>2. /\ Newest \in pels /\ Newest \in Pels /\ kind[Newest].serious
        /\ \A p \in SeriousPels : p <= Newest
    BY <2>1, NewestIsLargest
  <2>3. PelTypeOK'
    BY <1>1, <2>1, <2>2 DEF PelTypeOK, logVars, listenerVars
  <2>4. ASSUME (AllComplete /\ ~readFailed /\ functionStateEnabled)' PROVE KnowsNewest'
    <3>1. KnowsNewest
      BY <1>1, <2>4 DEF AllComplete, logVars, listenerVars
    <3>2. Newest \in SeriousPels /\ Newest \in Nat /\ lastPelObjPath \in Nat
      BY <2>2, <3>1 DEF SeriousPels, KnowsNewest, Pels
    <3>3. CASE Newest > lastPelObjPath
      BY <1>1, <1>2, <2>1, <2>2, <3>1, <3>2, <3>3 DEF KnowsNewest, logVars, listenerVars
    <3>4. CASE Newest = lastPelObjPath
      BY <1>1, <1>2, <2>1, <3>1, <3>4 DEF KnowsNewest, logVars, listenerVars
    <3>5. CASE Newest < lastPelObjPath
      <4>1. lastPelObjPath \notin pels
        BY <2>2, <3>1, <3>2, <3>5 DEF SeriousPels, KnowsNewest
      <4>2. InQueue(signals, RemovedSignal(lastPelObjPath))
        <5>1. lastPelObjPath # NoPath
          BY <3>2, <3>5 DEF Pels, NoPath
        <5>2. \/ lastPelObjPath = NoPath \/ lastPelObjPath \in pels
              \/ InQueue(signals, RemovedSignal(lastPelObjPath))
          BY DEF LastPelExistsOrIsSignalled, InQueue, RemovedSignal
        <5> QED BY <4>1, <5>1, <5>2
      <4> QED BY <1>1, <1>2, <3>1, <4>2 DEF KnowsNewest, logVars, listenerVars
    <3> QED BY <3>2, <3>3, <3>4, <3>5
  <2> QED BY <1>1, <1>2, <2>3, <2>4 DEF listenerVars
<1> QED BY <1>3, <1>4

\* The invariant is inductive.
LEMMA ListenerNext == ListenerIndInv /\ [Next]_vars => ListenerIndInv'
<1> SUFFICES ASSUME ListenerIndInv, [Next]_vars PROVE ListenerIndInv'
  OBVIOUS
<1>1. CASE PelCreated
  BY <1>1, CreatedStep
<1>2. ASSUME NEW p \in Pels, PelErased(p) PROVE ListenerIndInv'
  BY <1>2, ErasedStep
<1>3. CASE GetListOfExistingPels
  BY <1>3, ListedStep
<1>4. CASE HandleSignal
  BY <1>4, AddedStep, RemovedStep
<1>5. CASE StoreSRCAndHexwords \/ GetPelEventIdCount
  BY <1>5, SrcStep
<1>6. CASE UNCHANGED vars
  BY <1>6 DEF ListenerIndInv, ListenerInv, PelTypeOK, FlagTellsFunctions,
              LastPelExistsOrIsSignalled, AddedInOrder, AllComplete, KnowsNewest,
              SeriousPels, vars, logVars, listenerVars
<1> QED BY <1>1, <1>2, <1>3, <1>4, <1>5, <1>6 DEF Next

\* The inductive invariant holds in every state.
LEMMA ListenerIndInvariance == Spec => []ListenerIndInv
<1> QED BY ListenerInit, ListenerNext, PTL DEF Spec

\* The listener never loses track of the last PEL: its removal is never missed, and
\* the flag setPelRelatedFunctionState relies on is right, whatever PELs are created,
\* erased and unreadable in whatever order.
THEOREM ListenerInvariance == Spec => []ListenerInv
<1>1. ListenerIndInv => ListenerInv
  BY DEF ListenerIndInv
<1> QED BY <1>1, ListenerIndInvariance, PTL

\* Functions 11 to 13 show the newest serious PEL once all signals are handled, if
\* no read of PELEventCallBack has failed and every event id is long enough.
THEOREM SrcFunctionsAreRight == Spec => []SrcFunctionsShowNewestPel
<1>1. ASSUME ListenerIndInv PROVE SrcFunctionsShowNewestPel
  <2> SUFFICES ASSUME AllComplete, ~readFailed, signals = <<>>, functionStateEnabled
               PROVE  /\ lastPelObjPath \in pels /\ kind[lastPelObjPath].serious
                      /\ \A p \in SeriousPels : p <= lastPelObjPath
                      /\ latestSrcAndHexwords \in {lastPelObjPath, ProgressCode}
    BY DEF SrcFunctionsShowNewestPel, AllComplete
  <2>1. KnowsNewest
    BY <1>1 DEF ListenerIndInv
  <2>2. Len(signals) = 0
    BY EmptySeq
  <2>3. \A s : ~InQueue(signals, s)
    BY <2>2 DEF InQueue
  <2>4. lastPelObjPath \in Pels /\ lastPelObjPath \in Nat /\ lastPelObjPath # NoPath
    BY <2>1, PelAssumption DEF KnowsNewest, Pels, NoPath
  <2>5. lastPelObjPath \in pels
    BY <1>1, <2>2, <2>4 DEF ListenerIndInv, ListenerInv, LastPelExistsOrIsSignalled
  <2>6. \A p \in SeriousPels : p \in Nat
    BY <1>1 DEF ListenerIndInv, ListenerInv, PelTypeOK, SeriousPels
  <2>7. \A p \in SeriousPels : ~(p > lastPelObjPath)
    BY <2>1, <2>3 DEF KnowsNewest
  <2>8. \A p \in SeriousPels : p <= lastPelObjPath
    BY <2>4, <2>6, <2>7
  <2> QED BY <2>1, <2>3, <2>5, <2>8 DEF KnowsNewest
<1> QED BY <1>1, ListenerIndInvariance, PTL

-----------------------------------------------------------------------------
(* The refinement: what FunctionAccess says of the PEL listener is what the   *)
(* listener does.                                                             *)

\* In the instance every function the listener switches is unconditional.
LEMMA AccessSwitches ==
  ASSUME NEW active, NEW list \in SUBSET PelFunctions
  PROVE  /\ Access!EnableFunctonality(active, list) = active \cup list
         /\ Access!DisableFunctonality(active, list) = active \ list
<1> DEFINE fs == {1} \cup PelFunctions
           mask == [f \in fs |-> {}]
<1>1. list \cap fs = list /\ \A f \in list : mask[f] = {}
  OBVIOUS
<1>2. Access!EnableFunctonality(active, list)
        = active \cup {f \in list \cap fs : mask[f] = {} \/ Access!ExactlyMet(f)}
  BY DEF Access!EnableFunctonality
<1>3. Access!DisableFunctonality(active, list)
        = active \ {f \in list \cap fs : mask[f] = {} \/ ~Access!ExactlyMet(f)}
  BY DEF Access!DisableFunctonality
<1> HIDE DEF fs, mask
<1> QED BY <1>1, <1>2, <1>3

\* The listener starts with the defaults of the table.
LEMMA AccessInitRefined == Init => Access!AccessInit
<1> SUFFICES ASSUME Init PROVE Access!AccessInit
  OBVIOUS
<1>1. functionActiveState = {}
  BY DEF Init
<1>2. Access!StartState("Normal", "NotReady", "Unspecified", "Off") = {}
  BY DEF Access!StartState, SystemBits, Manual, Power, Runtime, CE, Standby
<1>3. Access!StartActive({}) = {1}
  BY DEF Access!StartActive
<1> QED BY <1>1, <1>2, <1>3 DEF Access!AccessInit

\* A PEL switches functions as SetPelRelatedFunctionState or PelWithoutResolution
\* of FunctionAccess: the flag stands for enabling 11 to 13 again.
LEMMA SwitchRefined ==
  ASSUME PelTypeOK, FlagTellsFunctions, NEW lines \in Nat, SetPelRelatedFunctionState(lines)
  PROVE  Access!AccessNext
<1> DEFINE size == (IF lines < 6 THEN lines ELSE 6) - 1
           first == IF functionStateEnabled THEN {} ELSE 11..13
           active == {1} \cup functionActiveState
           states == UNCHANGED <<{}, [f \in {1} \cup PelFunctions |-> {}]>>
<1>1. functionStateEnabled => 11..13 \subseteq functionActiveState
  BY DEF FlagTellsFunctions
<1>2. states
  OBVIOUS
<1>3. CASE lines = 0
  <2>1. functionActiveState' = functionActiveState \cup first
    BY <1>3 DEF SetPelRelatedFunctionState
  <2>2. {1} \cup functionActiveState' = active \cup 11..13
    BY <1>1, <2>1
  <2>3. 11..13 \in SUBSET PelFunctions
    BY DEF PelFunctions
  <2>4. Access!EnableFunctonality(active, 11..13) = active \cup 11..13
    <3> HIDE DEF active
    <3> QED BY <2>3, AccessSwitches
  <2>5. Access!PelWithoutResolution
    BY <1>2, <2>2, <2>4 DEF Access!PelWithoutResolution
  <2> QED BY <2>5 DEF Access!AccessNext
<1>4. CASE lines # 0
  <2>1. size \in 0..5
    BY <1>4
  <2>2. functionActiveState'
          = ((functionActiveState \ (14 + size)..19) \cup first) \cup 14..(13 + size)
    BY <1>4 DEF SetPelRelatedFunctionState
  <2>3. 11..(13 + size) = (11..13) \cup 14..(13 + size)
    BY <2>1
  <2>4. (11..13) \cap ((14 + size)..19) = {} /\ 1 \notin (14 + size)..19
    BY <2>1
  <2>5. {1} \cup functionActiveState' = (active \ (14 + size)..19) \cup 11..(13 + size)
    <3> DEFINE off == (14 + size)..19
               outs == 14..(13 + size)
               all == 11..(13 + size)
               src == 11..13
    <3>1. /\ functionActiveState' = ((functionActiveState \ off) \cup first) \cup outs
          /\ all = src \cup outs /\ src \cap off = {} /\ 1 \notin off
          /\ (functionStateEnabled => src \subseteq functionActiveState)
          /\ first = IF functionStateEnabled THEN {} ELSE src
      BY <1>1, <2>2, <2>3, <2>4
    <3> HIDE DEF off, outs, all, src, first
    <3>2. {1} \cup functionActiveState' = (({1} \cup functionActiveState) \ off) \cup all
      BY <3>1
    <3> QED BY <3>2 DEF off, all
  <2>6. 11..(13 + size) \in SUBSET PelFunctions /\ (14 + size)..19 \in SUBSET PelFunctions
    BY <2>1 DEF PelFunctions
  <2>7. Access!EnableFunctonality(Access!DisableFunctonality(active, (14 + size)..19), 11..(13 + size))
          = (active \ (14 + size)..19) \cup 11..(13 + size)
    <3> HIDE DEF active, size
    <3> QED BY <2>6, AccessSwitches
  <2>8. Access!SetPelRelatedFunctionState(size)
    BY <1>2, <2>5, <2>7 DEF Access!SetPelRelatedFunctionState
  <2> HIDE DEF size
  <2> QED BY <2>1, <2>8 DEF Access!AccessNext
<1> QED BY <1>3, <1>4

\* The removal of the last PEL is PelDeleted of FunctionAccess.
LEMMA RemovalRefined ==
  ASSUME functionActiveState' = functionActiveState \ PelFunctions
  PROVE  Access!AccessNext
<1> DEFINE active == {1} \cup functionActiveState
           states == UNCHANGED <<{}, [f \in {1} \cup PelFunctions |-> {}]>>
<1>1. PelFunctions \in SUBSET PelFunctions /\ 1 \notin PelFunctions
  BY DEF PelFunctions
<1>2. states
  OBVIOUS
<1>3. {1} \cup functionActiveState' = active \ PelFunctions
  BY <1>1
<1>4. Access!DisableFunctonality(active, PelFunctions) = active \ PelFunctions
  <2> HIDE DEF active
  <2> QED BY <1>1, AccessSwitches
<1>5. Access!PelFunctions = PelFunctions
  BY DEF Access!PelFunctions, PelFunctions
<1>6. Access!PelDeleted
  BY <1>2, <1>3, <1>4, <1>5 DEF Access!PelDeleted
<1> QED BY <1>6 DEF Access!AccessNext

\* Every step of the listener is a step of FunctionAccess or changes nothing there.
LEMMA AccessNextRefined ==
  ASSUME ListenerIndInv, [Next]_vars
  PROVE  [Access!AccessNext]_(Access!accessVars)
<1> USE PelAssumption DEF ListenerIndInv, ListenerInv
<1>1. UNCHANGED functionActiveState => UNCHANGED Access!accessVars
  BY DEF Access!accessVars
<1>2. CASE PelCreated
  BY <1>1, <1>2 DEF PelCreated, listenerVars
<1>3. CASE \E p \in Pels : PelErased(p)
  BY <1>1, <1>3 DEF PelErased, listenerVars
<1>4. CASE GetListOfExistingPels
  <2>1. CASE UNCHANGED listenerVars
    BY <1>1, <2>1 DEF listenerVars
  <2>2. ASSUME SeriousPels # {}, NEW got \in SUBSET {"Resolution"},
               SetPelRelatedFunctionState(Lines(Newest, got))
        PROVE  Access!AccessNext
    <3>1. kind[Newest] \in Kinds
      BY <2>2, NewestIsLargest DEF PelTypeOK
    <3>2. Lines(Newest, got) \in Nat
      BY <3>1 DEF Lines
    <3> QED BY <2>2, <3>2, SwitchRefined
  <2> QED BY <1>4, <2>1, <2>2 DEF GetListOfExistingPels
<1>5. CASE HandleSignal
  <2> DEFINE p == Head(signals).pel
  <2>1. Head(signals) \in Signals
    BY <1>5, QueueTail DEF HandleSignal, PelTypeOK
  <2>2. p \in Pels /\ kind[p] \in Kinds
    BY <2>1 DEF Signals, PelTypeOK
  <2> HIDE DEF p
  <2>3. PELEventCallBack(p) \/ PELDeleteEventCallBack(p)
    BY <1>5 DEF HandleSignal, p
  <2>4. CASE UNCHANGED listenerVars
    BY <1>1, <2>4 DEF listenerVars
  <2>5. ASSUME NEW got \in Reads(p), SetPelRelatedFunctionState(Lines(p, got))
        PROVE  Access!AccessNext
    <3>1. Lines(p, got) \in Nat
      BY <2>2 DEF Lines
    <3> QED BY <2>5, <3>1, SwitchRefined
  <2>6. CASE functionActiveState' = functionActiveState \ PelFunctions
    BY <2>6, RemovalRefined
  <2>7. CASE PELEventCallBack(p)
    BY <2>4, <2>5, <2>7 DEF PELEventCallBack
  <2>8. CASE PELDeleteEventCallBack(p)
    BY <2>4, <2>6, <2>8 DEF PELDeleteEventCallBack
  <2> QED BY <2>3, <2>7, <2>8
<1>6. CASE StoreSRCAndHexwords \/ GetPelEventIdCount
  BY <1>1, <1>6 DEF StoreSRCAndHexwords, GetPelEventIdCount, listenerVars
<1>7. CASE UNCHANGED vars
  BY <1>1, <1>7 DEF vars, listenerVars
<1> QED BY <1>2, <1>3, <1>4, <1>5, <1>6, <1>7 DEF Next

\* The listener implements FunctionAccess: it switches functions in no other way,
\* so what is proved of FunctionAccess holds with this listener.
THEOREM ListenerImplementsAccess == Spec => ImplementsAccess
<1>1. ListenerIndInv /\ [Next]_vars => [Access!AccessNext]_(Access!accessVars)
  BY AccessNextRefined
<1> QED BY <1>1, AccessInitRefined, ListenerIndInvariance, PTL
         DEF Spec, ImplementsAccess, Access!AccessSpec
-----------------------------------------------------------------------------
(* How long the last PEL is remembered after it was erased.                  *)

\* The removal of the last PEL is the i-th of the signals that wait.
RemovalWaits(i) == i \in 1..Len(signals) /\ signals[i] = RemovedSignal(lastPelObjPath)

\* A last PEL that does not exist any more is about to be forgotten: the process
\* handles signals, and the removal is one of them.
RemovalIsHandled ==
  lastPelObjPath \in Pels \ pels => started /\ \E i \in 1..Len(signals) : RemovalWaits(i)

\* With every signal that is handled the removal comes one place forward, until it
\* is handled itself; nothing that is created, erased or signalled holds it up.
RemovalApproaches ==
  \A i \in 1..Len(signals) : lastPelObjPath \in Pels /\ RemovalWaits(i) =>
    \/ lastPelObjPath' # lastPelObjPath
    \/ HandleSignal /\ i > 1 /\ RemovalWaits(i - 1)'
    \/ ~HandleSignal /\ RemovalWaits(i)'

\* The removal of the last PEL is waiting once the PEL is gone.
LEMMA RemovalFound == ListenerInv /\ (~started => ~functionStateEnabled) => RemovalIsHandled
<1> SUFFICES ASSUME ListenerInv, ~started => ~functionStateEnabled,
                    lastPelObjPath \in Pels, lastPelObjPath \notin pels
             PROVE  started /\ \E i \in 1..Len(signals) : RemovalWaits(i)
  BY DEF RemovalIsHandled
<1>1. lastPelObjPath # NoPath
  BY PelAssumption DEF Pels, NoPath
<1>2. \E i \in 1..Len(signals) : RemovalWaits(i)
  BY <1>1 DEF ListenerInv, LastPelExistsOrIsSignalled, RemovalWaits, RemovedSignal
<1>3. started
  BY <1>1 DEF ListenerInv, FlagTellsFunctions
<1> QED BY <1>2, <1>3

\* A step that only adds signals leaves the removal at its place.
LEMMA RemovalStays ==
  ASSUME PelTypeOK, NEW i \in 1..Len(signals), RemovalWaits(i),
         lastPelObjPath' = lastPelObjPath,
         signals' = signals \/ \E s \in Signals : signals' = Append(signals, s)
  PROVE  RemovalWaits(i)'
<1>1. signals \in Seq(Signals)
  BY DEF PelTypeOK
<1>2. CASE signals' = signals
  BY <1>2 DEF RemovalWaits, RemovedSignal
<1>3. ASSUME NEW s \in Signals, signals' = Append(signals, s) PROVE RemovalWaits(i)'
  <2>1. /\ Len(signals) \in Nat /\ Len(signals') = Len(signals) + 1
        /\ \A j \in 1..Len(signals) : signals'[j] = signals[j]
    BY <1>1, <1>3, QueueAppend
  <2> QED BY <2>1 DEF RemovalWaits, RemovedSignal
<1> QED BY <1>2, <1>3

\* The first signal is taken: it is the removal, or that comes one place forward.
LEMMA RemovalComes ==
  ASSUME PelTypeOK, HandleSignal, lastPelObjPath \in Pels,
         NEW i \in 1..Len(signals), RemovalWaits(i)
  PROVE  lastPelObjPath' # lastPelObjPath \/ (i > 1 /\ RemovalWaits(i - 1)')
<1>1. /\ signals \in Seq(Signals) /\ signals # <<>> /\ signals' = Tail(signals)
  BY DEF PelTypeOK, HandleSignal
<1>2. /\ Head(signals) = signals[1]
      /\ Len(signals) \in Nat /\ Len(signals') = Len(signals) - 1
      /\ \A j \in 1..Len(signals') : signals'[j] = signals[j + 1]
  BY <1>1, QueueTail
<1>3. CASE i = 1
  <2>1. Head(signals) = RemovedSignal(lastPelObjPath)
    BY <1>2, <1>3 DEF RemovalWaits
  <2>2. ~Head(signals).added /\ Head(signals).pel = lastPelObjPath
    BY <2>1 DEF RemovedSignal
  <2>3. PELDeleteEventCallBack(lastPelObjPath)
    BY <2>2 DEF HandleSignal
  <2>4. lastPelObjPath' = NoPath
    BY <2>3 DEF PELDeleteEventCallBack
  <2> QED BY <2>4, PelAssumption DEF Pels, NoPath
<1>4. CASE i # 1
  <2>1. i - 1 \in 1..Len(signals') /\ (i - 1) + 1 = i /\ i > 1
    BY <1>2, <1>4
  <2>2. signals'[i - 1] = signals[i]
    BY <1>2, <2>1
  <2>3. CASE lastPelObjPath' = lastPelObjPath
    BY <2>1, <2>2, <2>3 DEF RemovalWaits, RemovedSignal
  <2> QED BY <2>1, <2>3
<1> QED BY <1>3, <1>4

\* Every step brings the removal forward or leaves it where it is.
LEMMA RemovalStep == ListenerInv /\ [Next]_vars => RemovalApproaches
<1> SUFFICES ASSUME ListenerInv, [Next]_vars, NEW i \in 1..Len(signals),
                    lastPelObjPath \in Pels, RemovalWaits(i)
             PROVE  \/ lastPelObjPath' # lastPelObjPath
                    \/ HandleSignal /\ i > 1 /\ RemovalWaits(i - 1)'
                    \/ ~HandleSignal /\ RemovalWaits(i)'
  BY DEF RemovalApproaches
<1>1. PelTypeOK
  BY DEF ListenerInv
<1>2. CASE HandleSignal
  BY <1>1, <1>2, RemovalComes
<1>3. CASE ~HandleSignal
  <2>1. ASSUME PelCreated PROVE \E s \in Signals : signals' = Append(signals, s)
    <3>1. created' \in Pels
      BY <1>1, <2>1, PelAssumption DEF PelCreated, PelTypeOK, Pels
    <3> QED BY <2>1, <3>1 DEF PelCreated, Signal, Signals
  <2>2. ASSUME NEW p \in Pels, PelErased(p)
        PROVE  \E s \in Signals : signals' = Append(signals, s)
    BY <2>2 DEF PelErased, Signal, Signals
  <2>4. CASE StoreSRCAndHexwords \/ GetPelEventIdCount \/ UNCHANGED vars
    <3>1. signals' = signals /\ lastPelObjPath' = lastPelObjPath
      BY <2>4 DEF StoreSRCAndHexwords, GetPelEventIdCount, vars, listenerVars
    <3> QED BY <1>1, <1>3, <3>1, RemovalStays
  <2>5. CASE PelCreated
    <3>1. lastPelObjPath' = lastPelObjPath
      BY <2>5 DEF PelCreated, listenerVars
    <3> QED BY <1>1, <1>3, <2>1, <2>5, <3>1, RemovalStays
  <2>6. ASSUME NEW p \in Pels, PelErased(p) PROVE RemovalWaits(i)'
    <3>1. lastPelObjPath' = lastPelObjPath
      BY <2>6 DEF PelErased, listenerVars
    <3> QED BY <1>1, <2>2, <2>6, <3>1, RemovalStays
  <2>7. CASE GetListOfExistingPels /\ lastPelObjPath' = lastPelObjPath
    <3>1. signals' = signals
      BY <2>7 DEF GetListOfExistingPels
    <3> QED BY <1>1, <1>3, <2>7, <3>1, RemovalStays
  <2> QED BY <1>3, <2>4, <2>5, <2>6, <2>7 DEF Next
<1> QED BY <1>2, <1>3

\* The safety of ErasedPelIsForgotten, for any number of PELs and signals: after the
\* last PEL was erased its removal waits at a process that handles signals, no signal
\* is handled without bringing the removal forward, and nothing holds it up. That
\* signals are handled is the fairness.
THEOREM RemovalIsNotHeldUp == Spec => []RemovalIsHandled /\ [][RemovalApproaches]_vars
<1>1. ListenerIndInv => RemovalIsHandled
  BY RemovalFound DEF ListenerIndInv
<1>2. ListenerIndInv /\ [Next]_vars => RemovalApproaches
  BY RemovalStep DEF ListenerIndInv
<1> QED BY <1>1, <1>2, ListenerIndInvariance, PTL DEF Spec
=============================================================================
