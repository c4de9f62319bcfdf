--------------------------- MODULE CircuitProofs ---------------------------
(***************************************************************************)
(* Proofs about modules Circuit and RollingNumber, for every number of     *)
(* calls and every value of the settings: an open circuit is tested by one *)
(* call per sleep window, it was opened on evidence, errors follow their   *)
(* requests, and a rolling number is right about its window.               *)
(***************************************************************************)
EXTENDS Circuit, MCRolling, SumProofs, SequenceTheorems

\* No step of the callers, of Monitor, of Flush or of the clock lets another
\* call reopen or close the circuit between the load and the swap of a test.
LEMMA TestInvStep == TestInv /\ [Next]_vars => TestInv'
<1> SUFFICES ASSUME TestInv, [Next]_vars PROVE TestInv'
  OBVIOUS
<1> USE CircuitAssumption, RollingAssumption DEF TestInv, PC, SwapReady, TimesPast, Goto
<1>1. ASSUME NEW c \in Calls, Call(c) PROVE TestInv'
  <2>1. CASE ReadFlags(c) BY <2>1 DEF ReadFlags, flags
  <2>2. CASE CheckVolume(c) BY <2>2 DEF CheckVolume, flags, locals
  <2>3. CASE SumRequests(c) BY <2>3 DEF SumRequests, flags
  <2>4. CASE SumErrors(c) BY <2>4 DEF SumErrors, flags, locals
  <2>5. CASE SetOpen(c)
    BY <2>5 DEF SetOpen, locals, CanLock, CircuitReaders
  <2>6. CASE LoadOpened(c) BY <2>6 DEF LoadOpened, flags
  <2>7. CASE SwapOpened(c) BY <2>7 DEF SwapOpened
  <2>8. CASE Finish(c) BY <2>8 DEF Finish, flags
  <2>9. CASE ReadOpen(c) BY <2>9 DEF ReadOpen, flags, locals
  <2>10. CASE SetClose(c)
    BY <2>10 DEF SetClose, locals, CanLock, CircuitReaders
  <2>11. CASE ResetMetrics(c) BY <2>11 DEF ResetMetrics, flags, locals
  <2>12. CASE SendUpdate(c) BY <2>12 DEF SendUpdate, flags, locals
  <2> QED BY <1>1, <2>1, <2>2, <2>3, <2>4, <2>5, <2>6, <2>7, <2>8, <2>9, <2>10,
             <2>11, <2>12 DEF Call
<1>2. CASE Monitor BY <1>2 DEF Monitor, CountRequest, CountError, flags, locals
<1>3. CASE Tick BY <1>3 DEF Tick, flags, locals
<1>4. CASE FlushMetrics BY <1>4 DEF FlushMetrics, flags, locals
<1>5. ASSUME NEW toggle \in Toggles, ToggleForceOpen(toggle) PROVE TestInv'
  BY <1>5 DEF ToggleForceOpen, locals
<1>6. CASE UNCHANGED vars BY <1>6 DEF vars, flags, locals
<1> QED BY <1>1, <1>2, <1>3, <1>4, <1>5, <1>6 DEF Next

\* TestInv is an invariant of the circuit.
THEOREM TestInvariant == Spec => []TestInv
<1>1. Init => TestInv
  <2> SUFFICES ASSUME Init PROVE TestInv
    OBVIOUS
  <2>1. pc \in [Calls -> PC] /\ SwapReady BY DEF Init, PC, SwapReady
  <2>2. now \in [Calls -> Nat] /\ loaded \in [Calls -> Nat] BY DEF Init
  <2>3. open \in BOOLEAN BY Zenon DEF Init
  <2>4. clock = 0 /\ opened = 0 /\ \A c \in Calls : now[c] = 0 BY DEF Init
  <2> QED BY <2>1, <2>2, <2>3, <2>4 DEF TestInv, TimesPast
<1> QED BY <1>1, TestInvStep, PTL DEF Spec

\* Only the swap of allowSingleTest admits a call that asked for a test, and it
\* moves the time of the last test on by more than the sleep window, whatever
\* the number of calls that loaded the same time.
THEOREM OneTestPerWindow == Spec => SingleTest
<1>1. TestInv /\ [Next]_vars =>
        [\A c \in Calls : pc[c] = "cas" /\ pc'[c] = "run" =>
           open /\ opened' > opened + SleepWindow]_vars
  <2> SUFFICES ASSUME TestInv, Next, NEW c \in Calls, pc[c] = "cas", pc'[c] = "run"
               PROVE  open /\ opened' > opened + SleepWindow
    OBVIOUS
  <2> USE DEF TestInv, PC, Goto
  <2>1. ASSUME NEW d \in Calls, Call(d), d # c PROVE FALSE
    BY <2>1 DEF Call, ReadFlags, CheckVolume, SumRequests, SumErrors, SetOpen,
                LoadOpened, SwapOpened, Finish, ReadOpen, SetClose, ResetMetrics, SendUpdate
  <2>2. CASE Call(c)
    <3>1. SwapOpened(c)
      BY <2>2 DEF Call, ReadFlags, CheckVolume, SumRequests, SumErrors, SetOpen,
                  LoadOpened, Finish, ReadOpen, SetClose, ResetMetrics, SendUpdate
    <3>2. opened = loaded[c] /\ opened' = now[c] BY <3>1 DEF SwapOpened
    <3> QED BY <3>2 DEF SwapReady
  <2>3. CASE Monitor \/ Tick \/ FlushMetrics
    BY <2>3 DEF Monitor, CountRequest, CountError, Tick, FlushMetrics
  <2>4. ASSUME NEW toggle \in Toggles, ToggleForceOpen(toggle) PROVE FALSE
    BY <2>4 DEF ToggleForceOpen
  <2> QED BY <2>1, <2>2, <2>3, <2>4 DEF Next
<1> QED BY <1>1, TestInvariant, PTL DEF Spec, SingleTest

\* openedOrLastTestedTime never runs backwards, although a test stores a time
\* it read some steps earlier.
THEOREM TimeOfTestForward == Spec => OpenedForward
<1>1. TestInv /\ [Next]_vars => [opened' >= opened]_vars
  <2> SUFFICES ASSUME TestInv, Next PROVE opened' >= opened
    OBVIOUS
  <2> USE CircuitAssumption DEF TestInv, SwapReady, TimesPast
  <2>1. ASSUME NEW c \in Calls, Call(c) PROVE opened' >= opened
    <3>1. CASE SetOpen(c) BY <3>1 DEF SetOpen
    <3>2. CASE SwapOpened(c) BY <3>2 DEF SwapOpened
    <3>3. CASE opened' = opened BY <3>3
    <3> QED BY <2>1, <3>1, <3>2, <3>3
            DEF Call, ReadFlags, CheckVolume, SumRequests, SumErrors, LoadOpened,
                Finish, ReadOpen, SetClose, ResetMetrics, SendUpdate, flags
  <2>2. CASE Monitor \/ Tick \/ FlushMetrics
    BY <2>2 DEF Monitor, CountRequest, CountError, Tick, FlushMetrics, flags
  <2>3. ASSUME NEW toggle \in Toggles, ToggleForceOpen(toggle) PROVE opened' >= opened
    BY <2>3 DEF ToggleForceOpen
  <2> QED BY <2>1, <2>2, <2>3 DEF Next
<1> QED BY <1>1, TestInvariant, PTL DEF Spec, OpenedForward

-----------------------------------------------------------------------------
(* The rolling numbers *)

\* The run has finitely many seconds.
LEMMA TimeIsFinite == \A S \in SUBSET Time : IsFiniteSet(S)
<1>1. IsFiniteSet(Time) BY RollingAssumption, FS_Interval DEF Time
<1> QED BY <1>1, FS_Subset

\* A number stays a number, keeps the seconds of the window and adds to the
\* present one.
LEMMA Incremented ==
  ASSUME NEW r \in [Time -> Nat], NEW i \in Nat, NEW t \in Time
  PROVE  /\ Increment(r, i, t) \in [Time -> Nat]
         /\ \A s \in Time : s > t - Window =>
              Increment(r, i, t)[s] = IF s = t THEN r[s] + i ELSE r[s]
         /\ \A s \in Time : s <= t - Window => Increment(r, i, t)[s] \in {0, r[s]}
<1> USE RollingAssumption
<1>1. CASE i = 0 BY <1>1 DEF Increment
<1>2. CASE i # 0
  <2> DEFINE q == [r EXCEPT ![t] = @ + i]
  <2>1. q \in [Time -> Nat] /\ \A s \in Time : q[s] = IF s = t THEN r[s] + i ELSE r[s]
    OBVIOUS
  <2>2. Increment(r, i, t) = RemoveOldBuckets(q, t) BY <1>2 DEF Increment
  <2> HIDE DEF q
  <2>3. RemoveOldBuckets(q, t) = [s \in Time |-> IF s <= t - Window THEN 0 ELSE q[s]]
    BY DEF RemoveOldBuckets
  <2>4. t - Window < t /\ \A s \in Time : s \in Int /\ t - Window \in Int BY DEF Time
  <2> QED BY <2>1, <2>2, <2>3, <2>4
<1> QED BY <1>1, <1>2

\* It changes nothing in the seconds to come.
LEMMA IncrementedAhead ==
  ASSUME NEW r \in [Time -> Nat], NEW i \in Nat, NEW t \in Time, NEW s \in Time, s > t
  PROVE  Increment(r, i, t)[s] = r[s]
<1>1. s > t - Window /\ s # t BY RollingAssumption DEF Time
<1>2. Increment(r, i, t)[s] = IF s = t THEN r[s] + i ELSE r[s] BY <1>1, Incremented
<1> QED BY <1>1, <1>2

Larger(a, b) == IF b > a THEN b ELSE a

\* UpdateMax keeps the seconds of the window in the same way.
LEMMA Updated ==
  ASSUME NEW r \in [Time -> Nat], NEW n \in Nat, NEW t \in Time
  PROVE  /\ UpdateMax(r, n, t) \in [Time -> Nat]
         /\ \A s \in Time : s > t - Window =>
              UpdateMax(r, n, t)[s] = IF s = t THEN Larger(r[s], n) ELSE r[s]
         /\ \A s \in Time : s <= t - Window => UpdateMax(r, n, t)[s] = 0
<1> USE RollingAssumption
<1> DEFINE q == [r EXCEPT ![t] = IF n > @ THEN n ELSE @]
<1>1. q \in [Time -> Nat] /\ \A s \in Time : q[s] = IF s = t THEN Larger(r[s], n) ELSE r[s]
  BY DEF Larger
<1>2. UpdateMax(r, n, t) = RemoveOldBuckets(q, t) BY DEF UpdateMax
<1> HIDE DEF q
<1>3. RemoveOldBuckets(q, t) = [s \in Time |-> IF s <= t - Window THEN 0 ELSE q[s]]
  BY DEF RemoveOldBuckets
<1>4. \A s \in Time : s \in Int /\ t - Window \in Int BY DEF Time
<1> QED BY <1>1, <1>2, <1>3, <1>4

LEMMA SumNat == ASSUME NEW r \in [Time -> Nat], NEW S \in SUBSET Time
                PROVE  SumFunctionOnSet(r, S) \in Nat
BY TimeIsFinite, SumIsNat

-----------------------------------------------------------------------------
(* Types *)

\* A call that has something to report knows what.
EventKnown ==
  \A c \in Calls : pc[c] \in {"report", "setClose", "reset", "send", "end"} => event[c] \in Events

\* Every step of a call preserves the types of what only calls change.
LEMMA TypeStep == TypeOK /\ EventKnown /\ [Next]_vars => TypeOK' /\ EventKnown'
<1> SUFFICES ASSUME TypeOK, EventKnown, [Next]_vars PROVE TypeOK' /\ EventKnown'
  OBVIOUS
<1> USE CircuitAssumption, RollingAssumption DEF Goto
<1> DEFINE Goal == TypeOK' /\ EventKnown'
<1>1. ASSUME NEW c \in Calls, Call(c) PROVE Goal
  <2> USE DEF TypeOK, EventKnown, PC, flags, metrics, locals
  <2>1. CASE ReadFlags(c) BY <2>1 DEF ReadFlags
  <2>2. CASE CheckVolume(c) BY <2>2 DEF CheckVolume
  <2>3. CASE SumRequests(c)
    <3>1. PICK t \in now[c]..clock : /\ reqs' = [reqs EXCEPT ![c] = Sum(numRequests, t)]
                                    /\ now' = [now EXCEPT ![c] = t]
      BY <2>3 DEF SumRequests
    <3>2. t \in Time BY DEF Time
    <3>3. Sum(numRequests, t) \in Nat BY SumNat DEF Sum, Recent
    <3> QED BY <2>3, <3>1, <3>2, <3>3 DEF SumRequests
  <2>4. CASE SumErrors(c) BY <2>4 DEF SumErrors
  <2>5. CASE SetOpen(c) BY <2>5 DEF SetOpen
  <2>6. CASE LoadOpened(c) BY <2>6 DEF LoadOpened, RefusedEvents, Events, ErrorEvents
  <2>7. CASE SwapOpened(c)
    <3>1. CASE opened = loaded[c]
      <4>1. /\ opened' = now[c] /\ pc' = [pc EXCEPT ![c] = "run"]
            /\ UNCHANGED <<clock, registered, open, forceOpen, metrics, locals>>
        BY <2>7, <3>1 DEF SwapOpened
      <4>2. opened' \in Time BY <4>1
      <4> QED BY <4>1, <4>2
    <3>2. CASE opened # loaded[c]
      BY <2>7, <3>2 DEF SwapOpened, RefusedEvents, Events, ErrorEvents
    <3> QED BY <3>1, <3>2
  <2>8. CASE Finish(c) BY <2>8 DEF Finish, Events
  <2>9. CASE ReadOpen(c) BY <2>9 DEF ReadOpen
  <2>10. CASE SetClose(c) BY <2>10 DEF SetClose
  <2>11. CASE ResetMetrics(c) BY <2>11 DEF ResetMetrics, NewNumber
  <2>12. CASE SendUpdate(c)
    <3>1. event[c] \in Events BY <2>12 DEF SendUpdate
    <3>2. updates' \in Seq(Events) /\ Len(updates') <= UpdatesCap
      <4>1. CASE Len(updates) < UpdatesCap
        <5>1. updates' = Append(updates, event[c]) BY <2>12, <4>1 DEF SendUpdate
        <5>2. updates' \in Seq(Events) /\ Len(updates') = Len(updates) + 1
          BY <3>1, <5>1, AppendProperties
        <5> QED BY <4>1, <5>2
      <4>2. CASE ~(Len(updates) < UpdatesCap) BY <2>12, <4>2 DEF SendUpdate
      <4> QED BY <4>1, <4>2
    <3> QED BY <2>12, <3>2 DEF SendUpdate
  <2> QED BY <1>1, <2>1, <2>2, <2>3, <2>4, <2>5, <2>6, <2>7, <2>8, <2>9, <2>10,
             <2>11, <2>12 DEF Call
<1>2. CASE CountRequest
  <2>1. clock \in Time /\ numRequests \in [Time -> Nat] BY DEF TypeOK
  <2>2. numRequests' \in [Time -> Nat] BY <1>2, <2>1, Incremented DEF CountRequest
  <2>3. updates \in Seq(Events) /\ updates # <<>> /\ Len(updates) <= UpdatesCap
        /\ Len(updates) \in Nat
    BY <1>2 DEF CountRequest, TypeOK
  <2>4. /\ Head(updates) \in Events /\ Tail(updates) \in Seq(Events)
        /\ Len(Tail(updates)) = Len(updates) - 1
    BY <2>3, HeadTailProperties
  <2>5. monitor' \in Seq(Events) /\ Len(monitor') <= 1 BY <1>2, <2>4 DEF CountRequest
  <2>6. updates' \in Seq(Events) /\ Len(updates') <= UpdatesCap
    BY <1>2, <2>3, <2>4 DEF CountRequest
  <2> QED BY <1>2, <2>2, <2>5, <2>6 DEF CountRequest, TypeOK, EventKnown, flags, locals
<1>3. CASE CountError
  <2>1. clock \in Time /\ errors \in [Time -> Nat] BY DEF TypeOK
  <2> DEFINE i == IF monitor[1] \in ErrorEvents THEN 1 ELSE 0
  <2>2. i \in Nat OBVIOUS
  <2>3. errors' = Increment(errors, i, clock) BY <1>3 DEF CountError
  <2>4. errors' \in [Time -> Nat] BY <2>1, <2>2, <2>3, Incremented
  <2>5. monitor' \in Seq(Events) /\ Len(monitor') <= 1 BY <1>3 DEF CountError
  <2> QED BY <1>3, <2>4, <2>5 DEF CountError, TypeOK, EventKnown, flags, locals
<1>4. CASE Tick
  <2>1. clock' \in Time BY <1>4 DEF Tick, TypeOK, Time
  <2> QED BY <1>4, <2>1 DEF Tick, TypeOK, EventKnown, flags, metrics, locals
<1>5. CASE FlushMetrics
  BY <1>5 DEF FlushMetrics, TypeOK, EventKnown, locals, NewNumber
<1>6. ASSUME NEW toggle \in Toggles, ToggleForceOpen(toggle) PROVE Goal
  BY <1>6 DEF ToggleForceOpen, TypeOK, EventKnown, metrics, locals
<1>7. CASE UNCHANGED vars
  BY <1>7 DEF vars, TypeOK, EventKnown, flags, metrics, locals
<1> QED BY <1>1, <1>2, <1>3, <1>4, <1>5, <1>6, <1>7 DEF Next, Monitor

LEMMA InitTypes == Init => TypeOK /\ EventKnown
<1> SUFFICES ASSUME Init PROVE TypeOK /\ EventKnown
  OBVIOUS
<1> USE CircuitAssumption, RollingAssumption DEF Init
<1>1. 0 \in Time BY DEF Time
<1>2. NewNumber \in [Time -> Nat] BY DEF NewNumber
<1>3. updates \in Seq(Events) /\ Len(updates) = 0 BY EmptySeq
<1>4. monitor \in Seq(Events) /\ Len(monitor) = 0 BY EmptySeq
<1>5. registered \in BOOLEAN /\ open \in BOOLEAN /\ forceOpen \in BOOLEAN BY Zenon
<1>6. pc \in [Calls -> PC] /\ EventKnown BY DEF PC, EventKnown
<1>7. reqs \in [Calls -> Nat] /\ now \in [Calls -> Time] /\ loaded \in [Calls -> Time]
  BY <1>1
<1>8. event \in [Calls -> Events \cup {"none"}] OBVIOUS
<1> QED BY <1>1, <1>2, <1>3, <1>4, <1>5, <1>6, <1>7, <1>8 DEF TypeOK

\* The circuit keeps its types: no bucket outside the seconds of the run, and
\* no report of a call that has none.
THEOREM CircuitTypeOK == Spec => []TypeOK
<1>1. Spec => [](TypeOK /\ EventKnown) BY InitTypes, TypeStep, PTL DEF Spec
<1> QED BY <1>1, PTL

-----------------------------------------------------------------------------
(* Errors and requests *)

\* No second that is still to come has a bucket.
NothingAhead == \A t \in Time : t > clock => numRequests[t] = 0 /\ errors[t] = 0

\* From any second of the window on, the errors exceed the requests by at most
\* one, and by none while an update has been counted as a request only: either
\* the sum of the requests has it, or there are no errors from that second on.
SplitOnce ==
  \A t \in Time : t > clock - Window =>
    From(errors, t) <= From(numRequests, t) + (IF monitor = <<>> THEN 1 ELSE 0)

AccountInv == TypeOK /\ EventKnown /\ NothingAhead /\ SplitOnce

\* An increment adds to the sums from the present second and the ones before.
LEMMA FromIncremented ==
  ASSUME NEW r \in [Time -> Nat], NEW i \in Nat, NEW at \in Time,
         NEW t \in Time, t > at - Window
  PROVE  From(Increment(r, i, at), t) = From(r, t) + (IF t <= at THEN i ELSE 0)
<1> DEFINE q == Increment(r, i, at)
           S == {s \in Time : s >= t}
<1>1. IsFiniteSet(S) BY TimeIsFinite
<1>2. q \in [Time -> Nat] /\ \A s \in S : q[s] = IF s = at THEN r[s] + i ELSE r[s]
  <2>1. \A s \in S : s \in Time /\ s > at - Window BY RollingAssumption DEF Time
  <2> QED BY <2>1, Incremented
<1>3. at \in S <=> t <= at BY DEF Time
<1>4. From(q, t) = SumFunctionOnSet(q, S) /\ From(r, t) = SumFunctionOnSet(r, S) BY DEF From
<1>5. \A s \in S : r[s] \in Int /\ q[s] \in Int BY <1>2
<1>6. SumFunctionOnSet(r, S) \in Nat BY SumNat
<1> HIDE DEF q, S
<1>7. CASE t <= at
  <2>1. SumFunctionOnSet(q, S) = SumFunctionOnSet(r, S) + (q[at] - r[at])
    BY <1>1, <1>2, <1>3, <1>5, <1>7, SumChanges
  <2>2. q[at] - r[at] = i BY <1>2, <1>3, <1>7
  <2> QED BY <1>4, <1>7, <2>1, <2>2 DEF q
<1>8. CASE ~(t <= at)
  <2>1. SumFunctionOnSet(q, S) = SumFunctionOnSet(r, S)
    BY <1>1, <1>2, <1>3, <1>5, <1>8, SumSame
  <2> QED BY <1>4, <1>6, <1>8, <2>1 DEF q
<1> QED BY <1>7, <1>8

LEMMA FromType == ASSUME NEW r \in [Time -> Nat], NEW t PROVE From(r, t) \in Nat
BY SumNat DEF From

\* A new number has no sum, nor has one from a second that nothing has reached.
LEMMA FromNothing ==
  ASSUME NEW r, NEW t, \A s \in Time : s >= t => r[s] = 0
  PROVE  From(r, t) = 0
BY TimeIsFinite, SumOfZeros DEF From

\* What a step may do to the numbers.
NumbersReset ==
  /\ numRequests' = NewNumber /\ errors' = NewNumber
  /\ monitor = <<>> /\ UNCHANGED <<monitor, clock, updates>>

LEMMA NumberSteps ==
  [Next]_vars => \/ UNCHANGED <<numRequests, errors, monitor, clock>>
                 \/ NumbersReset \/ CountRequest \/ CountError \/ Tick
<1> SUFFICES ASSUME [Next]_vars, ~CountRequest, ~CountError, ~Tick
             PROVE  UNCHANGED <<numRequests, errors, monitor, clock>> \/ NumbersReset
  OBVIOUS
<1>1. ASSUME NEW c \in Calls, Call(c), ~ResetMetrics(c)
      PROVE  UNCHANGED <<numRequests, errors, monitor, clock>>
  BY <1>1 DEF Call, ReadFlags, CheckVolume, SumRequests, SumErrors, SetOpen, LoadOpened,
              SwapOpened, Finish, ReadOpen, SetClose, SendUpdate, metrics
<1>2. ASSUME NEW c \in Calls, ResetMetrics(c) PROVE NumbersReset
  BY <1>2 DEF ResetMetrics, NumbersReset, CanReset
<1>3. CASE FlushMetrics BY <1>3 DEF FlushMetrics, NumbersReset, CanReset
<1>4. ASSUME NEW toggle \in Toggles, ToggleForceOpen(toggle)
      PROVE  UNCHANGED <<numRequests, errors, monitor, clock>>
  BY <1>4 DEF ToggleForceOpen, metrics
<1>5. CASE UNCHANGED vars BY <1>5 DEF vars, metrics
<1> QED BY <1>1, <1>2, <1>3, <1>4, <1>5 DEF Next, Monitor

\* What a step may do to the channel.
LEMMA UpdateSteps ==
  [Next]_vars => \/ UNCHANGED <<numRequests, updates>>
                 \/ NumbersReset \/ CountRequest \/ \E c \in Calls : SendUpdate(c)
<1> SUFFICES ASSUME [Next]_vars, ~CountRequest, \A c \in Calls : ~SendUpdate(c)
             PROVE  UNCHANGED <<numRequests, updates>> \/ NumbersReset
  OBVIOUS
<1>1. ASSUME NEW c \in Calls, Call(c), ~ResetMetrics(c) PROVE UNCHANGED <<numRequests, updates>>
  BY <1>1 DEF Call, ReadFlags, CheckVolume, SumRequests, SumErrors, SetOpen, LoadOpened,
              SwapOpened, Finish, ReadOpen, SetClose, metrics
<1>2. ASSUME NEW c \in Calls, ResetMetrics(c) PROVE NumbersReset
  BY <1>2 DEF ResetMetrics, NumbersReset, CanReset
<1>3. CASE FlushMetrics BY <1>3 DEF FlushMetrics, NumbersReset, CanReset
<1>4. CASE Tick \/ CountError BY <1>4 DEF Tick, CountError, metrics
<1>5. ASSUME NEW toggle \in Toggles, ToggleForceOpen(toggle)
      PROVE  UNCHANGED <<numRequests, updates>>
  BY <1>5 DEF ToggleForceOpen, metrics
<1>6. CASE UNCHANGED vars BY <1>6 DEF vars, metrics
<1> QED BY <1>1, <1>2, <1>3, <1>4, <1>5, <1>6 DEF Next, Monitor

\* An update is counted as a request first, and the clock may tick in between;
\* the next one is counted after it.
LEMMA AccountStep == AccountInv /\ [Next]_vars => NothingAhead' /\ SplitOnce'
<1> SUFFICES ASSUME TypeOK, NothingAhead, SplitOnce, [Next]_vars
             PROVE  NothingAhead' /\ SplitOnce'
  BY DEF AccountInv
<1> USE RollingAssumption
<1>1. clock \in Time /\ numRequests \in [Time -> Nat] /\ errors \in [Time -> Nat]
  BY DEF TypeOK
<1>2. \A t \in Time : t \in Int /\ From(errors, t) \in Nat /\ From(numRequests, t) \in Nat
  <2>1. \A t \in Time : t \in Int BY DEF Time
  <2>2. \A t : From(errors, t) \in Nat /\ From(numRequests, t) \in Nat BY <1>1, FromType
  <2> QED BY <2>1, <2>2
<1>3. CASE UNCHANGED <<numRequests, errors, monitor, clock>>
  BY <1>3 DEF NothingAhead, SplitOnce
<1>4. CASE NumbersReset
  <2>1. \A t \in Time : numRequests'[t] = 0 /\ errors'[t] = 0
    BY <1>4 DEF NumbersReset, NewNumber
  <2>2. NothingAhead' BY <2>1 DEF NothingAhead
  <2>3. ASSUME NEW t \in Time PROVE From(errors', t) = 0 /\ From(numRequests', t) = 0
    BY <2>1, FromNothing
  <2>4. SplitOnce' BY <1>4, <2>3 DEF SplitOnce, NumbersReset
  <2> QED BY <2>2, <2>4
<1>5. CASE CountRequest
  <2>1. /\ numRequests' = Increment(numRequests, 1, clock)
        /\ UNCHANGED <<errors, clock>> /\ monitor = <<>> /\ monitor' # <<>>
    BY <1>5 DEF CountRequest, flags
  <2>2. NothingAhead'
    <3>1. ASSUME NEW t \in Time, t > clock PROVE numRequests'[t] = 0
      <4>1. Increment(numRequests, 1, clock)[t] = numRequests[t] BY <1>1, <3>1, IncrementedAhead
      <4> QED BY <2>1, <3>1, <4>1 DEF NothingAhead
    <3> QED BY <2>1, <3>1 DEF NothingAhead
  <2>3. ASSUME NEW t \in Time, t > clock - Window
        PROVE  From(errors, t) <= From(numRequests', t)
    <3>1. From(numRequests', t) = From(numRequests, t) + (IF t <= clock THEN 1 ELSE 0)
      BY <1>1, <2>1, <2>3, FromIncremented
    <3>2. CASE t <= clock
      <4>1. From(errors, t) <= From(numRequests, t) + 1 BY <2>1, <2>3 DEF SplitOnce
      <4> QED BY <3>1, <3>2, <4>1
    <3>3. CASE t > clock
      <4>1. \A s \in Time : s >= t => errors[s] = 0
        BY <1>1, <3>3 DEF NothingAhead, Time
      <4>2. From(errors, t) = 0 BY <4>1, FromNothing
      <4> QED BY <1>1, <1>2, <3>1, <3>3, <4>2 DEF Time
    <3> QED BY <1>1, <3>2, <3>3 DEF Time
  <2>4. SplitOnce'
    <3>1. \A t \in Time : From(numRequests', t) \in Nat
      <4>1. numRequests' \in [Time -> Nat] BY <1>1, <2>1, Incremented
      <4> QED BY <4>1, FromType
    <3> QED BY <1>2, <2>1, <2>3, <3>1 DEF SplitOnce
  <2> QED BY <2>2, <2>4
<1>6. CASE CountError
  <2> DEFINE i == IF monitor[1] \in ErrorEvents THEN 1 ELSE 0
  <2>1. /\ errors' = Increment(errors, i, clock) /\ i \in Nat /\ i <= 1
        /\ UNCHANGED <<numRequests, clock>> /\ monitor # <<>> /\ monitor' = <<>>
    BY <1>6 DEF CountError, flags
  <2> HIDE DEF i
  <2>2. NothingAhead'
    <3>1. ASSUME NEW t \in Time, t > clock PROVE errors'[t] = 0
      <4>1. Increment(errors, i, clock)[t] = errors[t] BY <1>1, <2>1, <3>1, IncrementedAhead
      <4> QED BY <2>1, <3>1, <4>1 DEF NothingAhead
    <3> QED BY <2>1, <3>1 DEF NothingAhead
  <2>3. ASSUME NEW t \in Time, t > clock - Window
        PROVE  From(errors', t) <= From(numRequests, t) + 1
    <3>1. From(errors', t) = From(errors, t) + (IF t <= clock THEN i ELSE 0)
      BY <1>1, <2>1, <2>3, FromIncremented
    <3>2. From(errors, t) <= From(numRequests, t) BY <1>2, <2>1, <2>3 DEF SplitOnce
    <3> QED BY <1>2, <2>1, <3>1, <3>2
  <2>4. SplitOnce' BY <2>1, <2>3 DEF SplitOnce
  <2> QED BY <2>2, <2>4
<1>7. CASE Tick
  <2>1. clock' = clock + 1 /\ UNCHANGED <<numRequests, errors, monitor>>
    BY <1>7 DEF Tick, metrics
  <2>2. \A t \in Time : (t > clock' => t > clock) /\ (t > clock' - Window => t > clock - Window)
    BY <1>1, <2>1 DEF Time
  <2> QED BY <2>1, <2>2 DEF NothingAhead, SplitOnce
<1> QED BY <1>3, <1>4, <1>5, <1>6, <1>7, NumberSteps

\* metrics.go: over what both numbers keep, errors follow their requests; at
\* most one of them is on the other side of a change of second.
THEOREM ErrorsHaveRequests == Spec => []ErrorsFollowRequests
<1>1. Init => AccountInv
  <2> SUFFICES ASSUME Init PROVE NothingAhead /\ SplitOnce
    BY InitTypes DEF AccountInv
  <2>1. \A t \in Time : numRequests[t] = 0 /\ errors[t] = 0 BY DEF Init, NewNumber
  <2>2. ASSUME NEW t \in Time PROVE From(errors, t) = 0 /\ From(numRequests, t) = 0
    BY <2>1, FromNothing
  <2> QED BY <2>1, <2>2 DEF NothingAhead, SplitOnce
<1>2. AccountInv /\ [Next]_vars => AccountInv'
  BY TypeStep, AccountStep DEF AccountInv
<1>3. AccountInv => ErrorsFollowRequests
  <2> SUFFICES ASSUME AccountInv, NEW t \in Time, t > clock - Window
               PROVE  From(errors, t) <= From(numRequests, t) + 1
    BY DEF ErrorsFollowRequests
  <2>1. From(errors, t) \in Nat /\ From(numRequests, t) \in Nat
    BY FromType DEF AccountInv, TypeOK
  <2> QED BY <2>1 DEF AccountInv, SplitOnce
<1> QED BY <1>1, <1>2, <1>3, PTL DEF Spec

-----------------------------------------------------------------------------
(* The evidence for an open circuit *)

\* What numRequests and the channel hold came from different calls.
ReportsCounted ==
  /\ IsFiniteSet(Reported)
  /\ SumFunctionOnSet(numRequests, Time) + Len(updates) <= Cardinality(Reported)

ErrorReported == \E c \in Reported : event[c] \in ErrorEvents

\* An update that is on its way is the event of a call that reported it.
UpdatesReported ==
  /\ \A i \in 1..Len(updates) : \E c \in Reported : event[c] = updates[i]
  /\ monitor # <<>> => \E c \in Reported : event[c] = monitor[1]

\* An error that is counted was reported.
ErrorsReported == \A t \in Time : errors[t] > 0 => ErrorReported

\* What a call found in IsOpen still holds when it opens the circuit.
VolumeSeen ==
  \A c \in Calls : pc[c] \in {"reqs", "errs", "setOpen"} => Cardinality(Reported) >= Volume
ErrorSeen == \A c \in Calls : pc[c] = "setOpen" /\ Threshold > 0 => ErrorReported

EvidenceInv ==
  /\ TypeOK /\ EventKnown /\ ReportsCounted /\ UpdatesReported /\ ErrorsReported
  /\ VolumeSeen /\ ErrorSeen /\ OpenNeedsEvidence

\* Only the send of an update makes a call one that reported, and what was
\* reported stays.
ReportedKept == Reported' = Reported /\ \A c \in Reported : event'[c] = event[c]

LEMMA ReportSteps ==
  TypeOK /\ [Next]_vars => (\E c \in Calls : SendUpdate(c)) \/ ReportedKept
<1> SUFFICES ASSUME TypeOK, [Next]_vars, \A c \in Calls : ~SendUpdate(c) PROVE ReportedKept
  OBVIOUS
<1> USE DEF ReportedKept, Reported, Goto
<1>1. ASSUME NEW c \in Calls, Call(c) PROVE ReportedKept
  <2>1. pc \in [Calls -> PC] /\ event \in [Calls -> Events \cup {"none"}] BY DEF TypeOK
  <2>2. /\ pc[c] # "end" /\ pc'[c] # "end"
        /\ \A d \in Calls : d # c => pc'[d] = pc[d] /\ event'[d] = event[d]
    <3>1. CASE ReadFlags(c) \/ CheckVolume(c) \/ SumRequests(c) \/ SumErrors(c) \/ SetOpen(c)
      BY <2>1, <3>1 DEF ReadFlags, CheckVolume, SumRequests, SumErrors, SetOpen, locals
    <3>2. CASE LoadOpened(c) \/ SwapOpened(c) \/ Finish(c)
      BY <2>1, <3>2 DEF LoadOpened, SwapOpened, Finish
    <3>3. CASE ReadOpen(c) \/ SetClose(c) \/ ResetMetrics(c)
      BY <2>1, <3>3 DEF ReadOpen, SetClose, ResetMetrics, locals
    <3> QED BY <1>1, <3>1, <3>2, <3>3 DEF Call
  <2> QED BY <2>2
<1>2. CASE Monitor BY <1>2 DEF Monitor, CountRequest, CountError, locals
<1>3. CASE Tick BY <1>3 DEF Tick, locals
<1>4. CASE FlushMetrics BY <1>4 DEF FlushMetrics, locals
<1>5. ASSUME NEW toggle \in Toggles, ToggleForceOpen(toggle) PROVE ReportedKept
  BY <1>5 DEF ToggleForceOpen, locals
<1>6. CASE UNCHANGED vars BY <1>6 DEF vars, locals
<1> QED BY <1>1, <1>2, <1>3, <1>4, <1>5, <1>6 DEF Next

LEMMA ReportedGrows ==
  ASSUME TypeOK, IsFiniteSet(Reported), NEW c \in Calls, SendUpdate(c)
  PROVE  /\ Reported' = Reported \cup {c} /\ c \notin Reported /\ event' = event
         /\ IsFiniteSet(Reported') /\ Cardinality(Reported') = Cardinality(Reported) + 1
<1>1. Reported' = Reported \cup {c} /\ c \notin Reported /\ event' = event
  BY DEF SendUpdate, TypeOK, Reported, Goto, locals
<1> QED BY <1>1, FS_AddElement

\* The evidence that there is remains.
LEMMA EvidenceKept ==
  TypeOK /\ IsFiniteSet(Reported) /\ [Next]_vars =>
    /\ Cardinality(Reported) \in Nat /\ Cardinality(Reported') \in Nat
    /\ Cardinality(Reported') >= Cardinality(Reported)
    /\ ErrorReported => ErrorReported'
    /\ \A e : (\E c \in Reported : event[c] = e) => \E c \in Reported' : event'[c] = e
<1> SUFFICES ASSUME TypeOK, IsFiniteSet(Reported), [Next]_vars
             PROVE  /\ Cardinality(Reported') \in Nat /\ Cardinality(Reported') >= Cardinality(Reported)
                    /\ ErrorReported => ErrorReported'
                    /\ \A e : (\E c \in Reported : event[c] = e) => \E c \in Reported' : event'[c] = e
  BY FS_CardinalityType
<1>1. Cardinality(Reported) \in Nat BY FS_CardinalityType
<1>2. CASE ReportedKept BY <1>1, <1>2 DEF ReportedKept, ErrorReported
<1>3. ASSUME NEW c \in Calls, SendUpdate(c) PROVE /\ Reported \subseteq Reported' /\ event' = event
                                                 /\ Cardinality(Reported') = Cardinality(Reported) + 1
  BY <1>3, ReportedGrows
<1> QED BY <1>1, <1>2, <1>3, ReportSteps DEF ErrorReported

\* An increment adds no more to the sum of all buckets than it was given.
LEMMA TotalIncremented ==
  ASSUME NEW r \in [Time -> Nat], NEW i \in Nat, NEW t \in Time
  PROVE  SumFunctionOnSet(Increment(r, i, t), Time) <= SumFunctionOnSet(r, Time) + i
<1> DEFINE q == Increment(r, i, t)
           p == [r EXCEPT ![t] = @ + i]
<1>1. IsFiniteSet(Time) BY TimeIsFinite
<1>2. q \in [Time -> Nat] /\ p \in [Time -> Nat] BY Incremented
<1>3. p[t] = r[t] + i /\ \A s \in Time : s # t => p[s] = r[s] OBVIOUS
<1>4. \A s \in Time : q[s] <= p[s]
  <2>1. \A s \in Time : q[s] \in {0, r[s], p[s]}
    <3>1. \A s \in Time : s > t - Window \/ s <= t - Window BY RollingAssumption DEF Time
    <3> QED BY <3>1, Incremented
  <2> QED BY <1>2, <1>3, <2>1
<1> HIDE DEF q, p
<1>5. SumFunctionOnSet(q, Time) <= SumFunctionOnSet(p, Time)
  BY <1>1, <1>2, <1>4, SumGrows
<1>6. SumFunctionOnSet(p, Time) = SumFunctionOnSet(r, Time) + (p[t] - r[t])
  BY <1>1, <1>2, <1>3, SumChanges
<1>7. /\ SumFunctionOnSet(q, Time) \in Nat /\ SumFunctionOnSet(p, Time) \in Nat
      /\ SumFunctionOnSet(r, Time) \in Nat /\ r[t] \in Nat
  BY <1>2, SumNat
<1> QED BY <1>3, <1>5, <1>6, <1>7 DEF q

\* An update is counted at most once: it goes from the call to the channel and
\* from there to numRequests.
LEMMA CountedStep == EvidenceInv /\ [Next]_vars => ReportsCounted'
<1> SUFFICES ASSUME TypeOK, ReportsCounted, [Next]_vars PROVE ReportsCounted'
  BY DEF EvidenceInv
<1> DEFINE total == SumFunctionOnSet(numRequests, Time)
           card  == Cardinality(Reported)
<1>1. /\ IsFiniteSet(Reported) /\ card \in Nat /\ total + Len(updates) <= card
      /\ clock \in Time /\ numRequests \in [Time -> Nat] /\ updates \in Seq(Events)
  BY FS_CardinalityType DEF ReportsCounted, TypeOK
<1>2. total \in Nat /\ Len(updates) \in Nat BY <1>1, SumNat
<1>3. ASSUME NEW c \in Calls, SendUpdate(c) PROVE ReportsCounted'
  <2>1. UNCHANGED numRequests BY <1>3 DEF SendUpdate
  <2>2. Len(updates') <= Len(updates) + 1 /\ Len(updates') \in Nat
    <3>1. updates' = Append(updates, event[c]) \/ updates' = updates BY <1>3 DEF SendUpdate
    <3>2. event[c] \in Events \cup {"none"} BY DEF TypeOK
    <3>3. updates \in Seq(Events \cup {"none"}) BY <1>1
    <3> QED BY <1>2, <3>1, <3>2, <3>3, AppendProperties
  <2>3. IsFiniteSet(Reported') /\ Cardinality(Reported') = card + 1 BY <1>1, <1>3, ReportedGrows
  <2> HIDE DEF total, card
  <2>4. total + Len(updates') <= card + 1 BY <1>1, <1>2, <2>2
  <2> QED BY <2>1, <2>3, <2>4 DEF ReportsCounted, total
<1>4. CASE ReportedKept
  <2>1. Reported' = Reported BY <1>4 DEF ReportedKept
  <2>2. ASSUME SumFunctionOnSet(numRequests', Time) + Len(updates') <= total + Len(updates),
               SumFunctionOnSet(numRequests', Time) \in Nat, Len(updates') \in Nat
        PROVE  ReportsCounted'
    <3>1. SumFunctionOnSet(numRequests', Time) + Len(updates') <= card
      <4> HIDE DEF total, card
      <4> QED BY <1>1, <1>2, <2>2
    <3> QED BY <1>1, <2>1, <3>1 DEF ReportsCounted
  <2>3. CASE CountRequest
    <3>1. /\ numRequests' = Increment(numRequests, 1, clock)
          /\ updates # <<>> /\ updates' = Tail(updates)
      BY <2>3 DEF CountRequest
    <3>2. Len(updates') = Len(updates) - 1 /\ Len(updates') \in Nat
      BY <1>1, <3>1, HeadTailProperties
    <3>3. SumFunctionOnSet(numRequests', Time) <= total + 1
      BY <1>1, <3>1, TotalIncremented
    <3>4. SumFunctionOnSet(numRequests', Time) \in Nat
      <4>1. numRequests' \in [Time -> Nat] BY <1>1, <3>1, Incremented
      <4> QED BY <4>1, SumNat
    <3> HIDE DEF total
    <3> QED BY <1>2, <2>2, <3>2, <3>3, <3>4
  <2>4. CASE NumbersReset
    <3>1. \A s \in Time : numRequests'[s] = 0 BY <2>4 DEF NumbersReset, NewNumber
    <3>2. SumFunctionOnSet(numRequests', Time) = 0 BY <3>1, TimeIsFinite, SumOfZeros
    <3>3. updates' = updates BY <2>4 DEF NumbersReset
    <3> HIDE DEF total
    <3> QED BY <1>2, <2>2, <3>2, <3>3
  <2>5. CASE UNCHANGED <<numRequests, updates>> BY <1>1, <1>2, <2>2, <2>5
  <2>6. CASE \E c \in Calls : SendUpdate(c) BY <1>3, <2>6
  <2>7. NumbersReset \/ CountRequest \/ UNCHANGED <<numRequests, updates>>
          \/ \E c \in Calls : SendUpdate(c)
    BY UpdateSteps
  <2> QED BY <2>3, <2>4, <2>5, <2>6, <2>7
<1> QED BY <1>3, <1>4, ReportSteps

\* Whatever is on its way to errors, or in it, some call reported.
LEMMA UpdatesStep == EvidenceInv /\ [Next]_vars => UpdatesReported' /\ ErrorsReported'
<1> SUFFICES ASSUME TypeOK, EventKnown, IsFiniteSet(Reported), UpdatesReported, ErrorsReported,
                    [Next]_vars
             PROVE  UpdatesReported' /\ ErrorsReported'
  BY DEF EvidenceInv, ReportsCounted
<1>1. /\ ErrorReported => ErrorReported'
      /\ \A e : (\E c \in Reported : event[c] = e) => \E c \in Reported' : event'[c] = e
  BY EvidenceKept
<1>2. updates \in Seq(Events) /\ clock \in Time /\ errors \in [Time -> Nat] BY DEF TypeOK
<1>3. UpdatesReported'
  <2>1. ASSUME updates' = updates, monitor' = monitor PROVE UpdatesReported'
    BY <1>1, <2>1 DEF UpdatesReported
  <2>2. ASSUME NEW c \in Calls, SendUpdate(c) PROVE UpdatesReported'
    <3>1. c \in Reported' /\ event' = event /\ monitor' = monitor
      BY <2>2, ReportedGrows DEF SendUpdate
    <3>2. CASE updates' = updates BY <1>1, <3>1, <3>2 DEF UpdatesReported
    <3>3. CASE updates' = Append(updates, event[c])
      <4>1. event[c] \in Events BY <2>2 DEF SendUpdate, EventKnown
      <4>2. /\ Len(updates') = Len(updates) + 1 /\ updates'[Len(updates) + 1] = event[c]
            /\ \A i \in 1..Len(updates) : updates'[i] = updates[i]
        BY <1>2, <3>3, <4>1, AppendProperties
      <4>3. Len(updates) \in Nat BY <1>2
      <4>4. ASSUME NEW i \in 1..Len(updates') PROVE \E d \in Reported' : event'[d] = updates'[i]
        <5>1. CASE i = Len(updates) + 1 BY <3>1, <4>2, <5>1
        <5>2. CASE i \in 1..Len(updates)
          <6>1. \E d \in Reported : event[d] = updates[i] BY <5>2 DEF UpdatesReported
          <6>2. updates'[i] = updates[i] BY <4>2, <5>2
          <6> QED BY <1>1, <6>1, <6>2
        <5> QED BY <4>2, <4>3, <5>1, <5>2
      <4> QED BY <1>1, <3>1, <4>4 DEF UpdatesReported
    <3> QED BY <2>2, <3>2, <3>3 DEF SendUpdate
  <2>3. CASE CountRequest
    <3>1. /\ updates # <<>> /\ updates' = Tail(updates) /\ monitor' = <<Head(updates)>>
      BY <2>3 DEF CountRequest
    <3>2. /\ Len(updates') = Len(updates) - 1 /\ Len(updates) \in Nat \ {0}
          /\ \A i \in 1..Len(updates') : updates'[i] = updates[i + 1]
          /\ monitor'[1] = updates[1]
      BY <1>2, <3>1, HeadTailProperties
    <3>3. \A i \in 1..Len(updates') : i + 1 \in 1..Len(updates) BY <3>2
    <3>4. \A i \in 1..Len(updates) : \E c \in Reported' : event'[c] = updates[i]
      BY <1>1 DEF UpdatesReported
    <3>5. 1 \in 1..Len(updates) BY <3>2
    <3> QED BY <3>2, <3>3, <3>4, <3>5 DEF UpdatesReported
  <2>4. CASE updates' = updates /\ monitor' = <<>> BY <1>1, <2>4 DEF UpdatesReported
  <2>5. CASE NumbersReset BY <2>1, <2>5 DEF NumbersReset
  <2>6. CASE CountError BY <2>4, <2>6 DEF CountError
  <2>7. CASE Tick BY <2>1, <2>7 DEF Tick, metrics
  <2>8. CASE UNCHANGED <<numRequests, errors, monitor, clock>>
    <3>1. CASE UNCHANGED updates BY <2>1, <2>8, <3>1
    <3> QED BY <2>2, <2>3, <2>5, <2>8, <3>1, UpdateSteps
  <2> QED BY <2>3, <2>5, <2>6, <2>7, <2>8, NumberSteps
<1>4. ErrorsReported'
  <2>1. CASE UNCHANGED errors BY <1>1, <2>1 DEF ErrorsReported
  <2>2. CASE NumbersReset BY <2>2 DEF NumbersReset, NewNumber, ErrorsReported
  <2>3. CASE CountError
    <3> DEFINE i == IF monitor[1] \in ErrorEvents THEN 1 ELSE 0
    <3>1. errors' = Increment(errors, i, clock) /\ i \in Nat /\ monitor # <<>>
      BY <2>3 DEF CountError
    <3>2. i # 0 => ErrorReported' BY <1>1, <3>1 DEF UpdatesReported, ErrorReported
    <3> HIDE DEF i
    <3>3. ASSUME NEW t \in Time, errors'[t] > 0 PROVE errors[t] > 0 \/ i # 0
      <4>1. t > clock - Window \/ t <= clock - Window BY <1>2, RollingAssumption DEF Time
      <4> DEFINE q == Increment(errors, i, clock)
      <4>2. /\ t > clock - Window => q[t] = IF t = clock THEN errors[t] + i ELSE errors[t]
            /\ t <= clock - Window => q[t] \in {0, errors[t]}
        BY <1>2, <3>1, Incremented
      <4>3. errors' = q BY <3>1
      <4> HIDE DEF q
      <4> QED BY <1>2, <3>1, <3>3, <4>1, <4>2, <4>3
    <3> QED BY <1>1, <3>2, <3>3 DEF ErrorsReported
  <2>4. CASE CountRequest BY <2>1, <2>4 DEF CountRequest
  <2>5. CASE Tick BY <2>1, <2>5 DEF Tick, metrics
  <2> QED BY <2>1, <2>2, <2>3, <2>4, <2>5, NumberSteps
<1> QED BY <1>3, <1>4

\* Without an error in the window ErrorPercent is 0.
LEMMA UnhealthyHasError ==
  ASSUME NEW rs \in Nat, NEW es \in Nat, Threshold > 0, ~IsHealthy(rs, es)
  PROVE  es > 0
<1> SUFFICES ASSUME es = 0 PROVE FALSE
  OBVIOUS
<1>1. ErrorPercent(rs, es) >= 1
  <2>1. ErrorPercent(rs, es) \in Int /\ Threshold \in Int BY CircuitAssumption DEF ErrorPercent
  <2> QED BY <2>1 DEF IsHealthy
<1>2. rs > 0 /\ (200 * es + rs) \div (2 * rs) >= 1 BY <1>1 DEF ErrorPercent
<1>3. rs \div (2 * rs) = 0 BY <1>2
<1> QED BY <1>2, <1>3

\* A call that finds too many requests and errors in the window saw reports of
\* them, and until it opens the circuit no step takes that back.
LEMMA JudgementStep ==
  EvidenceInv /\ [Next]_vars => VolumeSeen' /\ ErrorSeen' /\ OpenNeedsEvidence'
<1> SUFFICES ASSUME EvidenceInv, [Next]_vars PROVE VolumeSeen' /\ ErrorSeen' /\ OpenNeedsEvidence'
  OBVIOUS
<1> USE CircuitAssumption
<1>1. /\ Cardinality(Reported) \in Nat /\ Cardinality(Reported') \in Nat
      /\ Cardinality(Reported') >= Cardinality(Reported)
      /\ ErrorReported => ErrorReported'
  BY EvidenceKept DEF EvidenceInv, ReportsCounted
<1> DEFINE enough == Cardinality(Reported) >= Volume
           faulty == Threshold > 0 => ErrorReported
<1>2. /\ enough => Cardinality(Reported') >= Volume
      /\ faulty => (Threshold > 0 => ErrorReported')
  BY <1>1
<1>3. /\ \A c \in Calls : pc[c] \in {"reqs", "errs", "setOpen"} => enough
      /\ \A c \in Calls : pc[c] = "setOpen" => faulty
      /\ open => enough /\ faulty
  BY DEF EvidenceInv, VolumeSeen, ErrorSeen, OpenNeedsEvidence, ErrorReported
<1>4. pc \in [Calls -> PC] BY DEF EvidenceInv, TypeOK
<1> HIDE DEF enough, faulty
\* It is enough to look at who moves on towards opening the circuit.
<1>5. SUFFICES /\ \A c \in Calls : pc'[c] \in {"reqs", "errs", "setOpen"} => enough
               /\ \A c \in Calls : pc'[c] = "setOpen" => faulty
               /\ open' => enough /\ faulty
  BY <1>2 DEF VolumeSeen, ErrorSeen, OpenNeedsEvidence, ErrorReported
<1> DEFINE Goal == /\ \A c \in Calls : pc'[c] \in {"reqs", "errs", "setOpen"} => enough
                   /\ \A c \in Calls : pc'[c] = "setOpen" => faulty
                   /\ open' => enough /\ faulty
<1>6. ASSUME NEW c \in Calls, Call(c) PROVE Goal
  <2>1. CASE CheckVolume(c)
    <3>1. PICK t \in now[c]..clock :
            Goto(c, IF Sum(numRequests, t) < Volume THEN "run" ELSE "reqs")
      BY <2>1 DEF CheckVolume
    <3>2. Sum(numRequests, t) >= Volume => enough
      <4>1. Recent(t) \in SUBSET Time /\ numRequests \in [Time -> Nat] /\ updates \in Seq(Events)
        BY DEF Recent, EvidenceInv, TypeOK
      <4>2. /\ Sum(numRequests, t) <= SumFunctionOnSet(numRequests, Time)
            /\ Sum(numRequests, t) \in Nat /\ SumFunctionOnSet(numRequests, Time) \in Nat
        BY <4>1, TimeIsFinite, SumOfPart, SumNat DEF Sum
      <4>3. SumFunctionOnSet(numRequests, Time) + Len(updates) <= Cardinality(Reported)
        BY DEF EvidenceInv, ReportsCounted
      <4>4. Len(updates) \in Nat BY <4>1
      <4> QED BY <1>1, <4>2, <4>3, <4>4 DEF enough
    <3>3. Sum(numRequests, t) \in Nat BY SumNat DEF Sum, Recent, EvidenceInv, TypeOK
    <3>4. pc'[c] = "reqs" => enough BY <1>4, <3>1, <3>2, <3>3 DEF Goto
    <3>5. /\ pc'[c] \in {"run", "reqs"} /\ \A d \in Calls : d # c => pc'[d] = pc[d]
          /\ open' = open
      BY <1>4, <2>1, <3>1 DEF CheckVolume, Goto, flags
    <3> QED BY <1>3, <3>4, <3>5
  <2>2. CASE SumErrors(c)
    <3>1. /\ pc[c] = "errs" /\ open' = open
          /\ pc' = [pc EXCEPT ![c] = IF IsHealthy(reqs[c], Sum(errors, now[c])) THEN "run" ELSE "setOpen"]
      BY <2>2 DEF SumErrors, Goto, flags
    <3>2. ASSUME ~IsHealthy(reqs[c], Sum(errors, now[c])), Threshold > 0 PROVE ErrorReported
      <4>1. errors \in [Time -> Nat] /\ Recent(now[c]) \in SUBSET Time /\ reqs[c] \in Nat
        BY DEF EvidenceInv, TypeOK, Recent
      <4>2. Sum(errors, now[c]) \in Nat BY <4>1, SumNat DEF Sum
      <4>3. Sum(errors, now[c]) > 0 BY <3>2, <4>1, <4>2, UnhealthyHasError
      <4>4. ~\A t \in Recent(now[c]) : errors[t] = 0
        BY <4>1, <4>3, TimeIsFinite, SumOfZeros DEF Sum
      <4>5. PICK t \in Time : errors[t] > 0 BY <4>1, <4>4
      <4> QED BY <4>5 DEF EvidenceInv, ErrorsReported
    <3>3. pc'[c] = "setOpen" => faulty BY <1>4, <3>1, <3>2 DEF faulty
    <3>4. \A d \in Calls : d # c => pc'[d] = pc[d] BY <1>4, <3>1
    <3> QED BY <1>3, <3>1, <3>3, <3>4
  <2>3. CASE SetOpen(c) BY <1>3, <1>4, <2>3 DEF SetOpen, Goto
  <2>4. CASE SumRequests(c) BY <1>3, <1>4, <2>4 DEF SumRequests, Goto, flags
  <2>5. CASE ReadFlags(c) \/ LoadOpened(c) \/ SwapOpened(c) \/ Finish(c)
    BY <1>3, <1>4, <2>5 DEF ReadFlags, LoadOpened, SwapOpened, Finish, Goto, flags
  <2>6. CASE ReadOpen(c) \/ SetClose(c) \/ ResetMetrics(c) \/ SendUpdate(c)
    BY <1>3, <1>4, <2>6 DEF ReadOpen, SetClose, ResetMetrics, SendUpdate, Goto, flags
  <2> QED BY <1>6, <2>1, <2>2, <2>3, <2>4, <2>5, <2>6 DEF Call
<1>7. ASSUME pc' = pc, open' = open PROVE Goal BY <1>3, <1>7
<1>8. CASE Monitor BY <1>7, <1>8 DEF Monitor, CountRequest, CountError, flags
<1>9. CASE Tick BY <1>7, <1>9 DEF Tick, flags
<1>10. CASE FlushMetrics BY <1>7, <1>10 DEF FlushMetrics
<1>11. ASSUME NEW toggle \in Toggles, ToggleForceOpen(toggle) PROVE Goal
  BY <1>7, <1>11 DEF ToggleForceOpen
<1>12. CASE UNCHANGED vars BY <1>7, <1>12 DEF vars, flags
<1> QED BY <1>6, <1>8, <1>9, <1>10, <1>11, <1>12 DEF Next

\* settings.go:13,17: no circuit is opened without the volume of reports, nor,
\* with a threshold above 0, without a reported error.
THEOREM OpenHasEvidence == Spec => []OpenNeedsEvidence
<1>1. Init => EvidenceInv
  <2> SUFFICES ASSUME Init PROVE EvidenceInv
    OBVIOUS
  <2>1. Reported = {} /\ ~open /\ Len(updates) = 0 /\ monitor = <<>>
    BY EmptySeq DEF Init, Reported
  <2>2. \A t \in Time : numRequests[t] = 0 /\ errors[t] = 0 BY DEF Init, NewNumber
  <2>3. SumFunctionOnSet(numRequests, Time) = 0 BY <2>2, TimeIsFinite, SumOfZeros
  <2>4. ReportsCounted BY <2>1, <2>3, FS_EmptySet DEF ReportsCounted
  <2>5. UpdatesReported /\ ErrorsReported BY <2>1, <2>2 DEF UpdatesReported, ErrorsReported
  <2>6. VolumeSeen /\ ErrorSeen BY DEF Init, VolumeSeen, ErrorSeen
  <2> QED BY InitTypes, <2>1, <2>4, <2>5, <2>6 DEF EvidenceInv, OpenNeedsEvidence
<1>2. EvidenceInv /\ [Next]_vars => EvidenceInv'
  BY TypeStep, CountedStep, UpdatesStep, JudgementStep DEF EvidenceInv
<1>3. EvidenceInv => OpenNeedsEvidence BY DEF EvidenceInv
<1> QED BY <1>1, <1>2, <1>3, PTL DEF Spec

-----------------------------------------------------------------------------
(* A rolling number beside what it was given *)

RollingTypes ==
  /\ second \in Time
  /\ counts \in [Time -> Nat] /\ given \in [Time -> Nat]
  /\ peaks \in [Time -> Nat] /\ seen \in [Time -> Nat]

\* The buckets of the window are right, and an older one is right or gone.
BucketsRight ==
  /\ \A t \in Time : t > second - Window => counts[t] = given[t] /\ peaks[t] = seen[t]
  /\ \A t \in Time : counts[t] \in {0, given[t]} /\ peaks[t] \in {0, seen[t]}

RollingInv == RollingTypes /\ BucketsRight

LEMMA RollingStep == RollingInv /\ [RollingNext]_rollingVars => RollingInv'
<1> SUFFICES ASSUME RollingInv, [RollingNext]_rollingVars PROVE RollingInv'
  OBVIOUS
<1> USE RollingAssumption, AmountsAssumption
<1>1. /\ second \in Time /\ counts \in [Time -> Nat] /\ given \in [Time -> Nat]
      /\ peaks \in [Time -> Nat] /\ seen \in [Time -> Nat]
      /\ BucketsRight
  BY DEF RollingInv, RollingTypes
<1>2. second > second - Window /\ \A t \in Time : t > second - Window \/ t <= second - Window
  BY <1>1 DEF Time
<1>3. ASSUME NEW i \in Amounts, Add(i) PROVE RollingInv'
  <2>1. i \in Nat OBVIOUS
  <2>2. /\ counts' = Increment(counts, i, second) /\ given' = [given EXCEPT ![second] = @ + i]
        /\ UNCHANGED <<second, peaks, seen>>
    BY <1>3 DEF Add
  <2> DEFINE q == Increment(counts, i, second)
  <2>11.
        /\ q \in [Time -> Nat]
        /\ \A t \in Time : t > second - Window => q[t] = IF t = second THEN counts[t] + i ELSE counts[t]
        /\ \A t \in Time : t <= second - Window => q[t] \in {0, counts[t]}
    <3>1. second \in Time /\ counts \in [Time -> Nat] /\ i \in Nat BY <1>1, <2>1
    <3> QED BY <3>1, Incremented, Zenon
  <2>12. counts' = q BY <2>2
  <2> HIDE DEF q
  <2>3. /\ counts' \in [Time -> Nat] /\ given' \in [Time -> Nat]
        /\ \A t \in Time : given'[t] = IF t = second THEN given[t] + i ELSE given[t]
    <3>1. /\ given' \in [Time -> Nat]
          /\ \A t \in Time : given'[t] = IF t = second THEN given[t] + i ELSE given[t]
      BY <1>1, <2>1, <2>2
    <3> QED BY <2>11, <2>12, <3>1
  <2>4. /\ \A t \in Time : t > second - Window =>
             counts'[t] = IF t = second THEN counts[t] + i ELSE counts[t]
        /\ \A t \in Time : t <= second - Window => counts'[t] \in {0, counts[t]}
    BY <2>11, <2>12
  <2>5. \A t \in Time : t > second - Window => counts'[t] = given'[t]
    BY <1>1, <2>3, <2>4 DEF BucketsRight
  <2>6. \A t \in Time : t <= second - Window => counts'[t] \in {0, given'[t]}
    <3>1. \A t \in Time : t <= second - Window => t # second BY <1>1, <1>2 DEF Time
    <3> QED BY <1>1, <2>3, <2>4, <3>1 DEF BucketsRight
  <2>7. RollingTypes' BY <1>1, <2>2, <2>3 DEF RollingTypes
  <2>8. \A t \in Time : counts'[t] \in {0, given'[t]}
    BY <1>2, <2>3, <2>5, <2>6
  <2>9. BucketsRight' BY <1>1, <2>2, <2>5, <2>8 DEF BucketsRight
  <2> QED BY <2>7, <2>9 DEF RollingInv
<1>4. ASSUME NEW n \in Amounts, Peak(n) PROVE RollingInv'
  <2>1. n \in Nat OBVIOUS
  <2>2. /\ peaks' = UpdateMax(peaks, n, second)
        /\ seen' = [seen EXCEPT ![second] = IF n > @ THEN n ELSE @]
        /\ UNCHANGED <<second, counts, given>>
    BY <1>4 DEF Peak
  <2> DEFINE q == UpdateMax(peaks, n, second)
  <2>11.
        /\ q \in [Time -> Nat]
        /\ \A t \in Time : t > second - Window => q[t] = IF t = second THEN Larger(peaks[t], n) ELSE peaks[t]
        /\ \A t \in Time : t <= second - Window => q[t] = 0
    <3>1. second \in Time /\ peaks \in [Time -> Nat] /\ n \in Nat BY <1>1, <2>1
    <3> QED BY <3>1, Updated
  <2>12. peaks' = q BY <2>2
  <2> HIDE DEF q
  <2>3. /\ peaks' \in [Time -> Nat] /\ seen' \in [Time -> Nat]
        /\ \A t \in Time : seen'[t] = IF t = second THEN Larger(seen[t], n) ELSE seen[t]
    <3>1. /\ seen' \in [Time -> Nat]
          /\ \A t \in Time : seen'[t] = IF t = second THEN Larger(seen[t], n) ELSE seen[t]
      BY <1>1, <2>1, <2>2 DEF Larger
    <3> QED BY <2>11, <2>12, <3>1
  <2>4. /\ \A t \in Time : t > second - Window =>
             peaks'[t] = IF t = second THEN Larger(peaks[t], n) ELSE peaks[t]
        /\ \A t \in Time : t <= second - Window => peaks'[t] = 0
    BY <2>11, <2>12
  <2>5. \A t \in Time : t > second - Window => peaks'[t] = seen'[t]
    BY <1>1, <2>3, <2>4 DEF BucketsRight
  <2>6. RollingTypes' BY <1>1, <2>2, <2>3 DEF RollingTypes
  <2>7. \A t \in Time : peaks'[t] \in {0, seen'[t]}
    BY <1>2, <2>4, <2>5
  <2>8. BucketsRight' BY <1>1, <2>2, <2>5, <2>7 DEF BucketsRight
  <2> QED BY <2>6, <2>8 DEF RollingInv
<1>5. CASE NextSecond
  <2>1. second' = second + 1 /\ second' \in Time /\ UNCHANGED <<counts, given, peaks, seen>>
    BY <1>1, <1>5 DEF NextSecond, Time
  <2>2. \A t \in Time : t > second' - Window => t > second - Window
    BY <1>1, <2>1 DEF Time
  <2> QED BY <1>1, <2>1, <2>2 DEF RollingInv, RollingTypes, BucketsRight
<1>6. CASE UNCHANGED rollingVars
  BY <1>6 DEF rollingVars, RollingInv, RollingTypes, BucketsRight
<1> QED BY <1>3, <1>4, <1>5, <1>6 DEF RollingNext

LEMMA RollingInvariant == RollingSpec => []RollingInv
<1>1. RollingInit => RollingInv
  <2>1. 0 \in Time BY RollingAssumption DEF Time
  <2> QED BY <2>1 DEF RollingInit, NewNumber, RollingInv, RollingTypes, BucketsRight
<1> QED BY <1>1, RollingStep, PTL DEF RollingSpec

\* rolling.go:78: Sum has all that was given in the window, and nothing twice.
THEOREM SumIsOfWindow == RollingSpec => []SumOfWindow
<1>1. RollingInv => SumOfWindow
  <2> SUFFICES ASSUME RollingInv PROVE SumOfWindow
    OBVIOUS
  <2> DEFINE near == LastSeconds(Window)
             far  == LastSeconds(Window + 1)
  <2>1. second \in Time /\ counts \in [Time -> Nat] /\ given \in [Time -> Nat] /\ BucketsRight
    BY DEF RollingInv, RollingTypes
  <2>2. far = Recent(second) /\ near \subseteq far
    BY <2>1, RollingAssumption DEF LastSeconds, Recent, Time
  <2>3. IsFiniteSet(near) /\ IsFiniteSet(far) /\ far \subseteq Time
    BY TimeIsFinite DEF LastSeconds
  <2>4. \A t \in near : counts[t] = given[t] BY <2>1 DEF LastSeconds, BucketsRight
  <2> HIDE DEF near, far
  <2>5. SumFunctionOnSet(counts, near) = SumFunctionOnSet(given, near)
    BY <2>1, <2>2, <2>3, <2>4, SumSame
  <2>6. SumFunctionOnSet(counts, near) <= SumFunctionOnSet(counts, far)
    BY <2>1, <2>2, <2>3, SumOfPart
  <2>7. SumFunctionOnSet(counts, far) <= SumFunctionOnSet(given, far)
    <3>1. \A t \in far : counts[t] \in Int /\ given[t] \in Int /\ counts[t] <= given[t]
      BY <2>1, <2>3 DEF BucketsRight
    <3> QED BY <2>3, <3>1, SumGrows
  <2> QED BY <2>2, <2>5, <2>6, <2>7 DEF SumOfWindow, Sum, near, far
<1> QED BY <1>1, RollingInvariant, PTL

\* rolling.go:95: Max is the greatest of what was seen in the window.
THEOREM MaxIsOfWindow == RollingSpec => []MaxOfWindow
<1>1. RollingInv => MaxOfWindow
  <2> SUFFICES ASSUME RollingInv PROVE MaxOfWindow
    OBVIOUS
  <2> DEFINE m == MaxValue(peaks, second)
  <2>1. second \in Time /\ peaks \in [Time -> Nat] /\ seen \in [Time -> Nat] /\ BucketsRight
    BY DEF RollingInv, RollingTypes
  <2>2. second \in Recent(second) /\ Recent(second) \in SUBSET Time
    BY <2>1, RollingAssumption DEF Recent, Time
  <2>3. \E x \in Recent(second) : \A t \in Recent(second) : peaks[t] <= peaks[x]
    <3>1. \A t \in Recent(second) : peaks[t] \in Int BY <2>1, <2>2
    <3>2. IsFiniteSet(Recent(second)) /\ Recent(second) # {} BY <2>2, TimeIsFinite
    <3> QED BY ONLY <3>1, <3>2, GreatestTerm
  <2>4. m \in {peaks[t] : t \in Recent(second)} /\ \A t \in Recent(second) : peaks[t] <= m
    BY <2>3, Zenon DEF MaxValue
  <2>5. PICK x \in Recent(second) : m = peaks[x] BY <2>4
  <2> HIDE DEF m
  <2>6. LastSeconds(Window + 1) = Recent(second) /\ LastSeconds(Window) \subseteq Recent(second)
    BY <2>1, RollingAssumption DEF LastSeconds, Recent, Time
  <2>7. ASSUME NEW t \in LastSeconds(Window) PROVE m >= seen[t]
    <3>1. t \in Recent(second) /\ peaks[t] = seen[t]
      BY <2>1, <2>6 DEF LastSeconds, BucketsRight
    <3>2. m \in Nat /\ peaks[t] \in Nat BY <2>1, <2>2, <2>5, <3>1
    <3> QED BY <2>4, <3>1, <3>2
  <2>8. \E t \in Recent(second) : m = seen[t]
    <3>1. CASE peaks[x] = seen[x] BY <2>5, <3>1
    <3>2. CASE peaks[x] # seen[x]
      <4>1. m = 0 BY <2>1, <2>2, <2>5, <3>2 DEF BucketsRight
      <4>2. peaks[second] = seen[second]
        <5>1. second > second - Window BY <2>1, RollingAssumption DEF Time
        <5> QED BY <2>1, <5>1 DEF BucketsRight
      <4>3. peaks[second] <= 0 /\ peaks[second] \in Nat BY <2>1, <2>2, <2>4, <4>1
      <4> QED BY <2>2, <4>1, <4>2, <4>3
    <3> QED BY <3>1, <3>2
  <2> QED BY <2>6, <2>7, <2>8 DEF MaxOfWindow, m
<1> QED BY <1>1, RollingInvariant, PTL
=============================================================================
