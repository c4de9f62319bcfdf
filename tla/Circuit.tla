------------------------------ MODULE Circuit ------------------------------
(***************************************************************************)
(* One circuit breaker: CircuitBreaker (circuit.go) over its               *)
(* metricExchange (metrics.go) and the two rolling numbers of the default  *)
(* collector that decide its health.                                       *)
(*                                                                         *)
(* A call is one command execution as the circuit sees it: AllowRequest,   *)
(* then, if admitted, the run, then ReportEvent.  A step of a call is one  *)
(* critical section; a call that stays inside a mutex over several steps   *)
(* holds it by its program counter:                                        *)
(*   circuit.mutex: read-held at "cas" (allowSingleTest), write-held at    *)
(*     "reset" (setClose waiting for the metrics);                         *)
(*   metrics.Mutex: read-held at "errs" (ErrorPercent) and by Monitor      *)
(*     between its increments.                                             *)
(* Seconds and nanoseconds are one clock that ticks at any moment.         *)
(***************************************************************************)
EXTENDS RollingNumber, Sequences, FiniteSets

CONSTANTS
  Calls,       \* executions of this command
  Outcomes,    \* the first events an admitted execution may report
  Volume,      \* Settings.RequestVolumeThreshold
  Threshold,   \* Settings.ErrorPercentThreshold
  SleepWindow, \* Settings.SleepWindow
  UpdatesCap,  \* capacity of metricExchange.Updates, 2000 in the code
  Toggles,     \* the arguments toggleForceOpen is called with
  Flushes      \* TRUE if Flush may reset the metrics of this circuit

ErrorEvents == {"failure", "rejected", "short-circuit", "timeout"}
OtherEvents == {"success", "context_canceled", "context_deadline_exceeded"}

\* What a call that is refused may report: the goroutine that waits for the timer
\* or for the context may enter returnOnce before the one that was refused.
RefusedEvents ==
  {"short-circuit"} \cup
  (Outcomes \cap {"timeout", "context_canceled", "context_deadline_exceeded"})

ASSUME CircuitAssumption ==
  /\ Outcomes \subseteq ErrorEvents \cup OtherEvents
  /\ Volume \in Nat
  /\ Threshold \in Int \ {0}
  /\ SleepWindow \in Nat
  /\ UpdatesCap \in Nat
  /\ Toggles \subseteq BOOLEAN
  /\ Flushes \in BOOLEAN

VARIABLES
  clock,               \* time.Now()
  registered,          \* no Flush has dropped the circuit from the registry
  open, forceOpen,     \* the flags of the CircuitBreaker
  opened,              \* openedOrLastTestedTime
  numRequests, errors, \* numbers of the DefaultMetricCollector
  updates,             \* the buffered channel metricExchange.Updates
  monitor,             \* event Monitor is between two increments of, or <<>>
  pc,                  \* program counter of a call
  reqs,                \* ErrorPercent's reqs
  now,                 \* the latest time.Now() of the call
  loaded,              \* allowSingleTest's openedOrLastTestedTime
  event                \* the call's first event ("none": not yet known)

flags    == <<registered, open, forceOpen, opened>>
metrics  == <<numRequests, errors, updates, monitor>>
locals   == <<reqs, now, loaded, event>>
vars     == <<clock, flags, metrics, pc, locals>>

-----------------------------------------------------------------------------
(* Locks and helpers *)

CircuitReaders == {c \in Calls : pc[c] = "cas"}
CircuitWriter  == {c \in Calls : pc[c] = "reset"}
MetricsReaders == {c \in Calls : pc[c] = "errs"}

CanRLock == CircuitWriter = {}
CanLock  == CircuitWriter = {} /\ CircuitReaders = {}
CanReset == MetricsReaders = {} /\ monitor = <<>>

Goto(c, to) == pc' = [pc EXCEPT ![c] = to]

\* int(errs / reqs * 100 + 0.5), in exact arithmetic; 0 without requests.
ErrorPercent(rs, es) == IF rs > 0 THEN (200 * es + rs) \div (2 * rs) ELSE 0

IsHealthy(rs, es) == ErrorPercent(rs, es) < Threshold

-----------------------------------------------------------------------------
Init ==
  /\ clock = 0
  /\ registered = TRUE
  /\ open = FALSE /\ forceOpen = FALSE /\ opened = 0
  /\ numRequests = NewNumber /\ errors = NewNumber
  /\ updates = <<>> /\ monitor = <<>>
  /\ pc = [c \in Calls |-> "idle"]
  /\ reqs = [c \in Calls |-> 0]
  /\ now = [c \in Calls |-> 0]
  /\ loaded = [c \in Calls |-> 0]
  /\ event = [c \in Calls |-> "none"]

Tick ==
  /\ clock < MaxTime
  /\ clock' = clock + 1
  /\ UNCHANGED <<flags, metrics, pc, locals>>

-----------------------------------------------------------------------------
(* AllowRequest *)

\* IsOpen: read forceOpen and open under the read lock.
ReadFlags(c) ==
  /\ pc[c] = "idle" /\ CanRLock
  /\ now' = [now EXCEPT ![c] = clock]
  /\ Goto(c, IF forceOpen \/ open THEN "test" ELSE "volume")
  /\ UNCHANGED <<clock, flags, metrics, reqs, loaded, event>>

\* IsOpen: too few requests to judge by.  The argument of Sum is read before
\* Sum runs, at some time since the call's last step.
CheckVolume(c) ==
  /\ pc[c] = "volume"
  /\ \E t \in now[c]..clock :
       Goto(c, IF Sum(numRequests, t) < Volume THEN "run" ELSE "reqs")
  /\ now' = [now EXCEPT ![c] = clock]
  /\ UNCHANGED <<clock, flags, metrics, reqs, loaded, event>>

\* ErrorPercent: RLock, and the first of its two sums; both are over the
\* argument of IsHealthy, which was read before.
SumRequests(c) ==
  /\ pc[c] = "reqs"
  /\ \E t \in now[c]..clock :
       /\ reqs' = [reqs EXCEPT ![c] = Sum(numRequests, t)]
       /\ now' = [now EXCEPT ![c] = t]
  /\ Goto(c, "errs")
  /\ UNCHANGED <<clock, flags, metrics, loaded, event>>

\* Mutant of SumErrors: the circuit is opened before the RUnlock.
SumErrorsHolding(c) ==
  /\ pc[c] = "errs"
  /\ \/ /\ IsHealthy(reqs[c], Sum(errors, now[c]))
        /\ Goto(c, "run") /\ UNCHANGED <<open, opened>>
     \/ /\ ~IsHealthy(reqs[c], Sum(errors, now[c])) /\ CanLock
        /\ Goto(c, "test") /\ open' = TRUE /\ opened' = clock
  /\ UNCHANGED <<clock, registered, forceOpen, metrics, locals>>

\* ErrorPercent: the second sum; RUnlock; IsHealthy decides.
SumErrors(c) ==
  /\ pc[c] = "errs"
  /\ Goto(c, IF IsHealthy(reqs[c], Sum(errors, now[c])) THEN "run" ELSE "setOpen")
  /\ UNCHANGED <<clock, flags, metrics, locals>>

SetOpen(c) ==
  /\ pc[c] = "setOpen" /\ CanLock
  /\ open' = TRUE
  /\ opened' = IF open THEN opened ELSE clock
  /\ Goto(c, "test")
  /\ UNCHANGED <<clock, registered, forceOpen, metrics, locals>>

\* Mutant of LoadOpened: a circuit that is only forced open is tested too.
LoadOpenedForced(c) ==
  /\ pc[c] = "test" /\ CanRLock
  /\ now' = [now EXCEPT ![c] = clock]
  /\ loaded' = [loaded EXCEPT ![c] = opened]
  /\ \/ /\ clock > opened + SleepWindow
        /\ Goto(c, "cas")
        /\ UNCHANGED event
     \/ /\ clock <= opened + SleepWindow
        /\ Goto(c, "report")
        /\ \E e \in RefusedEvents : event' = [event EXCEPT ![c] = e]
  /\ UNCHANGED <<clock, flags, metrics, reqs>>

\* allowSingleTest: RLock, read the clock and the time, decide to try.
LoadOpened(c) ==
  /\ pc[c] = "test" /\ CanRLock
  /\ now' = [now EXCEPT ![c] = clock]
  /\ loaded' = [loaded EXCEPT ![c] = opened]
  /\ \/ /\ open /\ clock > opened + SleepWindow
        /\ Goto(c, "cas")
        /\ UNCHANGED event
     \/ /\ ~(open /\ clock > opened + SleepWindow)
        /\ Goto(c, "report")
        /\ \E e \in RefusedEvents : event' = [event EXCEPT ![c] = e]
  /\ UNCHANGED <<clock, flags, metrics, reqs>>

\* Mutant of SwapOpened: a store instead of the compare and swap.
StoreOpened(c) ==
  /\ pc[c] = "cas"
  /\ opened' = now[c]
  /\ Goto(c, "run")
  /\ UNCHANGED <<clock, registered, open, forceOpen, metrics, locals>>

\* allowSingleTest: CompareAndSwapInt64; RUnlock.
SwapOpened(c) ==
  /\ pc[c] = "cas"
  /\ \/ /\ opened = loaded[c]
        /\ opened' = now[c]
        /\ Goto(c, "run")
        /\ UNCHANGED event
     \/ /\ opened # loaded[c]
        /\ Goto(c, "report")
        /\ \E e \in RefusedEvents : event' = [event EXCEPT ![c] = e]
        /\ UNCHANGED opened
  /\ UNCHANGED <<clock, registered, open, forceOpen, metrics, reqs, now, loaded>>

\* The admitted execution ends, by whichever goroutine of module Command.
Finish(c) ==
  /\ pc[c] = "run"
  /\ \E e \in Outcomes : event' = [event EXCEPT ![c] = e]
  /\ Goto(c, "report")
  /\ UNCHANGED <<clock, flags, metrics, reqs, now, loaded>>

-----------------------------------------------------------------------------
(* ReportEvent *)

\* Read open under the read lock.
ReadOpen(c) ==
  /\ pc[c] = "report" /\ CanRLock
  /\ Goto(c, IF event[c] = "success" /\ open THEN "setClose" ELSE "send")
  /\ UNCHANGED <<clock, flags, metrics, locals>>

\* setClose: Lock; nothing to do if another call closed the circuit.
SetClose(c) ==
  /\ pc[c] = "setClose" /\ CanLock
  /\ open' = FALSE
  /\ Goto(c, IF open THEN "reset" ELSE "send")
  /\ UNCHANGED <<clock, registered, forceOpen, opened, metrics, locals>>

\* Mutant of ResetMetrics: the errors are not reset with the requests.
ResetRequestsOnly(c) ==
  /\ pc[c] = "reset" /\ CanReset
  /\ numRequests' = NewNumber
  /\ Goto(c, "send")
  /\ UNCHANGED <<clock, flags, errors, updates, monitor, locals>>

\* setClose: metrics.Reset() gets its lock; both mutexes are released.
ResetMetrics(c) ==
  /\ pc[c] = "reset" /\ CanReset
  /\ numRequests' = NewNumber /\ errors' = NewNumber
  /\ Goto(c, "send")
  /\ UNCHANGED <<clock, flags, updates, monitor, locals>>

\* Mutant of SendUpdate: the channel's capacity is ignored.
SendUpdateAlways(c) ==
  /\ pc[c] = "send"
  /\ updates' = Append(updates, event[c])
  /\ Goto(c, "end")
  /\ UNCHANGED <<clock, flags, numRequests, errors, monitor, locals>>

\* The non-blocking send: the update is dropped when the channel is full.
SendUpdate(c) ==
  /\ pc[c] = "send"
  /\ updates' = IF Len(updates) < UpdatesCap THEN Append(updates, event[c]) ELSE updates
  /\ Goto(c, "end")
  /\ UNCHANGED <<clock, flags, numRequests, errors, monitor, locals>>

-----------------------------------------------------------------------------
(* metricExchange.Monitor, Flush and toggleForceOpen *)

\* Receive an update, RLock, numRequests.Increment(1).
CountRequest ==
  /\ monitor = <<>> /\ updates # <<>>
  /\ monitor' = <<Head(updates)>>
  /\ updates' = Tail(updates)
  /\ numRequests' = Increment(numRequests, 1, clock)
  /\ UNCHANGED <<clock, flags, errors, pc, locals>>

\* Mutant of CountError: whatever is not a success is an error.
CountUnsuccessful ==
  /\ monitor # <<>>
  /\ errors' = Increment(errors, IF monitor[1] # "success" THEN 1 ELSE 0, clock)
  /\ monitor' = <<>>
  /\ UNCHANGED <<clock, flags, numRequests, updates, pc, locals>>

\* errors.Increment, which reads the clock anew; RUnlock.
CountError ==
  /\ monitor # <<>>
  /\ errors' = Increment(errors, IF monitor[1] \in ErrorEvents THEN 1 ELSE 0, clock)
  /\ monitor' = <<>>
  /\ UNCHANGED <<clock, flags, numRequests, updates, pc, locals>>

\* Flush: metrics.Reset(), and the registry forgets the circuit, which
\* executions still use.
FlushMetrics ==
  /\ Flushes /\ registered /\ CanReset
  /\ registered' = FALSE
  /\ numRequests' = NewNumber /\ errors' = NewNumber
  /\ UNCHANGED <<clock, open, forceOpen, opened, updates, monitor, pc, locals>>

\* The flag is written without the circuit's mutex, also after a Flush by a
\* toggle that got the circuit from GetCircuit before it.
ToggleForceOpen(toggle) ==
  /\ forceOpen' = toggle
  /\ UNCHANGED <<clock, registered, open, opened, metrics, pc, locals>>

-----------------------------------------------------------------------------
Call(c) ==
  \/ ReadFlags(c) \/ CheckVolume(c) \/ SumRequests(c) \/ SumErrors(c)
  \/ SetOpen(c) \/ LoadOpened(c) \/ SwapOpened(c) \/ Finish(c)
  \/ ReadOpen(c) \/ SetClose(c) \/ ResetMetrics(c) \/ SendUpdate(c)

Monitor == CountRequest \/ CountError

Next ==
  \/ \E c \in Calls : Call(c)
  \/ Monitor
  \/ Tick
  \/ FlushMetrics
  \/ \E toggle \in Toggles : ToggleForceOpen(toggle)

Spec == Init /\ [][Next]_vars

-----------------------------------------------------------------------------
(* Properties *)

PC == {"idle", "volume", "reqs", "errs", "setOpen", "test", "cas", "run",
       "report", "setClose", "reset", "send", "end"}

Events == ErrorEvents \cup OtherEvents

\* Every variable keeps its type, the channel its capacity, and no bucket or
\* recorded time lies outside the seconds of the run.
TypeOK ==
  /\ clock \in Time
  /\ registered \in BOOLEAN
  /\ open \in BOOLEAN /\ forceOpen \in BOOLEAN /\ opened \in Time
  /\ numRequests \in [Time -> Nat] /\ errors \in [Time -> Nat]
  /\ updates \in Seq(Events) /\ Len(updates) <= UpdatesCap
  /\ monitor \in Seq(Events) /\ Len(monitor) <= 1
  /\ pc \in [Calls -> PC]
  /\ reqs \in [Calls -> Nat]
  /\ now \in [Calls -> Time] /\ loaded \in [Calls -> Time]
  /\ event \in [Calls -> Events \cup {"none"}]

\* circuit.go:121-133: an open circuit lets one call through per sleep window:
\* whoever is admitted by allowSingleTest moves openedOrLastTestedTime on by
\* more than the window, on a circuit that is still open.  Two callers that
\* load the same time, or an opening in between, never both get through.
SingleTest ==
  [][\A c \in Calls : pc[c] = "cas" /\ pc'[c] = "run" =>
       open /\ opened' > opened + SleepWindow]_vars

\* Nothing but an opening and a test moves openedOrLastTestedTime, and it never
\* runs backwards although tests carry a time read before the swap.
OpenedForward == [][opened' >= opened]_vars

\* settings.go:13,17: however the checks of concurrent calls interleave with
\* resets, an open circuit has seen at least Volume reports of executions and
\* among them an error.
Reported == {c \in Calls : pc[c] = "end"}
OpenNeedsEvidence ==
  open => /\ Cardinality(Reported) >= Volume
          /\ Threshold > 0 => \E c \in Reported : event[c] \in ErrorEvents

\* metrics.go: errors are counted after their requests, so over the seconds
\* both numbers keep, from any second on, the errors exceed the requests by at
\* most the one update that a change of second split.
From(r, t) == SumFunctionOnSet(r, {s \in Time : s >= t})
ErrorsFollowRequests ==
  \A t \in Time : t > clock - Window => From(errors, t) <= From(numRequests, t) + 1

\* circuit.go:152-163: setClose waits for the metrics mutex inside the circuit
\* mutex.  While some AllowRequest or ReportEvent has not returned, one of them
\* or the monitor can go on; as none of them has a loop, all of them return.
Inside == {c \in Calls : pc[c] \notin {"idle", "run", "end"}}
NoDeadlock ==
  Inside # {} => (\E c \in Inside : ENABLED Call(c)) \/ ENABLED Monitor

-----------------------------------------------------------------------------
(* The inductive invariant behind SingleTest and OpenedForward *)

\* While a call is between its load and its swap, the read lock keeps the
\* circuit open, and only another test can have moved the time.
SwapReady ==
  \A c \in Calls : pc[c] = "cas" =>
    open /\ loaded[c] <= opened /\ now[c] > loaded[c] + SleepWindow

\* No recorded time is in the future.
TimesPast == opened <= clock /\ \A c \in Calls : now[c] <= clock

\* What every step preserves and SingleTest and OpenedForward need: the order
\* of loaded, opened, now and clock for the calls inside allowSingleTest.
TestInv ==
  /\ clock \in Nat /\ opened \in Nat /\ open \in BOOLEAN
  /\ pc \in [Calls -> PC]
  /\ now \in [Calls -> Nat] /\ loaded \in [Calls -> Nat]
  /\ SwapReady
  /\ TimesPast

=============================================================================
