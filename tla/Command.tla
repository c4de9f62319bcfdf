------------------------------ MODULE Command ------------------------------
(***************************************************************************)
(* Executions of one hystrix command: GoC and DoC (hystrix.go) over the    *)
(* executorPool of its circuit (pool.go, pool_metrics.go).                 *)
(*                                                                         *)
(* Each call of GoC starts two goroutines.  "main" asks the circuit, takes *)
(* a ticket and runs the caller's function; "watch" waits for the timer,   *)
(* for the context or for main.  Whoever enters returnOnce first runs the  *)
(* closing sequence: give the ticket back, record an event, run the        *)
(* fallback, deliver the error, report to the circuit.  That sequence is   *)
(* the program counter body[c]; once[c] names the goroutine running it.    *)
(*                                                                         *)
(* The answer of AllowRequest is free here: module Circuit is about it.    *)
(***************************************************************************)
EXTENDS Integers, Sequences, FiniteSets

CONSTANTS
  Cmds,          \* executions (values of type command), one per call of GoC
  Tickets,       \* the tickets newExecutorPool puts in the pool; Max of them
  NoTicket,      \* the nil ticket
  Sync,          \* the executions started by DoC rather than by GoC
  WithFallback,  \* the executions whose caller passed a fallback
  RunErrs,       \* the errors the caller's run function may return
  CtxEnds        \* the ways the callers' contexts may end

CtxErrs == {"canceled", "deadline"}
Errors  == {"failure", "circuitOpen", "maxConcurrency", "timeout"} \cup CtxErrs

ASSUME CommandAssumption ==
  /\ NoTicket \notin Tickets
  /\ IsFiniteSet(Tickets)
  /\ Sync \subseteq Cmds
  /\ WithFallback \subseteq Cmds
  /\ RunErrs \subseteq Errors
  /\ CtxEnds \subseteq CtxErrs

VARIABLES
  ctx,            \* state of the context passed to GoC
  main, watch,    \* program counters of the two goroutines of an execution
  mainErr,        \* the error main brings to returnOnce ("nil": none)
  watchErr,       \* the error watch brings to returnOnce
  once,           \* returnOnce: "free", the goroutine inside it, or "done"
  body,           \* progress of the function passed to returnOnce.Do
  ticketChecked,  \* the flag ticketCond waits for
  ticket,         \* command.ticket; it keeps its value after the return
  pool,           \* contents of the channel executorPool.Tickets
  active,         \* activeCount evaluated for a send that still blocks, else 0
  monitor,        \* the update poolMetrics.Monitor is applying: <<>> or <<n>>
  executed,       \* poolMetrics.Executed
  maxActive,      \* poolMetrics.MaxActiveRequests
  events,         \* command.events
  errChan,        \* command.errChan, capacity 1
  finished,       \* command.finished, capacity 1
  done,           \* DoC's done channel, capacity 1
  result,         \* what the caller received ("pending": nothing yet)
  reports         \* the event lists handed to ReportEvent, oldest first

cmdVars  == <<ctx, main, watch, mainErr, watchErr, once, body>>
poolVars == <<ticketChecked, ticket, pool, active, monitor, executed, maxActive>>
outVars  == <<events, errChan, finished, done, result, reports>>
vars     == <<cmdVars, poolVars, outVars>>

-----------------------------------------------------------------------------
(* Helpers *)

Max == Cardinality(Tickets)

\* Mutant of ActiveCount: the tickets left instead of the tickets out.
ActiveCountOfFree == Cardinality(pool)

ActiveCount == Max - Cardinality(pool)

\* command's mutex is held by returnTicket from its Lock to its Unlock; every
\* other critical section of the mutex is a single step.
Locked(c) == body[c] \in {"return", "sending", "put"}

\* The error handled by the goroutine that is inside returnOnce.
Cause(c) == IF once[c] = "watch" THEN watchErr[c] ELSE mainErr[c]

\* errorWithFallback's event for each error, and "success" for none.
EventType ==
  [nil |-> "success", failure |-> "failure", circuitOpen |-> "short-circuit",
   maxConcurrency |-> "rejected", timeout |-> "timeout",
   canceled |-> "context_canceled", deadline |-> "context_deadline_exceeded"]

\* Mutant of CheckTicket: the Signal is forgotten.
CheckTicketNoSignal(c) ==
  /\ ~Locked(c)
  /\ ticketChecked' = [ticketChecked EXCEPT ![c] = TRUE]
  /\ UNCHANGED body

\* ticketChecked = true; ticketCond.Signal(), under the mutex.
CheckTicket(c) ==
  /\ ~Locked(c)
  /\ ticketChecked' = [ticketChecked EXCEPT ![c] = TRUE]
  /\ body' = [body EXCEPT ![c] = IF @ = "wait" THEN "lock" ELSE @]

-----------------------------------------------------------------------------
Init ==
  /\ ctx = [c \in Cmds |-> "live"]
  /\ main = [c \in Cmds |-> "idle"]
  /\ watch = [c \in Cmds |-> "idle"]
  /\ mainErr = [c \in Cmds |-> "nil"]
  /\ watchErr = [c \in Cmds |-> "nil"]
  /\ once = [c \in Cmds |-> "free"]
  /\ body = [c \in Cmds |-> "none"]
  /\ ticketChecked = [c \in Cmds |-> FALSE]
  /\ ticket = [c \in Cmds |-> NoTicket]
  /\ pool = Tickets
  /\ active = [c \in Cmds |-> 0]
  /\ monitor = <<>>
  /\ executed = 0
  /\ maxActive = 0
  /\ events = [c \in Cmds |-> <<>>]
  /\ errChan = [c \in Cmds |-> <<>>]
  /\ finished = [c \in Cmds |-> FALSE]
  /\ done = [c \in Cmds |-> FALSE]
  /\ result = [c \in Cmds |-> "pending"]
  /\ reports = [c \in Cmds |-> <<>>]

-----------------------------------------------------------------------------
(* The caller and its context *)

\* GoC: create the command and start both goroutines.
GoC(c) ==
  /\ main[c] = "idle"
  /\ main' = [main EXCEPT ![c] = "allow"]
  /\ watch' = [watch EXCEPT ![c] = "select"]
  /\ UNCHANGED <<ctx, mainErr, watchErr, once, body, poolVars, outVars>>

\* The caller's context is cancelled or passes its deadline.  Only watch's
\* select looks at it, so a later end of the context is left out.
CtxDone(c) ==
  /\ watch[c] = "select"
  /\ ctx[c] = "live"
  /\ \E e \in CtxEnds : ctx' = [ctx EXCEPT ![c] = e]
  /\ UNCHANGED <<main, watch, mainErr, watchErr, once, body, poolVars, outVars>>

\* DoC's select takes the done channel.
CallerDone(c) ==
  /\ c \in Sync
  /\ result[c] = "pending"
  /\ done[c]
  /\ done' = [done EXCEPT ![c] = FALSE]
  /\ result' = [result EXCEPT ![c] = "nil"]
  /\ UNCHANGED <<cmdVars, poolVars, events, errChan, finished, reports>>

\* DoC's select, or the caller of GoC, takes an error from errChan.
CallerErr(c) ==
  /\ result[c] = "pending"
  /\ errChan[c] # <<>>
  /\ result' = [result EXCEPT ![c] = Head(errChan[c])]
  /\ errChan' = [errChan EXCEPT ![c] = Tail(@)]
  /\ UNCHANGED <<cmdVars, poolVars, events, finished, done, reports>>

-----------------------------------------------------------------------------
(* The first goroutine *)

\* cmd.circuit.AllowRequest() answers.
AllowRequest(c) ==
  /\ main[c] = "allow"
  /\ \E next \in {"short", "acquire"} : main' = [main EXCEPT ![c] = next]
  /\ UNCHANGED <<ctx, watch, mainErr, watchErr, once, body, poolVars, outVars>>

\* The circuit is open: no ticket will be taken, the nil one may be released.
ShortCircuit(c) ==
  /\ main[c] = "short"
  /\ CheckTicket(c)
  /\ main' = [main EXCEPT ![c] = "do"]
  /\ mainErr' = [mainErr EXCEPT ![c] = "circuitOpen"]
  /\ UNCHANGED <<ctx, watch, watchErr, once, ticket, pool, active, monitor,
                 executed, maxActive, outVars>>

\* The select on executorPool.Tickets receives a ticket.
AcquireTicket(c) ==
  /\ main[c] = "acquire"
  /\ CheckTicket(c)
  /\ \E t \in pool :
       /\ ticket' = [ticket EXCEPT ![c] = t]
       /\ pool' = pool \ {t}
  /\ main' = [main EXCEPT ![c] = "run"]
  /\ UNCHANGED <<ctx, watch, mainErr, watchErr, once, active, monitor,
                 executed, maxActive, outVars>>

\* Mutant of RejectMaxConcurrency: the default leaves ticketChecked unset.
RejectUnchecked(c) ==
  /\ main[c] = "acquire"
  /\ pool = {}
  /\ ~Locked(c)
  /\ main' = [main EXCEPT ![c] = "do"]
  /\ mainErr' = [mainErr EXCEPT ![c] = "maxConcurrency"]
  /\ UNCHANGED <<ctx, watch, watchErr, once, body, poolVars, outVars>>

\* The select takes its default: the pool is empty.
RejectMaxConcurrency(c) ==
  /\ main[c] = "acquire"
  /\ pool = {}
  /\ CheckTicket(c)
  /\ main' = [main EXCEPT ![c] = "do"]
  /\ mainErr' = [mainErr EXCEPT ![c] = "maxConcurrency"]
  /\ UNCHANGED <<ctx, watch, watchErr, once, ticket, pool, active, monitor,
                 executed, maxActive, outVars>>

\* Mutant of RunReturns: DoC's wrapper announces whatever run has returned.
RunReturnsUnchecked(c) ==
  /\ main[c] = "run"
  /\ \E err \in RunErrs \cup {"nil"} :
       /\ mainErr' = [mainErr EXCEPT ![c] = err]
       /\ main' = [main EXCEPT ![c] = IF c \in Sync THEN "announce" ELSE "do"]
  /\ UNCHANGED <<ctx, watch, watchErr, once, body, poolVars, outVars>>

\* run(ctx) returns.  DoC's wrapper still has to announce a success.
RunReturns(c) ==
  /\ main[c] = "run"
  /\ \E err \in RunErrs \cup {"nil"} :
       /\ mainErr' = [mainErr EXCEPT ![c] = err]
       /\ main' = [main EXCEPT ![c] =
                     IF err = "nil" /\ c \in Sync THEN "announce" ELSE "do"]
  /\ UNCHANGED <<ctx, watch, watchErr, once, body, poolVars, outVars>>

\* DoC's wrapper of run: done <- struct{}{}.
RunAnnounces(c) ==
  /\ main[c] = "announce"
  /\ ~done[c]
  /\ done' = [done EXCEPT ![c] = TRUE]
  /\ main' = [main EXCEPT ![c] = "do"]
  /\ UNCHANGED <<ctx, watch, mainErr, watchErr, once, body, poolVars,
                 events, errChan, finished, result, reports>>

\* returnOnce.Do called by main: run the function, or wait for the other
\* goroutine to be through with it.
MainDo(c) ==
  /\ main[c] = "do"
  /\ \/ /\ once[c] = "free"
        /\ once' = [once EXCEPT ![c] = "main"]
        /\ body' = [body EXCEPT ![c] = "lock"]
        /\ main' = [main EXCEPT ![c] = "inOnce"]
     \/ /\ once[c] = "done"
        /\ main' = [main EXCEPT ![c] = "finish"]
        /\ UNCHANGED <<once, body>>
  /\ UNCHANGED <<ctx, watch, mainErr, watchErr, poolVars, outVars>>

\* The deferred cmd.finished <- true.
MainFinish(c) ==
  /\ main[c] = "finish"
  /\ ~finished[c]
  /\ finished' = [finished EXCEPT ![c] = TRUE]
  /\ main' = [main EXCEPT ![c] = "end"]
  /\ UNCHANGED <<ctx, watch, mainErr, watchErr, once, body, poolVars,
                 events, errChan, done, result, reports>>

-----------------------------------------------------------------------------
(* The second goroutine *)

\* <-cmd.finished
WatchFinished(c) ==
  /\ watch[c] = "select"
  /\ finished[c]
  /\ finished' = [finished EXCEPT ![c] = FALSE]
  /\ watch' = [watch EXCEPT ![c] = "end"]
  /\ UNCHANGED <<ctx, main, mainErr, watchErr, once, body, poolVars,
                 events, errChan, done, result, reports>>

\* <-ctx.Done()
WatchCtx(c) ==
  /\ watch[c] = "select"
  /\ ctx[c] # "live"
  /\ watch' = [watch EXCEPT ![c] = "do"]
  /\ watchErr' = [watchErr EXCEPT ![c] = ctx[c]]
  /\ UNCHANGED <<ctx, main, mainErr, once, body, poolVars, outVars>>

\* <-timer.C: the timer may expire at any moment after NewTimer.
WatchTimeout(c) ==
  /\ watch[c] = "select"
  /\ watch' = [watch EXCEPT ![c] = "do"]
  /\ watchErr' = [watchErr EXCEPT ![c] = "timeout"]
  /\ UNCHANGED <<ctx, main, mainErr, once, body, poolVars, outVars>>

\* Mutant of WatchDo: no returnOnce, the function runs a second time.
WatchDoNoOnce(c) ==
  /\ watch[c] = "do"
  /\ once[c] \in {"free", "done"}
  /\ once' = [once EXCEPT ![c] = "watch"]
  /\ body' = [body EXCEPT ![c] = "lock"]
  /\ watch' = [watch EXCEPT ![c] = "inOnce"]
  /\ UNCHANGED <<ctx, main, mainErr, watchErr, poolVars, outVars>>

\* returnOnce.Do called by watch.
WatchDo(c) ==
  /\ watch[c] = "do"
  /\ \/ /\ once[c] = "free"
        /\ once' = [once EXCEPT ![c] = "watch"]
        /\ body' = [body EXCEPT ![c] = "lock"]
        /\ watch' = [watch EXCEPT ![c] = "inOnce"]
     \/ /\ once[c] = "done"
        /\ watch' = [watch EXCEPT ![c] = "end"]
        /\ UNCHANGED <<once, body>>
  /\ UNCHANGED <<ctx, main, mainErr, watchErr, poolVars, outVars>>

-----------------------------------------------------------------------------
(* The function passed to returnOnce.Do *)

\* Mutant of LockForReturn: the ticket is released before it is acquired.
LockForReturnNoWait(c) ==
  /\ body[c] = "lock"
  /\ body' = [body EXCEPT ![c] = "return"]
  /\ UNCHANGED <<ctx, main, watch, mainErr, watchErr, once, poolVars, outVars>>

\* Mutant of LockForReturn: the error is sent before the ticket goes back.
LockForReturnErrorFirst(c) ==
  /\ body[c] = "lock"
  /\ body' = [body EXCEPT ![c] = IF ticketChecked[c] THEN "return" ELSE "wait"]
  /\ errChan' = [errChan EXCEPT ![c] = IF Cause(c) = "nil" THEN @ ELSE <<Cause(c)>>]
  /\ UNCHANGED <<ctx, main, watch, mainErr, watchErr, once, poolVars,
                 events, finished, done, result, reports>>

\* returnTicket: cmd.Lock(), then ticketCond.Wait() until ticketChecked.
LockForReturn(c) ==
  /\ body[c] = "lock"
  /\ body' = [body EXCEPT ![c] = IF ticketChecked[c] THEN "return" ELSE "wait"]
  /\ UNCHANGED <<ctx, main, watch, mainErr, watchErr, once, poolVars, outVars>>

\* Mutant of ReturnTicket: no test for the nil ticket.
ReturnTicketNil(c) ==
  /\ body[c] = "return"
  /\ active' = [active EXCEPT ![c] = ActiveCount]
  /\ body' = [body EXCEPT ![c] = "sending"]
  /\ UNCHANGED <<ctx, main, watch, mainErr, watchErr, once, ticketChecked,
                 ticket, pool, monitor, executed, maxActive, outVars>>

\* executorPool.Return: nothing for a nil ticket, else evaluate the update.
ReturnTicket(c) ==
  /\ body[c] = "return"
  /\ \/ /\ ticket[c] = NoTicket
        /\ body' = [body EXCEPT ![c] = "event"]
        /\ UNCHANGED active
     \/ /\ ticket[c] # NoTicket
        /\ active' = [active EXCEPT ![c] = ActiveCount]
        /\ body' = [body EXCEPT ![c] = "sending"]
  /\ UNCHANGED <<ctx, main, watch, mainErr, watchErr, once, ticketChecked,
                 ticket, pool, monitor, executed, maxActive, outVars>>

\* p.Metrics.Updates <- update: the channel has no buffer, so the send and
\* the receive of poolMetrics.Monitor are one step.
SendPoolUpdate(c) ==
  /\ body[c] = "sending"
  /\ monitor = <<>>
  /\ monitor' = <<active[c]>>
  /\ active' = [active EXCEPT ![c] = 0]
  /\ body' = [body EXCEPT ![c] = "put"]
  /\ UNCHANGED <<ctx, main, watch, mainErr, watchErr, once, ticketChecked,
                 ticket, pool, executed, maxActive, outVars>>

\* p.Tickets <- ticket; cmd.Unlock().  The channel has room for Max tickets.
PutTicket(c) ==
  /\ body[c] = "put"
  /\ pool # Tickets
  /\ pool' = pool \cup {ticket[c]}
  /\ body' = [body EXCEPT ![c] = "event"]
  /\ UNCHANGED <<ctx, main, watch, mainErr, watchErr, once, ticketChecked,
                 ticket, active, monitor, executed, maxActive, outVars>>

\* reportEvent of the first event, in errorWithFallback or on success.
RecordEvent(c) ==
  /\ body[c] = "event"
  /\ events' = [events EXCEPT ![c] = Append(@, EventType[Cause(c)])]
  /\ body' = [body EXCEPT ![c] = IF Cause(c) = "nil" THEN "report"
                                 ELSE IF c \in WithFallback THEN "fallback"
                                 ELSE "deliver"]
  /\ UNCHANGED <<ctx, main, watch, mainErr, watchErr, once, poolVars,
                 errChan, finished, done, result, reports>>

\* The fallback returns nil; DoC's wrapper still has to announce it.
FallbackSucceeds(c) ==
  /\ body[c] = "fallback"
  /\ body' = [body EXCEPT ![c] = IF c \in Sync THEN "announce" ELSE "fallbackOk"]
  /\ UNCHANGED <<ctx, main, watch, mainErr, watchErr, once, poolVars, outVars>>

\* DoC's wrapper of the fallback: done <- struct{}{}.
FallbackAnnounces(c) ==
  /\ body[c] = "announce"
  /\ ~done[c]
  /\ done' = [done EXCEPT ![c] = TRUE]
  /\ body' = [body EXCEPT ![c] = "fallbackOk"]
  /\ UNCHANGED <<ctx, main, watch, mainErr, watchErr, once, poolVars,
                 events, errChan, finished, result, reports>>

\* tryFallback: reportEvent("fallback-success").
RecordFallbackSuccess(c) ==
  /\ body[c] = "fallbackOk"
  /\ events' = [events EXCEPT ![c] = Append(@, "fallback-success")]
  /\ body' = [body EXCEPT ![c] = "report"]
  /\ UNCHANGED <<ctx, main, watch, mainErr, watchErr, once, poolVars,
                 errChan, finished, done, result, reports>>

\* Mutant of FallbackFails: the failed fallback is recorded as a success.
FallbackFailsAsSuccess(c) ==
  /\ body[c] = "fallback"
  /\ events' = [events EXCEPT ![c] = Append(@, "fallback-success")]
  /\ body' = [body EXCEPT ![c] = "deliver"]
  /\ UNCHANGED <<ctx, main, watch, mainErr, watchErr, once, poolVars,
                 errChan, finished, done, result, reports>>

\* The fallback returns an error: reportEvent("fallback-failure").
FallbackFails(c) ==
  /\ body[c] = "fallback"
  /\ events' = [events EXCEPT ![c] = Append(@, "fallback-failure")]
  /\ body' = [body EXCEPT ![c] = "deliver"]
  /\ UNCHANGED <<ctx, main, watch, mainErr, watchErr, once, poolVars,
                 errChan, finished, done, result, reports>>

\* errorWithFallback: c.errChan <- fallbackErr, the original error when there
\* is no fallback, a new one wrapping it when the fallback failed.
DeliverError(c) ==
  /\ body[c] = "deliver"
  /\ Len(errChan[c]) < 1
  /\ errChan' = [errChan EXCEPT ![c] =
       Append(@, IF c \in WithFallback THEN "fallbackFailed" ELSE Cause(c))]
  /\ body' = [body EXCEPT ![c] = "report"]
  /\ UNCHANGED <<ctx, main, watch, mainErr, watchErr, once, poolVars,
                 events, finished, done, result, reports>>

\* reportAllEvent, then the end of returnOnce.Do for the goroutine inside it.
ReportAllEvent(c) ==
  /\ body[c] = "report"
  /\ reports' = [reports EXCEPT ![c] = Append(@, events[c])]
  /\ body' = [body EXCEPT ![c] = "over"]
  /\ once' = [once EXCEPT ![c] = "done"]
  /\ main' = [main EXCEPT ![c] = IF once[c] = "main" THEN "finish" ELSE @]
  /\ watch' = [watch EXCEPT ![c] = IF once[c] = "watch" THEN "end" ELSE @]
  /\ UNCHANGED <<ctx, mainErr, watchErr, poolVars,
                 events, errChan, finished, done, result>>

-----------------------------------------------------------------------------
(* poolMetrics *)

\* Monitor: Executed.Increment(1), MaxActiveRequests.UpdateMax(activeCount).
MonitorApply ==
  /\ monitor # <<>>
  /\ executed' = executed + 1
  /\ maxActive' = IF monitor[1] > maxActive THEN monitor[1] ELSE maxActive
  /\ monitor' = <<>>
  /\ UNCHANGED <<cmdVars, ticketChecked, ticket, pool, active, outVars>>

\* poolMetrics.Reset, called by Flush while executions are still under way.
ResetPoolMetrics ==
  /\ executed > 0
  /\ executed' = 0
  /\ maxActive' = 0
  /\ UNCHANGED <<cmdVars, ticketChecked, ticket, pool, active, monitor, outVars>>

-----------------------------------------------------------------------------
Caller(c) == CallerDone(c) \/ CallerErr(c)

Main(c) ==
  \/ AllowRequest(c) \/ ShortCircuit(c) \/ AcquireTicket(c)
  \/ RejectMaxConcurrency(c) \/ RunAnnounces(c) \/ MainDo(c) \/ MainFinish(c)

Watch(c) == WatchFinished(c) \/ WatchCtx(c) \/ WatchTimeout(c) \/ WatchDo(c)

Body(c) ==
  \/ LockForReturn(c) \/ ReturnTicket(c) \/ SendPoolUpdate(c) \/ PutTicket(c)
  \/ RecordEvent(c) \/ FallbackAnnounces(c) \/ RecordFallbackSuccess(c)
  \/ DeliverError(c) \/ ReportAllEvent(c)

\* Steps of the code the caller passed in: it may never return.
UserCode(c) == RunReturns(c) \/ FallbackSucceeds(c) \/ FallbackFails(c)

Next ==
  \/ \E c \in Cmds :
       GoC(c) \/ CtxDone(c) \/ Caller(c) \/ Main(c) \/ Watch(c) \/ Body(c)
         \/ UserCode(c)
  \/ MonitorApply
  \/ ResetPoolMetrics

Spec == Init /\ [][Next]_vars

\* The Go scheduler runs every goroutine that can run, and the timer expires.
\* Nothing is assumed of the caller's run function, fallback and context.
Fairness ==
  /\ \A c \in Cmds :
       /\ WF_vars(Caller(c)) /\ WF_vars(Main(c)) /\ WF_vars(Watch(c))
       /\ SF_vars(SendPoolUpdate(c)) /\ WF_vars(Body(c))
  /\ WF_vars(MonitorApply)

FairSpec == Spec /\ Fairness

-----------------------------------------------------------------------------
(* Properties *)

MainPC  == {"idle", "allow", "short", "acquire", "run", "announce", "do",
            "inOnce", "finish", "end"}
WatchPC == {"idle", "select", "do", "inOnce", "end"}
BodyPC  == {"none", "lock", "wait", "return", "sending", "put", "event",
            "fallback", "announce", "fallbackOk", "deliver", "report", "over"}
Answers == Errors \cup {"fallbackFailed"}
Events  == {"success", "failure", "short-circuit", "rejected", "timeout",
            "context_canceled", "context_deadline_exceeded",
            "fallback-success", "fallback-failure"}

\* Every variable keeps its type; channels respect their capacities.
TypeOK ==
  /\ ctx \in [Cmds -> CtxErrs \cup {"live"}]
  /\ main \in [Cmds -> MainPC]
  /\ watch \in [Cmds -> WatchPC]
  /\ mainErr \in [Cmds -> Errors \cup {"nil"}]
  /\ watchErr \in [Cmds -> Errors \cup {"nil"}]
  /\ once \in [Cmds -> {"free", "main", "watch", "done"}]
  /\ body \in [Cmds -> BodyPC]
  /\ ticketChecked \in [Cmds -> BOOLEAN]
  /\ ticket \in [Cmds -> Tickets \cup {NoTicket}]
  /\ pool \in SUBSET Tickets
  /\ active \in [Cmds -> Int]
  /\ monitor \in Seq(Int)
  /\ executed \in Nat
  /\ maxActive \in Int
  /\ events \in [Cmds -> Seq(Events)]
  /\ errChan \in [Cmds -> Seq(Answers)]
  /\ finished \in [Cmds -> BOOLEAN]
  /\ done \in [Cmds -> BOOLEAN]
  /\ result \in [Cmds -> Answers \cup {"pending", "nil"}]
  /\ reports \in [Cmds -> Seq(Seq(Events))]

\* The stages of the closing sequence in which a taken ticket is still out.
Holding == {"none", "lock", "wait", "return", "sending", "put"}

\* The execution has taken a ticket that is not yet back in the pool.
Holds(c) == ticket[c] # NoTicket /\ body[c] \in Holding

\* The caller can see that the execution failed: an error waits in errChan, or
\* was extracted from it.
Failed(c) == errChan[c] # <<>> \/ result[c] \in Answers

\* The first events of an execution whose run may have returned nil: main has
\* closed it, or the timer or the context has before run returned.
NilEvents == {"success", "timeout", "context_canceled", "context_deadline_exceeded"}

\* pool.go: tickets are neither lost nor duplicated, whichever goroutine of an
\* execution returns them and however acquiring and timing out interleave:
\* each ticket is in the channel or with exactly one execution.
TicketsConserved ==
  /\ \A t \in Tickets : t \notin pool => \E c \in Cmds : Holds(c) /\ ticket[c] = t
  /\ \A c \in Cmds : Holds(c) => ticket[c] \notin pool
  /\ \A c, d \in Cmds : Holds(c) /\ Holds(d) /\ ticket[c] = ticket[d] => c = d

\* The sends on errChan, finished and the pool, which nobody need receive, never
\* block although they have no select (hystrix.go:117, :280, pool.go:32): there
\* is room for the one value they ever get, or for the ticket.  DoC's two sends
\* on done may have to wait for the caller, who is still in the select of DoC
\* then; that they do not wait for ever is part of GoroutinesEnd.
SendsNeverBlock ==
  \A c \in Cmds :
    /\ body[c] = "deliver" => errChan[c] = <<>>
    /\ main[c] = "finish" => ~finished[c]
    /\ body[c] = "put" => pool # Tickets

\* hystrix.go:106: one goroutine runs errorWithFallback and reportAllEvent.
\* An execution is reported once, with one outcome and at most one fallback
\* event.  An error the caller got is the outcome that is reported.  A nil
\* answer, which only DoC gives, need not be: run may return nil, and announce
\* it on done (hystrix.go:226), after the timer or the context has closed the
\* execution (:180-193).  So nil means that the fallback succeeded, and that is
\* reported; or that run returned nil with a ticket in hand, and the report is
\* a success, a timeout or an end of the context, but no failure and no refusal
\* of the circuit or the pool.
OneOutcome ==
  \A c \in Cmds :
    /\ Len(reports[c]) <= 1 /\ Len(events[c]) <= 2
    /\ reports[c] # <<>> => reports[c] = <<events[c]>>
    /\ result[c] \in Errors => events[c] = <<EventType[result[c]]>>
    /\ result[c] = "fallbackFailed" => events[c][2] = "fallback-failure"
    /\ result[c] = "nil" =>
         \/ /\ mainErr[c] = "nil" /\ ticket[c] # NoTicket
            /\ events[c] # <<>> => events[c][1] \in NilEvents
         \/ Len(events[c]) = 2 /\ events[c][2] = "fallback-success"
         \/ body[c] = "fallbackOk"

\* pool_metrics.go: the active count sent to the monitor is evaluated while
\* the ticket is still out, so it counts the execution itself and no more
\* executions than there are tickets, however long the send blocks.
ActiveCountSound ==
  /\ \A c \in Cmds : body[c] = "sending" => active[c] \in 1..Max
  /\ monitor # <<>> => monitor[1] \in 1..Max
  /\ executed > 0 => maxActive \in 1..Max

\* DoC blocks until it has an answer, and it gets one even if run never
\* returns; only a fallback that never returns can keep it waiting.
CallerAnswered ==
  \A c \in Sync : main[c] # "idle" ~> (result[c] # "pending" \/ body[c] = "fallback")

\* Both goroutines of an execution end unless the caller's code hangs.
GoroutinesEnd ==
  \A c \in Cmds :
    main[c] # "idle" ~> \/ main[c] = "end" /\ watch[c] = "end"
                        \/ main[c] = "run" \/ body[c] = "fallback"

-----------------------------------------------------------------------------
(* The inductive invariant behind TicketsConserved and ImplementsBulkhead *)

\* ticketChecked is the memory of main having passed the ticket decision, and
\* a ticket is only ever taken by that decision.
CheckedIsDecided ==
  \A c \in Cmds :
    /\ ticketChecked[c] <=> main[c] \notin {"idle", "allow", "short", "acquire"}
    /\ ticket[c] # NoTicket => ticketChecked[c]

\* The closing sequence passes returnTicket only after that decision, and it
\* sends to the pool's channels only with a ticket in hand.
BodyAfterCheck ==
  \A c \in Cmds :
    /\ body[c] \notin {"none", "lock", "wait"} => ticketChecked[c]
    /\ body[c] \in {"sending", "put"} => ticket[c] # NoTicket

\* returnOnce: the goroutine inside it is the one executing the sequence.
OnceGuardsBody ==
  \A c \in Cmds :
    /\ once[c] = "free" <=> body[c] = "none"
    /\ once[c] = "done" <=> body[c] = "over"
    /\ once[c] = "main" <=> main[c] = "inOnce"
    /\ once[c] = "watch" <=> watch[c] = "inOnce"
    /\ main[c] = "idle" <=> watch[c] = "idle"

\* The events and the error of an execution agree with how far the sequence is.
AnswersFollowBody ==
  \A c \in Cmds :
    /\ events[c] # <<>> <=>
         body[c] \in {"fallback", "announce", "fallbackOk", "deliver", "report", "over"}
    /\ Failed(c) => body[c] \in {"report", "over"}
    /\ finished[c] => main[c] = "end"

\* Past the first event of a failure, the error being handled is not nil: no
\* step of the goroutine that lost the race changes it.
CauseIsError ==
  \A c \in Cmds :
    /\ body[c] \in {"fallback", "announce", "fallbackOk", "deliver"} => Cause(c) # "nil"
    /\ watch[c] \in {"do", "inOnce"} => watchErr[c] # "nil"

\* The strengthening of TicketsConserved that every step preserves.
CommandInv ==
  /\ TypeOK
  /\ CheckedIsDecided
  /\ BodyAfterCheck
  /\ OnceGuardsBody
  /\ CauseIsError
  /\ AnswersFollowBody
  /\ TicketsConserved

-----------------------------------------------------------------------------
(* Refinement *)

\* The phase an execution has reached in the abstract pool: what its caller can
\* extract from errChan comes first, wherever the closing sequence may be.
Phase(c) ==
  IF Failed(c) THEN "failed"
  ELSE IF body[c] \in Holding THEN "open" ELSE "closed"

B == INSTANCE Bulkhead WITH
       free  <- pool,
       held  <- [c \in Cmds |-> IF Holds(c) THEN ticket[c] ELSE NoTicket],
       phase <- [c \in Cmds |-> Phase(c)]

\* hystrix.go:94, "When the caller extracts error from returned errChan, it's
\* assumed that the ticket's been returned to executorPool": the pool behaves as
\* the abstract bulkhead.  No step of the two goroutines, in any order, takes a
\* ticket after the execution has given up, or puts an error into errChan
\* before the ticket is back.  A nil answer of DoC may come earlier.
ImplementsBulkhead == B!Spec
=============================================================================
