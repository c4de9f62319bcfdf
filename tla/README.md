# Verification of lucbine/scr: hystrix-go, cron and rate

The repository is a reading copy of Go code: an annotated Go 1.14 standard
library under `src/src/` and three concurrent libraries, which are the subject
of this project:

* `src/hystrix-go/hystrix`: circuit breakers and bulkheads around calls of a
  remote service;
* `src/robfig/cron/v3`: a job scheduler;
* `src/rate`: a token bucket.

Paths below are relative to these directories. The standard library is not
modelled (1.9 million lines of third-party code, copied), except where cron
depends on its details: `sync.WaitGroup.Wait` on reuse, taken from the copy in
`src/src/sync/waitgroup.go`, and `time.Date` at a change of the clock, from
`src/src/time/time.go`.

## 1. Inventory

### hystrix: command execution (`hystrix.go`)

`GoC` creates a `command` (ticket, events, `errChan` and `finished` with room
for one value) and starts two goroutines. The first asks the circuit, takes a
ticket from the pool without blocking, and runs the caller's function. The
second waits for the first, for the caller's context or for the timer. Each may
want to close the execution; `returnOnce` admits one, which gives the ticket
back, records an event, runs the fallback, delivers an error and reports to the
circuit. `ticketCond` makes the closing goroutine wait for the decision about
the ticket. `DoC` is `GoC` with a `done` channel and a blocking select.

Hard: the races between timeout, cancellation, acquiring and returning; a
condition variable, a `sync.Once`, four channels and a mutex that is held
during channel sends. Correct means: tickets are neither lost nor duplicated;
one outcome per execution; an error is visible only when the ticket is back, and
is the outcome that is reported; the caller always gets an answer.

### hystrix: executor pool (`pool.go`, `pool_metrics.go`)

State: the buffered channel of tickets; a monitor goroutine behind an unbuffered
channel; two rolling numbers. Operations: `Return`, `ActiveCount`, `Monitor`,
`Reset`. `Return` evaluates the active count, hands it to the monitor (and may
block there), then puts the ticket back.

### hystrix: circuit breaker (`circuit.go`)

State: `open`, `forceOpen`, `openedOrLastTestedTime`, behind an RWMutex that
some accesses bypass (atomics, `toggleForceOpen`). Operations: `AllowRequest`
(`IsOpen`, `allowSingleTest`, `setOpen`), `ReportEvent` (`setClose`),
`toggleForceOpen`.

Hard: `IsOpen` reads the flags, sums the metrics and opens the circuit in
separate critical sections, so that each decision may be stale when it is
applied; `allowSingleTest` swaps atomically under a read lock; `setClose` takes
the metrics mutex inside the circuit mutex. Correct means: one test per sleep
window, no opening without evidence, no deadlock.

### hystrix: metrics (`metrics.go`, `metric_collector/`, `rolling/`)

`metricExchange` has a channel of 2000 updates that drops when full, a monitor
that applies updates to collectors under a read lock, and `Reset`. The default
collector holds eleven rolling numbers, two of which (`numRequests`, `errors`)
decide the health of the circuit, and two rolling timings for the dashboard. A
`rolling.Number` is a map from seconds to values, of which the last ten seconds
are kept.

### hystrix: registry, settings and event stream (`circuit.go`, `settings.go`, `eventstream.go`)

State: the maps of circuits and of settings, each behind an RWMutex, and the
clients of the event stream behind another. `GetCircuit` looks under the read
lock, exchanges it for the write lock, looks again and creates the circuit with
its pool; `getSettings` fills in defaults on first use, in a critical section of
its own; `Flush` empties the registry. Once a second the goroutine of the event
stream walks over the circuits under the read lock and offers two events for
each to every registered HTTP client, whose channel holds ten.

Hard: the exchange of the locks; a second mutex taken inside the first; a
configuration that arrives between the look at the settings and the writing of
the defaults; sends under a lock. Correct means: one circuit, and one pool, per
name between two flushes, of the configured size, and nobody hangs because of a
slow client.

### cron: scheduler (`cron.go`, `constantdelay.go`)

State: the array of entries, `running`, `nextID`, four unbuffered channels, and
the WaitGroup `jobWaiter`. While the scheduler is stopped the API works on the
entries under `runningMu`; while it runs, the API keeps `runningMu` and sends
requests to the goroutine of `run`, which alone touches the entries. `run`
sorts, sets one timer for the first entry, and serves the timer and the four
channels. `Stop` returns a context that is cancelled when the jobs have ended.

Hard: timers that fire while a request is served, restarts while jobs and
waiters of the last period are alive, removal against activation. Correct
means: every activation is started once and on time, a removed entry is not
started, callers do not hang, and the context of `Stop` means what it says.

### cron: wrappers (`chain.go`)

`NewChain(w1, ..., wn).Then(job)` nests wrappers that recover panics, delay or
skip an invocation while another one is running. State: a mutex for each
delaying wrapper, a channel with one token for each skipping one. Hard: panics
that pass through the wrappers. Correct means: no overlap, nothing recovered too
late, no invocation lost but where the wrapper skips it.

### cron: schedules and parser (`spec.go`, `parser.go`)

The parser normalizes the fields of a spec, according to options that make some
of them optional, into six bit sets; `SpecSchedule.Next` finds the next time
that matches them, by loops over month, day, hour, minute and second that reset
what is below them once and start over when a field wraps around. Hard: optional
fields, the two day fields, wrap-arounds, changes of the clock. Correct means:
the first matching time, and a result within five years or none.

### rate: the limiter (`rate.go`)

A token bucket with a mutex: `tokens`, `last`, `lastEvent`. `reserveN` serves
`Allow`, `Reserve` and `Wait`; a reservation can be cancelled and gives back
what later reservations have not built upon. Callers read the time before they
get the mutex; durations are truncated; settings change under way. Correct
means: no more than the rate and the burst, no less than the rate, and a `Wait`
that gives back what it does not use.

## 2. Modules

| module | what it is |
|---|---|
| `Bulkhead` | abstract specification of the ticket pool |
| `Command` | `hystrix.go`, `pool.go`, `pool_metrics.go`; implements `Bulkhead` |
| `CommandProofs` | theorems about `Command` |
| `RollingNumber` | `rolling.go` as operators |
| `Circuit` | `circuit.go`, `metrics.go` over `RollingNumber` |
| `CircuitProofs` | theorems about `Circuit`, `RollingNumber` and `MCRolling` |
| `Registry` | the registry in `circuit.go`, `settings.go`, `eventstream.go` |
| `RegistryProofs` | theorems about `Registry` |
| `Cron` | `cron.go` |
| `CronProofs` | theorems about `Cron` |
| `Chain` | `chain.go` |
| `ChainProofs` | theorems about `Chain` |
| `Parser` | `parser.go` as operators |
| `Schedule` | `spec.go` as a machine, over `Parser` |
| `ParserProofs` | theorems about `Parser` and `Schedule` |
| `Limiter` | `rate.go` |
| `LimiterProofs` | theorems about `Limiter` |
| `SumProofs` | what the proofs about rolling numbers, the circuit and the limiter need to know of sums |
| `MCCommand`, `MCRolling`, `MCCircuit`, `MCCron`, `MCChain`, `MCSchedule` | instances for TLC |

Definitions whose comment begins with "Mutant of" are not part of the model:
each is a plausible bug, and shows that a property notices it.

### Command

One process per goroutine: `main[c]` and `watch[c]` are the program counters of
the two goroutines of execution `c`. The function passed to `returnOnce.Do` is
the same sequence in all five places and is the program counter `body[c]`;
`once[c]` says which goroutine runs it, and `Cause(c)` which error it handles.
A step is a critical section of the command's mutex or one channel operation.
`Return` is three steps (evaluate the active count; rendezvous with the monitor;
put the ticket) during which `Locked(c)` keeps the mutex. Abstracted: the answer
of `AllowRequest` (free; `Circuit` is about it), durations and time stamps, the
windows of the pool's rolling numbers (plain numbers here), and the timer, which
may expire at any moment after it was made. A panic of the caller's function
ends the program and is not modelled.

`Bulkhead` knows an execution as open, closed (it will take no ticket any more) or
failed. `Phase(c)` maps to "failed" as soon as an error is in `errChan` or was taken
from it (`Failed`), wherever `body[c]` is; else to "open" while a ticket taken would
not be back (`Holding`), and to "closed" after. So the refinement claims what
hystrix.go:94 assumes: when the caller extracts an error, the ticket is back. It
claims nothing of `DoC`'s nil: `done` is sent on before `returnOnce` (hystrix.go:226,
:161), so the caller may go on while the ticket is still out.

### RollingNumber and Circuit

An absent bucket and a bucket of 0 are the same to `Sum` and `Max`, so a number
is a function on the seconds of the run. In `Circuit` a call is an execution as
the circuit sees it; a step is a critical section. A call that stays inside a
mutex over several steps holds it by its program counter (the header of the
module lists where). Arguments `time.Now()` are read at some moment between the
call's previous step and the step that uses them, except in `LoadOpened`, where the
clock and `openedOrLastTestedTime` are read at one moment. `CountRequest` is one step
from receiving an update to the first increment; in the code the channel has room for
one update more between the two. A call that is
refused reports a short-circuit, or the timeout or the end of its context if the
second goroutine enters `returnOnce` first (`RefusedEvents`). Seconds (buckets) and
nanoseconds (the sleep window) are one clock. `ErrorPercent` is exact integer
arithmetic for `int(x + 0.5)`. Fallback events and the numbers other than
`numRequests` and `errors` decide nothing and are left out, and so are
collectors other than the default one. `Flush` drops the circuit from the
registry once; executions go on using it. The event stream, too, calls `IsOpen`,
which can trip the circuit: to this module that is a call that goes no further.

### Registry

A step is a critical section. The write lock of the registry is held from
"create" on, across the critical section of the settings in `WriteDefaults`; the
stream holds the read lock while it publishes. The five settings are filled in
alike, so that `MaxConcurrentRequests`, which sizes the pool, stands for them.
`got` is the result of each goroutine's last call, with the number of flushes
before it, and `configured` and `kept` remember the last configuration and
whether the defaults were about to overwrite it: these exist for the properties.
A client of the stream reads at its own pace or not at all. What an event
contains is left out. The mutexes nest in the order registry, circuit, metrics
(and registry, settings), here and in `Circuit`, so that leaving the inner ones
out of `Registry` hides no deadlock.

### Cron

`call` is the API call that holds `runningMu` while it waits for the scheduler
goroutine. A send on an unbuffered channel and the case of the select that
receives it are one step. `sort.Sort` is not stable: `RunSort` allows every
sorted order. `timer` is the deadline of the current timer and `fired` the value
in its channel. `jobs` are the running jobs and `counter` is the counter of the
WaitGroup; `stops[k]` is the goroutine of the k-th `Stop`, with the jobs that
were running at that moment. A waiter that has been released but has not run yet
finds the WaitGroup in use again and panics, as `waitgroup.go` does; `panicked`
ends the program. `JobEnds` is `Done` as a whole: the counter reaching zero and the
release of the waiters are one step, so that the panics of `Add` about its own misuse
(waitgroup.go:94-111) are not modelled. `NextOf` is `Schedule.Next`, of which the model knows what the
interface promises (later than its argument, or zero); the module `Schedule` is
about the real one. Jobs that panic are the business of `Chain`; options are not
modelled.

### Chain

An invocation goes through the layers from the outside in, runs the job and
comes out, returning or panicking; `depth` is how many layers it is inside of.
What a wrapper does before and after the inner job is a step each, `defer`
included: it takes place on both ways out, what is not deferred on the return
only. A panic that leaves the outermost layer ends the program. Which wrapper is
where follows from `Then`, whose loop is the operator `Applied`.

### Parser and Schedule

`Parser` starts from fields that have been split into ranges of numbers. A bit
set is the set of its bits' positions in a word, shifts included, because the
star is the top bit and `getBits` shifts by up to the maximum plus one.
`Schedule` takes one step per round of a loop of `Next`. The calendar is a
constant: days with their dates, hours per day and so on, so that TLC can use a
small one with everything that makes ours hard: months and years of different
length, weeks that fit neither, zones whose clock is put forward and back, also
at midnight. `Date` is `time.Date` with its two lookups of the offset. Clocks are
changed by one hour at full hours (`ChangesAssumption`): the zones that go by other
steps or change at a minute past midnight, as Newfoundland did, are not modelled.
Nanoseconds are dropped by `Next` first and are left out. The meaning of a spec (`Meant`,
`Written`, `Equivalent`, `Matches`) is defined from its text and shares nothing
with the translation of the code.

### Limiter

An operation under `lim.mu` is one step with a time up to `Skew` old; `WaitN` is
check, reservation, and timer or context. Its early errors change nothing and
are no steps. A context without a deadline (rate.go:243) is one whose deadline is later
than any wait of the run. Tokens are integers in units of 1/`Unit` token, so that
`tokensFromDuration` is exact and only `durationFromTokens` truncates, as the
`int64` conversion does (float rounding itself is not modelled); a zero limit
gives the `int64` that amd64 makes of an infinity. `res` is the history of
granted reservations; each is cancelled at most once and not after its use,
which the code leaves to its callers. The history variable `credit` counts what
was given twice, by an operation that sets `lim.last` back or by a `CancelAt`
that restores more than the reservation took. `since` and `uncut` say from which
reservation on the properties count: from the last change of settings (or
cancellation of something reserved before it), and from the last cancellation
that restored anything. SetLimitAt's comment excuses earlier reservations.

## 3. Runs

Bounds are named constants of the `.cfg` files. No passing run checks deadlock
in TLC's sense, because in each system the executions, calls or API calls of the
model may all be over; that nobody hangs is what the liveness properties and
`NoDeadlock` show instead.

* **command_small** (pass, 1.2 million states). Two executions, one ticket: c1 by
  `DoC` with a fallback, c2 by `GoC` without. Two executions on one ticket are
  enough for every race, since executions meet only in the pool and the monitor;
  the theorems cover the rest. `CommandInv` (the inductive invariant),
  `TicketsConserved`, `SendsNeverBlock` (the sends on `errChan`, `finished` and the
  pool; those on `done` may wait for the caller, which is a matter of liveness),
  `OneOutcome`, `ActiveCountSound`, and `ImplementsBulkhead`, which includes that an
  error can be extracted only when the ticket is back (hystrix.go:94). `OneOutcome`
  says of an error that it is the outcome reported. Of a nil it says less, because
  less is true: the fallback has succeeded and that is reported, or run has returned
  nil with a ticket in hand, and the report is a success, or a timeout or an end of
  the context that came before. With one ticket an active count is always 1; that it
  stays within bounds while other tickets move is what the theorem `CountsBounded`
  adds.
* **command_live** (pass). `CallerAnswered`, `GoroutinesEnd`. Fairness: the Go
  scheduler runs goroutines that can run, the timer expires, the caller
  receives. A strongly fair `SendPoolUpdate` says that a sender on the
  unbuffered channel is not overtaken for ever; channels queue senders in order.
  No fairness is assumed of run and fallback, which may hang. Run and fallback fail or
  succeed here, but no context ends (`CtxEnds` is empty): its end leads the second
  goroutine down the path of the timer, and multiplies the state space.
* **rolling_small** (pass). Values given in any of five seconds, window of two:
  `Sum` and `Max` are those of the last `Window` seconds or one more.
* **circuit_small** (pass, 1.4 million states, symmetric in the calls). Three
  calls: one that fails, one that opens, one that competes for the test. A
  window and a sleep window of one second and a clock up to 2 let a bucket age
  and a test become due; a channel of two updates overflows. `SingleTest`,
  `TestInv`, `OpenNeedsEvidence`, `ErrorsFollowRequests`, and `NoDeadlock`:
  someone inside the circuit can always go on. `AllowRequest` and `ReportEvent`
  have no loops, so absence of deadlock is all they need to return.
* **registry_small** (pass, 190 thousand states). Two goroutines race for one
  name, with a flush, two configurations, one client with room for a single
  event. `OneCircuit`, `PoolAsConfigured`, `CallsReturn`. Fairness: goroutines
  and the stream run; strongly for `GetCircuit` and `Flush`, because a writer
  that waits for an RWMutex keeps new readers out. Nothing is assumed of the
  client.
* **cron_small** (pass, 290 thousand states). Two entries, each added at any
  moment on a schedule of one second or on one that no time satisfies, four API
  calls, three seconds: enough for a restart, a removal while due, a second Stop
  while waiting or in a second period, and for an entry that is not due, or never,
  to be added before one that is. `UniqueEntries`, `ContextAfterJobs`,
  `WakeRunsAllDue`, `ActivationSound`, `RemovedNeverStarts`; for more entries and
  calls these are proved. `CallsReturn`, `DueIsStarted`; fairness: time passes,
  goroutines run, jobs return; strong fairness of receiving from the timer,
  because `select` chooses at random among the ready cases and does not ignore
  one for ever. `DueIsStarted` exempts timers set beyond the last second of the
  model.
* **cron_reuse** (violation of `WaitGroupNotReused`). A waiter of `Stop` waits for a
  job; the job ends and releases it; the next activation calls `Add` before the
  waiter has run: `Wait` panics. One way there is Start, Stop while the job runs, and
  Start again before it ends. The trace TLC prints is another: Stop on a scheduler
  that was not started, whose waiter goroutine calls `Wait` only after Start and the
  first activation. The defect is the same, a waiter that is woken while the
  WaitGroup is used anew.
* **chain_small** (pass). All forty chains of up to three wrappers and three
  invocations, any of which panics: two to overlap and one that comes after a
  lost token. `NoOverlap`, `TokenAccount` (the token is lost exactly by a panic
  that nothing within the wrapper recovers), `RecoverContains`, `DelayedRuns`.
  Fairness: goroutines run and jobs end.
* **schedule_small** (pass, 283 thousand states). Years of two months of two or
  three days, weeks of three days, days of four hours, hours of two minutes of
  two seconds; words of eight bits. Every form of range in a field, every set of
  options with up to six fields, every descriptor; and specs whose next
  activation is near, far, on a rare day or never, asked at every second of the
  first year in UTC and at every fifth one in eleven zones: clocks changed within
  a day, at midnight, an hour before it and at the first midnight of a month,
  each in several offsets from Greenwich. `YearLimit` is one. `ParsedAsWritten`,
  `Terminates`, and two invariants about the result. `Exact`: it is the first
  time the text means, unless `Misleading` midnights lie between the first of
  the month Next begins in and there. Two kinds of midnight mislead: one that is
  skipped (0:00 to 1:00), and one that is repeated (1:00 to 0:00) in a zone at
  Greenwich or east of it, where `Date` gives the second. `MidnightHandled`: such a midnight
  costs no more than its own day, unless it is skipped on the first of a month.
* **schedule_month** (violation of `NextActivation`). The midnight before the
  second month is skipped. The loop over the months resets the time to the first
  midnight of the month before and adds a month; west of Greenwich `Date` makes
  an hour before midnight of that, still in the old month, and the next round
  adds a month to that time of the last day. The result is at the end of the
  month that was asked for or, if that has fewer days, in the next year.
* **limiter_small** (pass, 1.5 million states). A limit of two thirds of a token
  per nanosecond (so that durations truncate) and the infinite limit, bursts of
  zero to two, one change of settings, one `WaitN` goroutine, three reservations
  of one token in two nanoseconds with times up to one nanosecond late: a grant
  on top of an owed token, its cancellation and one more grant. `GrantsBounded`
  and `Ledger` bound what is granted from above, `RefillsInFull` from below.
  Larger reservations are in limiter_cancel.
* **limiter_cancel** (violation of `RateBound`). Times in order, settings fixed,
  burst 3. After the cancellation of a large reservation a new one is due before
  an older small one and sets `lastEvent` back; cancelling the new one sets it
  back further; cancelling the old one then restores three tokens for one. Four
  events are granted at the same instant. This is why `GrantsBounded` counts
  between cancellations and `Ledger` allows for the credit.

Disagreements that were read off the code and have no run:

* `DoC` may return nil for an execution that is reported, and counted by the circuit,
  as a timeout or an ended context, even with an error of it in `errChan`: run returns nil after the other goroutine has entered
  `returnOnce`, its wrapper announces that on `done` all the same (hystrix.go:226), and
  the select takes what is there (hystrix.go:247). `OneOutcome` allows for exactly this;
* `DoC` returns nil before the ticket is back, and before the success is reported
  (hystrix.go:226 comes before :161); hystrix.go:94 speaks of errors only, and
  `ImplementsBulkhead` with it;
* a timed-out function keeps running without a ticket, by design (settings.go:11);
* the circuit opens at the threshold, not above it (settings.go:17, metrics.go:149);
* a call that has judged the circuit unhealthy may trip it after another one has
  closed it and reset its metrics: on an empty window, below the volume that
  settings.go:13 asks for (circuit.go:107);
* `allowSingleTest` ignores `forceOpen` (circuit.go:78, :127); a success of a call
  that was admitted before the circuit opened closes it (circuit.go:175);
* `getSettings` may overwrite a configuration with defaults (settings.go:101), as
  `PoolAsConfigured` allows for;
* `Sum` counts the bucket that is ten seconds old and `Increment` deletes it, so
  that counting something can lower a sum (rolling.go:46, :52, :78);
* where a change of the clock skips or repeats a midnight within a month, `Next`
  may miss activations of that day or return a time on the wrong day, although
  spec.go:112-116 speaks of handling it (`MidnightHandled` bounds the damage);
* `New` installs no wrapper although doc.go:178 and cron.go:116 speak of a
  recovering default chain;
* a limiter with a zero limit grants every request within its burst on amd64
  (rate.go:18, :390); a limiter created with `Inf` and then given a finite limit
  starts empty, not "initially full" (rate.go:33).

## 4. Theorems

All theorems hold for every value of the constants under the assumptions named
in the modules (`CommandAssumption`, `RollingAssumption`, `AmountsAssumption`,
`CircuitAssumption`, `RegistryAssumption`, `ChainAssumption`, `CronAssumption`,
`LimiterAssumption`, `ParserAssumption`, `BoundsAssumption`, `ErrorAssumption`,
`QueryAssumption`, `UnitsAssumption`, `DatesAssumption`, `ZonesAssumption`); two
theorems of `LimiterProofs` have a
hypothesis more, given below. Each inductive invariant was model-checked on the
instance of its run before it was proved.

`CommandProofs`:

* `CommandInvariant`: `Spec => []CommandInv`. Conservation alone is not
  inductive: that a ticket goes back at most once rests on `returnOnce`
  (`OnceGuardsBody`), that none is acquired after the return on the memory
  `ticketChecked` (`CheckedIsDecided`, `BodyAfterCheck`); `AnswersFollowBody`
  and `CauseIsError` tie the events and errors to the closing sequence. One lemma per
  conjunct (`TypeStep`, `ControlStep`, `AnswersStep`, `TicketsStep`), each with
  one step per action it can be disturbed by.
* `Conservation`: `Spec => []TicketsConserved`, for any executions and any
  finite set of tickets.
* `Refinement`: `Spec => ImplementsBulkhead`. `BulkheadStep` shows that under
  the invariant each step takes, closes or fails in `Bulkhead`, or stutters:
  `DeliverError` is the only one that fails, and by `AnswersFollowBody` the only one
  that makes an error visible.
* `RoomForSends`: `Spec => []SendsNeverBlock`, a consequence of `CommandInv`.
* `CountsBounded`: `Spec => []ActiveCountSound`; whoever evaluates a count still
  holds its ticket (`CountOfHolder`), and the maximum stays within the bounds
  when it is reset (`CountInv`).
* `OutcomeIsOne`: `Spec => []OneOutcome`. `OutcomeInv` says for each stage of the
  closing sequence which events there are (`Recorded`), that an error under way
  or received goes with them (`Delivered`), and what a value in DoC's channel
  proves (`Announced`); the goroutine inside `returnOnce` keeps the error it
  brought (`CauseKept`). `NilRecorded` bounds what is reported of an execution whose
  run returned nil: the second goroutine closes for a timeout or a context only.

`CircuitProofs`:

* `TestInvariant`: `Spec => []TestInv`: for a call between load and swap the
  read lock keeps the circuit open, so that only other tests can have moved the
  time, and forward.
* `OneTestPerWindow`: `Spec => SingleTest`, and `TimeOfTestForward`:
  `Spec => OpenedForward`, both from that invariant.
* `CircuitTypeOK`: `Spec => []TypeOK`. A call that is about to report knows its
  event (`EventKnown`), and no time is past the last second of the run.
* `ErrorsHaveRequests`: `Spec => []ErrorsFollowRequests`. The property allows one
  error more than requests; that this does not add up, second after second and
  reset after reset, is `SplitOnce`: the allowance is used up only while no
  update is half counted. The monitor counts the request first, and a new bucket
  starts at zero because no second to come has one (`NothingAhead`).
* `OpenHasEvidence`: `Spec => []OpenNeedsEvidence`. `ReportsCounted` charges each
  request that is counted or queued to another call that has ended, so that a
  volume seen in `IsOpen` was reported; `ErrorsReported` and `UpdatesReported`
  trace a counted error through the monitor and the channel to its call. What a
  call has read stays true until it opens the circuit (`VolumeSeen`,
  `ErrorSeen`), although the numbers may be reset meanwhile.
* `SumIsOfWindow` and `MaxIsOfWindow`: `RollingSpec => []SumOfWindow` and
  `RollingSpec => []MaxOfWindow`. By `BucketsRight` the buckets of the window
  hold what was given, and an older one holds that or nothing.

`RegistryProofs`: the inductive invariant `IInv` is `TypeOK` and

* `LockInv`: at most one goroutine holds the write lock, and none while the
  stream reads; a goroutine that creates a circuit has found none, and it stays
  that way because of the lock (lemma `LockStep`);
* `ResultsPast`: results are older than the present, so that a `Flush` or a new
  circuit cannot make an old result current again;
* `OneCircuit` itself (lemma `ResultsStep`);
* `SettingsInv`: what is in the settings is what was configured, or the default
  where `kept` says so (lemma `SettingsStep`).

It gives `RegistryTypeOK`, `OneCircuitPerName` and `PoolSize`
(`Spec => PoolAsConfigured`), for any number of goroutines, names and clients.

`ChainProofs`: the invariant ties `layers` to the chain that was given
(`Then` is the identity on a chain, whatever its length), says for each delaying
layer that its mutex is held by the one invocation inside it and for each
skipping layer that whoever is inside has taken the token, and that no panic is
on its way outside of a Recover. It gives `OneAtATime` (`Spec => []NoOverlap`),
`TokenAccounted` and `PanicsContained`, for every chain and any invocations.

`CronProofs`: the properties are not inductive one by one, because each rests
on what two of the API, the scheduler goroutine and the jobs know of each other.
`IInv` adds to them:

* `EntriesKnown`, `Pending`: IDs in the array were given out and not removed, and
  the ID that an `AddJob` in flight carries is new (the scheduler appends it
  later than the API chose it);
* `TimesPast`, `StartedPast`: the next time of an entry is later than every start
  of it. Hence a job that starts is neither running nor waited for (`DueIsNew`),
  `Counted` (jobWaiter's counter is the number of running jobs) survives the
  start, and when `Wait` sees zero, nothing that the context waits for is left
  (`ContextStep`);
* `Alive`: there is a scheduler goroutine exactly while `running`;
* `Order`: from the sort to the end of a wake-up the entries are in the order of
  their next times, the ones already passed are not due, and a start moves only
  the times behind the loop.

It gives `OneEntryPerID`, `ContextWaits`, `RemovedStaysOut`, `StartedOnce` and
`NothingDueLeft`, for any schedules, entries, API calls and restarts. That
schedules answer with a later time or none is part of `CronAssumption`.

`LimiterProofs`:

* `SleeperOwns`: `Spec => []TypeOK`. The part of `TypeOK` that is not about types
  says that a `WaitN` that sleeps has a reservation that is still kept; the
  invariant needs that no two sleep on the same one, and that the arithmetic of
  `advance` and the conversions stays within the integers for any limit, zero
  and infinite ones included.
* For the rest, `StepAccounted` sorts the steps by what they do to the account:
  quiet or refused ones, one that grants, one that cancels and restores, one
  under the infinite limit, and a change of settings; every step of every
  operation is one of these.
* `LedgerHolds`: `Spec => []Ledger`, for any limits. `LedgerInv` says the same of
  the bucket at `lim.last`; that what `advance` makes of it later keeps to the
  limit, truncated durations included, is `AdvanceBound`.
* `GrantsWithinRate`: `Spec => []GrantsBounded`, where no limit is zero
  (`PositiveLimits`; a zero limit grants everything on amd64, see above). For
  every reservation p since the last cancellation, `Recorded(p)` bounds what was
  granted from p on by the bucket of today and `Spread(p, q)` what was granted
  from p to q by their times; the former makes the latter inductive.
* `NothingHeldBack`: `Spec => []RefillsInFull`, where no limit is zero and the
  zero `time.Time` is so long ago that any bucket has filled since
  (`ZeroTimeLongAgo`; in the code it is the year 1). `RefillInv`: the limiter was
  never used, or it is full, or it has lost nothing since some reservation.

`SumProofs` has the lemmas about `SumFunctionOnSet`, a fold that picks elements
in an order nobody knows: it equals any element plus the sum of the rest
(`SumTakes`), and is monotonic in the values and in the set. The induction
theorems of the library are out of reach, so each proof takes a least set for
which the claim fails (`LeastSet`).

`ParserProofs`: `RangeAsWritten` and `FieldAsWritten` compare what `getRange` and
`getField` compute with what the text means, for any bounds that fit into a word
with room for the star, and any numbers: the shifts of `getBits` leave the bits
from start to end (`ShiftsLeaveRange`), its loop every step-th (`LoopSetsSteps`),
errors are given for exactly the ranges that are not proper, and one of them
spoils the field. `BitsAsWritten`, `Spec => []ParsedAsWritten`, is about Parse as
a whole: `NormalizedAsWritten` that `normalizeFields` puts every field where the
options mean it, by counting the places before it with and without the optional
one; `DescriptorFields` that a descriptor is the expression in its comment;
`BitsStep` that `Next` leaves the bits alone. It assumes the bounds to begin where
spec.go:22-48 begins them, and options that `NewParser` accepts.

`FirstMatchFound`, `Spec => []Exact`, is about `Next`: for any calendar, any valid
spec, any time and any zone, it finds the first time after the given one that the
text means, and none only if there is none within the limit, where no midnight
misleads it. Assumed are a calendar of months of days in order, years that end
with a month, and days beyond the limit (`DatesAssumption`), offsets of less than
a day (`ZonesAssumption`) and clocks that are changed at full hours, back more
than a day after forward (`ChangesAssumption`); units may have any length that
leaves the top bit of a word to the star.

The proof does not follow the time Next returns but a time it must not come past,
a `Goal`: one that matches or lies beyond the limit, where `Date` finds all
midnights on the way (`DayBegins`). The inductive invariant `NextInv` says, for
every goal, that Next has not come past it and has passed over no time that
matches (`Looking`), that the loop it is in has the fields above matched
(`Passed`), and that once a field was incremented each field matches or is at the
first value of its unit, with all below it (`Aligned`). The last one is why only
the first round of a loop resets: without it a later round would start from the
middle of a unit and pass over times that match. A goal before the result would
contradict this; the first time that matches is one, and if there is none, the
midnight of the last day is.

What changes of the clock do is in four lemmas. `HoursInOrder`: the hours the clock
shows never decrease when counted from the first year, and only an hour is shown
twice. `HourUnchanged`: within an hour the clock is not changed, so that minutes
and seconds need no resets by `Date`. `MidnightFound`: a midnight that is neither
skipped nor repeated is found by `Date`, and all times before it are on earlier
days. `HourFound`: where an hour is shown twice, the reset of the loop over the hours
may land in either, which is why `Round` allows Next to go back within an hour
that does not match, even to before the time it was given. One lemma per loop says
what a round does (`MonthRound`, `DayRound`, `HourRound`, `MinuteRound`,
`SecondRound`, the last four over `RoundInDay`); `PassedAgain` that a loop which
has not wrapped around still has the fields above matched, so the return to WRAP
comes soon enough; `InCalendar` and `SearchedDated` that the search stays within
the calendar; `HitsAreMatches` that the bits match the times the text means,
because no field of a time is as large as the bit of the star.

`MidnightsHandled`, `Spec => []MidnightHandled`, is about the midnights that do
mislead Next, if none that is skipped is the first of a month (`Spared`). It
assumes besides that a day has more than two hours and that the seconds and the
minutes a spec can name are on the clock (`ClockAssumption`). Its invariant
`KeptInv` follows all times Next has to find at once: an `Aim` is a time that
matches on a day whose midnight does not mislead, and Next has passed none
(`Kept`). What the invariant of `FirstMatchFound` says of the fields is weakened to
what remains true after such a midnight. `NextDay` may lead to 1:00 of the day
that begins there, or to 23:00 of the day before, because the hour it adds or
subtracts undoes what `Date` chose; the next round leads on from either (`Beside`,
in `Settled`). And the loops over the hours, minutes and seconds may go on from the
day before to a day that does not match, since none of them comes to an hour 0
that would send it to WRAP: then they find a time of that very day (`Astray`, in
`Came`) or leave it. `Since` bounds how far the first reset may lead back: to the
same hour, or to the day of the given time where that does not match.
`SkippedDay` and `NotBad` say what is known of the calendar around such a
midnight, `PastSkipped` and `ToSkipped` where `Date` leads there, and one lemma per
loop that a round keeps to all aims (`MonthKept`, `DayKept`, `HourKept`,
`MinuteKept`, `SecondKept`). Where `Next` ends it is at no time beyond an aim, and
at a time that matches or on a misleading day (`EndKept`). The condition on the
first of a month is needed: schedule_month shows what happens without it.

Only model-checked: the liveness properties and `NoDeadlock` (fairness and
ENABLED are out of the prover's reach).

## 5. Not modelled, and what is left

Every concurrent part of the three libraries, the parser and the schedule are
modelled. Left is a composition of `Command` and `Circuit`: today `Command` takes
the answer of `AllowRequest` as free, which includes every answer `Circuit` can
give.

Not modelled: rolling timings (percentiles for the dashboard: nothing decides by
them); the parser's handling of text (splitting, names of months and weekdays,
`TZ=`, `@every`), options and loggers, metric collectors other than the default
one, HTTP and the contents of events, the standard library,
`ntunnel_mysql.php` and the demonstration tests.
