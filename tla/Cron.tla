-------------------------------- MODULE Cron --------------------------------
(***************************************************************************)
(* The cron scheduler (robfig/cron/v3/cron.go): its API, the goroutine of  *)
(* run, the timer, the jobs and the WaitGroup that Stop's context waits    *)
(* for.                                                                    *)
(*                                                                         *)
(* runningMu serialises the API.  A call that finds the scheduler stopped  *)
(* is one step; one that finds it running keeps the mutex while it waits   *)
(* to hand its request to the goroutine, and is the variable call.  The    *)
(* channels have no buffer, so a send and the case of run's select that    *)
(* receives it are one step.                                               *)
(*                                                                         *)
(* Time is in seconds from 1 on; 0 is Go's zero time.                      *)
(***************************************************************************)
EXTENDS Integers, Sequences, FiniteSets

CONSTANTS
  Schedules,     \* the schedules jobs are added with
  NextOf(_, _),  \* Schedule.Next
  MaxEntries,    \* bound on calls of Schedule
  MaxCalls,      \* bound on the other calls of the API
  MaxTime        \* bound on the clock

Time == 1..MaxTime
IDs  == 1..MaxEntries

\* cron.go:44: Next is later than its argument; zero if there is no such time.
ASSUME CronAssumption ==
  /\ MaxEntries \in Nat /\ MaxCalls \in Nat /\ MaxTime \in Nat \ {0}
  /\ \A s \in Schedules, t \in Time : NextOf(s, t) \in Nat /\ (NextOf(s, t) = 0 \/ NextOf(s, t) > t)

VARIABLES
  clock,
  running,              \* Cron.running
  call,                 \* the API call holding runningMu: <<>> or <<kind, arg>>
  nextID, entries,      \* Cron.nextID; Cron.entries as the sequence of IDs
  schedule, next, prev, \* fields of the entry with an ID, one schedule per call of Schedule
  sched,                \* program counter of the goroutine of run
  now,                  \* run's now
  at,                   \* index of run's loop over the due entries
  timer, fired,         \* deadline of the timer, value in timer.C (0: none)
  jobs,                 \* running jobs, <<ID, time started>>
  counter,              \* counter of jobWaiter
  stops,                \* per call of Stop: jobs it must wait for, state of its goroutine
  removed,              \* IDs that Remove has returned for
  panicked,             \* the runtime has stopped the program
  calls                 \* API calls so far, for MaxCalls

apiVars   == <<running, call, nextID, calls, removed>>
entryVars == <<entries, schedule, next, prev>>
runVars   == <<sched, now, at, timer, fired>>
jobVars   == <<jobs, counter, stops, panicked>>
vars      == <<clock, apiVars, entryVars, runVars, jobVars>>

-----------------------------------------------------------------------------
(* Helpers *)

\* Mutant of Less: zero is the earliest time.
LessZeroFirst(s, t) == s < t

\* byTime.Less on the times of two entries: zero times come last.
Less(s, t) == s # 0 /\ (t = 0 \/ s < t)

\* The orders sort.Sort, which is not stable, may leave the entries in.
Sorted(seq) == \A i, j \in 1..Len(seq) : i < j => ~Less(next[seq[j]], next[seq[i]])
Ids(seq)    == {seq[i] : i \in 1..Len(seq)}
SortedEntries ==
  {seq \in [1..Len(entries) -> Ids(entries)] : Ids(seq) = Ids(entries) /\ Sorted(seq)}

\* Mutant of RemoveEntry: the new slice is never assigned to c.entries.
RemoveNothing(id) == entries

\* removeEntry: every entry but that of the ID, which has one (UniqueEntries),
\* in their order.
RemoveEntry(id) ==
  LET gone == CHOOSE i \in 1..Len(entries) : entries[i] = id
  IN  IF id \notin Ids(entries) THEN entries
      ELSE [i \in 1..(Len(entries) - 1) |-> entries[IF i < gone THEN i ELSE i + 1]]

\* Mutant of Due: an entry is not due at its next time, only after it.
DueAfter(id) == next[id] # 0 /\ next[id] < now

Due(id) == next[id] # 0 /\ next[id] <= now

\* Leave the inner loop of run: a new timer is made after the next sort.
Resort == sched' = "sort" /\ timer' = 0 /\ fired' = 0 /\ at' = 0

MayCall == ~panicked /\ call = <<>> /\ calls < MaxCalls

\* The goroutine of run is at a place of its loop, in a program that is alive.
At(place) == ~panicked /\ sched = place

-----------------------------------------------------------------------------
Init ==
  /\ clock = 1
  /\ running = FALSE /\ call = <<>> /\ nextID = 0 /\ calls = 0 /\ removed = {}
  /\ entries = <<>>
  /\ schedule = <<>> /\ next = [id \in IDs |-> 0] /\ prev = [id \in IDs |-> 0]
  /\ sched = "off" /\ now = 1 /\ at = 0 /\ timer = 0 /\ fired = 0
  /\ jobs = {} /\ counter = 0 /\ stops = <<>> /\ panicked = FALSE

Tick ==
  /\ ~panicked /\ clock < MaxTime
  /\ clock' = clock + 1
  /\ UNCHANGED <<apiVars, entryVars, runVars, jobVars>>

-----------------------------------------------------------------------------
(* The API *)

\* Mutant of Schedule: the entry is appended also when it is sent to run.
ScheduleBoth(s) ==
  /\ ~panicked /\ call = <<>> /\ nextID < MaxEntries
  /\ nextID' = nextID + 1
  /\ schedule' = Append(schedule, s)
  /\ call' = IF running THEN <<"add", nextID + 1>> ELSE <<>>
  /\ entries' = Append(entries, nextID + 1)
  /\ UNCHANGED <<clock, running, calls, removed, next, prev, runVars, jobVars>>

Schedule(s) ==
  /\ ~panicked /\ call = <<>> /\ nextID < MaxEntries
  /\ nextID' = nextID + 1
  /\ schedule' = Append(schedule, s)
  /\ IF running
     THEN call' = <<"add", nextID + 1>> /\ UNCHANGED entries
     ELSE entries' = Append(entries, nextID + 1) /\ UNCHANGED call
  /\ UNCHANGED <<clock, running, calls, removed, next, prev, runVars, jobVars>>

Remove(id) ==
  /\ MayCall /\ calls' = calls + 1
  /\ id <= nextID   \* an ID that Schedule returned
  /\ IF running
     THEN call' = <<"remove", id>> /\ UNCHANGED <<entries, removed>>
     ELSE /\ entries' = RemoveEntry(id)
          /\ removed' = removed \cup {id}
          /\ UNCHANGED call
  /\ UNCHANGED <<clock, running, nextID, schedule, next, prev, runVars, jobVars>>

\* Entries, and Entry by way of it; a stopped Cron is only read.
Entries ==
  /\ MayCall /\ running
  /\ calls' = calls + 1
  /\ call' = <<"snapshot", 0>>
  /\ UNCHANGED <<clock, running, nextID, removed, entryVars, runVars, jobVars>>

\* Start, or Run in the goroutine of its caller.
Start ==
  /\ MayCall /\ calls' = calls + 1
  /\ running' = TRUE
  /\ sched' = IF running THEN sched ELSE "init"
  /\ UNCHANGED <<clock, call, nextID, removed, entryVars, now, at, timer, fired, jobVars>>

\* The goroutine Stop starts will call jobWaiter.Wait.
NewContext == stops' = Append(stops, [owed |-> jobs, state |-> "new"])

Stop ==
  /\ MayCall /\ calls' = calls + 1
  /\ IF running
     THEN call' = <<"stop", 0>> /\ UNCHANGED stops
     ELSE NewContext /\ UNCHANGED call
  /\ UNCHANGED <<clock, running, nextID, removed, entryVars, runVars, jobs, counter, panicked>>

-----------------------------------------------------------------------------
(* run *)

\* Figure out the next activation times for each entry.
RunInit ==
  /\ At("init")
  /\ now' = clock
  /\ next' = [id \in IDs |->
                IF id \in Ids(entries) THEN NextOf(schedule[id], clock) ELSE next[id]]
  /\ sched' = "sort"
  /\ UNCHANGED <<clock, apiVars, entries, schedule, prev, at, timer, fired, jobVars>>

\* Sort the entries and set the timer for the first, if it has a next time.
RunSort ==
  /\ At("sort")
  /\ entries' \in SortedEntries
  /\ timer' = IF entries' = <<>> \/ next[entries'[1]] = 0 THEN 0
              ELSE clock + (next[entries'[1]] - now)
  /\ sched' = "select"
  /\ UNCHANGED <<clock, apiVars, schedule, next, prev, now, at, fired, jobVars>>

\* The runtime sends the current time on timer.C.
TimerFires ==
  /\ ~panicked /\ timer # 0 /\ timer <= clock
  /\ fired' = clock /\ timer' = 0
  /\ UNCHANGED <<clock, apiVars, entryVars, sched, now, at, jobVars>>

\* case now = <-timer.C
RunWake ==
  /\ At("select") /\ fired # 0
  /\ now' = fired /\ fired' = 0
  /\ sched' = "wake" /\ at' = 1
  /\ UNCHANGED <<clock, apiVars, entryVars, timer, jobVars>>

\* Mutant of RunDue: the timer is taken as being for every entry.
RunEvery ==
  /\ At("wake") /\ at <= Len(entries)
  /\ LET id == entries[at] IN
       /\ jobs' = jobs \cup {<<id, now>>}
       /\ counter' = counter + 1
       /\ prev' = [prev EXCEPT ![id] = next[id]]
       /\ next' = [next EXCEPT ![id] = NextOf(schedule[id], now)]
  /\ at' = at + 1
  /\ UNCHANGED <<clock, apiVars, entries, schedule, sched, now, timer, fired, stops, panicked>>

\* Mutant of RunDue: startJob without jobWaiter.Add.
RunUncounted ==
  /\ At("wake") /\ at <= Len(entries)
  /\ LET id == entries[at] IN
       /\ Due(id)
       /\ jobs' = jobs \cup {<<id, now>>}
       /\ prev' = [prev EXCEPT ![id] = next[id]]
       /\ next' = [next EXCEPT ![id] = NextOf(schedule[id], now)]
  /\ at' = at + 1
  /\ UNCHANGED <<clock, apiVars, entries, schedule, sched, now, timer, fired,
                 counter, stops, panicked>>

\* The loop over the entries: startJob, Prev, Next.
RunDue ==
  /\ At("wake") /\ at <= Len(entries)
  /\ LET id == entries[at] IN
       /\ Due(id)
       /\ jobs' = jobs \cup {<<id, now>>}
       /\ counter' = counter + 1
       /\ prev' = [prev EXCEPT ![id] = next[id]]
       /\ next' = [next EXCEPT ![id] = NextOf(schedule[id], now)]
  /\ at' = at + 1
  /\ UNCHANGED <<clock, apiVars, entries, schedule, sched, now, timer, fired, stops, panicked>>

\* The loop breaks at the first entry that is not due, or ends.
RunDone ==
  /\ At("wake")
  /\ at <= Len(entries) => ~Due(entries[at])
  /\ Resort
  /\ UNCHANGED <<clock, apiVars, entryVars, now, jobVars>>

\* case newEntry := <-c.add
RunAdd ==
  /\ At("select") /\ call # <<>> /\ call[1] = "add"
  /\ now' = clock
  /\ next' = [next EXCEPT ![call[2]] = NextOf(schedule[call[2]], clock)]
  /\ entries' = Append(entries, call[2])
  /\ call' = <<>>
  /\ Resort
  /\ UNCHANGED <<clock, running, nextID, calls, removed, schedule, prev, jobVars>>

\* case id := <-c.remove
RunRemove ==
  /\ At("select") /\ call # <<>> /\ call[1] = "remove"
  /\ now' = clock
  /\ entries' = RemoveEntry(call[2])
  /\ removed' = removed \cup {call[2]}
  /\ call' = <<>>
  /\ Resort
  /\ UNCHANGED <<clock, running, nextID, calls, schedule, next, prev, jobVars>>

\* Mutant of RunSnapshot: nothing is sent on replyChan.
RunNoReply ==
  /\ At("select") /\ call # <<>> /\ call[1] = "snapshot"
  /\ UNCHANGED vars

\* case replyChan := <-c.snapshot: the timer stays as it is.
RunSnapshot ==
  /\ At("select") /\ call # <<>> /\ call[1] = "snapshot"
  /\ call' = <<>>
  /\ UNCHANGED <<clock, running, nextID, calls, removed, entryVars, runVars, jobVars>>

\* case <-c.stop: run returns, then Stop clears running and makes the context.
RunStop ==
  /\ At("select") /\ call # <<>> /\ call[1] = "stop"
  /\ sched' = "off" /\ timer' = 0 /\ fired' = 0 /\ at' = 0
  /\ running' = FALSE
  /\ call' = <<>>
  /\ NewContext
  /\ UNCHANGED <<clock, nextID, calls, removed, entryVars, now, jobs, counter, panicked>>

-----------------------------------------------------------------------------
(* Jobs and jobWaiter *)

SetStop(k, s) == stops' = [stops EXCEPT ![k].state = s]

\* A job returns: Done.  The counter reaching 0 releases the blocked waiters.
JobEnds(j) ==
  /\ ~panicked /\ j \in jobs
  /\ jobs' = jobs \ {j}
  /\ counter' = counter - 1
  /\ stops' = [k \in DOMAIN stops |->
                 IF counter = 1 /\ stops[k].state = "blocked"
                 THEN [stops[k] EXCEPT !.state = "released"] ELSE stops[k]]
  /\ UNCHANGED <<clock, apiVars, entryVars, runVars, panicked>>

\* Mutant of WaitCalled: the context is cancelled without waiting.
CancelAtOnce(k) ==
  /\ ~panicked /\ stops[k].state = "new"
  /\ SetStop(k, "done")
  /\ UNCHANGED <<clock, apiVars, entryVars, runVars, jobs, counter, panicked>>

\* Wait: return at once, and cancel the context, or block.
WaitCalled(k) ==
  /\ ~panicked /\ stops[k].state = "new"
  /\ SetStop(k, IF counter = 0 THEN "done" ELSE "blocked")
  /\ UNCHANGED <<clock, apiVars, entryVars, runVars, jobs, counter, panicked>>

\* Wait wakes up, and panics if the WaitGroup is in use again; else cancel.
WaitReturns(k) ==
  /\ ~panicked /\ stops[k].state = "released"
  /\ LET reused == counter # 0 \/ \E i \in DOMAIN stops : stops[i].state = "blocked" IN
       /\ panicked' = reused
       /\ SetStop(k, IF reused THEN "released" ELSE "done")
  /\ UNCHANGED <<clock, apiVars, entryVars, runVars, jobs, counter>>

-----------------------------------------------------------------------------
API ==
  \/ \E s \in Schedules : Schedule(s)
  \/ \E id \in IDs : Remove(id)
  \/ Entries \/ Start \/ Stop

Run ==
  \/ RunInit \/ RunSort \/ RunWake \/ RunDue \/ RunDone
  \/ RunAdd \/ RunRemove \/ RunSnapshot \/ RunStop

Waiter(k) == WaitCalled(k) \/ WaitReturns(k)

Next ==
  \/ Tick \/ API \/ Run \/ TimerFires
  \/ \E j \in jobs : JobEnds(j)
  \/ \E k \in DOMAIN stops : Waiter(k)

Spec == Init /\ [][Next]_vars

\* Time passes; the goroutines and the timers make progress and jobs return.
\* select picks fairly among its ready cases: a timer that has fired is
\* received although API calls keep coming.
Fairness ==
  /\ WF_vars(Tick)
  /\ WF_vars(Run)
  /\ SF_vars(RunWake)
  /\ SF_vars(TimerFires)
  /\ WF_vars(\E j \in jobs : JobEnds(j))
  /\ \A k \in 1..MaxCalls : WF_vars(k \in DOMAIN stops /\ Waiter(k))

FairSpec == Spec /\ Fairness

-----------------------------------------------------------------------------
(* Properties *)

\* Every variable keeps its type: no entry, job or time from outside the run,
\* and jobWaiter's counter never goes below zero.
TypeOK ==
  /\ clock \in Time
  /\ running \in BOOLEAN /\ nextID \in 0..MaxEntries /\ calls \in 0..MaxCalls
  /\ call = <<>> \/ call \in {"add", "remove", "snapshot", "stop"} \X (IDs \cup {0})
  /\ removed \subseteq IDs
  /\ entries \in Seq(IDs)
  /\ schedule \in Seq(Schedules) /\ Len(schedule) = nextID
  /\ next \in [IDs -> Nat] /\ prev \in [IDs -> Nat]
  /\ sched \in {"off", "init", "sort", "select", "wake"}
  /\ now \in Time /\ at \in Nat /\ timer \in Nat /\ fired \in Time \cup {0}
  /\ jobs \subseteq (IDs \X Time) /\ counter \in Nat
  /\ \A k \in DOMAIN stops : stops[k].state \in {"new", "blocked", "released", "done"}
  /\ panicked \in BOOLEAN

\* cron.go:288: "Run every entry whose next time was less than now": the loop
\* stops at the first entry that is not due, and no due entry is behind it.
WakeRunsAllDue ==
  [][sched = "wake" /\ sched' # "wake" =>
       \A id \in Ids(entries) : next[id] = 0 \/ next[id] > now]_vars

\* A job starts at or after its activation time, for an activation later than
\* the last one it started for, and only while the scheduler runs: timers that
\* fire late, restarts and concurrent API calls never repeat an activation.
ActivationSound ==
  [][\A j \in jobs' \ jobs :
       LET id == j[1] IN
         /\ running
         /\ next[id] \in (prev[id] + 1)..clock
         /\ prev'[id] = next[id]]_vars

\* cron.go:216: "Remove an entry from being run in the future": once Remove has
\* returned, or Schedule not yet, the job is not started.
RemovedNeverStarts ==
  [][\A j \in jobs' \ jobs : j[1] <= nextID /\ j[1] \notin removed]_vars

\* cron.go:49: an ID belongs to one entry.
UniqueEntries == \A i, j \in 1..Len(entries) : entries[i] = entries[j] => i = j

\* cron.go:342: "A context is returned so the caller can wait for running jobs
\* to complete": when the context of a Stop is done, every job that was running
\* at that Stop has returned, also when the scheduler was restarted meanwhile.
ContextAfterJobs ==
  \A k \in DOMAIN stops : stops[k].state = "done" => stops[k].owed \cap jobs = {}

\* An API call gets its answer from the scheduler goroutine.
CallsReturn == call # <<>> ~> (call = <<>> \/ panicked)

\* An entry that is due is started (its next time moves on), unless it is
\* removed or Cron is stopped first, or the timer is set past the last time of
\* the model: no later entry, unsatisfiable entry or API call starves it.
DueIsStarted ==
  \A id \in IDs, t \in Time :
    (id \in Ids(entries) /\ running /\ next[id] = t /\ t <= clock)
      ~> (next[id] # t \/ id \notin Ids(entries) \/ ~running \/ timer > MaxTime \/ panicked)

\* sync/waitgroup.go:66: "new Add calls must happen after all previous Wait
\* calls have returned": the runtime never finds jobWaiter misused.
WaitGroupNotReused == ~panicked
=============================================================================
