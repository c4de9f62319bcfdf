---------------------------- MODULE CronProofs ----------------------------
(***************************************************************************)
(* Proofs about the scheduler of Cron, for any schedules, any number of    *)
(* entries and API calls, and any length of a run.                         *)
(***************************************************************************)
EXTENDS Cron, TLAPS, FiniteSetTheorems

States == {"new", "blocked", "released", "done"}

\* stops is a sequence of the goroutines of Stop.
Goroutine  == [owed : SUBSET (IDs \X Time), state : States]
StopsTyped == stops \in Seq(Goroutine)

\* What is in the array was given an ID and not removed.
EntriesKnown ==
  /\ removed \subseteq 1..nextID
  /\ \A i \in 1..Len(entries) : entries[i] \in (1..nextID) \ removed

\* The ID an API call sends is one it was given; an added one is new.
Pending ==
  call # <<>> =>
    /\ call[1] = "add" => /\ call[2] = nextID /\ nextID \in IDs \ removed
                          /\ \A i \in 1..Len(entries) : entries[i] # nextID
    /\ call[1] = "remove" => call[2] \in 1..nextID

\* The goroutine is there exactly if running says so.
Alive == running <=> sched # "off"

\* run's times are not in the future, and an activation is before the next.
TimesPast ==
  /\ now <= clock /\ fired <= clock
  /\ \A id \in IDs : prev[id] <= clock /\ (next[id] = 0 \/ prev[id] < next[id])

\* A job that was started at a time is not due at that time or before it again.
NotAgain(j) == j[2] <= clock /\ (next[j[1]] = 0 \/ j[2] < next[j[1]])

StartedPast ==
  /\ \A j \in jobs : NotAgain(j)
  /\ \A k \in DOMAIN stops : \A j \in stops[k].owed : NotAgain(j)

\* jobWaiter counts the jobs.
Counted == IsFiniteSet(jobs) /\ counter = Cardinality(jobs)

\* The entries wait in order; the ones a wake-up has passed are not due.
InOrder(from) ==
  \A i, j \in from..Len(entries) : i < j => ~Less(next[entries[j]], next[entries[i]])

Order ==
  /\ sched = "select" => InOrder(1)
  /\ sched = "wake" => /\ at >= 1 /\ InOrder(at)
                       /\ \A i \in 1..Len(entries) : i < at => ~Due(entries[i])

IInv ==
  /\ TypeOK /\ StopsTyped /\ EntriesKnown /\ Pending /\ UniqueEntries /\ Alive
  /\ TimesPast /\ StartedPast /\ Counted /\ Order /\ ContextAfterJobs

-----------------------------------------------------------------------------
(* Helpers *)

\* What a schedule is asked is later than now, or never.
LEMMA NextLater ==
  ASSUME TypeOK, NEW id \in 1..nextID, NEW t \in Time
  PROVE  NextOf(schedule[id], t) \in Nat /\ (NextOf(schedule[id], t) = 0 \/ NextOf(schedule[id], t) > t)
  <1>1. schedule[id] \in Schedules
    BY CronAssumption DEF TypeOK
  <1> QED
    BY <1>1, CronAssumption

\* removeEntry takes out the entry of an ID and no other.
LEMMA RemoveEntryTakes ==
  ASSUME TypeOK, UniqueEntries, NEW id
  PROVE  /\ RemoveEntry(id) \in Seq(IDs)
         /\ \A i \in 1..Len(RemoveEntry(id)) :
              /\ RemoveEntry(id)[i] # id
              /\ \E j \in 1..Len(entries) : RemoveEntry(id)[i] = entries[j]
         /\ \A i, j \in 1..Len(RemoveEntry(id)) :
              RemoveEntry(id)[i] = RemoveEntry(id)[j] => i = j
  <1>1. entries \in Seq(IDs) /\ Len(entries) \in Nat
    BY DEF TypeOK
  <1>2. CASE id \notin Ids(entries)
    BY <1>1, <1>2 DEF RemoveEntry, Ids, UniqueEntries
  <1>3. CASE id \in Ids(entries)
    <2> DEFINE gone == CHOOSE i \in 1..Len(entries) : entries[i] = id
               rest == [i \in 1..(Len(entries) - 1) |-> entries[IF i < gone THEN i ELSE i + 1]]
    <2>1. gone \in 1..Len(entries) /\ entries[gone] = id
      BY <1>3 DEF Ids
    <2>2. RemoveEntry(id) = rest
      BY <1>3 DEF RemoveEntry
    <2> HIDE DEF gone
    <2>3. rest \in Seq(IDs) /\ Len(rest) = Len(entries) - 1
      <3>1. \A i \in 1..(Len(entries) - 1) : entries[IF i < gone THEN i ELSE i + 1] \in IDs
        BY <1>1, <2>1
      <3>2. Len(entries) - 1 \in Nat
        BY <1>1, <2>1
      <3> QED
        BY <3>1, <3>2
    <2>4. \A i \in 1..Len(rest) : rest[i] # id /\ \E j \in 1..Len(entries) : rest[i] = entries[j]
      BY <1>1, <2>1, <2>3 DEF UniqueEntries
    <2>5. \A i, j \in 1..Len(rest) : rest[i] = rest[j] => i = j
      BY <1>1, <2>1, <2>3 DEF UniqueEntries
    <2> QED
      BY <2>2, <2>3, <2>4, <2>5
  <1> QED
    BY <1>2, <1>3

\* A sort of entries without duplicates is without duplicates.
LEMMA SortKeeps ==
  ASSUME TypeOK, UniqueEntries, NEW seq \in SortedEntries
  PROVE  /\ seq \in Seq(IDs) /\ Len(seq) = Len(entries)
         /\ \A i \in 1..Len(seq) : \E j \in 1..Len(entries) : seq[i] = entries[j]
         /\ \A i, j \in 1..Len(seq) : seq[i] = seq[j] => i = j
  <1> DEFINE n == Len(entries)
             S == Ids(entries)
  <1>1. entries \in Seq(IDs) /\ n \in Nat
    BY DEF TypeOK
  <1>2. seq \in [1..n -> S] /\ Ids(seq) = S
    BY DEF SortedEntries
  <1>3. S \subseteq IDs
    BY <1>1 DEF Ids
  <1>4. seq \in Seq(IDs) /\ Len(seq) = n
    BY <1>1, <1>2, <1>3
  <1>5. IsFiniteSet(1..n)
    BY <1>1, FS_Interval
  <1>6. entries \in Surjection(1..n, S) /\ entries \in Injection(1..n, S)
    <2>1. entries \in [1..n -> S]
      BY <1>1 DEF Ids
    <2> QED
      BY <2>1 DEF Surjection, Injection, IsInjective, Ids, UniqueEntries
  <1>7. seq \in Surjection(1..n, S)
    BY <1>2, <1>4 DEF Surjection, Ids
  <1>8. Cardinality(S) = Cardinality(1..n)
    BY <1>5, <1>6, FS_Surjection
  <1>9. seq \in Injection(1..n, S)
    BY <1>5, <1>7, <1>8, FS_Surjection
  <1> QED
    BY <1>2, <1>4, <1>9 DEF Injection, IsInjective, Ids

-----------------------------------------------------------------------------
(* The goroutines of Stop *)

\* Stop adds one to the others.
LEMMA StopAdds ==
  ASSUME TypeOK, StopsTyped, NewContext
  PROVE  /\ StopsTyped' /\ DOMAIN stops' = DOMAIN stops \cup {Len(stops) + 1}
         /\ \A k \in DOMAIN stops : stops'[k] = stops[k]
         /\ stops'[Len(stops) + 1] = [owed |-> jobs, state |-> "new"]
  <1>1. [owed |-> jobs, state |-> "new"] \in Goroutine
    BY DEF TypeOK, Goroutine, States
  <1>2. stops' = Append(stops, [owed |-> jobs, state |-> "new"]) /\ stops \in Seq(Goroutine)
    BY DEF NewContext, StopsTyped
  <1> HIDE DEF Goroutine
  <1> QED
    BY <1>1, <1>2 DEF StopsTyped

\* A waiter changes its own state.
LEMMA StopChanges ==
  ASSUME StopsTyped, NEW k \in DOMAIN stops, NEW s \in States, SetStop(k, s)
  PROVE  /\ StopsTyped' /\ DOMAIN stops' = DOMAIN stops
         /\ \A l \in DOMAIN stops : stops'[l].owed = stops[l].owed
         /\ \A l \in DOMAIN stops : stops'[l].state = IF l = k THEN s ELSE stops[l].state
  <1>1. stops \in Seq(Goroutine) /\ stops[k] \in Goroutine
    BY DEF StopsTyped
  <1>2. [stops[k] EXCEPT !.state = s] \in Goroutine
    BY <1>1 DEF Goroutine
  <1>3. stops' = [stops EXCEPT ![k] = [stops[k] EXCEPT !.state = s]]
    BY DEF SetStop
  <1>4. stops' \in Seq(Goroutine) /\ DOMAIN stops' = DOMAIN stops
    BY <1>1, <1>2, <1>3
  <1>5. \A l \in DOMAIN stops :
          stops'[l] = IF l = k THEN [stops[k] EXCEPT !.state = s] ELSE stops[l]
    BY <1>1, <1>3
  <1>6. [stops[k] EXCEPT !.state = s].state = s /\ [stops[k] EXCEPT !.state = s].owed = stops[k].owed
    BY <1>1 DEF Goroutine
  <1> QED
    BY <1>4, <1>5, <1>6 DEF StopsTyped

\* The end of a job releases waiters, if it was the last.
LEMMA StopsRelease ==
  ASSUME StopsTyped, NEW j, JobEnds(j)
  PROVE  /\ StopsTyped' /\ DOMAIN stops' = DOMAIN stops
         /\ \A k \in DOMAIN stops : stops'[k].owed = stops[k].owed
         /\ \A k \in DOMAIN stops :
              stops'[k].state = stops[k].state \/ stops'[k].state = "released"
  <1> DEFINE After(k) == IF counter = 1 /\ stops[k].state = "blocked"
                         THEN [stops[k] EXCEPT !.state = "released"] ELSE stops[k]
  <1>1. stops \in Seq(Goroutine) /\ DOMAIN stops = 1..Len(stops) /\ Len(stops) \in Nat
    BY DEF StopsTyped
  <1>2. stops' = [k \in DOMAIN stops |-> After(k)]
    BY DEF JobEnds
  <1>3. ASSUME NEW k \in DOMAIN stops
        PROVE  /\ After(k) \in Goroutine /\ After(k).owed = stops[k].owed
               /\ After(k).state = stops[k].state \/ After(k).state = "released"
    <2>1. stops[k] \in Goroutine
      BY <1>1
    <2> QED
      BY <2>1 DEF Goroutine, States
  <1>4. StopsTyped' /\ DOMAIN stops' = DOMAIN stops
    <2>1. \A k \in 1..Len(stops) : After(k) \in Goroutine
      BY <1>1, <1>3
    <2> HIDE DEF After, Goroutine
    <2> QED
      BY <1>1, <1>2, <2>1 DEF StopsTyped
  <1> QED
    BY <1>2, <1>3, <1>4

\* Their type is kept by every step.
LEMMA StopsStep == TypeOK /\ StopsTyped /\ [Next]_vars => StopsTyped'
  <1> SUFFICES ASSUME TypeOK, StopsTyped, [Next]_vars PROVE StopsTyped'
    OBVIOUS
  <1>1. CASE UNCHANGED stops
    BY <1>1 DEF StopsTyped
  <1>2. CASE NewContext
    BY <1>2, StopAdds
  <1>3. ASSUME NEW j, JobEnds(j) PROVE StopsTyped'
    BY <1>3, StopsRelease
  <1>4. ASSUME NEW k \in DOMAIN stops, Waiter(k) PROVE StopsTyped'
    BY <1>4, StopChanges DEF Waiter, WaitCalled, WaitReturns, States
  <1> QED
    BY <1>1, <1>2, <1>3, <1>4 DEF Next, API, Run, vars, jobVars, Tick, Schedule, Remove, Entries,
       Start, Stop, RunInit, RunSort, TimerFires, RunWake, RunDue, RunDone, RunAdd, RunRemove,
       RunSnapshot, RunStop

-----------------------------------------------------------------------------
(* The invariant *)

\* The invariant holds before the first call.
LEMMA InitIInv == Init => IInv
  <1> SUFFICES ASSUME Init PROVE IInv
    OBVIOUS
  <1> USE DEF Init
  <1>1. TypeOK
    <2>1. 1 \in Time /\ 0 \in 0..MaxEntries /\ 0 \in 0..MaxCalls
      BY CronAssumption DEF Time
    <2>3. \A k \in DOMAIN stops : FALSE
      OBVIOUS
    <2>4. next \in [IDs -> Nat] /\ prev \in [IDs -> Nat]
      OBVIOUS
    <2>2. entries \in Seq(IDs) /\ schedule \in Seq(Schedules) /\ Len(schedule) = nextID
      OBVIOUS
    <2> QED
      BY <2>1, <2>2, <2>3, <2>4 DEF TypeOK
  <1>2. StopsTyped /\ EntriesKnown /\ Pending /\ UniqueEntries /\ Alive /\ Order
    BY DEF StopsTyped, EntriesKnown, Pending, UniqueEntries, Alive, Order
  <1>3. TimesPast /\ StartedPast /\ ContextAfterJobs
    BY DEF TimesPast, StartedPast, ContextAfterJobs
  <1>4. Counted
    BY FS_EmptySet DEF Counted
  <1> QED
    BY <1>1, <1>2, <1>3, <1>4 DEF IInv

\* Types: a timer is set for a time, and the counter never goes below zero.
LEMMA TypeStep == IInv /\ [Next]_vars => TypeOK'
  <1> SUFFICES ASSUME IInv, [Next]_vars PROVE TypeOK'
    OBVIOUS
  <1> USE DEF apiVars, entryVars, runVars, jobVars, MayCall, At
  <1>1. /\ TypeOK /\ StopsTyped /\ EntriesKnown /\ Pending /\ UniqueEntries
        /\ TimesPast /\ Counted
    BY DEF IInv
  <1>2. MaxEntries \in Nat /\ MaxCalls \in Nat /\ MaxTime \in Nat \ {0}
    BY CronAssumption
  <1>3. \A i \in 1..Len(entries) : entries[i] \in IDs /\ entries[i] \in 1..nextID
    BY <1>1 DEF EntriesKnown, TypeOK
  <1>4. 1..nextID \subseteq IDs
    BY <1>1, <1>2 DEF TypeOK, IDs
  <1>5. \A k \in DOMAIN stops' : stops'[k].state \in States
    <2>1. ASSUME NEW k \in DOMAIN stops' PROVE stops'[k] \in Goroutine
      BY <1>1, StopsStep DEF StopsTyped
    <2> QED
      BY <2>1 DEF Goroutine
  <1>a. CASE UNCHANGED vars
    BY <1>1, <1>a DEF TypeOK, vars
  <1>b. CASE Tick
    BY <1>1, <1>2, <1>b DEF Tick, TypeOK, Time
  <1>c. ASSUME NEW s \in Schedules, Schedule(s) PROVE TypeOK'
    <2>1. nextID + 1 \in IDs /\ nextID' \in 0..MaxEntries
      BY <1>1, <1>2, <1>c DEF Schedule, TypeOK, IDs
    <2>2. schedule' \in Seq(Schedules) /\ Len(schedule') = nextID'
      BY <1>1, <1>c DEF Schedule, TypeOK
    <2>3. entries' \in Seq(IDs)
      <3>1. entries' = entries \/ entries' = Append(entries, nextID + 1)
        BY <1>c DEF Schedule
      <3> QED
        <4>1. entries \in Seq(IDs)
          BY <1>1 DEF TypeOK
        <4> QED
          BY <2>1, <3>1, <4>1
    <2>4. call' = <<>> \/ call' \in {"add", "remove", "snapshot", "stop"} \X (IDs \cup {0})
      BY <1>c, <2>1 DEF Schedule
    <2> QED
      BY <1>1, <1>c, <2>1, <2>2, <2>3, <2>4 DEF Schedule, TypeOK
  <1>d. ASSUME NEW id \in IDs, Remove(id) PROVE TypeOK'
    <2>1. entries' \in Seq(IDs)
      BY <1>1, <1>d, RemoveEntryTakes DEF Remove, TypeOK
    <2>2. call' = <<>> \/ call' \in {"add", "remove", "snapshot", "stop"} \X (IDs \cup {0})
      BY <1>1, <1>d DEF Remove, TypeOK
    <2> QED
      BY <1>1, <1>2, <1>d, <2>1, <2>2 DEF Remove, TypeOK
  <1>e. CASE Entries \/ Start
    <2>1. call' = <<>> \/ call' \in {"add", "remove", "snapshot", "stop"} \X (IDs \cup {0})
      BY <1>1, <1>e DEF Entries, Start, TypeOK
    <2>2. calls' \in 0..MaxCalls
      BY <1>1, <1>2, <1>e DEF Entries, Start, TypeOK
    <2> QED
      BY <1>1, <1>e, <2>1, <2>2 DEF Entries, Start, TypeOK
  <1>f. CASE Stop
    BY <1>1, <1>2, <1>5, <1>f DEF Stop, TypeOK, States
  <1>g. CASE RunInit
    <2>1. next' \in [IDs -> Nat]
      <3>1. ASSUME NEW id \in IDs PROVE next'[id] \in Nat
        <4>1. CASE id \in Ids(entries)
          BY <1>1, <1>3, <1>g, <4>1, NextLater DEF RunInit, Ids, TypeOK
        <4>2. CASE id \notin Ids(entries)
          BY <1>1, <1>g, <4>2 DEF RunInit, TypeOK
        <4> QED
          BY <4>1, <4>2
      <3> QED
        BY <1>g, <3>1 DEF RunInit
    <2> QED
      BY <1>1, <1>g, <2>1 DEF RunInit, TypeOK
  <1>h. CASE RunSort
    <2>1. entries' \in Seq(IDs)
      BY <1>1, <1>h, SortKeeps DEF RunSort
    <2>2. timer' \in Nat
      <3>1. CASE entries' = <<>> \/ next[entries'[1]] = 0
        BY <1>h, <3>1 DEF RunSort
      <3>2. CASE ~(entries' = <<>> \/ next[entries'[1]] = 0)
        <4>1. entries'[1] \in IDs
          BY <2>1, <3>2
        <4>2. next[entries'[1]] \in Nat /\ clock \in Nat /\ now \in Nat /\ now <= clock
          BY <1>1, <4>1 DEF TypeOK, TimesPast, Time
        <4>3. timer' = clock + (next[entries'[1]] - now)
          BY <1>h, <3>2 DEF RunSort
        <4> QED
          BY <4>2, <4>3
      <3> QED
        BY <3>1, <3>2
    <2> QED
      BY <1>1, <1>h, <2>1, <2>2 DEF RunSort, TypeOK
  <1>i. CASE TimerFires \/ RunWake
    BY <1>1, <1>i DEF TimerFires, RunWake, TypeOK
  <1>j. CASE RunDue
    <2> DEFINE id == entries[at]
    <2>1. id \in IDs /\ id \in 1..nextID
      BY <1>1, <1>3, <1>j, CronAssumption DEF RunDue, TypeOK, Order, IInv
    <2>2. next' \in [IDs -> Nat] /\ prev' \in [IDs -> Nat]
      BY <1>1, <1>j, <2>1, NextLater DEF RunDue, TypeOK
    <2>3. jobs' \subseteq IDs \X Time
      BY <1>1, <1>j, <2>1 DEF RunDue, TypeOK
    <2> QED
      BY <1>1, <1>j, <2>2, <2>3 DEF RunDue, TypeOK
  <1>k. CASE RunDone
    BY <1>1, <1>k DEF RunDone, Resort, TypeOK
  <1>l. CASE RunAdd
    <2>1. call[2] \in 1..nextID /\ call[2] \in IDs
      BY <1>1, <1>4, <1>l DEF RunAdd, Pending, IDs, TypeOK
    <2>2. next' \in [IDs -> Nat]
      BY <1>1, <1>l, <2>1, NextLater DEF RunAdd, TypeOK
    <2>3. entries' \in Seq(IDs)
      BY <1>1, <1>l, <2>1 DEF RunAdd, TypeOK
    <2> QED
      BY <1>1, <1>l, <2>2, <2>3 DEF RunAdd, Resort, TypeOK
  <1>m. CASE RunRemove
    <2>1. entries' \in Seq(IDs) /\ call[2] \in IDs
      BY <1>1, <1>4, <1>m, RemoveEntryTakes DEF RunRemove, Pending
    <2> QED
      BY <1>1, <1>m, <2>1 DEF RunRemove, Resort, TypeOK
  <1>n. CASE RunSnapshot
    BY <1>1, <1>n DEF RunSnapshot, TypeOK
  <1>o. CASE RunStop
    BY <1>1, <1>5, <1>o DEF RunStop, TypeOK, States
  <1>p. ASSUME NEW j \in jobs, JobEnds(j) PROVE TypeOK'
    <2>1. counter' \in Nat
      <3>1. Cardinality(jobs \ {j}) = Cardinality(jobs) - 1 /\ IsFiniteSet(jobs \ {j})
        BY <1>1, FS_RemoveElement DEF Counted
      <3>2. Cardinality(jobs \ {j}) \in Nat
        BY <3>1, FS_CardinalityType
      <3> QED
        BY <1>1, <1>p, <3>1, <3>2 DEF JobEnds, Counted
    <2> QED
      BY <1>1, <1>5, <1>p, <2>1 DEF JobEnds, TypeOK, States
  <1>q. ASSUME NEW k \in DOMAIN stops, Waiter(k) PROVE TypeOK'
    <2>1. panicked' \in BOOLEAN
      BY <1>1, <1>q DEF Waiter, WaitCalled, WaitReturns, TypeOK
    <2> QED
      BY <1>1, <1>5, <1>q, <2>1 DEF Waiter, WaitCalled, WaitReturns, TypeOK, States
  <1> QED
    BY <1>a, <1>b, <1>c, <1>d, <1>e, <1>f, <1>g, <1>h, <1>i, <1>j, <1>k, <1>l, <1>m, <1>n,
       <1>o, <1>p, <1>q DEF Next, API, Run

\* The entries are those that were added and not removed, each once.
LEMMA EntriesStep == IInv /\ [Next]_vars => EntriesKnown' /\ Pending' /\ UniqueEntries'
  <1> SUFFICES ASSUME IInv, [Next]_vars PROVE EntriesKnown' /\ Pending' /\ UniqueEntries'
    OBVIOUS
  <1> USE DEF apiVars, entryVars, runVars, jobVars, MayCall, At
  <1>1. TypeOK /\ EntriesKnown /\ Pending /\ UniqueEntries
    BY DEF IInv
  <1>2. /\ entries \in Seq(IDs) /\ Len(entries) \in Nat /\ nextID \in Nat
        /\ MaxEntries \in Nat /\ nextID <= MaxEntries
    BY <1>1, CronAssumption DEF TypeOK
  <1>3. ASSUME UNCHANGED <<call, nextID, entries, removed>>
        PROVE  EntriesKnown' /\ Pending' /\ UniqueEntries'
    BY <1>1, <1>3 DEF EntriesKnown, Pending, UniqueEntries
  <1>4. ASSUME NEW s \in Schedules, Schedule(s)
        PROVE  EntriesKnown' /\ Pending' /\ UniqueEntries'
    <2>1. nextID + 1 \in IDs /\ nextID + 1 \notin removed
          /\ \A i \in 1..Len(entries) : entries[i] # nextID + 1
      BY <1>1, <1>2, <1>4 DEF Schedule, EntriesKnown, IDs
    <2>2. CASE running
      BY <1>1, <1>2, <1>4, <2>1, <2>2 DEF Schedule, EntriesKnown, Pending, UniqueEntries
    <2>3. CASE ~running
      <3>1. /\ Len(entries') = Len(entries) + 1 /\ entries'[Len(entries) + 1] = nextID + 1
            /\ \A i \in 1..Len(entries) : entries'[i] = entries[i]
        BY <1>2, <1>4, <2>3 DEF Schedule
      <3>2. EntriesKnown'
        <4>1. nextID' = nextID + 1 /\ removed' = removed
          BY <1>4 DEF Schedule
        <4>2. ASSUME NEW i \in 1..Len(entries') PROVE entries'[i] \in (1..nextID') \ removed'
          <5>1. i = Len(entries) + 1 \/ i \in 1..Len(entries)
            BY <1>2, <3>1
          <5> QED
            BY <1>1, <1>2, <2>1, <3>1, <4>1, <5>1 DEF EntriesKnown
        <4> QED
          BY <1>1, <1>2, <4>1, <4>2 DEF EntriesKnown
      <3>3. Pending'
        BY <1>4, <2>3 DEF Schedule, Pending
      <3>4. UniqueEntries'
        BY <1>1, <1>2, <2>1, <3>1 DEF UniqueEntries
      <3> QED
        BY <3>2, <3>3, <3>4
    <2> QED
      BY <2>2, <2>3
  <1>5. ASSUME NEW id \in 1..nextID, entries' = RemoveEntry(id), removed' = removed \cup {id},
               nextID' = nextID, call' = <<>>
        PROVE  EntriesKnown' /\ Pending' /\ UniqueEntries'
    BY <1>1, <1>5, RemoveEntryTakes DEF EntriesKnown, Pending, UniqueEntries
  <1>6. ASSUME NEW id \in IDs, Remove(id)
        PROVE  EntriesKnown' /\ Pending' /\ UniqueEntries'
    <2>1. id \in 1..nextID
      BY <1>2, <1>6 DEF Remove, IDs
    <2>2. CASE running
      <3>1. call' = <<"remove", id>> /\ UNCHANGED <<nextID, entries, removed>>
        BY <1>6, <2>2 DEF Remove
      <3>2. Pending'
        BY <2>1, <3>1 DEF Pending
      <3> QED
        BY <1>1, <3>1, <3>2 DEF EntriesKnown, UniqueEntries
    <2> QED
      BY <1>5, <1>6, <2>1, <2>2 DEF Remove
  <1>7. ASSUME call' = <<>> \/ (call'[1] # "add" /\ call'[1] # "remove"),
               UNCHANGED <<nextID, entries, removed>>
        PROVE  EntriesKnown' /\ Pending' /\ UniqueEntries'
    BY <1>1, <1>7 DEF EntriesKnown, Pending, UniqueEntries
  <1>8. CASE RunSort
    <2>1. UNCHANGED <<call, nextID, removed>> /\ entries' \in SortedEntries
      BY <1>8 DEF RunSort
    <2>2. /\ Len(entries') = Len(entries)
          /\ \A i \in 1..Len(entries') : \E j \in 1..Len(entries) : entries'[i] = entries[j]
          /\ \A i, j \in 1..Len(entries') : entries'[i] = entries'[j] => i = j
      BY <1>1, <2>1, SortKeeps
    <2>3. EntriesKnown'
      BY <1>1, <2>1, <2>2 DEF EntriesKnown
    <2>4. Pending'
      <3>1. \A i \in 1..Len(entries') : entries'[i] # nextID
              \/ \E j \in 1..Len(entries) : entries[j] = nextID
        BY <2>2
      <3> QED
        BY <1>1, <2>1, <3>1 DEF Pending
    <2>5. UniqueEntries'
      BY <2>2 DEF UniqueEntries
    <2> QED
      BY <2>3, <2>4, <2>5
  <1>9. CASE RunAdd
    <2>1. /\ call[2] = nextID /\ nextID \in (1..nextID) \ removed
          /\ \A i \in 1..Len(entries) : entries[i] # nextID
      BY <1>1, <1>9 DEF RunAdd, Pending, IDs
    <2>2. /\ Len(entries') = Len(entries) + 1 /\ entries'[Len(entries) + 1] = nextID
          /\ \A i \in 1..Len(entries) : entries'[i] = entries[i]
      BY <1>2, <1>9, <2>1 DEF RunAdd
    <2>3. EntriesKnown'
      BY <1>1, <1>2, <1>9, <2>1, <2>2 DEF RunAdd, EntriesKnown
    <2>4. Pending'
      BY <1>9 DEF RunAdd, Pending
    <2>5. UniqueEntries'
      BY <1>1, <1>2, <2>1, <2>2 DEF UniqueEntries
    <2> QED
      BY <2>3, <2>4, <2>5
  <1>10. CASE RunRemove
    <2>1. call[2] \in 1..nextID
      BY <1>1, <1>10 DEF RunRemove, Pending
    <2> QED
      BY <1>5, <1>10, <2>1 DEF RunRemove
  <1>11. CASE Entries \/ Start \/ Stop \/ RunSnapshot \/ RunStop
    BY <1>3, <1>7, <1>11 DEF Entries, Start, Stop, RunSnapshot, RunStop
  <1>12. CASE \/ UNCHANGED vars \/ Tick \/ RunInit \/ TimerFires \/ RunWake \/ RunDue \/ RunDone
              \/ (\E j \in jobs : JobEnds(j)) \/ (\E k \in DOMAIN stops : Waiter(k))
    BY <1>3, <1>12 DEF vars, Tick, RunInit, TimerFires, RunWake, RunDue, RunDone, JobEnds, Waiter,
       WaitCalled, WaitReturns
  <1> QED
    BY <1>4, <1>6, <1>8, <1>9, <1>10, <1>11, <1>12 DEF Next, API, Run

\* The goroutine of run is started by Start and ended by Stop.
LEMMA AliveStep == IInv /\ [Next]_vars => Alive'
  BY DEF IInv, Alive, Next, API, Run, vars, apiVars, entryVars, runVars, jobVars, MayCall, At,
     Tick, Schedule, Remove, Entries, Start, Stop, RunInit, RunSort, TimerFires, RunWake, RunDue,
     RunDone, RunAdd, RunRemove, RunSnapshot, RunStop, Resort, JobEnds, Waiter, WaitCalled, WaitReturns

\* The entry that run is about to start is one that was added.
LEMMA DueEntry ==
  ASSUME TypeOK, EntriesKnown, Order, RunDue
  PROVE  at \in 1..Len(entries) /\ entries[at] \in (1..nextID) \ removed /\ entries[at] \in IDs
  <1>1. at \in 1..Len(entries)
    BY DEF TypeOK, Order, RunDue, At
  <1> QED
    BY <1>1 DEF TypeOK, EntriesKnown

\* A next time is set to something later than every time that was looked at, and
\* nothing but a start makes the previous time of an entry another.
LEMMA TimesStep == IInv /\ [Next]_vars => TimesPast' /\ \A j \in IDs \X Time : NotAgain(j) => NotAgain(j)'
  <1> SUFFICES ASSUME IInv, [Next]_vars
               PROVE  TimesPast' /\ \A j \in IDs \X Time : NotAgain(j) => NotAgain(j)'
    OBVIOUS
  <1> USE DEF apiVars, entryVars, runVars, jobVars, At
  <1>1. TypeOK /\ EntriesKnown /\ Pending /\ TimesPast /\ Order
    BY DEF IInv
  <1>2. /\ clock \in Nat /\ clock \in Time /\ now \in Nat /\ fired \in Nat /\ now \in Time
        /\ next \in [IDs -> Nat] /\ prev \in [IDs -> Nat] /\ Time \subseteq Nat
    BY <1>1 DEF TypeOK, Time
  <1>3. CASE UNCHANGED <<clock, now, fired, next, prev>>
    BY <1>1, <1>3 DEF TimesPast, NotAgain
  <1>4. CASE Tick
    <2>1. clock' = clock + 1 /\ UNCHANGED <<now, fired, next, prev>>
      BY <1>4 DEF Tick
    <2>2. TimesPast'
      BY <1>1, <1>2, <2>1 DEF TimesPast
    <2>3. ASSUME NEW j \in IDs \X Time, NotAgain(j) PROVE NotAgain(j)'
      <3>1. j[2] \in Nat
        BY <1>2
      <3> QED
        BY <1>2, <2>1, <2>3, <3>1 DEF NotAgain
    <2> QED
      BY <2>2, <2>3
  <1>5. CASE TimerFires \/ RunWake \/ RunDone \/ RunStop \/ RunRemove
    BY <1>1, <1>2, <1>5 DEF TimerFires, RunWake, RunDone, RunStop, RunRemove, Resort, TimesPast, NotAgain
  <1>6. ASSUME UNCHANGED clock, now' \in {now, clock}, fired' \in {fired, 0}, UNCHANGED prev,
               next' \in [IDs -> Nat],
               \A id \in IDs : next'[id] = next[id] \/ next'[id] = 0 \/ next'[id] > clock
        PROVE  TimesPast' /\ \A j \in IDs \X Time : NotAgain(j) => NotAgain(j)'
    <2>1. TimesPast'
      BY <1>1, <1>2, <1>6 DEF TimesPast
    <2>2. ASSUME NEW j \in IDs \X Time, NotAgain(j) PROVE NotAgain(j)'
      <3>1. j[1] \in IDs /\ j[2] \in Nat
        BY <1>2
      <3> QED
        BY <1>2, <1>6, <2>2, <3>1 DEF NotAgain
    <2> QED
      BY <2>1, <2>2
  <1>7. CASE RunInit
    <2>1. \A i \in 1..Len(entries) : entries[i] \in 1..nextID
      BY <1>1 DEF EntriesKnown
    <2>2. ASSUME NEW id \in IDs
          PROVE  next'[id] \in Nat /\ (next'[id] = next[id] \/ next'[id] = 0 \/ next'[id] > clock)
      <3>1. CASE id \in Ids(entries)
        BY <1>1, <1>2, <1>7, <2>1, <3>1, NextLater DEF RunInit, Ids
      <3>2. CASE id \notin Ids(entries)
        BY <1>2, <1>7, <3>2 DEF RunInit
      <3> QED
        BY <3>1, <3>2
    <2>3. next' \in [IDs -> Nat]
      BY <1>7, <2>2 DEF RunInit
    <2> QED
      BY <1>6, <1>7, <2>2, <2>3 DEF RunInit
  <1>8. CASE RunAdd
    <2>1. call[2] \in 1..nextID /\ call[2] \in IDs
      BY <1>1, <1>8 DEF RunAdd, Pending, IDs, TypeOK
    <2>2. next' \in [IDs -> Nat]
          /\ \A id \in IDs : next'[id] = next[id] \/ next'[id] = 0 \/ next'[id] > clock
      BY <1>1, <1>2, <1>8, <2>1, NextLater DEF RunAdd
    <2> QED
      BY <1>6, <1>8, <2>2 DEF RunAdd, Resort
  <1>9. CASE RunDue
    <2> DEFINE id == entries[at]
               n  == NextOf(schedule[id], now)
    <2>1. id \in 1..nextID /\ id \in IDs
      BY <1>1, <1>9, DueEntry
    <2>2. n \in Nat /\ (n = 0 \/ n > now)
      BY <1>1, <1>2, <2>1, NextLater
    <2>3. /\ next' = [next EXCEPT ![id] = n] /\ prev' = [prev EXCEPT ![id] = next[id]]
          /\ next[id] # 0 /\ next[id] <= now /\ UNCHANGED <<clock, now, fired>>
      BY <1>9 DEF RunDue, Due
    <2> HIDE DEF id, n
    <2>4. TimesPast'
      BY <1>1, <1>2, <2>1, <2>2, <2>3 DEF TimesPast
    <2>5. ASSUME NEW j \in IDs \X Time, NotAgain(j) PROVE NotAgain(j)'
      <3>1. j[1] \in IDs /\ j[2] \in Nat
        BY <1>2, <2>5
      <3> QED
        BY <1>2, <2>1, <2>2, <2>3, <2>5, <3>1 DEF NotAgain
    <2> QED
      BY <2>4, <2>5
  <1> QED
    BY <1>3, <1>4, <1>5, <1>7, <1>8, <1>9 DEF Next, API, Run, vars, Schedule, Remove, Entries,
       Start, Stop, RunSort, RunSnapshot, JobEnds, Waiter, WaitCalled, WaitReturns

\* A step starts the job of a due entry, at run's time, or no job.
LEMMA JobsStep ==
  [Next]_vars => \/ jobs' \subseteq jobs
                 \/ RunDue /\ jobs' = jobs \cup {<<entries[at], now>>}
  BY DEF Next, API, Run, vars, jobVars, Tick, Schedule, Remove, Entries, Start, Stop, RunInit, RunSort,
     TimerFires, RunWake, RunDue, RunDone, RunAdd, RunRemove, RunSnapshot, RunStop, JobEnds, Waiter,
     WaitCalled, WaitReturns

\* A goroutine of Stop waits for the jobs it found.
LEMMA OwedStep ==
  ASSUME TypeOK, StopsTyped, [Next]_vars
  PROVE  \A k \in DOMAIN stops' : \/ stops'[k].owed = jobs /\ stops'[k].state = "new"
                                  \/ k \in DOMAIN stops /\ stops'[k].owed = stops[k].owed
  <1>1. CASE UNCHANGED stops
    BY <1>1
  <1>2. CASE NewContext
    BY <1>2, StopAdds
  <1>3. ASSUME NEW j, JobEnds(j)
        PROVE  \A k \in DOMAIN stops' : k \in DOMAIN stops /\ stops'[k].owed = stops[k].owed
    BY <1>3, StopsRelease
  <1>4. ASSUME NEW k \in DOMAIN stops, Waiter(k)
        PROVE  \A l \in DOMAIN stops' : l \in DOMAIN stops /\ stops'[l].owed = stops[l].owed
    BY <1>4, StopChanges DEF Waiter, WaitCalled, WaitReturns, States
  <1> QED
    BY <1>1, <1>2, <1>3, <1>4 DEF Next, API, Run, vars, jobVars, Tick, Schedule, Remove, Entries,
       Start, Stop, RunInit, RunSort, TimerFires, RunWake, RunDue, RunDone, RunAdd, RunRemove,
       RunSnapshot, RunStop

\* What a goroutine of Stop waits for are jobs.
LEMMA OwedTyped ==
  ASSUME StopsTyped, NEW k \in DOMAIN stops
  PROVE  stops[k].owed \subseteq IDs \X Time
  <1>1. stops[k] \in Goroutine
    BY DEF StopsTyped
  <1> QED
    BY <1>1 DEF Goroutine

\* A job that was started is not started at the same time again.
LEMMA StartedStep == IInv /\ [Next]_vars => StartedPast'
  <1> SUFFICES ASSUME IInv, [Next]_vars PROVE StartedPast'
    OBVIOUS
  <1>1. TypeOK /\ StopsTyped /\ EntriesKnown /\ TimesPast /\ StartedPast /\ Order
    BY DEF IInv
  <1>2. jobs \subseteq IDs \X Time /\ now \in Time /\ now <= clock
    BY <1>1 DEF TypeOK, TimesPast
  <1>3. ASSUME NEW j \in jobs' PROVE NotAgain(j)'
    <2>1. CASE j \in jobs
      BY <1>1, <1>2, <2>1, TimesStep DEF StartedPast
    <2>2. CASE j \notin jobs
      <3> DEFINE id == entries[at]
                 n  == NextOf(schedule[id], now)
      <3>1. RunDue /\ j = <<id, now>>
        BY <1>3, <2>2, JobsStep
      <3>2. id \in 1..nextID /\ id \in IDs
        BY <1>1, <3>1, DueEntry
      <3>3. n = 0 \/ n > now
        BY <1>1, <1>2, <3>2, NextLater
      <3>4. next'[id] = n /\ clock' = clock
        BY <1>1, <3>1, <3>2 DEF RunDue, TypeOK
      <3> HIDE DEF id, n
      <3>5. j[1] = id /\ j[2] = now
        BY <3>1
      <3> QED
        BY <1>2, <3>3, <3>4, <3>5 DEF NotAgain
    <2> QED
      BY <2>1, <2>2
  <1>4. ASSUME NEW k \in DOMAIN stops', NEW j \in stops'[k].owed PROVE NotAgain(j)'
    <2>1. j \in IDs \X Time /\ NotAgain(j)
      <3>1. CASE stops'[k].owed = jobs
        BY <1>1, <1>2, <1>4, <3>1 DEF StartedPast
      <3>2. CASE k \in DOMAIN stops /\ stops'[k].owed = stops[k].owed
        BY <1>1, <1>4, <3>2, OwedTyped DEF StartedPast
      <3> QED
        BY <1>1, <3>1, <3>2, OwedStep
    <2> QED
      BY <2>1, TimesStep
  <1> QED
    BY <1>3, <1>4 DEF StartedPast

\* The job that is about to start is neither running nor waited for.
LEMMA DueIsNew ==
  ASSUME IInv, RunDue
  PROVE  /\ <<entries[at], now>> \notin jobs
         /\ \A k \in DOMAIN stops : <<entries[at], now>> \notin stops[k].owed
  <1> DEFINE job == <<entries[at], now>>
  <1>1. entries[at] \in IDs /\ next[entries[at]] \in Nat /\ now \in Nat
    <2>1. TypeOK /\ entries[at] \in IDs
      BY DueEntry DEF IInv
    <2> QED
      BY <2>1 DEF TypeOK, Time
  <1>2. next[entries[at]] # 0 /\ next[entries[at]] <= now
    BY DEF RunDue, Due
  <1>3. job[1] = entries[at] /\ job[2] = now
    OBVIOUS
  <1> HIDE DEF job
  <1>4. ~NotAgain(job)
    BY <1>1, <1>2, <1>3 DEF NotAgain
  <1>5. job \notin jobs /\ \A k \in DOMAIN stops : job \notin stops[k].owed
    BY <1>4 DEF IInv, StartedPast
  <1> QED
    BY <1>5 DEF job

\* The counter of jobWaiter stays the number of the jobs.
LEMMA CountedStep == IInv /\ [Next]_vars => Counted'
  <1> SUFFICES ASSUME IInv, [Next]_vars PROVE Counted'
    OBVIOUS
  <1>1. Counted
    BY DEF IInv
  <1>2. CASE UNCHANGED <<jobs, counter>>
    BY <1>1, <1>2 DEF Counted
  <1>3. CASE RunDue
    BY <1>1, <1>3, DueIsNew, FS_AddElement DEF RunDue, Counted
  <1>4. ASSUME NEW j \in jobs, JobEnds(j) PROVE Counted'
    BY <1>1, <1>4, FS_RemoveElement DEF JobEnds, Counted
  <1> QED
    BY <1>2, <1>3, <1>4 DEF Next, API, Run, vars, jobVars, Tick, Schedule, Remove, Entries, Start,
       Stop, RunInit, RunSort, TimerFires, RunWake, RunDone, RunAdd, RunRemove, RunSnapshot, RunStop,
       Waiter, WaitCalled, WaitReturns

\* Wait returns when no job is running, and what it waited for is not started
\* again.
LEMMA ContextStep == IInv /\ [Next]_vars => ContextAfterJobs'
  <1> SUFFICES ASSUME IInv, [Next]_vars PROVE ContextAfterJobs'
    OBVIOUS
  <1>1. TypeOK /\ StopsTyped /\ Counted /\ ContextAfterJobs
    BY DEF IInv
  <1>2. CASE UNCHANGED stops /\ jobs' \subseteq jobs
    BY <1>1, <1>2 DEF ContextAfterJobs
  <1>3. CASE NewContext /\ UNCHANGED jobs
    BY <1>1, <1>3, StopAdds DEF ContextAfterJobs
  <1>4. CASE RunDue
    <2>1. UNCHANGED stops /\ jobs' = jobs \cup {<<entries[at], now>>}
      BY <1>4 DEF RunDue
    <2>2. \A k \in DOMAIN stops : <<entries[at], now>> \notin stops[k].owed
      BY <1>4, DueIsNew
    <2> QED
      BY <1>1, <2>1, <2>2 DEF ContextAfterJobs
  <1>5. ASSUME NEW j \in jobs, JobEnds(j) PROVE ContextAfterJobs'
    <2>1. jobs' \subseteq jobs
      BY <1>5 DEF JobEnds
    <2> QED
      BY <1>1, <1>5, <2>1, StopsRelease DEF ContextAfterJobs
  <1>6. ASSUME NEW k \in DOMAIN stops, Waiter(k) PROVE ContextAfterJobs'
    <2>1. UNCHANGED jobs
      BY <1>6 DEF Waiter, WaitCalled, WaitReturns
    <2>2. PICK s \in States : SetStop(k, s) /\ (s = "done" => counter = 0)
      BY <1>6 DEF Waiter, WaitCalled, WaitReturns, States
    <2>3. counter = 0 => jobs = {}
      BY <1>1, FS_EmptySet DEF Counted
    <2> QED
      BY <1>1, <2>1, <2>2, <2>3, StopChanges DEF ContextAfterJobs
  <1> QED
    BY <1>2, <1>3, <1>4, <1>5, <1>6 DEF Next, API, Run, vars, jobVars, Tick, Schedule, Remove, Entries,
       Start, Stop, RunInit, RunSort, TimerFires, RunWake, RunDone, RunAdd, RunRemove, RunSnapshot,
       RunStop

\* The entries stay in order from the sort to the end of a wake-up: a start
\* moves the next time of the entry it is for, which is behind it then.
LEMMA OrderStep == IInv /\ [Next]_vars => Order'
  <1> SUFFICES ASSUME IInv, [Next]_vars PROVE Order'
    OBVIOUS
  <1> USE DEF apiVars, entryVars, runVars, jobVars, At
  <1>1. TypeOK /\ EntriesKnown /\ UniqueEntries /\ Alive /\ Order
    BY DEF IInv
  <1>2. Len(entries) \in Nat /\ at \in Nat
    BY <1>1 DEF TypeOK
  <1>3. CASE UNCHANGED <<entries, next, sched, now, at>>
    BY <1>1, <1>3 DEF Order, InOrder, Due
  <1>4. CASE sched' \in {"off", "init", "sort"}
    BY <1>4 DEF Order
  <1>5. CASE RunSort
    <2>1. Sorted(entries') /\ UNCHANGED next /\ sched' = "select"
      BY <1>5 DEF RunSort, SortedEntries
    <2> QED
      BY <2>1 DEF Order, InOrder, Sorted
  <1>6. CASE RunWake
    <2>1. /\ InOrder(1) /\ UNCHANGED <<entries, next>> /\ Len(entries') \in Nat
          /\ sched' = "wake" /\ at' = 1
      BY <1>1, <1>2, <1>6 DEF RunWake, Order
    <2>2. InOrder(at)' /\ \A i \in 1..Len(entries') : ~(i < at')
      BY <2>1 DEF InOrder
    <2> QED
      BY <2>1, <2>2 DEF Order
  <1>7. CASE RunDue
    <2> DEFINE id == entries[at]
               n  == NextOf(schedule[id], now)
    <2>1. at \in 1..Len(entries) /\ id \in 1..nextID /\ id \in IDs
      BY <1>1, <1>7, DueEntry
    <2>2. now \in Nat /\ n \in Nat /\ (n = 0 \/ n > now)
      <3>1. now \in Time /\ now \in Nat
        BY <1>1 DEF TypeOK, Time
      <3> QED
        BY <1>1, <2>1, <3>1, NextLater
    <2>3. /\ sched' = "wake" /\ at' = at + 1 /\ UNCHANGED <<entries, now>>
          /\ next' = [next EXCEPT ![id] = n]
      BY <1>7 DEF RunDue
    <2>4. InOrder(at) /\ \A i \in 1..Len(entries) : i < at => ~Due(entries[i])
      BY <1>1, <1>7 DEF Order, RunDue
    <2>5. \A i \in 1..Len(entries) : entries[i] \in IDs /\ (i # at => entries[i] # id)
      <3>1. entries \in Seq(IDs)
        BY <1>1 DEF TypeOK
      <3> QED
        BY <1>1, <2>1, <3>1 DEF UniqueEntries
    <2>6. next \in [IDs -> Nat]
      BY <1>1 DEF TypeOK
    <2> HIDE DEF id, n
    <2>7. next'[id] = n /\ \A i \in 1..Len(entries) : i # at => next'[entries[i]] = next[entries[i]]
      BY <2>1, <2>3, <2>5, <2>6
    <2>8. InOrder(at)'
      BY <1>2, <2>1, <2>3, <2>4, <2>7 DEF InOrder
    <2>9. ASSUME NEW i \in 1..Len(entries), i < at + 1 PROVE ~(next'[entries[i]] # 0 /\ next'[entries[i]] <= now)
      <3>1. CASE i = at
        BY <2>2, <2>7, <3>1 DEF id
      <3>2. CASE i # at
        BY <1>2, <2>4, <2>7, <2>9, <3>2 DEF Due
      <3> QED
        BY <3>1, <3>2
    <2> QED
      BY <1>2, <2>3, <2>8, <2>9 DEF Order, Due
  <1>8. CASE RunInit \/ RunDone \/ RunAdd \/ RunRemove \/ RunStop
    BY <1>4, <1>8 DEF RunInit, RunDone, RunAdd, RunRemove, RunStop, Resort
  <1>9. ASSUME NEW s \in Schedules, Schedule(s) PROVE Order'
    BY <1>1, <1>3, <1>4, <1>9 DEF Schedule, Alive
  <1>10. ASSUME NEW id \in IDs, Remove(id) PROVE Order'
    BY <1>1, <1>3, <1>4, <1>10 DEF Remove, Alive
  <1>11. CASE Start
    BY <1>3, <1>4, <1>11 DEF Start
  <1> QED
    BY <1>3, <1>5, <1>6, <1>7, <1>8, <1>9, <1>10, <1>11 DEF Next, API, Run, vars, Tick, Entries, Stop,
       TimerFires, RunSnapshot, JobEnds, Waiter, WaitCalled, WaitReturns

-----------------------------------------------------------------------------
(* Theorems *)

\* The invariant of cron.go's API, run, jobs and waiters holds in every state
\* that the program reaches.
THEOREM CronInvariant == Spec => []IInv
  <1>1. IInv /\ [Next]_vars => IInv'
    BY TypeStep, StopsStep, EntriesStep, AliveStep, TimesStep, StartedStep, CountedStep, OrderStep,
       ContextStep DEF IInv
  <1> QED
    BY <1>1, InitIInv, PTL DEF Spec

\* cron.go: the variables keep their types; jobWaiter's counter never goes
\* below zero, and the timer is never set for a negative duration.
THEOREM CronTypeOK == Spec => []TypeOK
  BY CronInvariant, PTL DEF IInv

\* cron.go:49: no ID is in the array of entries twice, whatever is added while
\* the scheduler runs, stops or sorts.
THEOREM OneEntryPerID == Spec => []UniqueEntries
  BY CronInvariant, PTL DEF IInv

\* cron.go:342-356: the context of a Stop is not done before the jobs that ran
\* at that Stop, over any number of restarts.
THEOREM ContextWaits == Spec => []ContextAfterJobs
  BY CronInvariant, PTL DEF IInv

\* cron.go:216: a job that Remove has returned for is not started.
THEOREM RemovedStaysOut == Spec => RemovedNeverStarts
  <1>1. IInv /\ [Next]_vars => \A j \in jobs' \ jobs : j[1] <= nextID /\ j[1] \notin removed
    <2> SUFFICES ASSUME IInv, [Next]_vars, NEW j \in jobs' \ jobs
                 PROVE  j[1] <= nextID /\ j[1] \notin removed
      OBVIOUS
    <2>1. RunDue /\ j[1] = entries[at]
      BY JobsStep
    <2>2. entries[at] \in (1..nextID) \ removed /\ nextID \in Nat
      BY <2>1, DueEntry DEF IInv, TypeOK
    <2> QED
      BY <2>1, <2>2
  <1> QED
    BY <1>1, CronInvariant, PTL DEF Spec, RemovedNeverStarts

\* cron.go:284-305: an activation is started once, not early and only while
\* the scheduler runs.
THEOREM StartedOnce == Spec => ActivationSound
  <1> DEFINE Sound == \A j \in jobs' \ jobs :
                        LET id == j[1] IN
                          /\ running
                          /\ next[id] \in (prev[id] + 1)..clock
                          /\ prev'[id] = next[id]
  <1>1. IInv /\ [Next]_vars => Sound
    <2> SUFFICES ASSUME IInv, [Next]_vars, NEW j \in jobs' \ jobs
                 PROVE  /\ running
                        /\ next[j[1]] \in (prev[j[1]] + 1)..clock
                        /\ prev'[j[1]] = next[j[1]]
      OBVIOUS
    <2>1. RunDue /\ j[1] = entries[at]
      BY JobsStep
    <2>2. running
      BY <2>1 DEF RunDue, At, IInv, Alive
    <2>3. entries[at] \in IDs /\ next \in [IDs -> Nat] /\ prev \in [IDs -> Nat]
          /\ clock \in Nat /\ now \in Nat /\ now <= clock
      <3>1. TypeOK /\ entries[at] \in IDs /\ now <= clock
        BY <2>1, DueEntry DEF IInv, TimesPast
      <3> QED
        BY <3>1 DEF TypeOK, Time
    <2>4. /\ next[entries[at]] # 0 /\ next[entries[at]] <= now
          /\ prev' = [prev EXCEPT ![entries[at]] = next[entries[at]]]
      BY <2>1 DEF RunDue, Due
    <2>5. prev[entries[at]] < next[entries[at]]
      BY <2>3, <2>4 DEF IInv, TimesPast
    <2> QED
      BY <2>1, <2>2, <2>3, <2>4, <2>5
  <1> QED
    BY <1>1, CronInvariant, PTL DEF Spec, ActivationSound

\* cron.go:288-305: when the loop over the entries ends, nothing due is left.
THEOREM NothingDueLeft == Spec => WakeRunsAllDue
  <1> DEFINE AllRun == sched = "wake" /\ sched' # "wake" =>
                         \A id \in Ids(entries) : next[id] = 0 \/ next[id] > now
  <1>1. IInv /\ [Next]_vars => AllRun
    <2> SUFFICES ASSUME IInv, [Next]_vars, sched = "wake", sched' # "wake", NEW id \in Ids(entries)
                 PROVE  next[id] = 0 \/ next[id] > now
      OBVIOUS
    <2>1. RunDone
      BY DEF Next, API, Run, vars, apiVars, entryVars, runVars, jobVars, At, IInv, Alive,
         Tick, Schedule, Remove, Entries, Start, Stop, RunInit, RunSort, TimerFires, RunWake, RunDue,
         RunAdd, RunRemove, RunSnapshot, RunStop, JobEnds, Waiter, WaitCalled, WaitReturns
    <2>2. PICK i \in 1..Len(entries) : entries[i] = id
      BY DEF Ids
    <2>3. /\ at \in Nat /\ Len(entries) \in Nat /\ now \in Nat /\ next \in [IDs -> Nat]
          /\ \A k \in 1..Len(entries) : entries[k] \in IDs
      BY DEF IInv, TypeOK, Time
    <2>4. /\ at >= 1 /\ InOrder(at) /\ \A k \in 1..Len(entries) : k < at => ~Due(entries[k])
      BY DEF IInv, Order
    <2>5. at <= Len(entries) => ~Due(entries[at])
      BY <2>1 DEF RunDone
    <2>6. CASE i <= at
      BY <2>2, <2>3, <2>4, <2>5, <2>6 DEF Due
    <2>7. CASE i > at
      <3>1. ~Less(next[entries[i]], next[entries[at]]) /\ at \in 1..Len(entries)
        BY <2>2, <2>3, <2>4, <2>7 DEF InOrder
      <3>2. next[entries[i]] \in Nat /\ next[entries[at]] \in Nat
        BY <2>2, <2>3, <3>1
      <3> QED
        BY <2>2, <2>3, <2>5, <3>1, <3>2 DEF Due, Less
    <2> QED
      BY <2>3, <2>6, <2>7
  <1> QED
    BY <1>1, CronInvariant, PTL DEF Spec, WakeRunsAllDue
=============================================================================
