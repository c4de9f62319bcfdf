------------------------------ MODULE Limiter ------------------------------
(***************************************************************************)
(* The token bucket of rate.go.  Every operation holds lim.mu, so it is    *)
(* one step; but its callers read time.Now() before they get the mutex, so *)
(* an operation may run with a time that is up to Skew nanoseconds old.    *)
(* WaitN is several steps: the look at the settings and at the context,    *)
(* the reservation, and the wait for the timer or for the context.         *)
(*                                                                         *)
(* Durations are whole nanoseconds, and converting tokens to a duration    *)
(* truncates, as in the code.  Tokens are counted in fractions of which a  *)
(* token has Unit: a limit of r adds r of them every nanosecond, so that   *)
(* nothing is rounded that the code does not round.                        *)
(***************************************************************************)
EXTENDS Integers, Sequences, Functions

CONSTANTS
  Unit,            \* fractions of a token
  Limits, Bursts,  \* arguments of NewLimiter, SetLimit and SetBurst
  Inf,             \* the infinite limit
  Sizes,           \* the n of AllowN, ReserveN and WaitN
  Waiters,         \* goroutines that call WaitN
  Deadlines,       \* deadlines of the contexts given to WaitN
  Skew,            \* how old the time of an operation may be
  MaxTime, MaxReservations, MaxChanges  \* bounds of a run

ASSUME LimiterAssumption ==
  /\ Unit \in Nat \ {0} /\ Bursts \subseteq Nat /\ Sizes \subseteq Nat
  /\ \A r \in Limits : r = Inf \/ r \in Nat
  /\ Skew \in Nat /\ MaxTime \in Nat /\ MaxReservations \in Nat /\ MaxChanges \in Nat

VARIABLES
  clock,
  limit, burst,     \* fields of the Limiter
  tokens,           \* in fractions; negative when tokens are owed
  last, lastEvent,
  res,              \* the reservations granted, oldest first
  wait,             \* the WaitN call of each goroutine
  changes,          \* calls of SetLimit and SetBurst so far, for MaxChanges
  since,            \* reservations up to this one were made under other settings
  uncut,            \* and up to this one before the last effective cancellation
  credit            \* fractions given twice under these settings

settings == <<limit, burst>>
bucket   == <<tokens, last, lastEvent>>
history  == <<since, uncut, credit>>
vars     == <<clock, settings, bucket, res, wait, changes, history>>

-----------------------------------------------------------------------------
(* Conversions *)

InfDuration == 1000000

\* The int64 that amd64 makes of a float64 that is infinite or not a number.
Overflow == -2 * InfDuration

Least(a, b) == IF a < b THEN a ELSE b

Excess(a) == IF a > 0 THEN a ELSE 0

\* durationFromTokens truncates towards zero; Inf takes no time.
DurationFromTokens(r, x) ==
  IF r = Inf THEN 0
  ELSE IF r = 0 THEN Overflow
  ELSE IF x >= 0 THEN x \div r ELSE -((-x) \div r)

\* tokensFromDuration; advance asks it about Inf only for no time.
TokensFromDuration(r, d) == IF r = Inf THEN 0 ELSE r * d

Capacity == burst * Unit

\* Mutant of Advance: the bucket has no size.
AdvanceUncapped(now) == tokens + TokensFromDuration(limit, now - Least(last, now))

\* advance: the tokens there would be at a time.
Advance(now) ==
  LET elapsed == Least(now - Least(last, now),
                       DurationFromTokens(limit, Capacity - tokens))
  IN  Least(tokens + TokensFromDuration(limit, elapsed), Capacity)

\* A time.Now() of a caller that had to wait for the mutex.
Nows == (clock - Skew)..clock

\* What an operation gives twice when its time sets lim.last back.
Rewound(now) == TokensFromDuration(limit, last - Least(last, now))

-----------------------------------------------------------------------------
\* What was granted from here on is judged on its own.
NewAccount == since' = Len(res) /\ uncut' = Len(res) /\ credit' = 0

Idle == [pc |-> "idle"]

Init ==
  /\ clock = 0
  /\ limit \in Limits /\ burst \in Bursts
  /\ tokens = 0 /\ last = -InfDuration /\ lastEvent = -InfDuration   \* zero times
  /\ res = <<>> /\ changes = 0
  /\ wait = [w \in Waiters |-> Idle]
  /\ since = 0 /\ uncut = 0 /\ credit = 0

Tick ==
  /\ clock < MaxTime
  /\ clock' = clock + 1
  /\ UNCHANGED <<settings, bucket, res, wait, changes, history>>

\* The waitDuration of reserveN, when left is what the request leaves.
WaitDuration(left) == IF left < 0 THEN DurationFromTokens(limit, -left) ELSE 0

\* The two results of reserveN: whether n tokens are granted within maxFuture,
\* and when the holder may act.
Ok(now, n, maxFuture) ==
  limit = Inf \/ (n <= burst /\ WaitDuration(Advance(now) - n * Unit) <= maxFuture)

TimeToAct(now, n) ==
  IF limit = Inf THEN now ELSE now + WaitDuration(Advance(now) - n * Unit)

\* What reserveN records of a request and does to the account.
Record(now, n, maxFuture, kept) ==
  /\ Len(res) < MaxReservations
  /\ res' = IF Ok(now, n, maxFuture)
            THEN Append(res, [tokens |-> n, made |-> now, timeToAct |-> TimeToAct(now, n),
                              limit |-> IF limit = Inf THEN 0 ELSE limit,
                              state |-> IF kept THEN "kept" ELSE "used"])
            ELSE res
  /\ credit' = IF limit = Inf THEN credit ELSE credit + Rewound(now)
  /\ UNCHANGED <<clock, settings, changes, since, uncut>>

Grant(now, n, newLast) ==
  /\ last' = newLast
  /\ tokens' = Advance(now) - n * Unit
  /\ lastEvent' = TimeToAct(now, n)

Refuse(newLast) == last' = newLast /\ UNCHANGED <<tokens, lastEvent>>

\* Mutant of ReserveN: a grant does not move lim.last on.
ReserveNKeepsLast(now, n, maxFuture, kept) ==
  /\ Record(now, n, maxFuture, kept)
  /\ IF limit = Inf THEN UNCHANGED bucket
     ELSE IF Ok(now, n, maxFuture) THEN Grant(now, n, Least(last, now))
     ELSE Refuse(Least(last, now))

\* Mutant of ReserveN: a refusal moves lim.last on.
ReserveNLosesTime(now, n, maxFuture, kept) ==
  /\ Record(now, n, maxFuture, kept)
  /\ IF limit = Inf THEN UNCHANGED bucket
     ELSE IF Ok(now, n, maxFuture) THEN Grant(now, n, now)
     ELSE Refuse(now)

\* reserveN.  A reservation that is kept by its caller can be cancelled.
ReserveN(now, n, maxFuture, kept) ==
  /\ Record(now, n, maxFuture, kept)
  /\ IF limit = Inf THEN UNCHANGED bucket
     ELSE IF Ok(now, n, maxFuture) THEN Grant(now, n, now)
     ELSE Refuse(Least(last, now))

AllowN(now, n) == ReserveN(now, n, 0, FALSE) /\ UNCHANGED wait

ReserveAny(now, n) == ReserveN(now, n, InfDuration, TRUE) /\ UNCHANGED wait

\* CancelAt of a reservation that is not yet cancelled or used.
CancelAt(k, now) ==
  LET r        == res[k]
      restore  == r.tokens * Unit - TokensFromDuration(r.limit, lastEvent - r.timeToAct)
      previous == r.timeToAct + DurationFromTokens(r.limit, -(r.tokens * Unit))
  IN  /\ r.state = "kept"
      /\ res' = [res EXCEPT ![k].state = "cancelled"]
      /\ IF limit = Inf \/ r.tokens = 0 \/ r.timeToAct < now \/ restore <= 0
         THEN UNCHANGED <<bucket, history>>
         ELSE /\ last' = now
              /\ tokens' = Least(Advance(now) + restore, Capacity)
              /\ lastEvent' = IF r.timeToAct = lastEvent /\ previous >= now
                              THEN previous ELSE lastEvent
              /\ IF k <= since
                 THEN NewAccount
                 ELSE /\ credit' = credit + Rewound(now) + Excess(restore - r.tokens * Unit)
                      /\ uncut' = Len(res) /\ UNCHANGED since
      /\ UNCHANGED <<clock, settings, changes>>

\* The holder of a reservation cancels it.
Cancel(k, now) ==
  /\ \A w \in Waiters : wait[w].pc = "sleep" => wait[w].k # k
  /\ CancelAt(k, now)
  /\ UNCHANGED wait

\* WaitN up to the reservation, when it does not return an error.
WaitN(w, n, deadline) ==
  /\ wait[w].pc = "idle"
  /\ n <= burst \/ limit = Inf
  /\ clock < deadline
  /\ wait' = [wait EXCEPT ![w] = [pc |-> "reserve", n |-> n, deadline |-> deadline]]
  /\ UNCHANGED <<clock, settings, bucket, res, changes, history>>

\* Mutant of WaitReserve: the result of reserveN is not looked at.
WaitReserveUnchecked(w, now) ==
  /\ wait[w].pc = "reserve"
  /\ ReserveN(now, wait[w].n, wait[w].deadline - now, TRUE)
  /\ wait' = [wait EXCEPT ![w] = [pc |-> "sleep", k |-> Len(res) + 1]]

WaitReserve(w, now) ==
  LET n         == wait[w].n
      waitLimit == wait[w].deadline - now
      sleeps    == Ok(now, n, waitLimit) /\ TimeToAct(now, n) > now
  IN  /\ wait[w].pc = "reserve"
      /\ ReserveN(now, n, waitLimit, sleeps)
      /\ wait' = [wait EXCEPT ![w] =
                    IF sleeps THEN [pc |-> "sleep", k |-> Len(res) + 1] ELSE Idle]

\* The timer of WaitN.
WaitTimer(w) ==
  /\ wait[w].pc = "sleep"
  /\ res[wait[w].k].timeToAct <= clock
  /\ res' = [res EXCEPT ![wait[w].k].state = "used"]
  /\ wait' = [wait EXCEPT ![w] = Idle]
  /\ UNCHANGED <<clock, settings, bucket, changes, history>>

\* The context of WaitN is cancelled or its deadline passes.
WaitCancelled(w, now) ==
  /\ wait[w].pc = "sleep"
  /\ CancelAt(wait[w].k, now)
  /\ wait' = [wait EXCEPT ![w] = Idle]

SetLimitAt(now, newLimit) ==
  /\ changes < MaxChanges /\ changes' = changes + 1
  /\ last' = now /\ tokens' = Advance(now)
  /\ limit' = newLimit
  /\ NewAccount
  /\ UNCHANGED <<clock, burst, lastEvent, res, wait>>

SetBurstAt(now, newBurst) ==
  /\ changes < MaxChanges /\ changes' = changes + 1
  /\ last' = now /\ tokens' = Advance(now)
  /\ burst' = newBurst
  /\ NewAccount
  /\ UNCHANGED <<clock, limit, lastEvent, res, wait>>

Next ==
  \/ Tick
  \/ \E w \in Waiters : WaitTimer(w)
  \/ \E w \in Waiters, n \in Sizes, d \in Deadlines : WaitN(w, n, d)
  \/ \E now \in Nows :
       \/ \E n \in Sizes : AllowN(now, n) \/ ReserveAny(now, n)
       \/ \E w \in Waiters : WaitReserve(w, now) \/ WaitCancelled(w, now)
       \/ \E k \in DOMAIN res : Cancel(k, now)
       \/ \E r \in Limits : SetLimitAt(now, r)
       \/ \E b \in Bursts : SetBurstAt(now, b)

Spec == Init /\ [][Next]_vars

-----------------------------------------------------------------------------
(* Properties *)

Taken(ks) == SumFunctionOnSet([k \in ks |-> Unit * res[k].tokens], ks)

Alive(ks) == {k \in ks : res[k].state # "cancelled"}

\* Between the times of any two of these reservations the tokens granted are a
\* burst and what the limit adds, up to a truncation and an excess.
Within(ks, excess) ==
  limit # Inf =>
    \A i, j \in ks :
      LET s == res[i].timeToAct
          t == res[j].timeToAct
      IN  s <= t => Taken({k \in Alive(ks) : res[k].timeToAct \in s..t})
                      <= Capacity + limit * (t - s) + (limit - 1) + excess

\* Types; and a WaitN that sleeps (rate.go:253-268) has a reservation that
\* was granted and that nobody else has used or cancelled.
TypeOK ==
  /\ clock \in 0..MaxTime /\ limit \in Limits /\ burst \in Bursts
  /\ tokens \in Int /\ last <= clock /\ lastEvent \in Int
  /\ 0 <= since /\ since <= uncut /\ uncut <= Len(res) /\ Len(res) <= MaxReservations
  /\ credit \in Nat /\ changes \in 0..MaxChanges
  /\ \A w \in Waiters :
       \/ wait[w] = Idle
       \/ wait[w].pc = "reserve" /\ wait[w].n \in Sizes /\ wait[w].deadline \in Deadlines
       \/ wait[w].pc = "sleep" /\ wait[w].k \in DOMAIN res /\ res[wait[w].k].state = "kept"

\* rate.go:35: the limiter keeps to its rate and its burst, for all that was
\* reserved under the present settings and not cancelled.
RateBound == Within((since + 1)..Len(res), 0)

\* What reserveN grants between two effective calls of CancelAt keeps to the
\* rate and the burst but for the credit, whatever order callers that read
\* the time early get the mutex in.
GrantsBounded == Within((uncut + 1)..Len(res), credit)

\* Cancellations included, tokens are conserved: what reserveN has granted and
\* CancelAt has not taken back, and what is left in the bucket, came from a
\* full bucket, from the limit or from the credit.
Ledger ==
  (limit # Inf /\ since < Len(res)) =>
     Taken(Alive((since + 1)..Len(res))) + Advance(clock)
       <= Capacity + limit * (clock - res[since + 1].made) + credit

\* The limiter holds nothing back: short of full (but for a truncation in
\* advance), its bucket has all that the limit has added since some
\* reservation, less what was taken since.  Refused requests cost nothing.
RefillsInFull ==
  (changes = 0 /\ limit # Inf) =>
    \/ Advance(clock) > Capacity - limit
    \/ \E i \in DOMAIN res :
         Advance(clock) + Taken(i..Len(res)) > Capacity - limit + limit * (clock - res[i].made)
=============================================================================
