---------------------------- MODULE LimiterProofs ----------------------------
(***************************************************************************)
(* Proofs about Limiter, for any limits, bursts, requests and clocks: a    *)
(* WaitN that sleeps owns a reservation, and it alone uses or cancels it;  *)
(* what was granted and what is in the bucket were paid for by the burst   *)
(* and the limit; between two reservations no more is granted than that,   *)
(* and no request is made to wait that the limit had paid for.             *)
(***************************************************************************)
EXTENDS Limiter, SumProofs

Reservations ==
  [tokens : Sizes, made : Int, timeToAct : Int, limit : Nat, state : {"kept", "used", "cancelled"}]

Places ==
  {Idle} \cup [pc : {"reserve"}, n : Sizes, deadline : Deadlines] \cup [pc : {"sleep"}, k : Nat]

Sleeping(w) == wait[w].pc = "sleep"

\* The fields of the Limiter, and the bounds of a run.
Scalars ==
  /\ clock \in 0..MaxTime /\ limit \in Limits /\ burst \in Bursts
  /\ tokens \in Int /\ last \in Int /\ last <= clock /\ lastEvent \in Int
  /\ credit \in Nat /\ changes \in 0..MaxChanges

\* The reservations, and where the accounts of them begin.
Account ==
  /\ res \in Seq(Reservations) /\ Len(res) <= MaxReservations
  /\ since \in 0..uncut /\ uncut \in 0..Len(res)

\* A goroutine that sleeps has a reservation of its own.
Owners ==
  /\ wait \in [Waiters -> Places]
  /\ \A w \in Waiters : Sleeping(w) => wait[w].k \in DOMAIN res /\ res[wait[w].k].state = "kept"
  /\ \A v, w \in Waiters : Sleeping(v) /\ Sleeping(w) /\ wait[v].k = wait[w].k => v = w

IInv == Scalars /\ Account /\ Owners

-----------------------------------------------------------------------------
(* Arithmetic *)

\* Tokens convert to whole durations and durations to whole fractions.
LEMMA Conversions ==
  ASSUME NEW r, r = Inf \/ r \in Nat, NEW x \in Int
  PROVE  DurationFromTokens(r, x) \in Int /\ TokensFromDuration(r, x) \in Int
  <1>1. CASE r = Inf
    BY <1>1 DEF DurationFromTokens, TokensFromDuration
  <1>2. CASE r # Inf /\ r = 0
    BY <1>2 DEF DurationFromTokens, TokensFromDuration, Overflow, InfDuration
  <1>3. CASE r # Inf /\ r \in Nat \ {0}
    <2>1. x \div r \in Int /\ (-x) \div r \in Int /\ -((-x) \div r) \in Int /\ r * x \in Int
      BY <1>3
    <2> QED
      BY <1>3, <2>1 DEF DurationFromTokens, TokensFromDuration
  <1> QED
    BY <1>1, <1>2, <1>3

\* A duration that is not negative gives tokens that are not negative.
LEMMA TokensPositive ==
  ASSUME NEW r, r = Inf \/ r \in Nat, NEW d \in Nat
  PROVE  TokensFromDuration(r, d) \in Nat
  BY DEF TokensFromDuration

\* advance counts in whole fractions of a token.
LEMMA AdvanceInt ==
  ASSUME IInv, NEW now \in Int
  PROVE  Advance(now) \in Int
  <1>1. limit = Inf \/ limit \in Nat
    BY LimiterAssumption DEF IInv, Scalars
  <1>2. Capacity \in Int /\ tokens \in Int /\ last \in Int
    BY LimiterAssumption DEF IInv, Scalars, Capacity
  <1>3. DurationFromTokens(limit, Capacity - tokens) \in Int
    BY <1>1, <1>2, Conversions
  <1> DEFINE elapsed == Least(now - Least(last, now), DurationFromTokens(limit, Capacity - tokens))
  <1>4. elapsed \in Int
    BY <1>2, <1>3 DEF Least
  <1>5. TokensFromDuration(limit, elapsed) \in Int
    BY <1>1, <1>4, Conversions
  <1> HIDE DEF elapsed
  <1>6. Least(tokens + TokensFromDuration(limit, elapsed), Capacity) \in Int
    BY <1>2, <1>5 DEF Least
  <1> QED
    BY <1>6 DEF Advance, elapsed

\* A holder acts at a whole nanosecond.
LEMMA TimeToActInt ==
  ASSUME IInv, NEW now \in Int, NEW n \in Sizes
  PROVE  TimeToAct(now, n) \in Int
  <1>1. limit = Inf \/ limit \in Nat
    BY LimiterAssumption DEF IInv, Scalars
  <1> DEFINE left == Advance(now) - n * Unit
  <1>2. left \in Int /\ -left \in Int
    BY AdvanceInt, LimiterAssumption
  <1>3. DurationFromTokens(limit, -left) \in Int
    BY <1>1, <1>2, Conversions
  <1> HIDE DEF left
  <1>4. WaitDuration(left) \in Int
    BY <1>3 DEF WaitDuration
  <1> QED
    BY <1>4 DEF TimeToAct, left

\* Setting lim.last back gives nothing negative.
LEMMA RewoundNat ==
  ASSUME IInv, NEW now \in Int
  PROVE  Rewound(now) \in Nat
  <1>1. limit = Inf \/ limit \in Nat
    BY LimiterAssumption DEF IInv, Scalars
  <1>2. last - Least(last, now) \in Nat
    BY DEF Least, IInv, Scalars
  <1> QED
    BY <1>1, <1>2, TokensPositive DEF Rewound

-----------------------------------------------------------------------------
(* The operations *)

\* A caller's time.Now() is whole and not in the future.
LEMMA NowsPast == ASSUME IInv, NEW now \in Nows PROVE now \in Int /\ now <= clock
  BY LimiterAssumption DEF IInv, Scalars, Nows

\* reserveN keeps the types, and grants one reservation or none.
LEMMA Reserving ==
  ASSUME IInv, NEW now \in Nows, NEW n \in Sizes, NEW maxFuture, NEW kept \in BOOLEAN,
         ReserveN(now, n, maxFuture, kept)
  PROVE  /\ Scalars' /\ Account'
         /\ \A k \in DOMAIN res : k \in DOMAIN res' /\ res'[k] = res[k]
         /\ Ok(now, n, maxFuture) /\ kept =>
              Len(res) + 1 \in DOMAIN res' /\ res'[Len(res) + 1].state = "kept"
  <1>1. now \in Int /\ now <= clock /\ clock \in Int
    BY NowsPast DEF IInv, Scalars
  <1>2. Advance(now) - n * Unit \in Int
    BY <1>1, AdvanceInt, LimiterAssumption
  <1>3. TimeToAct(now, n) \in Int
    BY <1>1, TimeToActInt
  <1>4. Least(last, now) \in Int /\ Least(last, now) <= clock
    BY <1>1 DEF Least, IInv, Scalars
  <1>5. credit' \in Nat
    <2>1. Rewound(now) \in Nat /\ credit \in Nat
      BY <1>1, RewoundNat DEF IInv, Scalars
    <2>2. credit' = IF limit = Inf THEN credit ELSE credit + Rewound(now)
      BY DEF ReserveN, Record
    <2> QED
      BY <2>1, <2>2
  <1>6. Scalars'
    BY <1>1, <1>2, <1>3, <1>4, <1>5 DEF ReserveN, Record, Grant, Refuse, IInv, Scalars, settings, bucket
  <1> DEFINE r == [tokens |-> n, made |-> now, timeToAct |-> TimeToAct(now, n),
                   limit |-> IF limit = Inf THEN 0 ELSE limit,
                   state |-> IF kept THEN "kept" ELSE "used"]
  <1>7. r \in Reservations
    <2>1. (IF limit = Inf THEN 0 ELSE limit) \in Nat
      BY LimiterAssumption DEF IInv, Scalars
    <2> QED
      BY <1>1, <1>3, <2>1 DEF Reservations
  <1>8. res' = IF Ok(now, n, maxFuture) THEN Append(res, r) ELSE res
    BY DEF ReserveN, Record
  <1>9. /\ res \in Seq(Reservations) /\ Len(res) < MaxReservations /\ MaxReservations \in Nat
        /\ UNCHANGED <<since, uncut>> /\ since \in 0..uncut /\ uncut \in 0..Len(res)
    BY LimiterAssumption DEF ReserveN, Record, IInv, Account
  <1>10. r.state = IF kept THEN "kept" ELSE "used"
    OBVIOUS
  <1> HIDE DEF r, Reservations
  <1>11. Account'
    BY <1>7, <1>8, <1>9 DEF Account
  <1>12. \A k \in DOMAIN res : k \in DOMAIN res' /\ res'[k] = res[k]
    BY <1>7, <1>8, <1>9
  <1>13. Ok(now, n, maxFuture) => Len(res) + 1 \in DOMAIN res' /\ res'[Len(res) + 1] = r
    BY <1>7, <1>8, <1>9
  <1> QED
    BY <1>6, <1>10, <1>11, <1>12, <1>13

\* CancelAt keeps the types, and ends one reservation.
LEMMA Cancelling ==
  ASSUME IInv, NEW now \in Nows, NEW k \in DOMAIN res, CancelAt(k, now)
  PROVE  /\ Scalars' /\ Account'
         /\ DOMAIN res' = DOMAIN res /\ \A l \in DOMAIN res : l # k => res'[l] = res[l]
  <1> DEFINE r        == res[k]
             restore  == r.tokens * Unit - TokensFromDuration(r.limit, lastEvent - r.timeToAct)
             previous == r.timeToAct + DurationFromTokens(r.limit, -(r.tokens * Unit))
  <1>1. now \in Int /\ now <= clock /\ clock \in Int
    BY NowsPast DEF IInv, Scalars
  <1>2. res \in Seq(Reservations) /\ r \in Reservations
    BY DEF IInv, Account
  <1>3. r.tokens \in Nat /\ r.timeToAct \in Int /\ r.limit \in Nat
    BY <1>2, LimiterAssumption DEF Reservations
  <1>4. /\ Unit \in Int /\ lastEvent \in Int /\ tokens \in Int /\ credit \in Nat /\ last \in Int
        /\ Capacity \in Int
    BY LimiterAssumption DEF IInv, Scalars, Capacity
  <1>5. r.tokens * Unit \in Int /\ -(r.tokens * Unit) \in Int /\ lastEvent - r.timeToAct \in Int
    BY <1>3, <1>4
  <1>6. restore \in Int /\ previous \in Int
    BY <1>3, <1>5, Conversions
  <1>7. Advance(now) \in Int /\ Rewound(now) \in Nat
    BY <1>1, AdvanceInt, RewoundNat
  <1>8. Excess(restore - r.tokens * Unit) \in Nat
    BY <1>5, <1>6 DEF Excess
  <1>9. /\ UNCHANGED <<clock, settings, changes>>
        /\ res' = [res EXCEPT ![k].state = "cancelled"]
        /\ \/ UNCHANGED <<bucket, history>>
           \/ /\ last' = now /\ tokens' = Least(Advance(now) + restore, Capacity)
              /\ lastEvent' \in {previous, lastEvent}
              /\ \/ NewAccount
                 \/ /\ credit' = credit + Rewound(now) + Excess(restore - r.tokens * Unit)
                    /\ uncut' = Len(res) /\ UNCHANGED since
    BY DEF CancelAt
  <1> HIDE DEF restore, previous
  <1>10. Scalars'
    <2>1. credit' \in Nat
      <3>1. \/ credit' = credit \/ credit' = 0
            \/ credit' = credit + Rewound(now) + Excess(restore - r.tokens * Unit)
        BY <1>9 DEF NewAccount, history
      <3> QED
        BY <1>4, <1>7, <1>8, <3>1
    <2>2. tokens' \in Int /\ lastEvent' \in Int /\ last' \in Int /\ last' <= clock
      <3>1. Least(Advance(now) + restore, Capacity) \in Int
        BY <1>4, <1>6, <1>7 DEF Least
      <3> QED
        BY <1>1, <1>4, <1>6, <1>9, <3>1 DEF bucket, IInv, Scalars
    <2> QED
      BY <1>9, <2>1, <2>2 DEF settings, IInv, Scalars
  <1>11. [r EXCEPT !.state = "cancelled"] \in Reservations
    BY <1>2 DEF Reservations
  <1>12. res' \in Seq(Reservations) /\ Len(res') = Len(res) /\ DOMAIN res' = DOMAIN res
         /\ \A l \in DOMAIN res : l # k => res'[l] = res[l]
    BY <1>2, <1>9, <1>11
  <1>13. Account'
    BY <1>9, <1>12 DEF NewAccount, IInv, Account, history
  <1> QED
    BY <1>10, <1>12, <1>13

\* A change of the settings keeps the types and the reservations.
LEMMA Changing ==
  ASSUME IInv, NEW now \in Nows,
         (\E r \in Limits : SetLimitAt(now, r)) \/ (\E b \in Bursts : SetBurstAt(now, b))
  PROVE  Scalars' /\ Account' /\ UNCHANGED <<res, wait>>
  <1>1. now \in Int /\ now <= clock /\ Advance(now) \in Int
    BY NowsPast, AdvanceInt
  <1>2. MaxChanges \in Nat
    BY LimiterAssumption
  <1>3. Scalars'
    BY <1>1, <1>2 DEF SetLimitAt, SetBurstAt, NewAccount, IInv, Scalars
  <1>4. Account' /\ UNCHANGED <<res, wait>>
    BY DEF SetLimitAt, SetBurstAt, NewAccount, IInv, Account
  <1> QED
    BY <1>3, <1>4

\* The owners stay the owners when nobody else's reservation is touched.
LEMMA OthersKeep ==
  ASSUME IInv, UNCHANGED wait,
         \A w \in Waiters : Sleeping(w) =>
           wait[w].k \in DOMAIN res' /\ res'[wait[w].k].state = res[wait[w].k].state
  PROVE  Owners'
  BY DEF IInv, Owners, Sleeping

\* A goroutine that does not sleep after a step disturbs no other one.
LEMMA AwakeStep ==
  ASSUME IInv, NEW w \in Waiters, NEW place \in Places, place.pc # "sleep",
         wait' = [wait EXCEPT ![w] = place],
         \A v \in Waiters : v # w /\ Sleeping(v) =>
           wait[v].k \in DOMAIN res' /\ res'[wait[v].k].state = res[wait[v].k].state
  PROVE  Owners'
  <1>1. wait' \in [Waiters -> Places] /\ wait'[w] = place
        /\ \A v \in Waiters : v # w => wait'[v] = wait[v]
    BY DEF IInv, Owners
  <1> QED
    BY <1>1 DEF IInv, Owners, Sleeping

\* Where the goroutine of a WaitN may be.
LEMMA PlacesAwake ==
  /\ Idle \in Places /\ Idle.pc # "sleep"
  /\ \A n \in Sizes, d \in Deadlines :
       LET place == [pc |-> "reserve", n |-> n, deadline |-> d]
       IN  place \in Places /\ place.pc # "sleep"
  BY DEF Idle, Places

\* Every step keeps the invariant.
LEMMA StepIInv == IInv /\ [Next]_vars => IInv'
  <1> SUFFICES ASSUME IInv, [Next]_vars PROVE IInv'
    OBVIOUS
  <1>1. Scalars /\ Account /\ Owners /\ Len(res) \in Nat /\ DOMAIN res = 1..Len(res)
    BY DEF IInv, Account
  <1>2. CASE UNCHANGED vars
    BY <1>1, <1>2 DEF IInv, Scalars, Account, Owners, Sleeping, vars, settings, bucket, history
  <1>3. CASE Tick
    <2>1. Scalars' /\ UNCHANGED <<res, wait, since, uncut>>
      BY <1>1, <1>3, LimiterAssumption DEF Tick, Scalars, settings, bucket, history
    <2> QED
      BY <1>1, <2>1 DEF IInv, Account, Owners, Sleeping
  <1>4. ASSUME NEW w \in Waiters, WaitTimer(w) PROVE IInv'
    <2> DEFINE k == wait[w].k
    <2>1. Sleeping(w) /\ k \in DOMAIN res
      BY <1>1, <1>4 DEF WaitTimer, Owners, Sleeping
    <2>2. Scalars' /\ wait' = [wait EXCEPT ![w] = Idle] /\ UNCHANGED <<since, uncut>>
      BY <1>1, <1>4 DEF WaitTimer, Scalars, settings, bucket, history
    <2>3. res' = [res EXCEPT ![k] = [res[k] EXCEPT !.state = "used"]]
      BY <1>4 DEF WaitTimer
    <2>4. res \in Seq(Reservations) /\ [res[k] EXCEPT !.state = "used"] \in Reservations
      <3>1. res[k] \in Reservations
        BY <1>1, <2>1 DEF Account
      <3> QED
        BY <1>1, <3>1 DEF Account, Reservations
    <2>5. \A v \in Waiters : v # w /\ Sleeping(v) => wait[v].k \in DOMAIN res /\ wait[v].k # k
      BY <1>1, <2>1 DEF Owners
    <2> HIDE DEF k
    <2>6. res' \in Seq(Reservations) /\ Len(res') = Len(res) /\ DOMAIN res' = DOMAIN res
          /\ \A l \in DOMAIN res : l # k => res'[l] = res[l]
      BY <2>1, <2>3, <2>4
    <2>7. Account'
      BY <1>1, <2>2, <2>6 DEF Account
    <2>8. Owners'
      BY <2>2, <2>5, <2>6, AwakeStep, PlacesAwake
    <2> QED
      BY <2>2, <2>7, <2>8 DEF IInv
  <1>5. ASSUME NEW w \in Waiters, NEW n \in Sizes, NEW d \in Deadlines, WaitN(w, n, d) PROVE IInv'
    <2> DEFINE place == [pc |-> "reserve", n |-> n, deadline |-> d]
    <2>1. Scalars' /\ Account' /\ UNCHANGED res /\ wait' = [wait EXCEPT ![w] = place]
      BY <1>1, <1>5 DEF WaitN, Scalars, Account, settings, bucket, history
    <2>2. place \in Places /\ place.pc # "sleep"
      BY PlacesAwake
    <2> HIDE DEF place
    <2>3. Owners'
      BY <1>1, <2>1, <2>2, AwakeStep DEF Owners
    <2> QED
      BY <2>1, <2>3 DEF IInv
  <1>6. ASSUME NEW now \in Nows, NEW n \in Sizes, AllowN(now, n) \/ ReserveAny(now, n) PROVE IInv'
    <2>1. UNCHANGED wait /\ \E f \in {0, InfDuration}, kept \in BOOLEAN : ReserveN(now, n, f, kept)
      BY <1>6 DEF AllowN, ReserveAny
    <2>2. PICK f \in {0, InfDuration}, kept \in BOOLEAN : ReserveN(now, n, f, kept)
      BY <2>1
    <2>3. Scalars' /\ Account' /\ \A k \in DOMAIN res : k \in DOMAIN res' /\ res'[k] = res[k]
      BY <2>2, Reserving
    <2>4. Owners'
      BY <1>1, <2>1, <2>3, OthersKeep DEF Owners
    <2> QED
      BY <2>3, <2>4 DEF IInv
  <1>7. ASSUME NEW now \in Nows, NEW w \in Waiters, WaitReserve(w, now) PROVE IInv'
    <2> DEFINE n      == wait[w].n
               f      == wait[w].deadline - now
               sleeps == Ok(now, n, f) /\ TimeToAct(now, n) > now
               asleep == [pc |-> "sleep", k |-> Len(res) + 1]
    <2>1. n \in Sizes
      BY <1>1, <1>7 DEF WaitReserve, Owners, Places, Idle
    <2>2. ReserveN(now, n, f, sleeps) /\ wait' = [wait EXCEPT ![w] = IF sleeps THEN asleep ELSE Idle]
      BY <1>7 DEF WaitReserve
    <2>3. sleeps \in BOOLEAN /\ (sleeps => Ok(now, n, f))
      OBVIOUS
    <2> HIDE DEF n, f, sleeps
    <2>4. /\ Scalars' /\ Account' /\ \A k \in DOMAIN res : k \in DOMAIN res' /\ res'[k] = res[k]
          /\ sleeps => Len(res) + 1 \in DOMAIN res' /\ res'[Len(res) + 1].state = "kept"
      BY <2>1, <2>2, <2>3, Reserving
    <2>5. Owners'
      <3>1. CASE ~sleeps
        <4>1. wait' = [wait EXCEPT ![w] = Idle]
          BY <2>2, <3>1
        <4> QED
          BY <1>1, <2>4, <4>1, AwakeStep, PlacesAwake DEF Owners
      <3>2. CASE sleeps
        <4>1. asleep \in Places /\ asleep.pc = "sleep" /\ asleep.k = Len(res) + 1
          BY <1>1 DEF Places
        <4>2. wait' = [wait EXCEPT ![w] = asleep]
          BY <2>2, <3>2
        <4> HIDE DEF asleep
        <4>3. wait' \in [Waiters -> Places] /\ wait'[w] = asleep
              /\ \A v \in Waiters : v # w => wait'[v] = wait[v]
          BY <1>1, <4>1, <4>2 DEF Owners
        <4>4. \A v \in Waiters : v # w /\ Sleeping(v) => wait[v].k # Len(res) + 1
          BY <1>1 DEF Owners
        <4> QED
          BY <1>1, <2>4, <3>2, <4>1, <4>3, <4>4 DEF Owners, Sleeping
      <3> QED
        BY <3>1, <3>2
    <2> QED
      BY <2>4, <2>5 DEF IInv
  <1>8. ASSUME NEW now \in Nows, NEW w \in Waiters, WaitCancelled(w, now) PROVE IInv'
    <2>1. Sleeping(w) /\ wait[w].k \in DOMAIN res /\ CancelAt(wait[w].k, now)
          /\ wait' = [wait EXCEPT ![w] = Idle]
      BY <1>1, <1>8 DEF WaitCancelled, Owners, Sleeping
    <2>2. Scalars' /\ Account' /\ DOMAIN res' = DOMAIN res
          /\ \A l \in DOMAIN res : l # wait[w].k => res'[l] = res[l]
      BY <2>1, Cancelling
    <2>3. \A v \in Waiters : v # w /\ Sleeping(v) => wait[v].k \in DOMAIN res /\ wait[v].k # wait[w].k
      BY <1>1, <2>1 DEF Owners
    <2>4. Owners'
      BY <2>1, <2>2, <2>3, AwakeStep, PlacesAwake
    <2> QED
      BY <2>2, <2>4 DEF IInv
  <1>9. ASSUME NEW now \in Nows, NEW k \in DOMAIN res, Cancel(k, now) PROVE IInv'
    <2>1. CancelAt(k, now) /\ UNCHANGED wait /\ \A w \in Waiters : Sleeping(w) => wait[w].k # k
      BY <1>9 DEF Cancel, Sleeping
    <2>2. Scalars' /\ Account' /\ DOMAIN res' = DOMAIN res
          /\ \A l \in DOMAIN res : l # k => res'[l] = res[l]
      BY <2>1, Cancelling
    <2>3. Owners'
      BY <1>1, <2>1, <2>2, OthersKeep DEF Owners
    <2> QED
      BY <2>2, <2>3 DEF IInv
  <1>10. ASSUME NEW now \in Nows,
                (\E r \in Limits : SetLimitAt(now, r)) \/ (\E b \in Bursts : SetBurstAt(now, b))
         PROVE  IInv'
    <2>1. Scalars' /\ Account' /\ UNCHANGED <<res, wait>>
      BY <1>10, Changing
    <2> QED
      BY <1>1, <2>1, OthersKeep DEF IInv, Owners
  <1> QED
    BY <1>2, <1>3, <1>4, <1>5, <1>6, <1>7, <1>8, <1>9, <1>10 DEF Next

\* A new limiter has no reservations and nobody waits.
LEMMA InitIInv == Init => IInv
  <1> SUFFICES ASSUME Init PROVE IInv
    OBVIOUS
  <1>1. Scalars
    BY LimiterAssumption DEF Init, Scalars, InfDuration
  <1>2. Account
    BY LimiterAssumption DEF Init, Account
  <1>3. Owners
    BY PlacesAwake DEF Init, Owners, Sleeping, Idle
  <1> QED
    BY <1>1, <1>2, <1>3 DEF IInv

-----------------------------------------------------------------------------
(* What time adds to the bucket *)

\* Multiplication by a limit.
LEMMA Times ==
  ASSUME NEW r \in Nat, NEW a \in Int, NEW b \in Int
  PROVE  /\ r * a \in Int /\ r * (a - b) = r * a - r * b /\ r * (a + b) = r * a + r * b
         /\ a <= b => r * a <= r * b
  OBVIOUS

\* Division by a limit loses less than the limit.
LEMMA Divides ==
  ASSUME NEW r \in Nat \ {0}, NEW x \in Int
  PROVE  x \div r \in Int /\ r * (x \div r) <= x /\ x <= r * (x \div r) + (r - 1)
  OBVIOUS

\* The bucket is never more than full, and has at most what it had and what
\* the limit adds, the time that is given twice included.
LEMMA AdvanceBound ==
  ASSUME IInv, limit # Inf, NEW now \in Int
  PROVE  /\ Advance(now) <= Capacity
         /\ Advance(now) + limit * last <= tokens + limit * now + Rewound(now)
  <1> DEFINE m == Least(last, now)
             d == DurationFromTokens(limit, Capacity - tokens)
             e == Least(now - m, d)
  <1>1. limit \in Nat /\ Capacity \in Int /\ tokens \in Int /\ last \in Int
    BY LimiterAssumption DEF IInv, Scalars, Capacity
  <1>2. m \in Int
    BY <1>1 DEF Least
  <1>3. d \in Int
    <2>1. Capacity - tokens \in Int
      BY <1>1
    <2> QED
      BY <1>1, <2>1, Conversions
  <1> HIDE DEF d
  <1>4. e \in Int /\ e <= now - m
    BY <1>2, <1>3 DEF Least
  <1>5. Advance(now) = Least(tokens + limit * e, Capacity)
    BY DEF Advance, TokensFromDuration, e, d, m
  <1>6. Rewound(now) = limit * (last - m)
    BY DEF Rewound, TokensFromDuration
  <1> HIDE DEF m, e
  <1>7. limit * e \in Int /\ limit * e <= limit * (now - m)
    <2>1. now - m \in Int
      BY <1>2
    <2> QED
      BY <1>1, <1>4, <2>1, Times
  <1>8. /\ limit * (now - m) = limit * now - limit * m /\ limit * (last - m) = limit * last - limit * m
        /\ limit * now \in Int /\ limit * m \in Int /\ limit * last \in Int
    BY <1>1, <1>2, Times
  <1>9. Advance(now) <= Capacity /\ Advance(now) <= tokens + limit * e
    BY <1>1, <1>5, <1>7 DEF Least
  <1>10. Advance(now) \in Int
    BY AdvanceInt
  <1> QED
    BY <1>1, <1>6, <1>7, <1>8, <1>9, <1>10

\* Short of full, the bucket has all that the limit has added.
LEMMA AdvanceFull ==
  ASSUME IInv, limit # Inf, limit > 0, tokens <= Capacity, NEW now \in Int
  PROVE  \/ Advance(now) > Capacity - limit
         \/ Advance(now) >= tokens /\ Advance(now) + limit * last >= tokens + limit * now
  <1> DEFINE m == Least(last, now)
             d == (Capacity - tokens) \div limit
             e == Least(now - m, d)
  <1>1. limit \in Nat \ {0} /\ Capacity \in Int /\ tokens \in Int /\ last \in Int
    BY LimiterAssumption DEF IInv, Scalars, Capacity
  <1>2. m \in Int /\ m <= last /\ m <= now
    BY <1>1 DEF Least
  <1>3. d \in Int /\ limit * d <= Capacity - tokens /\ Capacity - tokens <= limit * d + (limit - 1)
    <2>1. Capacity - tokens \in Int
      BY <1>1
    <2> QED
      BY <1>1, <2>1, Divides
  <1>4. DurationFromTokens(limit, Capacity - tokens) = d
    BY <1>1 DEF DurationFromTokens
  <1>5. Advance(now) = Least(tokens + limit * e, Capacity)
    BY <1>4 DEF Advance, TokensFromDuration
  <1> HIDE DEF d
  <1>6. e \in Int /\ e <= d /\ e <= now - m /\ e \in {now - m, d}
    BY <1>2, <1>3 DEF Least
  <1> HIDE DEF m, e
  <1>7. limit * e \in Int /\ limit * d \in Int /\ limit * e <= limit * d
    BY <1>1, <1>3, <1>6, Times
  <1>8. Advance(now) = tokens + limit * e
    BY <1>1, <1>3, <1>5, <1>7 DEF Least
  <1>9. CASE e = d
    BY <1>1, <1>3, <1>7, <1>8, <1>9
  <1>10. CASE e = now - m
    <2>1. now - m \in Int /\ now - last \in Int /\ now - last <= now - m /\ 0 <= now - m
      BY <1>1, <1>2
    <2>2. limit * (now - last) <= limit * (now - m) /\ limit * (now - last) = limit * now - limit * last
      BY <1>1, <2>1, Times
    <2>3. limit * 0 <= limit * (now - m) /\ limit * 0 = 0
      BY <1>1, <2>1, Times
    <2>4. limit * now \in Int /\ limit * last \in Int /\ limit * (now - m) \in Int
      BY <1>1, <2>1, Times
    <2> QED
      BY <1>1, <1>8, <1>10, <2>2, <2>3, <2>4
  <1> QED
    BY <1>6, <1>9, <1>10

\* A refusal that sets lim.last back gives that time twice, and no more.
LEMMA RewoundLast ==
  ASSUME IInv, limit # Inf, NEW now \in Int
  PROVE  limit * Least(last, now) + Rewound(now) = limit * last
  <1> DEFINE m == Least(last, now)
  <1>1. limit \in Nat /\ last \in Int /\ m \in Int
    BY LimiterAssumption DEF IInv, Scalars, Least
  <1>2. Rewound(now) = limit * (last - m)
    BY DEF Rewound, TokensFromDuration
  <1> HIDE DEF m
  <1>3. limit * (last - m) = limit * last - limit * m /\ limit * last \in Int /\ limit * m \in Int
    BY <1>1, Times
  <1> QED
    BY <1>2, <1>3 DEF m

\* The holder of a grant acts when the bucket has paid for it, to the truncated
\* nanosecond.
LEMMA ActsWhenPaid ==
  ASSUME IInv, limit # Inf, limit > 0, NEW now \in Int, NEW n \in Sizes, n <= burst
  PROVE  LET left == Advance(now) - n * Unit
         IN  /\ limit * now - left <= limit * TimeToAct(now, n) + (limit - 1)
             /\ limit * TimeToAct(now, n) + n * Unit <= limit * now - left + Capacity
  <1> DEFINE left == Advance(now) - n * Unit
             d == (-left) \div limit
  <1>1. /\ limit \in Nat \ {0} /\ n \in Nat /\ Unit \in Nat /\ burst \in Nat
        /\ Capacity = burst * Unit
    BY LimiterAssumption DEF IInv, Scalars, Capacity
  <1>2. Advance(now) \in Int /\ Advance(now) <= Capacity
    BY AdvanceInt, AdvanceBound
  <1>3. n * Unit \in Int /\ n * Unit <= Capacity /\ Capacity \in Int
    BY <1>1
  <1>4. left \in Int /\ -left \in Int /\ left <= Capacity - n * Unit
    BY <1>2, <1>3
  <1>5. TimeToAct(now, n) = IF left < 0 THEN now + d ELSE now + 0
    BY <1>1, <1>4 DEF TimeToAct, WaitDuration, DurationFromTokens
  <1> HIDE DEF left
  <1>6. d \in Int /\ limit * d <= -left /\ -left <= limit * d + (limit - 1)
    BY <1>1, <1>4, Divides
  <1> HIDE DEF d
  <1>7. limit * (now + d) = limit * now + limit * d /\ limit * now \in Int /\ limit * d \in Int
    BY <1>1, <1>6, Times
  <1>8. CASE left < 0
    <2>1. limit * TimeToAct(now, n) = limit * now + limit * d
      BY <1>5, <1>7, <1>8
    <2> QED
      BY <1>1, <1>3, <1>4, <1>6, <1>7, <2>1 DEF left
  <1>9. CASE left >= 0
    <2>1. limit * TimeToAct(now, n) = limit * now
      BY <1>4, <1>5, <1>9
    <2> QED
      BY <1>1, <1>3, <1>4, <1>7, <1>9, <2>1 DEF left
  <1> QED
    BY <1>4, <1>8, <1>9

-----------------------------------------------------------------------------
(* What reservations took *)

TakenOf(r, ks) == SumFunctionOnSet([k \in ks |-> Unit * r[k].tokens], ks)

\* What some reservations took is a whole number of fractions.
LEMMA TakenNat ==
  ASSUME NEW r, NEW ks, IsFiniteSet(ks), \A k \in ks : r[k].tokens \in Nat
  PROVE  TakenOf(r, ks) \in Nat
  <1> DEFINE f == [k \in ks |-> Unit * r[k].tokens]
  <1>1. \A k \in ks : f[k] \in Nat
    BY LimiterAssumption
  <1> HIDE DEF f
  <1>2. SumFunctionOnSet(f, ks) \in Nat
    BY <1>1, SumIsNat
  <1> QED
    BY <1>2 DEF TakenOf, f

\* One reservation and the others.
LEMMA TakenOne ==
  ASSUME NEW r, NEW ks, IsFiniteSet(ks), \A k \in ks : r[k].tokens \in Nat, NEW j \in ks
  PROVE  TakenOf(r, ks) = Unit * r[j].tokens + TakenOf(r, ks \ {j})
  <1> DEFINE f == [k \in ks |-> Unit * r[k].tokens]
             g == [k \in ks \ {j} |-> Unit * r[k].tokens]
  <1>1. \A k \in ks : f[k] \in Int
    BY LimiterAssumption
  <1>2. f[j] = Unit * r[j].tokens /\ \A k \in ks \ {j} : g[k] = f[k]
    OBVIOUS
  <1>3. IsFiniteSet(ks \ {j}) /\ \A k \in ks \ {j} : f[k] \in Int
    BY <1>1, FS_Subset
  <1> HIDE DEF f, g
  <1>4. SumFunctionOnSet(f, ks) = f[j] + SumFunctionOnSet(f, ks \ {j})
    BY <1>1, SumTakes
  <1>5. SumFunctionOnSet(g, ks \ {j}) = SumFunctionOnSet(f, ks \ {j})
    BY <1>2, <1>3, SumSame
  <1> QED
    BY <1>2, <1>4, <1>5 DEF TakenOf, f, g

\* The account does not depend on what else a reservation says.
LEMMA TakenSame ==
  ASSUME NEW r, NEW s, NEW ks, \A k \in ks : s[k].tokens = r[k].tokens
  PROVE  TakenOf(s, ks) = TakenOf(r, ks)
  <1>1. [k \in ks |-> Unit * s[k].tokens] = [k \in ks |-> Unit * r[k].tokens]
    OBVIOUS
  <1> QED
    BY <1>1 DEF TakenOf

\* Fewer reservations took no more.
LEMMA TakenPart ==
  ASSUME NEW r, NEW ks, IsFiniteSet(ks), \A k \in ks : r[k].tokens \in Nat, NEW js \in SUBSET ks
  PROVE  TakenOf(r, js) <= TakenOf(r, ks)
  <1> DEFINE f == [k \in ks |-> Unit * r[k].tokens]
             g == [k \in js |-> Unit * r[k].tokens]
  <1>1. \A k \in ks : f[k] \in Nat
    BY LimiterAssumption
  <1>2. \A k \in js : g[k] = f[k] /\ f[k] \in Int
    BY <1>1
  <1>3. IsFiniteSet(js)
    BY FS_Subset
  <1> HIDE DEF f, g
  <1>4. SumFunctionOnSet(f, js) <= SumFunctionOnSet(f, ks)
    BY <1>1, SumOfPart
  <1>5. SumFunctionOnSet(g, js) = SumFunctionOnSet(f, js)
    BY <1>2, <1>3, SumSame
  <1> QED
    BY <1>4, <1>5 DEF TakenOf, f, g

\* Nothing was taken by nobody.
LEMMA TakenNothing == ASSUME NEW r PROVE TakenOf(r, {}) = 0
  BY SumOfNothing DEF TakenOf

-----------------------------------------------------------------------------
(* What a step does to the accounts *)

\* The same reservations, of which some may be used or cancelled by now.
SameReservations ==
  /\ res' \in Seq(Reservations) /\ Len(res') = Len(res)
  /\ \A k \in DOMAIN res :
       /\ res'[k].tokens = res[k].tokens /\ res'[k].made = res[k].made
       /\ res'[k].timeToAct = res[k].timeToAct
       /\ res[k].state = "cancelled" => res'[k].state = "cancelled"

\* Nothing is taken from the bucket or put into it.
Quiet ==
  /\ SameReservations
  /\ UNCHANGED <<settings, bucket, changes, history>>

\* reserveN grants the request of a caller.
Granted(now, n) ==
  /\ limit # Inf /\ n <= burst
  /\ res' \in Seq(Reservations) /\ Len(res') = Len(res) + 1
  /\ \A k \in DOMAIN res : res'[k] = res[k]
  /\ LET r == res'[Len(res) + 1]
     IN  r.tokens = n /\ r.made = now /\ r.timeToAct = TimeToAct(now, n) /\ r.state # "cancelled"
  /\ last' = now /\ tokens' = Advance(now) - n * Unit
  /\ credit' = credit + Rewound(now)
  /\ UNCHANGED <<settings, changes, since, uncut>>

\* reserveN refuses it.
Refused(now) ==
  /\ limit # Inf
  /\ last' = Least(last, now) /\ tokens' = tokens
  /\ credit' = credit + Rewound(now)
  /\ UNCHANGED <<settings, changes, since, uncut, res>>

\* CancelAt puts tokens of reservation k back.
Restored(k, now, restore) ==
  /\ limit # Inf /\ restore > 0
  /\ SameReservations /\ res[k].state # "cancelled" /\ res'[k].state = "cancelled"
  /\ last' = now /\ tokens' = Least(Advance(now) + restore, Capacity)
  /\ IF k <= since THEN NewAccount
     ELSE /\ credit' = credit + Rewound(now) + Excess(restore - Unit * res[k].tokens)
          /\ uncut' = Len(res) /\ UNCHANGED since
  /\ UNCHANGED <<settings, changes>>

\* Without a limit nothing is counted.
Unlimited == limit = Inf /\ UNCHANGED <<limit, changes>>

\* The settings change, and a new account begins.
Changed == NewAccount /\ UNCHANGED res /\ changes \in Nat /\ changes' = changes + 1

Accounted ==
  \/ Quiet \/ Unlimited \/ Changed
  \/ \E now \in Nows : Refused(now) \/ \E n \in Sizes : Granted(now, n)
  \/ \E k \in DOMAIN res, now \in Nows, restore \in Int : Restored(k, now, restore)

\* A change of the state of a reservation that is not cancelled.
LEMMA StateChange ==
  ASSUME IInv, NEW k \in DOMAIN res, res[k].state # "cancelled",
         NEW state \in {"used", "cancelled"}, res' = [res EXCEPT ![k].state = state]
  PROVE  SameReservations /\ res'[k].state = state
  <1>1. res \in Seq(Reservations) /\ res[k] \in Reservations
    BY DEF IInv, Account
  <1> DEFINE r == [res[k] EXCEPT !.state = state]
  <1>2. /\ r \in Reservations /\ r.state = state
        /\ r.tokens = res[k].tokens /\ r.made = res[k].made /\ r.timeToAct = res[k].timeToAct
    BY <1>1 DEF Reservations
  <1>3. res' = [res EXCEPT ![k] = r]
    OBVIOUS
  <1> HIDE DEF r
  <1>4. /\ res' \in Seq(Reservations) /\ Len(res') = Len(res)
        /\ res'[k] = r /\ \A l \in DOMAIN res : l # k => res'[l] = res[l]
    BY <1>1, <1>2, <1>3
  <1> QED
    BY <1>2, <1>4 DEF SameReservations

\* reserveN grants, refuses or does not count.
LEMMA ReserveAccounted ==
  ASSUME IInv, NEW now \in Nows, NEW n \in Sizes, NEW maxFuture, NEW kept \in BOOLEAN,
         ReserveN(now, n, maxFuture, kept)
  PROVE  Accounted
  <1>1. CASE limit = Inf
    BY <1>1 DEF ReserveN, Record, settings, Accounted, Unlimited
  <1>2. CASE limit # Inf /\ ~Ok(now, n, maxFuture)
    <2>1. Refused(now)
      BY <1>2 DEF ReserveN, Record, Refuse, Refused
    <2> QED
      BY <2>1 DEF Accounted
  <1>3. CASE limit # Inf /\ Ok(now, n, maxFuture)
    <2> DEFINE r == [tokens |-> n, made |-> now, timeToAct |-> TimeToAct(now, n),
                     limit |-> IF limit = Inf THEN 0 ELSE limit,
                     state |-> IF kept THEN "kept" ELSE "used"]
    <2>1. res' = Append(res, r)
      BY <1>3 DEF ReserveN, Record
    <2>2. /\ r.tokens = n /\ r.made = now /\ r.timeToAct = TimeToAct(now, n)
          /\ r.state # "cancelled"
      OBVIOUS
    <2>3. r \in Reservations
      <3>1. now \in Int /\ TimeToAct(now, n) \in Int /\ (IF limit = Inf THEN 0 ELSE limit) \in Nat
        BY NowsPast, TimeToActInt, LimiterAssumption DEF IInv, Scalars
      <3> QED
        BY <3>1 DEF Reservations
    <2> HIDE DEF r
    <2>4. /\ res' \in Seq(Reservations) /\ Len(res') = Len(res) + 1
          /\ res'[Len(res) + 1] = r /\ \A k \in DOMAIN res : res'[k] = res[k]
      BY <2>1, <2>3 DEF IInv, Account
    <2>5. n <= burst
      BY <1>3 DEF Ok
    <2>6. Granted(now, n)
      BY <1>3, <2>2, <2>4, <2>5 DEF ReserveN, Record, Grant, Granted
    <2> QED
      BY <2>6 DEF Accounted
  <1> QED
    BY <1>1, <1>2, <1>3

\* CancelAt puts something back, or nothing changes but the reservation.
LEMMA CancelAccounted ==
  ASSUME IInv, NEW now \in Nows, NEW k \in DOMAIN res, CancelAt(k, now)
  PROVE  Accounted
  <1> DEFINE r        == res[k]
             restore  == r.tokens * Unit - TokensFromDuration(r.limit, lastEvent - r.timeToAct)
  <1>1. /\ SameReservations /\ res[k].state # "cancelled" /\ res'[k].state = "cancelled"
    BY StateChange DEF CancelAt
  <1>2. r \in Reservations /\ lastEvent \in Int /\ Unit \in Int
    BY LimiterAssumption DEF IInv, Account, Scalars
  <1>3. r.tokens \in Nat /\ r.timeToAct \in Int /\ r.limit \in Nat
    BY <1>2, LimiterAssumption DEF Reservations
  <1>4. restore \in Int /\ r.tokens * Unit = Unit * r.tokens
    <2>1. lastEvent - r.timeToAct \in Int
      BY <1>2, <1>3
    <2>2. TokensFromDuration(r.limit, lastEvent - r.timeToAct) \in Int
      BY <1>3, <2>1, Conversions
    <2> QED
      BY <1>2, <1>3, <2>2
  <1>5. CASE limit = Inf \/ r.tokens = 0 \/ r.timeToAct < now \/ restore <= 0
    <2>1. UNCHANGED <<bucket, history, settings, changes>>
      BY <1>5 DEF CancelAt
    <2> QED
      BY <1>1, <2>1 DEF Accounted, Quiet
  <1>6. CASE ~(limit = Inf \/ r.tokens = 0 \/ r.timeToAct < now \/ restore <= 0)
    <2>1. /\ limit # Inf /\ last' = now /\ tokens' = Least(Advance(now) + restore, Capacity)
          /\ IF k <= since THEN NewAccount
             ELSE /\ credit' = credit + Rewound(now) + Excess(restore - r.tokens * Unit)
                  /\ uncut' = Len(res) /\ UNCHANGED since
          /\ UNCHANGED <<settings, changes>>
      BY <1>6 DEF CancelAt
    <2>2. restore > 0
      BY <1>4, <1>6
    <2> HIDE DEF restore
    <2>3. Restored(k, now, restore)
      BY <1>1, <1>4, <2>1, <2>2 DEF Restored
    <2> QED
      BY <1>4, <2>3 DEF Accounted
  <1> QED
    BY <1>5, <1>6

\* Every step is one of these.
LEMMA StepAccounted == IInv /\ [Next]_vars => Accounted
  <1> SUFFICES ASSUME IInv, [Next]_vars PROVE Accounted
    OBVIOUS
  <1>1. CASE UNCHANGED <<settings, bucket, changes, history, res>>
    BY <1>1 DEF Accounted, Quiet, SameReservations, IInv, Account
  <1>2. CASE UNCHANGED vars
    BY <1>1, <1>2 DEF vars
  <1>3. CASE Tick
    BY <1>1, <1>3 DEF Tick
  <1>4. ASSUME NEW w \in Waiters, WaitTimer(w) PROVE Accounted
    <2>1. wait[w].k \in DOMAIN res /\ res[wait[w].k].state = "kept"
      BY <1>4 DEF WaitTimer, IInv, Owners, Sleeping
    <2>2. SameReservations
      BY <1>4, <2>1, StateChange DEF WaitTimer
    <2> QED
      BY <1>4, <2>2 DEF WaitTimer, Accounted, Quiet
  <1>5. ASSUME NEW w \in Waiters, NEW n \in Sizes, NEW d \in Deadlines, WaitN(w, n, d)
        PROVE  Accounted
    BY <1>1, <1>5 DEF WaitN
  <1>6. ASSUME NEW now \in Nows, NEW n \in Sizes, AllowN(now, n) \/ ReserveAny(now, n)
        PROVE  Accounted
    BY <1>6, ReserveAccounted DEF AllowN, ReserveAny
  <1>7. ASSUME NEW now \in Nows, NEW w \in Waiters, WaitReserve(w, now) PROVE Accounted
    <2>1. wait[w].n \in Sizes
      BY <1>7 DEF WaitReserve, IInv, Owners, Places, Idle
    <2>2. \E maxFuture, kept : kept \in BOOLEAN /\ ReserveN(now, wait[w].n, maxFuture, kept)
      BY <1>7 DEF WaitReserve
    <2> QED
      BY <2>1, <2>2, ReserveAccounted
  <1>8. ASSUME NEW now \in Nows, NEW w \in Waiters, WaitCancelled(w, now) PROVE Accounted
    <2>1. wait[w].k \in DOMAIN res /\ CancelAt(wait[w].k, now)
      BY <1>8 DEF WaitCancelled, IInv, Owners, Sleeping
    <2> QED
      BY <2>1, CancelAccounted
  <1>9. ASSUME NEW now \in Nows, NEW k \in DOMAIN res, Cancel(k, now) PROVE Accounted
    BY <1>9, CancelAccounted DEF Cancel
  <1>10. ASSUME NEW now \in Nows,
                (\E r \in Limits : SetLimitAt(now, r)) \/ (\E b \in Bursts : SetBurstAt(now, b))
         PROVE  Accounted
    <2>1. changes \in Nat
      BY LimiterAssumption DEF IInv, Scalars
    <2> QED
      BY <1>10, <2>1 DEF SetLimitAt, SetBurstAt, Accounted, Changed
  <1> QED
    BY <1>2, <1>3, <1>4, <1>5, <1>6, <1>7, <1>8, <1>9, <1>10 DEF Next

-----------------------------------------------------------------------------
(* The ledger *)

\* The reservations, and any of them, are finitely many and of whole numbers.
LEMMA SeqFacts ==
  ASSUME NEW r \in Seq(Reservations)
  PROVE  /\ Len(r) \in Nat /\ DOMAIN r = 1..Len(r)
         /\ \A k \in 1..Len(r) : r[k].tokens \in Nat /\ r[k].made \in Int /\ r[k].timeToAct \in Int
         /\ \A ks \in SUBSET (1..Len(r)) : IsFiniteSet(ks) /\ TakenOf(r, ks) \in Nat
  <1>1. Len(r) \in Nat /\ DOMAIN r = 1..Len(r) /\ \A k \in 1..Len(r) : r[k] \in Reservations
    OBVIOUS
  <1>2. \A k \in 1..Len(r) : r[k].tokens \in Nat /\ r[k].made \in Int /\ r[k].timeToAct \in Int
    BY <1>1, LimiterAssumption DEF Reservations
  <1>3. IsFiniteSet(1..Len(r))
    BY <1>1, FS_Interval
  <1>4. ASSUME NEW ks \in SUBSET (1..Len(r)) PROVE IsFiniteSet(ks) /\ TakenOf(r, ks) \in Nat
    <2>1. IsFiniteSet(ks)
      BY <1>3, FS_Subset
    <2> QED
      BY <1>2, <2>1, TakenNat
  <1> QED
    BY <1>1, <1>2, <1>4

\* A grant adds its tokens to what was taken.
LEMMA GrantTaken ==
  ASSUME IInv, NEW now, NEW n \in Sizes, Granted(now, n), NEW js \in SUBSET (1..Len(res))
  PROVE  TakenOf(res', js \cup {Len(res) + 1}) = Unit * n + TakenOf(res, js)
  <1> DEFINE j == Len(res) + 1
             ks == js \cup {j}
  <1>1. res \in Seq(Reservations) /\ Len(res) \in Nat /\ DOMAIN res = 1..Len(res)
    BY DEF IInv, Account
  <1>2. /\ res' \in Seq(Reservations) /\ Len(res') = j /\ res'[j].tokens = n
        /\ \A k \in js : res'[k].tokens = res[k].tokens
    BY <1>1 DEF Granted
  <1>3. ks \in SUBSET (1..Len(res')) /\ ks \ {j} = js /\ j \in ks
    <2>1. j \notin js /\ j \in 1..Len(res') /\ js \subseteq 1..Len(res')
      BY <1>1, <1>2
    <2> QED
      BY <2>1
  <1> HIDE DEF j, ks
  <1>4. IsFiniteSet(ks) /\ \A k \in ks : res'[k].tokens \in Nat
    BY <1>2, <1>3, SeqFacts
  <1>5. TakenOf(res', ks) = Unit * res'[j].tokens + TakenOf(res', ks \ {j})
    <2>1. j \in ks /\ IsFiniteSet(ks) /\ \A k \in ks : res'[k].tokens \in Nat
      BY <1>3, <1>4
    <2> QED
      BY ONLY <2>1, LimiterAssumption, TakenOne
  <1>6. TakenOf(res', js) = TakenOf(res, js)
    BY <1>2, TakenSame
  <1> QED
    BY <1>2, <1>3, <1>5, <1>6 DEF ks, j

\* The rest of the bucket at lim.last belongs to the account.
LedgerInv ==
  limit # Inf /\ since < Len(res) =>
     Taken(Alive((since + 1)..Len(res))) + tokens + limit * res[since + 1].made
       <= Capacity + limit * last + credit

\* Every step keeps the books.
LEMMA LedgerStep == IInv /\ LedgerInv /\ Accounted => LedgerInv'
  <1> SUFFICES ASSUME IInv, LedgerInv, Accounted, limit' # Inf, since' < Len(res')
               PROVE  (Taken(Alive((since + 1)..Len(res))) + tokens + limit * res[since + 1].made
                         <= Capacity + limit * last + credit)'
    BY DEF LedgerInv
  <1> DEFINE A  == {k \in (since + 1)..Len(res) : res[k].state # "cancelled"}
             T  == TakenOf(res, A)
             paid == limit * last
             begun == limit * res[since + 1].made
  <1>1. /\ res \in Seq(Reservations) /\ Len(res) \in Nat /\ DOMAIN res = 1..Len(res)
        /\ since \in Nat /\ uncut \in Nat /\ since <= Len(res)
        /\ \A k \in 1..Len(res) : res[k].tokens \in Nat /\ res[k].made \in Int
    BY SeqFacts DEF IInv, Account
  <1>2. /\ limit = Inf \/ limit \in Nat
        /\ Capacity \in Int /\ tokens \in Int /\ last \in Int /\ credit \in Nat
        /\ Unit \in Nat /\ Sizes \subseteq Nat
    BY LimiterAssumption DEF IInv, Scalars, Capacity
  <1>3. A \in SUBSET (1..Len(res)) /\ IsFiniteSet(A) /\ T \in Nat
    <2>1. A \in SUBSET (1..Len(res))
      BY <1>1
    <2> QED
      BY <1>1, <2>1, SeqFacts
  <1>4. limit # Inf /\ since < Len(res) =>
           T + tokens + begun <= Capacity + paid + credit
    BY DEF LedgerInv, Taken, Alive, TakenOf
  <1> DEFINE A1 == {k \in (since' + 1)..Len(res') : res'[k].state # "cancelled"}
             T1 == TakenOf(res', A1)
  <1>5. SUFFICES T1 + tokens' + limit' * res'[since' + 1].made <= Capacity' + limit' * last' + credit'
    BY DEF Taken, Alive, TakenOf
  <1> HIDE DEF A, T, paid, begun
  <1>6. CASE Quiet
    <2>1. /\ limit' = limit /\ burst' = burst /\ tokens' = tokens /\ last' = last
          /\ since' = since /\ credit' = credit /\ SameReservations
      BY <1>6 DEF Quiet, settings, bucket, history
    <2>2. A1 \in SUBSET A
      BY <1>1, <2>1 DEF SameReservations, A
    <2>3. \A k \in A1 : res'[k].tokens = res[k].tokens
      BY <1>1, <1>3, <2>1, <2>2 DEF SameReservations
    <2>4. since + 1 \in 1..Len(res) /\ res'[since' + 1].made = res[since + 1].made
      BY <1>1, <2>1 DEF SameReservations
    <2> HIDE DEF A1
    <2>5. T1 = TakenOf(res, A1)
      BY <2>3, TakenSame
    <2>6. \A k \in A : res[k].tokens \in Nat
      BY <1>1, <1>3
    <2>7. TakenOf(res, A1) <= T
      BY <1>3, <2>2, <2>6, TakenPart DEF T
    <2>8. TakenOf(res, A1) \in Nat
      <3>1. A1 \in SUBSET (1..Len(res))
        BY <1>3, <2>2
      <3> QED
        BY <1>1, <3>1, SeqFacts
    <2>9. Capacity' = Capacity
      BY <2>1 DEF Capacity
    <2>10. paid \in Int /\ begun \in Int
      BY <1>1, <1>2, <2>1, <2>4, Times DEF paid, begun
    <2>11. T + tokens + begun <= Capacity + paid + credit
      BY <1>1, <1>4, <2>1 DEF SameReservations
    <2> HIDE DEF T1
    <2>12. limit' * res'[since' + 1].made = begun /\ limit' * last' = paid
      BY <2>1, <2>4 DEF begun, paid
    <2>13. T1 + tokens' + begun <= Capacity' + paid + credit'
      BY <1>2, <1>3, <2>1, <2>5, <2>7, <2>8, <2>9, <2>10, <2>11
    <2> QED
      BY <2>12, <2>13
  <1>7. ASSUME NEW now \in Nows, NEW n \in Sizes, Granted(now, n)
        PROVE  T1 + tokens' + limit' * res'[since' + 1].made <= Capacity' + limit' * last' + credit'
    <2>1. /\ limit' = limit /\ burst' = burst /\ tokens' = Advance(now) - n * Unit /\ last' = now
          /\ since' = since /\ credit' = credit + Rewound(now) /\ limit # Inf
          /\ Len(res') = Len(res) + 1 /\ res'[Len(res) + 1].made = now
          /\ res'[Len(res) + 1].state # "cancelled"
          /\ \A k \in 1..Len(res) : res'[k] = res[k]
      BY <1>1, <1>7 DEF Granted, settings
    <2>2. A1 = A \cup {Len(res) + 1}
      <3>1. (since' + 1)..Len(res') = ((since + 1)..Len(res)) \cup {Len(res) + 1}
        BY <1>1, <2>1
      <3>2. \A k \in (since + 1)..Len(res) : res'[k] = res[k]
        BY <1>1, <2>1
      <3> QED
        BY <2>1, <3>1, <3>2 DEF A
    <2> HIDE DEF A1
    <2>3. T1 = Unit * n + T
      BY <1>3, <1>7, <2>2, GrantTaken DEF T
    <2>4. now \in Int /\ Advance(now) \in Int /\ Rewound(now) \in Nat
      BY NowsPast, AdvanceInt, RewoundNat
    <2> DEFINE due == limit * now
    <2>5. /\ Advance(now) <= Capacity
          /\ Advance(now) + paid <= tokens + due + Rewound(now)
      BY <2>1, <2>4, AdvanceBound DEF paid
    <2>6. Capacity' = Capacity
      BY <2>1 DEF Capacity
    <2>7. Unit * n = n * Unit /\ n * Unit \in Nat
      BY <1>2
    <2>8. limit \in Nat /\ paid \in Int /\ due \in Int /\ limit' * last' = due
      BY <1>2, <2>1, <2>4, Times DEF paid
    <2> HIDE DEF T1, due
    <2>9. CASE since < Len(res)
      <3>1. since + 1 \in 1..Len(res) /\ res'[since' + 1].made = res[since + 1].made
        BY <1>1, <2>1, <2>9
      <3>2. begun \in Int /\ limit' * res'[since' + 1].made = begun
        BY <1>1, <2>1, <2>8, <3>1, Times DEF begun
      <3>3. T + tokens + begun <= Capacity + paid + credit
        BY <1>4, <2>1, <2>9
      <3>4. T1 + tokens' + begun <= Capacity' + due + credit'
        <4>1. T1 + tokens' = T + Advance(now)
          BY <1>2, <1>3, <2>1, <2>3, <2>4, <2>7
        <4>2. T + Advance(now) + begun <= Capacity + due + (credit + Rewound(now))
          <5> DEFINE have == Advance(now)
                     rewound == Rewound(now)
          <5>1. have \in Int /\ rewound \in Nat /\ have + paid <= tokens + due + rewound
            BY <2>4, <2>5
          <5> HIDE DEF have, rewound
          <5>2. T + have + begun <= Capacity + due + (credit + rewound)
            BY <1>2, <1>3, <2>8, <3>2, <3>3, <5>1
          <5> QED
            BY <5>2 DEF have, rewound
        <4> QED
          BY <2>1, <2>6, <4>1, <4>2
      <3> QED
        BY <2>8, <3>2, <3>4
    <2>10. CASE since = Len(res)
      <3>1. A = {}
        BY <1>1, <2>10 DEF A
      <3>2. T = 0
        BY <3>1, TakenNothing DEF T
      <3>3. limit' * res'[since' + 1].made = due
        BY <2>1, <2>10 DEF due
      <3>4. T1 + tokens' + due <= Capacity' + due + credit'
        <4>1. T1 + tokens' = Advance(now)
          BY <1>2, <2>1, <2>3, <2>4, <2>7, <3>2
        <4>2. Advance(now) + due <= Capacity + due + (credit + Rewound(now))
          BY <1>2, <2>4, <2>5, <2>8
        <4> QED
          BY <2>1, <2>6, <4>1, <4>2
      <3> QED
        BY <2>8, <3>3, <3>4
    <2>11. since < Len(res) \/ since = Len(res)
      <3> DEFINE length == Len(res)
      <3>1. since \in Nat /\ length \in Nat /\ since <= length
        BY <1>1
      <3> HIDE DEF length
      <3>2. since < length \/ since = length
        BY <3>1
      <3> QED
        BY <3>2 DEF length
    <2> QED
      BY <2>9, <2>10, <2>11
  <1>8. ASSUME NEW now \in Nows, Refused(now)
        PROVE  T1 + tokens' + limit' * res'[since' + 1].made <= Capacity' + limit' * last' + credit'
    <2>1. /\ limit' = limit /\ burst' = burst /\ tokens' = tokens /\ last' = Least(last, now)
          /\ since' = since /\ credit' = credit + Rewound(now) /\ limit # Inf /\ res' = res
      BY <1>8 DEF Refused, settings
    <2>2. T1 = T
      BY <2>1 DEF T, A
    <2>3. now \in Int /\ Rewound(now) \in Nat /\ Least(last, now) \in Int
      BY <1>2, NowsPast, RewoundNat DEF Least
    <2> DEFINE due == limit * Least(last, now)
    <2>4. due + Rewound(now) = paid
      BY <2>1, <2>3, RewoundLast DEF paid
    <2>5. Capacity' = Capacity
      BY <2>1 DEF Capacity
    <2>6. paid \in Int /\ due \in Int /\ begun \in Int
      <3>1. since + 1 \in 1..Len(res)
        BY <1>1, <2>1
      <3> QED
        BY <1>1, <1>2, <2>1, <2>3, <3>1, Times DEF paid, begun
    <2>7. limit' * res'[since' + 1].made = begun /\ limit' * last' = due
      BY <2>1 DEF begun
    <2>8. T + tokens + begun <= Capacity + paid + credit
      BY <1>4, <2>1
    <2> HIDE DEF T1, due
    <2>9. T1 + tokens' + begun <= Capacity' + due + credit'
      BY <1>2, <1>3, <2>1, <2>2, <2>3, <2>4, <2>5, <2>6, <2>8
    <2> QED
      BY <2>7, <2>9
  <1>9. ASSUME NEW k \in DOMAIN res, NEW now \in Nows, NEW restore \in Int, Restored(k, now, restore)
        PROVE  T1 + tokens' + limit' * res'[since' + 1].made <= Capacity' + limit' * last' + credit'
    <2>1. /\ limit' = limit /\ burst' = burst /\ last' = now /\ limit # Inf /\ SameReservations
          /\ tokens' = Least(Advance(now) + restore, Capacity)
          /\ res[k].state # "cancelled" /\ res'[k].state = "cancelled"
      BY <1>9 DEF Restored, settings
    <2>2. k > since
      <3>1. Len(res') = Len(res)
        BY <2>1 DEF SameReservations
      <3> QED
        BY <1>1, <1>9, <3>1 DEF Restored, NewAccount
    <2>3. since' = since /\ credit' = credit + Rewound(now) + Excess(restore - Unit * res[k].tokens)
      BY <1>1, <1>9, <2>2 DEF Restored
    <2>4. k \in A /\ A1 \in SUBSET (A \ {k})
      BY <1>1, <2>1, <2>2, <2>3 DEF SameReservations, A
    <2>5. \A j \in A1 : res'[j].tokens = res[j].tokens
      BY <1>1, <1>3, <2>1, <2>4 DEF SameReservations
    <2>6. since + 1 \in 1..Len(res) /\ res'[since' + 1].made = res[since + 1].made /\ since < Len(res)
      BY <1>1, <2>1, <2>2, <2>3 DEF SameReservations
    <2> HIDE DEF A1
    <2>7. T1 = TakenOf(res, A1)
      BY <2>5, TakenSame
    <2>8. A \ {k} \in SUBSET (1..Len(res)) /\ A1 \in SUBSET (1..Len(res))
      BY <1>3, <2>4
    <2>9. /\ IsFiniteSet(A \ {k}) /\ TakenOf(res, A \ {k}) \in Nat /\ TakenOf(res, A1) \in Nat
          /\ \A j \in A \ {k} : res[j].tokens \in Nat
          /\ \A j \in A : res[j].tokens \in Nat
      BY <1>1, <1>3, <2>8, SeqFacts
    <2>10. TakenOf(res, A1) <= TakenOf(res, A \ {k})
      BY <2>4, <2>9, TakenPart
    <2>11. T = Unit * res[k].tokens + TakenOf(res, A \ {k})
      BY <1>3, <2>4, <2>9, TakenOne DEF T
    <2>12. now \in Int /\ Advance(now) \in Int /\ Rewound(now) \in Nat
      BY NowsPast, AdvanceInt, RewoundNat
    <2> DEFINE due == limit * now
    <2>13. Advance(now) + paid <= tokens + due + Rewound(now)
      BY <2>1, <2>12, AdvanceBound DEF paid
    <2>14. tokens' \in Int /\ tokens' <= Advance(now) + restore
      BY <1>2, <2>1, <2>12 DEF Least
    <2>15. Unit * res[k].tokens \in Int /\ Unit * res[k].tokens \in Nat
      BY <1>1, <1>2
    <2>16. /\ Excess(restore - Unit * res[k].tokens) >= restore - Unit * res[k].tokens
           /\ Excess(restore - Unit * res[k].tokens) \in Int
      BY <2>15 DEF Excess
    <2>17. Capacity' = Capacity
      BY <2>1 DEF Capacity
    <2>18. paid \in Int /\ due \in Int /\ begun \in Int
      BY <1>1, <1>2, <2>1, <2>6, <2>12, Times DEF paid, begun
    <2>19. T + tokens + begun <= Capacity + paid + credit
      BY <1>4, <2>1, <2>6
    <2>20. limit' * res'[since' + 1].made = begun /\ limit' * last' = due
      BY <2>1, <2>6 DEF begun
    <2> HIDE DEF T1, due
    <2>21. T1 + tokens' + begun <= Capacity + due + credit'
      <3> DEFINE part == TakenOf(res, A \ {k})
                 back == Unit * res[k].tokens
      <3>1. T1 <= part /\ T = back + part /\ part \in Nat /\ back \in Nat /\ T1 \in Nat
        BY <2>7, <2>9, <2>10, <2>11, <2>15
      <3> DEFINE newTokens == tokens'
                 newCredit == credit'
      <3>2. newCredit >= credit + Rewound(now) + restore - back /\ newCredit \in Int
        BY <1>2, <2>3, <2>12, <2>15, <2>16
      <3>3. newTokens \in Int /\ newTokens <= Advance(now) + restore
        BY <2>14
      <3> HIDE DEF part, back, newTokens, newCredit
      <3>4. T1 + newTokens + begun <= Capacity + due + newCredit
        BY <1>2, <2>12, <2>13, <2>18, <2>19, <3>1, <3>2, <3>3
      <3> QED
        BY <3>4 DEF newTokens, newCredit
    <2> QED
      BY <2>17, <2>20, <2>21
  <1>10. ~Unlimited
    BY DEF Unlimited
  <1>11. ~Changed
    BY <1>1 DEF Changed, NewAccount
  <1> QED
    BY <1>6, <1>7, <1>8, <1>9, <1>10, <1>11 DEF Accounted

-----------------------------------------------------------------------------
(* Grants between two cancellations *)

\* What was granted from reservation p on, the bucket and its burst have paid
\* for by lim.last.
Recorded(p) ==
  limit * res[p].timeToAct + Taken(p..Len(res)) + tokens <= limit * last + Capacity + credit

\* What was granted from reservation p to reservation q is a burst and what
\* the limit adds between them, up to a truncation.
Spread(p, q) ==
  limit * res[p].timeToAct + Taken(p..q)
    <= limit * res[q].timeToAct + Capacity + (limit - 1) + credit

GrantInv ==
  limit # Inf =>
    \A p \in (uncut + 1)..Len(res) : Recorded(p) /\ \A q \in p..Len(res) : Spread(p, q)

\* rate.go:18: a limit that is not zero.
PositiveLimits == \A r \in Limits : r = Inf \/ r > 0

\* What the steps that keep the reservations do to the invariant.
LEMMA GrantsKept ==
  ASSUME IInv, GrantInv, limit # Inf, UNCHANGED <<limit, burst, tokens, uncut>>, SameReservations,
         last' \in Int, credit' \in Nat, limit * last' + credit' = limit * last + credit,
         credit' >= credit
  PROVE  GrantInv'
  <1>1. /\ res \in Seq(Reservations) /\ Len(res) \in Nat /\ uncut \in Nat /\ Len(res') = Len(res)
        /\ \A k \in 1..Len(res) : res[k].tokens \in Nat /\ res[k].timeToAct \in Int
        /\ \A k \in 1..Len(res) : res'[k].tokens = res[k].tokens /\ res'[k].timeToAct = res[k].timeToAct
    <2>1. res \in Seq(Reservations) /\ uncut \in Nat
      BY DEF IInv, Account
    <2>2. /\ Len(res) \in Nat /\ DOMAIN res = 1..Len(res)
          /\ \A k \in 1..Len(res) : res[k].tokens \in Nat /\ res[k].timeToAct \in Int
      BY <2>1, SeqFacts
    <2> QED
      BY <2>1, <2>2 DEF SameReservations
  <1>2. limit \in Nat /\ Capacity \in Int /\ tokens \in Int /\ last \in Int /\ credit \in Nat
        /\ Capacity' = Capacity
    BY LimiterAssumption DEF IInv, Scalars, Capacity
  <1> DEFINE newLast == last'
             newCredit == credit'
  <1>3. /\ newLast \in Int /\ newCredit \in Nat /\ newCredit >= credit
        /\ limit * newLast + newCredit = limit * last + credit
    OBVIOUS
  <1>4. SUFFICES ASSUME NEW p \in (uncut + 1)..Len(res)
                 PROVE  Recorded(p)' /\ \A q \in p..Len(res) : Spread(p, q)'
    BY <1>1, <1>2 DEF GrantInv
  <1>5. p \in 1..Len(res) /\ \A q \in p..Len(res) : q \in 1..Len(res) /\ p..q \in SUBSET (1..Len(res))
    BY <1>1
  <1>6. \A q \in p..Len(res) : TakenOf(res', p..q) = TakenOf(res, p..q) /\ TakenOf(res, p..q) \in Nat
    <2> SUFFICES ASSUME NEW q \in p..Len(res)
                 PROVE  TakenOf(res', p..q) = TakenOf(res, p..q) /\ TakenOf(res, p..q) \in Nat
      OBVIOUS
    <2>1. \A k \in p..q : res'[k].tokens = res[k].tokens
      BY <1>1, <1>5
    <2> QED
      BY <1>1, <1>5, <2>1, TakenSame, SeqFacts
  <1> HIDE DEF newLast, newCredit
  <1>7. Recorded(p)'
    <2> DEFINE taken == TakenOf(res, p..Len(res))
               act == limit * res[p].timeToAct
    <2>1. act + taken + tokens <= limit * last + Capacity + credit
      BY <1>4 DEF GrantInv, Recorded, Taken, TakenOf
    <2>2. taken \in Nat /\ act \in Int /\ limit * last \in Int /\ limit * newLast \in Int
      <3>1. Len(res) \in p..Len(res)
        BY <1>1, <1>4
      <3> QED
        BY <1>1, <1>2, <1>3, <1>5, <1>6, <3>1, Times
    <2>3. TakenOf(res', p..Len(res')) = taken
      BY <1>1, <1>4, <1>6
    <2>4. limit * res'[p].timeToAct = act
      BY <1>1, <1>5
    <2> HIDE DEF taken, act
    <2>5. act + taken + tokens <= limit * newLast + Capacity + newCredit
      BY <1>2, <1>3, <2>1, <2>2
    <2>6. limit' * res'[p].timeToAct + TakenOf(res', p..Len(res')) + tokens'
            <= limit' * last' + Capacity' + credit'
      BY <1>2, <2>3, <2>4, <2>5 DEF newLast, newCredit
    <2> QED
      BY <2>6 DEF Recorded, Taken, TakenOf
  <1>8. ASSUME NEW q \in p..Len(res) PROVE Spread(p, q)'
    <2> DEFINE taken == TakenOf(res, p..q)
               act == limit * res[p].timeToAct
               end == limit * res[q].timeToAct
    <2>1. act + taken <= end + Capacity + (limit - 1) + credit
      BY <1>4, <1>8 DEF GrantInv, Spread, Taken, TakenOf
    <2>2. taken \in Nat /\ act \in Int /\ end \in Int
      BY <1>1, <1>2, <1>5, <1>6, Times
    <2>3. /\ TakenOf(res', p..q) = taken /\ limit * res'[p].timeToAct = act
          /\ limit * res'[q].timeToAct = end
      BY <1>1, <1>5, <1>6
    <2> HIDE DEF taken, act, end
    <2>4. act + taken <= end + Capacity + (limit - 1) + newCredit
      BY <1>2, <1>3, <2>1, <2>2
    <2>5. limit' * res'[p].timeToAct + TakenOf(res', p..q)
            <= limit' * res'[q].timeToAct + Capacity' + (limit' - 1) + credit'
      BY <1>2, <2>3, <2>4 DEF newCredit
    <2> QED
      BY <2>5 DEF Spread, Taken, TakenOf
  <1> QED
    BY <1>7, <1>8

\* A grant pays for itself.
LEMMA GrantsPaid ==
  ASSUME PositiveLimits, IInv, GrantInv, NEW now \in Nows, NEW n \in Sizes, Granted(now, n)
  PROVE  GrantInv'
  <1> DEFINE new == Len(res) + 1
             left == Advance(now) - n * Unit
             due == limit * now
             paid == limit * last
             rewound == Rewound(now)
  <1>1. /\ res \in Seq(Reservations) /\ Len(res) \in Nat /\ uncut \in Nat /\ Len(res') = new
        /\ uncut' = uncut /\ uncut <= Len(res)
        /\ \A k \in 1..Len(res) : res[k].tokens \in Nat /\ res[k].timeToAct \in Int
        /\ \A k \in 1..Len(res) : res'[k] = res[k]
        /\ res'[new].tokens = n /\ res'[new].timeToAct = TimeToAct(now, n)
    BY SeqFacts DEF IInv, Account, Granted
  <1>2. /\ limit \in Nat /\ limit > 0 /\ Capacity \in Int /\ tokens \in Int /\ last \in Int
        /\ credit \in Nat /\ Unit \in Nat /\ n \in Nat /\ Unit * n = n * Unit /\ n * Unit \in Nat
        /\ Capacity' = Capacity /\ limit' = limit /\ limit # Inf /\ n <= burst
    <2>1. /\ limit # Inf /\ burst' = burst /\ limit' = limit /\ n <= burst
      BY DEF Granted, settings
    <2>2. limit \in Nat /\ limit > 0 /\ Unit \in Nat /\ n \in Nat /\ burst \in Nat
      BY <2>1, LimiterAssumption DEF PositiveLimits, IInv, Scalars
    <2>3. Capacity' = Capacity /\ Capacity \in Int
      BY <2>1, <2>2 DEF Capacity
    <2> QED
      BY <2>1, <2>2, <2>3 DEF IInv, Scalars
  <1>3. now \in Int /\ Advance(now) \in Int /\ rewound \in Nat /\ TimeToAct(now, n) \in Int
    BY NowsPast, AdvanceInt, RewoundNat, TimeToActInt
  <1>4. Advance(now) + paid <= tokens + due + rewound
    BY <1>2, <1>3, AdvanceBound
  <1> DEFINE end == limit * TimeToAct(now, n)
  <1>5. due - left <= end + (limit - 1) /\ end + n * Unit <= due - left + Capacity
    BY <1>2, <1>3, ActsWhenPaid
  <1>6. due \in Int /\ paid \in Int /\ end \in Int /\ left \in Int
    BY <1>2, <1>3, Times
  <1>7. tokens' = left /\ limit' * last' = due /\ credit' = credit + rewound
    BY <1>2 DEF Granted
  <1> DEFINE Paid(p) == limit * res'[p].timeToAct + TakenOf(res', p..new) + left
                          <= due + Capacity + (credit + rewound)
  <1>8. ASSUME NEW p \in (uncut + 1)..Len(res)
        PROVE  /\ Paid(p)
               /\ \A q \in p..Len(res) : Spread(p, q)'
               /\ limit * res'[p].timeToAct \in Int /\ TakenOf(res', p..new) \in Nat
    <2> DEFINE taken == TakenOf(res, p..Len(res))
               act == limit * res[p].timeToAct
    <2>1. p \in 1..Len(res) /\ p..Len(res) \in SUBSET (1..Len(res)) /\ p..new = (p..Len(res)) \cup {new}
      BY <1>1
    <2>2. taken \in Nat /\ act \in Int
      BY <1>1, <1>2, <2>1, SeqFacts, Times
    <2>3. TakenOf(res', p..new) = n * Unit + taken /\ limit * res'[p].timeToAct = act
      BY <1>1, <1>2, <2>1, GrantTaken
    <2>4. act + taken + tokens <= paid + Capacity + credit
      BY <1>2 DEF GrantInv, Recorded, Taken, TakenOf
    <2>5. Paid(p)
      <3>1. n * Unit + left = Advance(now)
        BY <1>2, <1>3
      <3> HIDE DEF taken, act, paid, due, left, rewound
      <3>2. act + taken + Advance(now) <= due + Capacity + (credit + rewound)
        BY <1>2, <1>3, <1>4, <1>6, <2>2, <2>4
      <3> QED
        BY <1>2, <1>3, <1>6, <2>2, <2>3, <3>1, <3>2
    <2>6. ASSUME NEW q \in p..Len(res) PROVE Spread(p, q)'
      <3> DEFINE part == TakenOf(res, p..q)
                 stop == limit * res[q].timeToAct
      <3>1. /\ q \in 1..Len(res) /\ p..q \in SUBSET (1..Len(res))
            /\ \A k \in p..q : res'[k].tokens = res[k].tokens
        <4>1. q \in 1..Len(res) /\ \A k \in p..q : k \in 1..Len(res)
          BY <1>1, <2>1
        <4> QED
          BY <1>1, <4>1
      <3>2. TakenOf(res', p..q) = part /\ part \in Nat /\ stop \in Int
        <4>1. TakenOf(res', p..q) = part
          BY <3>1, TakenSame
        <4>2. part \in Nat
          BY <1>1, <3>1, SeqFacts
        <4>3. res[q].timeToAct \in Int
          BY <1>1, <3>1
        <4> QED
          BY <1>2, <4>1, <4>2, <4>3, Times
      <3>3. limit * res'[q].timeToAct = stop
        BY <1>1, <3>1
      <3>4. act + part <= stop + Capacity + (limit - 1) + credit
        BY <1>2, <2>6 DEF GrantInv, Spread, Taken, TakenOf
      <3> HIDE DEF part, stop, act, rewound
      <3>5. act + part <= stop + Capacity + (limit - 1) + (credit + rewound)
        BY <1>2, <1>3, <2>2, <3>2, <3>4
      <3>6. limit' * res'[p].timeToAct + TakenOf(res', p..q)
              <= limit' * res'[q].timeToAct + Capacity' + (limit' - 1) + credit'
        BY <1>2, <1>7, <2>3, <3>2, <3>3, <3>5
      <3> QED
        BY <3>6 DEF Spread, Taken, TakenOf
    <2>7. limit * res'[p].timeToAct \in Int
      BY <2>2, <2>3
    <2>8. TakenOf(res', p..new) \in Nat
      BY <1>2, <2>2, <2>3
    <2> HIDE DEF Paid
    <2> QED
      BY <2>5, <2>6, <2>7, <2>8
  <1>9. /\ Paid(new)
        /\ limit * res'[new].timeToAct \in Int /\ TakenOf(res', new..new) \in Nat
    <2>1. new..new = {} \cup {new} /\ {} \in SUBSET (1..Len(res))
      BY <1>1
    <2>2. TakenOf(res', new..new) = n * Unit
      <3>1. TakenOf(res', {} \cup {Len(res) + 1}) = Unit * n + TakenOf(res, {})
        BY <2>1, GrantTaken
      <3>2. TakenOf(res, {}) = 0
        BY TakenNothing
      <3> QED
        BY <1>2, <2>1, <3>1, <3>2
    <2>3. limit * res'[new].timeToAct = end
      BY <1>1
    <2> HIDE DEF new, due, end, left, rewound
    <2>4. end + n * Unit + left <= due + Capacity + (credit + rewound)
      BY <1>2, <1>3, <1>5, <1>6
    <2> QED
      BY <1>2, <1>6, <2>2, <2>3, <2>4
  <1>10. ASSUME NEW p \in (uncut + 1)..new PROVE Recorded(p)' /\ \A q \in p..new : Spread(p, q)'
    <2>1. p \in (uncut + 1)..Len(res) \/ p = new
      BY <1>1
    <2> DEFINE act == limit * res'[p].timeToAct
               taken == TakenOf(res', p..new)
    <2>2. act + taken + left <= due + Capacity + (credit + rewound) /\ act \in Int /\ taken \in Nat
      BY <1>8, <1>9, <2>1
    <2>3. Recorded(p)'
      <3>1. act + taken + tokens' <= limit' * last' + Capacity' + credit'
        BY <1>2, <1>7, <2>2
      <3> QED
        BY <1>1, <1>2, <3>1 DEF Recorded, Taken, TakenOf
    <2>4. ASSUME NEW q \in p..new, q = new PROVE Spread(p, q)'
      <3> HIDE DEF act, taken, due, end, left, rewound
      <3>1. act + taken <= end + Capacity + (limit - 1) + (credit + rewound)
        BY <1>2, <1>3, <1>5, <1>6, <2>2
      <3>2. limit' * res'[p].timeToAct + TakenOf(res', p..q)
              <= limit' * res'[q].timeToAct + Capacity' + (limit' - 1) + credit'
        BY <1>1, <1>2, <1>7, <2>4, <3>1 DEF act, taken, end
      <3> QED
        BY <3>2 DEF Spread, Taken, TakenOf
    <2>5. \A q \in p..new : q \in p..Len(res) \/ q = new
      BY <1>1
    <2>6. \A q \in p..new : p = new => q = new
      BY <1>1
    <2> HIDE DEF new
    <2> QED
      BY <1>8, <2>1, <2>3, <2>4, <2>5, <2>6
  <1> HIDE DEF new
  <1> QED
    BY <1>1, <1>10 DEF GrantInv

\* Every step keeps the grants within what was paid for.
LEMMA GrantStep == PositiveLimits /\ IInv /\ GrantInv /\ Accounted => GrantInv'
  <1> SUFFICES ASSUME PositiveLimits, IInv, GrantInv, Accounted, limit' # Inf PROVE GrantInv'
    BY DEF GrantInv
  <1>1. /\ res \in Seq(Reservations) /\ Len(res) \in Nat
        /\ (limit = Inf \/ limit \in Nat) /\ last \in Int /\ credit \in Nat
    BY LimiterAssumption DEF IInv, Scalars, Account
  <1>2. CASE uncut' = Len(res')
    <2>1. (uncut' + 1)..Len(res') = {} \/ ~(Len(res') \in Nat)
      BY <1>2
    <2>2. Len(res') = Len(res) => (uncut' + 1)..Len(res') = {}
      BY <1>1, <2>1
    <2>3. CASE Len(res') = Len(res)
      BY <2>2, <2>3 DEF GrantInv
    <2>4. CASE Len(res') # Len(res)
      <3>1. \E now \in Nows, n \in Sizes : Granted(now, n)
        BY <2>4 DEF Accounted, Quiet, SameReservations, Unlimited, Changed, Refused, Restored
      <3> QED
        BY <3>1, GrantsPaid
    <2> QED
      BY <2>3, <2>4
  <1>3. CASE Quiet
    <2>1. /\ UNCHANGED <<limit, burst, tokens, uncut>> /\ SameReservations /\ limit # Inf
          /\ last' = last /\ credit' = credit
      BY <1>3 DEF Quiet, settings, bucket, history
    <2>2. last' \in Int /\ credit' \in Nat /\ limit * last' + credit' = limit * last + credit /\ credit' >= credit
      BY <1>1, <2>1
    <2> QED
      BY <2>1, <2>2, GrantsKept
  <1>4. ASSUME NEW now \in Nows, Refused(now) PROVE GrantInv'
    <2>1. /\ UNCHANGED <<limit, burst, tokens, uncut>> /\ limit # Inf /\ res' = res
          /\ last' = Least(last, now) /\ credit' = credit + Rewound(now)
      BY <1>4 DEF Refused, settings
    <2>2. SameReservations
      BY <1>1, <2>1 DEF SameReservations
    <2>3. Rewound(now) \in Nat /\ now \in Int /\ limit * Least(last, now) + Rewound(now) = limit * last
      BY <2>1, NowsPast, RewoundNat, RewoundLast
    <2>4. Least(last, now) \in Int /\ limit \in Nat
      BY <1>1, <2>1, <2>3 DEF Least
    <2>5. limit * Least(last, now) \in Int /\ limit * last \in Int
      BY <1>1, <2>4, Times
    <2> DEFINE paid == limit * last
               due == limit * Least(last, now)
    <2>6. due + (credit + Rewound(now)) = paid + credit /\ credit + Rewound(now) >= credit
          /\ credit + Rewound(now) \in Nat
      <3>1. due + Rewound(now) = paid /\ due \in Int /\ paid \in Int
        BY <2>3, <2>5
      <3> HIDE DEF due, paid
      <3> QED
        BY <1>1, <2>3, <3>1
    <2>7. last' \in Int /\ credit' \in Nat /\ limit * last' + credit' = limit * last + credit /\ credit' >= credit
      BY <2>1, <2>4, <2>6
    <2> QED
      BY <2>1, <2>2, <2>7, GrantsKept
  <1>5. ASSUME NEW k \in DOMAIN res, NEW now \in Nows, NEW restore \in Int, Restored(k, now, restore)
        PROVE  GrantInv'
    <2>1. uncut' = Len(res')
      BY <1>5 DEF Restored, NewAccount, SameReservations
    <2> QED
      BY <1>2, <2>1
  <1>6. CASE Changed
    BY <1>2, <1>6 DEF Changed, NewAccount
  <1>7. ~Unlimited
    BY DEF Unlimited
  <1> QED
    BY <1>3, <1>4, <1>5, <1>6, <1>7, GrantsPaid DEF Accounted

-----------------------------------------------------------------------------
(* Nothing is held back *)

\* The bucket has, but for a truncation, all that the limit has added from
\* reservation i to a time, less what was taken from then on.
Refilled(i, amount, now) ==
  amount + Taken(i..Len(res)) + limit * res[i].made > Capacity - limit + limit * now

\* Under its first settings a limiter was never used, or it was full, or it has
\* lost nothing since some reservation.
RefillInv ==
  changes = 0 /\ limit # Inf =>
    /\ tokens <= Capacity
    /\ \/ Len(res) = 0 /\ tokens = 0 /\ last <= -InfDuration
       \/ tokens > Capacity - limit
       \/ \E i \in DOMAIN res : Refilled(i, tokens, last)

\* The zero time (rate.go:60) is so long ago that any bucket has filled since.
ZeroTimeLongAgo ==
  \A r \in Limits, b \in Bursts : r # Inf => b * Unit <= r * (InfDuration - Skew)

\* So it is with what advance finds.
LEMMA AdvanceRefills ==
  ASSUME PositiveLimits, ZeroTimeLongAgo, IInv, RefillInv, changes = 0, limit # Inf, NEW now \in Nows
  PROVE  \/ Advance(now) > Capacity - limit
         \/ \E i \in DOMAIN res : Refilled(i, Advance(now), now)
  <1> DEFINE have == Advance(now)
             due == limit * now
             paid == limit * last
  <1>1. /\ limit \in Nat /\ limit > 0 /\ Capacity \in Nat /\ tokens \in Int /\ last \in Int
        /\ Skew \in Nat /\ InfDuration \in Nat
    BY LimiterAssumption DEF PositiveLimits, IInv, Scalars, Capacity, InfDuration
  <1>2. now \in Int /\ now >= -Skew
    BY LimiterAssumption DEF Nows, IInv, Scalars
  <1>3. have \in Int /\ due \in Int /\ paid \in Int
    BY <1>1, <1>2, AdvanceInt, Times
  <1>4. tokens <= Capacity
    BY DEF RefillInv
  <1>5. have > Capacity - limit \/ (have >= tokens /\ have + paid >= tokens + due)
    BY <1>1, <1>2, <1>4, AdvanceFull
  <1>6. CASE Len(res) = 0 /\ tokens = 0 /\ last <= -InfDuration
    <2> DEFINE long == limit * (InfDuration - Skew)
    <2>1. Capacity <= long
      BY <1>1 DEF ZeroTimeLongAgo, Capacity, IInv, Scalars
    <2>2. InfDuration - Skew <= now - last /\ now - last \in Int /\ InfDuration - Skew \in Int
      BY <1>1, <1>2, <1>6
    <2>3. long <= limit * (now - last) /\ limit * (now - last) = due - paid /\ long \in Int
      BY <1>1, <1>2, <2>2, Times
    <2> HIDE DEF have, due, paid, long
    <2>4. have > Capacity - limit
      BY <1>1, <1>3, <1>5, <1>6, <2>1, <2>3
    <2> QED
      BY <2>4 DEF have
  <1>7. CASE tokens > Capacity - limit
    <2> HIDE DEF have, due, paid
    <2>1. have > Capacity - limit
      BY <1>1, <1>3, <1>5, <1>7
    <2> QED
      BY <2>1 DEF have
  <1>8. ASSUME NEW i \in DOMAIN res, Refilled(i, tokens, last)
        PROVE  have > Capacity - limit \/ Refilled(i, have, now)
    <2> DEFINE taken == Taken(i..Len(res))
               begun == limit * res[i].made
    <2>1. /\ res \in Seq(Reservations) /\ DOMAIN res = 1..Len(res) /\ Len(res) \in Nat
          /\ i \in 1..Len(res) /\ res[i].made \in Int
      BY SeqFacts DEF IInv, Account
    <2>2. taken \in Nat /\ begun \in Int
      <3>1. i..Len(res) \in SUBSET (1..Len(res))
        BY <2>1
      <3>2. TakenOf(res, i..Len(res)) \in Nat
        BY <2>1, <3>1, SeqFacts
      <3>3. taken = TakenOf(res, i..Len(res))
        BY DEF Taken, TakenOf
      <3> QED
        BY <1>1, <2>1, <3>2, <3>3, Times
    <2>3. tokens + taken + begun > Capacity - limit + paid
      BY <1>8 DEF Refilled
    <2> HIDE DEF have, due, paid, taken, begun
    <2>4. have > Capacity - limit \/ have + taken + begun > Capacity - limit + due
      BY <1>1, <1>3, <1>5, <2>2, <2>3
    <2> QED
      BY <2>4 DEF Refilled, have, due, taken, begun
  <1> QED
    BY <1>6, <1>7, <1>8 DEF RefillInv

\* Every step keeps it so.
LEMMA RefillStep ==
  PositiveLimits /\ ZeroTimeLongAgo /\ IInv /\ RefillInv /\ Accounted => RefillInv'
  <1> SUFFICES ASSUME PositiveLimits, ZeroTimeLongAgo, IInv, RefillInv, Accounted,
                      changes' = 0, limit' # Inf
               PROVE  RefillInv'
    BY DEF RefillInv
  <1>1. /\ (limit \in Nat /\ limit > 0) \/ limit = Inf
        /\ Capacity \in Nat /\ tokens \in Int /\ last \in Int /\ Unit \in Nat /\ Sizes \subseteq Nat
    BY LimiterAssumption DEF PositiveLimits, IInv, Scalars, Capacity
  <1>2. /\ res \in Seq(Reservations) /\ Len(res) \in Nat /\ DOMAIN res = 1..Len(res)
        /\ \A k \in 1..Len(res) : res[k].tokens \in Nat /\ res[k].made \in Int
    BY SeqFacts DEF IInv, Account
  \* Reservations that are still there still took what they took.
  <1>3. ASSUME SameReservations, limit' = limit, Capacity' = Capacity, NEW i \in DOMAIN res,
               NEW amount, NEW now, Refilled(i, amount, now)
        PROVE  i \in DOMAIN res' /\ amount + Taken(i..Len(res))' + limit' * res'[i].made > Capacity' - limit' + limit' * now
    <2>1. res' \in Seq(Reservations) /\ Len(res') = Len(res) /\ i \in DOMAIN res'
      BY <1>2, <1>3 DEF SameReservations
    <2>2. \A k \in i..Len(res) : res'[k].tokens = res[k].tokens
      <3>1. \A k \in i..Len(res) : k \in DOMAIN res
        BY <1>2, <1>3
      <3> QED
        BY <1>3, <3>1 DEF SameReservations
    <2>3. TakenOf(res', i..Len(res)) = TakenOf(res, i..Len(res))
      BY <2>2, TakenSame
    <2>4. Taken(i..Len(res))' = Taken(i..Len(res))
      BY <2>1, <2>3 DEF Taken, TakenOf
    <2>5. res'[i].made = res[i].made
      BY <1>3 DEF SameReservations
    <2> QED
      BY <1>3, <2>1, <2>4, <2>5 DEF Refilled
  <1>4. CASE Quiet
    <2>1. /\ SameReservations /\ limit' = limit /\ burst' = burst /\ tokens' = tokens /\ last' = last
          /\ changes = 0 /\ limit # Inf
      BY <1>4 DEF Quiet, settings, bucket, history
    <2>2. Capacity' = Capacity /\ Len(res') = Len(res)
      BY <2>1 DEF Capacity, SameReservations
    <2>3. \A i \in DOMAIN res : Refilled(i, tokens, last) => i \in DOMAIN res' /\ Refilled(i, tokens, last)'
      BY <1>3, <2>1, <2>2 DEF Refilled
    <2> QED
      BY <2>1, <2>2, <2>3 DEF RefillInv
  <1>5. ASSUME NEW now \in Nows, NEW n \in Sizes, Granted(now, n) PROVE RefillInv'
    <2> DEFINE new == Len(res) + 1
               have == Advance(now)
               due == limit * now
    <2>1. /\ limit' = limit /\ burst' = burst /\ changes = 0 /\ limit # Inf
          /\ tokens' = have - n * Unit /\ last' = now /\ Len(res') = new /\ res' \in Seq(Reservations)
          /\ res'[new].made = now /\ \A k \in 1..Len(res) : res'[k] = res[k]
      BY <1>2, <1>5 DEF Granted, settings
    <2>2. now \in Int /\ have \in Int /\ have <= Capacity /\ n * Unit \in Nat /\ n * Unit = Unit * n
      BY <1>1, <2>1, NowsPast, AdvanceInt, AdvanceBound
    <2>3. Capacity' = Capacity /\ DOMAIN res' = 1..new
      BY <2>1, SeqFacts DEF Capacity
    <2>4. due \in Int
      BY <1>1, <2>1, <2>2, Times
    <2>5. CASE have > Capacity - limit
      <3>1. new \in DOMAIN res' /\ new..new = {} \cup {new}
        BY <1>2, <2>3
      <3>2. TakenOf(res', new..new) = n * Unit
        <4>1. TakenOf(res', {} \cup {Len(res) + 1}) = Unit * n + TakenOf(res, {})
          BY <1>5, GrantTaken
        <4>2. TakenOf(res, {}) = 0
          BY TakenNothing
        <4> QED
          BY <2>2, <3>1, <4>1, <4>2
      <3>3. (have - n * Unit) + TakenOf(res', new..new) + due > Capacity - limit + due
        <4> HIDE DEF due, have
        <4>1. (have - n * Unit) + n * Unit + due > Capacity - limit + due
          BY <1>1, <2>1, <2>2, <2>4, <2>5
        <4> QED
          BY <3>2, <4>1
      <3>4. tokens' + TakenOf(res', new..Len(res')) + limit' * res'[new].made > Capacity' - limit' + limit' * last'
        BY <2>1, <2>3, <3>3
      <3>5. \E i \in DOMAIN res' : tokens' + TakenOf(res', i..Len(res')) + limit' * res'[i].made
                                     > Capacity' - limit' + limit' * last'
        BY <3>1, <3>4
      <3>6. \E i \in DOMAIN res' : Refilled(i, tokens, last)'
        BY <3>5 DEF Refilled, Taken, TakenOf
      <3>7. tokens' <= Capacity'
        BY <1>1, <2>1, <2>2, <2>3
      <3> QED
        BY <3>6, <3>7 DEF RefillInv
    <2>6. ASSUME NEW i \in DOMAIN res, Refilled(i, have, now) PROVE RefillInv'
      <3> DEFINE taken == TakenOf(res, i..Len(res))
                 begun == limit * res[i].made
      <3>1. /\ i \in DOMAIN res' /\ i..Len(res) \in SUBSET (1..Len(res))
            /\ i..new = (i..Len(res)) \cup {new} /\ res'[i].made = res[i].made
        BY <1>2, <2>1, <2>3
      <3>2. TakenOf(res', i..new) = n * Unit + taken /\ taken \in Nat
        <4>1. TakenOf(res', (i..Len(res)) \cup {Len(res) + 1}) = Unit * n + taken
          BY <1>5, <3>1, GrantTaken
        <4>2. taken \in Nat
          BY <1>2, <3>1, SeqFacts
        <4> QED
          BY <2>2, <3>1, <4>1, <4>2
      <3>3. begun \in Int
        BY <1>1, <1>2, <2>1, Times
      <3>4. have + taken + begun > Capacity - limit + due
        BY <2>6 DEF Refilled, Taken, TakenOf
      <3>5. (have - n * Unit) + (n * Unit + taken) + begun > Capacity - limit + due
        <4> HIDE DEF due, have, taken, begun
        <4> QED
          BY <1>1, <2>1, <2>2, <2>4, <3>2, <3>3, <3>4
      <3>6. tokens' + TakenOf(res', i..Len(res')) + limit' * res'[i].made > Capacity' - limit' + limit' * last'
        BY <2>1, <2>3, <3>1, <3>2, <3>5
      <3>7. Refilled(i, tokens, last)'
        BY <3>6 DEF Refilled, Taken, TakenOf
      <3>8. tokens' <= Capacity'
        BY <1>1, <2>1, <2>2, <2>3
      <3> QED
        BY <3>1, <3>7, <3>8 DEF RefillInv
    <2> HIDE DEF have
    <2>7. have > Capacity - limit \/ \E i \in DOMAIN res : Refilled(i, have, now)
      BY <2>1, AdvanceRefills DEF have
    <2> QED
      BY <2>5, <2>6, <2>7
  <1>6. ASSUME NEW now \in Nows, Refused(now) PROVE RefillInv'
    <2>1. /\ limit' = limit /\ burst' = burst /\ changes = 0 /\ limit # Inf /\ tokens' = tokens
          /\ last' = Least(last, now) /\ res' = res
      BY <1>6 DEF Refused, settings
    <2>2. Capacity' = Capacity
      BY <2>1 DEF Capacity
    <2>3. now \in Int /\ last' \in Int /\ last' <= last
      BY <1>1, <2>1, NowsPast DEF Least
    <2> DEFINE paid == limit * last
               due == limit * last'
    <2>4. due \in Int /\ paid \in Int /\ due <= paid
      BY <1>1, <2>1, <2>3, Times
    <2>5. ASSUME NEW i \in DOMAIN res, Refilled(i, tokens, last) PROVE Refilled(i, tokens, last)'
      <3> DEFINE taken == TakenOf(res, i..Len(res))
                 begun == limit * res[i].made
      <3>1. taken \in Nat /\ begun \in Int
        <4>1. i..Len(res) \in SUBSET (1..Len(res))
          BY <1>2
        <4> QED
          BY <1>1, <1>2, <2>1, <4>1, SeqFacts, Times
      <3>2. tokens + taken + begun > Capacity - limit + paid
        BY <2>5 DEF Refilled, Taken, TakenOf
      <3> HIDE DEF taken, begun, paid, due
      <3>3. tokens + taken + begun > Capacity - limit + due
        BY <1>1, <2>1, <2>4, <3>1, <3>2
      <3>4. tokens' + TakenOf(res', i..Len(res')) + limit' * res'[i].made > Capacity' - limit' + limit' * last'
        BY <2>1, <2>2, <3>3 DEF taken, begun, due
      <3> QED
        BY <3>4 DEF Refilled, Taken, TakenOf
    <2>6. last <= -InfDuration => last' <= -InfDuration
      BY <1>1, <2>3 DEF InfDuration
    <2> QED
      BY <2>1, <2>2, <2>5, <2>6 DEF RefillInv
  <1>7. ASSUME NEW k \in DOMAIN res, NEW now \in Nows, NEW restore \in Int, Restored(k, now, restore)
        PROVE  RefillInv'
    <2> DEFINE have == Advance(now)
               newTokens == tokens'
    <2>1. /\ limit' = limit /\ burst' = burst /\ last' = now /\ changes = 0 /\ limit # Inf
          /\ restore > 0 /\ SameReservations
          /\ newTokens = Least(have + restore, Capacity)
      BY <1>7 DEF Restored, settings
    <2>2. have \in Int /\ Capacity' = Capacity /\ now \in Int
      BY <2>1, NowsPast, AdvanceInt DEF Capacity
    <2>3. have > Capacity - limit \/ \E i \in DOMAIN res : Refilled(i, have, now)
      BY <2>1, AdvanceRefills
    <2> HIDE DEF have, newTokens
    <2>4. newTokens \in Int /\ newTokens <= Capacity /\ (newTokens > have \/ newTokens = Capacity)
      BY <1>1, <2>1, <2>2 DEF Least
    <2>5. CASE newTokens > Capacity - limit
      <3>1. tokens' <= Capacity' /\ tokens' > Capacity' - limit'
        BY <2>1, <2>2, <2>4, <2>5 DEF newTokens
      <3> QED
        BY <3>1 DEF RefillInv
    <2>6. ASSUME NEW i \in DOMAIN res, Refilled(i, have, now), newTokens > have PROVE RefillInv'
      <3>1. /\ i \in DOMAIN res'
            /\ have + Taken(i..Len(res))' + limit' * res'[i].made > Capacity' - limit' + limit' * now
        BY <1>3, <2>1, <2>2, <2>6
      <3> DEFINE taken == Taken(i..Len(res))'
                 begun == limit' * res'[i].made
                 due == limit' * now
                 full == Capacity' - limit'
      <3>2. taken \in Nat
        <4>1. res' \in Seq(Reservations) /\ i..Len(res') \in SUBSET (1..Len(res')) /\ Len(res') = Len(res)
          BY <1>2, <2>1 DEF SameReservations
        <4>2. TakenOf(res', i..Len(res')) \in Nat
          BY <4>1, SeqFacts
        <4> QED
          BY <4>2 DEF Taken, TakenOf
      <3>3. begun \in Int /\ due \in Int /\ full \in Int
        <4>1. res'[i].made \in Int
          <5>1. i \in 1..Len(res) /\ res'[i].made = res[i].made
            BY <1>2, <2>1 DEF SameReservations
          <5> QED
            BY <1>2, <5>1
        <4>2. limit' \in Nat /\ Capacity' \in Int
          BY <1>1, <2>1, <2>2
        <4>3. begun \in Int
          BY <4>1, <4>2, Times
        <4>4. due \in Int
          BY <2>2, <4>2, Times
        <4> QED
          BY <4>2, <4>3, <4>4
      <3>4. have + taken + begun > full + due
        BY <3>1
      <3> HIDE DEF taken, begun, due, full
      <3>5. newTokens + taken + begun > full + due
        BY <2>2, <2>4, <2>6, <3>2, <3>3, <3>4
      <3>6. Refilled(i, tokens, last)'
        BY <2>1, <3>5 DEF Refilled, newTokens, taken, begun, due, full
      <3>7. tokens' <= Capacity'
        BY <2>2, <2>4 DEF newTokens
      <3> QED
        BY <3>1, <3>6, <3>7 DEF RefillInv
    <2>7. CASE newTokens = Capacity \/ have > Capacity - limit
      <3>1. newTokens > Capacity - limit
        BY <1>1, <2>1, <2>2, <2>4, <2>7
      <3> QED
        BY <2>5, <3>1
    <2> QED
      BY <2>3, <2>4, <2>6, <2>7
  <1>8. ~Unlimited
    BY DEF Unlimited
  <1>9. ~Changed
    BY DEF Changed
  <1> QED
    BY <1>4, <1>5, <1>6, <1>7, <1>8, <1>9 DEF Accounted

-----------------------------------------------------------------------------
(* Theorems *)

\* rate.go:253-268: the fields keep their types, and a WaitN that sleeps has a
\* reservation that was granted and that nobody else has used or cancelled:
\* what it gives back on a cancellation is its own, and once.
THEOREM SleeperOwns == Spec => []TypeOK
  <1>1. IInv => TypeOK
    <2> SUFFICES ASSUME IInv PROVE TypeOK
      OBVIOUS
    <2>1. \A w \in Waiters :
            \/ wait[w] = Idle
            \/ wait[w].pc = "reserve" /\ wait[w].n \in Sizes /\ wait[w].deadline \in Deadlines
            \/ Sleeping(w)
      BY DEF IInv, Owners, Places, Sleeping
    <2>2. \A w \in Waiters : Sleeping(w) => wait[w].k \in DOMAIN res /\ res[wait[w].k].state = "kept"
      BY DEF IInv, Owners
    <2> QED
      BY <2>1, <2>2 DEF IInv, Scalars, Account, Sleeping, TypeOK
  <1> QED
    BY <1>1, InitIInv, StepIInv, PTL DEF Spec

\* rate.go:166-190, 348-355: what was granted and not cancelled under the present
\* settings, and what is left, came from a full bucket, from the limit or
\* from time that was given twice.
THEOREM LedgerHolds == Spec => []Ledger
  <1>1. Init => IInv /\ LedgerInv
    BY InitIInv DEF Init, LedgerInv
  <1>2. IInv /\ LedgerInv /\ [Next]_vars => (IInv /\ LedgerInv)'
    BY StepIInv, StepAccounted, LedgerStep
  <1>3. IInv /\ LedgerInv => Ledger
    <2> SUFFICES ASSUME IInv, LedgerInv, limit # Inf, since < Len(res)
                 PROVE  Taken(Alive((since + 1)..Len(res))) + Advance(clock)
                          <= Capacity + limit * (clock - res[since + 1].made) + credit
      BY DEF Ledger
    <2> DEFINE T == Taken(Alive((since + 1)..Len(res)))
               made == res[since + 1].made
    <2>1. /\ limit \in Nat /\ clock \in Int /\ last \in Int /\ tokens \in Int /\ last <= clock
          /\ Capacity \in Int /\ credit \in Nat
      BY LimiterAssumption DEF IInv, Scalars, Capacity
    <2>2. made \in Int /\ T \in Nat
      <3>1. /\ res \in Seq(Reservations) /\ since + 1 \in 1..Len(res)
            /\ Alive((since + 1)..Len(res)) \in SUBSET (1..Len(res))
        BY DEF IInv, Account, Alive
      <3> QED
        BY <3>1, SeqFacts DEF Taken, TakenOf
    <2>3. T + tokens + limit * made <= Capacity + limit * last + credit
      BY DEF LedgerInv
    <2> HIDE DEF T, made
    <2>4. Advance(clock) \in Int /\ Advance(clock) + limit * last <= tokens + limit * clock + Rewound(clock)
      BY <2>1, AdvanceInt, AdvanceBound
    <2>5. Rewound(clock) = 0
      BY <2>1 DEF Rewound, TokensFromDuration, Least
    <2>6. /\ limit * (clock - made) = limit * clock - limit * made
          /\ limit * clock \in Int /\ limit * made \in Int /\ limit * last \in Int
      BY <2>1, <2>2, Times
    <2>7. T + Advance(clock) <= Capacity + limit * (clock - made) + credit
      BY <2>1, <2>2, <2>3, <2>4, <2>5, <2>6
    <2> QED
      BY <2>7 DEF T, made
  <1> QED
    BY <1>1, <1>2, <1>3, PTL DEF Spec

\* rate.go:35, 307-359: between two cancellations that restore anything, what is
\* granted keeps to the rate and the burst, but for time that was given twice.
THEOREM GrantsWithinRate == ASSUME PositiveLimits PROVE Spec => []GrantsBounded
  <1>1. Init => IInv /\ GrantInv
    BY InitIInv DEF Init, GrantInv
  <1>2. IInv /\ GrantInv /\ [Next]_vars => (IInv /\ GrantInv)'
    BY StepIInv, StepAccounted, GrantStep
  <1>3. IInv /\ GrantInv => GrantsBounded
    <2> DEFINE ks == (uncut + 1)..Len(res)
    <2> SUFFICES ASSUME IInv, GrantInv, limit # Inf, NEW i \in ks, NEW j \in ks,
                        res[i].timeToAct <= res[j].timeToAct
                 PROVE  Taken({k \in Alive(ks) : res[k].timeToAct \in res[i].timeToAct..res[j].timeToAct})
                          <= Capacity + limit * (res[j].timeToAct - res[i].timeToAct) + (limit - 1) + credit
      BY DEF GrantsBounded, Within
    <2> DEFINE s == res[i].timeToAct
               t == res[j].timeToAct
               K == {k \in Alive(ks) : res[k].timeToAct \in s..t}
    <2>1. /\ res \in Seq(Reservations) /\ Len(res) \in Nat /\ uncut \in Nat
          /\ \A k \in 1..Len(res) : res[k].tokens \in Nat /\ res[k].timeToAct \in Int
      BY SeqFacts DEF IInv, Account
    <2>2. limit \in Nat /\ limit > 0 /\ Capacity \in Nat /\ credit \in Nat
      BY LimiterAssumption DEF PositiveLimits, IInv, Scalars, Capacity
    <2>3. K \in SUBSET ks /\ ks \in SUBSET (1..Len(res)) /\ \A k \in K : s <= res[k].timeToAct /\ res[k].timeToAct <= t
      BY <2>1 DEF Alive
    <2>4. s \in Int /\ t \in Int /\ s <= t
      BY <2>1, <2>3
    <2> HIDE DEF K, s, t
    <2>5. IsFiniteSet(K) /\ \A k \in K : k \in Int /\ res[k].tokens \in Nat
      BY <2>1, <2>3, SeqFacts
    <2>6. limit * (t - s) = limit * t - limit * s /\ limit * t \in Int /\ limit * s \in Int
          /\ limit * s <= limit * t
      BY <2>2, <2>4, Times
    <2>7. TakenOf(res, K) <= Capacity + limit * (t - s) + (limit - 1) + credit
      <3>1. CASE K = {}
        <4>1. TakenOf(res, K) = 0
          BY <3>1, TakenNothing
        <4> DEFINE from == limit * s
                   to == limit * t
        <4>2. limit * (t - s) = to - from /\ to \in Int /\ from \in Int /\ from <= to
          BY <2>6
        <4> HIDE DEF from, to
        <4> QED
          BY <2>2, <4>1, <4>2
      <3>2. CASE K # {}
        <4>1. PICK p \in K : \A k \in K : p <= k
          <5> DEFINE f == [k \in K |-> -k]
          <5>1. \A k \in K : f[k] \in Int
            BY <2>5
          <5>2. \A k \in K : f[k] = -k
            OBVIOUS
          <5> HIDE DEF f
          <5>3. PICK p \in K : \A k \in K : f[k] <= f[p]
            BY <2>5, <3>2, <5>1, GreatestTerm
          <5>4. \A k \in K : p <= k
            BY <2>5, <5>2, <5>3
          <5> QED
            BY <5>4
        <4>2. PICK q \in K : \A k \in K : k <= q
          <5> DEFINE f == [k \in K |-> k]
          <5>1. \A k \in K : f[k] \in Int
            BY <2>5
          <5>2. \A k \in K : f[k] = k
            OBVIOUS
          <5> HIDE DEF f
          <5>3. PICK q \in K : \A k \in K : f[k] <= f[q]
            BY <2>5, <3>2, <5>1, GreatestTerm
          <5> QED
            BY <5>2, <5>3
        <4>3. p \in ks /\ q \in p..Len(res) /\ p..q \in SUBSET (1..Len(res)) /\ K \in SUBSET (p..q)
          BY <2>1, <2>3, <2>5, <4>1, <4>2
        <4>4. IsFiniteSet(p..q) /\ TakenOf(res, p..q) \in Nat /\ \A k \in p..q : res[k].tokens \in Nat
          BY <2>1, <4>3, SeqFacts
        <4>5. TakenOf(res, K) <= TakenOf(res, p..q)
          BY <4>3, <4>4, TakenPart
        <4>6. TakenOf(res, K) \in Nat
          <5>1. K \in SUBSET (1..Len(res))
            BY <2>3
          <5> QED
            BY <2>1, <5>1, SeqFacts
        <4> DEFINE act == limit * res[p].timeToAct
                   end == limit * res[q].timeToAct
                   from == limit * s
                   to == limit * t
                   span == TakenOf(res, p..q)
        <4>7. act + span <= end + Capacity + (limit - 1) + credit
          BY <4>3 DEF GrantInv, Spread, Taken, TakenOf
        <4>8. res[p].timeToAct \in Int /\ res[q].timeToAct \in Int
          BY <2>1, <2>3, <4>1, <4>2
        <4>9. from <= act /\ end <= to /\ act \in Int /\ end \in Int
          BY <2>2, <2>3, <2>4, <4>1, <4>2, <4>8, Times
        <4>10. limit * (t - s) = to - from /\ to \in Int /\ from \in Int
          BY <2>6
        <4> DEFINE taken == TakenOf(res, K)
        <4>11. span \in Nat /\ taken \in Nat /\ taken <= span
          BY <4>4, <4>5, <4>6
        <4> HIDE DEF act, end, from, to, span, taken
        <4>12. span <= Capacity + (to - from) + (limit - 1) + credit
          BY <2>2, <4>7, <4>9, <4>10, <4>11
        <4>13. taken <= Capacity + (to - from) + (limit - 1) + credit
          BY <2>2, <4>10, <4>11, <4>12
        <4> QED
          BY <4>10, <4>13 DEF taken
      <3> QED
        BY <3>1, <3>2
    <2> QED
      BY <2>7 DEF Taken, TakenOf, K, s, t
  <1> QED
    BY <1>1, <1>2, <1>3, PTL DEF Spec

\* rate.go:353-355, 361-385: a limiter holds nothing back.  Short of full, its
\* bucket has all that the limit has added since some reservation, less what
\* was taken; refused requests cost nothing.
THEOREM NothingHeldBack ==
  ASSUME PositiveLimits, ZeroTimeLongAgo
  PROVE  Spec => []RefillsInFull
  <1>1. Init => IInv /\ RefillInv
    <2> SUFFICES ASSUME Init PROVE RefillInv
      BY InitIInv
    <2>1. Len(res) = 0 /\ tokens = 0 /\ last <= -InfDuration
      BY DEF Init, InfDuration
    <2>2. Capacity \in Nat
      BY LimiterAssumption DEF Init, Capacity
    <2> QED
      BY <2>1, <2>2 DEF RefillInv
  <1>2. IInv /\ RefillInv /\ [Next]_vars => (IInv /\ RefillInv)'
    BY StepIInv, StepAccounted, RefillStep
  <1>3. IInv /\ RefillInv => RefillsInFull
    <2> SUFFICES ASSUME IInv, RefillInv, changes = 0, limit # Inf
                 PROVE  \/ Advance(clock) > Capacity - limit
                        \/ \E i \in DOMAIN res :
                             Advance(clock) + Taken(i..Len(res))
                               > Capacity - limit + limit * (clock - res[i].made)
      BY DEF RefillsInFull
    <2>1. limit \in Nat /\ clock \in Nows /\ clock \in Int /\ Capacity \in Int
      BY LimiterAssumption DEF IInv, Scalars, Nows, Capacity
    <2>2. Advance(clock) > Capacity - limit \/ \E i \in DOMAIN res : Refilled(i, Advance(clock), clock)
      BY <2>1, AdvanceRefills
    <2>3. ASSUME NEW i \in DOMAIN res, Refilled(i, Advance(clock), clock)
          PROVE  Advance(clock) + Taken(i..Len(res))
                   > Capacity - limit + limit * (clock - res[i].made)
      <3> DEFINE have == Advance(clock)
                 taken == Taken(i..Len(res))
                 begun == limit * res[i].made
                 due == limit * clock
      <3>1. /\ res \in Seq(Reservations) /\ DOMAIN res = 1..Len(res) /\ res[i].made \in Int
            /\ i..Len(res) \in SUBSET (1..Len(res))
        <4>1. res \in Seq(Reservations)
          BY DEF IInv, Account
        <4>2. DOMAIN res = 1..Len(res) /\ Len(res) \in Nat /\ \A k \in 1..Len(res) : res[k].made \in Int
          BY <4>1, SeqFacts
        <4> QED
          BY <4>1, <4>2
      <3>2. TakenOf(res, i..Len(res)) \in Nat
        BY <3>1, SeqFacts
      <3>3. taken \in Nat
        BY <3>2 DEF Taken, TakenOf
      <3>4. limit * (clock - res[i].made) = due - begun /\ due \in Int /\ begun \in Int
        BY <2>1, <3>1, Times
      <3>5. have \in Int
        BY <2>1, AdvanceInt
      <3>6. have + taken + begun > Capacity - limit + due
        BY <2>3 DEF Refilled
      <3> HIDE DEF have, taken, begun, due
      <3>7. have + taken > Capacity - limit + (due - begun)
        BY <2>1, <3>3, <3>4, <3>5, <3>6
      <3> QED
        BY <3>4, <3>7 DEF have, taken
    <2> QED
      BY <2>2, <2>3
  <1> QED
    BY <1>1, <1>2, <1>3, PTL DEF Spec
=============================================================================
