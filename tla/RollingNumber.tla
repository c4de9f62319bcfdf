--------------------------- MODULE RollingNumber ---------------------------
(***************************************************************************)
(* rolling.Number (rolling.go): a value per second over a moving window.   *)
(* The map of buckets is a function on all of Time in which an absent      *)
(* bucket is a bucket of value 0: Sum and Max cannot tell them apart.      *)
(* Every operation holds the Number's mutex, so it is one operator.        *)
(***************************************************************************)
EXTENDS Integers, Functions

CONSTANTS
  Window,   \* the rolling window, 10 in the code
  MaxTime   \* bound on the seconds a run lasts

ASSUME RollingAssumption == Window \in Nat \ {0} /\ MaxTime \in Nat

Time == 0..MaxTime

NewNumber == [t \in Time |-> 0]

\* Mutant of RemoveOldBuckets: one second too many is deleted.
RemoveOldBucketsEarly(r, now) == [t \in Time |-> IF t <= now - Window + 1 THEN 0 ELSE r[t]]

\* removeOldBuckets deletes the timestamps <= now - Window.
RemoveOldBuckets(r, now) == [t \in Time |-> IF t <= now - Window THEN 0 ELSE r[t]]

Increment(r, i, now) ==
  IF i = 0 THEN r
  ELSE RemoveOldBuckets([r EXCEPT ![now] = @ + i], now)

\* Mutant of UpdateMax: the latest value instead of the greatest.
UpdateLatest(r, n, now) == RemoveOldBuckets([r EXCEPT ![now] = n], now)

UpdateMax(r, n, now) ==
  RemoveOldBuckets([r EXCEPT ![now] = IF n > @ THEN n ELSE @], now)

\* The timestamps Sum and Max look at: those >= now - Window.
Recent(now) == {t \in Time : t >= now - Window}

Sum(r, now) == SumFunctionOnSet(r, Recent(now))

MaxValue(r, now) == CHOOSE m \in {r[t] : t \in Recent(now)} :
                      \A t \in Recent(now) : r[t] <= m
=============================================================================
