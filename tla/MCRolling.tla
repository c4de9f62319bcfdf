----------------------------- MODULE MCRolling -----------------------------
(***************************************************************************)
(* A rolling.Number over a few seconds, beside the values it was given.    *)
(***************************************************************************)
EXTENDS RollingNumber

CONSTANTS
  Amounts,  \* what Increment and UpdateMax are called with
  MaxTotal  \* bound on what is given in all

ASSUME AmountsAssumption == Amounts \subseteq Nat /\ MaxTotal \in Nat

VARIABLES
  second,  \* the present second
  counts,  \* a Number that is only ever incremented
  given,   \* what counts was given in each second
  peaks,   \* a Number that only UpdateMax changes
  seen     \* the greatest value peaks was given in each second

rollingVars == <<second, counts, given, peaks, seen>>

RollingInit ==
  /\ second = 0
  /\ counts = NewNumber /\ given = NewNumber
  /\ peaks = NewNumber /\ seen = NewNumber

Add(i) ==
  /\ SumFunction(given) + i <= MaxTotal
  /\ counts' = Increment(counts, i, second)
  /\ given' = [given EXCEPT ![second] = @ + i]
  /\ UNCHANGED <<second, peaks, seen>>

Peak(n) ==
  /\ peaks' = UpdateMax(peaks, n, second)
  /\ seen' = [seen EXCEPT ![second] = IF n > @ THEN n ELSE @]
  /\ UNCHANGED <<second, counts, given>>

NextSecond ==
  second < MaxTime /\ second' = second + 1 /\ UNCHANGED <<counts, given, peaks, seen>>

RollingNext == NextSecond \/ \E i \in Amounts : Add(i) \/ Peak(i)

RollingSpec == RollingInit /\ [][RollingNext]_rollingVars

\* The last n seconds, the current one included.
LastSeconds(n) == {t \in Time : t > second - n}

\* rolling.go:78: Sum counts everything given in the last Window seconds once,
\* and beyond that at most the second before them.
SumOfWindow ==
  /\ Sum(counts, second) >= SumFunctionOnSet(given, LastSeconds(Window))
  /\ Sum(counts, second) <= SumFunctionOnSet(given, LastSeconds(Window + 1))

\* rolling.go:95: Max is the greatest value seen in those seconds.
MaxOfWindow ==
  /\ \A t \in LastSeconds(Window) : MaxValue(peaks, second) >= seen[t]
  /\ \E t \in LastSeconds(Window + 1) : MaxValue(peaks, second) = seen[t]
=============================================================================
