---------------------------- MODULE ChainProofs -----------------------------
(***************************************************************************)
(* What the wrappers promise, for any chain and any number of invocations. *)
(*                                                                         *)
(* An invocation inside a layer that delays is the one its mutex names,    *)
(* and while one is inside a layer that skips, the channel is empty.  A    *)
(* panicking invocation has not left any layer that recovers.              *)
(***************************************************************************)
EXTENDS Chain, TLAPS

Size == Len(chain)

\* Layers are the wrappers in the order they were given.
Wrapped == Size \in Nat /\ DOMAIN chain = 1..Size /\ \A k \in 1..Size : layers[k] = chain[k]

DelayHeld ==
  \A k \in 1..Size : \A r \in Runs : chain[k] = "delay" /\ k <= depth[r] => mu[k] = r

SkipHeld ==
  \A k \in 1..Size : chain[k] = "skip" =>
    /\ \A r \in Runs : k <= depth[r] => ~ch[k]
    /\ \A r, s \in Runs : k <= depth[r] /\ k <= depth[s] => r = s

Innermost == \A r \in Runs : phase[r] = "run" => depth[r] = Size

\* The layers that a panic has passed, or would never meet, do not recover.
Unwinding ==
  \A r \in Runs : phase[r] = "panic" =>
    r \in panicked /\ \A i \in 1..Size : i > depth[r] => chain[i] # "recover"

IInv ==
  /\ TypeOK /\ Wrapped /\ DelayHeld /\ SkipHeld /\ Innermost /\ Unwinding
  /\ TokenAccount /\ RecoverContains

\* Then(m1, m2, m3) is m1 around m2 around m3, as chain.go:26-29 says.
LEMMA ThenKeepsOrder ==
  ASSUME NEW c \in Seq(Kinds)
  PROVE  /\ Then(c) \in Seq(Kinds) /\ Len(Then(c)) = Len(c)
         /\ \A k \in 1..Len(c) : Then(c)[k] = c[k]
  BY DEF Then, Applied

\* The invariant holds when the job was wrapped and no run has started.
LEMMA InitIInv == Init => IInv
  <1> SUFFICES ASSUME Init PROVE IInv
    OBVIOUS
  <1>1. chain \in Seq(Kinds)
    BY ChainAssumption DEF Init
  <1>2. layers \in Seq(Kinds) /\ Len(layers) = Len(chain) /\ \A k \in 1..Len(chain) : layers[k] = chain[k]
    BY <1>1, ThenKeepsOrder DEF Init
  <1>3. TypeOK
    <2>1. Len(chain) \in Nat
      BY <1>1
    <2>2. depth \in [Runs -> 0..Len(chain)]
      BY <2>1 DEF Init
    <2> QED
      BY <1>1, <1>2, <2>2 DEF Init, TypeOK
  <1>4. Wrapped /\ DelayHeld /\ SkipHeld
    BY <1>1, <1>2 DEF Init, Wrapped, DelayHeld, SkipHeld, Size
  <1>5. Innermost /\ Unwinding /\ TokenAccount /\ RecoverContains
    BY DEF Init, Innermost, Unwinding, TokenAccount, RecoverContains
  <1> QED
    BY <1>3, <1>4, <1>5 DEF IInv

\* Every step of an invocation preserves it.
LEMMA NextIInv == IInv /\ [Next]_vars => IInv'
  <1> SUFFICES ASSUME IInv, [Next]_vars PROVE IInv'
    OBVIOUS
  <1> USE DEF IInv, Size
  <1>1. CASE UNCHANGED vars
    <2>1. TypeOK' /\ Wrapped' /\ DelayHeld' /\ SkipHeld'
      BY <1>1 DEF vars, TypeOK, Wrapped, DelayHeld, SkipHeld
    <2>2. Innermost' /\ Unwinding'
      BY <1>1 DEF vars, Innermost, Unwinding
    <2>3. TokenAccount' /\ RecoverContains'
      BY <1>1 DEF vars, TokenAccount, RecoverContains, Inside, RecoversWithin
    <2> QED
      BY <2>1, <2>2, <2>3
  <1>2. ASSUME NEW r \in Runs, Start(r) \/ Invocation(r) PROVE IInv'
    <2> USE DEF Deeper, Shallower, Goto, Entering, Leaving
    <2>1. CASE Start(r)
      <3>1. TokenAccount'
        BY <2>1 DEF Start, TokenAccount, Wrapped, SkipHeld, Unwinding, Inside,
           RecoversWithin, TypeOK
      <3> QED
        BY <2>1, <3>1 DEF Start, TypeOK, Wrapped, DelayHeld, SkipHeld, Innermost,
           Unwinding, RecoverContains, RecoversWithin
    <2>2. CASE EnterRecover(r)
      <3>1. SkipHeld'
        BY <2>2 DEF EnterRecover, SkipHeld, Wrapped, TypeOK
      <3>2. TokenAccount'
        BY <2>2 DEF EnterRecover, TokenAccount, Wrapped, SkipHeld, Unwinding, Inside,
           RecoversWithin, TypeOK
      <3> QED
        BY <2>2, <3>1, <3>2 DEF EnterRecover, TypeOK, Wrapped, DelayHeld, Innermost,
           Unwinding, RecoverContains, RecoversWithin
    <2>3. CASE EnterDelay(r)
      <3>1. DelayHeld'
        BY <2>3, ChainAssumption DEF EnterDelay, DelayHeld, Wrapped, TypeOK
      <3>2. SkipHeld'
        BY <2>3 DEF EnterDelay, SkipHeld, Wrapped, TypeOK
      <3>3. TokenAccount'
        BY <2>3 DEF EnterDelay, TokenAccount, Wrapped, SkipHeld, Unwinding, Inside,
           RecoversWithin, TypeOK
      <3> QED
        BY <2>3, <3>1, <3>2, <3>3 DEF EnterDelay, TypeOK, Wrapped, Innermost,
           Unwinding, RecoverContains, RecoversWithin
    <2>4. CASE EnterSkip(r)
      <3>1. SkipHeld'
        BY <2>4 DEF EnterSkip, SkipHeld, Wrapped, TypeOK
      <3>2. TokenAccount'
        BY <2>4 DEF EnterSkip, TokenAccount, Wrapped, SkipHeld, Unwinding, Inside,
           RecoversWithin, TypeOK
      <3> QED
        BY <2>4, <3>1, <3>2 DEF EnterSkip, TypeOK, Wrapped, DelayHeld, Innermost,
           Unwinding, RecoverContains, RecoversWithin
    <2>5. CASE Skip(r)
      <3>1. TokenAccount'
        BY <2>5 DEF Skip, TokenAccount, Wrapped, SkipHeld, Unwinding, Inside,
           RecoversWithin, TypeOK
      <3> QED
        BY <2>5, <3>1 DEF Skip, TypeOK, Wrapped, DelayHeld, SkipHeld, Innermost,
           Unwinding, RecoverContains, RecoversWithin
    <2>6. CASE RunJob(r)
      <3>1. Innermost'
        BY <2>6 DEF RunJob, Innermost, Wrapped, TypeOK
      <3> QED
        BY <2>6, <3>1 DEF RunJob, TypeOK, Wrapped, DelayHeld, SkipHeld, Unwinding,
           TokenAccount, RecoverContains, Inside, RecoversWithin
    <2>7. CASE JobReturns(r)
      BY <2>7 DEF JobReturns, TypeOK, Wrapped, DelayHeld, SkipHeld, Innermost,
         Unwinding, TokenAccount, RecoverContains, Inside, RecoversWithin
    <2>8. CASE JobPanics(r)
      <3>1. Unwinding'
        BY <2>8 DEF JobPanics, Unwinding, Wrapped, Innermost, TypeOK
      <3>2. TokenAccount'
        <4>1. UNCHANGED <<chain, depth, ch>> /\ panicked' = panicked \cup {r}
          BY <2>8 DEF JobPanics
        <4>2. TokenAccount
          OBVIOUS
        <4> QED
          BY ONLY <4>1, <4>2 DEF TokenAccount, Inside, RecoversWithin
      <3> QED
        BY <2>8, <3>1, <3>2 DEF JobPanics, TypeOK, Wrapped, DelayHeld, SkipHeld,
           Innermost, RecoverContains, RecoversWithin
    <2>9. CASE LeaveRecover(r)
      <3>1. TokenAccount'
        BY <2>9 DEF LeaveRecover, TokenAccount, Wrapped, SkipHeld, Unwinding,
           Inside, RecoversWithin, TypeOK
      <3> QED
        BY <2>9, <3>1 DEF LeaveRecover, TypeOK, Wrapped, DelayHeld, SkipHeld,
           Innermost, Unwinding, RecoverContains, RecoversWithin
    <2>10. CASE LeaveDelay(r)
      <3>1. DelayHeld'
        BY <2>10 DEF LeaveDelay, DelayHeld, Wrapped, TypeOK
      <3>2. TokenAccount'
        BY <2>10 DEF LeaveDelay, TokenAccount, Wrapped, SkipHeld, Unwinding, Inside,
           RecoversWithin, TypeOK
      <3> QED
        BY <2>10, <3>1, <3>2 DEF LeaveDelay, TypeOK, Wrapped, SkipHeld, Innermost,
           Unwinding, RecoverContains, RecoversWithin
    <2>11. CASE LeaveSkip(r)
      <3>1. SkipHeld'
        BY <2>11 DEF LeaveSkip, SkipHeld, Wrapped, TypeOK
      <3>2. TokenAccount'
        BY <2>11 DEF LeaveSkip, TokenAccount, Wrapped, SkipHeld, Unwinding, Inside,
           RecoversWithin, TypeOK
      <3> QED
        BY <2>11, <3>1, <3>2 DEF LeaveSkip, TypeOK, Wrapped, DelayHeld, Innermost,
           Unwinding, RecoverContains, RecoversWithin
    <2>12. CASE PanicPastSkip(r)
      <3>1. Unwinding'
        BY <2>12 DEF PanicPastSkip, Unwinding, Wrapped, Innermost, TypeOK
      <3>2. TokenAccount'
        BY <2>12 DEF PanicPastSkip, TokenAccount, Wrapped, SkipHeld, Unwinding,
           Inside, RecoversWithin, TypeOK
      <3> QED
        BY <2>12, <3>1, <3>2 DEF PanicPastSkip, TypeOK, Wrapped, DelayHeld,
           SkipHeld, Innermost, RecoverContains, RecoversWithin
    <2>13. CASE End(r)
      <3>1. TokenAccount'
        BY <2>13 DEF End, TokenAccount, Wrapped, SkipHeld, Unwinding, Inside,
           RecoversWithin, TypeOK
      <3> QED
        BY <2>13, <3>1 DEF End, TypeOK, Wrapped, DelayHeld, SkipHeld, Innermost,
           Unwinding, RecoverContains, RecoversWithin
    <2>14. CASE Crash(r)
      <3>1. RecoverContains'
        BY <2>14 DEF Crash, RecoverContains, Wrapped, Unwinding, RecoversWithin, TypeOK
      <3> QED
        BY <2>14, <3>1 DEF Crash, TypeOK, Wrapped, DelayHeld, SkipHeld, Innermost,
           Unwinding, TokenAccount, Inside, RecoversWithin
    <2> QED
      BY <1>2, <2>1, <2>2, <2>3, <2>4, <2>5, <2>6, <2>7, <2>8, <2>9, <2>10, <2>11,
         <2>12, <2>13, <2>14 DEF Invocation
  <1> QED
    BY <1>1, <1>2 DEF Next

\* The invariant that the four theorems below follow from.
THEOREM ChainInvariant == Spec => []IInv
  <1> QED
    BY InitIInv, NextIInv, PTL DEF Spec

\* The state of the wrappers keeps its types, for any chain and any number of
\* invocations.
THEOREM ChainTypeOK == Spec => []TypeOK
  <1>1. IInv => TypeOK
    BY DEF IInv
  <1> QED
    BY <1>1, ChainInvariant, PTL

\* chain.go:58-92: one invocation at a time inside a wrapper that delays or skips.
THEOREM OneAtATime == Spec => []NoOverlap
  <1>1. IInv => NoOverlap
    BY DEF IInv, TypeOK, Wrapped, DelayHeld, SkipHeld, NoOverlap, Exclusive, Inside, Size
  <1> QED
    BY <1>1, ChainInvariant, PTL

\* chain.go:80-87: a missing token is in an invocation's hand or was lost to a
\* panic that nothing within the wrapper recovered.
THEOREM TokenAccounted == Spec => []TokenAccount
  <1>1. IInv => TokenAccount
    BY DEF IInv
  <1> QED
    BY <1>1, ChainInvariant, PTL

\* chain.go:37-55: no panic of a job leaves a chain with a Recover in it.
THEOREM PanicsContained == Spec => []RecoverContains
  <1>1. IInv => RecoverContains
    BY DEF IInv
  <1> QED
    BY <1>1, ChainInvariant, PTL
=============================================================================
