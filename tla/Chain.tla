------------------------------- MODULE Chain --------------------------------
(***************************************************************************)
(* The job wrappers of chain.go.  A job that was added to a Cron is        *)
(* wrapped once, and each of its invocations is a goroutine that goes      *)
(* through the wrappers from the outside in, runs the job, and comes back  *)
(* out, on its return or on a panic.                                       *)
(***************************************************************************)
EXTENDS Integers, Sequences, FiniteSets

CONSTANTS
  Runs,     \* the invocations
  Chains,   \* what NewChain is given: sequences of kinds of wrappers
  None

Kinds == {"recover", "delay", "skip"}

ASSUME ChainAssumption == Chains \subseteq Seq(Kinds) /\ None \notin Runs

VARIABLES
  chain,    \* the wrappers, as they were given
  layers,   \* the wrappers around the job, from the outside in
  phase,    \* of a run: "idle", "enter", "run", "return", "panic" or "ended"
  depth,    \* how many layers a run is inside of
  mu,       \* of a delaying layer: the run that holds its mutex, or None
  ch,       \* of a skipping layer: whether its channel holds the token
  panicked, \* history: the runs whose job panicked
  crashed   \* a panic that nothing recovered ended the program

vars == <<chain, layers, phase, depth, mu, ch, panicked, crashed>>

\* Mutant of Applied: the wrappers are applied in the order they were given.
AppliedForward(c, i) == c[i + 1]

\* The wrapper that round i of the loop of Then applies, from round 0.
Applied(c, i) == c[Len(c) - i]

\* Mutant of Then: the loop stops before the first wrapper.
ThenShort(c) == [k \in 1..(Len(c) - 1) |-> Applied(c, Len(c) - k - 1)]

\* Then: what is applied last is the outermost layer.
Then(c) == [k \in 1..Len(c) |-> Applied(c, Len(c) - k)]

Init ==
  /\ chain \in Chains /\ layers = Then(chain)
  /\ phase = [r \in Runs |-> "idle"] /\ depth = [r \in Runs |-> 0]
  /\ mu = [k \in 1..Len(chain) |-> None] /\ ch = [k \in 1..Len(chain) |-> TRUE]
  /\ panicked = {} /\ crashed = FALSE

\* A run that is in a phase, at the layer it is about to enter or to leave.
Entering(r, kind) ==
  ~crashed /\ phase[r] = "enter" /\ depth[r] < Len(layers) /\ layers[depth[r] + 1] = kind
Leaving(r, from, kind) ==
  ~crashed /\ phase[r] = from /\ depth[r] > 0 /\ layers[depth[r]] = kind

Deeper(r)     == depth' = [depth EXCEPT ![r] = @ + 1]
Shallower(r)  == depth' = [depth EXCEPT ![r] = @ - 1]
Goto(r, next) == phase' = [phase EXCEPT ![r] = next]

\* Cron starts a goroutine that runs the wrapped job.
Start(r) ==
  /\ ~crashed /\ phase[r] = "idle" /\ Goto(r, "enter")
  /\ UNCHANGED <<chain, layers, depth, mu, ch, panicked, crashed>>

EnterRecover(r) ==
  /\ Entering(r, "recover") /\ Deeper(r)
  /\ UNCHANGED <<chain, layers, phase, mu, ch, panicked, crashed>>

\* DelayIfStillRunning: mu.Lock.
EnterDelay(r) ==
  /\ Entering(r, "delay") /\ Deeper(r)
  /\ mu[depth[r] + 1] = None /\ mu' = [mu EXCEPT ![depth[r] + 1] = r]
  /\ UNCHANGED <<chain, layers, phase, ch, panicked, crashed>>

\* Mutant of EnterSkip: the token is looked at and not taken.
EnterSkipPeeking(r) ==
  /\ Entering(r, "skip") /\ ch[depth[r] + 1] /\ Deeper(r)
  /\ UNCHANGED <<chain, layers, phase, mu, ch, panicked, crashed>>

\* SkipIfStillRunning: the token is taken, or the invocation is skipped.
EnterSkip(r) ==
  /\ Entering(r, "skip") /\ ch[depth[r] + 1]
  /\ ch' = [ch EXCEPT ![depth[r] + 1] = FALSE] /\ Deeper(r)
  /\ UNCHANGED <<chain, layers, phase, mu, panicked, crashed>>

Skip(r) ==
  /\ Entering(r, "skip") /\ ~ch[depth[r] + 1] /\ Goto(r, "return")
  /\ UNCHANGED <<chain, layers, depth, mu, ch, panicked, crashed>>

RunJob(r) ==
  /\ ~crashed /\ phase[r] = "enter" /\ depth[r] = Len(layers) /\ Goto(r, "run")
  /\ UNCHANGED <<chain, layers, depth, mu, ch, panicked, crashed>>

\* The job: it returns or it panics.
JobReturns(r) ==
  /\ ~crashed /\ phase[r] = "run" /\ Goto(r, "return")
  /\ UNCHANGED <<chain, layers, depth, mu, ch, panicked, crashed>>

JobPanics(r) ==
  /\ ~crashed /\ phase[r] = "run" /\ Goto(r, "panic") /\ panicked' = panicked \cup {r}
  /\ UNCHANGED <<chain, layers, depth, mu, ch, crashed>>

\* Mutant of LeaveRecover: a panic goes on after it was logged.
LeaveRecoverPanicking(r) ==
  /\ \E from \in {"return", "panic"} : Leaving(r, from, "recover")
  /\ Shallower(r)
  /\ UNCHANGED <<chain, layers, phase, mu, ch, panicked, crashed>>

\* The deferred recover: a panic ends here.
LeaveRecover(r) ==
  /\ \E from \in {"return", "panic"} : Leaving(r, from, "recover")
  /\ Shallower(r) /\ Goto(r, "return")
  /\ UNCHANGED <<chain, layers, mu, ch, panicked, crashed>>

\* Mutant of LeaveDelay: the unlock is not deferred.
LeaveDelayLocked(r) ==
  /\ \E from \in {"return", "panic"} :
       /\ Leaving(r, from, "delay")
       /\ mu' = IF from = "panic" THEN mu ELSE [mu EXCEPT ![depth[r]] = None]
  /\ Shallower(r)
  /\ UNCHANGED <<chain, layers, phase, ch, panicked, crashed>>

\* The deferred mu.Unlock: on a return and on a panic.
LeaveDelay(r) ==
  /\ \E from \in {"return", "panic"} : Leaving(r, from, "delay")
  /\ Shallower(r) /\ mu' = [mu EXCEPT ![depth[r]] = None]
  /\ UNCHANGED <<chain, layers, phase, ch, panicked, crashed>>

\* The token is sent back, to a channel that holds one; a panic passes by.
LeaveSkip(r) ==
  /\ Leaving(r, "return", "skip") /\ ~ch[depth[r]]
  /\ Shallower(r) /\ ch' = [ch EXCEPT ![depth[r]] = TRUE]
  /\ UNCHANGED <<chain, layers, phase, mu, panicked, crashed>>

PanicPastSkip(r) ==
  /\ Leaving(r, "panic", "skip") /\ Shallower(r)
  /\ UNCHANGED <<chain, layers, phase, mu, ch, panicked, crashed>>

End(r) ==
  /\ ~crashed /\ phase[r] = "return" /\ depth[r] = 0 /\ Goto(r, "ended")
  /\ UNCHANGED <<chain, layers, depth, mu, ch, panicked, crashed>>

\* A panic that leaves the goroutine ends the program.
Crash(r) ==
  /\ ~crashed /\ phase[r] = "panic" /\ depth[r] = 0 /\ crashed' = TRUE
  /\ UNCHANGED <<chain, layers, phase, depth, mu, ch, panicked>>

Invocation(r) ==
  \/ EnterRecover(r) \/ EnterDelay(r) \/ EnterSkip(r) \/ Skip(r) \/ RunJob(r)
  \/ JobReturns(r) \/ JobPanics(r)
  \/ LeaveRecover(r) \/ LeaveDelay(r) \/ LeaveSkip(r) \/ PanicPastSkip(r) \/ End(r) \/ Crash(r)

Next == \E r \in Runs : Start(r) \/ Invocation(r)

Spec     == Init /\ [][Next]_vars
FairSpec == Spec /\ \A r \in Runs : WF_vars(Invocation(r))

-----------------------------------------------------------------------------
\* The runs that are inside a layer.
Inside(k) == {r \in Runs : k <= depth[r]}

\* Some layer within a layer recovers, as chain.go:24-29 orders the wrappers.
RecoversWithin(k) == \E i \in 1..Len(chain) : i > k /\ chain[i] = "recover"

Exclusive == {k \in 1..Len(chain) : chain[k] \in {"delay", "skip"}}

TypeOK ==
  /\ chain \in Seq(Kinds) /\ layers \in Seq(Kinds) /\ Len(layers) = Len(chain)
  /\ phase \in [Runs -> {"idle", "enter", "run", "return", "panic", "ended"}]
  /\ depth \in [Runs -> 0..Len(chain)]
  /\ mu \in [1..Len(chain) -> Runs \cup {None}]
  /\ ch \in [1..Len(chain) -> BOOLEAN]
  /\ panicked \subseteq Runs /\ crashed \in BOOLEAN

\* chain.go:58-92: no two invocations are inside a wrapper that delays or skips,
\* whatever other wrappers and panics there are.
NoOverlap ==
  \A k \in Exclusive : \A r, s \in Inside(k) : r = s

\* chain.go:80-87: the token of a wrapper that skips is missing only while an
\* invocation is inside, or since a job panicked where nothing within the
\* wrapper recovers; then every later invocation is skipped.
TokenAccount ==
  \A k \in 1..Len(chain) :
    chain[k] = "skip" /\ ~ch[k] => \/ Inside(k) # {}
                                   \/ panicked # {} /\ ~RecoversWithin(k)

\* chain.go:37-55: a chain with a Recover keeps the program running.
RecoverContains == crashed => ~RecoversWithin(0)

\* chain.go:58-73: an invocation that nothing on its way skips runs the job, if
\* jobs end and the program does not.
DelayedRuns ==
  \A r \in Runs :
    (phase[r] = "enter" /\ \A k \in 1..Len(chain) : chain[k] # "skip")
      ~> (phase[r] = "run" \/ crashed)
=============================================================================
