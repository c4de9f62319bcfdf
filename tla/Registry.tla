------------------------------ MODULE Registry ------------------------------
(***************************************************************************)
(* The package variables of hystrix: the circuits by name (GetCircuit,     *)
(* Flush in circuit.go), their settings (settings.go), and the goroutine   *)
(* of the event stream, which walks the circuits under the read lock and   *)
(* offers its events to HTTP clients (eventstream.go).                     *)
(*                                                                         *)
(* A step is a critical section.  The sections of settingsMutex and of     *)
(* StreamHandler.mu do not nest.  circuitBreakersMutex is held over        *)
(* several steps by a GetCircuit that makes a circuit and by the stream.   *)
(*                                                                         *)
(* The five settings are filled in alike; MaxConcurrentRequests, the size  *)
(* of the pool of a new circuit, stands for them.                          *)
(***************************************************************************)
EXTENDS Integers, Sequences

CONSTANTS
  Names,       \* commands
  Goroutines,  \* callers of GetCircuit and Flush
  Clients,     \* requests to the event stream
  Configs,     \* the sizes given to ConfigureCommand; 0: not given
  Default,     \* DefaultMaxConcurrent
  EventsCap,   \* streamEventBufferSize, 10 in the code
  MaxFlushes   \* bound of a run

ASSUME RegistryAssumption ==
  /\ Configs \subseteq Nat /\ Default \in Nat \ {0} /\ EventsCap \in Nat
  /\ MaxFlushes \in Nat

VARIABLES
  settings,    \* circuitSettings: a size, or 0 if there is no entry
  circuits,    \* circuitBreakers: the number of a circuit, or 0
  pools,       \* pool size of every circuit ever made, by its number
  call,        \* place of each goroutine, and the name it asks for
  got,         \* what its last GetCircuit returned, and after how many flushes
  flushes,     \* calls of Flush so far
  configured,  \* the last size given to ConfigureCommand, or -1
  kept,        \* no getSettings was about to write the defaults then
  stream,      \* goroutine of StreamHandler.loop: "wait", "publish" or "off"
  todo,        \* names it has yet to publish
  stopped,     \* StreamHandler.done is closed
  events       \* events in the channel of each client, -1: not registered

confVars   == <<settings, configured, kept>>
streamVars == <<stream, todo, stopped, events>>
vars       == <<confVars, circuits, pools, call, got, flushes, streamVars>>

Idle  == [pc |-> "idle"]
Size(c) == IF c = 0 THEN Default ELSE c

\* Goroutines that hold circuitBreakersMutex for writing.
Writers == {p \in Goroutines : call[p].pc \in {"create", "default"}}

CanRLock == Writers = {}
CanLock  == Writers = {} /\ stream # "publish"

Goto(p, to) == call' = [call EXCEPT ![p].pc = to]

-----------------------------------------------------------------------------
Init ==
  /\ settings = [n \in Names |-> 0] /\ configured = [n \in Names |-> -1]
  /\ kept = [n \in Names |-> TRUE]
  /\ circuits = [n \in Names |-> 0] /\ pools = <<>>
  /\ call = [p \in Goroutines |-> Idle]
  /\ got = [p \in Goroutines |-> <<>>]
  /\ flushes = 0
  /\ stream = "wait" /\ todo = {} /\ stopped = FALSE
  /\ events = [r \in Clients |-> -1]

-----------------------------------------------------------------------------
(* Settings *)

\* ConfigureCommand by the user, Configure once for each of its commands.
ConfigureCommand(n, c) ==
  /\ settings' = [settings EXCEPT ![n] = Size(c)]
  /\ configured' = [configured EXCEPT ![n] = c]
  /\ kept' = [kept EXCEPT ![n] = \A p \in Goroutines : call[p] # [pc |-> "default", name |-> n]]
  /\ UNCHANGED <<circuits, pools, call, got, flushes, streamVars>>

\* getSettings found no entry: ConfigureCommand(name, CommandConfig{}).
WriteDefaults(p) ==
  /\ call[p].pc = "default"
  /\ settings' = [settings EXCEPT ![call[p].name] = Size(0)]
  /\ Goto(p, "create")
  /\ UNCHANGED <<circuits, pools, got, flushes, configured, kept, streamVars>>

-----------------------------------------------------------------------------
(* Circuits *)

GetCircuit(p, n) ==
  /\ call[p] = Idle
  /\ call' = [call EXCEPT ![p] = [pc |-> "look", name |-> n]]
  /\ UNCHANGED <<confVars, circuits, pools, got, flushes, streamVars>>

Return(p, circuit, created) ==
  /\ call' = [call EXCEPT ![p] = Idle]
  /\ got' = [got EXCEPT ![p] = [name |-> call[p].name, circuit |-> circuit,
                                created |-> created, after |-> flushes]]

\* The look under the read lock.
Look(p) ==
  /\ call[p].pc = "look" /\ CanRLock
  /\ LET found == circuits[call[p].name] IN
       IF found # 0 THEN Return(p, found, FALSE)
                    ELSE Goto(p, "lock") /\ UNCHANGED got
  /\ UNCHANGED <<confVars, circuits, pools, flushes, streamVars>>

\* Mutant of LookAgain: the circuit is not looked up again.
LookOnce(p) ==
  /\ call[p].pc = "lock" /\ CanLock
  /\ Goto(p, "create")
  /\ UNCHANGED <<confVars, circuits, pools, got, flushes, streamVars>>

\* The second look, under the write lock.
LookAgain(p) ==
  /\ call[p].pc = "lock" /\ CanLock
  /\ LET found == circuits[call[p].name] IN
       IF found # 0 THEN Return(p, found, FALSE)
                    ELSE Goto(p, "create") /\ UNCHANGED got
  /\ UNCHANGED <<confVars, circuits, pools, flushes, streamVars>>

\* Mutant of Create: getSettings writes the defaults and returns them.
CreateByDefault(p) ==
  LET n == call[p].name IN
  /\ call[p].pc = "create"
  /\ settings' = [settings EXCEPT ![n] = IF @ = 0 THEN Default ELSE @]
  /\ pools' = Append(pools, Default)
  /\ circuits' = [circuits EXCEPT ![n] = Len(pools) + 1]
  /\ Return(p, Len(pools) + 1, TRUE)
  /\ UNCHANGED <<flushes, configured, kept, streamVars>>

\* newCircuitBreaker: getSettings for the pool, still under the write lock.
Create(p) ==
  LET n == call[p].name IN
  /\ call[p].pc = "create"
  /\ IF settings[n] = 0
     THEN Goto(p, "default") /\ UNCHANGED <<circuits, pools, got>>
     ELSE /\ pools' = Append(pools, settings[n])
          /\ circuits' = [circuits EXCEPT ![n] = Len(pools) + 1]
          /\ Return(p, Len(pools) + 1, TRUE)
  /\ UNCHANGED <<confVars, flushes, streamVars>>

Flush(p) ==
  /\ call[p] = Idle /\ flushes < MaxFlushes
  /\ call' = [call EXCEPT ![p] = [pc |-> "flush"]]
  /\ UNCHANGED <<confVars, circuits, pools, got, flushes, streamVars>>

\* The loop of Flush, under the write lock.
FlushAll(p) ==
  /\ call[p].pc = "flush" /\ CanLock
  /\ circuits' = [n \in Names |-> 0]
  /\ flushes' = flushes + 1
  /\ call' = [call EXCEPT ![p] = Idle]
  /\ UNCHANGED <<confVars, pools, got, streamVars>>

-----------------------------------------------------------------------------
(* The event stream *)

StreamTick ==
  /\ stream = "wait" /\ CanRLock
  /\ stream' = "publish"
  /\ todo' = {n \in Names : circuits[n] # 0}
  /\ UNCHANGED <<confVars, circuits, pools, call, got, flushes, stopped, events>>

\* Mutant of StreamPublish: the send waits for room in every channel.
StreamBlocks(n) ==
  /\ n \in todo
  /\ \A r \in Clients : events[r] < EventsCap
  /\ todo' = todo \ {n}
  /\ events' = [r \in Clients |-> IF events[r] = -1 THEN -1 ELSE events[r] + 1]
  /\ UNCHANGED <<confVars, circuits, pools, call, got, flushes, stream, stopped>>

\* Mutant of StreamPublish: events are kept in a list without a bound.
StreamPiles(n) ==
  /\ n \in todo
  /\ todo' = todo \ {n}
  /\ events' = [r \in Clients |-> IF events[r] = -1 THEN -1 ELSE events[r] + 2]
  /\ UNCHANGED <<confVars, circuits, pools, call, got, flushes, stream, stopped>>

\* publishMetrics and publishThreadPools; what finds a channel full is dropped.
StreamPublish(n) ==
  /\ n \in todo
  /\ todo' = todo \ {n}
  /\ events' = [r \in Clients |->
                  IF events[r] = -1 THEN -1
                  ELSE IF events[r] + 2 > EventsCap THEN EventsCap ELSE events[r] + 2]
  /\ UNCHANGED <<confVars, circuits, pools, call, got, flushes, stream, stopped>>

StreamUnlock ==
  /\ stream = "publish" /\ todo = {}
  /\ stream' = "wait"
  /\ UNCHANGED <<confVars, circuits, pools, call, got, flushes, todo, stopped, events>>

StreamReturns ==
  /\ stream = "wait" /\ stopped
  /\ stream' = "off"
  /\ UNCHANGED <<confVars, circuits, pools, call, got, flushes, todo, stopped, events>>

\* StreamHandler.Stop, once.
StreamStop ==
  /\ ~stopped /\ stopped' = TRUE
  /\ UNCHANGED <<confVars, circuits, pools, call, got, flushes, stream, todo, events>>

SetEvents(r, k) ==
  /\ events' = [events EXCEPT ![r] = k]
  /\ UNCHANGED <<confVars, circuits, pools, call, got, flushes, stream, todo, stopped>>

\* ServeHTTP registers the client, writes its events, and leaves with it.
Register(r)   == events[r] = -1 /\ SetEvents(r, 0)
WriteEvent(r) == events[r] > 0 /\ SetEvents(r, events[r] - 1)
Unregister(r) == events[r] >= 0 /\ SetEvents(r, -1)

-----------------------------------------------------------------------------
Goroutine(p) == Look(p) \/ LookAgain(p) \/ Create(p) \/ WriteDefaults(p) \/ FlushAll(p)

Stream == StreamTick \/ (\E n \in Names : StreamPublish(n)) \/ StreamUnlock \/ StreamReturns

Next ==
  \/ \E p \in Goroutines : Goroutine(p) \/ Flush(p) \/ \E n \in Names : GetCircuit(p, n)
  \/ \E n \in Names, c \in Configs : ConfigureCommand(n, c)
  \/ Stream \/ StreamStop
  \/ \E r \in Clients : Register(r) \/ WriteEvent(r) \/ Unregister(r)

Spec == Init /\ [][Next]_vars

\* Goroutines run.  A writer that waits for an RWMutex keeps new readers out,
\* so it is not passed over for ever.  Nothing is assumed of the clients.
Fairness ==
  /\ \A p \in Goroutines : SF_vars(Goroutine(p))
  /\ WF_vars(Stream)

FairSpec == Spec /\ Fairness

-----------------------------------------------------------------------------
(* Properties *)

Places == [pc : {"idle", "flush"}] \cup [pc : {"look", "lock", "create", "default"}, name : Names]

Results == [name : Names, circuit : Nat \ {0}, created : BOOLEAN, after : Nat]

\* Every variable keeps its type; a channel holds at most its capacity.
TypeOK ==
  /\ settings \in [Names -> Nat] /\ configured \in [Names -> Configs \cup {-1}]
  /\ kept \in [Names -> BOOLEAN]
  /\ pools \in Seq(Nat) /\ circuits \in [Names -> 0..Len(pools)]
  /\ call \in [Goroutines -> Places]
  /\ got \in [Goroutines -> Results \cup {<<>>}]
  /\ flushes \in Nat
  /\ stream \in {"wait", "publish", "off"} /\ todo \subseteq Names /\ stopped \in BOOLEAN
  /\ events \in [Clients -> -1..EventsCap]

\* circuit.go:33: all calls of GetCircuit for a name between two calls of
\* Flush return the one circuit that is registered, and the call that is told
\* that it created the circuit is the only one.
OneCircuit ==
  \A p, q \in Goroutines :
    got[p] # <<>> =>
      /\ got[p].after = flushes => circuits[got[p].name] = got[p].circuit
      /\ got[q] # <<>> /\ got[p].created /\ got[q].created /\ p # q
           => got[p].circuit # got[q].circuit

\* A new pool has the size that was configured, and the default only when
\* nothing was or when the defaults overran it (pool.go:14, settings.go:101).
PoolAsConfigured ==
  [][\A n \in Names :
       (circuits'[n] # circuits[n] /\ circuits'[n] # 0) =>
         pools'[circuits'[n]] \in
           {IF configured[n] = -1 THEN Default ELSE Size(configured[n])}
             \cup (IF kept[n] THEN {} ELSE {Default})]_vars

\* GetCircuit and Flush return, whoever else wants the mutex and however slow
\* the clients of the stream are, to which it sends under the read lock.
CallsReturn == \A p \in Goroutines : call[p] # Idle ~> call[p] = Idle
=============================================================================
