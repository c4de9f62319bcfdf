--------------------------- MODULE RegistryProofs ---------------------------
(***************************************************************************)
(* What the registry promises, for any names, goroutines, clients, sizes   *)
(* and number of flushes.                                                  *)
(*                                                                         *)
(* GetCircuit gives the read lock back before it takes the write lock.     *)
(* That it makes no second circuit rests on the look it repeats under the  *)
(* write lock, which nobody else holds until the circuit is registered;    *)
(* that getSettings overruns no known configuration rests on settings      *)
(* never being removed.                                                    *)
(***************************************************************************)
EXTENDS Registry, TLAPS

\* One goroutine at a time writes, and the stream does not read meanwhile; a
\* circuit is made only while none is registered under its name.
LockInv ==
  /\ \A p, q \in Goroutines : p \in Writers /\ q \in Writers => p = q
  /\ stream = "publish" => Writers = {}
  /\ \A p \in Writers : circuits[call[p].name] = 0

\* Results are of circuits that exist and of flushes that are over.
ResultsPast ==
  \A p \in Goroutines : got[p] # <<>> =>
    got[p].circuit <= Len(pools) /\ got[p].after <= flushes

\* What was configured is in force, or the defaults are.
SettingsInv ==
  \A n \in Names :
    /\ configured[n] = -1 => settings[n] \in {0, Default}
    /\ configured[n] # -1 => settings[n] \in {Size(configured[n]), Default}
    /\ configured[n] # -1 /\ kept[n] =>
         /\ settings[n] = Size(configured[n])
         /\ \A p \in Goroutines : call[p] # [pc |-> "default", name |-> n]

IInv == TypeOK /\ LockInv /\ ResultsPast /\ OneCircuit /\ SettingsInv

\* A size that is not given is replaced by the default, so none is 0.
LEMMA SizePositive == \A c \in Configs : Size(c) \in Nat \ {0}
  BY RegistryAssumption DEF Size

\* The invariant holds before the first call.
LEMMA InitIInv == Init => IInv
  <1> SUFFICES ASSUME Init PROVE IInv
    OBVIOUS
  <1>1. TypeOK
    <2>1. Idle \in Places /\ pools \in Seq(Nat) /\ Len(pools) = 0
      BY DEF Init, Idle, Places
    <2>2. \A r \in Clients : events[r] \in -1..EventsCap
      BY RegistryAssumption DEF Init
    <2>3. events \in [Clients -> -1..EventsCap]
      BY <2>2 DEF Init
    <2>4. circuits \in [Names -> 0..Len(pools)]
      BY <2>1 DEF Init
    <2>5. call \in [Goroutines -> Places] /\ got \in [Goroutines -> Results \cup {<<>>}]
      BY <2>1 DEF Init
    <2>6. /\ settings \in [Names -> Nat] /\ configured \in [Names -> Configs \cup {-1}]
          /\ kept \in [Names -> BOOLEAN] /\ flushes \in Nat
          /\ stream \in {"wait", "publish", "off"} /\ todo \subseteq Names /\ stopped \in BOOLEAN
      BY DEF Init
    <2> QED
      BY <2>1, <2>3, <2>4, <2>5, <2>6 DEF TypeOK
  <1>2. LockInv
    BY DEF Init, LockInv, Writers, Idle
  <1>3. ResultsPast /\ OneCircuit /\ SettingsInv
    BY DEF Init, ResultsPast, OneCircuit, SettingsInv
  <1> QED
    BY <1>1, <1>2, <1>3 DEF IInv

\* A goroutine that is in GetCircuit asks for a name, and keeps asking for it
\* when it moves on.
Asking == [pc : {"look", "lock", "create", "default"}, name : Names]

LEMMA CallTyped ==
  ASSUME TypeOK, NEW p \in Goroutines, call[p].pc \in {"look", "lock", "create", "default"}
  PROVE  call[p] \in Asking /\ call[p].name \in Names
  <1>1. call[p] \in Places
    BY DEF TypeOK
  <1>2. CASE call[p] \in [pc : {"idle", "flush"}]
    BY <1>2
  <1>3. CASE call[p] \in Asking
    BY <1>3 DEF Asking
  <1> QED
    BY <1>1, <1>2, <1>3 DEF Places, Asking

LEMMA GotoTyped ==
  ASSUME TypeOK, NEW p \in Goroutines, call[p].pc \in {"look", "lock", "create", "default"},
         NEW to \in {"lock", "create", "default"}, Goto(p, to)
  PROVE  /\ call' \in [Goroutines -> Places]
         /\ call'[p] = [pc |-> to, name |-> call[p].name]
         /\ \A q \in Goroutines : q # p => call'[q] = call[q]
  <1>1. call[p] \in Asking
    BY CallTyped
  <1>2. [call[p] EXCEPT !.pc = to] = [pc |-> to, name |-> call[p].name]
    BY <1>1 DEF Asking
  <1>3. call' = [call EXCEPT ![p] = [pc |-> to, name |-> call[p].name]]
    BY <1>2 DEF Goto, TypeOK
  <1>4. [pc |-> to, name |-> call[p].name] \in Places
    BY <1>1 DEF Asking, Places
  <1> QED
    BY <1>3, <1>4 DEF TypeOK

LEMMA ReturnTyped ==
  ASSUME TypeOK, NEW p \in Goroutines, call[p].pc \in {"look", "lock", "create", "default"},
         NEW c \in Nat \ {0}, NEW made \in BOOLEAN, Return(p, c, made)
  PROVE  /\ call' \in [Goroutines -> Places] /\ got' \in [Goroutines -> Results \cup {<<>>}]
         /\ call'[p] = Idle /\ \A q \in Goroutines : q # p => call'[q] = call[q]
         /\ got'[p] = [name |-> call[p].name, circuit |-> c, created |-> made, after |-> flushes]
         /\ \A q \in Goroutines : q # p => got'[q] = got[q]
  <1>1. call[p].name \in Names
    BY CallTyped
  <1>2. [name |-> call[p].name, circuit |-> c, created |-> made, after |-> flushes] \in Results
    BY <1>1 DEF TypeOK, Results
  <1>3. Idle \in Places
    BY DEF Idle, Places
  <1> QED
    BY <1>2, <1>3 DEF Return, TypeOK

\* Every step keeps the types.
LEMMA TypeStep == TypeOK /\ [Next]_vars => TypeOK'
  <1> SUFFICES ASSUME TypeOK, [Next]_vars PROVE TypeOK'
    OBVIOUS
  <1> USE RegistryAssumption DEF TypeOK
  <1>1. ASSUME NEW p \in Goroutines, Look(p) \/ LookAgain(p) PROVE TypeOK'
    <2>1. call[p].pc \in {"look", "lock", "create", "default"} /\ call[p].name \in Names
      BY <1>1, CallTyped DEF Look, LookAgain
    <2>2. CASE circuits[call[p].name] = 0
      <3>1. Goto(p, "lock") \/ Goto(p, "create")
        BY <1>1, <2>2 DEF Look, LookAgain
      <3>2. call' \in [Goroutines -> Places]
        BY <2>1, <3>1, GotoTyped
      <3> QED
        BY <1>1, <2>2, <3>2 DEF Look, LookAgain, confVars, streamVars
    <2>3. CASE circuits[call[p].name] # 0
      <3>1. Return(p, circuits[call[p].name], FALSE)
        BY <1>1, <2>3 DEF Look, LookAgain
      <3>3. circuits[call[p].name] \in Nat \ {0}
        <4>1. circuits[call[p].name] \in 0..Len(pools) /\ Len(pools) \in Nat
          BY <2>1
        <4> QED
          BY <4>1, <2>3
      <3>2. call' \in [Goroutines -> Places] /\ got' \in [Goroutines -> Results \cup {<<>>}]
        BY <2>1, <3>1, <3>3, ReturnTyped
      <3> QED
        BY <1>1, <3>2 DEF Look, LookAgain, confVars, streamVars
    <2> QED
      BY <2>2, <2>3
  <1>3. ASSUME NEW p \in Goroutines, Create(p) PROVE TypeOK'
    <2>1. call[p].pc \in {"look", "lock", "create", "default"} /\ call[p].name \in Names
      BY <1>3, CallTyped DEF Create
    <2>2. CASE settings[call[p].name] = 0
      <3>1. Goto(p, "default")
        BY <1>3, <2>2 DEF Create
      <3>2. call' \in [Goroutines -> Places]
        BY <2>1, <3>1, GotoTyped
      <3> QED
        BY <1>3, <2>2, <3>2 DEF Create, confVars, streamVars
    <2>3. CASE settings[call[p].name] # 0
      <3>1. Return(p, Len(pools) + 1, TRUE)
        BY <1>3, <2>3 DEF Create
      <3>5. Len(pools) \in Nat /\ Len(pools) + 1 \in Nat \ {0}
        OBVIOUS
      <3>2. call' \in [Goroutines -> Places] /\ got' \in [Goroutines -> Results \cup {<<>>}]
        BY <2>1, <3>1, <3>5, ReturnTyped
      <3>3. pools' \in Seq(Nat) /\ Len(pools') = Len(pools) + 1
        <4>1. pools' = Append(pools, settings[call[p].name]) /\ settings[call[p].name] \in Nat
          BY <1>3, <2>1, <2>3 DEF Create
        <4> QED
          BY <4>1
      <3>4. circuits' \in [Names -> 0..Len(pools')]
        BY <1>3, <2>1, <2>3, <3>3, <3>5 DEF Create
      <3> QED
        BY <1>3, <3>2, <3>3, <3>4 DEF Create, confVars, streamVars
    <2> QED
      BY <2>2, <2>3
  <1>4. ASSUME NEW p \in Goroutines, WriteDefaults(p) PROVE TypeOK'
    BY <1>4 DEF WriteDefaults, Size, Goto, Places, streamVars
  <1>5. ASSUME NEW p \in Goroutines, FlushAll(p) PROVE TypeOK'
    BY <1>5 DEF FlushAll, Places, Idle, confVars, streamVars
  <1>6. ASSUME NEW p \in Goroutines, Flush(p) PROVE TypeOK'
    BY <1>6 DEF Flush, Places, confVars, streamVars
  <1>7. ASSUME NEW p \in Goroutines, NEW n \in Names, GetCircuit(p, n) PROVE TypeOK'
    BY <1>7 DEF GetCircuit, Places, confVars, streamVars
  <1>8. ASSUME NEW n \in Names, NEW c \in Configs, ConfigureCommand(n, c) PROVE TypeOK'
    BY <1>8 DEF ConfigureCommand, Size, streamVars
  <1>9. CASE Stream
    <2>1. CASE StreamTick \/ StreamUnlock \/ StreamReturns
      BY <2>1 DEF StreamTick, StreamUnlock, StreamReturns, confVars
    <2>2. ASSUME NEW n \in Names, StreamPublish(n) PROVE TypeOK'
      <3>1. events' \in [Clients -> -1..EventsCap]
        BY <2>2 DEF StreamPublish
      <3> QED
        BY <2>2, <3>1 DEF StreamPublish, confVars
    <2> QED
      BY <1>9, <2>1, <2>2 DEF Stream
  <1>10. CASE StreamStop
    BY <1>10 DEF StreamStop, confVars
  <1>11. ASSUME NEW r \in Clients, Register(r) \/ WriteEvent(r) \/ Unregister(r) PROVE TypeOK'
    <2>1. events[r] \in -1..EventsCap
      OBVIOUS
    <2>2. PICK k \in -1..EventsCap : SetEvents(r, k)
      BY <1>11, <2>1 DEF Register, WriteEvent, Unregister
    <2>3. events' \in [Clients -> -1..EventsCap]
      BY <2>2 DEF SetEvents
    <2> QED
      BY <2>2, <2>3 DEF SetEvents, confVars
  <1>12. CASE UNCHANGED vars
    BY <1>12 DEF vars, confVars, streamVars
  <1> QED
    BY <1>1, <1>3, <1>4, <1>5, <1>6, <1>7, <1>8, <1>9, <1>10, <1>11, <1>12
    DEF Next, Goroutine

\* Steps that neither take nor hold the write lock leave everything of IInv
\* alone but the types and who holds the read lock.
Bystander ==
  /\ UNCHANGED <<confVars, circuits, pools, got, flushes>>
  /\ \A p \in Goroutines :
       call'[p] = call[p] \/ (call[p] = Idle /\ call'[p].pc \in {"look", "flush"})

LEMMA Bystanders ==
  ASSUME TypeOK,
         \/ Stream \/ StreamStop \/ UNCHANGED vars
         \/ \E r \in Clients : Register(r) \/ WriteEvent(r) \/ Unregister(r)
         \/ \E p \in Goroutines : Flush(p) \/ \E n \in Names : GetCircuit(p, n)
  PROVE  Bystander
  <1>1. CASE \E p \in Goroutines : Flush(p) \/ \E n \in Names : GetCircuit(p, n)
    BY <1>1 DEF Flush, GetCircuit, Bystander, TypeOK
  <1>2. CASE Stream
    BY <1>2 DEF Stream, StreamTick, StreamPublish, StreamUnlock, StreamReturns, Bystander
  <1>3. CASE StreamStop \/ UNCHANGED vars
    BY <1>3 DEF StreamStop, vars, Bystander
  <1>4. CASE \E r \in Clients : Register(r) \/ WriteEvent(r) \/ Unregister(r)
    BY <1>4 DEF Register, WriteEvent, Unregister, SetEvents, Bystander
  <1> QED
    BY <1>1, <1>2, <1>3, <1>4

\* Who holds the write lock after a step of p depends on the place of p alone.
LEMMA WritersAfterGoto ==
  ASSUME TypeOK, NEW p \in Goroutines, call[p].pc \in {"look", "lock", "create", "default"},
         NEW to \in {"lock", "create", "default"}, Goto(p, to)
  PROVE  /\ call'[p].name = call[p].name
         /\ \A q \in Goroutines : q \in Writers' <=> IF q = p THEN to # "lock" ELSE q \in Writers
  <1>1. /\ call'[p] = [pc |-> to, name |-> call[p].name]
        /\ \A q \in Goroutines : q # p => call'[q] = call[q]
    BY GotoTyped
  <1>2. call'[p].pc = to /\ call'[p].name = call[p].name
    BY <1>1
  <1> QED
    BY <1>1, <1>2 DEF Writers

LEMMA WritersAfterReturn ==
  ASSUME TypeOK, NEW p \in Goroutines, call' = [call EXCEPT ![p] = Idle]
  PROVE  \A q \in Goroutines : q \in Writers' <=> q # p /\ q \in Writers
  BY DEF Writers, Idle, TypeOK

\* The write lock is held by one goroutine, and only while the name it makes a
\* circuit for has none.
LEMMA LockStep == TypeOK /\ TypeOK' /\ LockInv /\ [Next]_vars => LockInv'
  <1> SUFFICES ASSUME TypeOK, TypeOK', LockInv, [Next]_vars PROVE LockInv'
    OBVIOUS
  <1>1. ASSUME Bystander, stream' = "publish" => (stream = "publish" \/ CanRLock) PROVE LockInv'
    <2>1. Writers' = Writers /\ \A p \in Writers : call'[p] = call[p]
      BY <1>1 DEF Bystander, Writers, Idle
    <2> QED
      BY <1>1, <2>1 DEF Bystander, LockInv, CanRLock
  <1>2. ASSUME NEW p \in Goroutines, Look(p) PROVE LockInv'
    <2>1. call[p].pc \in {"look", "lock", "create", "default"} /\ Writers = {}
      BY <1>2 DEF Look, CanRLock
    <2>2. CASE Goto(p, "lock")
      <3>1. \A q \in Goroutines : q \notin Writers'
        BY <2>1, <2>2, WritersAfterGoto
      <3> QED
        BY <3>1 DEF LockInv, Writers
    <2>3. CASE Return(p, circuits[call[p].name], FALSE)
      <3>1. \A q \in Goroutines : q \notin Writers'
        BY <2>1, <2>3, WritersAfterReturn DEF Return
      <3> QED
        BY <3>1 DEF LockInv, Writers
    <2> QED
      BY <1>2, <2>2, <2>3 DEF Look
  <1>3. ASSUME NEW p \in Goroutines, LookAgain(p) PROVE LockInv'
    <2>1. call[p].pc \in {"look", "lock", "create", "default"} /\ Writers = {} /\ stream # "publish"
      BY <1>3 DEF LookAgain, CanLock
    <2>2. CASE circuits[call[p].name] = 0
      <3>1. Goto(p, "create") /\ circuits' = circuits /\ stream' = stream
        BY <1>3, <2>2 DEF LookAgain, streamVars
      <3>2. call'[p].name = call[p].name /\ \A q \in Goroutines : q \in Writers' => q = p
        BY <2>1, <3>1, WritersAfterGoto
      <3>3. Writers' \subseteq Goroutines
        BY DEF Writers
      <3> QED
        BY <2>1, <2>2, <3>1, <3>2, <3>3 DEF LockInv
    <2>3. CASE circuits[call[p].name] # 0
      <3>1. \A q \in Goroutines : q \notin Writers'
        BY <1>3, <2>1, <2>3, WritersAfterReturn DEF LookAgain, Return
      <3> QED
        BY <3>1 DEF LockInv, Writers
    <2> QED
      BY <2>2, <2>3
  <1>4. ASSUME NEW p \in Goroutines, Create(p) \/ WriteDefaults(p) PROVE LockInv'
    <2>1. call[p].pc \in {"look", "lock", "create", "default"} /\ p \in Writers
      BY <1>4 DEF Create, WriteDefaults, Writers
    <2>2. /\ \A q \in Goroutines : q \in Writers => q = p
          /\ stream # "publish" /\ circuits[call[p].name] = 0 /\ stream' = stream
      BY <1>4, <2>1 DEF LockInv, Create, WriteDefaults, streamVars
    <2>3. CASE (Goto(p, "default") \/ Goto(p, "create")) /\ circuits' = circuits
      <3>1. call'[p].name = call[p].name /\ \A q \in Goroutines : q \in Writers' => q = p
        BY <2>1, <2>2, <2>3, WritersAfterGoto
      <3>2. Writers' \subseteq Goroutines
        BY DEF Writers
      <3> QED
        BY <2>2, <2>3, <3>1, <3>2 DEF LockInv
    <2>4. CASE Return(p, Len(pools) + 1, TRUE)
      <3>1. \A q \in Goroutines : q \notin Writers'
        BY <2>2, <2>4, WritersAfterReturn DEF Return
      <3> QED
        BY <3>1 DEF LockInv, Writers
    <2> QED
      BY <1>4, <2>3, <2>4 DEF Create, WriteDefaults
  <1>5. ASSUME NEW p \in Goroutines, FlushAll(p) PROVE LockInv'
    <2>1. \A q \in Goroutines : q \notin Writers'
      BY <1>5, WritersAfterReturn DEF FlushAll, CanLock
    <2> QED
      BY <2>1 DEF LockInv, Writers
  <1>6. ASSUME NEW n \in Names, NEW c \in Configs, ConfigureCommand(n, c) PROVE LockInv'
    <2>1. Writers' = Writers
      BY <1>6 DEF ConfigureCommand, Writers
    <2> QED
      BY <1>6, <2>1 DEF ConfigureCommand, LockInv, streamVars
  <1>7. CASE Stream
    <2>1. stream' = "publish" => (stream = "publish" \/ CanRLock)
      BY <1>7 DEF Stream, StreamTick, StreamPublish, StreamUnlock, StreamReturns
    <2> QED
      BY <1>1, <1>7, <2>1, Bystanders
  <1>8. CASE StreamStop \/ UNCHANGED vars
    BY <1>1, <1>8, Bystanders DEF StreamStop, vars, streamVars
  <1>9. CASE \E r \in Clients : Register(r) \/ WriteEvent(r) \/ Unregister(r)
    BY <1>1, <1>9, Bystanders DEF Register, WriteEvent, Unregister, SetEvents
  <1>10. CASE \E p \in Goroutines : Flush(p) \/ \E n \in Names : GetCircuit(p, n)
    BY <1>1, <1>10, Bystanders DEF Flush, GetCircuit, streamVars
  <1> QED
    BY <1>2, <1>3, <1>4, <1>5, <1>6, <1>7, <1>8, <1>9, <1>10 DEF Next, Goroutine

\* What calls of GetCircuit have returned agrees with what is registered.
LEMMA ResultsStep ==
  TypeOK /\ TypeOK' /\ LockInv /\ ResultsPast /\ OneCircuit /\ [Next]_vars
    => ResultsPast' /\ OneCircuit'
  <1> SUFFICES ASSUME TypeOK, TypeOK', LockInv, ResultsPast, OneCircuit, [Next]_vars
               PROVE  ResultsPast' /\ OneCircuit'
    OBVIOUS
  <1>1. CASE UNCHANGED <<circuits, pools, got, flushes>>
    BY <1>1 DEF ResultsPast, OneCircuit
  <1>2. ASSUME NEW p \in Goroutines, NEW c \in Nat \ {0}, NEW made \in BOOLEAN,
               call[p].pc \in {"look", "lock", "create", "default"}, Return(p, c, made),
               flushes' = flushes,
               \/ ~made /\ c = circuits[call[p].name] /\ UNCHANGED <<circuits, pools>>
               \/ /\ c = Len(pools) + 1 /\ circuits[call[p].name] = 0
                  /\ circuits' = [circuits EXCEPT ![call[p].name] = c] /\ Len(pools') = c
        PROVE  ResultsPast' /\ OneCircuit'
    <2>1. /\ got'[p] = [name |-> call[p].name, circuit |-> c, created |-> made, after |-> flushes]
          /\ \A q \in Goroutines : q # p => got'[q] = got[q]
      BY <1>2, ReturnTyped
    <2>2. got'[p].name = call[p].name /\ got'[p].circuit = c /\ got'[p].created = made /\ got'[p].after = flushes
      BY <2>1
    <2>3. call[p].name \in Names /\ circuits[call[p].name] \in 0..Len(pools)
          /\ Len(pools) \in Nat /\ flushes \in Nat
      BY <1>2, CallTyped DEF TypeOK
    <2>4. circuits'[call[p].name] = c /\ c <= Len(pools') /\ Len(pools) <= Len(pools')
          /\ \A n \in Names : n # call[p].name => circuits'[n] = circuits[n]
      BY <1>2, <2>3 DEF TypeOK
    <2>5. \A q \in Goroutines : got[q] # <<>> =>
             /\ got[q].name \in Names /\ got[q].circuit \in Nat \ {0} /\ got[q].after \in Nat
             /\ got[q].circuit <= Len(pools) /\ got[q].after <= flushes
      BY DEF TypeOK, Results, ResultsPast
    <2>6. ResultsPast'
      BY <1>2, <2>1, <2>2, <2>3, <2>4, <2>5 DEF ResultsPast
    <2>7. ASSUME NEW q \in Goroutines, got'[q] # <<>>, got'[q].after = flushes'
          PROVE  circuits'[got'[q].name] = got'[q].circuit
      <3>1. CASE q = p
        BY <2>2, <2>4, <3>1
      <3>2. CASE q # p
        <4>1. got'[q] = got[q] /\ circuits[got[q].name] = got[q].circuit /\ got[q].circuit # 0
          BY <1>2, <2>1, <2>5, <2>7, <3>2 DEF OneCircuit
        <4>2. got[q].name = call[p].name => circuits'[call[p].name] = circuits[call[p].name]
          BY <1>2, <4>1
        <4> QED
          BY <2>4, <2>5, <2>7, <4>1, <4>2
      <3> QED
        BY <3>1, <3>2
    <2>8. ASSUME NEW q \in Goroutines, NEW r \in Goroutines, got'[q] # <<>>, got'[r] # <<>>,
                 got'[q].created, got'[r].created, q # r
          PROVE  got'[q].circuit # got'[r].circuit
      <3>1. CASE q # p /\ r # p
        BY <2>1, <2>8, <3>1 DEF OneCircuit
      <3>2. CASE q = p \/ r = p
        <4>1. made /\ c = Len(pools) + 1
          BY <1>2, <2>2, <2>8, <3>2
        <4> QED
          BY <2>1, <2>2, <2>3, <2>5, <2>8, <3>2, <4>1
      <3> QED
        BY <3>1, <3>2
    <2> QED
      BY <2>6, <2>7, <2>8 DEF OneCircuit
  <1>3. ASSUME NEW p \in Goroutines, Look(p) \/ LookAgain(p) PROVE ResultsPast' /\ OneCircuit'
    <2>1. call[p].pc \in {"look", "lock", "create", "default"} /\ UNCHANGED <<circuits, pools, flushes>>
      BY <1>3 DEF Look, LookAgain
    <2>2. CASE circuits[call[p].name] = 0
      BY <1>1, <1>3, <2>1, <2>2 DEF Look, LookAgain
    <2>3. CASE circuits[call[p].name] # 0
      <3>1. Return(p, circuits[call[p].name], FALSE)
        BY <1>3, <2>3 DEF Look, LookAgain
      <3>2. circuits[call[p].name] \in Nat \ {0}
        BY <2>1, <2>3, CallTyped DEF TypeOK
      <3> QED
        BY <1>2, <2>1, <3>1, <3>2
    <2> QED
      BY <2>2, <2>3
  <1>4. ASSUME NEW p \in Goroutines, Create(p) PROVE ResultsPast' /\ OneCircuit'
    <2>1. call[p].pc \in {"look", "lock", "create", "default"} /\ flushes' = flushes
          /\ circuits[call[p].name] = 0
      BY <1>4 DEF Create, LockInv, Writers
    <2>2. CASE settings[call[p].name] = 0
      BY <1>1, <1>4, <2>2 DEF Create
    <2>3. CASE settings[call[p].name] # 0
      <3>1. /\ Return(p, Len(pools) + 1, TRUE) /\ pools' = Append(pools, settings[call[p].name])
            /\ circuits' = [circuits EXCEPT ![call[p].name] = Len(pools) + 1]
        BY <1>4, <2>3 DEF Create
      <3>2. Len(pools) + 1 \in Nat \ {0} /\ Len(pools') = Len(pools) + 1
        BY <2>1, <3>1, CallTyped DEF TypeOK
      <3> QED
        BY <1>2, <2>1, <3>1, <3>2
    <2> QED
      BY <2>2, <2>3
  <1>5. ASSUME NEW p \in Goroutines, FlushAll(p) PROVE ResultsPast' /\ OneCircuit'
    <2>1. got' = got /\ pools' = pools /\ flushes' = flushes + 1 /\ flushes \in Nat
      BY <1>5 DEF FlushAll, TypeOK
    <2>2. \A q \in Goroutines : got[q] # <<>> => got[q].after \in Nat /\ got[q].after <= flushes
      BY DEF TypeOK, Results, ResultsPast
    <2>3. ResultsPast' /\ \A q \in Goroutines : got[q] # <<>> => got[q].after # flushes'
      BY <2>1, <2>2 DEF ResultsPast
    <2> QED
      BY <2>1, <2>3 DEF OneCircuit
  <1>6. CASE \/ \E p \in Goroutines : WriteDefaults(p)
             \/ \E n \in Names, c \in Configs : ConfigureCommand(n, c)
    BY <1>1, <1>6 DEF WriteDefaults, ConfigureCommand
  <1>7. CASE Bystander
    BY <1>1, <1>7 DEF Bystander
  <1> QED
    BY <1>3, <1>4, <1>5, <1>6, <1>7, Bystanders DEF Next, Goroutine

\* What was configured is in force unless getSettings overran it.
LEMMA SettingsStep == TypeOK /\ SettingsInv /\ [Next]_vars => SettingsInv'
  <1> SUFFICES ASSUME TypeOK, SettingsInv, [Next]_vars PROVE SettingsInv'
    OBVIOUS
  <1>1. ASSUME UNCHANGED confVars,
               \A q \in Goroutines, n \in Names :
                 call'[q] = [pc |-> "default", name |-> n] =>
                   call[q] = [pc |-> "default", name |-> n] \/ configured[n] = -1
        PROVE  SettingsInv'
    BY <1>1 DEF SettingsInv, confVars
  <1>2. ASSUME NEW p \in Goroutines, NEW to \in {"lock", "create"}, Goto(p, to),
               call[p].pc \in {"look", "lock", "default"}
        PROVE  \A q \in Goroutines, n \in Names :
                 call'[q] = [pc |-> "default", name |-> n] => call[q] = [pc |-> "default", name |-> n]
    <2>1. /\ call'[p] = [pc |-> to, name |-> call[p].name]
          /\ \A q \in Goroutines : q # p => call'[q] = call[q]
      BY <1>2, GotoTyped
    <2>2. call'[p].pc # "default"
      BY <2>1
    <2> QED
      BY <2>1, <2>2
  <1>3. ASSUME NEW p \in Goroutines, call' = [call EXCEPT ![p] = Idle]
        PROVE  \A q \in Goroutines, n \in Names :
                 call'[q] = [pc |-> "default", name |-> n] => call[q] = [pc |-> "default", name |-> n]
    <2>1. call'[p].pc # "default" /\ \A q \in Goroutines : q # p => call'[q] = call[q]
      BY <1>3 DEF Idle, TypeOK
    <2> QED
      BY <2>1
  <1>4. ASSUME NEW p \in Goroutines, Look(p) \/ LookAgain(p) PROVE SettingsInv'
    <2>1. UNCHANGED confVars /\ call[p].pc \in {"look", "lock", "default"}
      BY <1>4 DEF Look, LookAgain
    <2>2. \/ \E to \in {"lock", "create"} : Goto(p, to)
          \/ call' = [call EXCEPT ![p] = Idle]
      BY <1>4 DEF Look, LookAgain, Return
    <2> QED
      BY <1>1, <1>2, <1>3, <2>1, <2>2
  <1>5. ASSUME NEW p \in Goroutines, Create(p) PROVE SettingsInv'
    <2>1. UNCHANGED confVars /\ call[p].pc \in {"look", "lock", "create", "default"} /\ call[p].name \in Names
      BY <1>5, CallTyped DEF Create
    <2>2. CASE settings[call[p].name] = 0
      <3>1. Goto(p, "default")
        BY <1>5, <2>2 DEF Create
      <3>2. /\ call'[p] = [pc |-> "default", name |-> call[p].name]
            /\ \A q \in Goroutines : q # p => call'[q] = call[q]
        BY <2>1, <3>1, GotoTyped
      <3>3. configured[call[p].name] \notin Configs
        <4>1. SUFFICES ASSUME configured[call[p].name] \in Configs PROVE FALSE
          OBVIOUS
        <4>2. Size(configured[call[p].name]) # 0 /\ Default # 0
          BY <4>1, SizePositive, RegistryAssumption
        <4>4. configured[call[p].name] \in Nat
          BY <4>1, RegistryAssumption
        <4>3. settings[call[p].name] \in {Size(configured[call[p].name]), Default}
          <5>1. configured[call[p].name] # -1
            BY <4>4
          <5> QED
            BY <2>1, <5>1, Zenon DEF SettingsInv
        <4> QED
          BY <2>2, <4>2, <4>3
      <3>4. configured[call[p].name] = -1
        BY <2>1, <3>3 DEF TypeOK
      <3>5. \A n \in Names : call'[p] = [pc |-> "default", name |-> n] => n = call[p].name
        BY <3>2
      <3> QED
        BY <1>1, <2>1, <3>2, <3>4, <3>5
    <2>3. CASE settings[call[p].name] # 0
      BY <1>1, <1>3, <1>5, <2>1, <2>3 DEF Create, Return
    <2> QED
      BY <2>2, <2>3
  <1>6. ASSUME NEW p \in Goroutines, WriteDefaults(p) PROVE SettingsInv'
    <2>1. call[p] = [pc |-> "default", name |-> call[p].name] /\ call[p].name \in Names
      BY <1>6, CallTyped DEF WriteDefaults, Asking
    <2>2. /\ settings' = [settings EXCEPT ![call[p].name] = Default]
          /\ configured' = configured /\ kept' = kept /\ Goto(p, "create")
      BY <1>6 DEF WriteDefaults, Size
    <2>3. \A q \in Goroutines, n \in Names :
            call'[q] = [pc |-> "default", name |-> n] => call[q] = [pc |-> "default", name |-> n]
      BY <1>2, <1>6, <2>2 DEF WriteDefaults
    <2>4. configured[call[p].name] # -1 => ~kept[call[p].name]
      BY <2>1 DEF SettingsInv
    <2>5. settings'[call[p].name] = Default /\ \A n \in Names \ {call[p].name} : settings'[n] = settings[n]
      BY <2>1, <2>2 DEF TypeOK
    <2>6. ASSUME NEW n \in Names, configured[n] # -1, kept[n]
          PROVE  settings'[n] = Size(configured[n])
      BY <2>1, <2>4, <2>5, <2>6 DEF SettingsInv
    <2>7. \A n \in Names : settings'[n] \in {settings[n], Default}
      BY <2>5
    <2> QED
      BY <2>2, <2>3, <2>6, <2>7 DEF SettingsInv
  <1>7. ASSUME NEW n \in Names, NEW c \in Configs, ConfigureCommand(n, c) PROVE SettingsInv'
    <2>1. /\ settings' = [settings EXCEPT ![n] = Size(c)]
          /\ configured' = [configured EXCEPT ![n] = c] /\ call' = call
          /\ kept' = [kept EXCEPT ![n] = \A p \in Goroutines : call[p] # [pc |-> "default", name |-> n]]
      BY <1>7 DEF ConfigureCommand
    <2>2. c # -1
      BY RegistryAssumption
    <2> QED
      BY <2>1, <2>2 DEF SettingsInv, TypeOK
  <1>8. ASSUME NEW p \in Goroutines, FlushAll(p) PROVE SettingsInv'
    BY <1>1, <1>3, <1>8 DEF FlushAll
  <1>9. CASE Bystander
    <2>1. \A q \in Goroutines, n \in Names :
            call'[q] = [pc |-> "default", name |-> n] => call[q] = [pc |-> "default", name |-> n]
      BY <1>9 DEF Bystander
    <2> QED
      BY <1>1, <1>9, <2>1 DEF Bystander
  <1> QED
    BY <1>4, <1>5, <1>6, <1>7, <1>8, <1>9, Bystanders DEF Next, Goroutine

\* The invariant that the theorems below follow from.
THEOREM RegistryInvariant == Spec => []IInv
  <1>1. IInv /\ [Next]_vars => IInv'
    BY TypeStep, LockStep, ResultsStep, SettingsStep DEF IInv
  <1> QED
    BY InitIInv, <1>1, PTL DEF Spec

\* The registry, the settings and the stream keep their types, and no channel
\* of a client holds more than its capacity.
THEOREM RegistryTypeOK == Spec => []TypeOK
  <1>1. IInv => TypeOK
    BY DEF IInv
  <1> QED
    BY <1>1, RegistryInvariant, PTL

\* circuit.go:33: between two calls of Flush there is one circuit for a name,
\* however many goroutines ask for it first.
THEOREM OneCircuitPerName == Spec => []OneCircuit
  <1>1. IInv => OneCircuit
    BY DEF IInv
  <1> QED
    BY <1>1, RegistryInvariant, PTL

\* pool.go:14, settings.go:101: a new pool has the size that was configured,
\* unless getSettings was writing the defaults over it.
THEOREM PoolSize == Spec => PoolAsConfigured
  <1>1. ASSUME IInv, [Next]_vars,
               NEW n \in Names, circuits'[n] # circuits[n], circuits'[n] # 0
        PROVE  pools'[circuits'[n]] \in
                 {IF configured[n] = -1 THEN Default ELSE Size(configured[n])}
                   \cup (IF kept[n] THEN {} ELSE {Default})
    <2>1. PICK p \in Goroutines : Create(p)
      <3>1. ~Bystander
        BY <1>1 DEF Bystander
      <3>2. ~\E p \in Goroutines : Look(p) \/ LookAgain(p) \/ WriteDefaults(p) \/ FlushAll(p)
        BY <1>1 DEF Look, LookAgain, WriteDefaults, FlushAll
      <3>3. ~\E m \in Names, c \in Configs : ConfigureCommand(m, c)
        BY <1>1 DEF ConfigureCommand
      <3> QED
        BY <1>1, <3>1, <3>2, <3>3, Bystanders DEF Next, Goroutine, IInv
    <2>2. /\ settings[call[p].name] # 0 /\ pools' = Append(pools, settings[call[p].name])
          /\ circuits' = [circuits EXCEPT ![call[p].name] = Len(pools) + 1]
      BY <1>1, <2>1 DEF Create
    <2>3. n = call[p].name /\ circuits'[n] = Len(pools) + 1
      BY <1>1, <2>2 DEF IInv, TypeOK
    <2>4. pools'[circuits'[n]] = settings[n]
      BY <2>2, <2>3 DEF IInv, TypeOK, Goto
    <2>5. settings[n] # 0 /\ SettingsInv
      BY <1>1, <2>2, <2>3 DEF IInv
    <2>6. CASE configured[n] = -1
      <3>1. settings[n] = Default
        BY <2>5, <2>6 DEF SettingsInv
      <3> QED
        BY <2>4, <2>6, <3>1
    <2>7. CASE configured[n] # -1
      <3>1. settings[n] = Size(configured[n]) \/ (~kept[n] /\ settings[n] = Default)
        BY <2>5, <2>7 DEF SettingsInv
      <3> QED
        BY <2>4, <2>7, <3>1
    <2> QED
      BY <2>6, <2>7
  <1>2. IInv /\ [Next]_vars =>
          [\A n \in Names :
             (circuits'[n] # circuits[n] /\ circuits'[n] # 0) =>
               pools'[circuits'[n]] \in
                 {IF configured[n] = -1 THEN Default ELSE Size(configured[n])}
                   \cup (IF kept[n] THEN {} ELSE {Default})]_vars
    BY <1>1
  <1> QED
    BY <1>2, RegistryInvariant, PTL DEF PoolAsConfigured, Spec
=============================================================================
