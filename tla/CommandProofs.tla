--------------------------- MODULE CommandProofs ---------------------------
(***************************************************************************)
(* Proofs about module Command, for every set of executions and of tickets *)
(***************************************************************************)
EXTENDS Command, FiniteSetTheorems, SequenceTheorems, TLAPS

\* The active count of the pool is an integer: the channel holds finitely many
\* tickets (executorPool.ActiveCount).
LEMMA ActiveCountType ==
  ASSUME pool \in SUBSET Tickets
  PROVE  ActiveCount \in Int
<1>1. IsFiniteSet(pool) /\ IsFiniteSet(Tickets)
  BY CommandAssumption, FS_Subset
<1>2. Cardinality(pool) \in Nat /\ Cardinality(Tickets) \in Nat
  BY <1>1, FS_CardinalityType
<1> QED BY <1>2 DEF ActiveCount, Max

\* Every error has its event (errorWithFallback).
LEMMA EventTypeType == \A err \in Errors \cup {"nil"} : EventType[err] \in Events
BY DEF EventType, Errors, CtxErrs, Events

\* What the goroutine inside returnOnce handles is an error or nil.
LEMMA CauseType ==
  ASSUME TypeOK, NEW c \in Cmds
  PROVE  Cause(c) \in Errors \cup {"nil"}
BY DEF TypeOK, Cause

\* Every step of GoC, DoC and their goroutines preserves the types.
LEMMA TypeStep == CommandInv /\ [Next]_vars => TypeOK'
<1> SUFFICES ASSUME TypeOK, BodyAfterCheck, CauseIsError, [Next]_vars
             PROVE  TypeOK'
  BY DEF CommandInv
<1> USE CommandAssumption DEF TypeOK
<1>1. ASSUME NEW c \in Cmds, GoC(c) \/ CtxDone(c) \/ Caller(c) PROVE TypeOK'
  <2>1. CASE GoC(c) BY <2>1 DEF GoC, poolVars, outVars, MainPC, WatchPC
  <2>2. CASE CtxDone(c) BY <2>2 DEF CtxDone, poolVars, outVars, CtxErrs
  <2>3. CASE CallerDone(c) BY <2>3 DEF CallerDone, poolVars, cmdVars
  <2>4. CASE CallerErr(c)
    <3>1. errChan[c] \in Seq(Answers) /\ errChan[c] # <<>>
      BY <2>4 DEF CallerErr
    <3>2. Head(errChan[c]) \in Answers /\ Tail(errChan[c]) \in Seq(Answers)
      BY <3>1
    <3> QED BY <2>4, <3>2 DEF CallerErr, poolVars, cmdVars
  <2> QED BY <1>1, <2>1, <2>2, <2>3, <2>4 DEF Caller
<1>2. ASSUME NEW c \in Cmds, Main(c) PROVE TypeOK'
  <2> USE DEF MainPC, BodyPC
  <2>1. CASE AllowRequest(c) BY <2>1 DEF AllowRequest, poolVars, outVars
  <2>2. CASE ShortCircuit(c)
    BY <2>2 DEF ShortCircuit, CheckTicket, outVars, Errors
  <2>3. CASE AcquireTicket(c) BY <2>3 DEF AcquireTicket, CheckTicket, outVars
  <2>4. CASE RejectMaxConcurrency(c)
    BY <2>4 DEF RejectMaxConcurrency, CheckTicket, outVars, Errors
  <2>5. CASE RunAnnounces(c) BY <2>5 DEF RunAnnounces, poolVars
  <2>6. CASE MainDo(c)
    <3>1. CASE once[c] = "free"
      <4>1. /\ once' = [once EXCEPT ![c] = "main"] /\ main' = [main EXCEPT ![c] = "inOnce"]
            /\ body' = [body EXCEPT ![c] = "lock"]
            /\ UNCHANGED <<ctx, watch, mainErr, watchErr, poolVars, outVars>>
        BY <2>6, <3>1 DEF MainDo
      <4>2. once' \in [Cmds -> {"free", "main", "watch", "done"}]
        BY <4>1
      <4>3. main' \in [Cmds -> MainPC] /\ body' \in [Cmds -> BodyPC]
        BY <4>1
      <4> HIDE DEF MainPC, BodyPC
      <4> QED BY <4>1, <4>2, <4>3 DEF poolVars, outVars
    <3>2. CASE once[c] = "done" BY <2>6, <3>2 DEF MainDo, poolVars, outVars
    <3> QED BY <2>6, <3>1, <3>2 DEF MainDo
  <2>7. CASE MainFinish(c) BY <2>7 DEF MainFinish, poolVars
  <2> QED BY <1>2, <2>1, <2>2, <2>3, <2>4, <2>5, <2>6, <2>7 DEF Main
<1>3. ASSUME NEW c \in Cmds, Watch(c) PROVE TypeOK'
  <2> USE DEF WatchPC
  <2>1. CASE WatchFinished(c) BY <2>1 DEF WatchFinished, poolVars
  <2>2. CASE WatchCtx(c) BY <2>2 DEF WatchCtx, poolVars, outVars, Errors
  <2>3. CASE WatchTimeout(c) BY <2>3 DEF WatchTimeout, poolVars, outVars, Errors
  <2>4. CASE WatchDo(c)
    <3>1. CASE once[c] = "free"
      <4>1. /\ once' = [once EXCEPT ![c] = "watch"] /\ watch' = [watch EXCEPT ![c] = "inOnce"]
            /\ body' = [body EXCEPT ![c] = "lock"]
            /\ UNCHANGED <<ctx, main, mainErr, watchErr, poolVars, outVars>>
        BY <2>4, <3>1 DEF WatchDo
      <4>2. once' \in [Cmds -> {"free", "main", "watch", "done"}]
        BY <4>1
      <4>3. watch' \in [Cmds -> WatchPC] /\ body' \in [Cmds -> BodyPC]
        BY <4>1 DEF BodyPC
      <4> HIDE DEF WatchPC
      <4> QED BY <4>1, <4>2, <4>3 DEF poolVars, outVars
    <3>2. CASE once[c] = "done" BY <2>4, <3>2 DEF WatchDo, poolVars, outVars, BodyPC
    <3> QED BY <2>4, <3>1, <3>2 DEF WatchDo
  <2> QED BY <1>3, <2>1, <2>2, <2>3, <2>4 DEF Watch
<1>4. ASSUME NEW c \in Cmds, Body(c) PROVE TypeOK'
  <2> USE DEF BodyPC
  <2>1. CASE LockForReturn(c) BY <2>1 DEF LockForReturn, poolVars, outVars
  <2>2. CASE ReturnTicket(c)
    <3>1. ActiveCount \in Int BY ActiveCountType
    <3>2. active' \in [Cmds -> Int] /\ body' \in [Cmds -> BodyPC]
      <4>1. CASE ticket[c] = NoTicket BY <2>2, <4>1 DEF ReturnTicket
      <4>2. CASE ticket[c] # NoTicket
        <5>1. active' = [active EXCEPT ![c] = ActiveCount] /\ active \in [Cmds -> Int]
          BY <2>2, <4>2 DEF ReturnTicket
        <5>2. body' \in [Cmds -> BodyPC]
          <6>1. body' = [body EXCEPT ![c] = "sending"] /\ body \in [Cmds -> BodyPC]
            BY <2>2, <4>2 DEF ReturnTicket
          <6> QED BY ONLY <6>1 DEF BodyPC
        <5>3. active' \in [Cmds -> Int] BY ONLY <5>1, <3>1
        <5> QED BY <5>2, <5>3
      <4> QED BY <4>1, <4>2
    <3> QED BY <2>2, <3>2 DEF ReturnTicket, outVars
  <2>3. CASE SendPoolUpdate(c) BY <2>3 DEF SendPoolUpdate, outVars
  <2>4. CASE PutTicket(c)
    <3>1. ticket[c] \in Tickets BY <2>4 DEF PutTicket, BodyAfterCheck
    <3> QED BY <2>4, <3>1 DEF PutTicket, outVars
  <2>5. CASE RecordEvent(c)
    <3>1. EventType[Cause(c)] \in Events BY CauseType, EventTypeType
    <3>2. events' \in [Cmds -> Seq(Events)] BY <2>5, <3>1 DEF RecordEvent
    <3> QED BY <2>5, <3>2 DEF RecordEvent, poolVars
  <2>6. CASE FallbackAnnounces(c) BY <2>6 DEF FallbackAnnounces, poolVars
  <2>7. CASE RecordFallbackSuccess(c)
    BY <2>7 DEF RecordFallbackSuccess, poolVars, Events
  <2>8. CASE DeliverError(c)
    <3>1. Cause(c) \in Answers
      BY <2>8, CauseType DEF DeliverError, CauseIsError, Answers
    <3>2. errChan' \in [Cmds -> Seq(Answers)]
      BY <2>8, <3>1 DEF DeliverError, Answers
    <3> QED BY <2>8, <3>2 DEF DeliverError, poolVars
  <2>9. CASE ReportAllEvent(c)
    BY <2>9 DEF ReportAllEvent, poolVars, MainPC, WatchPC
  <2> QED BY <1>4, <2>1, <2>2, <2>3, <2>4, <2>5, <2>6, <2>7, <2>8, <2>9 DEF Body
<1>5. ASSUME NEW c \in Cmds, UserCode(c) PROVE TypeOK'
  <2> USE DEF BodyPC, MainPC
  <2>1. CASE RunReturns(c) BY <2>1 DEF RunReturns, poolVars, outVars
  <2>2. CASE FallbackSucceeds(c) BY <2>2 DEF FallbackSucceeds, poolVars, outVars
  <2>3. CASE FallbackFails(c) BY <2>3 DEF FallbackFails, poolVars, Events
  <2> QED BY <1>5, <2>1, <2>2, <2>3 DEF UserCode
<1>6. CASE MonitorApply
  <2>1. monitor[1] \in Int BY <1>6 DEF MonitorApply
  <2> QED BY <1>6, <2>1 DEF MonitorApply, cmdVars, outVars
<1>7. CASE ResetPoolMetrics BY <1>7 DEF ResetPoolMetrics, cmdVars, outVars
<1>8. CASE UNCHANGED vars BY <1>8 DEF vars, cmdVars, poolVars, outVars
<1> QED BY <1>1, <1>2, <1>3, <1>4, <1>5, <1>6, <1>7, <1>8 DEF Next

\* The order of the two goroutines' decisions is preserved: the ticket decision
\* comes before the release, and one goroutine at a time is in returnOnce.
LEMMA ControlStep ==
  CommandInv /\ [Next]_vars =>
    CheckedIsDecided' /\ BodyAfterCheck' /\ OnceGuardsBody' /\ CauseIsError'
<1> SUFFICES ASSUME TypeOK, CheckedIsDecided, BodyAfterCheck, OnceGuardsBody,
                    CauseIsError, [Next]_vars
             PROVE  CheckedIsDecided' /\ BodyAfterCheck' /\ OnceGuardsBody' /\ CauseIsError'
  BY DEF CommandInv
<1> DEFINE Goal == CheckedIsDecided' /\ BodyAfterCheck' /\ OnceGuardsBody' /\ CauseIsError'
<1> USE DEF TypeOK, CheckedIsDecided, BodyAfterCheck, OnceGuardsBody, CauseIsError, Cause
<1>1. ASSUME NEW c \in Cmds, GoC(c) \/ CtxDone(c) \/ Caller(c) PROVE Goal
  <2>1. CASE GoC(c) BY <2>1 DEF GoC, poolVars
  <2>2. CASE CtxDone(c) BY <2>2 DEF CtxDone, poolVars
  <2>3. CASE CallerDone(c) BY <2>3 DEF CallerDone, poolVars, cmdVars
  <2>4. CASE CallerErr(c) BY <2>4 DEF CallerErr, poolVars, cmdVars
  <2> QED BY <1>1, <2>1, <2>2, <2>3, <2>4 DEF Caller
<1>2. ASSUME NEW c \in Cmds, Main(c) PROVE Goal
  <2>1. CASE AllowRequest(c) BY <2>1 DEF AllowRequest, poolVars
  <2>2. CASE ShortCircuit(c) BY <2>2 DEF ShortCircuit, CheckTicket, Locked
  <2>3. CASE AcquireTicket(c) BY <2>3 DEF AcquireTicket, CheckTicket, Locked
  <2>4. CASE RejectMaxConcurrency(c)
    BY <2>4 DEF RejectMaxConcurrency, CheckTicket, Locked
  <2>5. CASE RunAnnounces(c) BY <2>5 DEF RunAnnounces, poolVars
  <2>6. CASE MainDo(c)
    <3>1. CASE once[c] = "free"
      <4>1. once' = [once EXCEPT ![c] = "main"] /\ body' = [body EXCEPT ![c] = "lock"]
            /\ main' = [main EXCEPT ![c] = "inOnce"] /\ main[c] = "do"
            /\ UNCHANGED <<watch, mainErr, watchErr, ticket, ticketChecked>>
        BY <2>6, <3>1 DEF MainDo, poolVars
      <4>2. CheckedIsDecided' /\ BodyAfterCheck' BY <4>1
      <4>3. OnceGuardsBody' BY <4>1, <3>1
      <4>4. CauseIsError' BY <4>1
      <4> QED BY <4>2, <4>3, <4>4
    <3>2. CASE once[c] = "done" BY <2>6, <3>2 DEF MainDo, poolVars
    <3> QED BY <2>6, <3>1, <3>2 DEF MainDo
  <2>7. CASE MainFinish(c) BY <2>7 DEF MainFinish, poolVars
  <2> QED BY <1>2, <2>1, <2>2, <2>3, <2>4, <2>5, <2>6, <2>7 DEF Main
<1>3. ASSUME NEW c \in Cmds, Watch(c) PROVE Goal
  <2>1. CASE WatchFinished(c) BY <2>1 DEF WatchFinished, poolVars
  <2>2. CASE WatchCtx(c)
    <3>1. CheckedIsDecided' /\ BodyAfterCheck' BY <2>2 DEF WatchCtx, poolVars
    <3>2. OnceGuardsBody' BY <2>2 DEF WatchCtx, poolVars
    <3>3. CauseIsError'
      <4>1. ctx[c] # "nil" BY <2>2 DEF WatchCtx, CtxErrs
      <4>2. once' = once /\ mainErr' = mainErr /\ body' = body /\ once[c] # "watch"
        BY <2>2 DEF WatchCtx
      <4>3. watch' = [watch EXCEPT ![c] = "do"] /\ watchErr' = [watchErr EXCEPT ![c] = ctx[c]]
        BY <2>2 DEF WatchCtx
      <4> QED BY <4>1, <4>2, <4>3
    <3> QED BY <3>1, <3>2, <3>3
  <2>3. CASE WatchTimeout(c) BY <2>3 DEF WatchTimeout, poolVars
  <2>4. CASE WatchDo(c)
    <3>1. CheckedIsDecided' /\ BodyAfterCheck' BY <2>4 DEF WatchDo, poolVars
    <3>2. OnceGuardsBody' BY <2>4 DEF WatchDo, poolVars
    <3>3. CauseIsError' BY <2>4 DEF WatchDo, poolVars
    <3> QED BY <3>1, <3>2, <3>3
  <2> QED BY <1>3, <2>1, <2>2, <2>3, <2>4 DEF Watch
<1>4. ASSUME NEW c \in Cmds, Body(c) PROVE Goal
  <2>1. CASE LockForReturn(c) BY <2>1 DEF LockForReturn, poolVars
  <2>2. CASE ReturnTicket(c)
    <3>1. CheckedIsDecided' BY <2>2 DEF ReturnTicket
    <3>4. BodyAfterCheck'
      <4>1. CASE ticket[c] = NoTicket
        <5>1. body' = [body EXCEPT ![c] = "event"] /\ ticket' = ticket
              /\ ticketChecked' = ticketChecked /\ body[c] = "return"
          BY <2>2, <4>1 DEF ReturnTicket
        <5> QED BY <5>1
      <4>2. CASE ticket[c] # NoTicket
        <5>1. body' = [body EXCEPT ![c] = "sending"] /\ ticket' = ticket
              /\ ticketChecked' = ticketChecked /\ body[c] = "return"
          BY <2>2, <4>2 DEF ReturnTicket
        <5> QED BY <5>1, <4>2
      <4> QED BY <4>1, <4>2
    <3>2. OnceGuardsBody' BY <2>2 DEF ReturnTicket
    <3>3. CauseIsError' BY <2>2 DEF ReturnTicket
    <3> QED BY <3>1, <3>2, <3>3, <3>4
  <2>3. CASE SendPoolUpdate(c) BY <2>3 DEF SendPoolUpdate
  <2>4. CASE PutTicket(c) BY <2>4 DEF PutTicket
  <2>5. CASE RecordEvent(c) BY <2>5 DEF RecordEvent, poolVars
  <2>6. CASE FallbackAnnounces(c) BY <2>6 DEF FallbackAnnounces, poolVars
  <2>7. CASE RecordFallbackSuccess(c) BY <2>7 DEF RecordFallbackSuccess, poolVars
  <2>8. CASE DeliverError(c) BY <2>8 DEF DeliverError, poolVars
  <2>9. CASE ReportAllEvent(c) BY <2>9 DEF ReportAllEvent, poolVars
  <2> QED BY <1>4, <2>1, <2>2, <2>3, <2>4, <2>5, <2>6, <2>7, <2>8, <2>9 DEF Body
<1>5. ASSUME NEW c \in Cmds, UserCode(c) PROVE Goal
  <2>1. CASE RunReturns(c)
    <3>1. CheckedIsDecided' /\ BodyAfterCheck' BY <2>1 DEF RunReturns, poolVars
    <3>2. OnceGuardsBody' BY <2>1 DEF RunReturns, poolVars
    <3>3. CauseIsError'
      <4>1. \A d \in Cmds : d # c => mainErr'[d] = mainErr[d]
        BY <2>1 DEF RunReturns
      <4>2. once' = once /\ watchErr' = watchErr /\ body' = body /\ watch' = watch
        BY <2>1 DEF RunReturns
      <4>3. main[c] = "run" /\ once[c] # "main" BY <2>1 DEF RunReturns
      <4>4. body[c] \in {"fallback", "announce", "fallbackOk", "deliver"} => once[c] = "watch"
        BY <4>3
      <4> QED BY <4>1, <4>2, <4>4
    <3> QED BY <3>1, <3>2, <3>3
  <2>2. CASE FallbackSucceeds(c) BY <2>2 DEF FallbackSucceeds, poolVars
  <2>3. CASE FallbackFails(c) BY <2>3 DEF FallbackFails, poolVars
  <2> QED BY <1>5, <2>1, <2>2, <2>3 DEF UserCode
<1>6. CASE MonitorApply BY <1>6 DEF MonitorApply, cmdVars
<1>7. CASE ResetPoolMetrics BY <1>7 DEF ResetPoolMetrics, cmdVars
<1>8. CASE UNCHANGED vars BY <1>8 DEF vars, cmdVars, poolVars
<1> QED BY <1>1, <1>2, <1>3, <1>4, <1>5, <1>6, <1>7, <1>8 DEF Next

\* An event list that was appended to is not empty (reportEvent).
LEMMA AppendNonEmpty ==
  ASSUME NEW S, NEW s \in Seq(S), NEW x \in S
  PROVE  Append(s, x) # <<>>
<1>1. Len(Append(s, x)) = Len(s) + 1 /\ Len(s) \in Nat OBVIOUS
<1>2. Len(<<>>) = 0 OBVIOUS
<1> QED BY <1>1, <1>2

\* Answers and events appear in the order of the closing sequence.
LEMMA AnswersStep == CommandInv /\ [Next]_vars => AnswersFollowBody'
<1> SUFFICES ASSUME TypeOK, CheckedIsDecided, OnceGuardsBody, AnswersFollowBody, [Next]_vars
             PROVE  AnswersFollowBody'
  BY DEF CommandInv
<1> USE DEF TypeOK, AnswersFollowBody, Failed
<1>1. ASSUME NEW c \in Cmds, GoC(c) \/ CtxDone(c) \/ Caller(c) PROVE AnswersFollowBody'
  <2>1. CASE GoC(c) BY <2>1 DEF GoC, outVars
  <2>2. CASE CtxDone(c) BY <2>2 DEF CtxDone, outVars
  <2>3. CASE CallerDone(c) BY <2>3 DEF CallerDone, cmdVars, Answers, Errors, CtxErrs
  <2>4. CASE CallerErr(c) BY <2>4 DEF CallerErr, cmdVars
  <2> QED BY <1>1, <2>1, <2>2, <2>3, <2>4 DEF Caller
<1>2. ASSUME NEW c \in Cmds, Main(c) PROVE AnswersFollowBody'
  <2>1. CASE AllowRequest(c) BY <2>1 DEF AllowRequest, outVars
  <2>2. CASE ShortCircuit(c) BY <2>2 DEF ShortCircuit, CheckTicket, outVars
  <2>3. CASE AcquireTicket(c) BY <2>3 DEF AcquireTicket, CheckTicket, outVars
  <2>4. CASE RejectMaxConcurrency(c)
    BY <2>4 DEF RejectMaxConcurrency, CheckTicket, outVars
  <2>5. CASE RunAnnounces(c) BY <2>5 DEF RunAnnounces
  <2>6. CASE MainDo(c) BY <2>6 DEF MainDo, outVars, OnceGuardsBody
  <2>7. CASE MainFinish(c) BY <2>7 DEF MainFinish
  <2> QED BY <1>2, <2>1, <2>2, <2>3, <2>4, <2>5, <2>6, <2>7 DEF Main
<1>3. ASSUME NEW c \in Cmds, Watch(c) PROVE AnswersFollowBody'
  <2>1. CASE WatchFinished(c) BY <2>1 DEF WatchFinished
  <2>2. CASE WatchCtx(c) BY <2>2 DEF WatchCtx, outVars
  <2>3. CASE WatchTimeout(c) BY <2>3 DEF WatchTimeout, outVars
  <2>4. CASE WatchDo(c) BY <2>4 DEF WatchDo, outVars, OnceGuardsBody
  <2> QED BY <1>3, <2>1, <2>2, <2>3, <2>4 DEF Watch
<1>4. ASSUME NEW c \in Cmds, Body(c) PROVE AnswersFollowBody'
  <2>1. CASE LockForReturn(c) BY <2>1 DEF LockForReturn, outVars
  <2>2. CASE ReturnTicket(c)
    <3>1. PICK pc \in {"event", "sending"} : body' = [body EXCEPT ![c] = pc]
      BY <2>2 DEF ReturnTicket
    <3>2. body[c] = "return" /\ UNCHANGED <<main, events, errChan, result, finished>>
      BY <2>2 DEF ReturnTicket, outVars
    <3> QED BY <3>1, <3>2
  <2>3. CASE SendPoolUpdate(c) BY <2>3 DEF SendPoolUpdate, outVars
  <2>4. CASE PutTicket(c) BY <2>4 DEF PutTicket, outVars
  <2>5. CASE RecordEvent(c) BY <2>5 DEF RecordEvent
  <2>6. CASE FallbackAnnounces(c) BY <2>6 DEF FallbackAnnounces
  <2>7. CASE RecordFallbackSuccess(c)
    <3>1. events[c] \in Seq(Events) /\ "fallback-success" \in Events BY DEF Events
    <3>2. Append(events[c], "fallback-success") # <<>> BY <3>1, AppendNonEmpty
    <3> QED BY <2>7, <3>2 DEF RecordFallbackSuccess
  <2>8. CASE DeliverError(c) BY <2>8 DEF DeliverError
  <2>9. CASE ReportAllEvent(c) BY <2>9 DEF ReportAllEvent, OnceGuardsBody
  <2> QED BY <1>4, <2>1, <2>2, <2>3, <2>4, <2>5, <2>6, <2>7, <2>8, <2>9 DEF Body
<1>5. ASSUME NEW c \in Cmds, UserCode(c) PROVE AnswersFollowBody'
  <2>1. CASE RunReturns(c) BY <2>1 DEF RunReturns, outVars
  <2>2. CASE FallbackSucceeds(c) BY <2>2 DEF FallbackSucceeds, outVars
  <2>3. CASE FallbackFails(c)
    <3>1. events[c] \in Seq(Events) /\ "fallback-failure" \in Events BY DEF Events
    <3>2. Append(events[c], "fallback-failure") # <<>> BY <3>1, AppendNonEmpty
    <3> QED BY <2>3, <3>2 DEF FallbackFails
  <2> QED BY <1>5, <2>1, <2>2, <2>3 DEF UserCode
<1>6. CASE MonitorApply BY <1>6 DEF MonitorApply, cmdVars, outVars
<1>7. CASE ResetPoolMetrics BY <1>7 DEF ResetPoolMetrics, cmdVars, outVars
<1>8. CASE UNCHANGED vars BY <1>8 DEF vars, cmdVars, outVars
<1> QED BY <1>1, <1>2, <1>3, <1>4, <1>5, <1>6, <1>7, <1>8 DEF Next

-----------------------------------------------------------------------------
(* The pool *)

\* A step that leaves the pool and the abstract phase of every execution alone.
Quiet ==
  /\ ticket' = ticket
  /\ pool' = pool
  /\ \A c \in Cmds : /\ body'[c] \in Holding <=> body[c] \in Holding
                     /\ Failed(c)' <=> Failed(c)

\* The caller of an execution that has failed takes the error from errChan; what
\* it takes from done makes no difference to that.
LEMMA CallerQuiet ==
  ASSUME TypeOK, NEW d \in Cmds, Caller(d)
  PROVE  Quiet
<1>1. UNCHANGED <<ticket, pool, body>>
  BY DEF Caller, CallerDone, CallerErr, cmdVars, poolVars
<1>2. ASSUME NEW c \in Cmds, CallerErr(d) PROVE Failed(c)' <=> Failed(c)
  <2>1. CASE c = d
    <3>1. errChan[d] \in Seq(Answers) /\ errChan[d] # <<>> BY <1>2 DEF TypeOK, CallerErr
    <3>2. Head(errChan[d]) \in Answers BY <3>1
    <3>3. result'[d] = Head(errChan[d]) BY <1>2 DEF CallerErr, TypeOK
    <3> QED BY <2>1, <3>1, <3>2, <3>3 DEF Failed
  <2>2. CASE c # d BY <1>2, <2>2 DEF CallerErr, Failed, TypeOK
  <2> QED BY <2>1, <2>2
<1>3. ASSUME NEW c \in Cmds, CallerDone(d) PROVE Failed(c)' <=> Failed(c)
  <2>1. errChan' = errChan /\ (result'[c] = result[c] \/ (result[c] = "pending" /\ result'[c] = "nil"))
    BY <1>3 DEF CallerDone, TypeOK
  <2> QED BY <2>1 DEF Failed, Answers, Errors, CtxErrs
<1> QED BY <1>1, <1>2, <1>3 DEF Quiet, Caller

\* Four operations of an execution matter to the pool; the others, on whatever
\* goroutine, are quiet.
LEMMA PoolStep ==
  ASSUME CommandInv, [Next]_vars
  PROVE  \/ Quiet
         \/ \E c \in Cmds : AcquireTicket(c) \/ ReturnTicket(c) \/ PutTicket(c) \/ DeliverError(c)
<1> USE DEF Quiet, Holding, Failed, CommandInv, TypeOK
<1>1. ASSUME NEW c \in Cmds, GoC(c) \/ CtxDone(c) PROVE Quiet
  BY <1>1 DEF GoC, CtxDone, poolVars, outVars
<1>2. ASSUME NEW c \in Cmds, Main(c), ~AcquireTicket(c) PROVE Quiet
  <2>1. CASE AllowRequest(c) \/ RunAnnounces(c) \/ MainFinish(c)
    BY <2>1 DEF AllowRequest, RunAnnounces, MainFinish, poolVars, outVars
  <2>2. CASE ShortCircuit(c) BY <2>2 DEF ShortCircuit, CheckTicket, outVars
  <2>3. CASE RejectMaxConcurrency(c) BY <2>3 DEF RejectMaxConcurrency, CheckTicket, outVars
  <2>4. CASE MainDo(c) BY <2>4 DEF MainDo, poolVars, outVars, OnceGuardsBody
  <2> QED BY <1>2, <2>1, <2>2, <2>3, <2>4 DEF Main
<1>3. ASSUME NEW c \in Cmds, Watch(c) PROVE Quiet
  <2>1. CASE WatchFinished(c) \/ WatchCtx(c) \/ WatchTimeout(c)
    BY <2>1 DEF WatchFinished, WatchCtx, WatchTimeout, poolVars, outVars
  <2>2. CASE WatchDo(c) BY <2>2 DEF WatchDo, poolVars, outVars, OnceGuardsBody
  <2> QED BY <1>3, <2>1, <2>2 DEF Watch
<1>4. ASSUME NEW c \in Cmds, Body(c), ~ReturnTicket(c), ~PutTicket(c), ~DeliverError(c)
      PROVE  Quiet
  <2>1. CASE LockForReturn(c) BY <2>1 DEF LockForReturn, poolVars, outVars
  <2>2. CASE SendPoolUpdate(c) BY <2>2 DEF SendPoolUpdate, outVars
  <2>3. CASE RecordEvent(c) BY <2>3 DEF RecordEvent, poolVars
  <2>4. CASE FallbackAnnounces(c) BY <2>4 DEF FallbackAnnounces, poolVars
  <2>5. CASE RecordFallbackSuccess(c) BY <2>5 DEF RecordFallbackSuccess, poolVars
  <2>6. CASE ReportAllEvent(c) BY <2>6 DEF ReportAllEvent, poolVars
  <2> QED BY <1>4, <2>1, <2>2, <2>3, <2>4, <2>5, <2>6 DEF Body
<1>5. ASSUME NEW c \in Cmds, UserCode(c) PROVE Quiet
  <2>1. CASE RunReturns(c) BY <2>1 DEF RunReturns, poolVars, outVars
  <2>2. CASE FallbackSucceeds(c) BY <2>2 DEF FallbackSucceeds, poolVars, outVars
  <2>3. CASE FallbackFails(c) BY <2>3 DEF FallbackFails, poolVars
  <2> QED BY <1>5, <2>1, <2>2, <2>3 DEF UserCode
<1>6. CASE MonitorApply \/ ResetPoolMetrics
  BY <1>6 DEF MonitorApply, ResetPoolMetrics, cmdVars, outVars
<1>7. CASE UNCHANGED vars BY <1>7 DEF vars, cmdVars, poolVars, outVars
<1>8. ASSUME NEW c \in Cmds, Caller(c) PROVE Quiet
  BY <1>8, CallerQuiet
<1> HIDE DEF Quiet, CommandInv
<1> QED BY <1>1, <1>2, <1>3, <1>4, <1>5, <1>6, <1>7, <1>8 DEF Next

\* Each step conserves the tickets: only AcquireTicket takes one from the
\* channel, and only PutTicket puts the holder's own back.
LEMMA TicketsStep == CommandInv /\ [Next]_vars => TicketsConserved'
<1> SUFFICES ASSUME CommandInv, [Next]_vars PROVE TicketsConserved'
  OBVIOUS
<1> USE DEF TicketsConserved, Holds, Holding
<1>1. CASE Quiet BY <1>1 DEF Quiet, CommandInv
<1>2. ASSUME NEW c \in Cmds, AcquireTicket(c) PROVE TicketsConserved'
  <2>1. PICK t \in pool : /\ ticket' = [ticket EXCEPT ![c] = t]
                          /\ pool' = pool \ {t}
    BY <1>2 DEF AcquireTicket
  <2>2. /\ body[c] \in {"none", "lock", "wait"} /\ ticket[c] = NoTicket
        /\ body'[c] \in {"none", "lock"}
        /\ \A d \in Cmds : d # c => body'[d] = body[d]
    BY <1>2 DEF AcquireTicket, CheckTicket, CommandInv, CheckedIsDecided,
                BodyAfterCheck, TypeOK, BodyPC
  <2>3. t \in Tickets /\ t # NoTicket
    BY <2>1, CommandAssumption DEF CommandInv, TypeOK
  <2>4. ticket'[c] = t /\ \A d \in Cmds : d # c => ticket'[d] = ticket[d]
    BY <2>1 DEF CommandInv, TypeOK
  <2>5. ~Holds(c) /\ Holds(c)' /\ \A d \in Cmds : d # c => (Holds(d)' <=> Holds(d))
    BY <2>2, <2>3, <2>4
  <2>6. \A d \in Cmds : Holds(d) => ticket[d] \notin pool
    BY DEF CommandInv
  <2> HIDE DEF Holds
  <2>7. \A u \in Tickets : u \notin pool' => \E d \in Cmds : Holds(d)' /\ ticket'[d] = u
    BY <2>1, <2>4, <2>5 DEF CommandInv
  <2>8. \A d \in Cmds : Holds(d)' => ticket'[d] \notin pool'
    BY <2>1, <2>4, <2>5, <2>6
  <2>9. \A d, e \in Cmds : Holds(d)' /\ Holds(e)' /\ ticket'[d] = ticket'[e] => d = e
    BY <2>1, <2>4, <2>5, <2>6 DEF CommandInv
  <2> QED BY <2>7, <2>8, <2>9
<1>3. ASSUME NEW c \in Cmds, ReturnTicket(c) PROVE TicketsConserved'
  <2>1. /\ body[c] = "return" /\ ticket' = ticket /\ pool' = pool
        /\ \A d \in Cmds : d # c => body'[d] = body[d]
        /\ ticket[c] # NoTicket => body'[c] = "sending"
    BY <1>3 DEF ReturnTicket, CommandInv, TypeOK
  <2> QED BY <2>1 DEF CommandInv
<1>4. ASSUME NEW c \in Cmds, PutTicket(c) PROVE TicketsConserved'
  <2>1. /\ body[c] = "put" /\ ticket' = ticket /\ pool' = pool \cup {ticket[c]}
        /\ body'[c] = "event" /\ ticket[c] # NoTicket
        /\ \A d \in Cmds : d # c => body'[d] = body[d]
    BY <1>4 DEF PutTicket, CommandInv, TypeOK, BodyAfterCheck
  <2> QED BY <2>1 DEF CommandInv
<1>5. ASSUME NEW c \in Cmds, DeliverError(c) PROVE TicketsConserved'
  <2>1. /\ body[c] = "deliver" /\ ticket' = ticket /\ pool' = pool
        /\ body'[c] = "report"
        /\ \A d \in Cmds : d # c => body'[d] = body[d]
    BY <1>5 DEF DeliverError, CommandInv, TypeOK, poolVars
  <2> QED BY <2>1 DEF CommandInv
<1> QED BY <1>1, <1>2, <1>3, <1>4, <1>5, PoolStep

\* The strengthened invariant holds initially.
LEMMA InitInv == Init => CommandInv
BY CommandAssumption
   DEF Init, CommandInv, TypeOK, CheckedIsDecided, BodyAfterCheck, OnceGuardsBody,
       CauseIsError, AnswersFollowBody, Failed, TicketsConserved, Holds, Answers, Errors,
       CtxErrs, MainPC, WatchPC, BodyPC

\* CommandInv is an invariant of every execution of GoC and DoC.
THEOREM CommandInvariant == Spec => []CommandInv
<1>1. CommandInv /\ [Next]_vars => CommandInv'
  BY TypeStep, ControlStep, AnswersStep, TicketsStep DEF CommandInv
<1> QED BY InitInv, <1>1, PTL DEF Spec

\* Whatever the number of executions and tickets, and however acquiring, timing
\* out and returning interleave, no ticket of the pool is lost or duplicated.
THEOREM Conservation == Spec => []TicketsConserved
<1>1. CommandInv => TicketsConserved BY DEF CommandInv
<1> QED BY CommandInvariant, <1>1, PTL

-----------------------------------------------------------------------------
(* The channels and the active count *)

\* errChan, finished and the pool have room whenever the code sends to them
\* without a select: the invariant says what has been sent before.
THEOREM RoomForSends == Spec => []SendsNeverBlock
<1>1. ASSUME CommandInv, NEW c \in Cmds
      PROVE  /\ body[c] = "deliver" => errChan[c] = <<>>
             /\ main[c] = "finish" => ~finished[c]
             /\ body[c] = "put" => pool # Tickets
  <2>1. (body[c] = "deliver" => errChan[c] = <<>>) /\ (main[c] = "finish" => ~finished[c])
    BY <1>1 DEF CommandInv, AnswersFollowBody, Failed
  <2>2. ASSUME body[c] = "put" PROVE pool # Tickets
    <3>1. Holds(c) /\ ticket[c] \in Tickets
      BY <1>1, <2>2 DEF CommandInv, BodyAfterCheck, Holds, Holding, TypeOK
    <3>2. ticket[c] \notin pool
      BY <1>1, <3>1 DEF CommandInv, TicketsConserved
    <3> QED BY <3>1, <3>2
  <2> QED BY <2>1, <2>2
<1>2. CommandInv => SendsNeverBlock BY <1>1 DEF SendsNeverBlock
<1> QED BY CommandInvariant, <1>2, PTL

\* The counts on their way to the monitor, and the maximum it keeps.
CountInv == ActiveCountSound /\ maxActive \in 0..Max

\* An execution that returns its ticket counts itself, and tickets at most.
LEMMA CountOfHolder ==
  ASSUME CommandInv, NEW c \in Cmds, Holds(c)
  PROVE  ActiveCount \in 1..Max
<1>1. pool \subseteq Tickets /\ ticket[c] \in Tickets \ pool
  BY DEF CommandInv, TypeOK, TicketsConserved, Holds
<1>2. IsFiniteSet(Tickets) BY CommandAssumption
<1>3. Cardinality(pool) \in Nat /\ Cardinality(Tickets) \in Nat
  BY <1>1, <1>2, FS_Subset, FS_CardinalityType
<1>4. Cardinality(pool) < Cardinality(Tickets)
  <2>1. Cardinality(pool) <= Cardinality(Tickets) /\ (Cardinality(pool) = Cardinality(Tickets) => pool = Tickets)
    BY <1>1, <1>2, FS_Subset
  <2> QED BY <1>1, <1>3, <2>1
<1> QED BY <1>3, <1>4 DEF ActiveCount, Max

\* Only returnTicket evaluates a count, and it does so before it gives the
\* ticket back; a Reset may come at any time.
LEMMA CountStep == CommandInv /\ CountInv /\ [Next]_vars => CountInv'
<1> SUFFICES ASSUME CommandInv, CountInv, [Next]_vars PROVE CountInv'
  OBVIOUS
<1>1. Max \in Nat BY CommandAssumption, FS_CardinalityType DEF Max
<1>2. ASSUME NEW c \in Cmds, ReturnTicket(c) PROVE CountInv'
  <2>1. CASE ticket[c] = NoTicket
    BY <1>2, <2>1 DEF ReturnTicket, CountInv, ActiveCountSound, CommandInv, TypeOK
  <2>2. CASE ticket[c] # NoTicket
    <3>1. Holds(c) BY <1>2, <2>2 DEF ReturnTicket, Holds, Holding
    <3>2. ActiveCount \in 1..Max BY <3>1, CountOfHolder
    <3>3. /\ active' = [active EXCEPT ![c] = ActiveCount] /\ body' = [body EXCEPT ![c] = "sending"]
          /\ UNCHANGED <<monitor, executed, maxActive>>
      BY <1>2, <2>2 DEF ReturnTicket
    <3> QED BY <3>2, <3>3 DEF CountInv, ActiveCountSound, CommandInv, TypeOK
  <2> QED BY <2>1, <2>2
<1>3. ASSUME NEW c \in Cmds, SendPoolUpdate(c) PROVE CountInv'
  BY <1>3 DEF SendPoolUpdate, CountInv, ActiveCountSound, CommandInv, TypeOK
<1>4. CASE MonitorApply
  BY <1>1, <1>4 DEF MonitorApply, cmdVars, CountInv, ActiveCountSound, CommandInv, TypeOK
<1>5. CASE ResetPoolMetrics
  BY <1>1, <1>5 DEF ResetPoolMetrics, cmdVars, CountInv, ActiveCountSound
<1>6. ASSUME UNCHANGED <<active, monitor, executed, maxActive>>,
             \A c \in Cmds : body'[c] = "sending" => body[c] = "sending"
      PROVE  CountInv'
  BY <1>6 DEF CountInv, ActiveCountSound
<1>7. ASSUME NEW c \in Cmds,
             GoC(c) \/ CtxDone(c) \/ Caller(c) \/ Main(c) \/ Watch(c) \/ UserCode(c)
      PROVE  CountInv'
  <2> USE DEF CommandInv, TypeOK, poolVars
  <2>1. CASE GoC(c) \/ CtxDone(c) \/ Caller(c)
    BY <1>6, <2>1 DEF GoC, CtxDone, Caller, CallerDone, CallerErr, cmdVars
  <2>2. CASE AllowRequest(c) \/ RunAnnounces(c) \/ MainFinish(c) \/ MainDo(c)
    BY <1>6, <2>2 DEF AllowRequest, RunAnnounces, MainFinish, MainDo
  <2>3. CASE ShortCircuit(c) \/ RejectMaxConcurrency(c) \/ AcquireTicket(c)
    BY <1>6, <2>3 DEF ShortCircuit, RejectMaxConcurrency, AcquireTicket, CheckTicket
  <2>4. CASE Watch(c)
    BY <1>6, <2>4 DEF Watch, WatchFinished, WatchCtx, WatchTimeout, WatchDo
  <2>5. CASE UserCode(c)
    BY <1>6, <2>5 DEF UserCode, RunReturns, FallbackSucceeds, FallbackFails
  <2> QED BY <1>7, <2>1, <2>2, <2>3, <2>4, <2>5 DEF Main
<1>8. ASSUME NEW c \in Cmds, Body(c), ~ReturnTicket(c), ~SendPoolUpdate(c) PROVE CountInv'
  BY <1>6, <1>8 DEF Body, LockForReturn, PutTicket, RecordEvent, FallbackAnnounces,
     RecordFallbackSuccess, DeliverError, ReportAllEvent, poolVars, CommandInv, TypeOK
<1>9. CASE UNCHANGED vars BY <1>6, <1>9 DEF vars, cmdVars, poolVars
<1> QED BY <1>2, <1>3, <1>4, <1>5, <1>7, <1>8, <1>9 DEF Next

\* pool_metrics.go: an active count is between one and the number of tickets,
\* however long its send blocks and whatever Flush resets.
THEOREM CountsBounded == Spec => []ActiveCountSound
<1>1. Init => CountInv
  BY CommandAssumption, FS_CardinalityType DEF Init, CountInv, ActiveCountSound, Max
<1>2. CountInv => ActiveCountSound BY DEF CountInv
<1> QED BY CommandInvariant, CountStep, <1>1, <1>2, PTL DEF Spec

-----------------------------------------------------------------------------
(* One outcome *)

\* The events of an execution by the stage of the closing sequence.
Recorded(c) ==
  LET first == EventType[Cause(c)] IN
  /\ body[c] \in Holding \cup {"event"} => events[c] = <<>>
  /\ body[c] \in {"fallback", "announce", "fallbackOk"} =>
       events[c] = <<first>> /\ c \in WithFallback
  /\ body[c] = "deliver" =>
       IF c \in WithFallback THEN Len(events[c]) = 2 /\ events[c][2] = "fallback-failure"
       ELSE events[c] = <<first>>
  /\ body[c] \in {"report", "over"} => Len(events[c]) \in 1..2
  /\ reports[c] = IF body[c] = "over" THEN <<events[c]>> ELSE <<>>

\* The events that go with an error.
Explains(err, c) ==
  /\ err \in Errors => events[c] = <<EventType[err]>>
  /\ err = "fallbackFailed" => Len(events[c]) = 2 /\ events[c][2] = "fallback-failure"

\* The error on its way to the caller, and the one it has got.
Delivered(c) ==
  /\ errChan[c] # <<>> => Len(errChan[c]) = 1 /\ Explains(errChan[c][1], c)
  /\ result[c] \in Answers => Explains(result[c], c)

\* What DoC's done channel says: the function or its fallback has succeeded.
Announced(c) ==
  /\ main[c] \in {"run", "announce"} => ticket[c] # NoTicket
  /\ main[c] = "announce" => mainErr[c] = "nil"
  /\ done[c] \/ result[c] = "nil" =>
       \/ /\ mainErr[c] = "nil" /\ ticket[c] # NoTicket
          /\ main[c] \in {"do", "inOnce", "finish", "end"}
       \/ Len(events[c]) = 2 /\ events[c][2] = "fallback-success"
       \/ body[c] = "fallbackOk"

\* The second goroutine closes an execution for a timeout or for its context
\* only; so while main has no error, the first event is one of NilEvents.
NilRecorded(c) ==
  /\ watchErr[c] \in {"nil", "timeout"} \cup CtxErrs
  /\ main[c] \in {"idle", "allow", "short", "acquire", "run"} => mainErr[c] = "nil"
  /\ mainErr[c] = "nil" /\ events[c] # <<>> => events[c][1] \in NilEvents

OutcomeInv ==
  \A c \in Cmds : Recorded(c) /\ Delivered(c) /\ Announced(c) /\ NilRecorded(c)

\* What the events of an execution depend on.
Unrecorded(c) ==
  /\ UNCHANGED <<body[c], events[c], reports[c]>>
  /\ body[c] \in {"fallback", "announce", "fallbackOk", "deliver"} => UNCHANGED Cause(c)

\* The goroutine inside returnOnce keeps the error it brought.
LEMMA CauseKept ==
  ASSUME CommandInv, NEW c \in Cmds, once[c] \in {"main", "watch"}, once'[c] = once[c],
         main[c] = "inOnce" => mainErr'[c] = mainErr[c],
         watch[c] = "inOnce" => watchErr'[c] = watchErr[c]
  PROVE  Cause(c)' = Cause(c)
BY DEF CommandInv, OnceGuardsBody, Cause

\* The operations of the closing sequence that record something, or pass from
\* one stage to another.
LEMMA RecordedStep ==
  ASSUME CommandInv, [Next]_vars, NEW d \in Cmds, Recorded(d)
  PROVE  Recorded(d)'
<1> USE DEF CommandInv, TypeOK
<1>1. ASSUME Unrecorded(d) PROVE Recorded(d)'
  BY <1>1 DEF Unrecorded, Recorded
<1>2. ASSUME NEW c \in Cmds, RecordEvent(c), c = d PROVE Recorded(d)'
  <2>1. Cause(d)' = Cause(d) BY <1>2 DEF RecordEvent, Cause
  <2>2. events[d] = <<>> /\ events'[d] = <<EventType[Cause(d)]>> /\ body[d] = "event" /\ reports'[d] = <<>>
    BY <1>2 DEF RecordEvent, Recorded
  <2>3. body'[d] = IF Cause(d) = "nil" THEN "report"
                   ELSE IF d \in WithFallback THEN "fallback" ELSE "deliver"
    BY <1>2 DEF RecordEvent
  <2> QED BY <2>1, <2>2, <2>3 DEF Recorded, Holding
<1>3. ASSUME NEW c \in Cmds, FallbackFails(c), c = d PROVE Recorded(d)'
  <2>1. Cause(d)' = Cause(d) BY <1>3 DEF FallbackFails, Cause
  <2>2. /\ events[d] = <<EventType[Cause(d)]>> /\ d \in WithFallback
        /\ events'[d] = Append(events[d], "fallback-failure")
        /\ body'[d] = "deliver" /\ reports'[d] = <<>>
    BY <1>3 DEF FallbackFails, Recorded
  <2>3. Len(events'[d]) = 2 /\ events'[d][2] = "fallback-failure"
    <3>1. Len(events[d]) = 1 /\ events[d] \in Seq(Events) BY <2>2
    <3> QED BY <2>2, <3>1
  <2> QED BY <2>1, <2>2, <2>3 DEF Recorded, Holding
<1>4. ASSUME NEW c \in Cmds, RecordFallbackSuccess(c), c = d PROVE Recorded(d)'
  <2>1. /\ events[d] = <<EventType[Cause(d)]>>
        /\ events'[d] = Append(events[d], "fallback-success")
        /\ body'[d] = "report" /\ reports'[d] = <<>>
    BY <1>4 DEF RecordFallbackSuccess, Recorded
  <2>2. Len(events'[d]) = 2 BY <2>1
  <2> QED BY <2>1, <2>2 DEF Recorded, Holding
<1>5. ASSUME NEW c \in Cmds, ReportAllEvent(c), c = d PROVE Recorded(d)'
  <2>1. /\ Len(events'[d]) \in 1..2 /\ body'[d] = "over"
        /\ reports[d] = <<>> /\ reports'[d] = Append(reports[d], events'[d])
    BY <1>5 DEF ReportAllEvent, Recorded
  <2>2. reports'[d] = <<events'[d]>> BY <2>1
  <2> QED BY <2>1, <2>2 DEF Recorded, Holding
<1>6. ASSUME NEW c \in Cmds, DeliverError(c), c = d PROVE Recorded(d)'
  <2>1. /\ events'[d] = events[d] /\ body'[d] = "report" /\ reports'[d] = <<>>
        /\ Len(events[d]) = 2 \/ events[d] = <<EventType[Cause(d)]>>
    BY <1>6 DEF DeliverError, Recorded
  <2>2. Len(events'[d]) \in 1..2
    <3>1. Len(<<EventType[Cause(d)]>>) = 1 OBVIOUS
    <3>2. Len(events[d]) = 1 \/ Len(events[d]) = 2 BY ONLY <2>1, <3>1, Zenon
    <3> QED BY ONLY <2>1, <3>2
  <2> QED BY <2>1, <2>2 DEF Recorded, Holding
<1>7. ASSUME NEW c \in Cmds, FallbackSucceeds(c) \/ FallbackAnnounces(c), c = d PROVE Recorded(d)'
  BY <1>7 DEF FallbackSucceeds, FallbackAnnounces, Recorded, Holding, Cause, outVars
<1>8. ASSUME body[d] \in Holding, body'[d] \in Holding \cup {"event"}, UNCHANGED <<events[d], reports[d]>>
      PROVE  Recorded(d)'
  BY <1>8 DEF Recorded, Holding
<1>9. ASSUME NEW c \in Cmds,
             GoC(c) \/ CtxDone(c) \/ Caller(c) \/ Main(c) \/ Watch(c) \/ RunReturns(c)
      PROVE  Recorded(d)'
  <2> USE DEF poolVars, outVars, cmdVars
  <2>1. UNCHANGED <<events, reports>>
    BY <1>9 DEF GoC, CtxDone, Caller, CallerDone, CallerErr, Main, AllowRequest, ShortCircuit,
       AcquireTicket, RejectMaxConcurrency, RunAnnounces, MainDo, MainFinish, Watch, WatchFinished,
       WatchCtx, WatchTimeout, WatchDo, RunReturns
  <2>2. CASE MainDo(c) \/ WatchDo(c)
    <3>1. once[c] = "free" => body[c] = "none" BY DEF OnceGuardsBody
    <3>2. UNCHANGED body \/ (body[c] = "none" /\ body' = [body EXCEPT ![c] = "lock"])
      BY <2>2, <3>1 DEF MainDo, WatchDo
    <3>3. CASE UNCHANGED body
      <4>1. UNCHANGED <<once, mainErr, watchErr>>
        BY <2>2, <3>3, <3>1 DEF MainDo, WatchDo
      <4> QED BY <1>1, <2>1, <3>3, <4>1 DEF Unrecorded, Cause
    <3>4. CASE body[c] = "none" /\ body' = [body EXCEPT ![c] = "lock"]
      <4>1. CASE c = d BY <1>8, <2>1, <3>4, <4>1 DEF Holding
      <4>2. CASE c # d
        <5>1. UNCHANGED <<once[d], mainErr, watchErr, body[d]>>
          BY <2>2, <3>4, <4>2 DEF MainDo, WatchDo
        <5> QED BY <1>1, <2>1, <5>1 DEF Unrecorded, Cause
      <4> QED BY <4>1, <4>2
    <3> QED BY <3>2, <3>3, <3>4
  <2>3. CASE ~MainDo(c) /\ ~WatchDo(c)
    <3>1. UNCHANGED once
      BY <1>9, <2>3 DEF GoC, CtxDone, Caller, CallerDone, CallerErr, Main, AllowRequest, ShortCircuit,
         AcquireTicket, RejectMaxConcurrency, RunAnnounces, MainFinish, Watch, WatchFinished,
         WatchCtx, WatchTimeout, RunReturns
    <3>2. body'[d] = body[d] \/ (body[d] = "wait" /\ body'[d] = "lock")
      BY <1>9, <2>3 DEF GoC, CtxDone, Caller, CallerDone, CallerErr, Main, AllowRequest, ShortCircuit,
         AcquireTicket, RejectMaxConcurrency, CheckTicket, RunAnnounces, MainFinish, Watch, WatchFinished,
         WatchCtx, WatchTimeout, RunReturns
    <3>3. (main[d] = "inOnce" => mainErr'[d] = mainErr[d]) /\ (watch[d] = "inOnce" => watchErr'[d] = watchErr[d])
      BY <1>9, <2>3 DEF GoC, CtxDone, Caller, CallerDone, CallerErr, Main, AllowRequest, ShortCircuit,
         AcquireTicket, RejectMaxConcurrency, RunAnnounces, MainFinish, Watch, WatchFinished,
         WatchCtx, WatchTimeout, RunReturns
    <3>4. CASE body'[d] = body[d]
      <4>1. body[d] \in {"fallback", "announce", "fallbackOk", "deliver"} => once[d] \in {"main", "watch"}
        BY DEF OnceGuardsBody
      <4>2. body[d] \in {"fallback", "announce", "fallbackOk", "deliver"} => Cause(d)' = Cause(d)
        BY <3>1, <3>3, <4>1, CauseKept
      <4> QED BY <1>1, <2>1, <3>4, <4>2 DEF Unrecorded
    <3>5. CASE body[d] = "wait" /\ body'[d] = "lock"
      BY <1>8, <2>1, <3>5 DEF Holding
    <3> QED BY <3>2, <3>4, <3>5
  <2> QED BY <2>2, <2>3
<1>10. ASSUME NEW c \in Cmds, LockForReturn(c) \/ ReturnTicket(c) \/ SendPoolUpdate(c) \/ PutTicket(c), c = d
       PROVE  Recorded(d)'
  <2>1. UNCHANGED <<events, reports>>
    BY <1>10 DEF LockForReturn, ReturnTicket, SendPoolUpdate, PutTicket, outVars
  <2>2. body[d] \in Holding /\ body'[d] \in Holding \cup {"event"}
    BY <1>10 DEF LockForReturn, ReturnTicket, SendPoolUpdate, PutTicket, Holding
  <2> QED BY <1>8, <2>1, <2>2
<1>11. ASSUME NEW c \in Cmds, Body(c) \/ FallbackSucceeds(c) \/ FallbackFails(c), c # d
       PROVE  Recorded(d)'
  <2>1. UNCHANGED <<body[d], events[d], reports[d], once[d], mainErr, watchErr>>
    BY <1>11 DEF Body, LockForReturn, ReturnTicket, SendPoolUpdate, PutTicket, RecordEvent,
       FallbackAnnounces, RecordFallbackSuccess, DeliverError, ReportAllEvent, FallbackSucceeds,
       FallbackFails, outVars
  <2> QED BY <1>1, <2>1 DEF Unrecorded, Cause
<1>12. CASE MonitorApply \/ ResetPoolMetrics \/ UNCHANGED vars
  BY <1>1, <1>12 DEF MonitorApply, ResetPoolMetrics, vars, cmdVars, outVars, Unrecorded, Cause
<1> QED
  BY <1>2, <1>3, <1>4, <1>5, <1>6, <1>7, <1>9, <1>10, <1>11, <1>12 DEF Next, UserCode, Body

\* A channel with one value is empty when the value has been received.
LEMMA TailOfOne == ASSUME NEW S, NEW s \in Seq(S), Len(s) = 1 PROVE Tail(s) = <<>>
<1>1. s # <<>> OBVIOUS
<1>2. Tail(s) \in Seq(S) /\ Len(Tail(s)) = 0 BY <1>1, HeadTailProperties
<1> QED BY <1>2, EmptySeq

\* An error is delivered once, with the events that go with it; the caller takes
\* it from errChan as it is.
LEMMA DeliveredStep ==
  ASSUME CommandInv, [Next]_vars, NEW d \in Cmds, Recorded(d), Delivered(d)
  PROVE  Delivered(d)'
<1> USE DEF CommandInv, TypeOK
<1>1. errChan[d] # <<>> \/ result[d] \in Answers => body[d] \in {"report", "over"}
  BY DEF AnswersFollowBody, Failed
<1>2. ASSUME UNCHANGED <<errChan[d], result[d], events[d]>> PROVE Delivered(d)'
  BY <1>2 DEF Delivered, Explains
<1>3. ASSUME UNCHANGED <<errChan[d], result[d]>>, body[d] \notin {"report", "over"}
      PROVE  Delivered(d)'
  BY <1>1, <1>3 DEF Delivered
<1>4. ASSUME NEW c \in Cmds, DeliverError(c), c = d PROVE Delivered(d)'
  <2> DEFINE err == IF d \in WithFallback THEN "fallbackFailed" ELSE Cause(d)
  <2>1. errChan[d] = <<>> /\ result[d] \notin Answers
    BY <1>1, <1>4 DEF DeliverError
  <2>2. errChan'[d] = Append(errChan[d], err) /\ result' = result /\ events' = events
    BY <1>4 DEF DeliverError
  <2>3. Explains(err, d)
    <3>1. "fallbackFailed" \notin Errors \cup {"nil"} BY DEF Errors, CtxErrs
    <3>2. CASE d \in WithFallback
      BY <1>4, <3>1, <3>2 DEF DeliverError, Recorded, Explains
    <3>3. CASE d \notin WithFallback
      <4>1. events[d] = <<EventType[Cause(d)]>> /\ err = Cause(d)
        BY <1>4, <3>3 DEF DeliverError, Recorded
      <4>2. err # "fallbackFailed" BY <3>1, <4>1, CauseType
      <4> QED BY <4>1, <4>2 DEF Explains
    <3> QED BY <3>2, <3>3
  <2> HIDE DEF err
  <2>4. Len(errChan'[d]) = 1 /\ errChan'[d][1] = err
    BY <2>1, <2>2
  <2> QED BY <2>1, <2>2, <2>3, <2>4 DEF Delivered, Explains
<1>5. ASSUME NEW c \in Cmds, CallerErr(c), c = d PROVE Delivered(d)'
  <2>1. errChan[d] \in Seq(Answers) /\ Len(errChan[d]) = 1 /\ Explains(errChan[d][1], d)
    BY <1>5 DEF CallerErr, Delivered
  <2>2. result'[d] = errChan[d][1] /\ events' = events /\ errChan'[d] = Tail(errChan[d])
    BY <1>5, <2>1 DEF CallerErr
  <2>3. errChan'[d] = <<>>
    <3>1. Tail(errChan[d]) = <<>> BY ONLY <2>1, TailOfOne
    <3> QED BY <2>2, <3>1
  <2> QED BY <2>1, <2>2, <2>3 DEF Delivered, Explains
<1>6. ASSUME NEW c \in Cmds, CallerDone(c) PROVE Delivered(d)'
  <2>1. result'[d] = result[d] \/ result'[d] = "nil" BY <1>6 DEF CallerDone
  <2> QED BY <1>6, <2>1 DEF CallerDone, Delivered, Explains, Answers, Errors, CtxErrs
<1>7. ASSUME NEW c \in Cmds, CallerErr(c) \/ DeliverError(c), c # d PROVE Delivered(d)'
  BY <1>2, <1>7 DEF CallerErr, DeliverError
<1>8. ASSUME NEW c \in Cmds, RecordEvent(c) \/ RecordFallbackSuccess(c) \/ FallbackFails(c)
      PROVE  Delivered(d)'
  <2>1. CASE c = d
    BY <1>3, <1>8, <2>1 DEF RecordEvent, RecordFallbackSuccess, FallbackFails
  <2>2. CASE c # d
    BY <1>2, <1>8, <2>2 DEF RecordEvent, RecordFallbackSuccess, FallbackFails
  <2> QED BY <2>1, <2>2
<1>9. ASSUME NEW c \in Cmds,
             GoC(c) \/ CtxDone(c) \/ Main(c) \/ Watch(c) \/ RunReturns(c) \/ FallbackSucceeds(c)
      PROVE  Delivered(d)'
  BY <1>2, <1>9 DEF GoC, CtxDone, Main, AllowRequest, ShortCircuit,
     AcquireTicket, RejectMaxConcurrency, RunAnnounces, MainDo, MainFinish, Watch, WatchFinished,
     WatchCtx, WatchTimeout, WatchDo, RunReturns, FallbackSucceeds, outVars
<1>10. ASSUME NEW c \in Cmds, Body(c), ~RecordEvent(c), ~RecordFallbackSuccess(c), ~DeliverError(c)
       PROVE  Delivered(d)'
  BY <1>2, <1>10 DEF Body, LockForReturn, ReturnTicket, SendPoolUpdate, PutTicket,
     FallbackAnnounces, ReportAllEvent, outVars
<1>11. CASE MonitorApply \/ ResetPoolMetrics \/ UNCHANGED vars
  BY <1>2, <1>11 DEF MonitorApply, ResetPoolMetrics, vars, outVars
<1> QED
  BY <1>4, <1>5, <1>6, <1>7, <1>8, <1>9, <1>10, <1>11 DEF Next, Caller, UserCode

\* DoC's wrappers announce a success that has taken place, and no other
\* goroutine takes it back.
LEMMA AnnouncedStep ==
  ASSUME CommandInv, [Next]_vars, NEW d \in Cmds, Recorded(d), Announced(d)
  PROVE  Announced(d)'
<1> USE DEF CommandInv, TypeOK, Announced
<1>1. ASSUME UNCHANGED <<main[d], mainErr[d], ticket[d], done[d], result[d], events[d]>>,
             body[d] # "fallbackOk"
      PROVE  Announced(d)'
  BY <1>1
<1>2. ASSUME UNCHANGED <<main[d], mainErr[d], ticket[d], done[d], result[d], events[d], body[d]>>
      PROVE  Announced(d)'
  BY <1>2
<1>3. ASSUME NEW c \in Cmds, GoC(c) \/ CtxDone(c) \/ Watch(c) PROVE Announced(d)'
  <2>1. CASE GoC(c) BY <2>1 DEF GoC, poolVars, outVars
  <2>2. CASE CtxDone(c) BY <2>2 DEF CtxDone, poolVars, outVars
  <2>3. CASE WatchFinished(c) BY <2>3 DEF WatchFinished, poolVars
  <2>4. CASE WatchCtx(c) BY <2>4 DEF WatchCtx, poolVars, outVars
  <2>5. CASE WatchTimeout(c) BY <2>5 DEF WatchTimeout, poolVars, outVars
  <2>6. CASE WatchDo(c) BY <2>6 DEF WatchDo, poolVars, outVars, OnceGuardsBody
  <2> QED BY <1>3, <2>1, <2>2, <2>3, <2>4, <2>5, <2>6 DEF Watch
<1>4. ASSUME NEW c \in Cmds, Caller(c) PROVE Announced(d)'
  <2>1. CASE CallerDone(c) BY <2>1 DEF CallerDone, cmdVars, poolVars
  <2>2. CASE CallerErr(c)
    <3>1. Head(errChan[c]) \in Answers BY <2>2 DEF CallerErr
    <3>2. "nil" \notin Answers BY DEF Answers, Errors, CtxErrs
    <3>3. result'[d] = "nil" => result[d] = "nil" BY <2>2, <3>1, <3>2 DEF CallerErr
    <3> QED BY <2>2, <3>3 DEF CallerErr, cmdVars, poolVars
  <2> QED BY <1>4, <2>1, <2>2 DEF Caller
<1>5. ASSUME NEW c \in Cmds, Main(c) PROVE Announced(d)'
  <2>1. CASE AllowRequest(c) BY <2>1 DEF AllowRequest, poolVars, outVars
  <2>2. CASE ShortCircuit(c) BY <2>2 DEF ShortCircuit, CheckTicket, outVars
  <2>3. CASE AcquireTicket(c)
    BY <2>3, CommandAssumption DEF AcquireTicket, CheckTicket, outVars
  <2>4. CASE RejectMaxConcurrency(c) BY <2>4 DEF RejectMaxConcurrency, CheckTicket, outVars
  <2>5. CASE RunAnnounces(c) BY <2>5 DEF RunAnnounces, poolVars
  <2>6. CASE MainDo(c) BY <2>6 DEF MainDo, poolVars, outVars, OnceGuardsBody
  <2>7. CASE MainFinish(c) BY <2>7 DEF MainFinish, poolVars
  <2> QED BY <1>5, <2>1, <2>2, <2>3, <2>4, <2>5, <2>6, <2>7 DEF Main
<1>6. ASSUME NEW c \in Cmds, UserCode(c) PROVE Announced(d)'
  <2>1. CASE RunReturns(c) BY <2>1 DEF RunReturns, poolVars, outVars
  <2>2. CASE FallbackSucceeds(c) BY <2>2 DEF FallbackSucceeds, poolVars, outVars
  <2>3. CASE FallbackFails(c)
    <3>1. CASE c = d
      <4>1. Len(events[d]) = 1 /\ body[d] = "fallback"
        BY <2>3, <3>1 DEF FallbackFails, Recorded
      <4> QED BY <2>3, <3>1, <4>1 DEF FallbackFails, poolVars
    <3>2. CASE c # d BY <1>2, <2>3, <3>2 DEF FallbackFails, poolVars
    <3> QED BY <3>1, <3>2
  <2> QED BY <1>6, <2>1, <2>2, <2>3 DEF UserCode
<1>7. ASSUME NEW c \in Cmds, Body(c), c = d PROVE Announced(d)'
  <2>1. CASE LockForReturn(c) BY <1>1, <1>7, <2>1 DEF LockForReturn, poolVars, outVars
  <2>2. CASE ReturnTicket(c) BY <1>1, <1>7, <2>2 DEF ReturnTicket, outVars
  <2>3. CASE SendPoolUpdate(c) BY <1>1, <1>7, <2>3 DEF SendPoolUpdate, outVars
  <2>4. CASE PutTicket(c) BY <1>1, <1>7, <2>4 DEF PutTicket, outVars
  <2>5. CASE RecordEvent(c)
    <3>1. events[d] = <<>> /\ body[d] = "event" BY <1>7, <2>5 DEF RecordEvent, Recorded
    <3>2. Len(events[d]) = 0 BY <3>1
    <3> QED BY <1>7, <2>5, <3>1, <3>2 DEF RecordEvent, poolVars
  <2>6. CASE FallbackAnnounces(c) BY <1>7, <2>6 DEF FallbackAnnounces, poolVars
  <2>7. CASE RecordFallbackSuccess(c)
    <3>1. Len(events[d]) = 1 /\ events'[d] = Append(events[d], "fallback-success")
      BY <1>7, <2>7 DEF RecordFallbackSuccess, Recorded
    <3>2. events[d] \in Seq(Events) OBVIOUS
    <3>3. Len(events'[d]) = 2 /\ events'[d][2] = "fallback-success" BY ONLY <3>1, <3>2
    <3> QED BY <1>7, <2>7, <3>3 DEF RecordFallbackSuccess, poolVars
  <2>8. CASE DeliverError(c) BY <1>1, <1>7, <2>8 DEF DeliverError, poolVars
  <2>9. CASE ReportAllEvent(c) BY <1>7, <2>9 DEF ReportAllEvent, poolVars, OnceGuardsBody
  <2> QED BY <1>7, <2>1, <2>2, <2>3, <2>4, <2>5, <2>6, <2>7, <2>8, <2>9 DEF Body
<1>8. ASSUME NEW c \in Cmds, Body(c), c # d PROVE Announced(d)'
  BY <1>2, <1>8 DEF Body, LockForReturn, ReturnTicket, SendPoolUpdate, PutTicket, RecordEvent,
     FallbackAnnounces, RecordFallbackSuccess, DeliverError, ReportAllEvent, poolVars, outVars
<1>9. CASE MonitorApply \/ ResetPoolMetrics \/ UNCHANGED vars
  BY <1>2, <1>9 DEF MonitorApply, ResetPoolMetrics, vars, cmdVars, poolVars, outVars
<1> QED BY <1>3, <1>4, <1>5, <1>6, <1>7, <1>8, <1>9 DEF Next

\* The event that is recorded first is that of the goroutine inside returnOnce,
\* and what main brings to returnOnce is nil until run has returned an error.
LEMMA NilRecordedStep ==
  ASSUME CommandInv, [Next]_vars, NEW d \in Cmds, Recorded(d), NilRecorded(d)
  PROVE  NilRecorded(d)'
<1> USE DEF CommandInv, TypeOK, NilRecorded
<1>1. ASSUME UNCHANGED <<watchErr[d], main[d], mainErr[d], events[d]>> PROVE NilRecorded(d)'
  BY <1>1
<1>2. ASSUME NEW c \in Cmds, GoC(c) \/ CtxDone(c) \/ Caller(c) PROVE NilRecorded(d)'
  <2>1. CASE GoC(c) BY <2>1 DEF GoC, outVars
  <2>2. CASE CtxDone(c) BY <2>2 DEF CtxDone, outVars
  <2>3. CASE CallerDone(c) BY <2>3 DEF CallerDone, cmdVars
  <2>4. CASE CallerErr(c) BY <2>4 DEF CallerErr, cmdVars
  <2> QED BY <1>2, <2>1, <2>2, <2>3, <2>4 DEF Caller
<1>3. ASSUME NEW c \in Cmds, Main(c) PROVE NilRecorded(d)'
  <2>1. CASE AllowRequest(c) BY <2>1 DEF AllowRequest, outVars
  <2>2. CASE ShortCircuit(c) BY <2>2 DEF ShortCircuit, outVars
  <2>3. CASE AcquireTicket(c) BY <2>3 DEF AcquireTicket, outVars
  <2>4. CASE RejectMaxConcurrency(c) BY <2>4 DEF RejectMaxConcurrency, outVars
  <2>5. CASE RunAnnounces(c) BY <2>5 DEF RunAnnounces
  <2>6. CASE MainDo(c) BY <2>6 DEF MainDo, outVars
  <2>7. CASE MainFinish(c) BY <2>7 DEF MainFinish
  <2> QED BY <1>3, <2>1, <2>2, <2>3, <2>4, <2>5, <2>6, <2>7 DEF Main
<1>4. ASSUME NEW c \in Cmds, Watch(c) PROVE NilRecorded(d)'
  <2>1. CASE WatchFinished(c) BY <2>1 DEF WatchFinished
  <2>2. CASE WatchCtx(c) BY <2>2 DEF WatchCtx, outVars
  <2>3. CASE WatchTimeout(c) BY <2>3 DEF WatchTimeout, outVars
  <2>4. CASE WatchDo(c) BY <2>4 DEF WatchDo, outVars
  <2> QED BY <1>4, <2>1, <2>2, <2>3, <2>4 DEF Watch
<1>5. ASSUME NEW c \in Cmds, RunReturns(c) \/ FallbackSucceeds(c) PROVE NilRecorded(d)'
  BY <1>5 DEF RunReturns, FallbackSucceeds, outVars
<1>6. ASSUME NEW c \in Cmds, RecordEvent(c), c = d PROVE NilRecorded(d)'
  <2>1. events[d] = <<>> /\ events'[d] = Append(events[d], EventType[Cause(d)])
        /\ UNCHANGED <<watchErr, main, mainErr>>
    BY <1>6 DEF RecordEvent, Recorded
  <2>2. mainErr[d] = "nil" => EventType[Cause(d)] \in NilEvents
    <3>1. CASE once[d] = "watch"
      <4>1. watchErr[d] \in {"timeout"} \cup CtxErrs /\ Cause(d) = watchErr[d]
        BY <3>1 DEF OnceGuardsBody, CauseIsError, Cause
      <4> QED BY <4>1 DEF EventType, NilEvents, CtxErrs
    <3>2. CASE once[d] # "watch" BY <3>2 DEF Cause, EventType, NilEvents
    <3> QED BY <3>1, <3>2
  <2>3. events'[d][1] = EventType[Cause(d)] BY <2>1
  <2> QED BY <2>1, <2>2, <2>3
<1>7. ASSUME NEW c \in Cmds, RecordFallbackSuccess(c) \/ FallbackFails(c), c = d
      PROVE  NilRecorded(d)'
  <2>1. events[d] \in Seq(Events) /\ events[d] # <<>>
    BY <1>7 DEF RecordFallbackSuccess, FallbackFails, AnswersFollowBody
  <2>2. PICK e \in Events : events'[d] = Append(events[d], e)
    BY <1>7 DEF RecordFallbackSuccess, FallbackFails, Events
  <2>3. events'[d][1] = events[d][1] BY ONLY <2>1, <2>2
  <2>4. UNCHANGED <<watchErr, main, mainErr>>
    BY <1>7 DEF RecordFallbackSuccess, FallbackFails
  <2> QED BY <2>1, <2>3, <2>4
<1>8. ASSUME NEW c \in Cmds, RecordEvent(c) \/ RecordFallbackSuccess(c) \/ FallbackFails(c), c # d
      PROVE  NilRecorded(d)'
  BY <1>1, <1>8 DEF RecordEvent, RecordFallbackSuccess, FallbackFails
<1>9. ASSUME NEW c \in Cmds, Body(c), ~RecordEvent(c), ~RecordFallbackSuccess(c)
      PROVE  NilRecorded(d)'
  <2>1. CASE ReportAllEvent(c) BY <2>1 DEF ReportAllEvent
  <2>2. CASE ~ReportAllEvent(c)
    BY <1>1, <1>9, <2>2 DEF Body, LockForReturn, ReturnTicket, SendPoolUpdate, PutTicket,
       FallbackAnnounces, DeliverError, outVars
  <2> QED BY <2>1, <2>2
<1>10. CASE MonitorApply \/ ResetPoolMetrics \/ UNCHANGED vars
  BY <1>1, <1>10 DEF MonitorApply, ResetPoolMetrics, vars, cmdVars, outVars
<1> QED BY <1>2, <1>3, <1>4, <1>5, <1>6, <1>7, <1>8, <1>9, <1>10 DEF Next, UserCode

\* hystrix.go:106: an execution is reported once, and an error the caller gets is
\* what was reported, whichever goroutine closes it.  A nil answer goes with a
\* success of the fallback, or with a nil that run returned; that one is reported
\* as a success, or as a timeout or an end of the context if these came before.
THEOREM OutcomeIsOne == Spec => []OneOutcome
<1>1. Init => OutcomeInv
  BY DEF Init, OutcomeInv, Recorded, Delivered, Explains, Announced, NilRecorded, Holding, Answers,
         Errors, CtxErrs
<1>2. CommandInv /\ OutcomeInv /\ [Next]_vars => OutcomeInv'
  BY RecordedStep, DeliveredStep, AnnouncedStep, NilRecordedStep DEF OutcomeInv
<1>3. CommandInv /\ OutcomeInv => OneOutcome
  <2> SUFFICES ASSUME CommandInv, OutcomeInv, NEW c \in Cmds
               PROVE  /\ Len(reports[c]) <= 1 /\ Len(events[c]) <= 2
                      /\ reports[c] # <<>> => reports[c] = <<events[c]>>
                      /\ result[c] \in Errors => events[c] = <<EventType[result[c]]>>
                      /\ result[c] = "fallbackFailed" => events[c][2] = "fallback-failure"
                      /\ result[c] = "nil" =>
                           \/ /\ mainErr[c] = "nil" /\ ticket[c] # NoTicket
                              /\ events[c] # <<>> => events[c][1] \in NilEvents
                           \/ Len(events[c]) = 2 /\ events[c][2] = "fallback-success"
                           \/ body[c] = "fallbackOk"
    BY DEF OneOutcome
  <2>1. Recorded(c) /\ Delivered(c) /\ Announced(c) /\ NilRecorded(c) BY DEF OutcomeInv
  <2>2. Len(reports[c]) <= 1 /\ (reports[c] # <<>> => reports[c] = <<events[c]>>)
    BY <2>1 DEF Recorded
  <2>3. Len(events[c]) <= 2
    <3> DEFINE first == EventType[Cause(c)]
    <3>1. body[c] \in BodyPC BY DEF CommandInv, TypeOK
    <3>2. events[c] = <<>> \/ events[c] = <<first>> \/ Len(events[c]) = 2 \/ Len(events[c]) \in 1..2
      BY <2>1, <3>1 DEF Recorded, BodyPC, Holding
    <3>3. Len(<<>>) = 0 /\ Len(<<first>>) = 1 OBVIOUS
    <3> HIDE DEF first
    <3>4. Len(events[c]) = 0 \/ Len(events[c]) = 1 \/ Len(events[c]) = 2 \/ Len(events[c]) \in 1..2
      BY ONLY <3>2, <3>3, Zenon
    <3>5. Len(events[c]) \in Nat BY DEF CommandInv, TypeOK
    <3> DEFINE n == Len(events[c])
    <3>6. n \in Nat /\ (n = 0 \/ n = 1 \/ n = 2 \/ n \in 1..2) BY ONLY <3>4, <3>5
    <3> HIDE DEF n
    <3>7. n <= 2 BY ONLY <3>6
    <3> QED BY ONLY <3>7 DEF n
  <2>4. /\ result[c] \in Errors => events[c] = <<EventType[result[c]]>>
        /\ result[c] = "fallbackFailed" => events[c][2] = "fallback-failure"
    BY <2>1 DEF Delivered, Explains, Answers
  <2>5. result[c] = "nil" =>
          \/ /\ mainErr[c] = "nil" /\ ticket[c] # NoTicket
             /\ events[c] # <<>> => events[c][1] \in NilEvents
          \/ Len(events[c]) = 2 /\ events[c][2] = "fallback-success"
          \/ body[c] = "fallbackOk"
    BY <2>1 DEF Announced, NilRecorded
  <2> QED BY <2>2, <2>3, <2>4, <2>5
<1> QED BY CommandInvariant, <1>1, <1>2, <1>3, PTL DEF Spec

-----------------------------------------------------------------------------
(* The pool implements the abstract bulkhead *)

\* Taking a ticket is the abstract Take, giving it back (or having none) the
\* abstract Close, putting an error into errChan the abstract Fail; the rest
\* stutters.
LEMMA BulkheadStep ==
  ASSUME CommandInv, CommandInv', [Next]_vars
  PROVE  [B!Next]_(B!bulkheadVars)
<1> DEFINE held == [c \in Cmds |-> IF Holds(c) THEN ticket[c] ELSE NoTicket]
           phase == [c \in Cmds |-> Phase(c)]
<1> USE DEF B!Next, B!bulkheadVars, B!Take, B!Close, B!Fail
<1>1. \A c \in Cmds :
        /\ Failed(c) => phase[c] = "failed"
        /\ ~Failed(c) /\ body[c] \in Holding => phase[c] = "open"
        /\ ~Failed(c) /\ body[c] \notin Holding => phase[c] = "closed"
        /\ Failed(c)' => phase'[c] = "failed"
        /\ ~Failed(c)' /\ body'[c] \in Holding => phase'[c] = "open"
        /\ ~Failed(c)' /\ body'[c] \notin Holding => phase'[c] = "closed"
  BY DEF Phase
<1>2. \A c \in Cmds :
        /\ held[c] = IF ticket[c] # NoTicket /\ body[c] \in Holding THEN ticket[c] ELSE NoTicket
        /\ held'[c] = IF ticket'[c] # NoTicket /\ body'[c] \in Holding
                      THEN ticket'[c] ELSE NoTicket
  BY DEF Holds
<1>3. /\ phase = [c \in Cmds |-> phase[c]] /\ phase' = [c \in Cmds |-> phase'[c]]
      /\ held = [c \in Cmds |-> held[c]] /\ held' = [c \in Cmds |-> held'[c]]
  OBVIOUS
<1> HIDE DEF held, phase
<1>4. CASE Quiet
  <2>1. pool' = pool /\ \A c \in Cmds : held'[c] = held[c] /\ phase'[c] = phase[c]
    BY <1>1, <1>2, <1>4 DEF Quiet
  <2>2. held' = held /\ phase' = phase BY <1>3, <2>1
  <2> QED BY <2>1, <2>2 DEF held, phase
<1>5. ASSUME NEW c \in Cmds, AcquireTicket(c) PROVE B!Take(c)
  <2>1. PICK t \in pool : ticket' = [ticket EXCEPT ![c] = t] /\ pool' = pool \ {t}
    BY <1>5 DEF AcquireTicket
  <2>2. /\ body[c] \in Holding /\ ticket[c] = NoTicket
        /\ body'[c] \in Holding
        /\ \A d \in Cmds : d # c => body'[d] = body[d]
    BY <1>5 DEF AcquireTicket, CheckTicket, CommandInv, CheckedIsDecided,
                BodyAfterCheck, TypeOK, BodyPC, Holding
  <2>3. t # NoTicket BY CommandAssumption DEF CommandInv, TypeOK
  <2>4. ticket'[c] = t /\ \A d \in Cmds : d # c => ticket'[d] = ticket[d]
    BY <2>1 DEF CommandInv, TypeOK
  <2>5. ~Failed(c) /\ \A d \in Cmds : Failed(d)' <=> Failed(d)
    BY <1>5, <2>2 DEF AcquireTicket, outVars, CommandInv, AnswersFollowBody, Failed, Holding
  <2>6. phase[c] = "open" /\ held[c] = NoTicket BY <1>1, <1>2, <2>2, <2>5
  <2>7. \A d \in Cmds : phase'[d] = phase[d] BY <1>1, <2>2, <2>5
  <2>8. \A d \in Cmds : held'[d] = IF d = c THEN t ELSE held[d]
    BY <1>2, <2>2, <2>3, <2>4
  <2>9. phase' = phase /\ held' = [held EXCEPT ![c] = t] BY <1>3, <2>7, <2>8
  <2> QED BY <2>1, <2>6, <2>9 DEF held, phase
<1>6. ASSUME NEW c \in Cmds, ReturnTicket(c) \/ PutTicket(c), ~Quiet PROVE B!Close(c)
  <2>1. /\ body[c] \in Holding /\ body'[c] = "event" /\ ticket' = ticket
        /\ pool' = IF ticket[c] = NoTicket THEN pool ELSE pool \cup {ticket[c]}
        /\ \A d \in Cmds : d # c => body'[d] = body[d]
    <3>1. CASE PutTicket(c)
      BY <3>1 DEF PutTicket, CommandInv, BodyAfterCheck, TypeOK, Holding
    <3>2. CASE ReturnTicket(c) /\ ticket[c] = NoTicket
      BY <3>2 DEF ReturnTicket, CommandInv, TypeOK, Holding
    <3>3. CASE ReturnTicket(c) /\ ticket[c] # NoTicket
      <4>1. /\ body[c] = "return" /\ body' = [body EXCEPT ![c] = "sending"]
            /\ ticket' = ticket /\ pool' = pool /\ UNCHANGED <<errChan, result>>
        BY <3>3 DEF ReturnTicket, outVars
      <4> QED BY <4>1, <1>6 DEF Quiet, Failed, CommandInv, TypeOK, Holding
    <3> QED BY <1>6, <3>1, <3>2, <3>3
  <2>2. ~Failed(c) /\ \A d \in Cmds : Failed(d)' <=> Failed(d)
    BY <1>6, <2>1 DEF ReturnTicket, PutTicket, outVars, CommandInv, AnswersFollowBody, Failed, Holding
  <2>3. phase[c] = "open" BY <1>1, <2>1, <2>2
  <2>4. held[c] = ticket[c] BY <1>2, <2>1
  <2>5. \A d \in Cmds : phase'[d] = IF d = c THEN "closed" ELSE phase[d]
    BY <1>1, <2>1, <2>2 DEF Holding
  <2>6. \A d \in Cmds : held'[d] = IF d = c THEN NoTicket ELSE held[d]
    BY <1>2, <2>1 DEF Holding
  <2>7. /\ phase' = [phase EXCEPT ![c] = "closed"]
        /\ held' = [held EXCEPT ![c] = NoTicket]
    BY <1>3, <2>5, <2>6
  <2> QED BY <2>1, <2>3, <2>4, <2>7 DEF held, phase
<1>7. ASSUME NEW c \in Cmds, DeliverError(c) PROVE B!Fail(c)
  <2>1. /\ body[c] = "deliver" /\ ticket' = ticket /\ pool' = pool
        /\ body'[c] = "report" /\ errChan'[c] # <<>>
        /\ \A d \in Cmds : d # c => body'[d] = body[d]
    <3>1. errChan' = [errChan EXCEPT ![c] =
            Append(@, IF c \in WithFallback THEN "fallbackFailed" ELSE Cause(c))]
      BY <1>7 DEF DeliverError
    <3>2. (IF c \in WithFallback THEN "fallbackFailed" ELSE Cause(c)) \in Answers
      BY <1>7, CauseType DEF DeliverError, CommandInv, CauseIsError, Answers
    <3>3. errChan'[c] # <<>>
      BY <3>1, <3>2, AppendNonEmpty DEF CommandInv, TypeOK
    <3> QED BY <1>7, <3>3 DEF DeliverError, CommandInv, TypeOK, poolVars
  <2>2. /\ ~Failed(c) /\ Failed(c)'
        /\ \A d \in Cmds : d # c => (Failed(d)' <=> Failed(d))
    <3>1. ~Failed(c) BY <2>1 DEF CommandInv, AnswersFollowBody
    <3>2. Failed(c)' BY <2>1 DEF Failed
    <3>3. \A d \in Cmds : d # c => (Failed(d)' <=> Failed(d))
      BY <1>7 DEF DeliverError, CommandInv, TypeOK, Failed
    <3> QED BY <3>1, <3>2, <3>3
  <2>3. phase[c] = "closed" BY <1>1, <2>1, <2>2 DEF Holding
  <2>4. \A d \in Cmds : phase'[d] = IF d = c THEN "failed" ELSE phase[d]
    BY <1>1, <2>1, <2>2 DEF Holding
  <2>5. \A d \in Cmds : held'[d] = held[d] BY <1>2, <2>1 DEF Holding
  <2>6. phase' = [phase EXCEPT ![c] = "failed"] /\ held' = held
    BY <1>3, <2>4, <2>5
  <2> QED BY <2>1, <2>3, <2>6 DEF held, phase
<1> QED
  <2> HIDE DEF B!bulkheadVars, B!Take, B!Close, B!Fail
  <2> QED BY PoolStep, <1>4, <1>5, <1>6, <1>7

\* hystrix.go:94: the pool with its two goroutines per execution implements the
\* bulkhead, for every number of executions and tickets: an error can be
\* extracted from errChan only when the ticket is back.
THEOREM Refinement == Spec => ImplementsBulkhead
<1>1. Init => B!Init
  BY DEF Init, B!Init, Holds, Holding, Phase, Failed, Answers, Errors, CtxErrs
<1>2. CommandInv /\ CommandInv' /\ [Next]_vars => [B!Next]_(B!bulkheadVars)
  BY BulkheadStep
<1> QED BY CommandInvariant, <1>1, <1>2, PTL DEF Spec, ImplementsBulkhead, B!Spec
=============================================================================
