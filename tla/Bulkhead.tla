------------------------------ MODULE Bulkhead ------------------------------
(***************************************************************************)
(* What the ticket pool of a hystrix circuit promises to its callers: an   *)
(* execution holds at most one ticket, a ticket has at most one holder,    *)
(* and an execution fails, that is, has an error for its caller to extract *)
(* from errChan, only after it has given its ticket back; after that it    *)
(* takes no other.  Of an execution that succeeds nothing is said but that *)
(* it gives its ticket back once: DoC may return nil while the ticket is   *)
(* still out.  Module Command implements it.                               *)
(***************************************************************************)
CONSTANTS Cmds, Tickets, NoTicket

VARIABLES
  free,   \* tickets nobody holds
  held,   \* the ticket an execution holds, or NoTicket
  phase   \* "open", "closed" (will take no ticket any more) or "failed"

bulkheadVars == <<free, held, phase>>

Init ==
  /\ free = Tickets
  /\ held = [c \in Cmds |-> NoTicket]
  /\ phase = [c \in Cmds |-> "open"]

Take(c) ==
  /\ phase[c] = "open" /\ held[c] = NoTicket
  /\ \E t \in free : free' = free \ {t} /\ held' = [held EXCEPT ![c] = t]
  /\ UNCHANGED phase

\* An execution without a ticket gives up, one with a ticket gives it back.
Close(c) ==
  /\ phase[c] = "open"
  /\ phase' = [phase EXCEPT ![c] = "closed"]
  /\ held' = [held EXCEPT ![c] = NoTicket]
  /\ free' = IF held[c] = NoTicket THEN free ELSE free \cup {held[c]}

\* The caller of the execution can extract an error.
Fail(c) ==
  /\ phase[c] = "closed"
  /\ phase' = [phase EXCEPT ![c] = "failed"]
  /\ UNCHANGED <<free, held>>

Next == \E c \in Cmds : Take(c) \/ Close(c) \/ Fail(c)

Spec == Init /\ [][Next]_bulkheadVars
=============================================================================
