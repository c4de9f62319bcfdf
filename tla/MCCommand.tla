----------------------------- MODULE MCCommand -----------------------------
(* Instances of Command for TLC. *)
EXTENDS Command

CONSTANTS c1, c2, t1, nil

\* Two executions contending for one ticket: c1 by DoC with a fallback, c2 by
\* GoC without one.
Cmds2         == {c1, c2}
Sync1         == {c1}
WithFallback1 == {c1}
Tickets1      == {t1}
=============================================================================
