------------------------------ MODULE MCChain -------------------------------
(***************************************************************************)
(* Every chain of at most three wrappers.                                  *)
(***************************************************************************)
EXTENDS Chain

MCChains == UNION {[1..n -> Kinds] : n \in 0..3}
=============================================================================
