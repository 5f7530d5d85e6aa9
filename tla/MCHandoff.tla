----------------------------- MODULE MCHandoff -----------------------------
(***************************************************************************)
(* Small instances of Handoff for TLC.                                      *)
(***************************************************************************)
EXTENDS Handoff, TLC

(* Lifetimes on both sides of the token check, and exactly at it. *)
MCTokenLives == {TokenBuffer, TokenBuffer + 1}

Symmetry == Permutations(Calls) \cup Permutations(Sessions) \cup Permutations(Artifacts)
=============================================================================
