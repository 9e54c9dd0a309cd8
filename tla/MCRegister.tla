----------------------------- MODULE MCRegister -----------------------------
(* Two sessions that may be managers of one list of projects. *)
EXTENDS Register, TLC

CONSTANTS s1, s2, c1, c2

MCSessions == {s1, s2}
MCCalls == {c1, c2}
Symmetry == Permutations(MCSessions) \cup Permutations(MCCalls)
=============================================================================
