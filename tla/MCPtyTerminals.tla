-------------------------- MODULE MCPtyTerminals --------------------------
(* Small instances of PtyTerminals for TLC. *)
EXTENDS PtyTerminals, TLC

Symmetry ==
  UNION {Permutations(Ptys), Permutations(Conns), Permutations(Sessions),
         Permutations(Tabs), Permutations(Cwds)}
===========================================================================
