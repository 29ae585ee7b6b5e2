---------------------------- MODULE MCTribeMembers ----------------------------
(* A tribe, for the hooks treat each by itself, four players and two names: up  *)
(* to three players join at a time, an owner leaves, and the last player leaves. *)
(* One of the players comes and goes, and is handed dinos.                      *)
EXTENDS Commands, TLC

CONSTANTS t1, p1, p2, p3, p4

MCTribe == {t1}
MCPlayer == {p1, p2, p3, p4}
MCVisitor == {p1}
MCName == {"a", "b"}
Symmetry == Permutations(MCPlayer \ MCVisitor)

=============================================================================
