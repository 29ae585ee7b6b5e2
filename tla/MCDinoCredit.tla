----------------------------- MODULE MCDinoCredit -----------------------------
(* Two accounts, one of which has two controllers, so that a reconnect may      *)
(* overlap; characters for one of them to be replaced.  Two places, or two      *)
(* dinos at a time, so that a player may hit another one, and addresses come    *)
(* back.                                                                        *)
EXTENDS DinoCredit, TLC

CONSTANTS c1, c2, c3, s1, s2

MCSteamOf == [c \in Controller |-> IF c = c3 THEN s2 ELSE s1]

MCSymmetry ==
  Permutations({c1, c2}) \cup Permutations(Place) \cup Permutations(Address)

\* What the reader of the log has of the places of players decides nothing about dinos:
\* behaviours that follow dinos are told apart without it.
MCView ==
  IF subject = "dinos" THEN <<subject, vars, dinoVars, credited, claimVars>>
  ELSE creditVars

=============================================================================
