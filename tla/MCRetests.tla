------------------------------ MODULE MCRetests ------------------------------
(* Retests for TLC: the processes finish, so the system may stop.          *)
EXTENDS Retests, TLC

\* Every Run may play every part.
Alike == Permutations(Runs)
=============================================================================
