---------------------------- MODULE MCRecordView ----------------------------
(* RecordView for TLC: the processes finish, so the system may stop.       *)
EXTENDS RecordView, TLC

\* Every Run may play every part, and all bundles are looked up.
Alike == Permutations(Runs)
=============================================================================
