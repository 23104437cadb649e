-------------------------- MODULE MCSharedSession --------------------------
(***************************************************************************)
(* Small instances of SharedSession: a unit of time is about five minutes  *)
(* (login timeout 1, stale lock 2, longest wait 3).                        *)
(***************************************************************************)
EXTENDS SharedSession, TLC

Symmetric == Permutations(Connectors)

=============================================================================
