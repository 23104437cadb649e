---------------------------- MODULE MCGenAIProxy ----------------------------
(***************************************************************************)
(* A small instance of GenAIProxy: one project with a limit of two units,  *)
(* two requests at a time and two days.                                    *)
(***************************************************************************)
EXTENDS GenAIProxy, TLC

Symmetric == Permutations(Requests)

=============================================================================
