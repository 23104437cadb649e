--------------------------- MODULE MCRuntimeProxy ---------------------------
(* RuntimeProxy for TLC: two calls, of the same tool or of two. *)
EXTENDS RuntimeProxy

CONSTANTS scoped, plain

MCTools == {scoped, plain}
MCScopedTools == {scoped}

=============================================================================
