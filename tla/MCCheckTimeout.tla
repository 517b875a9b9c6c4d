--------------------------- MODULE MCCheckTimeout ---------------------------
(* Model values for CheckTimeout: the prefixes stand for none, for
   "u:" and for "u:9:", a prefix with several fields and digits in it.     *)
EXTENDS CheckTimeout

MCPrefixes == {<<>>, <<117, 58>>, <<117, 58, 57, 58>>}
=============================================================================
