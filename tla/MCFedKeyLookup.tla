--------------------------- MODULE MCFedKeyLookup ---------------------------
(* Model values for FedKeyLookup.                                          *)
EXTENDS FedKeyLookup, TLC

(* slapd lists the attributes of an entry in the order they were added, the
   key before the timeout.                                                 *)
MCSlapd    == {<<"other", "key", "time">>}
MCKeyFirst == {<<"key", "time">>}

MCSymmetry == Permutations(Procs) \cup Permutations(Keys)
=============================================================================
