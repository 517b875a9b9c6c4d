---------------------------- MODULE MCLoginPortal ----------------------------
(* Model values for LoginPortal.  ana@us.es and eva@us.es are two users of
   one organisation; <<"-">> is the account name of an unset session user. *)
EXTENDS LoginPortal, TLC

MCAna == [name |-> <<"ana">>, domain |-> <<<<"us">>, <<"es">>>>]
MCEva == [name |-> <<"eva">>, domain |-> <<<<"us">>, <<"es">>>>]

MCOneUser  == {MCAna}
MCTwoUsers == {MCAna, MCEva}
MCSymmetry == Permutations(Requests) \cup Permutations(Sessions)
MCUids     == {<<"ana", "-", "us">>, <<"eva", "-", "us">>, <<"-">>}
==============================================================================
