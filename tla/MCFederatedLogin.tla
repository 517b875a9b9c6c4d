-------------------------- MODULE MCFederatedLogin --------------------------
(* Model values for FederatedLogin.  ana@us.es has the account ana-us.
   <<"-">> is the account name of an unset session user; the server has an
   account of that name, whose home is not secure and whose keys the
   administrator keeps elsewhere.                                          *)
EXTENDS FederatedLogin, TLC

MCVisitors == {[name |-> <<"ana">>, domain |-> <<<<"us">>, <<"es">>>>]}
MCSecure   == {<<"ana", "-", "us">>}
MCUids     == MCSecure \cup {<<"-">>}
MCLocal    == (MCUids \ MCSecure) \X Keys

(* slapd lists the attributes in the order they were added.                *)
MCKeyFirst == {<<"key", "time">>}
=============================================================================
