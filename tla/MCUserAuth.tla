----------------------------- MODULE MCUserAuth -----------------------------
(* Model values for UserAuth: an ordinary account, root and a name that has
   no account; a key with a command option and one without; signatures of
   this connection and one left over from another.                         *)
EXTENDS UserAuth

CONSTANTS root, alice, nobody, k1, k2, s1, s0, host

MCTrusted == {<<alice, host, k2>>}

Signs(k, s, u, m) == [key |-> k, data |-> [sid |-> s, user |-> u, method |-> m, client |-> host]]

MCSigs == {Signs(k1, s1, root, "publickey"), Signs(k1, s1, alice, "publickey"),
           Signs(k2, s1, alice, "publickey"), Signs(k2, s1, alice, "hostbased"),
           Signs(k1, s0, alice, "publickey")}

MCHolders == {<<alice, k1>>, <<alice, k2>>, <<root, k1>>}
=============================================================================
