--------------------------- MODULE FederatedLogin ---------------------------
(***************************************************************************)
(* The whole path of a federated login: the page (LoginPortal) writes the  *)
(* directory that the lookup of sshd (FedKeyLookup) reads.  The two run on *)
(* different machines and share nothing but the directory and the clock,   *)
(* so a step of the system is a step of one of them.                       *)
(***************************************************************************)
EXTENDS LoginPortal, FedKeyLookup

loginVars == <<dirVars, reqVars, lookupVars>>

LoginInit == PortalInit /\ LookupInit

LoginNext ==
    \/ PortalNext /\ UNCHANGED lookupVars
    \/ Server /\ UNCHANGED reqVars

(* The fairness of both sides.                                             *)
LoginSpec ==
    /\ LoginInit /\ [][LoginNext]_loginVars
    /\ \A r \in Requests : WF_loginVars(Step(r) /\ UNCHANGED lookupVars)
    /\ \A p \in Procs : /\ WF_loginVars(OwnStep(p) /\ UNCHANGED reqVars)
                        /\ WF_loginVars(GraceAlarm(p) /\ UNCHANGED reqVars)
-----------------------------------------------------------------------------
(* Request r came for account u with the text k, and anadir_usuario is
   over for it.                                                            *)
Brought(r, u, k) ==
    Uid(r) = u /\ cert[r] = k /\ page[r] \in {"show", "done", "died"}

(***************************************************************************)
(* Whatever the uninitialised arrays hold (see Uninit), and however        *)
(* requests, connections and failures interleave: a key that               *)
(* user_key_allowed takes from the directory was brought to the page by a  *)
(* request of a user with that very account name.                          *)
(***************************************************************************)
KeyWasBrought ==
    \A a \in accepted : \E r \in Requests : Brought(r, a.user, a.line.text)
=============================================================================
