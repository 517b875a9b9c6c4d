----------------------------- MODULE LoginPortal -----------------------------
(***************************************************************************)
(* The federated login page (ssh/index.php, ssh/delete.php and             *)
(* ssh/ssh_backend.php).  Web requests run concurrently, each in a PHP     *)
(* process of its own, and reach the directory in several round trips:     *)
(* search, then modify or add, then the read of the key that is shown.     *)
(*                                                                         *)
(* session_start() locks the PHP session until the script ends, so two     *)
(* requests of one browser run one after the other, and requests of two    *)
(* browsers interleave.                                                    *)
(***************************************************************************)
EXTENDS KeyDirectory, Integers, Sequences

CONSTANTS Requests,    \* web requests
          Sessions,    \* PHP sessions (browsers)
          Identities,  \* what an identity provider asserts: name@domain
          Nobody,      \* no identity provider header; an unset session user
          Absent,      \* an unset form field or header
          NotAKey,     \* a text check_certificate refuses
          Faulty       \* TRUE when LDAP operations may fail

(* $_SESSION['user'] is cut at '@'; the domain is cut before its first dot
   (with no dot stripos() is false and nothing is left).  An unset user has
   neither part.  Names and labels are sequences of tokens. *)
GetRemoteUser(id) ==
    LET name   == IF id = Nobody THEN <<>> ELSE id.name
        labels == IF id = Nobody THEN <<>> ELSE id.domain
    IN  name \o <<"-">> \o (IF Len(labels) > 1 THEN labels[1] ELSE <<>>)

ASSUME PortalAssumption ==
    /\ \A id \in Identities \cup {Nobody} : GetRemoteUser(id) \in Uids
    /\ Absent \notin Certs \cup {NotAKey, ""} /\ NotAKey \notin Certs
    /\ NotAKey # "" /\ "" \notin Certs
    /\ Faulty \in BOOLEAN

VARIABLES user,   \* $_SESSION['user'] of each session
          page,   \* where each request is
          sess,   \* the session of each request
          who,    \* the user the request acts for
          cert,   \* $certificate
          hoy,    \* getdate()[0] read by modify or add
          code,   \* result of anadir_usuario; 0 while there is none
          began,  \* history: when the request arrived
          failed  \* history: the requests one of whose LDAP calls failed

reqVars    == <<user, page, sess, who, cert, hoy, code, began, failed>>
portalVars == <<dirVars, reqVars>>

Posts  == Certs \cup {NotAKey, ""}
Ended  == {"done", "closed", "died"}
Active == {"search", "modify", "add", "ldap_modify", "ldap_add", "show", "delete"}

PortalTypeOK ==
    /\ DirTypeOK
    /\ user \in [Sessions -> Identities \cup {Nobody}]
    /\ page \in [Requests -> {"new"} \cup Active \cup Ended]
    /\ sess \in [Requests -> Sessions]
    /\ who \in [Requests -> Identities \cup {Nobody}]
    /\ cert \in [Requests -> Posts]
    /\ hoy \in [Requests -> Nat] /\ began \in [Requests -> Nat]
    /\ code \in [Requests -> {-3, -2, -1, 0, 1}]
    /\ failed \subseteq Requests

PortalInit ==
    /\ DirInit
    /\ user = [s \in Sessions |-> Nobody]
    /\ page = [r \in Requests |-> "new"]
    /\ sess \in [Requests -> Sessions]
    /\ who = [r \in Requests |-> Nobody]
    /\ cert = [r \in Requests |-> ""]
    /\ hoy = [r \in Requests |-> 0]
    /\ code = [r \in Requests |-> 0]
    /\ began = [r \in Requests |-> 0]
    /\ failed = {}

------------------------------------------------------------------------------
(* A mutant: the session is unlocked before the directory is written. *)
SessionFree_Released(r) ==
    \A q \in Requests : sess[q] = sess[r] =>
        page[q] \notin Active \ {"ldap_modify", "ldap_add"}

(* session_start() waits for the other requests of the session to end.     *)
SessionFree(r) ==
    \A q \in Requests : sess[q] = sess[r] => page[q] \notin Active

(* A mutant: a missing key is not replaced by the empty string. *)
GetCertificate_Unset(posted, header) == IF posted # Absent THEN posted ELSE header

(* The posted key comes first, then the identity provider's attribute.     *)
GetCertificate(posted, header) ==
    IF posted # Absent THEN posted
    ELSE IF header # Absent THEN header ELSE ""

(* A mutant: any text that is not empty will do. *)
CheckCertificate_Any(c) == c # ""

(* Only the first seven characters are looked at: Certs may hold texts that
   are no key.                                                             *)
CheckCertificate(c) == c \in Certs

(* The head of index.php and delete.php.  Without an identity provider the
   redirection is sent and the script goes on with the old session user.   *)
OpenPage(r, id) ==
    /\ page[r] = "new"
    /\ SessionFree(r)
    /\ LET u == IF id # Nobody THEN id ELSE user[sess[r]]
       IN  /\ user' = [user EXCEPT ![sess[r]] = u]
           /\ who' = [who EXCEPT ![r] = u]
    /\ began' = [began EXCEPT ![r] = now]
    /\ UNCHANGED <<dirVars, sess, hoy, failed>>

(* index.php up to the call of doit in anadir_usuario.                     *)
LoginPage(r, id, posted, header) ==
    LET c == GetCertificate(posted, header)
    IN  /\ OpenPage(r, id)
        /\ cert' = [cert EXCEPT ![r] = c]
        /\ code' = [code EXCEPT ![r] = IF c = "" THEN -3
                                     ELSE IF CheckCertificate(c) THEN 0
                                     ELSE -1]
        /\ page' = [page EXCEPT ![r] = IF CheckCertificate(c) THEN "search"
                                                              ELSE "show"]

(* delete.php up to the call of delete.                                    *)
ClosePage(r, id) ==
    /\ OpenPage(r, id)
    /\ page' = [page EXCEPT ![r] = "delete"]
    /\ UNCHANGED <<cert, code>>

------------------------------------------------------------------------------
Uid(r) == GetRemoteUser(who[r])

TurnTo(r, l) == page' = [page EXCEPT ![r] = l]

Finish(r, c) ==
    /\ code' = [code EXCEPT ![r] = c]
    /\ TurnTo(r, "show")
    /\ UNCHANGED <<user, sess, who, cert, hoy, began>>

(* A mutant: a failed connection starts the whole operation again. *)
Die_Retry(r) ==
    /\ Faulty
    /\ page[r] \in {"search", "show", "delete"}
    /\ TurnTo(r, "search")
    /\ UNCHANGED <<dirVars, user, sess, who, cert, hoy, code, began, failed>>

(* ldap_connect(...) or die, ldap_bind(...) or die, in doit, get_attr and
   delete: the script ends at once.                                        *)
Die(r) ==
    /\ Faulty
    /\ page[r] \in {"search", "show", "delete"}
    /\ TurnTo(r, "died")
    /\ UNCHANGED <<dirVars, user, sess, who, cert, hoy, code, began, failed>>

(* A mutant: the count of entries is compared with >= 0. *)
DoitSearch_Always(r) ==
    /\ page[r] = "search"
    /\ TurnTo(r, "modify")
    /\ UNCHANGED <<dirVars, user, sess, who, cert, hoy, code, began, failed>>

(* doit: the search decides between modify and add.                        *)
DoitSearch(r) ==
    /\ page[r] = "search"
    /\ TurnTo(r, IF dir[Uid(r)] # NoEntry THEN "modify" ELSE "add")
    /\ UNCHANGED <<dirVars, user, sess, who, cert, hoy, code, began, failed>>

(* ldap_search fails: ldap_get_entries(false)["count"] is not > 0.         *)
DoitSearchFails(r) ==
    /\ Faulty
    /\ page[r] = "search"
    /\ TurnTo(r, "add")
    /\ failed' = failed \cup {r}
    /\ UNCHANGED <<dirVars, user, sess, who, cert, hoy, code, began>>

(* modify and add: $hoy = getdate().                                       *)
ReadClock(r) ==
    /\ page[r] \in {"modify", "add"}
    /\ hoy' = [hoy EXCEPT ![r] = now]
    /\ TurnTo(r, IF page[r] = "modify" THEN "ldap_modify" ELSE "ldap_add")
    /\ UNCHANGED <<dirVars, user, sess, who, cert, code, began, failed>>

(* The server performs the write of r: ldap_modify needs the entry to
   exist, ldap_add needs it not to.                                        *)
Writable(r) == (page[r] = "ldap_modify") <=> (dir[Uid(r)] # NoEntry)

(* A mutant: a failed ldap_add is reported as success. *)
Write_Optimistic(r) ==
    /\ page[r] \in {"ldap_modify", "ldap_add"}
    /\ IF Writable(r) THEN DirStore(Uid(r), cert[r], hoy[r])
                      ELSE UNCHANGED dirVars
    /\ Finish(r, 1)
    /\ UNCHANGED failed

(* ldap_modify or ldap_add is executed and its result returned.            *)
Write(r) ==
    /\ page[r] \in {"ldap_modify", "ldap_add"}
    /\ IF Writable(r) THEN DirStore(Uid(r), cert[r], hoy[r])
                      ELSE UNCHANGED dirVars
    /\ Finish(r, IF Writable(r) THEN 1 ELSE -2)
    /\ UNCHANGED failed

(* The request is lost on the way to the server, or refused there.         *)
WriteLost(r) ==
    /\ Faulty
    /\ page[r] \in {"ldap_modify", "ldap_add"}
    /\ UNCHANGED dirVars
    /\ Finish(r, -2)
    /\ failed' = failed \cup {r}

(* The server performs the write, but the answer never arrives.            *)
WriteReplyLost(r) ==
    /\ Faulty
    /\ page[r] \in {"ldap_modify", "ldap_add"}
    /\ Writable(r)
    /\ DirStore(Uid(r), cert[r], hoy[r])
    /\ Finish(r, -2)
    /\ failed' = failed \cup {r}

(* The rest of index.php: the result is shown, and the key that
   get_certificate_used reads (its timeout test always succeeds).          *)
Show(r) ==
    /\ page[r] = "show"
    /\ TurnTo(r, "done")
    /\ UNCHANGED <<dirVars, user, sess, who, cert, hoy, code, began, failed>>

(* delete: ldap_delete gets $uid where it needs $dn, so the server answers
   "invalid DN" and the directory keeps the entry.                         *)
LdapDelete(r) ==
    /\ page[r] = "delete"
    /\ TurnTo(r, "closed")
    /\ UNCHANGED <<dirVars, user, sess, who, cert, hoy, code, began, failed>>

Step(r) ==
    \/ DoitSearch(r) \/ DoitSearchFails(r) \/ ReadClock(r)
    \/ Write(r) \/ WriteLost(r) \/ WriteReplyLost(r)
    \/ Show(r) \/ LdapDelete(r) \/ Die(r)

Arrive(r) ==
    \E id \in Identities \cup {Nobody} :
        \/ ClosePage(r, id)
        \/ \E posted, header \in Posts \cup {Absent} :
               LoginPage(r, id, posted, header)

PortalNext ==
    \/ Tick /\ UNCHANGED reqVars
    \/ \E r \in Requests : Arrive(r) \/ Step(r)

(* A PHP process that was started keeps running, and every LDAP call
   returns, with an answer or with an error.                               *)
PortalSpec ==
    /\ PortalInit /\ [][PortalNext]_portalVars
    /\ \A r \in Requests : WF_portalVars(Step(r))

------------------------------------------------------------------------------
(***************************************************************************)
(* A page that says the session is open (code 1) wrote the key it was      *)
(* given, for its user, with a timeout that counts from a moment after the *)
(* request arrived, whatever other requests did between its search and its *)
(* write.                                                                  *)
(***************************************************************************)
OkCoversRequest ==
    \A r \in Requests : code[r] = 1 =>
        /\ hoy[r] >= began[r]
        /\ <<Uid(r), cert[r], hoy[r] + SessionTime>> \in granted

(***************************************************************************)
(* Every session in the directory was asked for: some request of that user *)
(* brought that text, and anadir_usuario accepted it.                      *)
(***************************************************************************)
GrantedWasRequested ==
    \A g \in granted : \E r \in Requests :
        /\ g = <<Uid(r), cert[r], hoy[r] + SessionTime>>
        /\ page[r] \in {"show", "done", "died"}

(* A request of q's account that has stored its session.                   *)
Stored(q) ==
    /\ page[q] \in {"show", "done", "died"}
    /\ <<Uid(q), cert[q], hoy[q] + SessionTime>> \in granted

(***************************************************************************)
(* The comment of doit says that the user is modified if present and added *)
(* if not.  The search and the write are two calls, so a request can still *)
(* be refused with -2, but only when one of its own LDAP calls failed or a *)
(* request of another browser has stored a session for the same account:   *)
(* requests of one browser alone never get in each other's way.            *)
(***************************************************************************)
RefusedOnlyByRace ==
    \A r \in Requests : code[r] = -2 =>
        \/ r \in failed
        \/ \E q \in Requests : sess[q] # sess[r] /\ Uid(q) = Uid(r) /\ Stored(q)

(***************************************************************************)
(* A visit sets the timeout as if the user had just come.  A write brings  *)
(* the end of a session forward only when it was overtaken: it is a modify *)
(* whose clock reading is older than that of a request of another browser, *)
(* which has stored its own session for the account in the meantime.  Even *)
(* then the new end is no less than $minutes_timeout after the arrival of  *)
(* the request that writes.                                                *)
(***************************************************************************)
EarlierOnlyIfOvertaken ==
    [][\A u \in Uids :
           dir[u] # NoEntry /\ dir'[u] # NoEntry /\ dir'[u].timeout < dir[u].timeout =>
           \E r, q \in Requests :
               /\ page[r] = "ldap_modify" /\ Uid(r) = u /\ page'[r] = "show"
               /\ dir'[u].timeout = hoy[r] + SessionTime /\ began[r] <= hoy[r]
               /\ sess[q] # sess[r] /\ Uid(q) = u /\ Stored(q)
               /\ dir[u].timeout = hoy[q] + SessionTime]_portalVars

(***************************************************************************)
(* When delete has run, on a server that answers, the user's entry is gone *)
(* and no further connection can be made with it.                          *)
(***************************************************************************)
DeleteClosesSession ==
    [][\A r \in Requests : page[r] # "closed" /\ page'[r] = "closed"
           => dir'[Uid(r)] = NoEntry]_portalVars

(***************************************************************************)
(* Every page that was requested is eventually answered, or its script     *)
(* dies: no LDAP failure leaves the session locked.                        *)
(***************************************************************************)
PagesEnd == \A r \in Requests : page[r] \in Active ~> page[r] \in Ended
==============================================================================
