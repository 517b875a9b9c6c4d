------------------------------- MODULE Monitor ------------------------------
(***************************************************************************)
(* The privileged half of an sshd connection (openssh/monitor.c), protocol *)
(* 2 with privilege separation: it answers the requests of the             *)
(* unprivileged child that talks to the network, decides by itself whether *)
(* the user is authenticated, and then takes over the key state.           *)
(*                                                                         *)
(* Here the child may send any request with any arguments at any time:     *)
(* what the monitor guarantees must not depend on the child.  UserAuth     *)
(* puts the child sshd really runs in its place.  A request is handled in  *)
(* one step: the monitor does nothing else, and nothing it reads changes,  *)
(* while a handler runs, but the keys users have (`authorized`), which a   *)
(* handler looks up once.                                                  *)
(***************************************************************************)
EXTENDS Naturals, Sequences

CONSTANTS Users,          \* the names a client may ask for
          Accounts,       \* those getpwnamallow accepts
          Root,           \* the account with uid 0
          NoUser,
          Keys, NoKey,
          Holders,        \* <<user, key>> pairs that may be authorized at some time
          ForcedKeys,     \* keys whose line carries a command="..." option
          SessionIds, NoId,
          Clients,        \* the user@host a hostbased request speaks for
          Trusted,        \* <<user, client, key>> hostbased_key_allowed accepts
          EmptyPasswd,    \* accounts whose password is empty
          PermitRootLogin, PermitEmptyPasswd, PasswordAuthentication

ASSUME MonitorAssumption ==
    /\ Accounts \subseteq Users /\ Root \in Users /\ NoUser \notin Users
    /\ NoKey \notin Keys /\ ForcedKeys \subseteq Keys /\ Holders \subseteq Accounts \X Keys
    /\ NoId \notin SessionIds
    /\ Trusted \subseteq Accounts \X Clients \X Keys /\ EmptyPasswd \subseteq Accounts
    /\ PermitRootLogin \in {"yes", "no", "without-password", "forced-commands-only"}
    /\ PermitEmptyPasswd \in BOOLEAN /\ PasswordAuthentication \in BOOLEAN

VARIABLES mstate,         \* "preauth", "keystate", "postauth", or "gone"
          permit,         \* requests whose entry in mon_dispatch has MON_PERMIT
          attempt,        \* authctxt->attempt
          user, valid,    \* authctxt->user, authctxt->valid
          session_id2,
          key_blob, key_blobtype, hostbased_client,
          forced_command, \* the key whose command option is in force
          call_count,     \* mm_answer_authpassword has been called
          granted,        \* history: how the user was authenticated
          found,          \* history: what user_key_allowed found when last asked
          reqs, answers,  \* the socket pair
          authorized      \* <<user, key>> pairs user_key_allowed finds now

state  == <<attempt, user, valid, session_id2, key_blob, key_blobtype,
            hostbased_client, forced_command, call_count, granted, found>>
mvars  == <<mstate, permit, state, reqs, answers, authorized>>
-----------------------------------------------------------------------------
(* What the parties say to each other. *)

(* The data a client signs; hostbased requests name the client too.        *)
Data == [sid : SessionIds, user : Users, method : {"publickey", "hostbased"},
         client : Clients]

NoSignature == [key |-> NoKey, data |-> NoKey]
Signatures  == [key : Keys, data : Data] \cup {NoSignature}
Passwords   == {"empty", "right", "wrong"}   \* what auth_password may be given

(* How a user was authenticated: with a signature, or a password.          *)
NoGrant == [method |-> "unknown", user |-> NoUser, sig |-> NoSignature, pw |-> "none"]

Requests ==
         [type : {"moduli", "authserv", "banner", "term"}, arg : {NoKey}]
    \cup [type : {"sign", "keyexport"}, arg : SessionIds]
    \cup [type : {"pwnam"}, arg : Users]
    \cup [type : {"authpassword"}, arg : Passwords]
    \cup [type : {"keyallowed"}, arg : [type : {"user", "host"}, key : Keys, client : Clients]]
    \cup [type : {"keyverify"}, arg : [key : Keys, data : Data, sig : Signatures]]

RequestTypes == {"moduli", "authserv", "banner", "term", "sign", "keyexport", "pwnam",
                 "authpassword", "keyallowed", "keyverify"}

Once == {"moduli", "sign", "pwnam", "authserv", "banner"}

(* What the monitor reads next; mm_get_keystate expects a key export only.  *)
Expected == IF mstate = "keystate" THEN {"keyexport"} ELSE permit

monitor_read(type) ==
    /\ mstate # "gone" /\ reqs # <<>> /\ Head(reqs).type = type
    /\ type \in Expected
    /\ reqs' = Tail(reqs)
    /\ UNCHANGED authorized

Answer(a) == answers' = Append(answers, a)

(* monitor_permit of the requests in S, and MON_ONCE of the one just read;
   the entries of the table after authentication are not for once.         *)
monitor_permit(type, S) ==
    permit' = IF mstate = "preauth"
              THEN (permit \cup S) \ (IF type \in Once THEN {type} ELSE {}) ELSE permit

fatal == mstate' = "gone" /\ UNCHANGED <<permit, state, answers>>

MonitorInit ==
    /\ mstate = "preauth" /\ permit = {"moduli", "sign"}
    /\ attempt = 0 /\ user = NoUser /\ valid = FALSE /\ session_id2 = NoId
    /\ key_blob = NoKey /\ key_blobtype = "none" /\ hostbased_client = NoUser
    /\ forced_command = NoKey /\ call_count = 0 /\ granted = NoGrant /\ found = {}
    /\ reqs = <<>> /\ answers = <<>> /\ authorized \in SUBSET Holders
-----------------------------------------------------------------------------
(* The handlers. *)

mm_answer_moduli ==
    /\ monitor_read("moduli") /\ Answer("dh") /\ monitor_permit("moduli", {})
    /\ UNCHANGED <<mstate, state>>

(* A mutant: every key exchange sets the session id. *)
mm_answer_sign_Always ==
    /\ monitor_read("sign")
    /\ session_id2' = Head(reqs).arg
    /\ Answer("signature") /\ monitor_permit("sign", {"pwnam"})
    /\ UNCHANGED <<mstate, attempt, user, valid, key_blob, key_blobtype,
                   hostbased_client, forced_command, call_count, granted, found>>

mm_answer_sign ==
    /\ monitor_read("sign")
    /\ session_id2' = IF session_id2 = NoId THEN Head(reqs).arg ELSE session_id2
    /\ Answer("signature") /\ monitor_permit("sign", {"pwnam"})
    /\ UNCHANGED <<mstate, attempt, user, valid, key_blob, key_blobtype,
                   hostbased_client, forced_command, call_count, granted, found>>

mm_answer_pwnamallow ==
    /\ monitor_read("pwnam")
    /\ \/ attempt # 0 /\ fatal
       \/ /\ attempt = 0
          /\ attempt' = 1 /\ user' = Head(reqs).arg /\ valid' = (user' \in Accounts)
          /\ Answer(valid') /\ monitor_permit("pwnam", {"authserv", "banner"})
          /\ UNCHANGED <<mstate, session_id2, key_blob, key_blobtype, hostbased_client,
                         forced_command, call_count, granted, found>>

mm_answer_auth2_read_banner ==
    /\ monitor_read("banner") /\ Answer("banner") /\ monitor_permit("banner", {})
    /\ UNCHANGED <<mstate, state>>

(* monitor_permit_authentications(1); there is no answer.                  *)
mm_answer_authserv ==
    /\ monitor_read("authserv")
    /\ monitor_permit("authserv", {"authpassword", "keyallowed", "keyverify"})
    /\ UNCHANGED <<mstate, state, answers>>

auth_root_allowed(method, forced) ==
    \/ PermitRootLogin = "yes"
    \/ PermitRootLogin = "without-password" /\ method # "password"
    \/ PermitRootLogin = "forced-commands-only" /\ forced

(* The end of a round of monitor_child_preauth, after a handler that may
   authenticate returned ok.                                               *)
monitor_child_preauth(ok, method, sig, pw) ==
    IF ok /\ (user = Root => auth_root_allowed(method, forced_command # NoKey))
    THEN IF valid
         THEN /\ mstate' = "keystate"
              /\ granted' = [method |-> method, user |-> user, sig |-> sig, pw |-> pw]
         ELSE mstate' = "gone" /\ UNCHANGED granted
    ELSE UNCHANGED <<mstate, granted>>

(* A mutant: the answer of the password file is not looked at. *)
auth_password_Any(p) ==
    /\ PasswordAuthentication /\ valid
    /\ user = Root => PermitRootLogin = "yes"

(* "right" stands for the password that sys_auth_passwd accepts.           *)
auth_password(p) ==
    /\ PasswordAuthentication /\ valid
    /\ user = Root => PermitRootLogin = "yes"
    /\ IF p = "empty" THEN PermitEmptyPasswd /\ user \in EmptyPasswd ELSE p = "right"

mm_answer_authpassword ==
    /\ monitor_read("authpassword")
    /\ \E p \in {Head(reqs).arg} :
         /\ Answer(auth_password(p))
         /\ monitor_child_preauth(auth_password(p),
                IF p = "empty" /\ call_count = 0 THEN "none" ELSE "password",
                NoSignature, p)
    /\ call_count' = 1
    /\ UNCHANGED <<permit, attempt, user, valid, session_id2, key_blob, key_blobtype,
                   hostbased_client, forced_command, found>>

(* user_key_allowed takes the options of the line with the key, if there is
   one; hostbased_key_allowed looks at no options.                          *)
key_allowed(a) ==
    /\ valid
    /\ IF a.type = "user" THEN <<user, a.key>> \in authorized
                          ELSE <<user, a.client, a.key>> \in Trusted

Options(a) ==
    IF a.type = "user" /\ key_allowed(a)
    THEN IF a.key \in ForcedKeys THEN a.key ELSE NoKey
    ELSE forced_command

monitor_reset_key_state ==
    key_blob' = NoKey /\ key_blobtype' = "none" /\ hostbased_client' = NoUser

mm_answer_keyallowed ==
    /\ monitor_read("keyallowed")
    /\ \E a \in {Head(reqs).arg} :
         /\ forced_command' = Options(a)
         /\ IF key_allowed(a)
            THEN key_blob' = a.key /\ key_blobtype' = a.type /\ hostbased_client' = a.client
            ELSE monitor_reset_key_state
         /\ Answer([allowed |-> key_allowed(a), forced |-> Options(a) # NoKey])
         /\ found' = IF a.type = "user" /\ valid
                     THEN {k \in Keys : <<user, k>> \in authorized} ELSE {}
    /\ UNCHANGED <<mstate, permit, attempt, user, valid, session_id2, call_count, granted>>

monitor_allowed_key(key) == key_blob # NoKey /\ key = key_blob

monitor_valid_userblob(d) ==
    d.sid = session_id2 /\ d.user = user /\ d.method = "publickey"

monitor_valid_hostbasedblob(d) ==
    /\ d.sid = session_id2 /\ d.user = user /\ d.method = "hostbased"
    /\ d.client = hostbased_client

key_verify(key, data, sig) == sig = [key |-> key, data |-> data]

mm_answer_keyverify ==
    /\ monitor_read("keyverify")
    /\ \E a \in {Head(reqs).arg} :
         IF /\ monitor_allowed_key(a.key)
            /\ IF key_blobtype = "user" THEN monitor_valid_userblob(a.data)
                                        ELSE monitor_valid_hostbasedblob(a.data)
         THEN /\ monitor_reset_key_state
              /\ Answer(key_verify(a.key, a.data, a.sig))
              /\ monitor_child_preauth(key_verify(a.key, a.data, a.sig),
                     IF key_blobtype = "user" THEN "publickey" ELSE "hostbased", a.sig,
                     "none")
              /\ UNCHANGED <<permit, attempt, user, valid, session_id2, forced_command,
                             call_count, found>>
         ELSE fatal

(* mm_get_kex compares the session id; then monitor_child_postauth installs
   its table.                                                              *)
mm_get_keystate ==
    /\ monitor_read("keyexport")
    /\ \/ Head(reqs).arg # session_id2 /\ fatal
       \/ /\ Head(reqs).arg = session_id2
          /\ mstate' = "postauth" /\ permit' = {"moduli", "sign", "term"}
          /\ UNCHANGED <<state, answers>>

mm_answer_term == monitor_read("term") /\ fatal

(* An unpermitted or unsupported request, or one out of turn.              *)
Unexpected ==
    /\ mstate # "gone" /\ reqs # <<>> /\ Head(reqs).type \notin Expected
    /\ reqs' = Tail(reqs) /\ fatal /\ UNCHANGED authorized

(* A mutant: the first request cancels the alarm. *)
grace_alarm_handler_Cancelled ==
    /\ mstate = "preauth" /\ attempt = 0 /\ fatal
    /\ UNCHANGED <<reqs, authorized>>

(* grace_alarm_handler; sshd.c cancels the alarm once the monitor leaves
   privsep_preauth.                                                        *)
grace_alarm_handler ==
    /\ mstate \in {"preauth", "keystate"} /\ fatal
    /\ UNCHANGED <<reqs, authorized>>
-----------------------------------------------------------------------------
(* Whatever the child does: it sends a request, reads an answer, or both.  *)
ChildStep ==
    /\ \/ UNCHANGED reqs
       \/ LET q == reqs'[Len(reqs) + 1] IN q \in Requests /\ reqs' = Append(reqs, q)
    /\ answers' = answers \/ (answers # <<>> /\ answers' = Tail(answers))
    /\ UNCHANGED <<mstate, permit, state, authorized>>

(* The read of a socket whose other end is closed.                         *)
ChildLost ==
    /\ mstate \in {"preauth", "keystate", "postauth"} /\ reqs = <<>> /\ fatal
    /\ UNCHANGED <<reqs, authorized>>

(* Users edit their files, and the federated session keys come and go.     *)
KeysChange ==
    /\ \E h \in Holders : authorized' \in {authorized \cup {h}, authorized \ {h}}
    /\ UNCHANGED <<mstate, permit, state, reqs, answers>>

MonitorStep ==
    \/ mm_answer_moduli \/ mm_answer_sign \/ mm_answer_pwnamallow
    \/ mm_answer_auth2_read_banner \/ mm_answer_authserv \/ mm_answer_authpassword
    \/ mm_answer_keyallowed \/ mm_answer_keyverify \/ mm_get_keystate
    \/ mm_answer_term \/ Unexpected

MonitorNext ==
    MonitorStep \/ grace_alarm_handler \/ ChildStep \/ ChildLost \/ KeysChange

MonitorSpec == MonitorInit /\ [][MonitorNext]_mvars
-----------------------------------------------------------------------------
(* Type invariant. *)
MonitorTypeOK ==
    /\ mstate \in {"preauth", "keystate", "postauth", "gone"}
    /\ permit \subseteq RequestTypes
    /\ attempt \in {0, 1} /\ user \in Users \cup {NoUser} /\ valid \in BOOLEAN
    /\ session_id2 \in SessionIds \cup {NoId}
    /\ key_blob \in Keys \cup {NoKey} /\ key_blobtype \in {"none", "user", "host"}
    /\ hostbased_client \in Clients \cup {NoUser}
    /\ forced_command \in ForcedKeys \cup {NoKey} /\ call_count \in {0, 1}
    /\ granted \in [method : {"none", "password", "publickey", "hostbased"},
                    user : Accounts, sig : Signatures, pw : Passwords \cup {"none"}]
                   \cup {NoGrant}
    /\ found \subseteq Keys
    /\ reqs \in Seq(Requests) /\ authorized \subseteq Holders

(* Whatever the child asks and in whatever order, a user the monitor takes as
   authenticated exists and is the one named first; gave the password of the
   account while PasswordAuthentication is on (an empty one only where
   PermitEmptyPasswords allows it), or a signature by a key on this connection's session id
   and this user's name, where user_key_allowed, when it was last asked,
   found that key for this user (a hostbased signature: by a key trusted for
   the client it names); and, if the user is root, PermitRootLogin lets that
   method in (monitor.c:351-386, mm_answer_keyallowed, mm_answer_keyverify).  *)
Earned(g) ==
    /\ g.user = user /\ user \in Accounts
    /\ g.method \in {"publickey", "hostbased"} =>
         /\ g.sig.data.sid = session_id2 /\ g.sig.data.user = user
         /\ g.sig.data.method = g.method
    /\ g.method = "publickey" => g.sig.key \in found
    /\ g.method = "hostbased" => <<user, g.sig.data.client, g.sig.key>> \in Trusted
    /\ g.method \in {"none", "password"} =>
         /\ PasswordAuthentication
         /\ g.pw = "right" \/ (g.pw = "empty" /\ PermitEmptyPasswd /\ user \in EmptyPasswd)
    /\ user = Root => auth_root_allowed(g.method, forced_command # NoKey)

GrantEarned == mstate \in {"keystate", "postauth"} => granted # NoGrant /\ Earned(granted)

(* The session id is the hash of the first key exchange and the user the one
   of the first lookup: no later request changes either, a rekeying after
   authentication included (monitor.c:574-579, 613-620).                   *)
IdentityFixed ==
    [][/\ session_id2 # NoId => UNCHANGED session_id2
       /\ user # NoUser => UNCHANGED <<user, valid>>]_mvars
=============================================================================
