---------------------------- MODULE MonitorProofs ---------------------------
(***************************************************************************)
(* What the monitor guarantees whatever its child does, for every set of   *)
(* users, keys and session ids and every setting of the options.           *)
(***************************************************************************)
EXTENDS Monitor, TLAPS

(* The requests on their way are well formed; who the user is and what the
   monitor remembers of the last key it allowed are what the handlers left.
   Phases says which requests each phase lets through: a key
   export before the verdict, or a key lookup after it, would break the
   property; Bound, that a signature was over a session id there was.      *)
Asked == reqs \in Seq(Requests)

Identity ==
    /\ mstate \in {"preauth", "keystate", "postauth", "gone"}
    /\ valid \in BOOLEAN /\ (valid => user \in Accounts)
    /\ attempt = 0 => valid = FALSE /\ user = NoUser

Remembered ==
    key_blob # NoKey =>
        /\ valid
        /\ key_blobtype = "user" => key_blob \in found
        /\ key_blobtype # "user" => <<user, hostbased_client, key_blob>> \in Trusted

Phases ==
    /\ mstate = "preauth" => "keyexport" \notin permit
    /\ mstate = "postauth" => permit = {"moduli", "sign", "term"}

Bound ==
    mstate \in {"keystate", "postauth"} /\ granted.method \in {"publickey", "hostbased"} =>
        session_id2 # NoId

MonitorInv == Bound /\ Asked /\ Identity /\ Remembered /\ Phases /\ GrantEarned

(* A request the monitor reads is well formed, and so are those behind it. *)
LEMMA ReadTyped ==
    ASSUME Asked, reqs # <<>>
    PROVE  Head(reqs) \in Requests /\ Tail(reqs) \in Seq(Requests)
  BY DEF Asked

LEMMA ReadKeyVerify ==
    ASSUME NEW q \in Requests, q.type = "keyverify"
    PROVE  q.arg.key \in Keys /\ q.arg.data \in Data
  BY DEF Requests

LEMMA ReadSign ==
    ASSUME NEW q \in Requests, q.type = "sign"
    PROVE  q.arg # NoId
  BY MonitorAssumption DEF Requests

LEMMA InitInv == MonitorInit => MonitorInv
  <1> SUFFICES ASSUME MonitorInit PROVE MonitorInv
    OBVIOUS
  <1>1. Asked
    BY DEF MonitorInit, Asked
  <1>2. Identity
    BY Zenon DEF MonitorInit, Identity
  <1>3. Remembered /\ Phases /\ Bound /\ GrantEarned
    BY DEF MonitorInit, Remembered, Phases, Bound, GrantEarned
  <1> QED
    BY <1>1, <1>2, <1>3 DEF MonitorInv

(* A step that leaves the monitor's state alone, or stops it.              *)
LEMMA FatalInv ==
    ASSUME MonitorInv, fatal, reqs' \in Seq(Requests)
    PROVE  MonitorInv'
  BY DEF MonitorInv, fatal, Asked, Identity, Remembered, Phases, Bound, GrantEarned, state

LEMMA StateInv ==
    ASSUME MonitorInv, UNCHANGED <<mstate, state>>, reqs' \in Seq(Requests), Phases'
    PROVE  MonitorInv'
  BY DEF MonitorInv, Asked, Identity, Remembered, Phases, Bound, GrantEarned, Earned, state

(* The handlers that authenticate nobody.                                  *)
LEMMA PlainInv ==
    ASSUME MonitorInv,
           mm_answer_moduli \/ mm_answer_auth2_read_banner \/ mm_answer_authserv
    PROVE  MonitorInv'
  <1>1. UNCHANGED <<mstate, state>> /\ reqs # <<>> /\ reqs' = Tail(reqs)
    BY DEF mm_answer_moduli, mm_answer_auth2_read_banner, mm_answer_authserv, monitor_read
  <1>2. reqs' \in Seq(Requests)
    BY <1>1, ReadTyped DEF MonitorInv
  <1>3. Phases'
    BY <1>1 DEF MonitorInv, Phases, mm_answer_moduli, mm_answer_auth2_read_banner,
               mm_answer_authserv, monitor_permit
  <1> QED
    BY <1>1, <1>2, <1>3, StateInv

LEMMA SignInv ==
    ASSUME MonitorInv, mm_answer_sign
    PROVE  MonitorInv'
  <1>1. /\ reqs # <<>> /\ reqs' = Tail(reqs) /\ "sign" \in Expected
        /\ session_id2' = IF session_id2 = NoId THEN Head(reqs).arg ELSE session_id2
        /\ UNCHANGED <<mstate, attempt, user, valid, key_blob, key_blobtype,
                       hostbased_client, forced_command, call_count, granted, found>>
    BY DEF mm_answer_sign, monitor_read
  <1>2. Asked'
    BY <1>1, ReadTyped DEF MonitorInv, Asked
  <1>3. Identity' /\ Remembered'
    BY <1>1 DEF MonitorInv, Identity, Remembered
  <1>4. Phases'
    BY <1>1 DEF MonitorInv, Phases, mm_answer_sign, monitor_permit
  <1>5. Bound' /\ GrantEarned'
    BY <1>1, ReadTyped, ReadSign DEF MonitorInv, Bound, GrantEarned, Earned, auth_root_allowed,
       mm_answer_sign, monitor_read
  <1> QED
    BY <1>2, <1>3, <1>4, <1>5 DEF MonitorInv

LEMMA PwnamInv ==
    ASSUME MonitorInv, mm_answer_pwnamallow
    PROVE  MonitorInv'
  <1>1. reqs # <<>> /\ reqs' = Tail(reqs) /\ "pwnam" \in Expected
    BY DEF mm_answer_pwnamallow, monitor_read
  <1>2. reqs' \in Seq(Requests)
    BY <1>1, ReadTyped DEF MonitorInv
  <1>3. CASE fatal
    BY <1>2, <1>3, FatalInv
  <1>4. CASE ~fatal
    <2>1. /\ attempt = 0 /\ attempt' = 1 /\ valid' = (user' \in Accounts)
          /\ monitor_permit("pwnam", {"authserv", "banner"})
          /\ UNCHANGED <<mstate, session_id2, key_blob, key_blobtype, hostbased_client,
                         forced_command, call_count, granted, found>>
      BY <1>4 DEF mm_answer_pwnamallow
    <2>2. mstate \in {"preauth", "gone"}
      BY <1>1, <2>1 DEF MonitorInv, Identity, Phases, Expected
    <2>3. Asked' /\ Identity' /\ Bound' /\ GrantEarned'
      BY <1>2, <2>1, <2>2 DEF MonitorInv, Asked, Identity, Bound, GrantEarned
    <2>4. Remembered' /\ Phases'
      BY <2>1, <2>2 DEF MonitorInv, Identity, Remembered, Phases, monitor_permit
    <2> QED
      BY <2>3, <2>4 DEF MonitorInv
  <1> QED
    BY <1>3, <1>4

(* The password is one that gets the user in.                              *)
Accepted(pw) ==
    /\ PasswordAuthentication
    /\ pw = "right" \/ (pw = "empty" /\ PermitEmptyPasswd /\ user \in EmptyPasswd)

(* The verdict on a good password pw or signature sig.                     *)
LEMMA VerdictEarned ==
    ASSUME MonitorInv, mstate = "preauth", NEW ok \in BOOLEAN, NEW method, NEW sig,
           NEW pw, monitor_child_preauth(ok, method, sig, pw),
           UNCHANGED <<user, session_id2, forced_command, found>>,
           method \in {"publickey", "hostbased"} => session_id2 # NoId,
           ok /\ valid => /\ method \in {"publickey", "hostbased"} =>
                               /\ sig.data.sid = session_id2 /\ sig.data.user = user
                               /\ sig.data.method = method
                          /\ method = "publickey" => sig.key \in found
                          /\ method = "hostbased" =>
                               <<user, sig.data.client, sig.key>> \in Trusted
                          /\ method \in {"none", "password"} => Accepted(pw)
    PROVE  mstate' \in {"preauth", "keystate", "gone"} /\ Bound' /\ GrantEarned'
  <1>1. CASE ok /\ (user = Root => auth_root_allowed(method, forced_command # NoKey)) /\ valid
    <2>1. /\ mstate' = "keystate"
          /\ granted' = [method |-> method, user |-> user, sig |-> sig, pw |-> pw]
      BY <1>1 DEF monitor_child_preauth
    <2>2. granted' # NoGrant
      BY <1>1, <2>1, MonitorAssumption DEF NoGrant, MonitorInv, Identity
    <2>3. Earned(granted)'
      BY <1>1, <2>1 DEF Earned, Accepted, MonitorInv, Identity, auth_root_allowed
    <2> QED
      BY <2>1, <2>2, <2>3 DEF GrantEarned, Bound
  <1>2. CASE ~(ok /\ (user = Root => auth_root_allowed(method, forced_command # NoKey)) /\ valid)
    BY <1>2 DEF monitor_child_preauth, GrantEarned, Bound
  <1> QED
    BY <1>1, <1>2

LEMMA PasswordInv ==
    ASSUME MonitorInv, mm_answer_authpassword
    PROVE  MonitorInv'
  <1>1. /\ reqs # <<>> /\ reqs' = Tail(reqs) /\ "authpassword" \in Expected /\ mstate # "gone"
        /\ UNCHANGED <<permit, attempt, user, valid, session_id2, key_blob, key_blobtype,
                       hostbased_client, forced_command, found>>
    BY DEF mm_answer_authpassword, monitor_read
  <1>2. mstate = "preauth"
    BY <1>1 DEF MonitorInv, Identity, Phases, Expected
  <1>3. PICK method \in {"none", "password"} :
           monitor_child_preauth(auth_password(Head(reqs).arg), method, NoSignature,
                                 Head(reqs).arg)
    BY DEF mm_answer_authpassword
  <1>4. auth_password(Head(reqs).arg) \in BOOLEAN
        /\ (auth_password(Head(reqs).arg) => Accepted(Head(reqs).arg))
    BY DEF auth_password, Accepted
  <1>5. mstate' \in {"preauth", "keystate", "gone"} /\ Bound' /\ GrantEarned'
    BY <1>1, <1>2, <1>3, <1>4, VerdictEarned, Zenon
  <1>6. Asked' /\ Identity' /\ Remembered' /\ Phases'
    BY <1>1, <1>2, <1>5, ReadTyped DEF MonitorInv, Asked, Identity, Remembered, Phases
  <1> QED
    BY <1>5, <1>6 DEF MonitorInv

LEMMA KeyAllowedInv ==
    ASSUME MonitorInv, mm_answer_keyallowed
    PROVE  MonitorInv'
  <1>1. /\ reqs # <<>> /\ reqs' = Tail(reqs) /\ "keyallowed" \in Expected /\ mstate # "gone"
        /\ UNCHANGED <<mstate, permit, attempt, user, valid, session_id2, call_count, granted>>
    BY DEF mm_answer_keyallowed, monitor_read
  <1>2. mstate = "preauth"
    BY <1>1 DEF MonitorInv, Identity, Phases, Expected
  <1>3. Asked' /\ Identity' /\ Phases' /\ Bound' /\ GrantEarned'
    BY <1>1, <1>2, ReadTyped DEF MonitorInv, Asked, Identity, Phases, Bound, GrantEarned
  <1>4. Head(reqs) \in Requests /\ Head(reqs).type = "keyallowed"
    BY <1>1, ReadTyped DEF MonitorInv, mm_answer_keyallowed, monitor_read
  <1>5. Head(reqs).arg.key \in Keys
    BY <1>4 DEF Requests
  <1>6. Remembered'
    BY <1>1, <1>5, MonitorAssumption, SMTT(30)
       DEF mm_answer_keyallowed, key_allowed, monitor_reset_key_state, Remembered
  <1> QED
    BY <1>3, <1>6 DEF MonitorInv

LEMMA KeyVerifyInv ==
    ASSUME MonitorInv, mm_answer_keyverify
    PROVE  MonitorInv'
  <1> DEFINE a == Head(reqs).arg
             ok == key_verify(a.key, a.data, a.sig)
             method == IF key_blobtype = "user" THEN "publickey" ELSE "hostbased"
  <1>1. /\ reqs # <<>> /\ reqs' = Tail(reqs) /\ "keyverify" \in Expected /\ mstate # "gone"
        /\ Head(reqs).type = "keyverify"
    BY DEF mm_answer_keyverify, monitor_read
  <1>2. mstate = "preauth"
    BY <1>1 DEF MonitorInv, Identity, Phases, Expected
  <1>3. reqs' \in Seq(Requests) /\ a.key \in Keys /\ a.data \in Data
    BY <1>1, ReadTyped, ReadKeyVerify DEF MonitorInv
  <1>4. CASE fatal
    BY <1>3, <1>4, FatalInv
  <1>5. CASE ~fatal
    <2>1. /\ monitor_allowed_key(a.key) /\ monitor_reset_key_state
          /\ IF key_blobtype = "user" THEN monitor_valid_userblob(a.data)
                                      ELSE monitor_valid_hostbasedblob(a.data)
          /\ monitor_child_preauth(ok, method, a.sig, "none")
          /\ UNCHANGED <<permit, attempt, user, valid, session_id2, forced_command,
                         call_count, found>>
      BY <1>5 DEF mm_answer_keyverify
    <2>2. ok => a.sig.key = a.key /\ a.sig.data = a.data
      BY DEF key_verify
    <2>3. ok \in BOOLEAN
      BY DEF key_verify
    <2>4. a.data.sid # NoId
      BY <1>3, MonitorAssumption DEF Data
    <2>5. /\ a.data.sid = session_id2 /\ a.data.user = user /\ a.data.method = method
          /\ method = "publickey" => a.key \in found
          /\ method = "hostbased" => <<user, a.data.client, a.key>> \in Trusted
      BY <2>1 DEF monitor_allowed_key, monitor_valid_userblob, monitor_valid_hostbasedblob,
                 MonitorInv, Remembered
    <2>6. method \in {"publickey", "hostbased"}
      OBVIOUS
    <2> HIDE DEF a, ok, method
    <2>7. mstate' \in {"preauth", "keystate", "gone"} /\ Bound' /\ GrantEarned'
      BY <1>2, <2>1, <2>2, <2>3, <2>4, <2>5, <2>6, VerdictEarned, Zenon
    <2>8. Asked' /\ Identity' /\ Remembered' /\ Phases'
      BY <1>2, <1>3, <2>1, <2>7
         DEF MonitorInv, Asked, Identity, Remembered, Phases, monitor_reset_key_state
    <2> QED
      BY <2>7, <2>8 DEF MonitorInv
  <1> QED
    BY <1>4, <1>5

LEMMA KeystateInv ==
    ASSUME MonitorInv, mm_get_keystate
    PROVE  MonitorInv'
  <1>1. /\ reqs # <<>> /\ reqs' = Tail(reqs) /\ "keyexport" \in Expected /\ mstate # "gone"
    BY DEF mm_get_keystate, monitor_read
  <1>2. mstate = "keystate"
    BY <1>1 DEF MonitorInv, Identity, Phases, Expected
  <1>3. reqs' \in Seq(Requests)
    BY <1>1, ReadTyped DEF MonitorInv
  <1>4. CASE fatal
    BY <1>3, <1>4, FatalInv
  <1>5. CASE ~fatal
    <2>1. mstate' = "postauth" /\ permit' = {"moduli", "sign", "term"} /\ UNCHANGED state
      BY <1>5 DEF mm_get_keystate
    <2>2. Asked' /\ Identity' /\ Remembered' /\ Phases' /\ Bound'
      BY <1>2, <1>3, <2>1 DEF MonitorInv, Asked, Identity, Remembered, Phases, Bound, state
    <2>3. GrantEarned'
      BY <1>2, <2>1 DEF MonitorInv, GrantEarned, Earned, state
    <2> QED
      BY <2>2, <2>3 DEF MonitorInv
  <1> QED
    BY <1>4, <1>5

(* The child, the alarm and the users only fill the queue or stop the
   monitor.                                                                *)
LEMMA OutsideInv ==
    ASSUME MonitorInv,
           ChildStep \/ ChildLost \/ KeysChange \/ grace_alarm_handler \/ mm_answer_term
             \/ Unexpected
    PROVE  MonitorInv'
  <1>1. CASE ChildLost \/ grace_alarm_handler
    BY <1>1, FatalInv DEF ChildLost, grace_alarm_handler, MonitorInv, Asked
  <1>2. CASE mm_answer_term \/ Unexpected
    BY <1>2, FatalInv, ReadTyped DEF mm_answer_term, Unexpected, monitor_read, MonitorInv
  <1>3. CASE KeysChange
    BY <1>3, StateInv DEF KeysChange, MonitorInv, Asked, Phases
  <1>4. CASE ChildStep
    <2>1. reqs' \in Seq(Requests)
      BY <1>4 DEF ChildStep, MonitorInv, Asked
    <2> QED
      BY <1>4, <2>1, StateInv DEF ChildStep, MonitorInv, Phases
  <1> QED
    BY <1>1, <1>2, <1>3, <1>4

LEMMA StutterInv ==
    ASSUME MonitorInv, UNCHANGED mvars
    PROVE  MonitorInv'
  BY StateInv DEF mvars, MonitorInv, Asked, Phases

LEMMA StepInv ==
    ASSUME MonitorInv, [MonitorNext]_mvars
    PROVE  MonitorInv'
  BY PlainInv, SignInv, PwnamInv, PasswordInv, KeyAllowedInv, KeyVerifyInv, KeystateInv,
     OutsideInv, StutterInv DEF MonitorNext, MonitorStep

(* Whatever requests the child sends and in whatever order, the monitor takes
   a user as authenticated only on a password or a signature that earns it
   (monitor.c: monitor_child_preauth and the handlers it dispatches to).    *)
THEOREM MonitorEarned == MonitorSpec => []GrantEarned
  <1>1. MonitorInv => GrantEarned
    BY DEF MonitorInv
  <1> QED
    BY <1>1, InitInv, StepInv, PTL DEF MonitorSpec

LEMMA StepFixed ==
    ASSUME MonitorInv, MonitorNext
    PROVE  /\ session_id2 # NoId => UNCHANGED session_id2
           /\ user # NoUser => UNCHANGED <<user, valid>>
  <1>1. CASE mm_answer_moduli \/ mm_answer_auth2_read_banner \/ mm_answer_authserv
               \/ mm_answer_term \/ Unexpected \/ ChildStep \/ ChildLost \/ KeysChange
               \/ grace_alarm_handler
    <2>1. UNCHANGED state
      BY <1>1 DEF mm_answer_moduli, mm_answer_auth2_read_banner, mm_answer_authserv,
            mm_answer_term, Unexpected, ChildStep, ChildLost, KeysChange,
            grace_alarm_handler, fatal
    <2> QED
      BY <2>1 DEF state
  <1>2. CASE mm_answer_sign
    BY <1>2 DEF mm_answer_sign
  <1>3. CASE mm_answer_pwnamallow
    BY <1>3 DEF mm_answer_pwnamallow, fatal, state, MonitorInv, Identity
  <1>4. CASE mm_answer_authpassword \/ mm_answer_keyallowed
    BY <1>4 DEF mm_answer_authpassword, mm_answer_keyallowed
  <1>5. CASE mm_answer_keyverify
    BY <1>5 DEF mm_answer_keyverify, fatal, state
  <1>6. CASE mm_get_keystate
    BY <1>6 DEF mm_get_keystate, fatal, state
  <1> QED
    BY <1>1, <1>2, <1>3, <1>4, <1>5, <1>6 DEF MonitorNext, MonitorStep

(* No request changes the session id or the user once they are set, after
   authentication included (monitor.c:574-579, 613).                       *)
THEOREM MonitorKeepsIdentity == MonitorSpec => IdentityFixed
  <1>1. MonitorInv /\ [MonitorNext]_mvars =>
          [/\ session_id2 # NoId => UNCHANGED session_id2
           /\ user # NoUser => UNCHANGED <<user, valid>>]_mvars
    BY StepFixed
  <1> QED
    BY <1>1, InitInv, StepInv, PTL DEF MonitorSpec, IdentityFixed

(* Types. *)
GrantType == [method : {"none", "password", "publickey", "hostbased"},
              user : Accounts, sig : Signatures, pw : Passwords \cup {"none"}]

LEMMA RequestsTyped ==
    ASSUME NEW q \in Requests
    PROVE  /\ q.type \in RequestTypes
           /\ q.type = "sign" => q.arg \in SessionIds
           /\ q.type = "pwnam" => q.arg \in Users
           /\ q.type = "authpassword" => q.arg \in Passwords
           /\ q.type = "keyallowed" => /\ q.arg.key \in Keys /\ q.arg.client \in Clients
                                       /\ q.arg.type \in {"user", "host"}
           /\ q.type = "keyverify" => q.arg.sig \in Signatures
  BY DEF Requests, RequestTypes

LEMMA PermitTyped ==
    ASSUME permit \subseteq RequestTypes, NEW t, NEW S \in SUBSET RequestTypes,
           monitor_permit(t, S)
    PROVE  permit' \subseteq RequestTypes
  BY DEF monitor_permit

(* The verdict names an account, and how the user got in.                  *)
LEMMA VerdictTyped ==
    ASSUME MonitorTypeOK, Identity, NEW ok, NEW sig \in Signatures,
           NEW method \in {"none", "password", "publickey", "hostbased"},
           NEW pw \in Passwords \cup {"none"}, monitor_child_preauth(ok, method, sig, pw)
    PROVE  /\ granted' \in GrantType \cup {NoGrant}
           /\ mstate' \in {"preauth", "keystate", "postauth", "gone"}
  <1>1. CASE granted' = granted
    BY <1>1 DEF monitor_child_preauth, MonitorTypeOK, GrantType
  <1>2. CASE granted' # granted
    <2>1. valid /\ mstate' = "keystate"
          /\ granted' = [method |-> method, user |-> user, sig |-> sig, pw |-> pw]
      BY <1>2 DEF monitor_child_preauth
    <2> QED
      BY <2>1 DEF GrantType, Identity
  <1> QED
    BY <1>1, <1>2

LEMMA StepTypes ==
    ASSUME MonitorInv, MonitorTypeOK, [MonitorNext]_mvars
    PROVE  MonitorTypeOK'
  <1>0. Asked' /\ Identity /\ reqs \in Seq(Requests)
    BY StepInv DEF MonitorInv, Asked
  <1>1. ASSUME reqs # <<>>
        PROVE  Head(reqs) \in Requests
    BY <1>0, <1>1
  <1>2. CASE mm_answer_moduli \/ mm_answer_auth2_read_banner \/ mm_answer_authserv
    <2>1. UNCHANGED <<mstate, state, authorized>>
      BY <1>2 DEF mm_answer_moduli, mm_answer_auth2_read_banner, mm_answer_authserv, monitor_read
    <2>2. permit' \subseteq RequestTypes
      <3>1. permit \subseteq RequestTypes
        BY DEF MonitorTypeOK
      <3> QED
        BY <1>2, <3>1, Zenon DEF mm_answer_moduli, mm_answer_auth2_read_banner, mm_answer_authserv,
           monitor_permit, RequestTypes
    <2> QED
      BY <1>0, <2>1, <2>2 DEF MonitorTypeOK, Asked, state
  <1>3. CASE mm_answer_sign
    <2>1. Head(reqs).arg \in SessionIds
      BY <1>1, <1>3, RequestsTyped DEF mm_answer_sign, monitor_read
    <2>2. permit' \subseteq RequestTypes
      BY <1>3 DEF mm_answer_sign, monitor_permit, RequestTypes, MonitorTypeOK
    <2> QED
      BY <1>0, <1>3, <2>1, <2>2 DEF mm_answer_sign, monitor_read, MonitorTypeOK, Asked
  <1>4. CASE mm_answer_pwnamallow
    <2>1. Head(reqs).arg \in Users /\ UNCHANGED authorized
      BY <1>1, <1>4, RequestsTyped DEF mm_answer_pwnamallow, monitor_read
    <2>2. CASE fatal
      BY <1>0, <2>1, <2>2 DEF fatal, MonitorTypeOK, Asked, state
    <2>3. CASE ~fatal
      <3>1. /\ attempt' = 1 /\ user' \in Users /\ valid' = (user' \in Accounts)
            /\ monitor_permit("pwnam", {"authserv", "banner"})
            /\ UNCHANGED <<mstate, session_id2, key_blob, key_blobtype, hostbased_client,
                           forced_command, call_count, granted, found>>
        BY <1>4, <2>1, <2>3 DEF mm_answer_pwnamallow
      <3>2. permit' \subseteq RequestTypes
        BY <3>1 DEF monitor_permit, RequestTypes, MonitorTypeOK
      <3>3. valid' \in BOOLEAN
        BY <3>1
      <3> QED
        BY <1>0, <2>1, <3>1, <3>2, <3>3 DEF MonitorTypeOK, Asked
    <2> QED
      BY <2>2, <2>3
  <1>5. CASE mm_answer_authpassword
    <2>1. \E ok : \E method \in {"none", "password"} : \E pw \in Passwords :
             monitor_child_preauth(ok, method, NoSignature, pw)
      <3>1. PICK method \in {"none", "password"} :
              monitor_child_preauth(auth_password(Head(reqs).arg), method, NoSignature,
                                    Head(reqs).arg)
        BY <1>5 DEF mm_answer_authpassword
      <3>2. Head(reqs).arg \in Passwords
        BY <1>1, <1>5, RequestsTyped DEF mm_answer_authpassword, monitor_read
      <3> QED
        BY <3>1, <3>2, Zenon
    <2>2. NoSignature \in Signatures
      BY DEF Signatures
    <2>3. /\ granted' \in GrantType \cup {NoGrant}
          /\ mstate' \in {"preauth", "keystate", "postauth", "gone"}
      BY <1>0, <2>1, <2>2, VerdictTyped
    <2>4. /\ UNCHANGED <<permit, attempt, user, valid, session_id2, key_blob, key_blobtype,
                         hostbased_client, forced_command, found, authorized>>
          /\ call_count' = 1
      BY <1>5 DEF mm_answer_authpassword, monitor_read
    <2> QED
      BY <1>0, <2>3, <2>4 DEF MonitorTypeOK, GrantType, Asked
  <1>6. CASE mm_answer_keyallowed
    <2>1. /\ Head(reqs).arg.key \in Keys /\ Head(reqs).arg.client \in Clients
          /\ Head(reqs).arg.type \in {"user", "host"}
      BY <1>1, <1>6, RequestsTyped DEF mm_answer_keyallowed, monitor_read
    <2>2. /\ UNCHANGED <<mstate, permit, attempt, user, valid, session_id2, call_count, granted,
                         authorized>>
          /\ forced_command' = Options(Head(reqs).arg)
          /\ IF key_allowed(Head(reqs).arg)
             THEN /\ key_blob' = Head(reqs).arg.key /\ key_blobtype' = Head(reqs).arg.type
                  /\ hostbased_client' = Head(reqs).arg.client
             ELSE monitor_reset_key_state
          /\ found' \subseteq Keys
      BY <1>6, SMTT(30) DEF mm_answer_keyallowed, monitor_read
    <2>3. forced_command' \in ForcedKeys \cup {NoKey}
      BY <2>2, SMTT(30) DEF Options, MonitorTypeOK
    <2>4. /\ key_blob' \in Keys \cup {NoKey} /\ key_blobtype' \in {"none", "user", "host"}
          /\ hostbased_client' \in Clients \cup {NoUser}
      BY <2>1, <2>2, ZenonT(30) DEF monitor_reset_key_state
    <2> QED
      BY <1>0, <2>2, <2>3, <2>4 DEF MonitorTypeOK, Asked
  <1>7. CASE mm_answer_keyverify
    <2>1. Head(reqs).arg.sig \in Signatures /\ UNCHANGED authorized
      BY <1>1, <1>7, RequestsTyped DEF mm_answer_keyverify, monitor_read
    <2>2. CASE fatal
      BY <1>0, <2>1, <2>2 DEF fatal, MonitorTypeOK, Asked, state
    <2>3. CASE ~fatal
      <3> DEFINE a == Head(reqs).arg
                 ok == key_verify(a.key, a.data, a.sig)
                 method == IF key_blobtype = "user" THEN "publickey" ELSE "hostbased"
      <3>1. /\ monitor_child_preauth(ok, method, a.sig, "none") /\ monitor_reset_key_state
            /\ UNCHANGED <<permit, attempt, user, valid, session_id2, forced_command,
                           call_count, found>>
        BY <1>7, <2>3 DEF mm_answer_keyverify
      <3>2. /\ granted' \in GrantType \cup {NoGrant}
            /\ mstate' \in {"preauth", "keystate", "postauth", "gone"}
        <4>1. method \in {"none", "password", "publickey", "hostbased"}
          BY SMTT(30)
        <4> HIDE DEF ok, method
        <4> QED
          BY <1>0, <2>1, <3>1, <4>1, VerdictTyped
      <3> QED
        BY <1>0, <2>1, <3>1, <3>2, SMTT(30) DEF MonitorTypeOK, GrantType, Asked, monitor_reset_key_state
    <2> QED
      BY <2>2, <2>3
  <1>8. CASE mm_get_keystate
    BY <1>0, <1>8, Zenon DEF mm_get_keystate, monitor_read, fatal, MonitorTypeOK, Asked, state,
       RequestTypes
  <1>9. CASE mm_answer_term \/ Unexpected \/ ChildLost \/ grace_alarm_handler
    BY <1>0, <1>9 DEF mm_answer_term, monitor_read, Unexpected, ChildLost, grace_alarm_handler,
       fatal, MonitorTypeOK, Asked, state
  <1>10. CASE ChildStep \/ UNCHANGED mvars
    BY <1>0, <1>10 DEF ChildStep, mvars, MonitorTypeOK, Asked, state
  <1>11. CASE KeysChange
    <2>1. authorized' \subseteq Holders
      BY <1>11 DEF KeysChange, MonitorTypeOK
    <2> QED
      BY <1>0, <1>11, <2>1 DEF KeysChange, MonitorTypeOK, Asked, state
  <1> QED
    BY <1>2, <1>3, <1>4, <1>5, <1>6, <1>7, <1>8, <1>9, <1>10, <1>11 DEF MonitorNext, MonitorStep

(* The monitor's state is well formed whatever the child does.             *)
THEOREM MonitorTypes == MonitorSpec => []MonitorTypeOK
  <1>1. MonitorInit => MonitorTypeOK
    <2> SUFFICES ASSUME MonitorInit PROVE MonitorTypeOK
      OBVIOUS
    <2>1. permit \subseteq RequestTypes /\ reqs \in Seq(Requests) /\ authorized \subseteq Holders
      BY DEF MonitorInit, RequestTypes
    <2>2. valid \in BOOLEAN /\ granted = NoGrant
      BY Zenon DEF MonitorInit
    <2> QED
      BY <2>1, <2>2 DEF MonitorInit, MonitorTypeOK
  <1> QED
    BY <1>1, InitInv, StepInv, StepTypes, PTL DEF MonitorSpec
=============================================================================
