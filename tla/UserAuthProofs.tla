--------------------------- MODULE UserAuthProofs ---------------------------
(***************************************************************************)
(* The child of UserAuth is one of the children Monitor allows for, so     *)
(* what the monitor guarantees against any child holds of the pair, for    *)
(* every set of users, keys, signatures and session ids and every setting  *)
(* of the options.  The second half defines what the two processes know of *)
(* each other, Lockstep, and shows that the steps of the child, the client *)
(* and the environment keep it.                                            *)
(***************************************************************************)
EXTENDS UserAuth, MonitorProofs

Methods == {"none", "unknown", "password", "publickey", "hostbased"}

PacketType ==
    [user : Users \cup {NoUser}, service : Services, method : Methods,
     key : Keys \cup {NoKey}, client : Clients, sig : Signatures,
     pw : {"empty", "right", "wrong", "change"}]

(* What the child needs to remember for its questions to be well formed.   *)
AsksWell ==
    /\ Asked /\ pkt \in PacketType /\ "user" \in DOMAIN ctxt
    /\ pc = "pwnam" => pkt.user \in Users
    /\ pc \in {"try", "banner", "password", "allowed", "verify"} => ctxt.user \in Users
    /\ pc = "allowed" => pkt.key \in Keys /\ pkt.method \in {"publickey", "hostbased"}

LEMMA SomeClient == AnyClient \in Clients
  BY UserAuthAssumption DEF AnyClient

LEMMA NoPacketTyped == NoPacket \in PacketType
  BY SomeClient DEF NoPacket, Userauth, PacketType, Methods, Services, Signatures

LEMMA PacketTyped ==
    ASSUME NEW p \in Packets
    PROVE  p \in PacketType /\ p.user \in Users
  <1>1. MadeSigs \subseteq Signatures /\ NoSignature \in Signatures
    BY UserAuthAssumption DEF Signatures
  <1> QED
    BY <1>1, SomeClient DEF Packets, Userauth, PacketType, Methods, Services

LEMMA InitAsks == Init => AsksWell
  BY NoPacketTyped DEF Init, MonitorInit, AsksWell, Asked

(* A well formed question is a step of the monitor's arbitrary child.      *)
LEMMA AskStep ==
    ASSUME Asked, MonitorIdle, NEW q \in Requests, reqs' = Append(reqs, q),
           answers' = answers \/ (answers # <<>> /\ answers' = Tail(answers))
    PROVE  ChildStep /\ Asked'
  <1>1. reqs \in Seq(Requests)
    BY DEF Asked
  <1>2. reqs' \in Seq(Requests) /\ reqs'[Len(reqs) + 1] = q
    BY <1>1
  <1> QED
    BY <1>2 DEF ChildStep, Asked, MonitorIdle

LEMMA SilentStep ==
    ASSUME Asked, MonitorIdle, UNCHANGED reqs,
           answers' = answers \/ (answers # <<>> /\ answers' = Tail(answers))
    PROVE  ChildStep /\ Asked'
  BY DEF ChildStep, Asked, MonitorIdle

(* The questions, one by one. *)
LEMMA Questions ==
    /\ \A t \in {"moduli", "authserv", "banner", "term"} : [type |-> t, arg |-> NoKey] \in Requests
    /\ \A t \in {"sign", "keyexport"}, s \in SessionIds : [type |-> t, arg |-> s] \in Requests
    /\ \A u \in Users : [type |-> "pwnam", arg |-> u] \in Requests
    /\ \A p \in {"empty", "right", "wrong"} : [type |-> "authpassword", arg |-> p] \in Requests
  BY DEF Requests, Passwords

(* The end of a request leaves nothing to ask.                             *)
LEMMA FinishAsks ==
    ASSUME AsksWell, NEW a, NEW b, NEW f, userauth_finish(a, b, f)
    PROVE  /\ pkt' \in PacketType /\ "user" \in DOMAIN ctxt'
           /\ pc' \in {"internal error", "export", "gone", "idle"}
  BY NoPacketTyped DEF AsksWell, userauth_finish

LEMMA FinishStep ==
    ASSUME AsksWell, MonitorIdle, UNCHANGED reqs, NEW a, NEW b, NEW f, userauth_finish(a, b, f),
           answers' = answers \/ (answers # <<>> /\ answers' = Tail(answers))
    PROVE  ChildStep /\ AsksWell'
  <1>1. ChildStep /\ Asked'
    BY SilentStep DEF AsksWell
  <1> QED
    BY <1>1, FinishAsks DEF AsksWell

(* The key exchange, before authentication and after it.                   *)
LEMMA KexStep ==
    ASSUME AsksWell,
           mm_choose_dh \/ mm_key_sign \/ mm_send_keystate \/ mm_terminate \/ Rekey
    PROVE  ChildStep /\ AsksWell'
  <1>1. /\ MonitorIdle /\ UNCHANGED <<pkt, ctxt>>
        /\ pc' \in {"moduli", "sign", "resign", "done", "gone"}
        /\ answers' = answers \/ (answers # <<>> /\ answers' = Tail(answers))
    BY DEF mm_choose_dh, mm_key_sign, mm_send_keystate, mm_terminate, Rekey, Reads
  <1>2. UNCHANGED reqs \/ \E q \in Requests : reqs' = Append(reqs, q)
    BY Questions, UserAuthAssumption, Zenon
       DEF mm_choose_dh, mm_key_sign, mm_send_keystate, mm_terminate, Rekey, Ask
  <1>3. ChildStep /\ Asked'
    BY <1>1, <1>2, AskStep, SilentStep DEF AsksWell
  <1> QED
    BY <1>1, <1>3 DEF AsksWell

(* The steps that say nothing to the monitor.                              *)
LEMMA QuietStep ==
    ASSUME AsksWell,
           do_authentication2 \/ input_service_request \/ Hangup
    PROVE  ChildStep /\ AsksWell'
  <1>1. /\ MonitorIdle /\ UNCHANGED <<reqs, pkt, ctxt>> /\ pc' \in {"service", "idle", "gone"}
        /\ answers' = answers \/ (answers # <<>> /\ answers' = Tail(answers))
    BY DEF do_authentication2, input_service_request, Hangup, Reads, Keep
  <1>2. ChildStep /\ Asked'
    BY <1>1, SilentStep DEF AsksWell
  <1> QED
    BY <1>1, <1>2 DEF AsksWell

LEMMA RequestStep ==
    ASSUME AsksWell, NEW p \in Packets, input_userauth_request(p)
    PROVE  ChildStep /\ AsksWell'
  <1>1. /\ MonitorIdle /\ answers' = answers /\ pkt' = p
        /\ p \in PacketType /\ p.user \in Users
    BY PacketTyped DEF input_userauth_request
  <1>2. UNCHANGED reqs \/ \E q \in Requests : reqs' = Append(reqs, q)
    BY <1>1, Questions DEF input_userauth_request, Ask
  <1>3. ChildStep /\ Asked'
    BY <1>1, <1>2, AskStep, SilentStep DEF AsksWell
  <1>4. /\ "user" \in DOMAIN ctxt' /\ pc' \in {"pwnam", "gone", "try"}
        /\ pc' = "try" => ctxt'.user \in Users
    BY <1>1 DEF AsksWell, input_userauth_request
  <1> QED
    BY <1>1, <1>3, <1>4 DEF AsksWell

LEMMA PwnamStep ==
    ASSUME AsksWell, mm_getpwnamallow
    PROVE  ChildStep /\ AsksWell'
  <1>1. /\ MonitorIdle /\ answers # <<>> /\ answers' = Tail(answers) /\ UNCHANGED pkt
        /\ reqs' = Append(reqs, [type |-> "authserv", arg |-> NoKey])
        /\ pc = "pwnam" /\ pc' = "try"
    BY DEF mm_getpwnamallow, Reads, Ask
  <1>2. ChildStep /\ Asked'
    BY <1>1, Questions, AskStep DEF AsksWell
  <1>3. "user" \in DOMAIN ctxt' /\ ctxt'.user \in Users
    BY <1>1 DEF AsksWell, mm_getpwnamallow
  <1> QED
    BY <1>1, <1>2, <1>3 DEF AsksWell

(* A question asked in the middle of a request.                            *)
LEMMA ProgressStep ==
    ASSUME AsksWell, MonitorIdle, UNCHANGED <<pkt, ctxt>>,
           pc \in {"try", "banner", "allowed"}, pc' \in {"banner", "password", "verify"},
           NEW q \in Requests, reqs' = Append(reqs, q),
           answers' = answers \/ (answers # <<>> /\ answers' = Tail(answers))
    PROVE  ChildStep /\ AsksWell'
  <1>1. ChildStep /\ Asked'
    BY AskStep DEF AsksWell
  <1> QED
    BY <1>1 DEF AsksWell

LEMMA AllowedStep ==
    ASSUME AsksWell, MonitorIdle, UNCHANGED <<pkt, ctxt, answers>>, pc = "try",
           pkt.key # NoKey, pkt.method \in {"publickey", "hostbased"},
           NEW t \in {"user", "host"}, AskAllowed(t)
    PROVE  ChildStep /\ AsksWell'
  <1>1. pkt.key \in Keys /\ pkt.client \in Clients
    BY DEF AsksWell, PacketType
  <1>2. [type |-> "keyallowed", arg |-> [type |-> t, key |-> pkt.key, client |-> pkt.client]]
            \in Requests
    BY <1>1 DEF Requests
  <1>3. ChildStep /\ Asked'
    BY <1>2, AskStep DEF AsksWell, AskAllowed, Ask
  <1> QED
    BY <1>1, <1>3 DEF AsksWell, AskAllowed

LEMMA TryStep ==
    ASSUME AsksWell, TryMethod
    PROVE  ChildStep /\ AsksWell'
  <1>0. pc = "try" /\ MonitorIdle /\ UNCHANGED answers
    BY DEF TryMethod
  <1>1. CASE userauth_none
    <2>1. CASE Ask("banner", NoKey) /\ pc' = "banner" /\ InProgress
      BY <1>0, <2>1, Questions, ProgressStep DEF Ask, InProgress
    <2>2. CASE Ask("authpassword", "empty") /\ pc' = "password" /\ InProgress
      BY <1>0, <2>2, Questions, ProgressStep DEF Ask, InProgress
    <2>3. CASE userauth_finish(FALSE, FALSE, forced) /\ UNCHANGED reqs
      BY <1>0, <2>3, FinishStep
    <2> QED
      BY <1>1, <2>1, <2>2, <2>3, Zenon DEF userauth_none
  <1>2. CASE userauth_passwd
    <2>1. CASE pkt.pw # "change" /\ Ask("authpassword", pkt.pw) /\ pc' = "password" /\ InProgress
      <3>1. pkt.pw \in {"empty", "right", "wrong"}
        BY <2>1 DEF AsksWell, PacketType
      <3> QED
        BY <1>0, <2>1, <3>1, Questions, ProgressStep DEF Ask, InProgress
    <2>2. CASE userauth_finish(FALSE, FALSE, forced) /\ UNCHANGED reqs
      BY <1>0, <2>2, FinishStep
    <2> QED
      BY <1>2, <2>1, <2>2, Zenon DEF userauth_passwd
  <1>3. CASE userauth_pubkey
    <2>1. CASE pkt.key # NoKey /\ AskAllowed("user") /\ InProgress
      BY <1>0, <1>3, <2>1, AllowedStep DEF userauth_pubkey, InProgress
    <2>2. CASE userauth_finish(FALSE, FALSE, forced) /\ UNCHANGED reqs
      BY <1>0, <2>2, FinishStep
    <2> QED
      BY <1>3, <2>1, <2>2, Zenon DEF userauth_pubkey
  <1>4. CASE userauth_hostbased
    <2>1. CASE pkt.key # NoKey /\ AskAllowed("host") /\ InProgress
      BY <1>0, <1>4, <2>1, AllowedStep DEF userauth_hostbased, InProgress
    <2>2. CASE userauth_finish(FALSE, FALSE, forced) /\ UNCHANGED reqs
      BY <1>0, <2>2, FinishStep
    <2> QED
      BY <1>4, <2>1, <2>2, Zenon DEF userauth_hostbased
  <1>5. CASE Unrecognized
    BY <1>0, <1>5, FinishStep, Zenon DEF Unrecognized
  <1> QED
    BY <1>1, <1>2, <1>3, <1>4, <1>5 DEF TryMethod

LEMMA AnswerStep ==
    ASSUME AsksWell,
           mm_auth2_read_banner \/ mm_auth_password \/ mm_key_allowed \/ mm_key_verify
    PROVE  ChildStep /\ AsksWell'
  <1>0. MonitorIdle /\ answers # <<>> /\ answers' = Tail(answers)
    BY DEF mm_auth2_read_banner, mm_auth_password, mm_key_allowed, mm_key_verify, Reads
  <1>1. CASE mm_auth2_read_banner
    <2>1. CASE Ask("authpassword", "empty") /\ pc' = "password" /\ InProgress
      BY <1>0, <1>1, <2>1, Questions, ProgressStep DEF mm_auth2_read_banner, Ask, InProgress
    <2>2. CASE userauth_finish(FALSE, FALSE, forced) /\ UNCHANGED reqs
      BY <1>0, <2>2, FinishStep, Zenon
    <2> QED
      BY <1>1, <2>1, <2>2 DEF mm_auth2_read_banner
  <1>2. CASE mm_auth_password
    BY <1>0, <1>2, FinishStep, Zenon DEF mm_auth_password
  <1>3. CASE mm_key_allowed
    <2>1. CASE /\ Ask("keyverify", [key |-> pkt.key, data |-> SignedData, sig |-> pkt.sig])
               /\ pc' = "verify" /\ UNCHANGED <<pkt, ctxt>>
      <3>1. pc = "allowed"
        BY <1>3 DEF mm_key_allowed
      <3>2. SignedData \in Data
        BY <3>1, UserAuthAssumption DEF SignedData, Data, AsksWell, PacketType
      <3>3. [type |-> "keyverify",
             arg |-> [key |-> pkt.key, data |-> SignedData, sig |-> pkt.sig]] \in Requests
        BY <3>1, <3>2 DEF Requests, AsksWell, PacketType
      <3> QED
        BY <1>0, <2>1, <3>1, <3>3, ProgressStep DEF Ask
    <2>2. CASE /\ userauth_finish(FALSE, Head(answers).allowed,
                                  pkt.method = "hostbased" /\ Head(answers).forced)
               /\ UNCHANGED reqs
      BY <1>0, <2>2, FinishStep, Zenon
    <2> QED
      BY <1>3, <2>1, <2>2, Zenon DEF mm_key_allowed
  <1>4. CASE mm_key_verify
    BY <1>0, <1>4, FinishStep DEF mm_key_verify
  <1> QED
    BY <1>1, <1>2, <1>3, <1>4

(* The monitor takes requests off the queue; the rest are its own steps.   *)
LEMMA MonitorSide ==
    ASSUME AsksWell, Privileged \/ Alarm \/ Lost \/ Changes
    PROVE  MonitorNext /\ AsksWell'
  <1>1. CASE Privileged
    <2>1. reqs # <<>> /\ reqs' = Tail(reqs) /\ UNCHANGED <<pkt, ctxt, pc>>
      BY <1>1, Zenon DEF Privileged, cvars, MonitorStep, mm_answer_moduli, mm_answer_sign,
         mm_answer_pwnamallow, mm_answer_auth2_read_banner, mm_answer_authserv,
         mm_answer_authpassword, mm_answer_keyallowed, mm_answer_keyverify, mm_get_keystate,
         mm_answer_term, Unexpected, monitor_read
    <2>2. Asked'
      BY <2>1, ReadTyped DEF AsksWell, Asked
    <2> QED
      BY <1>1, <2>1, <2>2 DEF Privileged, MonitorNext, AsksWell
  <1>2. CASE Alarm
    BY <1>2 DEF Alarm, grace_alarm_handler, MonitorNext, AsksWell, Asked
  <1>3. CASE Lost
    BY <1>3 DEF Lost, ChildLost, MonitorNext, AsksWell, Asked, cvars
  <1>4. CASE Changes
    BY <1>4 DEF Changes, KeysChange, MonitorNext, AsksWell, Asked
  <1> QED
    BY <1>1, <1>2, <1>3, <1>4

LEMMA PairStep ==
    ASSUME AsksWell, [Next]_vars
    PROVE  [MonitorNext]_mvars /\ AsksWell'
  <1>1. CASE Child
    BY <1>1, KexStep, QuietStep, PwnamStep, TryStep, AnswerStep DEF Child, MonitorNext
  <1>2. CASE Client
    BY <1>2, QuietStep, RequestStep DEF Client, MonitorNext
  <1>3. CASE Rekey \/ mm_terminate
    BY <1>3, KexStep DEF MonitorNext
  <1>4. CASE Privileged \/ Alarm \/ Lost \/ Changes
    BY <1>4, MonitorSide
  <1>5. CASE UNCHANGED vars
    BY <1>5 DEF vars, mvars, cvars, AsksWell, Asked
  <1> QED
    BY <1>1, <1>2, <1>3, <1>4, <1>5 DEF Next

(***************************************************************************)
(* The pair implements the monitor with an arbitrary child: every question *)
(* the functions of monitor_wrap.c ask is a well formed request, and       *)
(* nothing else they do touches the monitor's state.                       *)
(***************************************************************************)
THEOREM PairImplementsMonitor == Spec => ImplementsMonitor
  <1>1. Init => MonitorInit
    BY DEF Init
  <1> QED
    BY <1>1, InitAsks, PairStep, PTL DEF Spec, ImplementsMonitor, MonitorSpec

(***************************************************************************)
(* Hence the user of a real connection has earned the session too, however *)
(* the packets of the client, the steps of the two processes and the       *)
(* changes of the keys are interleaved.                                    *)
(***************************************************************************)
THEOREM PairEarned == Spec => []GrantEarned
  BY PairImplementsMonitor, MonitorEarned, PTL DEF ImplementsMonitor
-----------------------------------------------------------------------------
(* Lockstep: what the child and the monitor know of each other at each place
   of the child.  The child is served in the order it asks; authserv has no
   answer, so it may still be on its way when the next question follows.   *)

Question(type, arg) == [type |-> type, arg |-> arg]
Authserv == Question("authserv", NoKey)

Idle     == Len(answers) = 0 /\ Len(reqs) = 0
Silent   == Len(answers) = 0 /\ (Len(reqs) = 0 \/ (Len(reqs) = 1 /\ reqs[1] = Authserv))
Sent(q)  == Len(answers) = 0 /\ Len(reqs) = 1 /\ reqs[1] = q
Asks(q)  == \/ Sent(q)
            \/ Len(answers) = 0 /\ Len(reqs) = 2 /\ reqs[1] = Authserv /\ reqs[2] = q
Told(a)  == Len(answers) = 1 /\ answers[1] = a /\ Len(reqs) = 0

(* Before the user is named. *)
Fresh(sid) ==
    /\ mstate = "preauth" /\ attempt = 0 /\ ctxt.attempt = 0 /\ none_enabled
    /\ session_id2 = sid /\ granted = NoGrant

(* After that the two agree on who it is, and what the child may ask is
   permitted, or will be when the monitor has taken the authserv.          *)
Introduced ==
    /\ attempt = 1 /\ ctxt.attempt = 1 /\ user = ctxt.user /\ session_id2 = Sid
    /\ ctxt.user \in Users
    /\ ctxt.valid = (valid /\ ctxt.service = "ssh-connection")

Authenticating == {"authpassword", "keyallowed", "keyverify"}

Served ==
    /\ IF Len(reqs) > 0 /\ reqs[1] = Authserv THEN "authserv" \in permit
                                               ELSE Authenticating \subseteq permit
    /\ none_enabled => "banner" \in permit

Undecided == mstate = "preauth" /\ granted = NoGrant /\ Introduced /\ Served

KeysSeen(u) == {k \in Keys : <<u, k>> \in authorized} \subseteq held
InRequest   == pkt.user = ctxt.user /\ KeysSeen(pkt.user)

(* The key of the request is the one the monitor has allowed last.         *)
BlobType == IF pkt.method = "publickey" THEN "user" ELSE "host"
Blob     == [type |-> BlobType, key |-> pkt.key, client |-> pkt.client]
Signed   == [key |-> pkt.key, data |-> SignedData, sig |-> pkt.sig]

Allowed ==
    /\ key_blob = pkt.key /\ key_blobtype = BlobType /\ hostbased_client = pkt.client
    /\ pkt.method = "publickey" => pkt.key \in held

(* The monitor has judged the answer ok, as the child is about to.         *)
Judged(ok) ==
    /\ Told(ok) /\ Introduced /\ Served /\ (ok => valid)
    /\ IF ok /\ (user = Root => auth_root_allowed(pkt.method, forced))
       THEN mstate = "keystate" /\ granted # NoGrant
       ELSE mstate = "preauth" /\ granted = NoGrant

Established == ctxt.success /\ ctxt.user = user /\ granted # NoGrant
Stopped     == mstate = "gone" /\ Len(reqs) <= 2 /\ Len(answers) <= 1

AtKex    == Idle /\ Fresh(NoId) /\ {"moduli", "sign"} \subseteq permit
AtModuli ==
    /\ Fresh(NoId) /\ "sign" \in permit
    /\ \/ Sent(Question("moduli", NoKey)) /\ "moduli" \in permit
       \/ Told("dh")
AtSign   ==
    \/ Sent(Question("sign", Sid)) /\ Fresh(NoId) /\ "sign" \in permit
    \/ Told("signature") /\ Fresh(Sid) /\ "pwnam" \in permit
AtService == Idle /\ Fresh(Sid) /\ "pwnam" \in permit
AtIdle    == AtService \/ (Silent /\ Undecided)
AtPwnam   ==
    /\ mstate = "preauth" /\ granted = NoGrant /\ ctxt.attempt = 1 /\ none_enabled
    /\ session_id2 = Sid /\ KeysSeen(pkt.user)
    /\ \/ Sent(Question("pwnam", pkt.user)) /\ attempt = 0 /\ "pwnam" \in permit
       \/ /\ Told(valid) /\ attempt = 1 /\ user = pkt.user
          /\ {"authserv", "banner"} \subseteq permit
AtTry     == Silent /\ Undecided /\ InRequest
AtBanner  ==
    /\ Undecided /\ InRequest /\ ~none_enabled
    /\ \/ Asks(Question("banner", NoKey)) /\ "banner" \in permit
       \/ Told("banner")
AtPassword ==
    /\ InRequest
    /\ \/ Undecided /\ \E p \in {"empty", "right", "wrong"} : Asks(Question("authpassword", p))
       \/ (\E ok \in BOOLEAN : Judged(ok)) /\ granted.method # "publickey"
AtAllowed ==
    /\ InRequest /\ Undecided
    /\ \/ Asks(Question("keyallowed", Blob))
       \/ \E ok \in BOOLEAN :
            /\ Told([allowed |-> ok, forced |-> forced_command # NoKey])
            /\ ok => Allowed
AtVerify ==
    /\ InRequest /\ pkt.key \in Keys /\ pkt.method \in {"publickey", "hostbased"}
    /\ forced = (forced_command # NoKey)
    /\ pkt.method = "publickey" => pkt.key \in held
    /\ \/ Undecided /\ Allowed /\ Asks(Question("keyverify", Signed))
       \/ \E ok \in BOOLEAN :
            /\ Judged(ok) /\ (ok => pkt.sig.key = pkt.key)
            /\ granted # NoGrant => granted.method = pkt.method /\ granted.sig = pkt.sig
AtExport ==
    /\ Idle /\ mstate = "keystate" /\ Established /\ session_id2 = Sid
    /\ granted.method = "publickey" => granted.sig.key \in held
AtDone ==
    /\ Established
    /\ \/ mstate = "keystate" /\ Sent(Question("keyexport", Sid)) /\ session_id2 = Sid
       \/ mstate = "postauth" /\ Idle
       \/ Stopped
AtResign ==
    /\ Established /\ mstate = "postauth"
    /\ \/ \E s \in SessionIds : Sent(Question("sign", s))
       \/ Told("signature")
AtGone ==
    \/ Stopped
    \/ Silent
    \/ Sent(Question("term", NoKey))

Over == {"gone", "internal error"}

Conversation ==
    /\ pc = "kex"      => AtKex
    /\ pc = "moduli"   => AtModuli
    /\ pc = "sign"     => AtSign
    /\ pc = "service"  => AtService
    /\ pc = "idle"     => AtIdle
    /\ pc = "pwnam"    => AtPwnam
    /\ pc = "try"      => AtTry
    /\ pc = "banner"   => AtBanner
    /\ pc = "password" => AtPassword
    /\ pc = "allowed"  => AtAllowed
    /\ pc = "verify"   => AtVerify
    /\ pc = "export"   => AtExport
    /\ pc = "done"     => AtDone
    /\ pc = "resign"   => AtResign
    /\ pc \in Over     => AtGone

Answers == BOOLEAN \cup {"dh", "signature", "banner"} \cup [allowed : BOOLEAN, forced : BOOLEAN]

ContextType ==
    [attempt : {0, 1}, user : Users \cup {NoUser}, service : Services, valid : BOOLEAN,
     failures : Nat, postponed : BOOLEAN, success : BOOLEAN]

(* The child's own state, with the limit on the failures.                  *)
ChildTyped ==
    /\ pc \in Waiting \cup {"kex", "service", "idle", "try", "export", "done"} \cup Over
    /\ ctxt \in ContextType
    /\ none_enabled \in BOOLEAN /\ forced \in BOOLEAN /\ held \subseteq Keys
    /\ answers \in Seq(Answers)
    /\ ctxt.failures <= MaxAuthTries + 2
    /\ pc \notin Over => ctxt.failures <= MaxAuthTries + 1

Lockstep == MonitorInv /\ AsksWell /\ ChildTyped /\ Conversation
-----------------------------------------------------------------------------
(* The queues. *)
LEMMA Enqueue ==
    ASSUME NEW S, NEW q \in Seq(S), NEW e \in S
    PROVE  /\ Append(q, e) \in Seq(S) /\ Len(Append(q, e)) = Len(q) + 1
           /\ Append(q, e)[Len(q) + 1] = e
           /\ \A i \in 1..Len(q) : Append(q, e)[i] = q[i]
OBVIOUS

LEMMA Dequeue ==
    ASSUME NEW S, NEW q \in Seq(S)
    PROVE  /\ Len(q) \in Nat /\ (q # <<>> <=> Len(q) # 0)
           /\ q # <<>> => /\ Head(q) = q[1] /\ Head(q) \in S
                          /\ Tail(q) \in Seq(S) /\ Len(Tail(q)) = Len(q) - 1
                          /\ \A i \in 1..(Len(q) - 1) : Tail(q)[i] = q[i + 1]
OBVIOUS

LEMMA InitLockstep == ASSUME Init PROVE Lockstep
<1>1. MonitorInv /\ AsksWell
    BY InitInv, InitAsks DEF Init
<1>2. ChildTyped
    <2>1. ctxt.failures = 0 /\ pc \notin Over
        BY DEF Init, Over
    <2>2. ctxt \in ContextType
        BY DEF Init, ContextType, Services
    <2>3. pc \in Waiting \cup {"kex", "service", "idle", "try", "export", "done"} \cup Over
        BY DEF Init
    <2>4. answers \in Seq(Answers)
        BY DEF Init, MonitorInit
    <2>5. held \subseteq Keys
        BY DEF Init
    <2>6. ctxt.failures <= MaxAuthTries + 2 /\ ctxt.failures <= MaxAuthTries + 1
        BY <2>1, UserAuthAssumption
    <2>7. none_enabled \in BOOLEAN /\ forced \in BOOLEAN
        BY Zenon DEF Init
    <2>. QED
        BY <2>2, <2>3, <2>4, <2>5, <2>6, <2>7 DEF ChildTyped
<1>3. AtKex
    BY DEF Init, MonitorInit, AtKex, Idle, Fresh
<1>. QED
    BY <1>1, <1>2, <1>3 DEF Lockstep, Conversation, Init, Over

(* The queues are short whatever the child is doing.                       *)
Short == Len(reqs) <= 2 /\ Len(answers) <= 1

LEMMA QueuesShort ==
    ASSUME Lockstep
    PROVE  Short
<1>1. Idle \/ Silent => Short
    BY DEF Idle, Silent, Short
<1>2. \A q : Sent(q) \/ Asks(q) \/ Told(q) => Short
    BY DEF Sent, Asks, Told, Short
<1>3. CASE pc \in {"kex", "moduli", "sign", "service", "idle", "pwnam", "try"}
    BY <1>1, <1>2, <1>3 DEF Lockstep, Conversation, AtKex, AtModuli, AtSign, AtService,
       AtIdle, AtPwnam, AtTry
<1>4. CASE pc \in {"banner", "password", "allowed", "verify"}
    BY <1>2, <1>4, Zenon DEF Lockstep, Conversation, AtBanner, AtPassword, AtAllowed, AtVerify, Judged
<1>5. CASE pc \in {"export", "done", "resign"}
    BY <1>1, <1>2, <1>5 DEF Lockstep, Conversation, AtExport, AtDone, AtResign, Stopped, Short
<1>6. CASE pc \in Over
    BY <1>1, <1>2, <1>6 DEF Lockstep, Conversation, AtGone, Stopped, Short, Over
<1>. QED
    BY <1>3, <1>4, <1>5, <1>6 DEF Lockstep, ChildTyped, Waiting

LEMMA EmptyQueues ==
    ASSUME Lockstep
    PROVE  /\ Len(reqs) \in Nat /\ Len(answers) \in Nat
           /\ answers # <<>> <=> Len(answers) # 0
           /\ reqs # <<>> <=> Len(reqs) # 0
BY Dequeue DEF Lockstep, AsksWell, Asked, ChildTyped

(* The child asks with nothing else on its way.                            *)
LEMMA AskSent ==
    ASSUME Asked, Len(reqs) = 0, Len(answers') = 0, NEW q \in Requests, reqs' = Append(reqs, q)
    PROVE  Sent(q)'
BY Enqueue DEF Asked, Sent

(* The child asks, perhaps behind an authserv.                             *)
LEMMA AskServed ==
    ASSUME Asked, Len(reqs) = 0 \/ (Len(reqs) = 1 /\ reqs[1] = Authserv), Served,
           NEW q \in Requests, q.type # "authserv", reqs' = Append(reqs, q),
           Len(answers') = 0, UNCHANGED permit, none_enabled' => none_enabled
    PROVE  Asks(q)' /\ Served'
<1>1. /\ Len(reqs') = Len(reqs) + 1 /\ reqs'[Len(reqs) + 1] = q
      /\ \A i \in 1..Len(reqs) : reqs'[i] = reqs[i]
    BY Enqueue DEF Asked
<1>2. q # Authserv
    BY DEF Authserv, Question
<1>3. CASE Len(reqs) = 0
    BY <1>1, <1>2, <1>3 DEF Asks, Sent, Served
<1>4. CASE Len(reqs) = 1 /\ reqs[1] = Authserv
    BY <1>1, <1>4 DEF Asks, Served
<1>. QED
    BY <1>3, <1>4

(* It takes the answer it was waiting for.                                 *)
LEMMA AnswerTaken ==
    ASSUME Lockstep, Reads, Len(answers) <= 1
    PROVE  /\ Len(answers) = 1 /\ Head(answers) = answers[1] /\ Len(answers') = 0
           /\ answers' \in Seq(Answers)
<1>1. answers \in Seq(Answers) /\ answers # <<>> /\ answers' = Tail(answers)
    BY DEF Lockstep, ChildTyped, Reads
<1>2. /\ Len(answers) \in Nat /\ Len(answers) # 0 /\ Head(answers) = answers[1]
      /\ answers' \in Seq(Answers) /\ Len(answers') = Len(answers) - 1
    BY <1>1, Dequeue
<1>. QED
    BY <1>2
-----------------------------------------------------------------------------
(* The key exchange, and the service request.                              *)

LEMMA KexTyped ==
    ASSUME ChildTyped, UNCHANGED <<ctxt, none_enabled, forced, held>>,
           answers' \in Seq(Answers), pc \notin Over,
           pc' \in Waiting \cup {"kex", "service", "idle", "try", "export", "done"} \cup Over
    PROVE  ChildTyped'
BY DEF ChildTyped

LEMMA KexLockstep ==
    ASSUME Lockstep, mm_choose_dh \/ mm_key_sign \/ do_authentication2
    PROVE  ChildTyped' /\ Conversation'
<1>. USE DEF Lockstep
<1>0. /\ UNCHANGED <<mstate, permit, state, authorized, pkt, ctxt, none_enabled, forced, held>>
      /\ pc \in {"kex", "moduli", "sign"} /\ pc' \in {"moduli", "sign", "service"}
      /\ answers' = answers \/ Reads
    BY DEF mm_choose_dh, mm_key_sign, do_authentication2, MonitorIdle
<1>1. ChildTyped'
    <2>1. answers' \in Seq(Answers)
        BY <1>0, AnswerTaken, QueuesShort DEF ChildTyped, Short
    <2>. QED
        BY <1>0, <2>1, KexTyped DEF Waiting, Over
<1>2. CASE mm_choose_dh
    <2>1. pc' = "moduli" /\ AtKex /\ reqs' = Append(reqs, Question("moduli", NoKey))
          /\ answers' = answers
        BY <1>2 DEF mm_choose_dh, Conversation, Ask, Question
    <2>2. Sent(Question("moduli", NoKey))'
        BY <2>1, AskSent, Questions DEF AsksWell, AtKex, Idle, Question
    <2>3. AtModuli'
        BY <1>0, <2>1, <2>2 DEF AtKex, AtModuli, Fresh, state
    <2>. QED
        BY <1>1, <2>1, <2>3 DEF Conversation, Over
<1>3. CASE mm_key_sign
    <2>1. pc' = "sign" /\ reqs' = Append(reqs, Question("sign", Sid))
        BY <1>3 DEF mm_key_sign, Ask, Question
    <2>2. Len(reqs) = 0 /\ Len(answers') = 0 /\ Fresh(NoId) /\ "sign" \in permit
        <3>1. CASE pc = "kex"
            BY <1>3, <3>1 DEF mm_key_sign, Conversation, AtKex, Idle, Reads, Waiting
        <3>2. CASE pc = "moduli"
            BY <1>3, <3>2, AnswerTaken, QueuesShort, EmptyQueues
               DEF mm_key_sign, Conversation, AtModuli, Sent, Told, Short
        <3>. QED
            BY <1>3, <3>1, <3>2 DEF mm_key_sign
    <2>3. Sent(Question("sign", Sid))'
        BY <2>1, <2>2, AskSent, Questions, UserAuthAssumption DEF AsksWell, Question
    <2>4. AtSign'
        BY <1>0, <2>2, <2>3 DEF AtSign, Fresh, state
    <2>. QED
        BY <1>1, <2>1, <2>4 DEF Conversation, Over
<1>4. CASE do_authentication2
    <2>1. pc = "sign" /\ pc' = "service" /\ Reads /\ reqs' = reqs
        BY <1>4 DEF do_authentication2
    <2>2. Told("signature") /\ Fresh(Sid) /\ "pwnam" \in permit /\ Len(answers') = 0
        BY <2>1, AnswerTaken, QueuesShort DEF Conversation, AtSign, Sent, Short
    <2>3. AtService'
        BY <1>0, <2>1, <2>2 DEF AtService, Idle, Told, Fresh, state
    <2>. QED
        BY <1>1, <2>1, <2>3 DEF Conversation, Over
<1>. QED
    BY <1>2, <1>3, <1>4

LEMMA ServiceLockstep ==
    ASSUME Lockstep, input_service_request \/ Hangup
    PROVE  ChildTyped' /\ Conversation'
<1>. USE DEF Lockstep
<1>1. /\ UNCHANGED <<mstate, permit, state, authorized, reqs, answers,
                     pkt, ctxt, none_enabled, forced, held>>
      /\ pc \in {"service", "idle"} /\ pc' \in {"idle", "gone"}
    BY DEF input_service_request, Hangup, Keep, MonitorIdle
<1>2. ChildTyped'
    BY <1>1, KexTyped DEF ChildTyped, Over
<1>3. AtIdle
    BY <1>1 DEF Conversation, AtIdle
<1>4. AtIdle'
    BY <1>1, <1>3 DEF AtIdle, AtService, Idle, Silent, Fresh, Undecided, Introduced, Served,
       state
<1>5. Silent'
    BY <1>4 DEF AtIdle, AtService, Idle, Silent
<1>. QED
    BY <1>1, <1>2, <1>4, <1>5 DEF Conversation, AtGone, Over
-----------------------------------------------------------------------------
(* A request of the client. *)

LEMMA RequestLockstep ==
    ASSUME Lockstep, NEW p \in Packets, input_userauth_request(p)
    PROVE  ChildTyped' /\ Conversation'
<1>. USE DEF Lockstep
<1>0. /\ pc = "idle" /\ AtIdle /\ pkt' = p /\ p.user \in Users
      /\ held' = {k \in Keys : <<p.user, k>> \in authorized}
      /\ UNCHANGED <<mstate, permit, state, authorized, answers, none_enabled, forced>>
    BY PacketTyped DEF input_userauth_request, Conversation, MonitorIdle
<1>1. /\ pc' \in {"pwnam", "gone", "try"} /\ ctxt' \in ContextType
      /\ ctxt'.failures = ctxt.failures
    BY <1>0, Zenon DEF input_userauth_request, ChildTyped, ContextType
<1>2. ChildTyped'
    BY <1>0, <1>1 DEF ChildTyped, Waiting, Over
<1>3. KeysSeen(p.user)' /\ KeysSeen(pkt.user)'
    BY <1>0 DEF KeysSeen
<1>4. CASE ctxt.attempt = 0
    <2>1. /\ reqs' = Append(reqs, Question("pwnam", p.user)) /\ pc' = "pwnam"
          /\ ctxt'.attempt = 1
        BY <1>4 DEF input_userauth_request, Ask, Question, ChildTyped, ContextType
    <2>2. AtService
        BY <1>0, <1>4 DEF AtIdle, Undecided, Introduced
    <2>3. Sent(Question("pwnam", p.user))'
        BY <1>0, <2>1, <2>2, AskSent, Questions DEF AsksWell, AtService, Idle, Question
    <2>4. AtPwnam'
        BY <1>0, <1>3, <2>1, <2>2, <2>3 DEF AtPwnam, AtService, Fresh, Sent, state
    <2>. QED
        BY <1>2, <2>1, <2>4 DEF Conversation, Over
<1>5. CASE ctxt.attempt # 0
    <2>1. UNCHANGED reqs /\ (pc' = "gone" \/ (/\ pc' = "try" /\ p.user = ctxt.user
                                              /\ ctxt' = [ctxt EXCEPT !.postponed = FALSE]))
        BY <1>5 DEF input_userauth_request
    <2>2. Silent /\ Undecided
        BY <1>0, <1>5 DEF AtIdle, AtService, Fresh
    <2>3. Silent'
        BY <1>0, <2>1, <2>2 DEF Silent
    <2>4. CASE pc' = "gone"
        BY <1>2, <2>3, <2>4 DEF Conversation, AtGone, Over
    <2>5. CASE pc' = "try" /\ p.user = ctxt.user /\ ctxt' = [ctxt EXCEPT !.postponed = FALSE]
        <3>1. /\ ctxt'.user = ctxt.user /\ ctxt'.attempt = ctxt.attempt
              /\ ctxt'.valid = ctxt.valid /\ ctxt'.service = ctxt.service
            BY <2>5 DEF ChildTyped, ContextType
        <3>2. Undecided'
            BY <1>0, <2>1, <2>2, <3>1 DEF Undecided, Introduced, Served, state
        <3>3. AtTry'
            BY <1>0, <1>3, <2>3, <2>5, <3>1, <3>2 DEF AtTry, InRequest
        <3>. QED
            BY <1>2, <2>5, <3>3 DEF Conversation, Over
    <2>. QED
        BY <2>1, <2>4, <2>5
<1>. QED
    BY <1>4, <1>5

LEMMA PwnamLockstep ==
    ASSUME Lockstep, mm_getpwnamallow
    PROVE  ChildTyped' /\ Conversation'
<1>. USE DEF Lockstep
<1>0. /\ pc = "pwnam" /\ AtPwnam /\ pc' = "try" /\ Reads
      /\ reqs' = Append(reqs, Authserv)
      /\ ctxt' = [ctxt EXCEPT !.user = pkt.user, !.service = pkt.service,
                              !.valid = Head(answers) /\ pkt.service = "ssh-connection"]
      /\ UNCHANGED <<mstate, permit, state, authorized, pkt, none_enabled, forced, held>>
    BY DEF mm_getpwnamallow, Conversation, MonitorIdle, Ask, Authserv, Question
<1>1. /\ Len(answers) = 1 /\ Head(answers) = answers[1] /\ Len(answers') = 0
      /\ answers' \in Seq(Answers)
    BY <1>0, AnswerTaken, QueuesShort DEF Short
<1>2. /\ Told(valid) /\ attempt = 1 /\ user = pkt.user /\ {"authserv", "banner"} \subseteq permit
    <2>1. ~Sent(Question("pwnam", pkt.user))
        BY <1>1 DEF Sent
    <2>. QED
        BY <1>0, <2>1, Zenon DEF AtPwnam
<1>3. /\ pkt.user \in Users /\ pkt.service \in Services /\ valid \in BOOLEAN
    BY <1>0 DEF AsksWell, PacketType, MonitorInv, Identity
<1>4. /\ ctxt' \in ContextType /\ ctxt'.failures = ctxt.failures /\ ctxt'.user = pkt.user
      /\ ctxt'.attempt = ctxt.attempt /\ ctxt'.service = pkt.service
      /\ ctxt'.valid = (valid /\ pkt.service = "ssh-connection")
    BY <1>0, <1>1, <1>2, <1>3 DEF ChildTyped, ContextType, Told
<1>5. ChildTyped'
    BY <1>0, <1>1, <1>4 DEF ChildTyped, Over
<1>6. Sent(Authserv)'
    BY <1>0, <1>1, <1>2, AskSent, Questions DEF AsksWell, Told, Authserv, Question
<1>7. Undecided'
    <2>1. UNCHANGED <<valid, user, attempt, session_id2, granted>>
        BY <1>0 DEF state
    <2>2. ctxt'.valid = (valid' /\ ctxt'.service = "ssh-connection")
        BY <1>4, <2>1, Zenon
    <2>3. Introduced'
        BY <1>0, <1>2, <1>3, <1>4, <2>1, <2>2, Zenon DEF AtPwnam, Introduced
    <2>4. Served'
        <3>1. "authserv" \in permit' /\ "banner" \in permit'
            BY <1>0, <1>2
        <3>2. Len(reqs') > 0 /\ reqs'[1] = Authserv
            BY <1>6 DEF Sent
        <3>. QED
            BY <3>1, <3>2 DEF Served
    <2>. QED
        BY <1>0, <2>1, <2>3, <2>4 DEF AtPwnam, Undecided
<1>8. AtTry'
    BY <1>0, <1>4, <1>6, <1>7 DEF AtPwnam, AtTry, InRequest, KeysSeen, Silent, Sent
<1>. QED
    BY <1>0, <1>5, <1>8 DEF Conversation, Over
-----------------------------------------------------------------------------
(* The end of a request. *)

LEMMA OneMore ==
    ASSUME NEW f \in Nat, NEW m \in Nat, f <= m + 1, NEW n \in {f, f + 1}
    PROVE  /\ n \in Nat /\ n <= m + 2
           /\ n = f \/ f <= m => n <= m + 1
OBVIOUS

LEMMA NotAbove ==
    ASSUME NEW f \in Nat, NEW m \in Nat, ~(f > m)
    PROVE  f <= m
OBVIOUS

(* What the end of a request does to the Authctxt, the failures counted.   *)
LEMMA CountTyped ==
    ASSUME ChildTyped, pc \notin Over, NEW later \in BOOLEAN, NEW passed \in BOOLEAN,
           NEW n \in {ctxt.failures, ctxt.failures + 1},
           ctxt' = [ctxt EXCEPT !.postponed = later, !.success = passed, !.failures = n],
           forced' \in BOOLEAN, none_enabled' \in BOOLEAN, answers' \in Seq(Answers),
           held' \subseteq Keys, pc' \in {"internal error", "export", "gone", "idle"},
           pc' \in {"export", "idle"} => n = ctxt.failures \/ ctxt.failures <= MaxAuthTries
    PROVE  /\ ChildTyped' /\ ctxt'.user = ctxt.user /\ ctxt'.attempt = ctxt.attempt
           /\ ctxt'.valid = ctxt.valid /\ ctxt'.service = ctxt.service
           /\ ctxt'.success = passed
<1>1. ctxt.failures \in Nat /\ ctxt.failures <= MaxAuthTries + 1 /\ MaxAuthTries \in Nat
    BY UserAuthAssumption DEF ChildTyped, ContextType
<1>2. /\ n \in Nat /\ n <= MaxAuthTries + 2
      /\ n = ctxt.failures \/ ctxt.failures <= MaxAuthTries => n <= MaxAuthTries + 1
    BY <1>1, OneMore, Zenon
<1>3. pc' \notin Over => n <= MaxAuthTries + 1
    BY <1>2 DEF Over
<1>4. ctxt' \in ContextType /\ ctxt'.failures = n
    BY <1>2 DEF ChildTyped, ContextType
<1>5. ChildTyped'
    BY <1>2, <1>3, <1>4 DEF ChildTyped, Over
<1>. QED
    BY <1>5 DEF ChildTyped, ContextType

LEMMA FinishTyped ==
    ASSUME ChildTyped, pc \notin Over, NEW later \in BOOLEAN, NEW passed \in BOOLEAN,
           NEW fail \in BOOLEAN,
           ctxt' = [ctxt EXCEPT !.postponed = later, !.success = passed,
                                !.failures = IF fail THEN @ + 1 ELSE @],
           forced' \in BOOLEAN, none_enabled' \in BOOLEAN, answers' \in Seq(Answers),
           held' \subseteq Keys, pc' \in {"internal error", "export", "gone", "idle"},
           pc' \in {"export", "idle"} => ~(fail /\ ctxt.failures > MaxAuthTries)
    PROVE  /\ ChildTyped' /\ ctxt'.user = ctxt.user /\ ctxt'.attempt = ctxt.attempt
           /\ ctxt'.valid = ctxt.valid /\ ctxt'.service = ctxt.service
           /\ ctxt'.success = passed
<1>1. ctxt.failures \in Nat /\ MaxAuthTries \in Nat
    BY UserAuthAssumption DEF ChildTyped, ContextType
<1>2. CASE fail
    <2>1. ctxt' = [ctxt EXCEPT !.postponed = later, !.success = passed,
                               !.failures = ctxt.failures + 1]
        BY <1>2
    <2>2. pc' \in {"export", "idle"} => ctxt.failures <= MaxAuthTries
        BY <1>1, <1>2, NotAbove, Zenon
    <2>. QED
        BY <2>1, <2>2, CountTyped, Zenon
<1>3. CASE ~fail
    <2>1. ctxt' = [ctxt EXCEPT !.postponed = later, !.success = passed,
                               !.failures = ctxt.failures]
        BY <1>3
    <2>. QED
        BY <2>1, CountTyped, Zenon
<1>. QED
    BY <1>2, <1>3

(* A request that did not authenticate leaves the two as they were.        *)
LEMMA FailureLockstep ==
    ASSUME Lockstep, Undecided, UNCHANGED <<mstate, permit, state, authorized, reqs>>,
           pc \notin Over,
           Len(reqs) = 0 \/ (Len(reqs) = 1 /\ reqs[1] = Authserv),
           Len(answers') = 0, answers' \in Seq(Answers),
           none_enabled' \in BOOLEAN, none_enabled' => none_enabled,
           NEW later \in BOOLEAN, NEW frc \in BOOLEAN, userauth_finish(FALSE, later, frc)
    PROVE  ChildTyped' /\ Conversation'
<1>. USE DEF Lockstep
<1>1. /\ ctxt' = [ctxt EXCEPT !.postponed = later, !.success = FALSE,
                              !.failures = IF ~later THEN @ + 1 ELSE @]
      /\ forced' = frc /\ held' = {}
      /\ pc' = IF ~later /\ ctxt.failures > MaxAuthTries THEN "gone" ELSE "idle"
    BY Zenon DEF userauth_finish
<1>2. /\ ChildTyped' /\ ctxt'.user = ctxt.user /\ ctxt'.attempt = ctxt.attempt
      /\ ctxt'.valid = ctxt.valid /\ ctxt'.service = ctxt.service
    <2>1. held' \subseteq Keys /\ pc' \in {"internal error", "export", "gone", "idle"}
          /\ (pc' \in {"export", "idle"} => ~(~later /\ ctxt.failures > MaxAuthTries))
        BY <1>1
    <2>. QED
        BY <1>1, <2>1, FinishTyped, Zenon
<1>5. Silent'
    BY DEF Silent
<1>6. Undecided'
    BY <1>2 DEF Undecided, Introduced, Served, state
<1>. QED
    BY <1>1, <1>2, <1>5, <1>6 DEF Conversation, AtGone, AtIdle, Over

(* A request that was judged ends with the monitor's verdict.              *)
LEMMA JudgedLockstep ==
    ASSUME Lockstep, NEW ok \in BOOLEAN, Judged(ok), Reads,
           UNCHANGED <<mstate, permit, state, authorized, reqs, none_enabled>>,
           pc \in {"password", "verify"},
           granted # NoGrant /\ granted.method = "publickey" => granted.sig.key \in held,
           NEW frc \in BOOLEAN, ok => frc = forced, userauth_finish(ok, FALSE, frc)
    PROVE  ChildTyped' /\ Conversation'
<1>. USE DEF Lockstep
<1>. DEFINE passed == ok /\ (user = Root => auth_root_allowed(pkt.method, forced))
<1>0. /\ Len(answers') = 0 /\ Len(reqs') = 0 /\ answers' \in Seq(Answers) /\ user = ctxt.user
      /\ Introduced /\ Served
    BY AnswerTaken, QueuesShort DEF Judged, Told, Short, Introduced
<1>1. (ok /\ (ctxt.user = Root => auth_root_allowed(pkt.method, frc))) = passed
    BY <1>0
<1>2. /\ ctxt' = [ctxt EXCEPT !.postponed = FALSE, !.success = passed,
                              !.failures = IF ~passed THEN @ + 1 ELSE @]
      /\ forced' = frc /\ held' = IF passed THEN held ELSE {}
      /\ pc' = IF ok /\ ~ctxt.valid THEN "internal error"
               ELSE IF passed THEN "export"
               ELSE IF ~passed /\ ctxt.failures > MaxAuthTries THEN "gone" ELSE "idle"
    BY <1>1, Zenon DEF userauth_finish
<1>3. passed \in BOOLEAN
    OBVIOUS
<1>4. /\ passed => mstate = "keystate" /\ granted # NoGrant
      /\ ~passed => mstate = "preauth" /\ granted = NoGrant
    BY SMTT(30) DEF Judged
<1>. HIDE DEF passed
<1>5. /\ ChildTyped' /\ ctxt'.user = ctxt.user /\ ctxt'.attempt = ctxt.attempt
      /\ ctxt'.valid = ctxt.valid /\ ctxt'.service = ctxt.service /\ ctxt'.success = passed
    <2>1. /\ pc' \in {"internal error", "export", "gone", "idle"}
          /\ pc' \in {"export", "idle"} => ~(~passed /\ ctxt.failures > MaxAuthTries)
        BY <1>2
    <2>2. held' \subseteq Keys
        BY <1>2 DEF ChildTyped
    <2>3. pc \notin Over /\ none_enabled' \in BOOLEAN
        BY DEF Over, ChildTyped
    <2>. QED
        BY <1>0, <1>2, <1>3, <2>1, <2>2, <2>3, FinishTyped, Zenon
<1>8. Idle' /\ Silent'
    BY <1>0 DEF Idle, Silent
<1>9. pc' = "export" => AtExport'
    BY <1>0, <1>2, <1>4, <1>5, <1>8 DEF AtExport, Established, Introduced, state
<1>10. pc' = "idle" => Undecided'
    BY <1>0, <1>2, <1>4, <1>5, <1>8 DEF Undecided, Introduced, Served, state
<1>. QED
    BY <1>2, <1>5, <1>8, <1>9, <1>10 DEF Conversation, AtGone, AtIdle, Over
-----------------------------------------------------------------------------
(* The methods, and the answers to their questions.                        *)

(* A question in the middle of a request.                                  *)
LEMMA ProgressLockstep ==
    ASSUME Lockstep, Undecided, InRequest,
           UNCHANGED <<mstate, permit, state, authorized, pkt, ctxt, held>>,
           Len(reqs) = 0 \/ (Len(reqs) = 1 /\ reqs[1] = Authserv),
           Len(answers') = 0, answers' \in Seq(Answers),
           none_enabled' \in BOOLEAN, none_enabled' => none_enabled, forced' \in BOOLEAN,
           NEW q \in Requests, q.type # "authserv", reqs' = Append(reqs, q),
           pc \notin Over, pc' \in Waiting
    PROVE  ChildTyped' /\ Undecided' /\ InRequest' /\ Asks(q)'
<1>1. Asks(q)' /\ Served'
    BY AskServed DEF Lockstep, AsksWell, Undecided
<1>2. ChildTyped'
    BY DEF Lockstep, ChildTyped, Over, Waiting
<1>3. Undecided'
    BY <1>1 DEF Undecided, Introduced, state
<1>4. InRequest'
    BY DEF InRequest, KeysSeen
<1>. QED
    BY <1>1, <1>2, <1>3, <1>4

LEMMA TryLockstep ==
    ASSUME Lockstep, TryMethod
    PROVE  ChildTyped' /\ Conversation'
<1>. USE DEF Lockstep
<1>0. /\ pc = "try" /\ UNCHANGED <<mstate, permit, state, authorized, answers>>
      /\ Silent /\ Undecided /\ InRequest
      /\ userauth_none \/ userauth_passwd \/ userauth_pubkey \/ userauth_hostbased
           \/ Unrecognized
    BY DEF TryMethod, Conversation, AtTry, MonitorIdle
<1>1. /\ Len(reqs) = 0 \/ (Len(reqs) = 1 /\ reqs[1] = Authserv)
      /\ Len(answers') = 0 /\ answers' \in Seq(Answers)
      /\ pc \notin Over /\ forced \in BOOLEAN
    BY <1>0 DEF Silent, ChildTyped, Over
<1>2. none_enabled' \in BOOLEAN /\ (none_enabled' => none_enabled)
    <2>1. none_enabled' = FALSE \/ none_enabled' = none_enabled
        BY <1>0, Zenon DEF userauth_none, userauth_passwd, userauth_pubkey, userauth_hostbased,
           Unrecognized
    <2>2. none_enabled \in BOOLEAN
        BY DEF ChildTyped
    <2>3. CASE none_enabled' = FALSE
        BY <2>3, Zenon
    <2>4. CASE none_enabled' = none_enabled
        BY <2>2, <2>4
    <2>. QED
        BY <2>1, <2>3, <2>4, Zenon
<1>3. CASE userauth_finish(FALSE, FALSE, forced) /\ UNCHANGED reqs
    BY <1>0, <1>1, <1>2, <1>3, FailureLockstep, Zenon
<1>4. CASE /\ InProgress /\ Ask("banner", NoKey) /\ pc' = "banner" /\ none_enabled
           /\ none_enabled' = FALSE
    <2>1. Question("banner", NoKey) \in Requests /\ Question("banner", NoKey).type # "authserv"
          /\ reqs' = Append(reqs, Question("banner", NoKey))
        BY <1>4, Questions DEF Question, Ask
    <2>2. ChildTyped' /\ Undecided' /\ InRequest' /\ Asks(Question("banner", NoKey))'
        BY <1>0, <1>1, <1>2, <1>4, <2>1, ProgressLockstep DEF InProgress, Waiting
    <2>3. "banner" \in permit'
        BY <1>0, <1>4 DEF Undecided, Served
    <2>4. AtBanner'
        BY <1>4, <2>2, <2>3 DEF AtBanner
    <2>. QED
        BY <1>4, <2>2, <2>4 DEF Conversation, Over
<1>5. ASSUME NEW p \in {"empty", "right", "wrong"}, Ask("authpassword", p), pc' = "password",
             InProgress
      PROVE  ChildTyped' /\ Conversation'
    <2>1. Question("authpassword", p) \in Requests
          /\ Question("authpassword", p).type # "authserv"
          /\ reqs' = Append(reqs, Question("authpassword", p))
        BY <1>5, Questions DEF Question, Ask
    <2>2. ChildTyped' /\ Undecided' /\ InRequest' /\ Asks(Question("authpassword", p))'
        BY <1>0, <1>1, <1>2, <1>5, <2>1, ProgressLockstep DEF InProgress, Waiting
    <2>3. AtPassword'
        BY <2>2 DEF AtPassword
    <2>. QED
        BY <1>5, <2>2, <2>3 DEF Conversation, Over
<1>6. ASSUME NEW type, type = BlobType, pkt.method \in {"publickey", "hostbased"},
             pkt.key # NoKey, AskAllowed(type), InProgress
      PROVE  ChildTyped' /\ Conversation'
    <2>1. /\ Question("keyallowed", Blob) \in Requests
          /\ Question("keyallowed", Blob).type # "authserv"
          /\ reqs' = Append(reqs, Question("keyallowed", Blob)) /\ pc' = "allowed"
        <3>1. pkt.key \in Keys /\ pkt.client \in Clients /\ BlobType \in {"user", "host"}
            BY <1>6 DEF AsksWell, PacketType, BlobType
        <3>2. Blob \in [type : {"user", "host"}, key : Keys, client : Clients]
            BY <3>1 DEF Blob
        <3>3. reqs' = Append(reqs, Question("keyallowed", Blob)) /\ pc' = "allowed"
            BY <1>6 DEF AskAllowed, Ask, Question, Blob
        <3>. QED
            BY <3>2, <3>3 DEF Question, Requests
    <2>2. ChildTyped' /\ Undecided' /\ InRequest' /\ Asks(Question("keyallowed", Blob))'
        <3>1. ChildTyped' /\ Undecided' /\ InRequest' /\ Len(answers') = 0
            BY <1>0, <1>1, <1>2, <1>6, <2>1, ProgressLockstep DEF InProgress, Waiting
        <3>2. Blob' = Blob
            BY <1>6, SMTT(30) DEF InProgress, Blob, BlobType
        <3>3. Asks(Question("keyallowed", Blob))'
            BY <1>0, <1>1, <1>2, <1>6, <2>1, <3>2, AskServed
               DEF AsksWell, Undecided, Asks, Sent, Question
        <3>. QED
            BY <3>1, <3>3
    <2>3. AtAllowed'
        BY <2>2 DEF AtAllowed
    <2>. QED
        BY <2>1, <2>2, <2>3 DEF Conversation, Over
<1>7. CASE userauth_none
    BY <1>3, <1>4, <1>5, <1>7, Zenon DEF userauth_none
<1>8. CASE userauth_passwd
    <2>1. pkt.pw # "change" => pkt.pw \in {"empty", "right", "wrong"}
        BY DEF AsksWell, PacketType
    <2>. QED
        BY <1>3, <1>5, <1>8, <2>1, Zenon DEF userauth_passwd
<1>9. CASE userauth_pubkey \/ userauth_hostbased
    BY <1>3, <1>6, <1>9, Zenon DEF userauth_pubkey, userauth_hostbased, BlobType
<1>. QED
    BY <1>0, <1>3, <1>7, <1>8, <1>9, Zenon DEF Unrecognized

LEMMA BannerLockstep ==
    ASSUME Lockstep, mm_auth2_read_banner
    PROVE  ChildTyped' /\ Conversation'
<1>. USE DEF Lockstep
<1>0. /\ pc = "banner" /\ Reads /\ AtBanner /\ none_enabled' = none_enabled
      /\ UNCHANGED <<mstate, permit, state, authorized>>
    BY DEF mm_auth2_read_banner, Conversation, MonitorIdle
<1>1. Len(answers) = 1 /\ Len(answers') = 0 /\ answers' \in Seq(Answers)
    BY <1>0, AnswerTaken, QueuesShort DEF Short
<1>2. Len(reqs) = 0 /\ Undecided /\ InRequest
    BY <1>0, <1>1 DEF AtBanner, Asks, Sent, Told
<1>3. none_enabled' \in BOOLEAN /\ (none_enabled' => none_enabled) /\ forced \in BOOLEAN
      /\ pc \notin Over
    BY <1>0 DEF ChildTyped, Over
<1>4. CASE userauth_finish(FALSE, FALSE, forced) /\ UNCHANGED reqs
    BY <1>0, <1>1, <1>2, <1>3, <1>4, FailureLockstep, Zenon
<1>5. CASE Ask("authpassword", "empty") /\ pc' = "password" /\ InProgress
    <2>1. Question("authpassword", "empty") \in Requests
          /\ Question("authpassword", "empty").type # "authserv"
          /\ reqs' = Append(reqs, Question("authpassword", "empty"))
        BY <1>5, Questions DEF Question, Ask
    <2>2. ChildTyped' /\ Undecided' /\ InRequest' /\ Asks(Question("authpassword", "empty"))'
        BY <1>0, <1>1, <1>2, <1>3, <1>5, <2>1, ProgressLockstep DEF InProgress, Waiting
    <2>3. AtPassword'
        BY <2>2 DEF AtPassword
    <2>. QED
        BY <1>5, <2>2, <2>3 DEF Conversation, Over
<1>. QED
    BY <1>4, <1>5 DEF mm_auth2_read_banner

LEMMA PasswordLockstep ==
    ASSUME Lockstep, mm_auth_password
    PROVE  ChildTyped' /\ Conversation'
<1>. USE DEF Lockstep
<1>0. /\ pc = "password" /\ Reads /\ AtPassword
      /\ UNCHANGED <<mstate, permit, state, authorized, reqs, none_enabled>>
      /\ userauth_finish(Head(answers), FALSE, forced)
    BY Zenon DEF mm_auth_password, Conversation, MonitorIdle
<1>1. Len(answers) = 1 /\ Head(answers) = answers[1]
    BY <1>0, AnswerTaken, QueuesShort DEF Short
<1>2. \A q : ~Asks(q)
    BY <1>1 DEF Asks, Sent
<1>3. PICK ok \in BOOLEAN : Judged(ok)
    BY <1>0, <1>2, Zenon DEF AtPassword
<1>4. Head(answers) = ok
    BY <1>1, <1>3, Zenon DEF Judged, Told
<1>5. userauth_finish(ok, FALSE, forced)
    BY <1>0, <1>4, Zenon
<1>6. granted # NoGrant /\ granted.method = "publickey" => granted.sig.key \in held
    BY <1>0, <1>2, ZenonT(30) DEF AtPassword
<1>. QED
    BY <1>0, <1>3, <1>5, <1>6, JudgedLockstep, Zenon DEF ChildTyped

LEMMA AllowedLockstep ==
    ASSUME Lockstep, mm_key_allowed
    PROVE  ChildTyped' /\ Conversation'
<1>. USE DEF Lockstep
<1>0. /\ pc = "allowed" /\ Reads /\ AtAllowed /\ none_enabled' = none_enabled
      /\ UNCHANGED <<mstate, permit, state, authorized>>
      /\ pkt.key \in Keys /\ pkt.method \in {"publickey", "hostbased"}
    BY DEF mm_key_allowed, Conversation, MonitorIdle, AsksWell
<1>1. Len(answers) = 1 /\ Head(answers) = answers[1] /\ Len(answers') = 0
      /\ answers' \in Seq(Answers)
    BY <1>0, AnswerTaken, QueuesShort DEF Short
<1>2. Undecided /\ InRequest /\ ~Asks(Question("keyallowed", Blob))
    BY <1>0, <1>1 DEF AtAllowed, Asks, Sent
<1>3. PICK ok \in BOOLEAN : /\ Told([allowed |-> ok, forced |-> forced_command # NoKey])
                            /\ ok => Allowed
    BY <1>0, <1>2, Zenon DEF AtAllowed
<1>4. Len(reqs) = 0 /\ Head(answers) = [allowed |-> ok, forced |-> forced_command # NoKey]
    BY <1>1, <1>3, Zenon DEF Told
<1>5. Head(answers).allowed = ok /\ Head(answers).forced = (forced_command # NoKey)
    BY <1>4
<1>6. none_enabled' \in BOOLEAN /\ (none_enabled' => none_enabled) /\ pc \notin Over
    BY <1>0 DEF ChildTyped, Over
<1>7. CASE /\ userauth_finish(FALSE, Head(answers).allowed,
                              pkt.method = "hostbased" /\ Head(answers).forced)
           /\ UNCHANGED reqs
    <2>1. PICK later \in BOOLEAN, frc \in BOOLEAN : userauth_finish(FALSE, later, frc)
        <3>1. Head(answers).allowed \in BOOLEAN
              /\ (pkt.method = "hostbased" /\ Head(answers).forced) \in BOOLEAN
            BY <1>5
        <3>. QED
            BY <1>7, <3>1, Zenon
    <2>. QED
        BY <1>0, <1>1, <1>2, <1>4, <1>6, <1>7, <2>1, FailureLockstep, Zenon
<1>8. CASE /\ Head(answers).allowed /\ pkt.sig # NoSignature
           /\ Ask("keyverify", [key |-> pkt.key, data |-> SignedData, sig |-> pkt.sig])
           /\ pc' = "verify" /\ forced' = Head(answers).forced
           /\ UNCHANGED <<pkt, ctxt, held>>
    <2>1. Allowed /\ forced' = (forced_command # NoKey)
        BY <1>3, <1>5, <1>8
    <2>2. Question("keyverify", Signed) \in Requests
          /\ Question("keyverify", Signed).type # "authserv"
          /\ reqs' = Append(reqs, Question("keyverify", Signed))
        <3>1. SignedData \in Data
            BY <1>0, UserAuthAssumption DEF SignedData, Data, AsksWell, PacketType
        <3>2. Signed \in [key : Keys, data : Data, sig : Signatures]
            BY <1>0, <3>1 DEF Signed, AsksWell, PacketType
        <3>3. reqs' = Append(reqs, Question("keyverify", Signed))
            BY <1>8 DEF Ask, Question, Signed
        <3>. QED
            BY <3>2, <3>3 DEF Question, Requests
    <2>3. forced' \in BOOLEAN
        BY <2>1
    <2>4. ChildTyped' /\ Undecided' /\ InRequest' /\ Asks(Question("keyverify", Signed))'
        <3>1. ChildTyped' /\ Undecided' /\ InRequest'
            BY <1>0, <1>1, <1>2, <1>4, <1>6, <1>8, <2>2, <2>3, ProgressLockstep DEF Waiting
        <3>2. Signed' = Signed
            BY <1>8 DEF Signed, SignedData
        <3>3. Len(answers') = 0 /\ Len(reqs') = 1 /\ reqs'[1] = Question("keyverify", Signed)
            BY <1>1, <1>4, <2>2, Enqueue, SMTT(30) DEF AsksWell, Asked
        <3>. QED
            BY <3>1, <3>2, <3>3, SMTT(30) DEF Asks, Sent, Question
    <2>5. Allowed'
        BY <1>0, <1>8, <2>1, SMTT(30) DEF Allowed, BlobType, state
    <2>6. AtVerify'
        BY <1>0, <1>8, <2>1, <2>4, <2>5, ZenonT(30) DEF AtVerify, Allowed, state
    <2>. QED
        BY <1>8, <2>4, <2>6 DEF Conversation, Over
<1>. QED
    BY <1>7, <1>8, Zenon DEF mm_key_allowed

LEMMA VerifyLockstep ==
    ASSUME Lockstep, mm_key_verify
    PROVE  ChildTyped' /\ Conversation'
<1>. USE DEF Lockstep
<1>. DEFINE frc == forced /\ (pkt.method = "hostbased" \/ Head(answers))
<1>0. /\ pc = "verify" /\ Reads /\ AtVerify
      /\ UNCHANGED <<mstate, permit, state, authorized, reqs, none_enabled>>
      /\ userauth_finish(Head(answers), FALSE, frc)
    BY DEF mm_key_verify, Conversation, MonitorIdle
<1>1. Len(answers) = 1 /\ Head(answers) = answers[1]
    BY <1>0, AnswerTaken, QueuesShort DEF Short
<1>2. \A q : ~Asks(q)
    BY <1>1 DEF Asks, Sent
<1>3. PICK ok \in BOOLEAN :
        /\ Judged(ok) /\ (ok => pkt.sig.key = pkt.key)
        /\ granted # NoGrant => granted.method = pkt.method /\ granted.sig = pkt.sig
    BY <1>0, <1>2, Zenon DEF AtVerify
<1>4. Head(answers) = ok
    BY <1>1, <1>3, Zenon DEF Judged, Told
<1>5. frc \in BOOLEAN /\ (ok => frc = forced)
    BY <1>4 DEF ChildTyped
<1>6. userauth_finish(ok, FALSE, frc)
    BY <1>0, <1>4, Zenon
<1>7. granted # NoGrant /\ granted.method = "publickey" => granted.sig.key \in held
    BY <1>0, <1>3 DEF AtVerify, Judged
<1>. HIDE DEF frc
<1>. QED
    BY <1>0, <1>3, <1>5, <1>6, <1>7, JudgedLockstep, Zenon
-----------------------------------------------------------------------------
(* The key state, and after it. *)

LEMMA AfterLockstep ==
    ASSUME Lockstep, mm_send_keystate \/ Rekey \/ mm_terminate
    PROVE  ChildTyped' /\ Conversation'
<1>. USE DEF Lockstep
<1>0. /\ UNCHANGED <<mstate, permit, state, authorized, pkt, ctxt, none_enabled, forced, held>>
      /\ pc \in {"export", "done", "resign"} /\ pc' \in {"done", "resign", "gone"}
      /\ answers' = answers \/ Reads
    BY DEF mm_send_keystate, Rekey, mm_terminate, MonitorIdle
<1>1. ChildTyped'
    <2>1. answers' \in Seq(Answers)
        BY <1>0, AnswerTaken, QueuesShort DEF ChildTyped, Short
    <2>. QED
        BY <1>0, <2>1, KexTyped DEF Waiting, Over
<1>2. CASE mm_send_keystate
    <2>1. /\ pc' = "done" /\ AtExport /\ reqs' = Append(reqs, Question("keyexport", Sid))
          /\ answers' = answers
        BY <1>2 DEF mm_send_keystate, Conversation, Ask, Question
    <2>2. Sent(Question("keyexport", Sid))'
        BY <2>1, AskSent, Questions, UserAuthAssumption DEF AsksWell, AtExport, Idle, Question
    <2>3. AtDone'
        BY <1>0, <2>1, <2>2 DEF AtExport, AtDone, Established, state
    <2>. QED
        BY <1>1, <2>1, <2>3 DEF Conversation, Over
<1>3. ASSUME pc = "done", mstate = "postauth"
      PROVE  Idle /\ Established
    BY <1>3 DEF Conversation, AtDone, Stopped
<1>4. CASE /\ pc = "done" /\ mstate = "postauth" /\ pc' = "resign" /\ UNCHANGED answers
           /\ \E s \in SessionIds : Ask("sign", s)
    <2>1. PICK s \in SessionIds : reqs' = Append(reqs, Question("sign", s))
        BY <1>4, SMTT(30) DEF Ask, Question
    <2>2. Sent(Question("sign", s))'
        BY <1>3, <1>4, <2>1, AskSent, Questions DEF AsksWell, Idle, Question
    <2>3. AtResign'
        BY <1>0, <1>3, <1>4, <2>2 DEF AtResign, Established, state
    <2>. QED
        BY <1>1, <1>4, <2>3 DEF Conversation, Over
<1>5. CASE pc = "resign" /\ Reads /\ pc' = "done" /\ UNCHANGED reqs
    <2>1. Len(answers) = 1 /\ Len(answers') = 0
        BY <1>5, AnswerTaken, QueuesShort DEF Short
    <2>2. Len(reqs) = 0 /\ Established /\ mstate = "postauth"
        BY <1>5, <2>1 DEF Conversation, AtResign, Sent, Told
    <2>3. AtDone'
        BY <1>0, <1>5, <2>1, <2>2 DEF AtDone, Established, Idle, state
    <2>. QED
        BY <1>1, <1>5, <2>3 DEF Conversation, Over
<1>6. CASE mm_terminate
    <2>1. /\ pc = "done" /\ mstate = "postauth" /\ pc' = "gone" /\ answers' = answers
          /\ reqs' = Append(reqs, Question("term", NoKey))
        BY <1>6, SMTT(30) DEF mm_terminate, Ask, Question
    <2>2. Sent(Question("term", NoKey))'
        BY <1>3, <2>1, AskSent, Questions, SMTT(30) DEF AsksWell, Idle, Question
    <2>. QED
        BY <1>1, <2>1, <2>2 DEF Conversation, AtGone, Over
<1>. QED
    BY <1>2, <1>4, <1>5, <1>6 DEF Rekey
-----------------------------------------------------------------------------
(* What neither process does. *)

LEMMA StoppedLockstep ==
    ASSUME Lockstep, Alarm \/ Lost
    PROVE  ChildTyped' /\ Conversation'
<1>. USE DEF Lockstep
<1>1. /\ mstate' = "gone" /\ UNCHANGED <<state, reqs, answers, ctxt, none_enabled, forced, held>>
      /\ (pc' = "done" /\ pc = "done") \/ pc' \in Over
    BY DEF Alarm, Lost, grace_alarm_handler, ChildLost, fatal, cvars, Over
<1>2. Stopped'
    BY <1>1, QueuesShort DEF Stopped, Short
<1>3. ChildTyped'
    BY <1>1 DEF ChildTyped, Over
<1>4. pc' = "done" => AtDone'
    BY <1>1, <1>2, SMTT(30) DEF Conversation, AtDone, Established, state, Over
<1>. QED
    BY <1>1, <1>2, <1>3, <1>4 DEF Conversation, AtGone, Over

(* Whatever leaves both processes alone and loses no key the child may     *)
(* hold keeps the conversation.                                            *)
LEMMA KeptLockstep ==
    ASSUME Lockstep,
           UNCHANGED <<mstate, permit, state, reqs, answers, pc, pkt, ctxt, none_enabled, forced>>,
           held \subseteq held', held' \subseteq Keys,
           KeysSeen(pkt.user) => KeysSeen(pkt.user)'
    PROVE  ChildTyped' /\ Conversation'
<1>. USE DEF Lockstep
<1>1. /\ mstate' = mstate /\ permit' = permit /\ reqs' = reqs /\ answers' = answers
      /\ forced' = forced /\ forced_command' = forced_command /\ pkt' = pkt
      /\ ctxt' = ctxt /\ none_enabled' = none_enabled
      /\ attempt' = attempt /\ user' = user /\ valid' = valid /\ session_id2' = session_id2
      /\ granted' = granted /\ (none_enabled' <=> none_enabled)
      /\ (valid' <=> valid) /\ (ctxt'.success <=> ctxt.success)
      /\ (auth_root_allowed(pkt.method, forced)' <=> auth_root_allowed(pkt.method, forced))
    BY DEF state, auth_root_allowed
<1>2. ChildTyped'
    BY SMTT(30) DEF ChildTyped
<1>3. InRequest => InRequest'
    BY <1>1, Zenon DEF InRequest
<1>4. /\ (Idle' <=> Idle) /\ (Silent' <=> Silent) /\ (Stopped' <=> Stopped)
      /\ (Established' <=> Established) /\ (Undecided' <=> Undecided)
    <2>1. (Idle' <=> Idle) /\ (Silent' <=> Silent) /\ (Stopped' <=> Stopped)
        BY <1>1, Zenon DEF Idle, Silent, Stopped
    <2>2. (Established' <=> Established) /\ (Undecided' <=> Undecided)
        BY <1>1, Zenon DEF Established, Undecided, Introduced, Served, NoGrant
    <2>. QED
        BY <2>1, <2>2
<1>5. /\ \A q : (Sent(q)' <=> Sent(q)) /\ (Asks(q)' <=> Asks(q)) /\ (Told(q)' <=> Told(q))
      /\ \A i : (Fresh(i)' <=> Fresh(i))
      /\ \A ok : (Judged(ok)' <=> Judged(ok))
    <2>1. \A q : (Sent(q)' <=> Sent(q)) /\ (Asks(q)' <=> Asks(q)) /\ (Told(q)' <=> Told(q))
        BY <1>1, Zenon DEF Sent, Asks, Told
    <2>2. \A i : (Fresh(i)' <=> Fresh(i))
        BY <1>1, Zenon DEF Fresh, NoGrant
    <2>3. \A ok : (Judged(ok)' <=> Judged(ok))
        BY <1>1, Zenon DEF Judged, Told, Introduced, Served, NoGrant
    <2>. QED
        BY <2>1, <2>2, <2>3, Zenon
<1>6. /\ Blob' = Blob /\ BlobType' = BlobType /\ Signed' = Signed
      /\ Allowed => Allowed'
    BY SMTT(30) DEF Blob, BlobType, Signed, SignedData, Allowed, state
<1>7. /\ AtKex => AtKex'
      /\ AtModuli => AtModuli'
      /\ AtSign => AtSign'
      /\ AtService => AtService'
      /\ AtIdle => AtIdle'
    BY <1>1, <1>4, <1>5, Zenon DEF AtKex, AtModuli, AtSign, AtService, AtIdle
<1>8. /\ AtPwnam => AtPwnam'
      /\ AtTry => AtTry'
      /\ AtBanner => AtBanner'
    BY <1>1, <1>3, <1>4, <1>5, Zenon DEF AtPwnam, AtTry, AtBanner, NoGrant, Question
<1>9. AtPassword => AtPassword'
    BY <1>1, <1>3, <1>4, <1>5, Zenon DEF AtPassword
<1>10. AtAllowed => AtAllowed'
    BY <1>1, <1>3, <1>4, <1>5, <1>6, ZenonT(30) DEF AtAllowed, Question
<1>11. AtVerify => AtVerify'
    <2>1. Question("keyverify", Signed)' = Question("keyverify", Signed)
        BY <1>6 DEF Question
    <2>. QED
        BY <1>1, <1>3, <1>4, <1>5, <1>6, <2>1, ZenonT(30) DEF AtVerify, NoGrant
<1>12. /\ AtExport => AtExport'
       /\ AtDone => AtDone'
       /\ AtResign => AtResign'
       /\ AtGone => AtGone'
    BY <1>1, <1>4, <1>5, Zenon DEF AtExport, AtDone, AtResign, AtGone
<1>. QED
    BY <1>2, <1>7, <1>8, <1>9, <1>10, <1>11, <1>12, SMTT(30) DEF Conversation

(* The keys of the user that come are remembered.                          *)
LEMMA ChangesLockstep ==
    ASSUME Lockstep, Changes
    PROVE  ChildTyped' /\ Conversation'
<1>1. /\ UNCHANGED <<mstate, permit, state, reqs, answers, pc, pkt, ctxt, none_enabled, forced>>
      /\ held \subseteq held' /\ held' \subseteq Keys
      /\ {k \in Keys : <<pkt.user, k>> \in authorized'} \subseteq held'
    BY DEF Changes, KeysChange, ChildTyped, Lockstep
<1>2. KeysSeen(pkt.user)'
    BY <1>1 DEF KeysSeen
<1>. QED
    BY <1>1, <1>2, KeptLockstep, Zenon

LEMMA StutterLockstep ==
    ASSUME Lockstep, UNCHANGED vars
    PROVE  ChildTyped' /\ Conversation'
<1>1. /\ UNCHANGED <<mstate, permit, state, reqs, answers, pc, pkt, ctxt, none_enabled, forced>>
      /\ UNCHANGED <<held, authorized>>
    BY DEF vars, mvars, cvars, state
<1>2. held \subseteq held' /\ held' \subseteq Keys /\ KeysSeen(pkt.user)' = KeysSeen(pkt.user)
    BY <1>1 DEF Lockstep, ChildTyped, KeysSeen
<1>. QED
    BY <1>1, <1>2, KeptLockstep, Zenon
=============================================================================
