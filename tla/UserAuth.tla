------------------------------ MODULE UserAuth ------------------------------
(***************************************************************************)
(* The unprivileged half of an sshd connection until the user is           *)
(* authenticated (openssh/auth2.c, auth2-none.c, auth2-passwd.c,           *)
(* auth2-pubkey.c, auth2-hostbased.c, monitor_wrap.c), over the monitor.   *)
(*                                                                         *)
(* A step runs from one blocking read to the next: of a packet of the      *)
(* client, or of an answer of the monitor.  Between two steps of a request *)
(* the monitor works, the keys of the user change, or the login grace time *)
(* ends.  A packet the dispatch table has no handler for changes nothing.  *)
(***************************************************************************)
EXTENDS Monitor

CONSTANTS Sid,          \* the hash of the first key exchange of this connection
          MadeSigs,     \* the signatures the client can present
          Banner,       \* options.banner is set
          PubkeyAuthentication, HostbasedAuthentication,
          MaxAuthTries

ASSUME UserAuthAssumption ==
    /\ Sid \in SessionIds /\ MadeSigs \subseteq Signatures \ {NoSignature}
    /\ {Banner, PubkeyAuthentication, HostbasedAuthentication} \subseteq BOOLEAN
    /\ MaxAuthTries \in Nat /\ Clients # {}

VARIABLES pc,            \* where the child is
          pkt,           \* the USERAUTH_REQUEST it works on
          ctxt,          \* its Authctxt
          none_enabled,
          forced,        \* its own forced_command, a fake of the monitor's
          held           \* history: keys the user had at some time since pkt came

cvars == <<pc, pkt, ctxt, none_enabled, forced, held>>
vars  == <<mvars, cvars>>

(* The packets.  A publickey request without a signature is a query; NoKey
   is a key of an unknown algorithm, or one that does not decode.          *)
Userauth(u, s, m, k, c, x, p) ==
    [user |-> u, service |-> s, method |-> m, key |-> k, client |-> c, sig |-> x, pw |-> p]

Services == {"ssh-connection", "other"}
AnyClient == CHOOSE c \in Clients : TRUE

NoPacket == Userauth(NoUser, "other", "unknown", NoKey, AnyClient, NoSignature, "empty")

Packets ==
    UNION {{Userauth(u, s, m, NoKey, AnyClient, NoSignature, "empty") : m \in {"none", "unknown"}}
      \cup {Userauth(u, s, "password", NoKey, AnyClient, NoSignature, p) :
               p \in {"empty", "right", "wrong", "change"}}
      \cup {Userauth(u, s, "publickey", k, AnyClient, x, "empty") :
               k \in Keys \cup {NoKey}, x \in MadeSigs \cup {NoSignature}}
      \cup {Userauth(u, s, "hostbased", k, c, x, "empty") :
               k \in Keys \cup {NoKey}, c \in Clients, x \in MadeSigs}
           : u \in Users, s \in Services}

Waiting == {"moduli", "sign", "pwnam", "banner", "password", "allowed", "verify", "resign"}

Init ==
    /\ MonitorInit
    /\ pc = "kex" /\ pkt = NoPacket /\ none_enabled = TRUE /\ forced = FALSE /\ held = {}
    /\ ctxt = [attempt |-> 0, user |-> NoUser, service |-> "other", valid |-> FALSE,
               failures |-> 0, postponed |-> FALSE, success |-> FALSE]

(* mm_request_send, and mm_request_receive_expect of the answer.           *)
Ask(type, arg)  == reqs' = Append(reqs, [type |-> type, arg |-> arg])
Reads           == pc \in Waiting /\ answers # <<>> /\ answers' = Tail(answers)
MonitorIdle     == UNCHANGED <<mstate, permit, state, authorized>>
Keep            == MonitorIdle /\ UNCHANGED <<reqs, answers>>
-----------------------------------------------------------------------------
(* The key exchange: group exchange asks for a group first.                *)

mm_choose_dh ==
    /\ pc = "kex" /\ Ask("moduli", NoKey) /\ pc' = "moduli"
    /\ MonitorIdle /\ UNCHANGED <<answers, pkt, ctxt, none_enabled, forced, held>>

(* A mutant: the answer to the request for a group is not read. *)
mm_key_sign_Early ==
    /\ pc \in {"kex", "moduli"} /\ UNCHANGED answers
    /\ Ask("sign", Sid) /\ pc' = "sign"
    /\ MonitorIdle /\ UNCHANGED <<pkt, ctxt, none_enabled, forced, held>>

mm_key_sign ==
    /\ \/ pc = "kex" /\ UNCHANGED answers
       \/ pc = "moduli" /\ Reads
    /\ Ask("sign", Sid) /\ pc' = "sign"
    /\ MonitorIdle /\ UNCHANGED <<pkt, ctxt, none_enabled, forced, held>>

do_authentication2 ==
    /\ pc = "sign" /\ Reads /\ pc' = "service"
    /\ MonitorIdle /\ UNCHANGED <<reqs, pkt, ctxt, none_enabled, forced, held>>

(* Any other service ends the connection.                                  *)
input_service_request ==
    /\ pc \in {"service", "idle"} /\ pc' \in {"idle", "gone"}
    /\ Keep /\ UNCHANGED <<pkt, ctxt, none_enabled, forced, held>>

(* The client closes the connection.                                       *)
Hangup ==
    /\ pc \in {"service", "idle"} /\ pc' = "gone"
    /\ Keep /\ UNCHANGED <<pkt, ctxt, none_enabled, forced, held>>
-----------------------------------------------------------------------------
(* A request. *)

input_userauth_request(p) ==
    /\ pc = "idle" /\ pkt' = p
    /\ held' = {k \in Keys : <<p.user, k>> \in authorized}
    /\ \/ /\ ctxt.attempt = 0
          /\ Ask("pwnam", p.user) /\ pc' = "pwnam"
          /\ ctxt' = [ctxt EXCEPT !.attempt = 1]
       \/ /\ ctxt.attempt # 0 /\ (p.user # ctxt.user \/ p.service # ctxt.service)
          /\ pc' = "gone" /\ UNCHANGED <<reqs, ctxt>>
       \/ /\ ctxt.attempt # 0 /\ p.user = ctxt.user /\ p.service = ctxt.service
          /\ pc' = "try" /\ ctxt' = [ctxt EXCEPT !.postponed = FALSE]
          /\ UNCHANGED reqs
    /\ MonitorIdle /\ UNCHANGED <<answers, none_enabled, forced>>

(* A mutant: the monitor is not told of the service. *)
mm_getpwnamallow_NoInform ==
    /\ pc = "pwnam" /\ Reads
    /\ ctxt' = [ctxt EXCEPT !.user = pkt.user, !.service = pkt.service,
                            !.valid = Head(answers) /\ pkt.service = "ssh-connection"]
    /\ pc' = "try"
    /\ MonitorIdle /\ UNCHANGED <<reqs, pkt, none_enabled, forced, held>>

mm_getpwnamallow ==
    /\ pc = "pwnam" /\ Reads
    /\ ctxt' = [ctxt EXCEPT !.user = pkt.user, !.service = pkt.service,
                            !.valid = Head(answers) /\ pkt.service = "ssh-connection"]
    /\ Ask("authserv", NoKey) /\ pc' = "try"
    /\ MonitorIdle /\ UNCHANGED <<pkt, none_enabled, forced, held>>

(* The end of a request; frc is the child's forced_command by then.         *)
userauth_finish(authenticated, postponed, frc) ==
    LET ok   == authenticated /\ (ctxt.user = Root => auth_root_allowed(pkt.method, frc))
        fail == ~postponed /\ ~ok
    IN  /\ forced' = frc /\ pkt' = NoPacket /\ held' = IF ok THEN held ELSE {}
        /\ ctxt' = [ctxt EXCEPT !.postponed = postponed, !.success = ok,
                                !.failures = IF fail THEN @ + 1 ELSE @]
        /\ pc' = IF authenticated /\ ~ctxt.valid THEN "internal error"
                 ELSE IF ok THEN "export"
                 ELSE IF fail /\ ctxt.failures > MaxAuthTries THEN "gone" ELSE "idle"

InProgress == UNCHANGED <<pkt, ctxt, forced, held>>

(* The methods, up to their first question.                                *)
userauth_none ==
    /\ pkt.method = "none" /\ none_enabled /\ none_enabled' = FALSE
    /\ \/ Banner /\ Ask("banner", NoKey) /\ pc' = "banner" /\ InProgress
       \/ /\ ~Banner /\ PasswordAuthentication
          /\ Ask("authpassword", "empty") /\ pc' = "password" /\ InProgress
       \/ /\ ~Banner /\ ~PasswordAuthentication
          /\ userauth_finish(FALSE, FALSE, forced) /\ UNCHANGED reqs

userauth_passwd ==
    /\ pkt.method = "password" /\ PasswordAuthentication /\ UNCHANGED none_enabled
    /\ \/ /\ pkt.pw # "change" /\ Ask("authpassword", pkt.pw) /\ pc' = "password"
          /\ InProgress
       \/ pkt.pw = "change" /\ userauth_finish(FALSE, FALSE, forced) /\ UNCHANGED reqs

AskAllowed(type) ==
    /\ Ask("keyallowed", [type |-> type, key |-> pkt.key, client |-> pkt.client])
    /\ pc' = "allowed"

(* A mutant: the answer to an earlier query for the key is kept. *)
userauth_pubkey_Remembers ==
    /\ pkt.method = "publickey" /\ PubkeyAuthentication /\ UNCHANGED none_enabled
    /\ IF ~ctxt.valid \/ pkt.key = NoKey
       THEN userauth_finish(FALSE, FALSE, forced) /\ UNCHANGED reqs
       ELSE /\ InProgress
            /\ IF pkt.key = key_blob /\ pkt.sig # NoSignature
               THEN /\ Ask("keyverify", [key |-> pkt.key, sig |-> pkt.sig, data |->
                          [sid |-> Sid, user |-> ctxt.user, method |-> pkt.method,
                           client |-> pkt.client]])
                    /\ pc' = "verify"
               ELSE AskAllowed("user")

userauth_pubkey ==
    /\ pkt.method = "publickey" /\ PubkeyAuthentication /\ UNCHANGED none_enabled
    /\ \/ ctxt.valid /\ pkt.key # NoKey /\ AskAllowed("user") /\ InProgress
       \/ /\ ~ctxt.valid \/ pkt.key = NoKey
          /\ userauth_finish(FALSE, FALSE, forced) /\ UNCHANGED reqs

userauth_hostbased ==
    /\ pkt.method = "hostbased" /\ HostbasedAuthentication /\ UNCHANGED none_enabled
    /\ \/ ctxt.valid /\ pkt.key # NoKey /\ AskAllowed("host") /\ InProgress
       \/ /\ ~ctxt.valid \/ pkt.key = NoKey
          /\ userauth_finish(FALSE, FALSE, forced) /\ UNCHANGED reqs

(* authmethod_lookup finds nothing.                                        *)
Unrecognized ==
    /\ \/ pkt.method = "unknown"
       \/ pkt.method = "none" /\ ~none_enabled
       \/ pkt.method = "password" /\ ~PasswordAuthentication
       \/ pkt.method = "publickey" /\ ~PubkeyAuthentication
       \/ pkt.method = "hostbased" /\ ~HostbasedAuthentication
    /\ userauth_finish(FALSE, FALSE, forced) /\ UNCHANGED <<reqs, none_enabled>>

TryMethod ==
    /\ pc = "try"
    /\ \/ userauth_none \/ userauth_passwd \/ userauth_pubkey \/ userauth_hostbased
       \/ Unrecognized
    /\ MonitorIdle /\ UNCHANGED answers
-----------------------------------------------------------------------------
(* The answers. *)

mm_auth2_read_banner ==
    /\ pc = "banner" /\ Reads
    /\ \/ /\ PasswordAuthentication /\ Ask("authpassword", "empty") /\ pc' = "password"
          /\ InProgress
       \/ ~PasswordAuthentication /\ userauth_finish(FALSE, FALSE, forced) /\ UNCHANGED reqs
    /\ MonitorIdle /\ UNCHANGED none_enabled

mm_auth_password ==
    /\ pc = "password" /\ Reads /\ userauth_finish(Head(answers), FALSE, forced)
    /\ MonitorIdle /\ UNCHANGED <<reqs, none_enabled>>

SignedData == [sid |-> Sid, user |-> ctxt.user, method |-> pkt.method, client |-> pkt.client]

(* A mutant: the child does not take over the options of the key. *)
mm_key_allowed_NoOptions ==
    /\ pc = "allowed" /\ Reads
    /\ \/ /\ Head(answers).allowed /\ pkt.sig # NoSignature
          /\ Ask("keyverify", [key |-> pkt.key, data |-> SignedData, sig |-> pkt.sig])
          /\ pc' = "verify" /\ UNCHANGED <<forced, pkt, ctxt, held>>
       \/ /\ ~Head(answers).allowed \/ pkt.sig = NoSignature
          /\ userauth_finish(FALSE, Head(answers).allowed, FALSE)
          /\ UNCHANGED reqs
    /\ MonitorIdle /\ UNCHANGED none_enabled

(* userauth_pubkey clears the options of a key that does not authenticate,
   userauth_hostbased does not.                                            *)
mm_key_allowed ==
    /\ pc = "allowed" /\ Reads
    /\ \/ /\ Head(answers).allowed /\ pkt.sig # NoSignature
          /\ Ask("keyverify", [key |-> pkt.key, data |-> SignedData, sig |-> pkt.sig])
          /\ pc' = "verify" /\ forced' = Head(answers).forced
          /\ UNCHANGED <<pkt, ctxt, held>>
       \/ /\ ~Head(answers).allowed \/ pkt.sig = NoSignature
          /\ userauth_finish(FALSE, Head(answers).allowed,
                             pkt.method = "hostbased" /\ Head(answers).forced)
          /\ UNCHANGED reqs
    /\ MonitorIdle /\ UNCHANGED none_enabled

mm_key_verify ==
    /\ pc = "verify" /\ Reads
    /\ userauth_finish(Head(answers), FALSE,
                       forced /\ (pkt.method = "hostbased" \/ Head(answers)))
    /\ MonitorIdle /\ UNCHANGED <<reqs, none_enabled>>

(* mm_send_keystate; the child then exits, and the user's process, forked
   from the monitor, may exchange keys again.                              *)
mm_send_keystate ==
    /\ pc = "export" /\ Ask("keyexport", Sid) /\ pc' = "done"
    /\ MonitorIdle /\ UNCHANGED <<answers, pkt, ctxt, none_enabled, forced, held>>

Rekey ==
    /\ \/ /\ pc = "done" /\ mstate = "postauth" /\ pc' = "resign" /\ UNCHANGED answers
          /\ \E s \in SessionIds : Ask("sign", s)
       \/ pc = "resign" /\ Reads /\ pc' = "done" /\ UNCHANGED reqs
    /\ MonitorIdle /\ UNCHANGED <<pkt, ctxt, none_enabled, forced, held>>

mm_terminate ==
    /\ pc = "done" /\ mstate = "postauth" /\ Ask("term", NoKey) /\ pc' = "gone"
    /\ MonitorIdle /\ UNCHANGED <<answers, pkt, ctxt, none_enabled, forced, held>>

Child ==
    \/ mm_choose_dh \/ mm_key_sign \/ do_authentication2
    \/ mm_getpwnamallow \/ TryMethod \/ mm_auth2_read_banner \/ mm_auth_password
    \/ mm_key_allowed \/ mm_key_verify \/ mm_send_keystate

(* What the client makes the child do.                                     *)
Client ==
    input_service_request \/ Hangup \/ (\E p \in Packets : input_userauth_request(p))

(* The child's SIGALRM is pending before the monitor exits, so the child
   never gets to act on the end of file of its socket.                     *)
Alarm ==
    /\ grace_alarm_handler
    /\ pc' = IF pc = "done" THEN "done" ELSE "gone"
    /\ UNCHANGED <<pkt, ctxt, none_enabled, forced, held>>

Lost == pc \in {"gone", "internal error"} /\ ChildLost /\ UNCHANGED cvars

Changes ==
    /\ mstate \in {"preauth", "keystate"} /\ KeysChange
    /\ held' = held \cup {k \in Keys : <<pkt.user, k>> \in authorized'}
    /\ UNCHANGED <<pc, pkt, ctxt, none_enabled, forced>>

Privileged == MonitorStep /\ UNCHANGED cvars

Next == Child \/ Client \/ Rekey \/ mm_terminate \/ Privileged \/ Alarm \/ Lost \/ Changes

(* The two processes are scheduled, and the grace time ends.               *)
Fairness ==
    WF_vars(Child) /\ WF_vars(Privileged) /\ WF_vars(Alarm) /\ WF_vars(Lost)

Spec == Init /\ [][Next]_vars /\ Fairness
-----------------------------------------------------------------------------
(* Type invariant: the queues stay within what the protocol needs.         *)
TypeOK ==
    /\ MonitorTypeOK /\ Len(reqs) <= 2 /\ Len(answers) <= 1
    /\ pc \in Waiting \cup {"kex", "service", "idle", "try", "export", "done", "gone",
                            "internal error"}
    /\ ctxt.failures \in Nat
    /\ held \subseteq Keys

(* The child only ever asks what the monitor permits when it gets to it, in
   the order it asks, the unanswered authserv included: the monitor stops
   only after the child has, or when the grace time ends (monitor.c:465,
   1201, 1220, 1662; monitor_wrap.c).                                      *)
NeverUnexpected == mstate = "gone" => pc \in {"gone", "done", "resign", "internal error"}

(* The two processes reach the same verdict on the same user though each
   applies its own checks to its own copy of the state: when the child is
   between requests or has told the client of its success, the monitor has
   authenticated the user if and only if the child has (auth2.c:211-281,
   monitor.c:351-386).                                                     *)
Agreement ==
    /\ pc \in {"idle", "try", "service"} => mstate \in {"preauth", "gone"}
    /\ pc \in {"export", "done"} =>
         /\ mstate \in {"keystate", "postauth", "gone"}
         /\ ctxt.success /\ ctxt.user = user /\ granted # NoGrant

(* A key that opens a session was the user's at some time since the signed
   request arrived: the answer to an earlier query for it is not enough
   (auth2-pubkey.c:139).                                                   *)
AllowedDuringRequest ==
    pc \in {"verify", "export"} /\ granted # NoGrant =>
        (granted.method = "publickey" => granted.sig.key \in held)

(* sshd_config.5:534-536: MaxAuthTries is the maximum number of attempts
   permitted per connection, so no more than that can have failed
   (auth2.c:267).                                                          *)
TriesLimited == ctxt.failures <= MaxAuthTries

(* Every step of the pair is one the monitor takes for some child.         *)
ImplementsMonitor == MonitorSpec

(* Whatever the client does, at the end of the grace time either the user
   has a session or both processes are gone (sshd.c grace_alarm_handler).   *)
AuthEnds ==
    <>(mstate = "postauth" \/ (mstate = "gone" /\ pc \in {"gone", "done", "internal error"}))
=============================================================================
