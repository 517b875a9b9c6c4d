--------------------------- MODULE LockstepProofs ---------------------------
(***************************************************************************)
(* The child and the monitor stay in step.  UserAuthProofs defines the     *)
(* inductive invariant Lockstep and shows that the steps of the child keep *)
(* it; here are the steps of the monitor, and what follows from it for     *)
(* every set of users, keys, signatures and session ids and every setting  *)
(* of the options.                                                         *)
(***************************************************************************)
EXTENDS UserAuthProofs

(* It takes the first request and runs its handler.                        *)
LEMMA Handled ==
    ASSUME MonitorStep
    PROVE  /\ reqs # <<>> /\ mstate # "gone" /\ reqs' = Tail(reqs) /\ UNCHANGED authorized
           /\ Head(reqs).type \notin Expected => fatal
           /\ Head(reqs).type \in Expected =>
                /\ Head(reqs).type = "moduli" => mm_answer_moduli
                /\ Head(reqs).type = "sign" => mm_answer_sign
                /\ Head(reqs).type = "pwnam" => mm_answer_pwnamallow
                /\ Head(reqs).type = "banner" => mm_answer_auth2_read_banner
                /\ Head(reqs).type = "authserv" => mm_answer_authserv
                /\ Head(reqs).type = "authpassword" => mm_answer_authpassword
                /\ Head(reqs).type = "keyallowed" => mm_answer_keyallowed
                /\ Head(reqs).type = "keyverify" => mm_answer_keyverify
                /\ Head(reqs).type = "keyexport" => mm_get_keystate
                /\ Head(reqs).type = "term" => mm_answer_term
<1>1. CASE Unexpected
    BY <1>1 DEF Unexpected
<1>2. CASE mm_answer_moduli \/ mm_answer_sign \/ mm_answer_pwnamallow
             \/ mm_answer_auth2_read_banner \/ mm_answer_authserv
    <2>1. CASE mm_answer_moduli
        BY <2>1 DEF mm_answer_moduli, monitor_read
    <2>2. CASE mm_answer_sign
        BY <2>2 DEF mm_answer_sign, monitor_read
    <2>3. CASE mm_answer_pwnamallow
        BY <2>3 DEF mm_answer_pwnamallow, monitor_read
    <2>4. CASE mm_answer_auth2_read_banner
        BY <2>4 DEF mm_answer_auth2_read_banner, monitor_read
    <2>5. CASE mm_answer_authserv
        BY <2>5 DEF mm_answer_authserv, monitor_read
    <2>. QED
        BY <1>2, <2>1, <2>2, <2>3, <2>4, <2>5
<1>3. CASE mm_answer_authpassword
    BY <1>3 DEF mm_answer_authpassword, monitor_read
<1>4. CASE mm_answer_keyallowed
    BY <1>4 DEF mm_answer_keyallowed, monitor_read
<1>5. CASE mm_answer_keyverify
    BY <1>5 DEF mm_answer_keyverify, monitor_read
<1>6. CASE mm_get_keystate
    BY <1>6 DEF mm_get_keystate, monitor_read
<1>7. CASE mm_answer_term
    BY <1>7 DEF mm_answer_term, monitor_read
<1>. QED
    BY <1>1, <1>2, <1>3, <1>4, <1>5, <1>6, <1>7 DEF MonitorStep

(* The request it takes is the first of those on their way.                *)
LEMMA FirstTaken ==
    ASSUME Lockstep, MonitorStep
    PROVE  /\ mstate # "gone" /\ Len(reqs) # 0 /\ Head(reqs) = reqs[1]
           /\ Len(reqs') = Len(reqs) - 1 /\ Len(reqs) \in {1, 2}
           /\ Len(reqs) = 2 => reqs'[1] = reqs[2]
<1>1. reqs # <<>> /\ mstate # "gone" /\ reqs' = Tail(reqs)
    BY Handled
<1>2. reqs \in Seq(Requests)
    BY DEF Lockstep, AsksWell, Asked
<1>3. /\ Len(reqs) \in Nat /\ Len(reqs) # 0 /\ Head(reqs) = reqs[1]
      /\ Len(reqs') = Len(reqs) - 1 /\ \A i \in 1..(Len(reqs) - 1) : reqs'[i] = reqs[i + 1]
    BY <1>1, <1>2, Dequeue
<1>4. Len(reqs) \in {1, 2}
    BY <1>3, QueuesShort DEF Short
<1>. QED
    BY <1>1, <1>3, <1>4

(* It takes the authserv: now the methods are permitted.                   *)
LEMMA ServedFirst ==
    ASSUME Lockstep, Undecided, MonitorStep, UNCHANGED cvars, reqs[1] = Authserv,
           Len(reqs) = 2 => reqs[2].type # "authserv"
    PROVE  /\ Undecided' /\ UNCHANGED <<mstate, state, answers>>
           /\ "banner" \in permit => "banner" \in permit'
           /\ Len(reqs) = 1 => Len(reqs') = 0
           /\ Len(reqs) = 2 => Len(reqs') = 1 /\ reqs'[1] = reqs[2] /\ reqs[2] # Authserv
<1>1. /\ Head(reqs) = Authserv /\ Len(reqs') = Len(reqs) - 1 /\ Len(reqs) \in {1, 2}
      /\ Len(reqs) = 2 => reqs'[1] = reqs[2]
    BY FirstTaken
<1>2. Head(reqs).type = "authserv"
    BY <1>1 DEF Authserv, Question
<1>3. "authserv" \in permit /\ Expected = permit
    BY <1>1 DEF Undecided, Served, Expected
<1>4. mm_answer_authserv
    BY <1>2, <1>3, Handled
<1>5. /\ permit' = (permit \cup Authenticating) \ {"authserv"}
      /\ UNCHANGED <<mstate, state, answers>>
    BY <1>4 DEF mm_answer_authserv, monitor_permit, Once, Authenticating, Undecided
<1>6. Authenticating \subseteq permit' /\ ("banner" \in permit => "banner" \in permit')
    BY <1>5 DEF Authenticating
<1>7. Len(reqs) = 2 => reqs[2] # Authserv
    BY DEF Authserv, Question
<1>8. ~(Len(reqs') > 0 /\ reqs'[1] = Authserv)
    BY <1>1, <1>7
<1>9. Served'
    BY <1>6, <1>8 DEF Undecided, Served, cvars
<1>10. Undecided'
    BY <1>5, <1>9 DEF Undecided, Introduced, state, cvars
<1>. QED
    BY <1>1, <1>5, <1>6, <1>7, <1>10

(* It answers the only request there is.                                   *)
LEMMA AnswerGiven ==
    ASSUME Lockstep, MonitorStep, NEW q, Sent(q), NEW a \in Answers, Answer(a)
    PROVE  Told(a)' /\ answers' \in Seq(Answers)
<1>1. answers \in Seq(Answers) /\ Len(answers) = 0 /\ answers' = Append(answers, a)
    BY DEF Lockstep, ChildTyped, Sent, Answer
<1>2. answers' \in Seq(Answers) /\ Len(answers') = 1 /\ answers'[1] = a
    BY <1>1, Enqueue
<1>3. Len(reqs') = 0
    BY FirstTaken DEF Sent
<1>. QED
    BY <1>2, <1>3 DEF Told

LEMMA ChildKept ==
    ASSUME ChildTyped, UNCHANGED cvars, answers' \in Seq(Answers)
    PROVE  ChildTyped'
BY DEF ChildTyped, cvars

LEMMA MonitorKex ==
    ASSUME Lockstep, MonitorStep, UNCHANGED cvars, pc \in {"moduli", "sign", "resign", "done"}
    PROVE  ChildTyped' /\ Conversation'
<1>. USE DEF Lockstep
<1>0. /\ mstate # "gone" /\ Len(reqs) # 0 /\ Head(reqs) = reqs[1] /\ pc' = pc
      /\ UNCHANGED <<ctxt, none_enabled>>
    BY FirstTaken DEF cvars
<1>1. CASE pc = "moduli"
    <2>1. Sent(Question("moduli", NoKey)) /\ Fresh(NoId) /\ {"moduli", "sign"} \subseteq permit
        BY <1>0, <1>1 DEF Conversation, AtModuli, Told
    <2>2. Head(reqs).type = "moduli" /\ Expected = permit /\ mstate = "preauth"
        BY <1>0, <2>1 DEF Sent, Question, Expected, Fresh
    <2>3. mm_answer_moduli
        BY <2>1, <2>2, Handled
    <2>4. Answer("dh") /\ UNCHANGED <<mstate, state>> /\ "sign" \in permit'
        BY <2>1, <2>2, <2>3 DEF mm_answer_moduli, monitor_permit, Once
    <2>5. Told("dh")' /\ answers' \in Seq(Answers)
        BY <2>1, <2>4, AnswerGiven DEF Answers
    <2>6. AtModuli'
        BY <1>0, <2>1, <2>4, <2>5 DEF AtModuli, Fresh, state
    <2>. QED
        BY <1>0, <1>1, <2>5, <2>6, ChildKept DEF Conversation, Over
<1>2. CASE pc = "sign"
    <2>1. Sent(Question("sign", Sid)) /\ Fresh(NoId) /\ "sign" \in permit
        BY <1>0, <1>2 DEF Conversation, AtSign, Told
    <2>2. Head(reqs).type = "sign" /\ Head(reqs).arg = Sid /\ Expected = permit
          /\ mstate = "preauth" /\ session_id2 = NoId
        BY <1>0, <2>1 DEF Sent, Question, Expected, Fresh
    <2>3. mm_answer_sign
        BY <2>1, <2>2, Handled
    <2>4. /\ Answer("signature") /\ session_id2' = Sid /\ "pwnam" \in permit'
          /\ UNCHANGED <<mstate, attempt, granted>>
        BY <2>2, <2>3 DEF mm_answer_sign, monitor_permit, Once
    <2>5. Told("signature")' /\ answers' \in Seq(Answers)
        BY <2>1, <2>4, AnswerGiven DEF Answers
    <2>6. AtSign'
        BY <1>0, <2>1, <2>4, <2>5 DEF AtSign, Fresh
    <2>. QED
        BY <1>0, <1>2, <2>5, <2>6, ChildKept DEF Conversation, Over
<1>3. CASE pc = "resign"
    <2>1. PICK s \in SessionIds : Sent(Question("sign", s)) /\ Established /\ mstate = "postauth"
        BY <1>0, <1>3 DEF Conversation, AtResign, Told
    <2>2. Head(reqs).type = "sign" /\ "sign" \in Expected
        BY <1>0, <2>1 DEF Sent, Question, Expected, MonitorInv, Phases
    <2>3. mm_answer_sign
        BY <2>2, Handled
    <2>4. Answer("signature") /\ UNCHANGED <<mstate, granted, user>>
        BY <2>3 DEF mm_answer_sign
    <2>5. Told("signature")' /\ answers' \in Seq(Answers)
        BY <2>1, <2>4, AnswerGiven DEF Answers
    <2>6. AtResign'
        BY <1>0, <2>1, <2>4, <2>5 DEF AtResign, Established
    <2>. QED
        BY <1>0, <1>3, <2>5, <2>6, ChildKept DEF Conversation, Over
<1>4. CASE pc = "done"
    <2>1. /\ Sent(Question("keyexport", Sid)) /\ Established /\ mstate = "keystate"
          /\ session_id2 = Sid
        BY <1>0, <1>4 DEF Conversation, AtDone, Idle, Stopped
    <2>2. Head(reqs).type = "keyexport" /\ "keyexport" \in Expected /\ Head(reqs).arg = session_id2
        BY <1>0, <2>1 DEF Sent, Question, Expected
    <2>3. mm_get_keystate
        BY <2>2, Handled
    <2>4. mstate' = "postauth" /\ UNCHANGED <<state, answers>>
        BY <2>2, <2>3 DEF mm_get_keystate
    <2>5. AtDone'
        BY <1>0, <2>1, <2>4, FirstTaken DEF AtDone, Established, Idle, Sent, state
    <2>6. ChildTyped'
        BY <2>4, ChildKept DEF ChildTyped
    <2>. QED
        BY <1>0, <1>4, <2>5, <2>6 DEF Conversation, Over
<1>. QED
    BY <1>1, <1>2, <1>3, <1>4

LEMMA MonitorPwnam ==
    ASSUME Lockstep, MonitorStep, UNCHANGED cvars, pc = "pwnam"
    PROVE  ChildTyped' /\ Conversation'
<1>. USE DEF Lockstep
<1>0. /\ mstate = "preauth" /\ Len(reqs) # 0 /\ Head(reqs) = reqs[1] /\ pc' = pc
      /\ AtPwnam /\ UNCHANGED <<ctxt, none_enabled, pkt, held, authorized>>
    BY FirstTaken, Handled DEF cvars, Conversation, AtPwnam
<1>1. Sent(Question("pwnam", pkt.user)) /\ attempt = 0 /\ "pwnam" \in permit
    BY <1>0 DEF AtPwnam, Told
<1>2. Head(reqs).type = "pwnam" /\ Head(reqs).arg = pkt.user /\ Expected = permit
    BY <1>0, <1>1 DEF Sent, Question, Expected
<1>3. mm_answer_pwnamallow
    BY <1>1, <1>2, Handled, SMTT(30)
<1>4. /\ attempt' = 1 /\ user' = pkt.user /\ valid' = (user' \in Accounts)
      /\ Answer(valid') /\ monitor_permit("pwnam", {"authserv", "banner"})
      /\ UNCHANGED <<mstate, session_id2, granted>>
    BY <1>1, <1>2, <1>3 DEF mm_answer_pwnamallow
<1>5. {"authserv", "banner"} \subseteq permit'
    BY <1>0, <1>4 DEF monitor_permit, Once
<1>6. PICK v \in BOOLEAN : v = valid' /\ Answer(v)
    <2>1. valid' \in BOOLEAN
        BY <1>4
    <2>. QED
        BY <1>4, <2>1, Zenon
<1>7. Told(v)' /\ answers' \in Seq(Answers)
    BY <1>1, <1>6, AnswerGiven DEF Answers
<1>8. Told(valid)'
    BY <1>6, <1>7, Zenon DEF Told
<1>9. KeysSeen(pkt.user)'
    BY <1>0 DEF KeysSeen, AtPwnam
<1>10. AtPwnam'
    BY <1>0, <1>4, <1>5, <1>8, <1>9 DEF AtPwnam
<1>. QED
    BY <1>0, <1>7, <1>10, ChildKept DEF Conversation, Over

(* The child waits, or is between requests, while the monitor takes the
   authserv.                                                               *)
LEMMA MonitorServes ==
    ASSUME Lockstep, MonitorStep, UNCHANGED cvars, pc \in {"idle", "try"} \cup Over
    PROVE  ChildTyped' /\ Conversation'
<1>. USE DEF Lockstep
<1>0. /\ mstate # "gone" /\ Len(reqs) # 0 /\ Head(reqs) = reqs[1] /\ pc' = pc
      /\ Len(reqs') = Len(reqs) - 1 /\ UNCHANGED <<ctxt, pkt, held, authorized>>
    BY FirstTaken, Handled DEF cvars
<1>1. CASE pc \in {"idle", "try"}
    <2>1. /\ Len(answers) = 0 /\ Len(reqs) = 1 /\ reqs[1] = Authserv /\ Undecided
          /\ pc = "try" => InRequest
        BY <1>0, <1>1 DEF Conversation, AtIdle, AtTry, AtService, Idle, Silent
    <2>2. Undecided' /\ answers' = answers /\ Len(reqs') = 0
        BY <2>1, ServedFirst
    <2>3. ChildTyped'
        BY <2>2, ChildKept DEF ChildTyped
    <2>4. Silent'
        BY <2>1, <2>2 DEF Silent
    <2>5. pc = "try" => InRequest'
        BY <1>0, <2>1 DEF InRequest, KeysSeen
    <2>. QED
        BY <1>0, <1>1, <2>2, <2>3, <2>4, <2>5 DEF Conversation, AtIdle, AtTry, Over
<1>2. CASE pc \in Over
    <2>1. /\ Len(answers) = 0 /\ Len(reqs) = 1
          /\ reqs[1] = Authserv \/ reqs[1] = Question("term", NoKey)
        BY <1>0, <1>2 DEF Conversation, AtGone, Stopped, Silent, Sent
    <2>2. Head(reqs).type \in {"authserv", "term"}
        BY <1>0, <2>1 DEF Authserv, Question
    <2>3. fatal \/ mm_answer_authserv
        BY <2>2, Handled DEF mm_answer_term
    <2>4. answers' = answers
        BY <2>3 DEF fatal, mm_answer_authserv
    <2>5. Silent'
        BY <1>0, <2>1, <2>4 DEF Silent
    <2>6. ChildTyped'
        BY <2>4, ChildKept DEF ChildTyped
    <2>. QED
        BY <1>0, <1>2, <2>5, <2>6 DEF Conversation, AtGone, Over
<1>. QED
    BY <1>1, <1>2

(* A question behind the authserv is the only one after it.                *)
LEMMA MonitorFirst ==
    ASSUME Lockstep, MonitorStep, UNCHANGED cvars, Undecided, InRequest,
           NEW q, q.type # "authserv", Asks(q), ~Sent(q)
    PROVE  /\ ChildTyped' /\ Undecided' /\ InRequest' /\ Asks(q)' /\ UNCHANGED <<mstate, state>>
           /\ "banner" \in permit => "banner" \in permit'
<1>1. Len(answers) = 0 /\ Len(reqs) = 2 /\ reqs[1] = Authserv /\ reqs[2] = q
    BY DEF Asks
<1>2. /\ Undecided' /\ UNCHANGED <<mstate, state, answers>> /\ Len(reqs') = 1 /\ reqs'[1] = q
      /\ "banner" \in permit => "banner" \in permit'
    BY <1>1, ServedFirst
<1>3. Asks(q)'
    BY <1>1, <1>2 DEF Asks, Sent
<1>4. ChildTyped'
    BY <1>2, ChildKept DEF Lockstep, ChildTyped
<1>5. InRequest'
    BY Handled DEF InRequest, KeysSeen, cvars
<1>. QED
    BY <1>2, <1>3, <1>4, <1>5

LEMMA MonitorBanner ==
    ASSUME Lockstep, MonitorStep, UNCHANGED cvars, pc = "banner"
    PROVE  ChildTyped' /\ Conversation'
<1>. USE DEF Lockstep
<1>. DEFINE q == Question("banner", NoKey)
<1>0. /\ Head(reqs) = reqs[1] /\ pc' = pc /\ Undecided /\ InRequest /\ Asks(q)
      /\ "banner" \in permit /\ Len(reqs') = Len(reqs) - 1 /\ q.type = "banner"
      /\ ~none_enabled'
    BY FirstTaken DEF cvars, Conversation, AtBanner, Told, Question
<1>. HIDE DEF q
<1>1. CASE ~Sent(q)
    <2>1. ChildTyped' /\ Undecided' /\ InRequest' /\ Asks(q)' /\ "banner" \in permit'
        BY <1>0, <1>1, MonitorFirst
    <2>2. AtBanner'
        BY <1>0, <2>1 DEF AtBanner, q
    <2>. QED
        BY <1>0, <2>1, <2>2 DEF Conversation, Over
<1>2. CASE Sent(q)
    <2>1. Head(reqs).type = "banner" /\ "banner" \in Expected /\ mstate = "preauth"
        BY <1>0, <1>2 DEF Sent, Expected, Undecided
    <2>2. mm_answer_auth2_read_banner
        BY <2>1, Handled
    <2>3. Answer("banner") /\ UNCHANGED <<mstate, state>> /\ permit' = permit \ {"banner"}
        BY <2>1, <2>2 DEF mm_answer_auth2_read_banner, monitor_permit, Once
    <2>4. Told("banner")' /\ answers' \in Seq(Answers)
        BY <1>2, <2>3, AnswerGiven DEF Answers
    <2>5. Undecided' /\ InRequest'
        <3>1. Authenticating \subseteq permit /\ Authenticating \subseteq permit'
            BY <1>0, <1>2, <2>3 DEF Undecided, Served, Sent, Authserv, Question, Authenticating
        <3>2. Served'
            BY <1>0, <2>4, <3>1 DEF Served, Told
        <3>3. Undecided'
            BY <1>0, <2>3, <3>2 DEF Undecided, Introduced, state, cvars
        <3>. QED
            BY <1>0, <3>3, Handled DEF InRequest, KeysSeen, cvars
    <2>6. AtBanner'
        BY <1>0, <2>4, <2>5 DEF AtBanner
    <2>. QED
        BY <1>0, <2>4, <2>6, ChildKept DEF Conversation, Over
<1>. QED
    BY <1>1, <1>2, Zenon

(* What a question the monitor has before it finds permitted.              *)
LEMMA MethodsPermitted ==
    ASSUME Undecided, NEW q, q.type # "authserv", Sent(q)
    PROVE  Expected = permit /\ Authenticating \subseteq permit /\ mstate = "preauth"
<1>1. reqs[1] # Authserv
    BY DEF Sent, Authserv, Question
<1>. QED
    BY <1>1 DEF Undecided, Served, Expected

(* The verdict on an answer the child has not read yet.                    *)
LEMMA VerdictLockstep ==
    ASSUME Lockstep, MonitorStep, UNCHANGED cvars, Undecided, NEW q, q.type # "authserv", Sent(q),
           NEW ok \in BOOLEAN, ok => valid, Answer(ok), NEW method, NEW sig,
           NEW pw, monitor_child_preauth(ok, method, sig, pw), method # "unknown",
           UNCHANGED <<permit, attempt, user, valid, session_id2, forced_command>>,
           ok /\ user = Root => (auth_root_allowed(method, forced_command # NoKey)
                                   <=> auth_root_allowed(pkt.method, forced))
    PROVE  /\ ChildTyped' /\ Judged(ok)'
           /\ granted' # NoGrant =>
                 granted' = [method |-> method, user |-> user, sig |-> sig, pw |-> pw]
<1>1. Told(ok)' /\ answers' \in Seq(Answers)
    BY AnswerGiven DEF Answers
<1>2. ChildTyped'
    BY <1>1, ChildKept DEF Lockstep
<1>3. Served'
    BY <1>1, MethodsPermitted DEF Served, Told, Undecided, cvars
<1>4. Introduced'
    BY DEF Undecided, Introduced, cvars
<1>5. mstate = "preauth" /\ granted = NoGrant
    BY DEF Undecided
<1>6. [method |-> method, user |-> user, sig |-> sig, pw |-> pw] # NoGrant
    BY DEF NoGrant
<1>7. CASE ok /\ (user = Root => auth_root_allowed(pkt.method, forced))
    <2>1. /\ mstate' = "keystate"
          /\ granted' = [method |-> method, user |-> user, sig |-> sig, pw |-> pw]
        BY <1>7 DEF monitor_child_preauth
    <2>2. Judged(ok)'
        BY <1>1, <1>3, <1>4, <1>6, <1>7, <2>1 DEF Judged, cvars
    <2>. QED
        BY <1>2, <2>1, <2>2
<1>8. CASE ~(ok /\ (user = Root => auth_root_allowed(pkt.method, forced)))
    <2>1. mstate' = "preauth" /\ granted' = NoGrant
        BY <1>5, <1>8 DEF monitor_child_preauth
    <2>2. Judged(ok)'
        BY <1>1, <1>3, <1>4, <1>8, <2>1 DEF Judged, cvars
    <2>. QED
        BY <1>2, <2>1, <2>2, SMTT(30)
<1>. QED
    BY <1>7, <1>8

LEMMA MonitorPassword ==
    ASSUME Lockstep, MonitorStep, UNCHANGED cvars, pc = "password"
    PROVE  ChildTyped' /\ Conversation'
<1>. USE DEF Lockstep
<1>0. /\ Head(reqs) = reqs[1] /\ Len(reqs) # 0 /\ pc' = pc /\ AtPassword /\ InRequest
      /\ UNCHANGED <<pkt, ctxt, held, authorized>>
    BY FirstTaken, Handled DEF cvars, Conversation, AtPassword
<1>1. \A ok : ~Judged(ok)
    BY <1>0 DEF Judged, Told
<1>2. Undecided /\ \E p \in {"empty", "right", "wrong"} : Asks(Question("authpassword", p))
    BY <1>0, <1>1, Zenon DEF AtPassword
<1>3. PICK p \in {"empty", "right", "wrong"} : Asks(Question("authpassword", p))
    BY <1>2
<1>. DEFINE q == Question("authpassword", p)
<1>4. q.type = "authpassword" /\ q.arg = p
    BY DEF Question
<1>. HIDE DEF q
<1>5. InRequest'
    BY <1>0 DEF InRequest, KeysSeen
<1>6. CASE ~Sent(q)
    <2>1. ChildTyped' /\ Undecided' /\ Asks(q)'
        BY <1>0, <1>2, <1>3, <1>4, <1>6, MonitorFirst DEF q
    <2>2. AtPassword'
        BY <1>5, <2>1 DEF AtPassword, q
    <2>. QED
        BY <1>0, <2>1, <2>2 DEF Conversation, Over
<1>7. CASE Sent(q)
    <2>1. Head(reqs).type = "authpassword" /\ Head(reqs).arg = p /\ "authpassword" \in Expected
        BY <1>0, <1>2, <1>4, <1>7, MethodsPermitted DEF Sent, Authenticating
    <2>2. mm_answer_authpassword
        BY <2>1, Handled
    <2>. DEFINE method == IF p = "empty" /\ call_count = 0 THEN "none" ELSE "password"
    <2>3. PICK ok \in BOOLEAN :
            /\ ok = auth_password(p) /\ Answer(ok)
            /\ monitor_child_preauth(ok, method, NoSignature, p)
        <3>1. auth_password(p) \in BOOLEAN
            BY DEF auth_password
        <3>. QED
            BY <2>1, <2>2, <3>1, Zenon DEF mm_answer_authpassword
    <2>4. UNCHANGED <<permit, attempt, user, valid, session_id2, forced_command>>
        BY <2>2 DEF mm_answer_authpassword
    <2>5. ok => valid /\ (user = Root => PermitRootLogin = "yes")
        BY <2>3, Zenon DEF auth_password
    <2>6. ok /\ user = Root => (auth_root_allowed(method, forced_command # NoKey)
                                  <=> auth_root_allowed(pkt.method, forced))
        BY <2>5 DEF auth_root_allowed
    <2>7. method # "unknown" /\ method # "publickey"
        OBVIOUS
    <2>. HIDE DEF method
    <2>8. /\ ChildTyped' /\ Judged(ok)'
          /\ granted' # NoGrant =>
               granted' = [method |-> method, user |-> user, sig |-> NoSignature, pw |-> p]
        BY <1>2, <1>4, <1>7, <2>3, <2>4, <2>5, <2>6, <2>7, VerdictLockstep
    <2>9. granted'.method # "publickey"
        BY <2>7, <2>8 DEF NoGrant
    <2>10. AtPassword'
        BY <1>5, <2>8, <2>9 DEF AtPassword
    <2>. QED
        BY <1>0, <2>8, <2>10 DEF Conversation, Over
<1>. QED
    BY <1>6, <1>7

LEMMA MonitorAllowed ==
    ASSUME Lockstep, MonitorStep, UNCHANGED cvars, pc = "allowed"
    PROVE  ChildTyped' /\ Conversation'
<1>. USE DEF Lockstep
<1>. PICK q : q = Question("keyallowed", Blob)
    BY Zenon
<1>0. /\ Head(reqs) = reqs[1] /\ Len(reqs) # 0 /\ pc' = pc /\ AtAllowed /\ InRequest /\ Undecided
      /\ UNCHANGED <<pkt, ctxt, held, authorized, none_enabled>>
    BY FirstTaken, Handled, Zenon DEF cvars, Conversation, AtAllowed
<1>1. Asks(q)
    BY <1>0, Zenon DEF AtAllowed, Told
<1>2. q.type = "keyallowed" /\ q.arg = Blob
    BY DEF Question
<1>3. InRequest' /\ Blob' = Blob /\ BlobType' = BlobType
    BY <1>0, Zenon DEF InRequest, KeysSeen, Blob, BlobType
<1>4. CASE ~Sent(q)
    <2>1. ChildTyped' /\ Undecided' /\ Asks(q)'
        BY <1>0, <1>1, <1>2, <1>4, MonitorFirst
    <2>2. Asks(Question("keyallowed", Blob))'
        BY <1>3, <2>1 DEF Asks, Sent, Question
    <2>3. AtAllowed'
        BY <1>3, <2>1, <2>2, SMTT(30) DEF AtAllowed
    <2>. QED
        BY <1>0, <2>1, <2>3 DEF Conversation, Over
<1>5. CASE Sent(q)
    <2>1. Head(reqs).type = "keyallowed" /\ Head(reqs).arg = Blob /\ "keyallowed" \in Expected
        BY <1>0, <1>2, <1>5, MethodsPermitted DEF Sent, Authenticating
    <2>2. mm_answer_keyallowed
        BY <2>1, Handled, SMTT(30)
    <2>3. /\ forced_command' = Options(Blob)
          /\ key_allowed(Blob) => /\ key_blob' = Blob.key /\ key_blobtype' = Blob.type
                                  /\ hostbased_client' = Blob.client
          /\ Answer([allowed |-> key_allowed(Blob), forced |-> Options(Blob) # NoKey])
          /\ UNCHANGED <<mstate, permit, attempt, user, valid, session_id2, granted>>
        BY <2>1, <2>2 DEF mm_answer_keyallowed
    <2>4. PICK ok \in BOOLEAN, frc \in BOOLEAN :
            /\ ok = key_allowed(Blob) /\ frc = (Options(Blob) # NoKey)
            /\ Answer([allowed |-> ok, forced |-> frc])
        <3>1. key_allowed(Blob) \in BOOLEAN /\ (Options(Blob) # NoKey) \in BOOLEAN
            BY DEF key_allowed
        <3>. QED
            BY <2>3, <3>1, Zenon
    <2>5. Told([allowed |-> ok, forced |-> frc])' /\ answers' \in Seq(Answers)
        <3>1. [allowed |-> ok, forced |-> frc] \in Answers
            BY SMTT(30) DEF Answers
        <3>. QED
            BY <1>5, <2>4, <3>1, AnswerGiven
    <2>6. ok => Allowed'
        <3>1. pkt.key \in Keys /\ user = pkt.user
            BY <1>0 DEF AsksWell, Undecided, Introduced, InRequest
        <3>2. ok /\ pkt.method = "publickey" => <<pkt.user, pkt.key>> \in authorized
            BY <2>4, <3>1, ZenonT(30) DEF key_allowed, Blob, BlobType
        <3>3. ok /\ pkt.method = "publickey" => pkt.key \in held
            BY <1>0, <3>1, <3>2 DEF InRequest, KeysSeen
        <3>. QED
            BY <1>0, <2>3, <2>4, <3>3, SMTT(30) DEF Allowed, Blob, BlobType
    <2>7. Undecided'
        <3>1. Served'
            BY <1>0, <1>2, <1>5, <2>3, <2>5, MethodsPermitted DEF Served, Told, Undecided
        <3>. QED
            BY <1>0, <2>3, <3>1 DEF Undecided, Introduced
    <2>8. frc = (forced_command' # NoKey)
        BY <2>3, <2>4, SMTT(30)
    <2>9. AtAllowed'
        <3>1. Told([allowed |-> ok, forced |-> forced_command # NoKey])'
            BY <2>5, <2>8, Zenon DEF Told
        <3>. QED
            BY <1>3, <2>6, <2>7, <3>1 DEF AtAllowed
    <2>. QED
        BY <1>0, <2>5, <2>9, ChildKept DEF Conversation, Over
<1>. QED
    BY <1>4, <1>5

LEMMA MonitorVerify ==
    ASSUME Lockstep, MonitorStep, UNCHANGED cvars, pc = "verify"
    PROVE  ChildTyped' /\ Conversation'
<1>. USE DEF Lockstep
<1>. PICK q : q = Question("keyverify", Signed)
    BY ZenonT(30)
<1>0. /\ Head(reqs) = reqs[1] /\ Len(reqs) # 0 /\ pc' = pc /\ AtVerify /\ InRequest
      /\ UNCHANGED <<pkt, ctxt, held, authorized, none_enabled, forced>>
    BY FirstTaken, Handled DEF cvars, Conversation, AtVerify
<1>1. \A ok : ~Judged(ok)
    BY <1>0 DEF Judged, Told
<1>2. Undecided /\ Allowed /\ Asks(q)
    BY <1>0, <1>1, Zenon DEF AtVerify
<1>3. q.type = "keyverify" /\ q.arg = Signed
    BY Zenon DEF Question
<1>4. InRequest' /\ Signed' = Signed /\ BlobType' = BlobType
    <2>1. InRequest'
        BY <1>0, Zenon DEF InRequest, KeysSeen
    <2>2. Signed' = Signed /\ BlobType' = BlobType
        BY <1>0, Zenon DEF Signed, SignedData, BlobType
    <2>. QED
        BY <2>1, <2>2, Zenon
<1>5. /\ pkt.key \in Keys /\ pkt.method \in {"publickey", "hostbased"}
      /\ forced = (forced_command # NoKey) /\ (pkt.method = "publickey" => pkt.key \in held)
    BY <1>0 DEF AtVerify
<1>6. CASE ~Sent(q)
    <2>1. ChildTyped' /\ Undecided' /\ Asks(q)' /\ UNCHANGED state
        BY <1>0, <1>2, <1>3, <1>6, MonitorFirst
    <2>2. Asks(Question("keyverify", Signed))'
        BY <1>4, <2>1 DEF Asks, Sent, Question
    <2>3. Allowed'
        BY <1>0, <1>2, <2>1, SMTT(30) DEF Allowed, BlobType, state
    <2>4. AtVerify'
        BY <1>0, <1>4, <1>5, <2>1, <2>2, <2>3, SMTT(30) DEF AtVerify, state
    <2>. QED
        BY <1>0, <2>1, <2>4 DEF Conversation, Over
<1>7. CASE Sent(q)
    <2>1. Head(reqs).type = "keyverify" /\ Head(reqs).arg = Signed /\ "keyverify" \in Expected
        BY <1>0, <1>2, <1>3, <1>7, MethodsPermitted DEF Sent, Authenticating
    <2>2. mm_answer_keyverify
        BY <2>1, Handled, SMTT(30)
    <2>3. /\ Signed.key = pkt.key /\ Signed.data = SignedData /\ Signed.sig = pkt.sig
          /\ SignedData.sid = Sid /\ SignedData.user = ctxt.user
          /\ SignedData.method = pkt.method /\ SignedData.client = pkt.client
        BY SMTT(30) DEF Signed, SignedData
    <2>4. /\ monitor_allowed_key(Signed.key)
          /\ IF key_blobtype = "user" THEN monitor_valid_userblob(Signed.data)
                                      ELSE monitor_valid_hostbasedblob(Signed.data)
          /\ pkt.method = IF key_blobtype = "user" THEN "publickey" ELSE "hostbased"
        BY <1>2, <1>5, <2>3, MonitorAssumption DEF Allowed, BlobType, monitor_allowed_key,
           monitor_valid_userblob, monitor_valid_hostbasedblob, Undecided, Introduced
    <2>5. PICK ok \in BOOLEAN :
            /\ ok = key_verify(pkt.key, SignedData, pkt.sig) /\ Answer(ok)
            /\ monitor_child_preauth(ok, pkt.method, pkt.sig, "none")
            /\ UNCHANGED <<permit, attempt, user, valid, session_id2, forced_command>>
        <3>1. key_verify(pkt.key, SignedData, pkt.sig) \in BOOLEAN
            BY SMTT(30) DEF key_verify
        <3>2. /\ Answer(key_verify(pkt.key, SignedData, pkt.sig))
              /\ monitor_child_preauth(key_verify(pkt.key, SignedData, pkt.sig), pkt.method,
                                       pkt.sig, "none")
              /\ UNCHANGED <<permit, attempt, user, valid, session_id2, forced_command>>
            BY <2>1, <2>2, <2>3, <2>4, SMTT(30) DEF mm_answer_keyverify
        <3>. QED
            BY <3>1, <3>2, Zenon
    <2>6. ok => pkt.sig.key = pkt.key
        <3>1. ok => key_verify(pkt.key, SignedData, pkt.sig)
            BY <2>5, Zenon
        <3>. QED
            BY <3>1 DEF key_verify
    <2>7. valid
        BY <1>2, <1>5, MonitorAssumption, SMTT(30) DEF Allowed, MonitorInv, Remembered
    <2>8. /\ ChildTyped' /\ Judged(ok)'
          /\ granted' # NoGrant =>
               granted' = [method |-> pkt.method, user |-> user, sig |-> pkt.sig, pw |-> "none"]
        BY <1>2, <1>3, <1>5, <1>7, <2>5, <2>7, VerdictLockstep
    <2>9. granted' # NoGrant => granted'.method = pkt.method /\ granted'.sig = pkt.sig
        BY <2>8, SMTT(30)
    <2>10. AtVerify'
        BY <1>0, <1>4, <1>5, <2>5, <2>6, <2>8, <2>9, Zenon DEF AtVerify
    <2>. QED
        BY <1>0, <2>8, <2>10 DEF Conversation, Over
<1>. QED
    BY <1>6, <1>7

LEMMA PrivilegedLockstep ==
    ASSUME Lockstep, Privileged
    PROVE  ChildTyped' /\ Conversation'
<1>1. MonitorStep /\ UNCHANGED cvars /\ Len(reqs) # 0
    BY FirstTaken DEF Privileged
<1>2. pc \notin {"kex", "service", "export"}
    BY <1>1 DEF Lockstep, Conversation, AtKex, AtService, AtExport, Idle
<1>3. pc \in Waiting \cup {"kex", "service", "idle", "try", "export", "done"} \cup Over
    BY DEF Lockstep, ChildTyped
<1>. QED
    BY <1>1, <1>2, <1>3, MonitorKex, MonitorPwnam, MonitorServes, MonitorBanner,
       MonitorPassword, MonitorAllowed, MonitorVerify DEF Waiting
-----------------------------------------------------------------------------
LEMMA StepLockstep ==
    ASSUME Lockstep, [Next]_vars
    PROVE  Lockstep'
<1>1. MonitorInv' /\ AsksWell'
    BY PairStep, StepInv DEF Lockstep
<1>2. CASE Child
    BY <1>1, <1>2, KexLockstep, PwnamLockstep, TryLockstep, BannerLockstep, PasswordLockstep,
       AllowedLockstep, VerifyLockstep, AfterLockstep DEF Child, Lockstep
<1>3. CASE Client
    BY <1>1, <1>3, ServiceLockstep, RequestLockstep DEF Client, Lockstep
<1>4. CASE Rekey \/ mm_terminate
    BY <1>1, <1>4, AfterLockstep DEF Lockstep
<1>5. CASE Privileged
    BY <1>1, <1>5, PrivilegedLockstep DEF Lockstep
<1>6. CASE Alarm \/ Lost \/ Changes
    BY <1>1, <1>6, StoppedLockstep, ChangesLockstep DEF Lockstep
<1>7. CASE UNCHANGED vars
    BY <1>1, <1>7, StutterLockstep DEF Lockstep
<1>. QED
    BY <1>2, <1>3, <1>4, <1>5, <1>6, <1>7 DEF Next

(***************************************************************************)
(* The two processes keep step: at every place of the child what the       *)
(* monitor holds, permits and has on its way is what that place needs.     *)
(***************************************************************************)
THEOREM PairLockstep == Spec => []Lockstep
  BY InitLockstep, StepLockstep, PTL DEF Spec

(***************************************************************************)
(* The monitor never meets a request it does not permit: it stops only     *)
(* after the child has, or when the grace time ends (monitor.c:465).       *)
(***************************************************************************)
THEOREM PairNeverUnexpected == Spec => []NeverUnexpected
<1>1. Lockstep => NeverUnexpected
    <2>. SUFFICES ASSUME Lockstep, mstate = "gone", pc \notin {"gone", "done", "resign", "internal error"}
                  PROVE  FALSE
        BY DEF NeverUnexpected
    <2>1. ~Undecided /\ (\A i : ~Fresh(i)) /\ (\A ok : ~Judged(ok))
        BY DEF Undecided, Fresh, Judged
    <2>2. pc \in Waiting \cup {"kex", "service", "idle", "try", "export"}
        BY ZenonT(30) DEF Lockstep, ChildTyped, Over
    <2>3. CASE pc \in {"kex", "moduli", "sign", "service", "idle", "pwnam", "try", "banner"}
        BY <2>1, <2>3, ZenonT(30) DEF Lockstep, Conversation, AtKex, AtModuli, AtSign, AtService, AtIdle,
           AtPwnam, AtTry, AtBanner
    <2>4. CASE pc \in {"password", "allowed", "verify", "export"}
        BY <2>1, <2>4 DEF Lockstep, Conversation, AtPassword, AtAllowed, AtVerify, AtExport
    <2>. QED
        BY <2>2, <2>3, <2>4 DEF Waiting
<1>. QED
    BY <1>1, PairLockstep, PTL

(***************************************************************************)
(* The child and the monitor, each with its own checks on its own copy of  *)
(* the state, reach the same verdict on the same user (auth2.c:211-281,    *)
(* monitor.c:351-386).                                                     *)
(***************************************************************************)
THEOREM PairAgrees == Spec => []Agreement
<1>1. Lockstep => Agreement
    <2>. SUFFICES ASSUME Lockstep
                  PROVE  Agreement
        OBVIOUS
    <2>1. pc \in {"idle", "try", "service"} => mstate \in {"preauth", "gone"}
        BY DEF Lockstep, Conversation, AtIdle, AtTry, AtService, Fresh, Undecided
    <2>2. pc = "export" => mstate = "keystate" /\ Established
        BY DEF Lockstep, Conversation, AtExport
    <2>3. pc = "done" => mstate \in {"keystate", "postauth", "gone"} /\ Established
        BY DEF Lockstep, Conversation, AtDone, Stopped
    <2>. QED
        BY <2>1, <2>2, <2>3 DEF Agreement, Established
<1>. QED
    BY <1>1, PairLockstep, PTL

(***************************************************************************)
(* The key that opens a session was the user's at some time since the      *)
(* request it came with (auth2-pubkey.c:139).                              *)
(***************************************************************************)
THEOREM PairAllowedInTime == Spec => []AllowedDuringRequest
<1>1. Lockstep => AllowedDuringRequest
    <2>. SUFFICES ASSUME Lockstep, pc \in {"verify", "export"}, granted # NoGrant,
                         granted.method = "publickey"
                  PROVE  granted.sig.key \in held
        BY DEF AllowedDuringRequest
    <2>1. CASE pc = "export"
        BY <2>1 DEF Lockstep, Conversation, AtExport
    <2>2. CASE pc = "verify"
        <3>1. AtVerify /\ ~Undecided
            BY <2>2 DEF Lockstep, Conversation, Undecided
        <3>2. PICK ok \in BOOLEAN :
                /\ Judged(ok) /\ (ok => pkt.sig.key = pkt.key)
                /\ granted.method = pkt.method /\ granted.sig = pkt.sig
            BY <3>1 DEF AtVerify
        <3>3. ok
            BY <3>2 DEF Judged
        <3>. QED
            BY <3>1, <3>2, <3>3 DEF AtVerify
    <2>. QED
        BY <2>1, <2>2
<1>. QED
    BY <1>1, PairLockstep, PTL

(* The pair keeps the session id and the user once they are set.           *)
THEOREM PairKeepsIdentity == Spec => IdentityFixed
  BY PairImplementsMonitor, MonitorKeepsIdentity DEF ImplementsMonitor

(***************************************************************************)
(* The limit on failed attempts: userauth_finish counts after it compares, *)
(* and its comparison is strict, so a connection has up to two failures    *)
(* more than MaxAuthTries, and no more.                                    *)
(***************************************************************************)
THEOREM PairTriesBounded == Spec => [](ctxt.failures <= MaxAuthTries + 2)
<1>1. Lockstep => ctxt.failures <= MaxAuthTries + 2
    BY DEF Lockstep, ChildTyped
<1>. QED
    BY <1>1, PairLockstep, PTL

(***************************************************************************)
(* The state is well formed; the requests on their way are at most two and *)
(* the answers at most one.                                                *)
(***************************************************************************)
THEOREM PairTypes == Spec => []TypeOK
<1>1. Lockstep /\ MonitorTypeOK => TypeOK
    <2>. SUFFICES ASSUME Lockstep, MonitorTypeOK
                  PROVE  TypeOK
        OBVIOUS
    <2>1. Len(reqs) <= 2 /\ Len(answers) <= 1
        BY QueuesShort DEF Short
    <2>2. ctxt.failures \in Nat
        BY DEF Lockstep, ChildTyped, ContextType
    <2>. QED
        BY <2>1, <2>2 DEF TypeOK, Lockstep, ChildTyped, Over
<1>. QED
    BY <1>1, PairLockstep, PairImplementsMonitor, MonitorTypes, PTL DEF ImplementsMonitor
=============================================================================
