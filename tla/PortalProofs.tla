---------------------------- MODULE PortalProofs ----------------------------
(***************************************************************************)
(* Theorems about the directory and the login page that writes to it, for  *)
(* any number of requests, sessions, users and texts, any session length,  *)
(* and with or without LDAP failures.                                      *)
(***************************************************************************)
EXTENDS LoginPortal, TLAPS

(* Storing a session keeps the directory well-typed (modify and add in
   ssh_backend.php).                                                       *)
LEMMA DirStoreType ==
    ASSUME DirTypeOK, NEW u \in Uids, NEW k \in Certs, NEW t \in Nat,
           DirStore(u, k, t)
    PROVE  DirTypeOK'
<1>1. t + SessionTime \in Nat
    BY DirAssumption
<1>2. [key |-> k, timeout |-> t + SessionTime] \in Entries
    BY <1>1 DEF Entries
<1>3. dir' \in [Uids -> Entries \cup {NoEntry}]
    BY <1>2 DEF DirTypeOK, DirStore
<1>4. <<u, k, t + SessionTime>> \in Uids \X Certs \X Nat
    BY <1>1
<1>. QED
    BY <1>3, <1>4 DEF DirTypeOK, DirStore

(* The clock and the stored sessions always have their types.              *)
LEMMA DirNextType ==
    ASSUME DirTypeOK, [DirNext]_dirVars
    PROVE  DirTypeOK'
<1>1. CASE Tick
    BY <1>1 DEF DirTypeOK, Tick
<1>2. ASSUME NEW u \in Uids, NEW k \in Certs, NEW t \in 0 .. now,
             DirStore(u, k, t)
      PROVE  DirTypeOK'
    <2>1. t \in Nat
        BY DEF DirTypeOK
    <2>. QED
        BY <2>1, <1>2, DirStoreType
<1>3. ASSUME NEW u \in Uids, DirDelete(u)
      PROVE  DirTypeOK'
    BY <1>3 DEF DirTypeOK, DirDelete
<1>4. CASE UNCHANGED dirVars
    BY <1>4 DEF DirTypeOK, dirVars
<1>. QED
    BY <1>1, <1>2, <1>3, <1>4 DEF DirNext

(* An entry never promises more than SessionTime from now, and what it
   holds was stored: the deadline bound of ssh_backend.php.                *)
LEMMA DirNextBound ==
    ASSUME DirTypeOK, SessionBound, [DirNext]_dirVars
    PROVE  SessionBound'
<1>1. CASE Tick
    <2>. SUFFICES ASSUME NEW v \in Uids, dir[v] # NoEntry
                  PROVE  dir[v].timeout <= now + 1 + SessionTime
        BY <1>1 DEF Tick, SessionBound
    <2>1. dir[v] \in Entries
        BY DEF DirTypeOK
    <2>2. dir[v].timeout \in Nat
        BY <2>1 DEF Entries
    <2>3. dir[v].timeout <= now + SessionTime
        BY Zenon DEF SessionBound
    <2>4. now \in Nat /\ SessionTime \in Nat
        BY DirAssumption DEF DirTypeOK
    <2>. QED
        BY <2>2, <2>3, <2>4
<1>2. ASSUME NEW u \in Uids, NEW k \in Certs, NEW t \in 0 .. now,
             DirStore(u, k, t)
      PROVE  SessionBound'
    <2>1. now \in Nat /\ t \in Nat /\ t <= now /\ now' = now
        BY <1>2 DEF DirTypeOK, DirStore
    <2>2. dir' = [dir EXCEPT ![u] = [key |-> k, timeout |-> t + SessionTime]]
        BY <1>2 DEF DirStore
    <2>3. granted' = granted \cup {<<u, k, t + SessionTime>>}
        BY <1>2 DEF DirStore
    <2>. SUFFICES ASSUME NEW v \in Uids, dir'[v] # NoEntry
                  PROVE  /\ dir'[v].timeout <= now + SessionTime
                         /\ <<v, dir'[v].key, dir'[v].timeout>> \in granted'
        BY <2>1 DEF SessionBound
    <2>4. CASE v = u
        <3>1. dir'[v] = [key |-> k, timeout |-> t + SessionTime]
            BY <2>2, <2>4 DEF DirTypeOK
        <3>2. t + SessionTime <= now + SessionTime
            BY <2>1, DirAssumption
        <3>. QED
            BY <3>1, <3>2, <2>3, <2>4
    <2>5. CASE v # u
        <3>1. dir'[v] = dir[v]
            BY <2>2, <2>5 DEF DirTypeOK
        <3>. QED
            BY <3>1, <2>3 DEF SessionBound
    <2>. QED
        BY <2>4, <2>5
<1>3. ASSUME NEW u \in Uids, DirDelete(u)
      PROVE  SessionBound'
    BY <1>3 DEF DirTypeOK, SessionBound, DirDelete
<1>4. CASE UNCHANGED dirVars
    BY <1>4 DEF SessionBound, dirVars
<1>. QED
    BY <1>1, <1>2, <1>3, <1>4 DEF DirNext

(* Every behaviour of the directory keeps its types and the bound on the
   length of a session.                                                    *)
THEOREM DirSafety == DirSpec => [](DirTypeOK /\ SessionBound)
<1>1. DirInit => DirTypeOK /\ SessionBound
    BY DEF DirInit, DirTypeOK, SessionBound
<1>2. DirTypeOK /\ SessionBound /\ [DirNext]_dirVars
      => DirTypeOK' /\ SessionBound'
    BY DirNextType, DirNextBound
<1>. QED
    BY <1>1, <1>2, PTL DEF DirSpec
-----------------------------------------------------------------------------
(* The login page.                                                         *)
Writing == {"search", "modify", "add", "ldap_modify", "ldap_add"}

(* What a request on its way to the write guarantees: its key was accepted,
   its clock readings are not in the future, and a success is only recorded
   after the write.                                                        *)
RequestInv ==
    \A r \in Requests :
        /\ began[r] <= now /\ hoy[r] <= now
        /\ page[r] \in Writing => cert[r] \in Certs
        /\ page[r] \in {"ldap_modify", "ldap_add"} => began[r] <= hoy[r]
        /\ code[r] = 1 => page[r] \in {"show", "done", "died"}

PortalInv == PortalTypeOK /\ RequestInv /\ OkCoversRequest

(* The account name of a request is one the directory knows
   (get_remote_user).                                                      *)
LEMMA UidType ==
    ASSUME PortalTypeOK, NEW r \in Requests
    PROVE  Uid(r) \in Uids
BY PortalAssumption, Zenon DEF PortalTypeOK, Uid

(* The posted text or the header of a request (get_certificate).           *)
LEMMA CertificateType ==
    ASSUME NEW posted \in Posts \cup {Absent}, NEW header \in Posts \cup {Absent}
    PROVE  GetCertificate(posted, header) \in Posts
BY Zenon DEF GetCertificate, Posts

(* The first states of the page.                                           *)
LEMMA PortalInitInv == PortalInit => PortalInv
<1>. SUFFICES ASSUME PortalInit PROVE PortalInv
    OBVIOUS
<1>1. DirTypeOK
    BY Zenon DEF PortalInit, DirInit, DirTypeOK
<1>2. PortalTypeOK
    BY <1>1, Zenon DEF PortalInit, PortalTypeOK, Posts
<1>. HIDE DEF PortalInit
<1>a. ASSUME NEW r \in Requests
      PROVE  began[r] = 0 /\ hoy[r] = 0 /\ now = 0 /\ code[r] = 0 /\ page[r] = "new"
    BY Zenon DEF PortalInit, DirInit
<1>3. RequestInv
    BY <1>a DEF RequestInv, Writing
<1>4. OkCoversRequest
    BY <1>a DEF OkCoversRequest
<1>. QED
    BY <1>2, <1>3, <1>4 DEF PortalInv

(* Time passing (the clock that modify and add read) changes no request.   *)
LEMMA TickInv ==
    ASSUME PortalInv, Tick, UNCHANGED reqVars
    PROVE  PortalInv'
<1>1. DirTypeOK'
    BY DEF PortalInv, PortalTypeOK, DirTypeOK, Tick
<1>2. PortalTypeOK'
    BY <1>1 DEF PortalInv, PortalTypeOK, reqVars
<1>3. RequestInv'
    BY DEF PortalInv, PortalTypeOK, DirTypeOK, RequestInv, Tick, reqVars
<1>4. OkCoversRequest'
    BY DEF PortalInv, OkCoversRequest, Tick, reqVars, Uid
<1>. QED
    BY <1>2, <1>3, <1>4 DEF PortalInv

(* The head of both pages.                                                 *)
LEMMA OpenPageInv ==
    ASSUME PortalInv, NEW r \in Requests, NEW id \in Identities \cup {Nobody},
           OpenPage(r, id),
           NEW c \in Posts, NEW n \in {-3, -1, 0}, NEW l \in {"search", "show", "delete"},
           l = "search" => c \in Certs,
           cert' = [cert EXCEPT ![r] = c] \/ (UNCHANGED cert /\ l # "search"),
           code' = [code EXCEPT ![r] = n] \/ UNCHANGED code,
           page' = [page EXCEPT ![r] = l]
    PROVE  PortalInv'
<1>. USE DEF PortalInv
<1>0. UNCHANGED dirVars /\ DirTypeOK'
    BY DEF OpenPage, dirVars, PortalTypeOK, DirTypeOK
<1>1. PortalTypeOK'
    <2>1. user' \in [Sessions -> Identities \cup {Nobody}]
        BY DEF OpenPage, PortalTypeOK
    <2>2. who' \in [Requests -> Identities \cup {Nobody}]
        BY DEF OpenPage, PortalTypeOK
    <2>3. began' \in [Requests -> Nat]
        BY DEF OpenPage, PortalTypeOK, DirTypeOK
    <2>4. page' \in [Requests -> {"new"} \cup Active \cup Ended]
        BY DEF PortalTypeOK, Active
    <2>5. cert' \in [Requests -> Posts] /\ code' \in [Requests -> {-3, -2, -1, 0, 1}]
        BY DEF PortalTypeOK
    <2>. QED
        BY <1>0, <2>1, <2>2, <2>3, <2>4, <2>5 DEF PortalTypeOK, OpenPage
<1>2. RequestInv'
    BY <1>0 DEF OpenPage, PortalTypeOK, DirTypeOK, dirVars, RequestInv, Writing
<1>3. OkCoversRequest'
    <2>1. code[r] # 1
        BY DEF OpenPage, RequestInv
    <2>. QED
        BY <1>0, <2>1 DEF OpenPage, PortalTypeOK, OkCoversRequest, dirVars, Uid
<1>. QED
    BY <1>1, <1>2, <1>3
(* Both pages, with the inputs of index.php spelled out.                   *)
LEMMA ArriveInv ==
    ASSUME PortalInv, NEW r \in Requests, Arrive(r)
    PROVE  PortalInv'
<1>1. ASSUME NEW id \in Identities \cup {Nobody}, ClosePage(r, id)
      PROVE  PortalInv'
    <2>1. "" \in Posts
        BY DEF Posts
    <2>. QED
        BY <1>1, <2>1, OpenPageInv, Zenon DEF ClosePage
<1>2. ASSUME NEW id \in Identities \cup {Nobody},
             NEW posted \in Posts \cup {Absent}, NEW header \in Posts \cup {Absent},
             LoginPage(r, id, posted, header)
      PROVE  PortalInv'
    <2>. DEFINE c == GetCertificate(posted, header)
                n == IF c = "" THEN -3 ELSE IF CheckCertificate(c) THEN 0 ELSE -1
                l == IF CheckCertificate(c) THEN "search" ELSE "show"
    <2>1. c \in Posts
        BY CertificateType
    <2>2. n \in {-3, -1, 0}
        OBVIOUS
    <2>3. l \in {"search", "show", "delete"} /\ (l = "search" => c \in Certs)
        BY DEF CheckCertificate
    <2>4. /\ OpenPage(r, id)
          /\ cert' = [cert EXCEPT ![r] = c]
          /\ code' = [code EXCEPT ![r] = n]
          /\ page' = [page EXCEPT ![r] = l]
        BY <1>2, Zenon DEF LoginPage
    <2>. HIDE DEF c, n, l
    <2>5. /\ cert' = [cert EXCEPT ![r] = c] \/ (UNCHANGED cert /\ l # "search")
          /\ code' = [code EXCEPT ![r] = n] \/ UNCHANGED code
        BY <2>4
    <2>6. l = "search" => c \in Certs
        BY <2>3
    <2>7. l \in {"search", "show", "delete"}
        BY <2>3
    <2>. QED
        BY <2>1, <2>2, <2>4, <2>5, <2>6, <2>7, OpenPageInv, Zenon
<1>. QED
    BY <1>1, <1>2 DEF Arrive

(* The steps of doit, get_attr and delete that only move the request on.   *)
LEMMA PageMoveInv ==
    ASSUME PortalInv, NEW r \in Requests, NEW l,
           \/ page[r] = "search" /\ l \in {"modify", "add", "died"}
           \/ page[r] = "show" /\ l \in {"done", "died"}
           \/ page[r] = "delete" /\ l \in {"closed", "died"},
           TurnTo(r, l), failed' \in {failed, failed \cup {r}},
           UNCHANGED <<dirVars, user, sess, who, cert, hoy, code, began>>
    PROVE  PortalInv'
<1>. USE DEF PortalInv
<1>1. PortalTypeOK'
    <2>1. page' \in [Requests -> {"new"} \cup Active \cup Ended]
        BY DEF PortalTypeOK, TurnTo, Active, Ended
    <2>2. DirTypeOK'
        BY DEF PortalTypeOK, DirTypeOK, dirVars
    <2>. QED
        BY <2>1, <2>2 DEF PortalTypeOK
<1>2. RequestInv'
    <2>1. \A q \in Requests : q # r => page'[q] = page[q]
        BY DEF TurnTo, PortalTypeOK
    <2>2. page'[r] = l
        BY DEF TurnTo, PortalTypeOK
    <2>3. code[r] = 1 => page[r] = "show"
        BY DEF RequestInv
    <2>. QED
        BY <2>1, <2>2, <2>3 DEF RequestInv, Writing, dirVars
<1>3. OkCoversRequest'
    BY DEF OkCoversRequest, dirVars, Uid
<1>. QED
    BY <1>1, <1>2, <1>3

(* getdate() in modify and add.                                            *)
LEMMA ReadClockInv ==
    ASSUME PortalInv, NEW r \in Requests, ReadClock(r)
    PROVE  PortalInv'
<1>. USE DEF PortalInv
<1>1. PortalTypeOK'
    <2>1. page' \in [Requests -> {"new"} \cup Active \cup Ended]
        BY DEF PortalTypeOK, TurnTo, Active, ReadClock
    <2>2. DirTypeOK' /\ hoy' \in [Requests -> Nat]
        BY DEF PortalTypeOK, DirTypeOK, dirVars, ReadClock
    <2>. QED
        BY <2>1, <2>2 DEF PortalTypeOK, ReadClock
<1>2. RequestInv'
    BY DEF RequestInv, Writing, dirVars, ReadClock, TurnTo, PortalTypeOK, DirTypeOK
<1>3. OkCoversRequest'
    <2>1. code[r] # 1
        BY DEF ReadClock, RequestInv
    <2>. QED
        BY <2>1 DEF OkCoversRequest, dirVars, Uid, ReadClock, PortalTypeOK
<1>. QED
    BY <1>1, <1>2, <1>3

(* ldap_modify or ldap_add: with an effect only if the server performed the
   write, and with code 1 only if it also said so.                         *)
LEMMA WriteInv ==
    ASSUME PortalInv, NEW r \in Requests, NEW n \in {-2, 1},
           page[r] \in {"ldap_modify", "ldap_add"},
           \/ DirStore(Uid(r), cert[r], hoy[r])
           \/ (UNCHANGED dirVars /\ n = -2),
           Finish(r, n), failed' \in {failed, failed \cup {r}}
    PROVE  PortalInv'
<1>. USE DEF PortalInv
<1>0. Uid(r) \in Uids /\ cert[r] \in Certs /\ hoy[r] \in Nat
    BY UidType DEF RequestInv, Writing, PortalTypeOK
<1>1. DirTypeOK' /\ now' = now
    BY <1>0, DirStoreType DEF PortalTypeOK, DirTypeOK, dirVars, DirStore
<1>2. PortalTypeOK'
    <2>1. page' \in [Requests -> {"new"} \cup Active \cup Ended]
        BY DEF PortalTypeOK, TurnTo, Active, Finish
    <2>2. code' \in [Requests -> {-3, -2, -1, 0, 1}]
        BY DEF PortalTypeOK, Finish
    <2>. QED
        BY <1>1, <2>1, <2>2 DEF PortalTypeOK, Finish
<1>3. RequestInv'
    BY <1>1 DEF RequestInv, Writing, Finish, TurnTo, PortalTypeOK
<1>4. OkCoversRequest'
    <2>. SUFFICES ASSUME NEW q \in Requests, code'[q] = 1
                  PROVE  /\ hoy[q] >= began[q]
                         /\ <<Uid(q), cert[q], hoy[q] + SessionTime>> \in granted'
        BY DEF OkCoversRequest, Finish, Uid
    <2>1. CASE q = r
        <3>1. n = 1
            BY <2>1 DEF Finish, PortalTypeOK
        <3>2. granted' = granted \cup {<<Uid(r), cert[r], hoy[r] + SessionTime>>}
            BY <3>1 DEF DirStore
        <3>3. hoy[r] >= began[r]
            BY DEF RequestInv, PortalTypeOK
        <3>. QED
            BY <2>1, <3>2, <3>3
    <2>2. CASE q # r
        <3>1. code[q] = 1
            BY <2>2 DEF Finish, PortalTypeOK
        <3>2. granted \subseteq granted'
            BY DEF DirStore, dirVars
        <3>. QED
            BY <3>1, <3>2 DEF OkCoversRequest
    <2>. QED
        BY <2>1, <2>2
<1>. QED
    BY <1>2, <1>3, <1>4
(* Every step of every request.                                            *)
LEMMA StepInv ==
    ASSUME PortalInv, NEW r \in Requests, Step(r)
    PROVE  PortalInv'
<1>1. CASE DoitSearch(r)
    BY <1>1, PageMoveInv DEF DoitSearch
<1>2. CASE DoitSearchFails(r)
    BY <1>2, PageMoveInv DEF DoitSearchFails
<1>3. CASE ReadClock(r)
    BY <1>3, ReadClockInv
<1>4. CASE Write(r)
    BY <1>4, WriteInv DEF Write
<1>5. CASE WriteLost(r)
    BY <1>5, WriteInv DEF WriteLost
<1>6. CASE WriteReplyLost(r)
    BY <1>6, WriteInv DEF WriteReplyLost
<1>7. CASE Show(r)
    BY <1>7, PageMoveInv DEF Show
<1>8. CASE LdapDelete(r)
    BY <1>8, PageMoveInv DEF LdapDelete
<1>9. CASE Die(r)
    BY <1>9, PageMoveInv DEF Die
<1>. QED
    BY <1>1, <1>2, <1>3, <1>4, <1>5, <1>6, <1>7, <1>8, <1>9 DEF Step

(* A stuttering step.                                                      *)
LEMMA PortalStutter ==
    ASSUME PortalInv, UNCHANGED portalVars
    PROVE  PortalInv'
<1>1. PortalTypeOK'
    BY DEF PortalInv, PortalTypeOK, DirTypeOK, portalVars, dirVars, reqVars
<1>2. RequestInv'
    BY DEF PortalInv, RequestInv, portalVars, dirVars, reqVars
<1>3. OkCoversRequest'
    BY DEF PortalInv, OkCoversRequest, portalVars, dirVars, reqVars, Uid
<1>. QED
    BY <1>1, <1>2, <1>3 DEF PortalInv

(* Every step of the page.                                                 *)
LEMMA PortalNextInv ==
    ASSUME PortalInv, [PortalNext]_portalVars
    PROVE  PortalInv'
BY TickInv, ArriveInv, StepInv, PortalStutter DEF PortalNext

(***************************************************************************)
(* However requests interleave and LDAP calls fail, the page keeps its     *)
(* types and the inductive invariant, and with it OkCoversRequest: an "ok" *)
(* of anadir_usuario stands for a stored session.                          *)
(***************************************************************************)
THEOREM PortalSafety == PortalSpec => [](PortalTypeOK /\ OkCoversRequest)
<1>1. PortalInv /\ [PortalNext]_portalVars => PortalInv'
    BY PortalNextInv
<1>2. PortalInv => PortalTypeOK /\ OkCoversRequest
    BY DEF PortalInv
<1>. QED
    BY PortalInitInv, <1>1, <1>2, PTL DEF PortalSpec

(* Seen from the directory, a step of a request stores a session that began
   no later than now, or nothing: what modify, add and delete amount to.   *)
LEMMA PortalStepIsDirStep ==
    ASSUME PortalInv, [PortalNext]_portalVars
    PROVE  [DirNext]_dirVars
<1>1. CASE Tick
    BY <1>1 DEF DirNext
<1>2. ASSUME NEW r \in Requests, Arrive(r)
      PROVE  UNCHANGED dirVars
    BY <1>2, Zenon DEF Arrive, ClosePage, LoginPage, OpenPage
<1>3. ASSUME NEW r \in Requests, page[r] \in {"ldap_modify", "ldap_add"},
             DirStore(Uid(r), cert[r], hoy[r])
      PROVE  DirNext
    <2>1. Uid(r) \in Uids
        BY UidType DEF PortalInv
    <2>2. cert[r] \in Certs /\ hoy[r] \in 0 .. now
        BY <1>3 DEF PortalInv, RequestInv, Writing, PortalTypeOK, DirTypeOK
    <2>. QED
        BY <1>3, <2>1, <2>2 DEF DirNext
<1>4. ASSUME NEW r \in Requests, Step(r)
      PROVE  DirNext \/ UNCHANGED dirVars
    <2>1. CASE Write(r)
        BY <2>1, <1>3 DEF Write
    <2>2. CASE WriteReplyLost(r)
        BY <2>2, <1>3 DEF WriteReplyLost
    <2>. QED
        BY <1>4, <2>1, <2>2 DEF Step, DoitSearch, DoitSearchFails, ReadClock,
           WriteLost, Show, LdapDelete, Die
<1>. QED
    BY <1>1, <1>2, <1>4 DEF PortalNext, portalVars

(***************************************************************************)
(* The login page implements the abstract directory: nothing it does       *)
(* stores a text that check_certificate refused, or opens a session that   *)
(* lasts longer than $minutes_timeout from a moment already past.          *)
(***************************************************************************)
THEOREM PortalImplementsDirectory == PortalSpec => DirSpec
<1>1. PortalInit => DirInit
    BY Zenon DEF PortalInit
<1>2. PortalInv /\ [PortalNext]_portalVars => PortalInv'
    BY PortalNextInv
<1>3. PortalInv /\ [PortalNext]_portalVars => [DirNext]_dirVars
    BY PortalStepIsDirStep
<1>. QED
    BY PortalInitInv, <1>1, <1>2, <1>3, PTL DEF PortalSpec, DirSpec

(* The bound on sessions, carried over from the directory to the page.     *)
THEOREM PortalSessionBound == PortalSpec => []SessionBound
<1>1. DirTypeOK /\ SessionBound => SessionBound
    OBVIOUS
<1>. QED
    BY PortalImplementsDirectory, DirSafety, <1>1, PTL

(* What a page has brought, and for whom, stays once its write was tried.   *)
LEMMA SettledStays ==
    ASSUME PortalInv, [PortalNext]_portalVars, NEW q \in Requests,
           page[q] \in {"show", "done", "died"}
    PROVE  /\ page'[q] \in {"show", "done", "died"}
           /\ Uid(q)' = Uid(q) /\ cert'[q] = cert[q] /\ hoy'[q] = hoy[q]
<1>. USE DEF PortalInv, PortalTypeOK
<1>1. CASE (Tick /\ UNCHANGED reqVars) \/ UNCHANGED portalVars
    BY <1>1 DEF reqVars, portalVars, Uid
<1>2. ASSUME NEW r \in Requests, Arrive(r)
      PROVE  /\ q # r /\ page'[q] = page[q] /\ who'[q] = who[q]
             /\ cert'[q] = cert[q] /\ hoy'[q] = hoy[q]
    <2>1. page[r] = "new"
        BY <1>2, Zenon DEF Arrive, ClosePage, LoginPage, OpenPage
    <2>2. ASSUME NEW id, ClosePage(r, id)
          PROVE  page'[q] = page[q] /\ who'[q] = who[q] /\ cert'[q] = cert[q] /\ hoy'[q] = hoy[q]
        BY <2>1, <2>2 DEF ClosePage, OpenPage
    <2>3. ASSUME NEW id, NEW posted, NEW header, LoginPage(r, id, posted, header)
          PROVE  page'[q] = page[q] /\ who'[q] = who[q] /\ cert'[q] = cert[q] /\ hoy'[q] = hoy[q]
        BY <2>1, <2>3, Zenon DEF LoginPage, OpenPage
    <2>. QED
        BY <1>2, <2>1, <2>2, <2>3 DEF Arrive
<1>3. ASSUME NEW r \in Requests, Step(r)
      PROVE  /\ page'[q] \in {"show", "done", "died"} /\ who' = who
             /\ cert' = cert /\ hoy'[q] = hoy[q]
    <2>1. CASE ReadClock(r)
        BY <2>1 DEF ReadClock, TurnTo
    <2>2. CASE ~ReadClock(r)
        BY <1>3, <2>2 DEF Step, DoitSearch, DoitSearchFails, Write, WriteLost,
           WriteReplyLost, Finish, Show, LdapDelete, Die, TurnTo
    <2>. QED
        BY <2>1, <2>2
<1>. QED
    BY <1>1, <1>2, <1>3 DEF PortalNext, Uid

(* The only steps that add to the history are the writes, and the page that
   writes brought what is written.                                         *)
LEMMA NewIsRequested ==
    ASSUME PortalInv, [PortalNext]_portalVars, NEW g \in granted' \ granted
    PROVE  \E r \in Requests : /\ g = <<Uid(r)', cert'[r], hoy'[r] + SessionTime>>
                              /\ page'[r] \in {"show", "done", "died"}
<1>1. granted' # granted
    OBVIOUS
<1>2. PICK r \in Requests : Step(r)
    BY <1>1, Zenon DEF PortalNext, Tick, portalVars, dirVars, Arrive, ClosePage, LoginPage, OpenPage
<1>3. /\ DirStore(Uid(r), cert[r], hoy[r])
      /\ page' = [page EXCEPT ![r] = "show"] /\ UNCHANGED <<who, cert, hoy>>
    BY <1>1, <1>2 DEF Step, DoitSearch, DoitSearchFails, ReadClock, Write, WriteLost,
       WriteReplyLost, Show, LdapDelete, Die, dirVars, Finish, TurnTo
<1>4. page'[r] = "show" /\ Uid(r)' = Uid(r)
    BY <1>3 DEF PortalInv, PortalTypeOK, Uid
<1>. QED
    BY <1>3, <1>4 DEF DirStore

LEMMA RequestedStep ==
    ASSUME PortalInv, GrantedWasRequested, [PortalNext]_portalVars
    PROVE  GrantedWasRequested'
<1>. SUFFICES ASSUME NEW g \in granted'
              PROVE  \E r \in Requests :
                         /\ g = <<Uid(r)', cert'[r], hoy'[r] + SessionTime>>
                         /\ page'[r] \in {"show", "done", "died"}
    BY DEF GrantedWasRequested, Uid
<1>1. CASE g \in granted
    <2>1. PICK r \in Requests : /\ g = <<Uid(r), cert[r], hoy[r] + SessionTime>>
                               /\ page[r] \in {"show", "done", "died"}
        BY <1>1 DEF GrantedWasRequested
    <2>. QED
        BY <2>1, SettledStays
<1>2. CASE g \notin granted
    BY <1>2, NewIsRequested
<1>. QED
    BY <1>1, <1>2

(***************************************************************************)
(* Whoever else uses the page and whatever LDAP answers get lost, every    *)
(* session that was ever stored was asked for by a request that brought    *)
(* that very key for that account and read the clock it counts from.       *)
(***************************************************************************)
THEOREM PortalRequested == PortalSpec => []GrantedWasRequested
<1>1. PortalInit => GrantedWasRequested
    BY Zenon DEF PortalInit, DirInit, GrantedWasRequested
<1>2. PortalInv /\ [PortalNext]_portalVars => PortalInv'
    BY PortalNextInv
<1>3. PortalInv /\ GrantedWasRequested /\ [PortalNext]_portalVars => GrantedWasRequested'
    BY RequestedStep
<1>. QED
    BY PortalInitInv, <1>1, <1>2, <1>3, PTL DEF PortalSpec

(***************************************************************************)
(* The page keeps its types.                                               *)
(***************************************************************************)
THEOREM PortalTypes == PortalSpec => []PortalTypeOK
<1>1. PortalTypeOK /\ OkCoversRequest => PortalTypeOK
    OBVIOUS
<1>. QED
    BY PortalSafety, <1>1, PTL
-----------------------------------------------------------------------------
(* One request at a time. *)

(* The lock of session_start: two requests of one browser are never both
   between their first and their last line.                                *)
OneAtATime ==
    \A q, r \in Requests :
        sess[q] = sess[r] /\ page[q] \in Active /\ page[r] \in Active => q = r

(* A step moves one request, and one that has not begun waits for the lock. *)
LEMMA PageSteps ==
    ASSUME PortalInv, [PortalNext]_portalVars
    PROVE  /\ sess' = sess
           /\ \/ UNCHANGED <<page, hoy, began>>
              \/ \E r \in Requests :
                    /\ \A q \in Requests \ {r} :
                          page'[q] = page[q] /\ hoy'[q] = hoy[q] /\ began'[q] = began[q]
                    /\ \/ page[r] \in Active /\ began' = began
                       \/ page[r] = "new" /\ SessionFree(r) /\ began'[r] = now
<1>. USE DEF PortalInv, PortalTypeOK
<1>1. CASE (Tick /\ UNCHANGED reqVars) \/ UNCHANGED portalVars
    BY <1>1 DEF reqVars, portalVars
<1>2. ASSUME NEW r \in Requests, Arrive(r)
      PROVE  /\ sess' = sess /\ page[r] = "new" /\ SessionFree(r) /\ began'[r] = now
             /\ \A q \in Requests \ {r} :
                   page'[q] = page[q] /\ hoy'[q] = hoy[q] /\ began'[q] = began[q]
    <2>1. PICK id : OpenPage(r, id) /\ \E l : page' = [page EXCEPT ![r] = l]
        BY <1>2, Zenon DEF Arrive, ClosePage, LoginPage
    <2>. QED
        BY <2>1 DEF OpenPage
<1>3. ASSUME NEW r \in Requests, Step(r)
      PROVE  /\ sess' = sess /\ page[r] \in Active /\ began' = began
             /\ \A q \in Requests \ {r} : page'[q] = page[q] /\ hoy'[q] = hoy[q]
    <2>1. /\ UNCHANGED <<sess, began>> /\ page[r] \in Active /\ \E l : TurnTo(r, l)
          /\ hoy' = hoy \/ hoy' = [hoy EXCEPT ![r] = now]
        BY <1>3 DEF Step, DoitSearch, DoitSearchFails, ReadClock, Write, WriteLost,
           WriteReplyLost, Finish, Show, LdapDelete, Die, Active
    <2>. QED
        BY <2>1 DEF TurnTo
<1>. QED
    BY <1>1, <1>2, <1>3 DEF PortalNext

LEMMA LockStep ==
    ASSUME PortalInv, OneAtATime, [PortalNext]_portalVars
    PROVE  OneAtATime'
<1>1. CASE page' = page
    BY <1>1, PageSteps DEF OneAtATime
<1>2. ASSUME NEW r \in Requests,
             \A q \in Requests \ {r} : page'[q] = page[q],
             page[r] \in Active \/ (page[r] = "new" /\ SessionFree(r))
      PROVE  OneAtATime'
    BY <1>2, PageSteps DEF OneAtATime, SessionFree
<1>. QED
    BY <1>1, <1>2, PageSteps

(***************************************************************************)
(* The lock works: requests of one browser run one after the other, so     *)
(* only requests of different browsers interleave.                         *)
(***************************************************************************)
THEOREM PortalSessionLock == PortalSpec => []OneAtATime
<1>1. PortalInit => OneAtATime
    BY Zenon DEF PortalInit, OneAtATime, Active
<1>2. PortalInv /\ [PortalNext]_portalVars => PortalInv'
    BY PortalNextInv
<1>3. PortalInv /\ OneAtATime /\ [PortalNext]_portalVars => OneAtATime'
    BY LockStep
<1>. QED
    BY PortalInitInv, <1>1, <1>2, <1>3, PTL DEF PortalSpec
-----------------------------------------------------------------------------
(* What other browsers can do to a request. *)

(* The directory changes only when a request writes what it can write, and
   that request has stored its session then.                               *)
LEMMA DirChanges ==
    ASSUME PortalInv, [PortalNext]_portalVars, dir' # dir
    PROVE  \E r \in Requests :
               /\ page[r] \in {"ldap_modify", "ldap_add"} /\ Writable(r) /\ page'[r] = "show"
               /\ dir' = [dir EXCEPT ![Uid(r)] =
                             [key |-> cert[r], timeout |-> hoy[r] + SessionTime]]
               /\ Uid(r)' = Uid(r) /\ Stored(r)'
<1>1. PICK r \in Requests : Step(r)
    BY Zenon DEF PortalNext, Tick, portalVars, dirVars, Arrive, ClosePage, LoginPage, OpenPage
<1>2. /\ page[r] \in {"ldap_modify", "ldap_add"} /\ Writable(r)
      /\ DirStore(Uid(r), cert[r], hoy[r]) /\ \E n : Finish(r, n)
    BY <1>1 DEF Step, DoitSearch, DoitSearchFails, ReadClock, Write, WriteLost,
       WriteReplyLost, Show, LdapDelete, Die, dirVars
<1>3. page'[r] = "show" /\ UNCHANGED <<who, cert, hoy>>
    BY <1>2 DEF Finish, TurnTo, PortalInv, PortalTypeOK
<1>4. Uid(r)' = Uid(r)
    BY <1>3 DEF Uid
<1>5. Stored(r)'
    BY <1>2, <1>3, <1>4 DEF DirStore, Stored
<1>. QED
    BY <1>2, <1>3, <1>4, <1>5 DEF DirStore

(* No step of the page takes an entry out of the directory, or a session
   out of its history.                                                     *)
LEMMA EntriesStay ==
    ASSUME PortalInv, [PortalNext]_portalVars, NEW u \in Uids, dir[u] # NoEntry
    PROVE  dir'[u] # NoEntry
<1>. SUFFICES ASSUME dir' # dir PROVE dir'[u] # NoEntry
    OBVIOUS
<1>1. PICK r \in Requests :
               /\ page[r] \in {"ldap_modify", "ldap_add"}
               /\ dir' = [dir EXCEPT ![Uid(r)] =
                             [key |-> cert[r], timeout |-> hoy[r] + SessionTime]]
    BY DirChanges
<1>2. cert[r] \in Certs /\ hoy[r] + SessionTime \in Nat
    BY <1>1, DirAssumption DEF PortalInv, PortalTypeOK, RequestInv, Writing
<1>3. [key |-> cert[r], timeout |-> hoy[r] + SessionTime] # NoEntry
    BY <1>2, DirAssumption
<1>. QED
    BY <1>1, <1>3 DEF PortalInv, PortalTypeOK, DirTypeOK

LEMMA GrantedStays ==
    ASSUME PortalInv, [PortalNext]_portalVars
    PROVE  granted \subseteq granted'
BY PortalStepIsDirStep DEF DirNext, Tick, DirStore, DirDelete, dirVars

(* A failed call stays failed.                                             *)
LEMMA FailedStays ==
    ASSUME PortalInv, [PortalNext]_portalVars
    PROVE  failed \subseteq failed'
<1>1. CASE (Tick /\ UNCHANGED reqVars) \/ UNCHANGED portalVars
    BY <1>1 DEF reqVars, portalVars
<1>2. ASSUME NEW r \in Requests, Arrive(r)
      PROVE  failed' = failed
    BY <1>2, Zenon DEF Arrive, ClosePage, LoginPage, OpenPage
<1>3. ASSUME NEW r \in Requests, Step(r)
      PROVE  failed \subseteq failed'
    BY <1>3 DEF Step, DoitSearch, DoitSearchFails, ReadClock, Write, WriteLost,
       WriteReplyLost, Show, LdapDelete, Die
<1>. QED
    BY <1>1, <1>2, <1>3 DEF PortalNext

(* Another browser has stored a session for the account of r.              *)
Raced(r) == \E q \in Requests : sess[q] # sess[r] /\ Uid(q) = Uid(r) /\ Stored(q)

LEMMA RacedStays ==
    ASSUME PortalInv, [PortalNext]_portalVars, NEW r \in Requests, Raced(r),
           Uid(r)' = Uid(r)
    PROVE  Raced(r)'
<1>1. PICK q \in Requests : sess[q] # sess[r] /\ Uid(q) = Uid(r) /\ Stored(q)
    BY DEF Raced
<1>2. /\ page'[q] \in {"show", "done", "died"}
      /\ Uid(q)' = Uid(q) /\ cert'[q] = cert[q] /\ hoy'[q] = hoy[q]
    BY <1>1, SettledStays DEF Stored
<1>3. Stored(q)'
    BY <1>1, <1>2, GrantedStays DEF Stored
<1>4. sess' = sess
    BY PageSteps
<1>. QED
    BY <1>1, <1>2, <1>3, <1>4 DEF Raced

(* Where a request that is about to write comes from.                      *)
LEMMA PageComesFrom ==
    ASSUME PortalInv, [PortalNext]_portalVars, NEW r \in Requests, page'[r] \in Writing
    PROVE  \/ page'[r] = page[r] /\ Uid(r)' = Uid(r)
           \/ page'[r] = "search"
           \/ /\ page'[r] = "modify" /\ dir[Uid(r)] # NoEntry
              /\ dir' = dir /\ Uid(r)' = Uid(r)
           \/ /\ page'[r] = "add" /\ (dir[Uid(r)] = NoEntry \/ r \in failed')
              /\ dir' = dir /\ Uid(r)' = Uid(r)
           \/ /\ <<page[r], page'[r]>> \in {<<"modify", "ldap_modify">>, <<"add", "ldap_add">>}
              /\ dir' = dir /\ Uid(r)' = Uid(r)
<1>. USE DEF PortalInv, PortalTypeOK, Writing
<1>1. CASE (Tick /\ UNCHANGED reqVars) \/ UNCHANGED portalVars
    BY <1>1 DEF reqVars, portalVars, Uid
<1>2. ASSUME NEW q \in Requests, Arrive(q)
      PROVE  (page'[r] = page[r] /\ Uid(r)' = Uid(r)) \/ page'[r] = "search"
    <2>1. /\ \E u : who' = [who EXCEPT ![q] = u]
          /\ \E l \in {"delete", "search", "show"} : page' = [page EXCEPT ![q] = l]
        BY <1>2, Zenon DEF Arrive, ClosePage, LoginPage, OpenPage
    <2>. QED
        BY <2>1 DEF Uid
<1>3. ASSUME NEW q \in Requests, Step(q), q # r
      PROVE  page'[r] = page[r] /\ Uid(r)' = Uid(r)
    <2>1. who' = who /\ \E l : TurnTo(q, l)
        BY <1>3 DEF Step, DoitSearch, DoitSearchFails, ReadClock, Write, WriteLost,
           WriteReplyLost, Finish, Show, LdapDelete, Die
    <2>. QED
        BY <1>3, <2>1 DEF TurnTo, Uid
<1>4. CASE DoitSearch(r)
    BY <1>4 DEF DoitSearch, TurnTo, Uid, dirVars
<1>5. CASE DoitSearchFails(r)
    BY <1>5 DEF DoitSearchFails, TurnTo, Uid, dirVars
<1>6. CASE ReadClock(r)
    BY <1>6 DEF ReadClock, TurnTo, Uid, dirVars
<1>7. CASE Write(r) \/ WriteLost(r) \/ WriteReplyLost(r) \/ Show(r) \/ LdapDelete(r) \/ Die(r)
    <2>1. page'[r] \in {"show", "done", "closed", "died"}
        BY <1>7 DEF Write, WriteLost, WriteReplyLost, Finish, Show, LdapDelete, Die, TurnTo
    <2>. QED
        BY <2>1
<1>. QED
    BY <1>1, <1>2, <1>3, <1>4, <1>5, <1>6, <1>7 DEF PortalNext, Step

(* A request that gets the code -2 had a failed call, or could not write.   *)
LEMMA CodeComesFrom ==
    ASSUME PortalInv, [PortalNext]_portalVars, NEW r \in Requests,
           code'[r] = -2, code[r] # -2
    PROVE  /\ page'[r] = "show" /\ Uid(r)' = Uid(r)
           /\ \/ r \in failed'
              \/ page[r] \in {"ldap_modify", "ldap_add"} /\ ~Writable(r)
<1>. USE DEF PortalInv, PortalTypeOK
<1>1. (Tick /\ UNCHANGED reqVars) \/ UNCHANGED portalVars => FALSE
    BY DEF reqVars, portalVars
<1>2. ASSUME NEW q \in Requests, Arrive(q)
      PROVE  FALSE
    <2>1. code' = code \/ \E n \in {-3, 0, -1} : code' = [code EXCEPT ![q] = n]
        BY <1>2 DEF Arrive, ClosePage, LoginPage
    <2>. QED
        BY <2>1
<1>3. ASSUME NEW q \in Requests, Step(q)
      PROVE  /\ page'[r] = "show" /\ Uid(r)' = Uid(r)
             /\ \/ r \in failed'
                \/ page[r] \in {"ldap_modify", "ldap_add"} /\ ~Writable(r)
    <2>1. Write(q) \/ WriteLost(q) \/ WriteReplyLost(q)
        BY <1>3 DEF Step, DoitSearch, DoitSearchFails, ReadClock, Show, LdapDelete, Die
    <2>2. PICK n : Finish(q, n)
        BY <2>1 DEF Write, WriteLost, WriteReplyLost
    <2>3. q = r /\ n = -2 /\ page'[r] = "show" /\ Uid(r)' = Uid(r)
        BY <2>2 DEF Finish, TurnTo, Uid
    <2>4. CASE Write(r)
        <3>1. page[r] \in {"ldap_modify", "ldap_add"}
              /\ code' = [code EXCEPT ![r] = IF Writable(r) THEN 1 ELSE -2]
            BY <2>4 DEF Write, Finish
        <3>. QED
            BY <3>1, <2>3
    <2>5. CASE WriteLost(r) \/ WriteReplyLost(r)
        BY <2>5, <2>3 DEF WriteLost, WriteReplyLost
    <2>. QED
        BY <2>1, <2>3, <2>4, <2>5
<1>. QED
    BY <1>1, <1>2, <1>3 DEF PortalNext

(* A request that found an entry still has one; one that found none has
   none, unless a call failed or another browser came in between; and the
   refused ones are among the latter.                                      *)
RaceInv ==
    \A r \in Requests :
        /\ page[r] \in {"modify", "ldap_modify"} => dir[Uid(r)] # NoEntry
        /\ page[r] \in {"add", "ldap_add"} =>
               dir[Uid(r)] = NoEntry \/ r \in failed \/ Raced(r)
        /\ code[r] = -2 =>
               /\ page[r] \in {"show", "done", "died"}
               /\ r \in failed \/ Raced(r)

(* Between the search and the write of r only another browser's request can
   fill the directory.                                                     *)
LEMMA EntryRaced ==
    ASSUME PortalInv, OneAtATime, [PortalNext]_portalVars, NEW r \in Requests,
           page[r] \in {"add", "ldap_add"}, page'[r] # "show", Uid(r)' = Uid(r),
           dir[Uid(r)] = NoEntry, dir'[Uid(r)] # NoEntry
    PROVE  Raced(r)'
<1>1. PICK q \in Requests :
               /\ page[q] \in {"ldap_modify", "ldap_add"} /\ page'[q] = "show"
               /\ dir' = [dir EXCEPT ![Uid(q)] =
                             [key |-> cert[q], timeout |-> hoy[q] + SessionTime]]
               /\ Uid(q)' = Uid(q) /\ Stored(q)'
    BY DirChanges
<1>2. Uid(q) = Uid(r)
    BY <1>1 DEF PortalInv, PortalTypeOK, DirTypeOK
<1>3. sess[q] # sess[r] /\ sess' = sess
    BY <1>1, PageSteps DEF OneAtATime, Active
<1>. QED
    BY <1>1, <1>2, <1>3 DEF Raced

LEMMA RaceStep ==
    ASSUME PortalInv, OneAtATime, RaceInv, [PortalNext]_portalVars
    PROVE  RaceInv'
<1>. SUFFICES ASSUME NEW r \in Requests
              PROVE  /\ page'[r] \in {"modify", "ldap_modify"} => dir'[Uid(r)'] # NoEntry
                     /\ page'[r] \in {"add", "ldap_add"} =>
                            dir'[Uid(r)'] = NoEntry \/ r \in failed' \/ Raced(r)'
                     /\ code'[r] = -2 =>
                            /\ page'[r] \in {"show", "done", "died"}
                            /\ r \in failed' \/ Raced(r)'
    BY DEF RaceInv
<1>0. Uid(r) \in Uids
    BY UidType DEF PortalInv
<1>1. ASSUME page'[r] \in {"modify", "ldap_modify"}
      PROVE  dir'[Uid(r)'] # NoEntry
    <2>1. Uid(r)' = Uid(r) /\ dir[Uid(r)] # NoEntry
        BY <1>1, PageComesFrom DEF RaceInv, Writing
    <2>. QED
        BY <1>0, <2>1, EntriesStay
<1>2. ASSUME page'[r] \in {"add", "ldap_add"}
      PROVE  dir'[Uid(r)'] = NoEntry \/ r \in failed' \/ Raced(r)'
    <2>1. /\ Uid(r)' = Uid(r)
          /\ \/ dir' = dir /\ (dir[Uid(r)] = NoEntry \/ r \in failed')
             \/ page[r] \in {"add", "ldap_add"}
        BY <1>2, PageComesFrom DEF Writing
    <2>2. CASE page[r] \in {"add", "ldap_add"} /\ dir[Uid(r)] = NoEntry
        BY <1>2, <2>1, <2>2, EntryRaced
    <2>3. CASE page[r] \in {"add", "ldap_add"} /\ (r \in failed \/ Raced(r))
        BY <2>1, <2>3, FailedStays, RacedStays
    <2>. QED
        BY <2>1, <2>2, <2>3 DEF RaceInv
<1>3. ASSUME code'[r] = -2
      PROVE  /\ page'[r] \in {"show", "done", "died"}
             /\ r \in failed' \/ Raced(r)'
    <2>1. CASE code[r] = -2
        BY <2>1, SettledStays, FailedStays, RacedStays DEF RaceInv
    <2>2. CASE code[r] # -2
        <3>1. /\ page'[r] = "show" /\ Uid(r)' = Uid(r)
              /\ \/ r \in failed'
                 \/ page[r] \in {"ldap_modify", "ldap_add"} /\ ~Writable(r)
            BY <1>3, <2>2, CodeComesFrom
        <3>2. ASSUME page[r] \in {"ldap_modify", "ldap_add"}, ~Writable(r)
              PROVE  r \in failed \/ Raced(r)
            BY <3>2 DEF RaceInv, Writable
        <3>. QED
            BY <3>1, <3>2, FailedStays, RacedStays
    <2>. QED
        BY <2>1, <2>2
<1>. QED
    BY <1>1, <1>2, <1>3

(***************************************************************************)
(* A request that gets "there was an error" (-2) had a failed LDAP call,   *)
(* or a request of another browser stored a session for the same account:  *)
(* requests of one browser never refuse each other.                        *)
(***************************************************************************)
THEOREM PortalRefusedOnlyByRace == PortalSpec => []RefusedOnlyByRace
<1>1. PortalInit => OneAtATime /\ RaceInv
    <2>. SUFFICES ASSUME PortalInit PROVE OneAtATime /\ RaceInv
        OBVIOUS
    <2>1. \A r \in Requests : page[r] = "new" /\ code[r] = 0
        BY DEF PortalInit
    <2>. QED
        BY <2>1 DEF OneAtATime, RaceInv, Active
<1>2. PortalInv /\ [PortalNext]_portalVars => PortalInv'
    BY PortalNextInv
<1>3. PortalInv /\ OneAtATime /\ RaceInv /\ [PortalNext]_portalVars => OneAtATime' /\ RaceInv'
    BY LockStep, RaceStep
<1>4. RaceInv => RefusedOnlyByRace
    BY Zenon DEF RaceInv, RefusedOnlyByRace, Raced
<1>. QED
    BY PortalInitInv, <1>1, <1>2, <1>3, <1>4, PTL DEF PortalSpec
-----------------------------------------------------------------------------
(* When a session's end moves back. *)

(* A request begins after those of its browser that are over read the clock. *)
TurnInv ==
    \A q, r \in Requests :
        q # r /\ sess[q] = sess[r] /\ page[q] \in Ended /\ page[r] \in Active
            => hoy[q] <= began[r]

LEMMA TurnStep ==
    ASSUME PortalInv, OneAtATime, TurnInv, [PortalNext]_portalVars
    PROVE  TurnInv'
<1>. SUFFICES ASSUME NEW q \in Requests, NEW r \in Requests, q # r, sess'[q] = sess'[r],
                     page'[q] \in Ended, page'[r] \in Active
              PROVE  hoy'[q] <= began'[r]
    BY DEF TurnInv
<1>1. sess[q] = sess[r]
    BY PageSteps
<1>2. Active \cap Ended = {}
    BY DEF Active, Ended
<1>3. CASE UNCHANGED <<page, hoy, began>>
    BY <1>1, <1>3 DEF TurnInv
<1>4. ASSUME NEW m \in Requests,
             \A p \in Requests \ {m} :
                 page'[p] = page[p] /\ hoy'[p] = hoy[p] /\ began'[p] = began[p],
             page[m] \in Active /\ began' = began
      PROVE  hoy'[q] <= began'[r]
    <2>1. m # q
        BY <1>1, <1>2, <1>4 DEF OneAtATime
    <2>. QED
        BY <1>1, <1>2, <1>4, <2>1 DEF TurnInv
<1>5. ASSUME NEW m \in Requests,
             \A p \in Requests \ {m} :
                 page'[p] = page[p] /\ hoy'[p] = hoy[p] /\ began'[p] = began[p],
             page[m] = "new" /\ SessionFree(m) /\ began'[m] = now
      PROVE  hoy'[q] <= began'[r]
    <2>1. m # q
        BY <1>1, <1>5 DEF SessionFree
    <2>2. hoy[q] <= now
        BY DEF PortalInv, RequestInv
    <2>. QED
        BY <1>1, <1>5, <2>1, <2>2 DEF TurnInv
<1>. QED
    BY <1>3, <1>4, <1>5, PageSteps

LEMMA EarlierStep ==
    ASSUME PortalInv, SessionBound, GrantedWasRequested, OneAtATime, TurnInv,
           [PortalNext]_portalVars, NEW u \in Uids,
           dir[u] # NoEntry, dir'[u].timeout < dir[u].timeout
    PROVE  \E r, q \in Requests :
               /\ page[r] = "ldap_modify" /\ Uid(r) = u /\ page'[r] = "show"
               /\ dir'[u].timeout = hoy[r] + SessionTime /\ began[r] <= hoy[r]
               /\ sess[q] # sess[r] /\ Uid(q) = u /\ Stored(q)
               /\ dir[u].timeout = hoy[q] + SessionTime
<1>. USE DEF PortalInv, PortalTypeOK
<1>1. dir[u].timeout \in Nat
    <2>1. dir[u] \in Entries
        BY DEF DirTypeOK
    <2>. QED
        BY <2>1 DEF Entries
<1>2. dir'[u] # dir[u]
    <2>1. ~(dir[u].timeout < dir[u].timeout)
        BY <1>1
    <2>. QED
        BY <2>1
<1>3. PICK r \in Requests :
               /\ page[r] \in {"ldap_modify", "ldap_add"} /\ Writable(r) /\ page'[r] = "show"
               /\ dir' = [dir EXCEPT ![Uid(r)] =
                             [key |-> cert[r], timeout |-> hoy[r] + SessionTime]]
    BY <1>2, DirChanges
<1>4. Uid(r) = u /\ dir'[u].timeout = hoy[r] + SessionTime
    BY <1>2, <1>3 DEF DirTypeOK
<1>5. page[r] = "ldap_modify" /\ began[r] <= hoy[r]
    BY <1>3, <1>4 DEF Writable, RequestInv
<1>6. <<u, dir[u].key, dir[u].timeout>> \in granted
    BY DEF SessionBound
<1>7. PICK q \in Requests :
               /\ <<u, dir[u].key, dir[u].timeout>> = <<Uid(q), cert[q], hoy[q] + SessionTime>>
               /\ page[q] \in {"show", "done", "died"}
    BY <1>6 DEF GrantedWasRequested
<1>8. Uid(q) = u /\ dir[u].timeout = hoy[q] + SessionTime /\ Stored(q)
    BY <1>6, <1>7 DEF Stored
<1>9. hoy[r] < hoy[q]
    BY <1>4, <1>8, DirAssumption
<1>10. sess[q] # sess[r]
    <2>. SUFFICES ASSUME sess[q] = sess[r] PROVE FALSE
        OBVIOUS
    <2>1. q # r /\ page[r] \in Active
        BY <1>5, <1>7 DEF Active
    <2>2. page[q] \in Ended
        BY <1>7, <2>1 DEF OneAtATime, Active, Ended
    <2>. QED
        BY <1>5, <1>9, <2>1, <2>2 DEF TurnInv
<1>. QED
    BY <1>3, <1>4, <1>5, <1>8, <1>10

(***************************************************************************)
(* A write brings the end of a session forward only when its clock reading *)
(* is older than that of a request of another browser which has stored its *)
(* session already; requests of one browser write in the order in which    *)
(* they read the clock.                                                    *)
(***************************************************************************)
THEOREM PortalEarlierOnlyIfOvertaken == PortalSpec => EarlierOnlyIfOvertaken
<1>1. PortalInit => OneAtATime /\ TurnInv
    <2>. SUFFICES ASSUME PortalInit PROVE OneAtATime /\ TurnInv
        OBVIOUS
    <2>1. \A r \in Requests : page[r] = "new"
        BY DEF PortalInit
    <2>. QED
        BY <2>1 DEF OneAtATime, TurnInv, Active
<1>2. PortalInv /\ [PortalNext]_portalVars => PortalInv'
    BY PortalNextInv
<1>3. PortalInv /\ OneAtATime /\ TurnInv /\ [PortalNext]_portalVars => OneAtATime' /\ TurnInv'
    BY LockStep, TurnStep
<1>4. PortalSpec => []SessionBound /\ []GrantedWasRequested
    BY PortalSessionBound, PortalRequested, PTL
<1>5. PortalInv /\ SessionBound /\ GrantedWasRequested /\ OneAtATime /\ TurnInv
      /\ [PortalNext]_portalVars
      => [\A u \in Uids :
             dir[u] # NoEntry /\ dir'[u] # NoEntry /\ dir'[u].timeout < dir[u].timeout =>
             \E r, q \in Requests :
                 /\ page[r] = "ldap_modify" /\ Uid(r) = u /\ page'[r] = "show"
                 /\ dir'[u].timeout = hoy[r] + SessionTime /\ began[r] <= hoy[r]
                 /\ sess[q] # sess[r] /\ Uid(q) = u /\ Stored(q)
                 /\ dir[u].timeout = hoy[q] + SessionTime]_portalVars
    BY EarlierStep, Zenon
<1>. QED
    BY PortalInitInv, <1>1, <1>2, <1>3, <1>4, <1>5, PTL DEF PortalSpec, EarlierOnlyIfOvertaken
=============================================================================
