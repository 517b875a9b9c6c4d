------------------------ MODULE FederatedLoginProofs ------------------------
(***************************************************************************)
(* Theorems about user_key_allowed, for any number of sshd processes,      *)
(* users and keys, any order of the LDAP attributes and any contents of    *)
(* the uninitialised arrays that Uninit allows; then about the whole path  *)
(* of a federated login, where the theorems about the page and about the   *)
(* lookup are joined.  The page sees the steps of sshd as stuttering, and  *)
(* sshd sees the page as a directory.                                      *)
(***************************************************************************)
EXTENDS FederatedLogin, PortalProofs

(* The inductive invariant.  It holds at the start, and the directory, the
   start of a call and the plain moves keep it.                            *)

(* The directory has held text k for user u.                               *)
Held(u, k) == \E g \in granted : g[1] = u /\ g[2] = k

(* What a process carries from the directory to the file was held for its
   own user; everything else it may carry is no key.                       *)
ProcTraced ==
    \A p \in Procs :
        /\ rsa_key[p] \in Keys => Held(pw[p], rsa_key[p])
        /\ rsa_key2[p] \in Keys => Held(pw[p], rsa_key2[p])
        /\ entry[p] # NoEntry =>
               <<pw[p], entry[p].key, entry[p].timeout>> \in granted

FileTraced ==
    \A u \in Uids : \A l \in content[u] : l.text \in Keys => Held(u, l.text)

LoopInv ==
    \A p \in Procs : pc[p] = "attr" => attrs[p] # <<>> /\ entry[p] # NoEntry

(* A stream that is open on the named file has a named file.               *)
StreamInv ==
    \A p \in Procs : tmp_file[p] = "linked" => exists[pw[p]]

LookupInv ==
    /\ LookupTypeOK /\ SessionBound /\ LoopInv /\ StreamInv
    /\ ProcTraced /\ FileTraced
    /\ KeyProvenance /\ LinesHaveLiveWriter

(* Uninitialised arrays: what a text array and a timeout array may hold
   before get_rsa_key_ldap assigns them.                                   *)
LEMMA UninitText ==
    ASSUME NEW prev, NEW x \in Uninit("", prev)
    PROVE  x \in {"", Malformed, prev}
BY Zenon DEF Uninit

LEMMA UninitTime ==
    ASSUME NEW prev, NEW x \in Uninit(0, prev)
    PROVE  x \in {0, Malformed, prev}
BY DEF Uninit

(* An entry has a key and a timeout, in some order.                        *)
LEMMA OrderIsNotEmpty == ASSUME NEW o \in AttrOrders PROVE o # << >>
<1>1. "key" \in {o[i] : i \in DOMAIN o}
    BY LookupAssumption, Zenon
<1>2. PICK i \in DOMAIN o : TRUE
    BY <1>1, Zenon
<1>. QED
    BY <1>2

(* The list of attributes before a search.                                *)
LEMMA EmptyAttrs == << >> \in Seq({"key", "time", "other"})
OBVIOUS

(* What user_key_allowed returns for a key of the user's own files.        *)
LEMMA MembershipIsBoolean == ASSUME NEW x, NEW S PROVE (x \in S) \in BOOLEAN
OBVIOUS

(* Counting the calls of a process.                                        *)
LEMMA Increment ==
    ASSUME NEW f \in [Procs -> Nat], NEW p \in Procs
    PROVE  [f EXCEPT ![p] = @ + 1] \in [Procs -> Nat]
<1>1. f[p] \in Nat
    OBVIOUS
<1>2. f[p] + 1 \in Nat
    BY <1>1
<1>. QED
    BY <1>2

(* The first states.                                                       *)
LEMMA LookupInitInv == LookupInit => LookupInv
<1>. SUFFICES ASSUME LookupInit PROVE LookupInv
    OBVIOUS
<1>. USE DEF LookupInit
<1>1. DirTypeOK /\ SessionBound
    BY Zenon DEF DirInit, DirTypeOK, SessionBound
<1>2. LookupTypeOK
    <2>1. attrs \in [Procs -> Seq({"key", "time", "other"})]
        BY EmptyAttrs, Zenon
    <2>2. timeout \in [Procs -> Timeouts] /\ rsa_key \in [Procs -> Texts]
          /\ rsa_key2 \in [Procs -> Texts]
        BY Zenon DEF Timeouts, Texts
    <2>3. content \in [Uids -> SUBSET Lines]
        BY Zenon
    <2>. QED
        BY <1>1, <2>1, <2>2, <2>3, Zenon DEF LookupTypeOK
<1>3. LoopInv /\ StreamInv
    BY Zenon DEF LoopInv, StreamInv
<1>4. ProcTraced
    BY LookupAssumption, Zenon DEF ProcTraced
<1>5. FileTraced /\ LinesHaveLiveWriter
    BY Zenon DEF FileTraced, LinesHaveLiveWriter
<1>6. KeyProvenance
    BY Zenon DEF KeyProvenance
<1>. QED
    BY <1>1, <1>2, <1>3, <1>4, <1>5, <1>6, Zenon DEF LookupInv

(* The directory changes under the processes: what was held stays held.    *)
LEMMA DirStepInv ==
    ASSUME LookupInv, [DirNext]_dirVars, UNCHANGED lookupVars
    PROVE  LookupInv'
<1>. USE DEF LookupInv, lookupVars, bufVars, fileVars
<1>1. DirTypeOK' /\ SessionBound'
    BY DirNextType, DirNextBound DEF LookupTypeOK
<1>2. granted \subseteq granted'
    BY DEF DirNext, Tick, DirStore, DirDelete, dirVars
<1>3. LookupTypeOK'
    BY <1>1 DEF LookupTypeOK
<1>4. LoopInv' /\ StreamInv' /\ LinesHaveLiveWriter'
    BY DEF LoopInv, StreamInv, LinesHaveLiveWriter
<1>5. ProcTraced'
    BY <1>2 DEF ProcTraced, Held
<1>6. FileTraced'
    BY <1>2 DEF FileTraced, Held
<1>7. KeyProvenance'
    BY <1>2 DEF KeyProvenance
<1>. QED
    BY <1>1, <1>3, <1>4, <1>5, <1>6, <1>7

(* A step of p that leaves the lines of the files and every other process
   alone, and does not take p away from a line it has written.             *)
LEMMA FileFrame ==
    ASSUME LookupInv, NEW p \in Procs,
           pw' = pw, content' = content, granted' = granted,
           \A u \in Uids : exists[u] => exists'[u],
           \A q \in Procs : q # p => pc'[q] = pc[q],
           pc[p] \in {"verify", "unlink", "dead"}
              => pc'[p] \in {"verify", "unlink", "dead"}
    PROVE  FileTraced' /\ LinesHaveLiveWriter'
<1>1. FileTraced'
    BY DEF LookupInv, FileTraced, Held
<1>2. ASSUME NEW u \in Uids, NEW l \in content[u]
      PROVE  /\ exists'[u] /\ pw[l.by] = u
             /\ pc'[l.by] \in {"verify", "unlink", "dead"}
    <2>1. /\ exists[u] /\ pw[l.by] = u
          /\ pc[l.by] \in {"verify", "unlink", "dead"}
        BY DEF LookupInv, LinesHaveLiveWriter
    <2>2. l \in Lines
        BY DEF LookupInv, LookupTypeOK
    <2>3. l.by \in Procs
        BY <2>2 DEF Lines
    <2>. QED
        BY <2>1, <2>3
<1>. QED
    BY <1>1, <1>2 DEF LinesHaveLiveWriter

(* A step of p that leaves the arrays of every other process alone.        *)
LEMMA ProcFrame ==
    ASSUME LookupInv, NEW p \in Procs, pw' = pw, granted' = granted,
           \A q \in Procs : q # p =>
               /\ rsa_key'[q] = rsa_key[q] /\ rsa_key2'[q] = rsa_key2[q]
               /\ entry'[q] = entry[q],
           rsa_key'[p] \in Keys => Held(pw[p], rsa_key'[p]),
           rsa_key2'[p] \in Keys => Held(pw[p], rsa_key2'[p]),
           entry'[p] # NoEntry =>
               <<pw[p], entry'[p].key, entry'[p].timeout>> \in granted
    PROVE  ProcTraced'
<1>. SUFFICES ASSUME NEW q \in Procs
              PROVE  /\ rsa_key'[q] \in Keys => Held(pw[q], rsa_key'[q])
                     /\ rsa_key2'[q] \in Keys => Held(pw[q], rsa_key2'[q])
                     /\ entry'[q] # NoEntry =>
                        <<pw[q], entry'[q].key, entry'[q].timeout>> \in granted
    BY DEF ProcTraced, Held
<1>1. CASE q = p
    BY <1>1
<1>2. CASE q # p
    BY <1>2 DEF LookupInv, ProcTraced
<1>. QED
    BY <1>1, <1>2

(* user_key_allowed up to the federated part.                              *)
LEMMA CallInv ==
    ASSUME LookupInv, NEW p \in Procs, NEW k \in Keys, Call(p, k)
    PROVE  LookupInv'
<1>. USE DEF LookupInv
<1>0. PICK x \in Uninit("", rsa_key[p]) : rsa_key' = [rsa_key EXCEPT ![p] = x]
    BY Zenon DEF Call
<1>a. x \in {"", Malformed, rsa_key[p]}
    BY UninitText, Zenon
<1>b. DirTypeOK' /\ SessionBound' /\ granted' = granted
    BY Zenon DEF Call, dirVars, DirTypeOK, SessionBound, LookupTypeOK
<1>c. /\ success' \in [Procs -> BOOLEAN]
      /\ \/ pc' = [pc EXCEPT ![p] = "idle"]
         \/ pc' = [pc EXCEPT ![p] = "ldap"]
    <2>1. CASE <<pw[p], k>> \in LocalKeys \/ ~UseFed
        <3>1. Return(p, <<pw[p], k>> \in LocalKeys)
            BY <2>1, Zenon DEF Call
        <3>2. (<<pw[p], k>> \in LocalKeys) \in BOOLEAN
            BY MembershipIsBoolean, Zenon
        <3>3. success \in [Procs -> BOOLEAN]
            BY Zenon DEF LookupTypeOK
        <3>. QED
            BY <3>1, <3>2, <3>3, Zenon DEF Return, Goto
    <2>2. CASE ~(<<pw[p], k>> \in LocalKeys \/ ~UseFed)
        BY <2>2, Zenon DEF Call, Goto, LookupTypeOK
    <2>. QED
        BY <2>1, <2>2, Zenon
<1>d. /\ pc[p] = "idle" /\ pc'[p] \in {"idle", "ldap"}
      /\ \A q \in Procs : q # p => pc'[q] = pc[q]
    <2>1. pc[p] = "idle"
        BY Zenon DEF Call
    <2>. QED
        BY <1>c, <2>1, Zenon DEF LookupTypeOK
<1>1. LookupTypeOK'
    <2>1. rsa_key' \in [Procs -> Texts]
        BY <1>0, <1>a, Zenon DEF LookupTypeOK, Texts
    <2>2. calls' \in [Procs -> Nat]
        <3>1. calls \in [Procs -> Nat] /\ calls' = [calls EXCEPT ![p] = @ + 1]
            BY Zenon DEF Call, LookupTypeOK
        <3>. QED
            BY <3>1, Increment, Zenon
    <2>5. key' \in [Procs -> Keys] /\ since' \in [Procs -> Nat]
        BY Zenon DEF Call, LookupTypeOK, DirTypeOK
    <2>3. exists' \in [Uids -> BOOLEAN]
        BY Zenon DEF Call, LookupTypeOK
    <2>4. tmp_file' \in [Procs -> {"null", "linked", "orphan"}]
        BY Zenon DEF Call, LookupTypeOK
    <2>. QED
        BY <1>b, <1>c, <2>1, <2>2, <2>3, <2>4, <2>5, Zenon DEF LookupTypeOK, Call
<1>2. LoopInv'
    BY <1>d, Zenon DEF LoopInv, Call
<1>3. ProcTraced'
    <2>1. rsa_key'[p] \in Keys => Held(pw[p], rsa_key'[p])
        BY <1>0, <1>a, LookupAssumption, Zenon DEF ProcTraced, LookupTypeOK
    <2>2. \A q \in Procs : q # p => rsa_key'[q] = rsa_key[q]
        BY <1>0, Zenon DEF LookupTypeOK
    <2>3. UNCHANGED <<pw, rsa_key2, entry>>
        BY Zenon DEF Call
    <2>4. /\ rsa_key2[p] \in Keys => Held(pw[p], rsa_key2[p])
          /\ entry[p] # NoEntry =>
               <<pw[p], entry[p].key, entry[p].timeout>> \in granted
        BY Zenon DEF ProcTraced
    <2>. QED
        BY <1>b, <2>1, <2>2, <2>3, <2>4, ProcFrame, Zenon
<1>4. KeyProvenance'
    BY <1>b, Zenon DEF KeyProvenance, Call
<1>5. FileTraced' /\ LinesHaveLiveWriter'
    <2>1. \A u \in Uids : exists[u] => exists'[u]
        BY Zenon DEF Call, LookupTypeOK
    <2>2. UNCHANGED <<pw, content>>
        BY Zenon DEF Call
    <2>. QED
        BY <1>b, <1>d, <2>1, <2>2, FileFrame, Zenon
<1>6. StreamInv'
    <2>1. pw' = pw /\ \A u \in Uids : exists[u] => exists'[u]
        BY Zenon DEF Call, LookupTypeOK
    <2>2. \A q \in Procs : q # p => tmp_file'[q] = tmp_file[q]
        BY Zenon DEF Call, LookupTypeOK
    <2>3. tmp_file'[p] = "linked" => pw[p] \in Homes
        BY Zenon DEF Call, LookupTypeOK
    <2>4. pw[p] \in Homes => exists'[pw[p]]
        BY LookupAssumption, Zenon DEF Call, LookupTypeOK
    <2>5. \A q \in Procs : pw[q] \in Uids
        BY Zenon DEF LookupTypeOK
    <2>. QED
        BY <2>1, <2>2, <2>3, <2>4, <2>5, Zenon DEF StreamInv
<1>. QED
    BY <1>1, <1>2, <1>3, <1>4, <1>5, <1>6, <1>b, Zenon

(* The steps that only move a process on, forgetting its entry or not:
   failures of LDAP, an empty answer, death and departure.                 *)
LEMMA MoveInv ==
    ASSUME LookupInv, NEW p \in Procs,
           NEW l \in {"idle", "append", "exited", "dead"},
           pc' = [pc EXCEPT ![p] = l],
           pc[p] \in {"verify", "unlink", "dead"} => l = "dead",
           entry' \in {entry, [entry EXCEPT ![p] = NoEntry]},
           success' \in {success, [success EXCEPT ![p] = FALSE]},
           UNCHANGED <<dirVars, pw, key, calls, tmp_file, bufVars, attrs,
                       fileVars, since, copied, accepted>>
    PROVE  LookupInv'
<1>. USE DEF LookupInv, bufVars, fileVars, dirVars
<1>1. DirTypeOK' /\ SessionBound' /\ granted' = granted
    BY DEF DirTypeOK, SessionBound, LookupTypeOK
<1>2. pc'[p] = l /\ \A q \in Procs : q # p => pc'[q] = pc[q]
    BY DEF LookupTypeOK
<1>3. \A q \in Procs : q # p => entry'[q] = entry[q]
    BY DEF LookupTypeOK
<1>4. entry'[p] \in {entry[p], NoEntry}
    BY DEF LookupTypeOK
<1>5. LookupTypeOK'
    <2>1. entry' \in [Procs -> Entries \cup {NoEntry}]
        BY Zenon DEF LookupTypeOK
    <2>2. success' \in [Procs -> BOOLEAN]
        BY Zenon DEF LookupTypeOK
    <2>3. pc' \in [Procs -> {"idle", "ldap", "attr", "append", "verify",
                             "unlink", "exited", "dead"}]
        BY DEF LookupTypeOK
    <2>. QED
        BY <1>1, <2>1, <2>2, <2>3 DEF LookupTypeOK
<1>6. LoopInv'
    BY <1>2, <1>3 DEF LoopInv
<1>7. ProcTraced'
    <2>1. /\ rsa_key[p] \in Keys => Held(pw[p], rsa_key[p])
          /\ rsa_key2[p] \in Keys => Held(pw[p], rsa_key2[p])
          /\ entry'[p] # NoEntry =>
               <<pw[p], entry'[p].key, entry'[p].timeout>> \in granted
        BY <1>4, Zenon DEF ProcTraced
    <2>2. UNCHANGED <<rsa_key, rsa_key2, pw>>
        OBVIOUS
    <2>. QED
        BY <1>1, <1>3, <2>1, <2>2, ProcFrame
<1>8. FileTraced' /\ LinesHaveLiveWriter'
    BY <1>1, <1>2, FileFrame
<1>9. KeyProvenance' /\ StreamInv'
    BY <1>1 DEF KeyProvenance, StreamInv
<1>. QED
    BY <1>1, <1>5, <1>6, <1>7, <1>8, <1>9
-----------------------------------------------------------------------------
(* get_rsa_key_ldap up to the answer of the search.                        *)
LEMMA LdapSearchInv ==
    ASSUME LookupInv, NEW p \in Procs, LdapSearch(p)
    PROVE  LookupInv'
<1>. USE DEF LookupInv, fileVars, dirVars
<1>1. PICK x \in Uninit("", rsa_key2[p]) :
          rsa_key2' = [rsa_key2 EXCEPT ![p] = x]
    BY Zenon DEF LdapSearch
<1>2. PICK t \in Uninit(0, timeout[p]) : timeout' = [timeout EXCEPT ![p] = t]
    BY Zenon DEF LdapSearch
<1>3. PICK o \in AttrOrders : attrs' = [attrs EXCEPT ![p] = o]
    BY Zenon DEF LdapSearch
<1>4. x \in {"", Malformed, rsa_key2[p]} /\ t \in {0, Malformed, timeout[p]}
    BY UninitText, UninitTime, Zenon
<1>5. o \in Seq({"key", "time", "other"}) /\ o # << >>
    BY LookupAssumption, OrderIsNotEmpty
<1>6. entry' = [entry EXCEPT ![p] = dir[pw[p]]] /\ pw[p] \in Uids
    BY Zenon DEF LdapSearch, LookupTypeOK
<1>7. entry'[p] = dir[pw[p]] /\ \A q \in Procs : q # p => entry'[q] = entry[q]
    BY <1>6, ZenonT(30) DEF LookupTypeOK
<1>8. /\ pc' = [pc EXCEPT ![p] = IF entry'[p] = NoEntry THEN "append"
                                                       ELSE "attr"]
      /\ pc[p] = "ldap"
    BY Zenon DEF LdapSearch, Goto
<1>9. DirTypeOK' /\ SessionBound' /\ granted' = granted
    BY Zenon DEF LdapSearch, DirTypeOK, SessionBound, LookupTypeOK
<1>10. LookupTypeOK'
    <2>1. rsa_key2' \in [Procs -> Texts]
        BY <1>1, <1>4, Zenon DEF LookupTypeOK, Texts
    <2>2. timeout' \in [Procs -> Timeouts]
        <3>1. timeout \in [Procs -> Timeouts]
            BY Zenon DEF LookupTypeOK
        <3>2. timeout[p] \in Timeouts /\ 0 \in Timeouts /\ Malformed \in Timeouts
            BY <3>1, Zenon DEF Timeouts
        <3>3. t \in Timeouts
            BY <1>4, <3>2, Zenon
        <3>. QED
            BY <1>2, <3>1, <3>3, Zenon
    <2>3. attrs' \in [Procs -> Seq({"key", "time", "other"})]
        BY <1>3, <1>5, Zenon DEF LookupTypeOK
    <2>4. entry' \in [Procs -> Entries \cup {NoEntry}]
        BY <1>6, ZenonT(30) DEF LookupTypeOK, DirTypeOK
    <2>5. pc' \in [Procs -> {"idle", "ldap", "attr", "append", "verify",
                             "unlink", "exited", "dead"}]
        BY <1>8, Zenon DEF LookupTypeOK
    <2>. QED
        BY <1>9, <2>1, <2>2, <2>3, <2>4, <2>5, Zenon DEF LookupTypeOK, LdapSearch
<1>11. LoopInv'
    <2>1. attrs'[p] = o /\ \A q \in Procs : q # p => attrs'[q] = attrs[q]
        BY <1>3, Zenon DEF LookupTypeOK
    <2>2. /\ pc'[p] = "attr" => entry'[p] # NoEntry
          /\ \A q \in Procs : q # p => pc'[q] = pc[q]
        BY <1>8, Zenon DEF LookupTypeOK
    <2>. QED
        BY <1>5, <1>7, <2>1, <2>2, Zenon DEF LoopInv
<1>12. ProcTraced'
    <2>1. rsa_key2'[p] \in Keys => Held(pw[p], rsa_key2'[p])
        BY <1>1, <1>4, LookupAssumption, ZenonT(30) DEF ProcTraced, LookupTypeOK
    <2>2. \A q \in Procs : q # p => rsa_key2'[q] = rsa_key2[q]
        BY <1>1, Zenon DEF LookupTypeOK
    <2>3. entry'[p] # NoEntry =>
              <<pw[p], entry'[p].key, entry'[p].timeout>> \in granted
        BY <1>6, <1>7, Zenon DEF SessionBound
    <2>4. rsa_key[p] \in Keys => Held(pw[p], rsa_key[p])
        BY Zenon DEF ProcTraced
    <2>5. UNCHANGED <<pw, rsa_key>>
        BY Zenon DEF LdapSearch
    <2>. QED
        BY <1>7, <1>9, <2>1, <2>2, <2>3, <2>4, <2>5, ProcFrame, Zenon
<1>13. FileTraced' /\ LinesHaveLiveWriter'
    <2>1. UNCHANGED <<pw, content, exists>>
        BY Zenon DEF LdapSearch
    <2>2. \A q \in Procs : q # p => pc'[q] = pc[q]
        BY <1>8, ZenonT(30) DEF LookupTypeOK
    <2>. QED
        BY <1>8, <1>9, <2>1, <2>2, FileFrame, Zenon
<1>14. KeyProvenance' /\ StreamInv'
    BY <1>9, Zenon DEF KeyProvenance, StreamInv, LdapSearch
<1>. QED
    BY <1>9, <1>10, <1>11, <1>12, <1>13, <1>14, Zenon

(* One round of the attribute loop.                                        *)
LEMMA VisitAttrInv ==
    ASSUME LookupInv, NEW p \in Procs, VisitAttr(p)
    PROVE  LookupInv'
<1>. DEFINE a    == Head(attrs[p])
            t    == IF a = "time" THEN entry[p].timeout ELSE timeout[p]
            text == IF a = "key" THEN entry[p].key ELSE rsa_key2[p]
<1>. USE DEF LookupInv, fileVars, dirVars
<1>1. entry[p] \in Entries /\ attrs[p] # << >> /\ pc[p] = "attr"
    BY DEF VisitAttr, LoopInv, LookupTypeOK
<1>2. entry[p].key \in Certs /\ entry[p].timeout \in Nat
    BY <1>1, SMTT(30) DEF Entries
<1>3. entry[p] # NoEntry /\ <<pw[p], entry[p].key, entry[p].timeout>> \in granted
    BY <1>1 DEF LoopInv, ProcTraced
<1>4. t \in Timeouts /\ text \in Texts
    <2>1. timeout[p] \in Timeouts /\ rsa_key2[p] \in Texts
        BY DEF LookupTypeOK
    <2>2. entry[p].key \in Texts /\ entry[p].timeout \in Timeouts
        BY <1>2, LookupAssumption, Zenon DEF Texts, Timeouts
    <2>. QED
        BY <2>1, <2>2
<1>5. text \in Keys => Held(pw[p], text)
    <2>1. Held(pw[p], entry[p].key)
        BY <1>3 DEF Held
    <2>2. rsa_key2[p] \in Keys => Held(pw[p], rsa_key2[p])
        BY Zenon DEF ProcTraced
    <2>. QED
        BY <2>1, <2>2
<1>6. /\ timeout' = [timeout EXCEPT ![p] = t]
      /\ rsa_key2' = [rsa_key2 EXCEPT ![p] = text]
      /\ rsa_key' \in {rsa_key, [rsa_key EXCEPT ![p] = text]}
      /\ copied' \in {copied, [copied EXCEPT ![p] = now]}
      /\ attrs' = [attrs EXCEPT ![p] = Tail(attrs[p])]
      /\ pc' = [pc EXCEPT ![p] = IF Tail(attrs[p]) = << >> THEN "append"
                                                          ELSE "attr"]
    BY DEF VisitAttr, Goto
<1>. HIDE DEF a, t, text
<1>7. DirTypeOK' /\ SessionBound' /\ granted' = granted
    BY DEF VisitAttr, DirTypeOK, SessionBound, LookupTypeOK
<1>8. LookupTypeOK'
    <2>1. /\ timeout' \in [Procs -> Timeouts]
          /\ rsa_key2' \in [Procs -> Texts] /\ rsa_key' \in [Procs -> Texts]
        <3>1. timeout \in [Procs -> Timeouts] /\ rsa_key \in [Procs -> Texts]
              /\ rsa_key2 \in [Procs -> Texts]
            BY DEF LookupTypeOK
        <3>2. timeout' \in [Procs -> Timeouts]
            BY <1>4, <1>6, <3>1
        <3>3. rsa_key2' \in [Procs -> Texts] /\ rsa_key' \in [Procs -> Texts]
            BY <1>4, <1>6, <3>1
        <3>. QED
            BY <3>2, <3>3
    <2>2. copied' \in [Procs -> Nat]
        BY <1>6, Zenon DEF LookupTypeOK, DirTypeOK
    <2>3. attrs' \in [Procs -> Seq({"key", "time", "other"})]
        <3>1. attrs[p] \in Seq({"key", "time", "other"})
            BY DEF LookupTypeOK
        <3>2. Tail(attrs[p]) \in Seq({"key", "time", "other"})
            BY <1>1, <3>1
        <3>. QED
            BY <1>6, <3>2 DEF LookupTypeOK
    <2>4. pc' \in [Procs -> {"idle", "ldap", "attr", "append", "verify",
                             "unlink", "exited", "dead"}]
        BY <1>6, SMTT(30) DEF LookupTypeOK
    <2>. QED
        BY <1>7, <2>1, <2>2, <2>3, <2>4, Zenon DEF LookupTypeOK, VisitAttr
<1>9. LoopInv'
    <2>1. \A q \in Procs : q # p => pc'[q] = pc[q] /\ attrs'[q] = attrs[q]
        BY <1>6 DEF LookupTypeOK
    <2>2. pc'[p] = "attr" => attrs'[p] # << >>
        BY <1>6 DEF LookupTypeOK
    <2>3. entry' = entry
        BY SMTT(30) DEF VisitAttr
    <2>. QED
        BY <1>3, <2>1, <2>2, <2>3 DEF LoopInv
<1>10. ProcTraced'
    <2>1. rsa_key2'[p] = text /\ rsa_key'[p] \in {rsa_key[p], text}
        BY <1>6 DEF LookupTypeOK
    <2>2. \A q \in Procs : q # p => /\ rsa_key'[q] = rsa_key[q]
                                    /\ rsa_key2'[q] = rsa_key2[q]
        BY <1>6 DEF LookupTypeOK
    <2>3. rsa_key[p] \in Keys => Held(pw[p], rsa_key[p])
        BY Zenon DEF ProcTraced
    <2>4. UNCHANGED <<pw, entry>>
        BY DEF VisitAttr
    <2>. QED
        BY <1>3, <1>5, <1>7, <2>1, <2>2, <2>3, <2>4, ProcFrame
<1>11. FileTraced' /\ LinesHaveLiveWriter'
    <2>1. UNCHANGED <<pw, content, exists>>
        BY DEF VisitAttr
    <2>2. \A q \in Procs : q # p => pc'[q] = pc[q]
        BY <1>6, SMTT(30) DEF LookupTypeOK
    <2>. QED
        BY <1>1, <1>7, <2>1, <2>2, FileFrame
<1>12. KeyProvenance' /\ StreamInv'
    BY <1>7 DEF KeyProvenance, StreamInv, VisitAttr
<1>. QED
    BY <1>7, <1>8, <1>9, <1>10, <1>11, <1>12

(* fwrite and fclose.                                                      *)
LEMMA AppendLineInv ==
    ASSUME LookupInv, NEW p \in Procs, AppendLine(p)
    PROVE  LookupInv'
<1>. DEFINE u    == pw[p]
            line == [by |-> p, text |-> rsa_key[p], from |-> since[p],
                     at |-> copied[p]]
<1>. USE DEF LookupInv, bufVars, dirVars
<1>1. /\ pc[p] = "append" /\ pc' = [pc EXCEPT ![p] = "verify"]
      /\ entry' = [entry EXCEPT ![p] = NoEntry]
      /\ rsa_key[p] # "" /\ u \in Uids
    BY Zenon DEF AppendLine, Goto, LookupTypeOK
<1>2. DirTypeOK' /\ SessionBound' /\ granted' = granted
    BY ZenonT(30) DEF AppendLine, DirTypeOK, SessionBound, LookupTypeOK
<1>3. line \in Lines
    <2>1. rsa_key[p] \in Keys \cup {Malformed}
        BY <1>1, Zenon DEF LookupTypeOK, Texts
    <2>2. since[p] \in Nat /\ copied[p] \in Nat
        BY DEF LookupTypeOK
    <2>. QED
        BY <2>1, <2>2 DEF Lines
<1>4. /\ \A v \in Uids : v # u => content'[v] = content[v]
      /\ content'[u] \subseteq content[u] \cup {line}
      /\ content' \in [Uids -> SUBSET Lines]
      /\ content'[u] # content[u] => exists[u]
    <2>1. content \in [Uids -> SUBSET Lines]
        BY SMTT(30) DEF LookupTypeOK
    <2>2. \/ content' = content
          \/ /\ content' = [content EXCEPT ![u] = content[u] \cup {line}]
             /\ tmp_file[p] = "linked"
        BY Zenon DEF AppendLine
    <2>3. tmp_file[p] = "linked" => exists[u]
        BY DEF StreamInv
    <2>. HIDE DEF u, line
    <2>. QED
        BY <1>1, <1>3, <2>1, <2>2, <2>3, Zenon
<1>5. \A q \in Procs : q # p => pc'[q] = pc[q] /\ entry'[q] = entry[q]
    BY <1>1, Zenon DEF LookupTypeOK
<1>6. pc'[p] = "verify" /\ entry'[p] = NoEntry
    BY <1>1, Zenon DEF LookupTypeOK
<1>7. LookupTypeOK'
    <2>1. entry' \in [Procs -> Entries \cup {NoEntry}]
        BY <1>1, Zenon DEF LookupTypeOK
    <2>2. pc' \in [Procs -> {"idle", "ldap", "attr", "append", "verify",
                             "unlink", "exited", "dead"}]
        BY <1>1, Zenon DEF LookupTypeOK
    <2>. QED
        BY <1>2, <1>4, <2>1, <2>2, Zenon DEF LookupTypeOK, AppendLine
<1>8. LoopInv'
    BY <1>5, <1>6, ZenonT(30) DEF LoopInv, AppendLine
<1>9. ProcTraced'
    <2>1. UNCHANGED <<pw, rsa_key, rsa_key2>>
        BY Zenon DEF AppendLine
    <2>2. /\ rsa_key[p] \in Keys => Held(pw[p], rsa_key[p])
          /\ rsa_key2[p] \in Keys => Held(pw[p], rsa_key2[p])
        BY Zenon DEF ProcTraced
    <2>. QED
        BY <1>2, <1>5, <1>6, <2>1, <2>2, ProcFrame, Zenon
<1>10. ASSUME NEW v \in Uids, NEW l \in content'[v], l \notin content[v]
       PROVE  v = u /\ l = line /\ exists[v]
    BY <1>4, <1>10, Zenon
<1>11. FileTraced'
    <2>. SUFFICES ASSUME NEW v \in Uids, NEW l \in content'[v], l.text \in Keys
                  PROVE  Held(v, l.text)
        BY <1>2, Zenon DEF FileTraced, Held
    <2>1. CASE l \in content[v]
        BY <2>1, SMTT(30) DEF FileTraced
    <2>2. CASE l \notin content[v]
        <3>1. v = u /\ l = line
            BY <1>10, <2>2
        <3>2. l.text = rsa_key[p]
            BY <3>1
        <3>3. rsa_key[p] \in Keys => Held(u, rsa_key[p])
            BY Zenon DEF ProcTraced
        <3>. QED
            BY <3>1, <3>2, <3>3
    <2>. QED
        BY <2>1, <2>2, SMTT(30)
<1>12. LinesHaveLiveWriter'
    <2>1. exists' = exists /\ pw' = pw
        BY Zenon DEF AppendLine
    <2>. SUFFICES ASSUME NEW v \in Uids, NEW l \in content'[v]
                  PROVE  /\ exists[v] /\ pw[l.by] = v
                         /\ pc'[l.by] \in {"verify", "unlink", "dead"}
        BY <2>1 DEF LinesHaveLiveWriter
    <2>2. CASE l \in content[v]
        <3>1. l \in Lines
            BY <2>2 DEF LookupTypeOK
        <3>2. l.by \in Procs
            BY <3>1, SMTT(30) DEF Lines
        <3>3. /\ exists[v] /\ pw[l.by] = v
              /\ pc[l.by] \in {"verify", "unlink", "dead"}
            BY <2>2 DEF LinesHaveLiveWriter
        <3>. QED
            BY <1>5, <1>6, <3>2, <3>3, SMTT(30)
    <2>3. CASE l \notin content[v]
        <3>1. v = u /\ l = line /\ exists[v]
            BY <1>10, <2>3
        <3>2. l.by = p
            BY <3>1, SMTT(30)
        <3>. QED
            BY <1>6, <3>1, <3>2, Zenon
    <2>. QED
        BY <2>2, <2>3
<1>13. KeyProvenance' /\ StreamInv'
    BY <1>2, Zenon DEF KeyProvenance, StreamInv, AppendLine
<1>. QED
    BY <1>2, <1>7, <1>8, <1>9, <1>11, <1>12, <1>13

(* user_key_allowed2 on the temporary file: what it accepts is in the file. *)
LEMMA VerifyInv ==
    ASSUME LookupInv, NEW p \in Procs, Verify(p)
    PROVE  LookupInv'
<1>. DEFINE u     == pw[p]
            found == Matching(u, key[p])
            new   == {[user |-> u, line |-> l, since |-> since[p]] : l \in found}
<1>. USE DEF LookupInv, bufVars, fileVars, dirVars
<1>1. /\ pc' = [pc EXCEPT ![p] = "unlink"] /\ u \in Uids
      /\ accepted' = accepted \cup new
      /\ success' = [success EXCEPT ![p] = found # {}]
    BY Zenon DEF Verify, Goto, LookupTypeOK
<1>2. DirTypeOK' /\ SessionBound' /\ granted' = granted
    BY ZenonT(30) DEF Verify, DirTypeOK, SessionBound, LookupTypeOK
<1>3. \A l \in found : l \in content[u] /\ l.text = key[p] /\ l \in Lines
    BY <1>1, Zenon DEF Matching, LookupTypeOK
<1>. HIDE DEF u, found, new
<1>4. pc'[p] = "unlink" /\ \A q \in Procs : q # p => pc'[q] = pc[q]
    BY <1>1 DEF LookupTypeOK
<1>5. LookupTypeOK'
    <2>1. new \subseteq [user : Uids, line : Lines, since : Nat]
        <3>1. since[p] \in Nat
            BY DEF LookupTypeOK
        <3>. SUFFICES ASSUME NEW b \in new
                      PROVE  b \in [user : Uids, line : Lines, since : Nat]
            OBVIOUS
        <3>2. PICK l \in found : b = [user |-> u, line |-> l, since |-> since[p]]
            BY DEF new
        <3>. QED
            BY <1>1, <1>3, <3>1, <3>2, Zenon
    <2>2. success' \in [Procs -> BOOLEAN]
        <3>1. success \in [Procs -> BOOLEAN] /\ (found # {}) \in BOOLEAN
            BY DEF LookupTypeOK
        <3>. QED
            BY <1>1, <3>1
    <2>3. pc' \in [Procs -> {"idle", "ldap", "attr", "append", "verify",
                             "unlink", "exited", "dead"}]
        BY <1>1 DEF LookupTypeOK
    <2>. QED
        BY <1>1, <1>2, <2>1, <2>2, <2>3, Zenon DEF LookupTypeOK, Verify
<1>6. KeyProvenance'
    <2>. SUFFICES ASSUME NEW a \in accepted'
                  PROVE  Held(a.user, a.line.text)
        BY <1>2 DEF KeyProvenance, Held
    <2>1. CASE a \in accepted
        BY <2>1 DEF KeyProvenance, Held
    <2>2. CASE a \in new
        <3>1. PICK l \in found : a = [user |-> u, line |-> l, since |-> since[p]]
            BY <2>2 DEF new
        <3>2. a.user = u /\ a.line = l
            BY <3>1
        <3>3. l \in content[u] /\ l.text = key[p] /\ key[p] \in Keys
            BY <1>3, <3>1 DEF LookupTypeOK
        <3>4. Held(u, l.text)
            BY <1>1, <3>3, Zenon DEF FileTraced
        <3>. QED
            BY <3>2, <3>4, SMTT(30)
    <2>. QED
        BY <1>1, <2>1, <2>2
<1>7. LoopInv' /\ StreamInv'
    BY <1>4, Zenon DEF LoopInv, StreamInv, Verify
<1>8. ProcTraced'
    <2>1. UNCHANGED <<granted, pw, rsa_key, rsa_key2, entry>>
        BY Zenon DEF Verify
    <2>. QED
        BY <2>1 DEF ProcTraced, Held
<1>9. FileTraced' /\ LinesHaveLiveWriter'
    <2>1. UNCHANGED <<pw, content, exists>>
        BY Zenon DEF Verify
    <2>. QED
        BY <1>2, <1>4, <2>1, FileFrame
<1>. QED
    BY <1>2, <1>5, <1>6, <1>7, <1>8, <1>9

(* unlink: no line is left that could lose its writer.                     *)
LEMMA UnlinkInv ==
    ASSUME LookupInv, NEW p \in Procs, Unlink(p)
    PROVE  LookupInv'
<1>. DEFINE u == pw[p]
<1>. USE DEF LookupInv, bufVars, dirVars
<1>1. /\ pc' = [pc EXCEPT ![p] = "idle"] /\ u \in Uids
      /\ exists' = [exists EXCEPT ![u] = FALSE]
      /\ content' = [content EXCEPT ![u] = {}]
    BY DEF Unlink, Goto, LookupTypeOK
<1>2. DirTypeOK' /\ SessionBound' /\ granted' = granted
    BY DEF Unlink, DirTypeOK, SessionBound, LookupTypeOK
<1>3. pc'[p] = "idle" /\ \A q \in Procs : q # p => pc'[q] = pc[q]
    BY <1>1 DEF LookupTypeOK
<1>4. /\ content'[u] = {} /\ content' \in [Uids -> SUBSET Lines]
      /\ \A v \in Uids : v # u => content'[v] = content[v]
    BY <1>1 DEF LookupTypeOK
<1>5. /\ exists' \in [Uids -> BOOLEAN]
      /\ \A v \in Uids : v # u => exists'[v] = exists[v]
    BY <1>1 DEF LookupTypeOK
<1>6. \A q \in Procs : /\ tmp_file'[q] \in {tmp_file[q], "orphan"}
                       /\ pw[q] = u => tmp_file'[q] # "linked"
    BY DEF Unlink
<1>7. LookupTypeOK'
    <2>1. tmp_file' \in [Procs -> {"null", "linked", "orphan"}]
        BY DEF Unlink, LookupTypeOK
    <2>2. pc' \in [Procs -> {"idle", "ldap", "attr", "append", "verify",
                             "unlink", "exited", "dead"}]
        BY <1>1 DEF LookupTypeOK
    <2>. QED
        BY <1>2, <1>4, <1>5, <2>1, <2>2 DEF LookupTypeOK, Unlink
<1>8. LoopInv'
    BY <1>3 DEF LoopInv, Unlink
<1>9. StreamInv'
    <2>1. pw' = pw /\ \A q \in Procs : pw[q] \in Uids
        BY SMTT(30) DEF Unlink, LookupTypeOK
    <2>. QED
        BY <1>5, <1>6, <2>1 DEF StreamInv
<1>10. ProcTraced' /\ KeyProvenance'
    BY <1>2, SMTT(30) DEF ProcTraced, KeyProvenance, Held, Unlink
<1>11. FileTraced'
    BY <1>2, <1>4, SMTT(30) DEF FileTraced, Held
<1>12. LinesHaveLiveWriter'
    <2>1. pw' = pw
        BY ZenonT(30) DEF Unlink
    <2>. SUFFICES ASSUME NEW v \in Uids, NEW l \in content'[v]
                  PROVE  /\ exists'[v] /\ pw[l.by] = v
                         /\ pc'[l.by] \in {"verify", "unlink", "dead"}
        BY <2>1, Zenon DEF LinesHaveLiveWriter
    <2>2. v # u /\ l \in content[v]
        BY <1>4, SMTT(30)
    <2>3. /\ exists[v] /\ pw[l.by] = v
          /\ pc[l.by] \in {"verify", "unlink", "dead"}
        BY <2>2, SMTT(30) DEF LinesHaveLiveWriter
    <2>4. l \in Lines
        BY <2>2 DEF LookupTypeOK
    <2>5. l.by \in Procs
        BY <2>4 DEF Lines
    <2>. QED
        BY <1>3, <1>5, <2>2, <2>3, <2>5, Zenon
<1>. QED
    BY <1>2, <1>7, <1>8, <1>9, <1>10, <1>11, <1>12

(* Every step keeps the invariant.                                         *)
LEMMA LookupNextInv ==
    ASSUME LookupInv, [LookupNext]_vars
    PROVE  LookupInv'
<1>1. CASE DirNext /\ UNCHANGED lookupVars
    BY <1>1, DirStepInv
<1>2. CASE UNCHANGED vars
    BY <1>2, DirStepInv DEF vars
<1>3. ASSUME NEW p \in Procs, NEW k \in Keys, Call(p, k)
      PROVE  LookupInv'
    BY <1>3, CallInv
<1>4. ASSUME NEW p \in Procs, LdapSearch(p)
      PROVE  LookupInv'
    BY <1>4, LdapSearchInv
<1>5. ASSUME NEW p \in Procs, LdapFails(p)
      PROVE  LookupInv'
    BY <1>5, MoveInv, Zenon DEF LdapFails, Goto
<1>6. ASSUME NEW p \in Procs, OwnStep(p)
      PROVE  LookupInv'
    <2>1. CASE VisitAttr(p)
        BY <2>1, VisitAttrInv
    <2>2. CASE NothingFound(p)
        BY <2>2, MoveInv, Zenon DEF NothingFound, Return, Goto
    <2>3. CASE AppendLine(p)
        BY <2>3, AppendLineInv
    <2>4. CASE AppendCrashes(p)
        BY <2>4, MoveInv, Zenon DEF AppendCrashes, Goto
    <2>5. CASE Verify(p)
        BY <2>5, VerifyInv
    <2>6. CASE Unlink(p)
        BY <2>6, UnlinkInv
    <2>. QED
        BY <1>6, <2>1, <2>2, <2>3, <2>4, <2>5, <2>6, SMTT(30) DEF OwnStep
<1>7. ASSUME NEW p \in Procs, GraceAlarm(p)
      PROVE  LookupInv'
    BY <1>7, MoveInv, Zenon DEF GraceAlarm, Goto
<1>8. ASSUME NEW p \in Procs, Leave(p)
      PROVE  LookupInv'
    BY <1>8, MoveInv, Zenon DEF Leave, Goto
<1>. QED
    BY <1>1, <1>2, <1>3, <1>4, <1>5, <1>6, <1>7, <1>8 DEF LookupNext, Server

(***************************************************************************)
(* Whatever the number of connections, the order of the attributes and the *)
(* contents of the uninitialised arrays (see Uninit): user_key_allowed     *)
(* accepts from the temporary file only keys the directory has held for    *)
(* that user, and a line stays in the file only while its writer is at it  *)
(* or died there.                                                          *)
(***************************************************************************)
THEOREM LookupSafety ==
    LookupSpec => [](LookupTypeOK /\ KeyProvenance /\ LinesHaveLiveWriter)
<1>1. LookupInv /\ [LookupNext]_vars => LookupInv'
    BY LookupNextInv
<1>2. LookupInv => LookupTypeOK /\ KeyProvenance /\ LinesHaveLiveWriter
    BY DEF LookupInv
<1>. QED
    BY LookupInitInv, <1>1, <1>2, PTL DEF LookupSpec

(* The process keeps its types.                                            *)
THEOREM LookupTypes == LookupSpec => []LookupTypeOK
<1>1. LookupTypeOK /\ KeyProvenance /\ LinesHaveLiveWriter => LookupTypeOK
    OBVIOUS
<1>. QED
    BY LookupSafety, <1>1, PTL

(***************************************************************************)
(* A line stays in the temporary file only while the process that appended *)
(* it is about to read or unlink it, or because that process died there.   *)
(***************************************************************************)
THEOREM LookupLinesLive == LookupSpec => []LinesHaveLiveWriter
<1>1. LookupTypeOK /\ KeyProvenance /\ LinesHaveLiveWriter => LinesHaveLiveWriter
    BY SMTT(30)
<1>. QED
    BY LookupSafety, <1>1, PTL
-----------------------------------------------------------------------------
(* The line a process has appended is there when it reads the file, unless
   another process of its user has unlinked the file in between.           *)
AppendedInv ==
    \A p \in Procs : pc[p] = "verify" /\ tmp_file[p] = "linked"
        => \E l \in content[pw[p]] : l.text = rsa_key[p]

(* The steps of one process.                                               *)
ProcStep(q) ==
    \/ \E k \in Keys : Call(q, k)
    \/ LdapSearch(q) \/ LdapFails(q) \/ OwnStep(q)
    \/ GraceAlarm(q) \/ Leave(q)

(* What the steps of a process leave of another one: its own variables, and
   the lines of the file, unless they unlink it.                           *)
LEMMA OthersKeep ==
    ASSUME LookupInv, NEW p \in Procs, NEW q \in Procs, p # q, ProcStep(q)
    PROVE  /\ pc'[p] = pc[p] /\ pw' = pw /\ key'[p] = key[p]
           /\ rsa_key'[p] = rsa_key[p] /\ success'[p] = success[p]
           /\ tmp_file'[p] = "linked" =>
                 tmp_file[p] = "linked" /\ content[pw[p]] \subseteq content'[pw[p]]
<1>. USE DEF LookupInv, LookupTypeOK
<1>1. ASSUME NEW k \in Keys, Call(q, k)
      PROVE  /\ pc'[p] = pc[p] /\ pw' = pw /\ key'[p] = key[p]
             /\ rsa_key'[p] = rsa_key[p] /\ success'[p] = success[p]
             /\ tmp_file'[p] = tmp_file[p] /\ content' = content
    BY <1>1, ZenonT(30) DEF Call, Return, Goto
<1>2. CASE LdapSearch(q) \/ LdapFails(q) \/ GraceAlarm(q) \/ Leave(q)
    BY <1>2, Zenon DEF LdapSearch, LdapFails, GraceAlarm, Leave, Goto, bufVars, fileVars
<1>3. CASE VisitAttr(q)
    BY <1>3, SMTT(30) DEF VisitAttr, Goto, fileVars
<1>4. CASE NothingFound(q) \/ AppendCrashes(q) \/ Verify(q)
    BY <1>4, Zenon DEF NothingFound, AppendCrashes, Verify, Return, Goto, bufVars, fileVars
<1>5. CASE AppendLine(q)
    BY <1>5, Zenon DEF AppendLine, Goto, bufVars
<1>6. CASE Unlink(q)
    BY <1>6 DEF Unlink, Goto, bufVars
<1>. QED
    BY <1>1, <1>2, <1>3, <1>4, <1>5, <1>6, Zenon DEF ProcStep, OwnStep

LEMMA AppendedStep ==
    ASSUME LookupInv, AppendedInv, FoundKeyIsAccepted, [LookupNext]_vars
    PROVE  AppendedInv' /\ FoundKeyIsAccepted'
<1>. USE DEF LookupInv
<1>1. CASE UNCHANGED lookupVars
    <2>1. UNCHANGED <<pc, pw, key, rsa_key, tmp_file, content, success>>
        BY <1>1, Zenon DEF lookupVars, bufVars, fileVars
    <2>2. AppendedInv'
        BY <2>1, Zenon DEF AppendedInv
    <2>3. FoundKeyIsAccepted'
        BY <2>1, Zenon DEF FoundKeyIsAccepted
    <2>. QED
        BY <2>2, <2>3, Zenon
<1>2. ASSUME NEW q \in Procs, ProcStep(q)
      PROVE  AppendedInv' /\ FoundKeyIsAccepted'
    <2>. SUFFICES ASSUME NEW p \in Procs, tmp_file'[p] = "linked"
                  PROVE  /\ pc'[p] = "verify" =>
                               \E l \in content'[pw'[p]] : l.text = rsa_key'[p]
                         /\ pc'[p] = "unlink" /\ rsa_key'[p] = key'[p] /\ pw'[p] \in SecureHomes
                               => success'[p]
        BY Zenon DEF AppendedInv, FoundKeyIsAccepted
    <2>1. CASE p # q
        BY <1>2, <2>1, OthersKeep, ZenonT(30) DEF AppendedInv, FoundKeyIsAccepted
    <2>2. CASE p = q /\ AppendLine(q)
        <3>. DEFINE line == [by |-> p, text |-> rsa_key[p], from |-> since[p], at |-> copied[p]]
        <3>1. /\ pc'[p] = "verify" /\ tmp_file[p] = "linked" /\ UNCHANGED <<pw, rsa_key>>
              /\ content' = [content EXCEPT ![pw[p]] = @ \cup {line}]
            BY <2>2, ZenonT(30) DEF AppendLine, Goto, bufVars, LookupTypeOK
        <3>2. line \in content'[pw[p]]
            BY <3>1, Zenon DEF LookupTypeOK
        <3>3. line.text = rsa_key[p]
            OBVIOUS
        <3>. QED
            BY <3>1, <3>2, <3>3
    <2>3. CASE p = q /\ Verify(q)
        <3>1. /\ pc[p] = "verify" /\ pc'[p] = "unlink" /\ tmp_file[p] = "linked"
              /\ UNCHANGED <<pw, key, rsa_key>>
              /\ success'[p] = (Matching(pw[p], key[p]) # {})
            BY <2>3, Zenon DEF Verify, Goto, bufVars, LookupTypeOK
        <3>2. PICK l \in content[pw[p]] : l.text = rsa_key[p]
            BY <3>1, ZenonT(30) DEF AppendedInv
        <3>3. rsa_key[p] = key[p] /\ pw[p] \in SecureHomes => l \in Matching(pw[p], key[p])
            BY <3>1, <3>2, Zenon DEF Matching, StreamInv
        <3>. QED
            BY <3>1, <3>3, ZenonT(30)
    <2>4. CASE p = q /\ ~AppendLine(q) /\ ~Verify(q)
        <3>1. ASSUME NEW l, Goto(p, l), l \notin {"verify", "unlink"}
              PROVE  pc'[p] \notin {"verify", "unlink"}
            BY <3>1, SMTT(30) DEF Goto, LookupTypeOK
        <3>2. ASSUME NEW k \in Keys, Call(p, k)
              PROVE  Goto(p, "idle") \/ Goto(p, "ldap")
            BY <3>2, ZenonT(30) DEF Call, Return
        <3>3. ASSUME LdapSearch(p) \/ LdapFails(p) \/ VisitAttr(p)
              PROVE  pc'[p] \notin {"verify", "unlink"}
            BY <3>1, <3>3, Zenon DEF LdapSearch, LdapFails, VisitAttr
        <3>4. ASSUME NothingFound(p) \/ AppendCrashes(p) \/ Unlink(p) \/ GraceAlarm(p) \/ Leave(p)
              PROVE  pc'[p] \notin {"verify", "unlink"}
            BY <3>1, <3>4, Zenon DEF NothingFound, AppendCrashes, Unlink, GraceAlarm, Leave, Return
        <3>5. ASSUME NEW k \in Keys, Call(p, k)
              PROVE  pc'[p] \notin {"verify", "unlink"}
            BY <3>1, <3>2, <3>5
        <3>6. ProcStep(p) /\ ~AppendLine(p) /\ ~Verify(p)
            BY <1>2, <2>4
        <3>7. pc'[p] \notin {"verify", "unlink"}
            BY <3>3, <3>4, <3>5, <3>6, Zenon DEF ProcStep, OwnStep
        <3>. QED
            BY <3>7
    <2>. QED
        BY <2>1, <2>2, <2>3, <2>4, ZenonT(30)
<1>. QED
    BY <1>1, <1>2 DEF LookupNext, Server, ProcStep, vars

(***************************************************************************)
(* However many connections of a user append, read and unlink at once, and *)
(* whatever the arrays held: a process that appended the key it was asked  *)
(* about accepts it, unless the file was unlinked since it opened it or    *)
(* StrictModes refuses the home directory.                                 *)
(***************************************************************************)
THEOREM LookupAccepts == LookupSpec => []FoundKeyIsAccepted
<1>1. LookupInit => AppendedInv /\ FoundKeyIsAccepted
    BY Zenon DEF LookupInit, AppendedInv, FoundKeyIsAccepted
<1>2. LookupInv /\ [LookupNext]_vars => LookupInv'
    BY LookupNextInv
<1>3. LookupInv /\ AppendedInv /\ FoundKeyIsAccepted /\ [LookupNext]_vars
        => AppendedInv' /\ FoundKeyIsAccepted'
    BY AppendedStep
<1>. QED
    BY LookupInitInv, <1>1, <1>2, <1>3, PTL DEF LookupSpec
-----------------------------------------------------------------------------
(* What the attribute loop has found. *)

Listed(x, s) == \E i \in 1 .. Len(s) : s[i] = x

LEMMA ListedInTail ==
    ASSUME NEW s \in Seq({"key", "time", "other"}), s # << >>, NEW x, Listed(x, s)
    PROVE  x = Head(s) \/ Listed(x, Tail(s))
<1>1. PICK i \in 1 .. Len(s) : s[i] = x
    BY DEF Listed
<1>2. CASE i = 1
    BY <1>1, <1>2
<1>3. CASE i # 1
    <2>1. i - 1 \in 1 .. Len(Tail(s)) /\ Tail(s)[i - 1] = s[i]
        BY <1>1, <1>3
    <2>. QED
        BY <1>1, <2>1 DEF Listed
<1>. QED
    BY <1>2, <1>3

LEMMA NothingListed == ASSUME NEW x PROVE ~Listed(x, << >>)
BY DEF Listed

LEMMA OrderListsBoth ==
    ASSUME NEW o \in AttrOrders
    PROVE  Listed("key", o) /\ Listed("time", o)
<1>1. o \in Seq({"key", "time", "other"})
    BY LookupAssumption, Zenon
<1>2. DOMAIN o = 1 .. Len(o)
    BY <1>1
<1>3. {"key", "time"} \subseteq {o[i] : i \in DOMAIN o}
    BY LookupAssumption, Zenon
<1>4. "key" \in {o[i] : i \in DOMAIN o} /\ "time" \in {o[i] : i \in DOMAIN o}
    BY <1>3, Zenon
<1>. QED
    BY <1>2, <1>4, Zenon DEF Listed

(* What is no longer listed has been read.                                 *)
VisitedInv ==
    \A p \in Procs : pc[p] = "attr" =>
        /\ Listed("time", attrs[p]) \/ timeout[p] = entry[p].timeout
        /\ Listed("key", attrs[p]) \/ rsa_key2[p] = entry[p].key

(* What the steps of a process leave of the arrays of another one.         *)
LEMMA OthersArrays ==
    ASSUME LookupInv, NEW p \in Procs, NEW q \in Procs, p # q, ProcStep(q)
    PROVE  /\ pc'[p] = pc[p] /\ rsa_key'[p] = rsa_key[p] /\ rsa_key2'[p] = rsa_key2[p]
           /\ timeout'[p] = timeout[p] /\ entry'[p] = entry[p] /\ attrs'[p] = attrs[p]
<1>t. LookupTypeOK
    BY DEF LookupInv
<1>. DEFINE Kept == /\ rsa_key2'[p] = rsa_key2[p] /\ timeout'[p] = timeout[p]
                    /\ entry'[p] = entry[p] /\ attrs'[p] = attrs[p]
<1>0. ASSUME \E x : rsa_key2' = [rsa_key2 EXCEPT ![q] = x],
             \E x : timeout' = [timeout EXCEPT ![q] = x],
             \E x : entry' = [entry EXCEPT ![q] = x],
             \E x : attrs' = [attrs EXCEPT ![q] = x]
      PROVE  Kept
    BY <1>t, <1>0 DEF LookupTypeOK
<1>1. ASSUME rsa_key2' = rsa_key2, timeout' = timeout, attrs' = attrs,
             entry' = entry \/ entry' = [entry EXCEPT ![q] = NoEntry]
      PROVE  Kept
    BY <1>t, <1>1 DEF LookupTypeOK
<1>. HIDE DEF Kept
<1>2. ASSUME NEW k \in Keys, Call(q, k)
      PROVE  Kept
    BY <1>1, <1>2, Zenon DEF Call
<1>3. ASSUME LdapSearch(q)
      PROVE  Kept
    BY <1>0, <1>3, Zenon DEF LdapSearch
<1>4. ASSUME LdapFails(q) \/ GraceAlarm(q) \/ Leave(q)
      PROVE  Kept
    BY <1>1, <1>4, Zenon DEF LdapFails, GraceAlarm, Leave, bufVars
<1>5. ASSUME VisitAttr(q)
      PROVE  Kept
    BY <1>t, <1>5, SMTT(30) DEF VisitAttr, Kept, LookupTypeOK
<1>6. ASSUME NothingFound(q) \/ AppendCrashes(q) \/ Verify(q) \/ AppendLine(q) \/ Unlink(q)
      PROVE  Kept
    BY <1>1, <1>6, Zenon DEF NothingFound, AppendCrashes, Verify, AppendLine, Unlink, bufVars
<1>7. pc'[p] = pc[p] /\ rsa_key'[p] = rsa_key[p]
    BY OthersKeep
<1>8. Kept
    BY <1>2, <1>3, <1>4, <1>5, <1>6, Zenon DEF ProcStep, OwnStep
<1>. QED
    BY <1>7, <1>8 DEF Kept

(* One round of the loop: the last one has read both and tested the time.  *)
LEMMA VisitFinds ==
    ASSUME LookupInv, VisitedInv, NEW p \in Procs, VisitAttr(p)
    PROVE  /\ pc'[p] = "attr" =>
                 /\ Listed("time", attrs'[p]) \/ timeout'[p] = entry'[p].timeout
                 /\ Listed("key", attrs'[p]) \/ rsa_key2'[p] = entry'[p].key
           /\ pc'[p] = "append" /\ now' < entry'[p].timeout => rsa_key'[p] = entry'[p].key
<1>. DEFINE a    == Head(attrs[p])
            t    == IF a = "time" THEN entry[p].timeout ELSE timeout[p]
            text == IF a = "key" THEN entry[p].key ELSE rsa_key2[p]
<1>. USE DEF LookupInv
<1>1. /\ pc[p] = "attr" /\ attrs[p] # << >> /\ entry[p] # NoEntry
      /\ attrs[p] \in Seq({"key", "time", "other"})
    BY DEF VisitAttr, LoopInv, LookupTypeOK
<1>2. entry[p] \in Entries
    BY <1>1 DEF LookupTypeOK
<1>3. entry[p].timeout \in Nat
    BY <1>2 DEF Entries
<1>4. /\ Listed("time", Tail(attrs[p])) \/ t = entry[p].timeout
      /\ Listed("key", Tail(attrs[p])) \/ text = entry[p].key
    BY <1>1, ListedInTail DEF VisitedInv
<1>5. /\ UNCHANGED <<now, entry>>
      /\ timeout' = [timeout EXCEPT ![p] = t] /\ rsa_key2' = [rsa_key2 EXCEPT ![p] = text]
      /\ attrs' = [attrs EXCEPT ![p] = Tail(attrs[p])]
      /\ pc' = [pc EXCEPT ![p] = IF Tail(attrs[p]) = << >> THEN "append" ELSE "attr"]
      /\ \E valid \in check_timeout(t) :
             IF valid THEN rsa_key' = [rsa_key EXCEPT ![p] = text] ELSE rsa_key' = rsa_key
    BY DEF VisitAttr, Goto, dirVars
<1>. HIDE DEF a, t, text
<1>6. /\ timeout'[p] = t /\ rsa_key2'[p] = text /\ attrs'[p] = Tail(attrs[p])
      /\ pc'[p] = IF Tail(attrs[p]) = << >> THEN "append" ELSE "attr"
    BY <1>5 DEF LookupTypeOK
<1>7. ASSUME Tail(attrs[p]) = << >>, now < entry[p].timeout
      PROVE  rsa_key'[p] = entry[p].key
    <2>1. t = entry[p].timeout /\ text = entry[p].key
        BY <1>4, <1>7, NothingListed
    <2>2. t # Malformed
        BY <1>3, <2>1, LookupAssumption, Zenon
    <2>3. check_timeout(t) = {now < t}
        BY <2>2 DEF check_timeout
    <2>4. now < t
        BY <1>7, <2>1
    <2>5. rsa_key' = [rsa_key EXCEPT ![p] = text]
        BY <1>5, <2>3, <2>4
    <2>. QED
        BY <2>1, <2>5 DEF LookupTypeOK
<1>8. pc'[p] = "append" => Tail(attrs[p]) = << >>
    BY <1>6
<1>. QED
    BY <1>4, <1>5, <1>6, <1>7, <1>8, Zenon

(* sshd only reads the directory.                                          *)
LEMMA ServerReads ==
    ASSUME Server
    PROVE  UNCHANGED dirVars
BY Zenon DEF Server, Call, LdapSearch, LdapFails, OwnStep, VisitAttr, NothingFound,
       AppendLine, AppendCrashes, Verify, Unlink, GraceAlarm, Leave, Return

LEMMA FindsStep ==
    ASSUME LookupInv, VisitedInv, OpenSessionFound, [LookupNext]_vars
    PROVE  VisitedInv' /\ OpenSessionFound'
<1>. USE DEF LookupInv
<1>1. ASSUME [DirNext]_dirVars, UNCHANGED lookupVars
      PROVE  VisitedInv' /\ OpenSessionFound'
    <2>1. UNCHANGED <<pc, rsa_key, rsa_key2, timeout, entry, attrs>>
        BY <1>1, Zenon DEF lookupVars, bufVars
    <2>2. VisitedInv'
        BY <2>1, Zenon DEF VisitedInv
    <2>3. now' = now \/ now' = now + 1
        BY <1>1 DEF DirNext, Tick, DirStore, DirDelete, dirVars
    <2>4. ASSUME NEW p \in Procs, entry[p] # NoEntry, now' < entry[p].timeout
          PROVE  now < entry[p].timeout
        <3>1. entry[p] \in Entries /\ now \in Nat
            BY <2>4 DEF LookupTypeOK, DirTypeOK
        <3>2. entry[p].timeout \in Nat
            BY <3>1 DEF Entries
        <3>. QED
            BY <2>3, <2>4, <3>1, <3>2
    <2>5. OpenSessionFound'
        BY <2>1, <2>4, Zenon DEF OpenSessionFound
    <2>. QED
        BY <2>2, <2>5
<1>2. ASSUME NEW q \in Procs, ProcStep(q)
      PROVE  VisitedInv' /\ OpenSessionFound'
    <2>. DEFINE Goal(p) ==
            /\ pc'[p] = "attr" =>
                  /\ Listed("time", attrs'[p]) \/ timeout'[p] = entry'[p].timeout
                  /\ Listed("key", attrs'[p]) \/ rsa_key2'[p] = entry'[p].key
            /\ pc'[p] = "append" /\ entry'[p] # NoEntry /\ now' < entry'[p].timeout
                  => rsa_key'[p] = entry'[p].key
    <2>. SUFFICES ASSUME NEW p \in Procs PROVE Goal(p)
        BY Zenon DEF VisitedInv, OpenSessionFound
    <2>0. now' = now
        BY <1>2, ServerReads, Zenon DEF Server, ProcStep, dirVars
    <2>1. CASE p # q
        BY <1>2, <2>0, <2>1, OthersArrays, ZenonT(30) DEF VisitedInv, OpenSessionFound
    <2>2. CASE p = q /\ VisitAttr(q)
        BY <2>2, VisitFinds, Zenon
    <2>3. CASE p = q /\ LdapSearch(q)
        <3>1. PICK o \in AttrOrders : attrs' = [attrs EXCEPT ![p] = o]
            BY <2>3, Zenon DEF LdapSearch
        <3>2. attrs'[p] = o
            BY <3>1, Zenon DEF LookupTypeOK
        <3>3. pc'[p] = IF entry'[p] = NoEntry THEN "append" ELSE "attr"
            BY <2>3, ZenonT(30) DEF LdapSearch, Goto, LookupTypeOK
        <3>4. pc'[p] = "append" => entry'[p] = NoEntry
            BY <3>3
        <3>. QED
            BY <3>2, <3>4, OrderListsBoth, Zenon
    <2>4. CASE p = q /\ LdapFails(q)
        <3>1. entry'[p] = NoEntry /\ pc'[p] \in {"append", "dead"}
            BY <2>4, Zenon DEF LdapFails, Goto, LookupTypeOK
        <3>. QED
            BY <3>1
    <2>5. CASE p = q /\ ~VisitAttr(q) /\ ~LdapSearch(q) /\ ~LdapFails(q)
        <3>1. ASSUME NEW l, Goto(p, l), l \notin {"attr", "append"}
              PROVE  pc'[p] \notin {"attr", "append"}
            BY <3>1, SMTT(30) DEF Goto, LookupTypeOK
        <3>2. ASSUME NEW k \in Keys, Call(p, k)
              PROVE  Goto(p, "idle") \/ Goto(p, "ldap")
            BY <3>2, ZenonT(30) DEF Call, Return
        <3>3. ASSUME NEW k \in Keys, Call(p, k)
              PROVE  pc'[p] \notin {"attr", "append"}
            BY <3>1, <3>2, <3>3
        <3>4. ASSUME \/ NothingFound(p) \/ AppendLine(p) \/ AppendCrashes(p) \/ Verify(p)
                     \/ Unlink(p) \/ GraceAlarm(p) \/ Leave(p)
              PROVE  pc'[p] \notin {"attr", "append"}
            BY <3>1, <3>4, Zenon DEF NothingFound, AppendLine, AppendCrashes, Verify, Unlink,
               GraceAlarm, Leave, Return
        <3>5. ProcStep(p) /\ ~VisitAttr(p) /\ ~LdapSearch(p) /\ ~LdapFails(p)
            BY <1>2, <2>5
        <3>6. pc'[p] \notin {"attr", "append"}
            BY <3>3, <3>4, <3>5, Zenon DEF ProcStep, OwnStep
        <3>. QED
            BY <3>6
    <2>. QED
        BY <2>1, <2>2, <2>3, <2>4, <2>5, Zenon
<1>. QED
    BY <1>1, <1>2 DEF LookupNext, Server, ProcStep, vars

(***************************************************************************)
(* For any order of the attributes that lists the key and the timeout, and *)
(* whatever the arrays held before: get_rsa_key_ldap leaves the key of the *)
(* entry in rsa_key unless the session's deadline has passed.              *)
(***************************************************************************)
THEOREM LookupFindsOpen == LookupSpec => []OpenSessionFound
<1>1. LookupInit => VisitedInv /\ OpenSessionFound
    BY Zenon DEF LookupInit, VisitedInv, OpenSessionFound
<1>2. LookupInv /\ [LookupNext]_vars => LookupInv'
    BY LookupNextInv
<1>3. LookupInv /\ VisitedInv /\ OpenSessionFound /\ [LookupNext]_vars
        => VisitedInv' /\ OpenSessionFound'
    BY FindsStep
<1>. QED
    BY LookupInitInv, <1>1, <1>2, <1>3, PTL DEF LookupSpec
-----------------------------------------------------------------------------
(* The system starts where its parts start.                                *)
LEMMA LoginInitParts == LoginInit => PortalInit /\ LookupInit
BY SMTT(30) DEF LoginInit

(* To the page every step is one of its own, or none.                      *)
LEMMA LoginStepIsPortalStep ==
    ASSUME [LoginNext]_loginVars
    PROVE  [PortalNext]_portalVars
BY ServerReads DEF LoginNext, loginVars, portalVars

(* To sshd every step is one of its own, of the directory, or none: here
   the page is used only through the directory it implements.              *)
LEMMA LoginStepIsLookupStep ==
    ASSUME PortalInv, [LoginNext]_loginVars
    PROVE  [LookupNext]_vars
<1>1. [DirNext]_dirVars
    BY LoginStepIsPortalStep, PortalStepIsDirStep
<1>2. CASE PortalNext /\ UNCHANGED lookupVars
    BY <1>1, <1>2 DEF LookupNext, vars
<1>3. CASE Server
    BY <1>3 DEF LookupNext
<1>4. CASE UNCHANGED loginVars
    BY <1>4 DEF loginVars, vars
<1>. QED
    BY <1>2, <1>3, <1>4 DEF LoginNext

(* What the two parts know, put together.                                  *)
LEMMA BroughtFromParts == GrantedWasRequested /\ KeyProvenance => KeyWasBrought
<1>. SUFFICES ASSUME GrantedWasRequested, KeyProvenance, NEW a \in accepted
              PROVE  \E r \in Requests : Brought(r, a.user, a.line.text)
    BY DEF KeyWasBrought
<1>1. PICK g \in granted : g[1] = a.user /\ g[2] = a.line.text
    BY DEF KeyProvenance
<1>2. PICK r \in Requests : /\ g = <<Uid(r), cert[r], hoy[r] + SessionTime>>
                            /\ page[r] \in {"show", "done", "died"}
    BY DEF GrantedWasRequested
<1>. QED
    BY <1>1, <1>2 DEF Brought

(***************************************************************************)
(* Whatever the uninitialised arrays of get_rsa_key_ldap hold (see         *)
(* Uninit), however many requests and connections interleave:              *)
(* user_key_allowed takes from the directory only keys that a request of   *)
(* that account brought to the page and anadir_usuario stored.             *)
(***************************************************************************)
THEOREM LoginBrought == LoginSpec => []KeyWasBrought
<1>. DEFINE Inv == PortalInv /\ GrantedWasRequested /\ LookupInv
<1>1. LoginInit => Inv
    <2>1. PortalInit => GrantedWasRequested
        BY Zenon DEF PortalInit, DirInit, GrantedWasRequested
    <2>. QED
        BY <2>1, LoginInitParts, PortalInitInv, LookupInitInv
<1>2. Inv /\ [LoginNext]_loginVars => Inv'
    BY LoginStepIsPortalStep, LoginStepIsLookupStep, PortalNextInv,
       RequestedStep, LookupNextInv
<1>3. Inv => KeyWasBrought
    BY BroughtFromParts DEF LookupInv
<1>. QED
    BY <1>1, <1>2, <1>3, PTL DEF LoginSpec
=============================================================================
