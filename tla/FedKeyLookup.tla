---------------------------- MODULE FedKeyLookup ----------------------------
(***************************************************************************)
(* sshd's test whether a user may log in with a key: user_key_allowed in   *)
(* openssh/auth2-pubkey.c with get_rsa_key_ldap in openssh/ssh_fed.c.      *)
(*                                                                         *)
(* Every connection has a privileged process that runs user_key_allowed,   *)
(* usually twice (the client asks, then signs), always for one user.  All  *)
(* the processes of a user share one temporary file in the user's home     *)
(* directory: the key found in the directory is appended to it, it is read *)
(* like an authorized_keys file, and it is unlinked.  SIGALRM ends a       *)
(* process anywhere when the login grace time is over.                     *)
(***************************************************************************)
EXTENDS KeyDirectory, Sequences

CONSTANTS Procs,       \* privileged sshd processes, one per connection
          Keys,        \* the texts of Certs that key_read can parse
          Malformed,   \* a non-empty text that is no key
          LocalKeys,   \* <<uid, key>> found in authorized_keys(2)
          Homes,       \* the uids whose home directory exists
          SecureHomes, \* those that pass the StrictModes test
          UseFed,      \* options.usefed == 1
          AttrOrders,  \* orders in which a server may list the attributes
          Residue,     \* what an uninitialised array may hold, see Uninit
          MaxCalls     \* bound on the calls of a process, for TLC

ASSUME LookupAssumption ==
    /\ Keys \subseteq Certs /\ Certs \subseteq Keys \cup {Malformed}
    /\ Malformed \notin Keys \cup Nat /\ "" \notin Keys \cup {Malformed}
    /\ LocalKeys \subseteq Uids \X Keys
    /\ SecureHomes \subseteq Homes /\ Homes \subseteq Uids
    /\ UseFed \in BOOLEAN
    /\ AttrOrders \subseteq Seq({"key", "time", "other"})
    /\ \A o \in AttrOrders : {"key", "time"} \subseteq {o[i] : i \in DOMAIN o}
    /\ Residue \subseteq {"zero", "garbage", "previous"} /\ Residue # {}
    /\ MaxCalls \in Nat

VARIABLES pw,         \* the user of each process
          pc,         \* where each process is
          key,        \* the key it was asked about
          calls,      \* how many calls it has begun
          tmp_file,   \* its stream: "null", "linked" or "orphan"
          rsa_key, rsa_key2, timeout,   \* the arrays of the two functions
          entry,      \* the directory entry the search returned
          attrs,      \* the attributes of it still to be visited
          success,    \* the result of the last call
          exists,     \* whether a user's temporary file is there
          content,    \* its lines, with who wrote them and when checked
          since,      \* history: when the current call began
          copied,     \* history: when rsa_key was last assigned
          accepted    \* history: the lines that let a key in, and the call's since

bufVars    == <<rsa_key, rsa_key2, timeout>>
fileVars   == <<exists, content>>
lookupVars == <<pw, pc, key, calls, tmp_file, bufVars, entry, attrs, success,
                fileVars, since, copied, accepted>>
vars       == <<dirVars, lookupVars>>

Texts    == Keys \cup {Malformed, ""}
(* timeout holds a deadline, bytes that compare either way (Malformed), or
   nothing, which compares like a deadline in the past (0).                *)
Timeouts == Nat \cup {Malformed}
Lines    == [by : Procs, text : Keys \cup {Malformed}, from : Nat, at : Nat]

LookupTypeOK ==
    /\ DirTypeOK
    /\ pw \in [Procs -> Uids]
    /\ pc \in [Procs -> {"idle", "ldap", "attr", "append", "verify",
                         "unlink", "exited", "dead"}]
    /\ key \in [Procs -> Keys]
    /\ calls \in [Procs -> Nat]
    /\ tmp_file \in [Procs -> {"null", "linked", "orphan"}]
    /\ rsa_key \in [Procs -> Texts] /\ rsa_key2 \in [Procs -> Texts]
    /\ timeout \in [Procs -> Timeouts]
    /\ entry \in [Procs -> Entries \cup {NoEntry}]
    /\ attrs \in [Procs -> Seq({"key", "time", "other"})]
    /\ success \in [Procs -> BOOLEAN]
    /\ exists \in [Uids -> BOOLEAN]
    /\ content \in [Uids -> SUBSET Lines]
    /\ since \in [Procs -> Nat] /\ copied \in [Procs -> Nat]
    /\ accepted \subseteq [user : Uids, line : Lines, since : Nat]

LookupInit ==
    /\ DirInit
    /\ pw \in [Procs -> Uids]
    /\ pc = [p \in Procs |-> "idle"]
    /\ key \in [Procs -> Keys]
    /\ calls = [p \in Procs |-> 0]
    /\ tmp_file = [p \in Procs |-> "null"]
    /\ rsa_key = [p \in Procs |-> ""] /\ rsa_key2 = [p \in Procs |-> ""]
    /\ timeout = [p \in Procs |-> 0]
    /\ entry = [p \in Procs |-> NoEntry]
    /\ attrs = [p \in Procs |-> <<>>]
    /\ success = [p \in Procs |-> FALSE]
    /\ exists = [u \in Uids |-> FALSE]
    /\ content = [u \in Uids |-> {}]
    /\ since = [p \in Procs |-> 0] /\ copied = [p \in Procs |-> 0]
    /\ accepted = {}

-----------------------------------------------------------------------------
(* What an array on the stack may hold before it is assigned: zeros, what
   the same array held in the previous call, or other bytes, which are
   assumed to be no key that key_read can parse.                           *)
Uninit(zero, previous) ==
    {IF x = "zero" THEN zero
     ELSE IF x = "garbage" THEN Malformed ELSE previous : x \in Residue}

Goto(p, l) == pc' = [pc EXCEPT ![p] = l]

(* The call returns: the stream, if still open, is never closed.           *)
Return(p, res) ==
    /\ Goto(p, "idle")
    /\ success' = [success EXCEPT ![p] = res]

(* user_key_allowed up to the federated part.  The temporary file is opened
   for appending, which creates it; the user's own files come first.       *)
Call(p, k) ==
    LET u == pw[p]
    IN  /\ pc[p] = "idle" /\ calls[p] < MaxCalls
        /\ calls' = [calls EXCEPT ![p] = @ + 1]
        /\ key' = [key EXCEPT ![p] = k]
        /\ since' = [since EXCEPT ![p] = now]
        /\ exists' = [exists EXCEPT ![u] = @ \/ u \in Homes]
        /\ tmp_file' = [tmp_file EXCEPT ![p] = IF u \in Homes THEN "linked"
                                                              ELSE "null"]
        /\ \E x \in Uninit("", rsa_key[p]) :
               rsa_key' = [rsa_key EXCEPT ![p] = x]
        /\ IF <<u, k>> \in LocalKeys \/ ~UseFed
           THEN Return(p, <<u, k>> \in LocalKeys)
           ELSE Goto(p, "ldap") /\ UNCHANGED success
        /\ UNCHANGED <<dirVars, pw, rsa_key2, timeout, entry, attrs, content,
                       copied, accepted>>

(* A mutant: the search filter does not name the user. *)
LdapSearch_AnyUser(p) ==
    /\ pc[p] = "ldap"
    /\ \E u \in Uids : entry' = [entry EXCEPT ![p] = dir[u]]
    /\ \E x \in Uninit("", rsa_key2[p]) : rsa_key2' = [rsa_key2 EXCEPT ![p] = x]
    /\ \E t \in Uninit(0, timeout[p]) : timeout' = [timeout EXCEPT ![p] = t]
    /\ \E o \in AttrOrders : attrs' = [attrs EXCEPT ![p] = o]
    /\ Goto(p, IF entry'[p] = NoEntry THEN "append" ELSE "attr")
    /\ UNCHANGED <<dirVars, pw, key, calls, tmp_file, rsa_key, success,
                   fileVars, since, copied, accepted>>

(* get_rsa_key_ldap up to the answer of the search.                        *)
LdapSearch(p) ==
    /\ pc[p] = "ldap"
    /\ entry' = [entry EXCEPT ![p] = dir[pw[p]]]
    /\ \E x \in Uninit("", rsa_key2[p]) : rsa_key2' = [rsa_key2 EXCEPT ![p] = x]
    /\ \E t \in Uninit(0, timeout[p]) : timeout' = [timeout EXCEPT ![p] = t]
    /\ \E o \in AttrOrders : attrs' = [attrs EXCEPT ![p] = o]
    /\ Goto(p, IF entry'[p] = NoEntry THEN "append" ELSE "attr")
    /\ UNCHANGED <<dirVars, pw, key, calls, tmp_file, rsa_key, success,
                   fileVars, since, copied, accepted>>

(* A call up to the answer fails: -1, which the caller ignores.  When it is
   ldap_result, the entries of a message that was never assigned are
   counted, and there are none or the process ends there.                  *)
LdapFails(p) ==
    /\ pc[p] = "ldap"
    /\ entry' = [entry EXCEPT ![p] = NoEntry]
    /\ \E l \in {"append", "dead"} : Goto(p, l)
    /\ UNCHANGED <<dirVars, pw, key, calls, tmp_file, bufVars, attrs, success,
                   fileVars, since, copied, accepted>>

(* A mutant: the clock is read one second ahead. *)
check_timeout_Ahead(t) == IF t = Malformed THEN BOOLEAN ELSE {now + 1 < t}

(* The results check_timeout may return; CheckTimeout relates the texts the
   function compares to these numbers.                                     *)
check_timeout(t) == IF t = Malformed THEN BOOLEAN ELSE {now < t}

(* One round of the attribute loop: the values are copied, then the timeout
   is tested, whether or not it has been read yet.                         *)
VisitAttr(p) ==
    LET a    == Head(attrs[p])
        t    == IF a = "time" THEN entry[p].timeout ELSE timeout[p]
        text == IF a = "key" THEN entry[p].key ELSE rsa_key2[p]
    IN  /\ pc[p] = "attr"
        /\ timeout' = [timeout EXCEPT ![p] = t]
        /\ rsa_key2' = [rsa_key2 EXCEPT ![p] = text]
        /\ \E valid \in check_timeout(t) :
               IF valid
               THEN /\ rsa_key' = [rsa_key EXCEPT ![p] = text]
                    /\ copied' = [copied EXCEPT ![p] = now]
               ELSE UNCHANGED <<rsa_key, copied>>
        /\ attrs' = [attrs EXCEPT ![p] = Tail(@)]
        /\ Goto(p, IF Tail(attrs[p]) = <<>> THEN "append" ELSE "attr")
        /\ UNCHANGED <<dirVars, pw, key, calls, tmp_file, entry, success,
                       fileVars, since, accepted>>

(* Nothing to try: the call returns, and the empty file stays.             *)
NothingFound(p) ==
    /\ pc[p] = "append"
    /\ rsa_key[p] = ""
    /\ Return(p, FALSE)
    /\ entry' = [entry EXCEPT ![p] = NoEntry]
    /\ UNCHANGED <<dirVars, pw, key, calls, tmp_file, bufVars, attrs,
                   fileVars, since, copied, accepted>>

(* A mutant: an empty answer is written too. *)
AppendLine_Empty(p) ==
    LET line == [by |-> p, text |-> rsa_key[p], from |-> since[p],
                 at |-> copied[p]]
    IN  /\ pc[p] = "append"
        /\ tmp_file[p] = "linked"
        /\ content' = [content EXCEPT ![pw[p]] = @ \cup {line}]
        /\ Goto(p, "verify")
        /\ entry' = [entry EXCEPT ![p] = NoEntry]
        /\ UNCHANGED <<dirVars, pw, key, calls, tmp_file, bufVars,
                       attrs, success, exists, since, copied, accepted>>

(* A mutant: the stream is not closed before the file is read, so the line
   is still in its buffer. *)
AppendLine_NotFlushed(p) ==
    /\ pc[p] = "append"
    /\ rsa_key[p] # "" /\ tmp_file[p] # "null"
    /\ Goto(p, "verify")
    /\ entry' = [entry EXCEPT ![p] = NoEntry]
    /\ UNCHANGED <<dirVars, pw, key, calls, tmp_file, bufVars, attrs,
                   success, fileVars, since, copied, accepted>>

(* fwrite and fclose: the line reaches the file the stream was opened on,
   which may have lost its name since.                                     *)
AppendLine(p) ==
    LET line == [by |-> p, text |-> rsa_key[p], from |-> since[p],
                 at |-> copied[p]]
    IN  /\ pc[p] = "append"
        /\ rsa_key[p] # "" /\ tmp_file[p] # "null"
        /\ content' = IF tmp_file[p] = "linked"
                      THEN [content EXCEPT ![pw[p]] = @ \cup {line}]
                      ELSE content
        /\ Goto(p, "verify")
        /\ entry' = [entry EXCEPT ![p] = NoEntry]
        /\ UNCHANGED <<dirVars, pw, key, calls, tmp_file, bufVars,
                       attrs, success, exists, since, copied, accepted>>

(* fopen had failed: fwrite on a null stream ends the process.             *)
AppendCrashes(p) ==
    /\ pc[p] = "append"
    /\ rsa_key[p] # "" /\ tmp_file[p] = "null"
    /\ Goto(p, "dead")
    /\ UNCHANGED <<dirVars, pw, key, calls, tmp_file, bufVars, entry, attrs,
                   success, fileVars, since, copied, accepted>>

(* The lines of u's temporary file that user_key_allowed2 accepts for k:
   none if the file is gone or StrictModes refuses it.                     *)
Matching(u, k) ==
    {l \in content[u] : exists[u] /\ u \in SecureHomes /\ l.text = k}

(* user_key_allowed2 on the temporary file.                                *)
Verify(p) ==
    LET found == Matching(pw[p], key[p])
    IN  /\ pc[p] = "verify"
        /\ success' = [success EXCEPT ![p] = found # {}]
        /\ accepted' = accepted \cup
              {[user |-> pw[p], line |-> l, since |-> since[p]] : l \in found}
        /\ Goto(p, "unlink")
        /\ UNCHANGED <<dirVars, pw, key, calls, tmp_file, bufVars, entry,
                       attrs, fileVars, since, copied>>

(* A mutant: the file is only removed when the key was refused. *)
Unlink_IfRefused(p) ==
    LET u == pw[p]
    IN  /\ pc[p] = "unlink"
        /\ Goto(p, "idle")
        /\ exists' = [exists EXCEPT ![u] = success[p] /\ @]
        /\ content' = [content EXCEPT ![u] = IF success[p] THEN @ ELSE {}]
        /\ tmp_file' = tmp_file
        /\ UNCHANGED <<dirVars, pw, key, calls, bufVars, entry, attrs,
                       success, since, copied, accepted>>

(* unlink: the name goes away, and with it the lines for every later open;
   the streams open on the file keep writing to it unseen.                 *)
Unlink(p) ==
    LET u == pw[p]
    IN  /\ pc[p] = "unlink"
        /\ Goto(p, "idle")
        /\ exists' = [exists EXCEPT ![u] = FALSE]
        /\ content' = [content EXCEPT ![u] = {}]
        /\ tmp_file' = [q \in Procs |->
                           IF pw[q] = u /\ tmp_file[q] = "linked"
                           THEN "orphan" ELSE tmp_file[q]]
        /\ UNCHANGED <<dirVars, pw, key, calls, bufVars, entry, attrs,
                       success, since, copied, accepted>>

Running == {"ldap", "attr", "append", "verify", "unlink"}

(* A mutant: a process that waits for the directory ignores the alarm. *)
GraceAlarm_NotInLdap(p) ==
    /\ pc[p] \in (Running \ {"ldap"}) \cup {"idle"}
    /\ Goto(p, "dead")
    /\ UNCHANGED <<dirVars, pw, key, calls, tmp_file, bufVars, entry, attrs,
                   success, fileVars, since, copied, accepted>>

(* grace_alarm_handler: the process exits wherever it is.                  *)
GraceAlarm(p) ==
    /\ pc[p] \in Running \cup {"idle"}
    /\ Goto(p, "dead")
    /\ UNCHANGED <<dirVars, pw, key, calls, tmp_file, bufVars, entry, attrs,
                   success, fileVars, since, copied, accepted>>

(* Authentication is over, with success or by the client's leave: alarm(0),
   and user_key_allowed is not called again.                               *)
Leave(p) ==
    /\ pc[p] = "idle"
    /\ Goto(p, "exited")
    /\ UNCHANGED <<dirVars, pw, key, calls, tmp_file, bufVars, entry, attrs,
                   success, fileVars, since, copied, accepted>>

(* The steps the process takes by itself, without waiting for anyone.      *)
OwnStep(p) ==
    \/ VisitAttr(p) \/ NothingFound(p) \/ AppendLine(p) \/ AppendCrashes(p)
    \/ Verify(p) \/ Unlink(p)

Server ==
    \E p \in Procs :
        \/ \E k \in Keys : Call(p, k)
        \/ LdapSearch(p) \/ LdapFails(p) \/ OwnStep(p)
        \/ GraceAlarm(p) \/ Leave(p)

LookupNext == (DirNext /\ UNCHANGED lookupVars) \/ Server

(* ldap_result waits without a time limit, so the answer of the directory
   is not assumed; the alarm is.                                           *)
LookupSpec ==
    /\ LookupInit /\ [][LookupNext]_vars
    /\ \A p \in Procs : WF_vars(OwnStep(p)) /\ WF_vars(GraceAlarm(p))
-----------------------------------------------------------------------------
(***************************************************************************)
(* Whatever the arrays hold (see Uninit), whoever shares the file and      *)
(* whoever died leaving it: a key that user_key_allowed accepts from the   *)
(* temporary file is one the directory has held for that very user.        *)
(***************************************************************************)
KeyProvenance ==
    \A a \in accepted : \E g \in granted :
        g[1] = a.user /\ g[2] = a.line.text

(***************************************************************************)
(* A key stays in the temporary file only while the process that appended  *)
(* it is about to read or unlink it, or because that process died there.   *)
(* So when no process died, an idle server leaves no key behind.           *)
(***************************************************************************)
LinesHaveLiveWriter ==
    \A u \in Uids : \A l \in content[u] :
        /\ exists[u] /\ pw[l.by] = u
        /\ pc[l.by] \in {"verify", "unlink", "dead"}

(***************************************************************************)
(* While a session is open the lookup finds its key: when the attributes   *)
(* of the entry have been visited, in whatever order the server lists them *)
(* and whatever the arrays held before, rsa_key is the key of the entry    *)
(* unless its deadline has passed by now.                                  *)
(***************************************************************************)
OpenSessionFound ==
    \A p \in Procs :
        pc[p] = "append" /\ entry[p] # NoEntry /\ now < entry[p].timeout
        => rsa_key[p] = entry[p].key

(***************************************************************************)
(* The key of an open session that was found and appended lets its owner   *)
(* in, whatever other connections of the user append and read meanwhile,   *)
(* as long as none of them has unlinked the file since this call opened it.*)
(***************************************************************************)
FoundKeyIsAccepted ==
    \A p \in Procs :
        /\ pc[p] = "unlink" /\ tmp_file[p] = "linked"
        /\ rsa_key[p] = key[p] /\ pw[p] \in SecureHomes
        => success[p]

(***************************************************************************)
(* implementacion.tex:142-144 has get_rsa_key_ldap return an empty string  *)
(* once the timeout has passed.  So a key is accepted only if its user has *)
(* had an open session with it at some moment of the call, or later.       *)
(***************************************************************************)
AcceptedWhileOpen ==
    \A a \in accepted : \E g \in granted :
        g[1] = a.user /\ g[2] = a.line.text /\ g[3] > a.since

(***************************************************************************)
(* A call always comes to an end, even when the directory never answers:   *)
(* the login grace alarm sees to it.                                       *)
(***************************************************************************)
CallsEnd == \A p \in Procs : pc[p] \in Running ~> pc[p] \in {"idle", "dead"}
=============================================================================
