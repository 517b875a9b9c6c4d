---------------------------- MODULE KeyDirectory ----------------------------
(***************************************************************************)
(* The key server: the LDAP directory that the login page writes and sshd  *)
(* reads, and the wall clock both consult.  The directory server is not    *)
(* part of this repository; it is modelled from what ssh/ssh_backend.php   *)
(* stores in it and what openssh/ssh_fed.c reads from it.                  *)
(*                                                                         *)
(* DirSpec is also the abstract specification of the login page: whatever  *)
(* the page does, an observer of the directory sees only sessions being    *)
(* stored, entries going away and time passing.  LoginPortal is shown to   *)
(* implement it, although no deletion of the page reaches the directory.   *)
(***************************************************************************)
EXTENDS Naturals

CONSTANTS Uids,         \* account names, <user>-<organisation>
          Certs,        \* stored texts: they start with ssh-rsa or ssh-dss
          SessionTime,  \* $minutes_timeout * 60
          MaxTime,      \* bound on the clock, for TLC
          NoEntry

ASSUME DirAssumption ==
    /\ SessionTime \in Nat \ {0}
    /\ MaxTime \in Nat
    /\ NoEntry \notin [key : Certs, timeout : Nat]

VARIABLES now,      \* time(NULL), getdate()[0]
          dir,      \* the entry of each uid
          granted   \* history: every <<uid, text, timeout>> ever stored

dirVars == <<now, dir, granted>>

Entries == [key : Certs, timeout : Nat]

DirTypeOK ==
    /\ now \in Nat
    /\ dir \in [Uids -> Entries \cup {NoEntry}]
    /\ granted \subseteq Uids \X Certs \X Nat

DirInit ==
    /\ now = 0
    /\ dir = [u \in Uids |-> NoEntry]
    /\ granted = {}

(* A mutant: the deadline is twice as far away. *)
DirStore_Long(u, k, t) ==
    /\ dir' = [dir EXCEPT ![u] = [key |-> k, timeout |-> t + 2 * SessionTime]]
    /\ granted' = granted \cup {<<u, k, t + 2 * SessionTime>>}
    /\ now' = now

(* The entry of u gets the text k and a session that began at time t.      *)
DirStore(u, k, t) ==
    /\ dir' = [dir EXCEPT ![u] = [key |-> k, timeout |-> t + SessionTime]]
    /\ granted' = granted \cup {<<u, k, t + SessionTime>>}
    /\ now' = now

(* The entry of u goes away: what delete.php asks the server for.          *)
DirDelete(u) ==
    /\ dir' = [dir EXCEPT ![u] = NoEntry]
    /\ UNCHANGED <<now, granted>>

Tick ==
    /\ now < MaxTime
    /\ now' = now + 1
    /\ UNCHANGED <<dir, granted>>

DirNext ==
    \/ Tick
    \/ \E u \in Uids, k \in Certs, t \in 0 .. now : DirStore(u, k, t)
    \/ \E u \in Uids : DirDelete(u)

DirSpec == DirInit /\ [][DirNext]_dirVars

(***************************************************************************)
(* A session never outlives the moment it is looked at by more than        *)
(* $minutes_timeout, and every entry is one that was stored: modify and    *)
(* add in ssh_backend.php compute the timeout from a clock read before the *)
(* write.                                                                  *)
(***************************************************************************)
SessionBound ==
    \A u \in Uids : dir[u] # NoEntry =>
        /\ dir[u].timeout <= now + SessionTime
        /\ <<u, dir[u].key, dir[u].timeout>> \in granted
=============================================================================
