---------------------------- MODULE RsaKeyServer ----------------------------
(***************************************************************************)
(* The first key server, servidor_de_RSA.py: a main thread that accepts    *)
(* connections, a thread per connection that answers "USR name" lines from *)
(* a database table, and a chain of timers that removes the sessions whose *)
(* time is over.  get_rsa_key in openssh/ssh_fed.c is its client.          *)
(*                                                                         *)
(* Time is counted in minutes, the unit the server compares, and a sweep   *)
(* of the table is taken to end within the minute it began in.  The        *)
(* database is external: every statement takes effect at once or fails.    *)
(***************************************************************************)
EXTENDS Naturals, Sequences, SequencesExt

CONSTANTS Uids,      \* users with a row in the table pubkey
          Conns,     \* connections
          Day,       \* minutes of a day: timedelta.seconds starts again there
          Limit,     \* the column timeout of every row
          MaxFails,  \* bound on the failed sweeps, for TLC
          MaxSent,   \* bound on the messages of a client, for TLC
          NoRow

ASSUME KeyServerAssumption ==
    /\ Day \in Nat /\ Limit \in Nat /\ Limit + 1 < Day
    /\ MaxFails \in Nat /\ MaxSent \in Nat

VARIABLES row,      \* the table pubkey
          main,     \* the main thread: "init", "accept", "close", "host", "ended"
          host,     \* whether HOST is still set
          timer,    \* the timer chain: "none", "waiting", "due", "cancelled"
          first,    \* whether the waiting timer is the one main knows
          sweep,    \* where timeout_check is: "none", "select", "delete", "rearm"
          doomed,   \* the users it still has to delete
          renewed,  \* history: users registered since it read the table
          fails,    \* how many sweeps have failed
          conn,     \* the thread of each connection: "none", "running", "left" (by
                    \* its client), and how it ended: "exit", "closed", "timed out"
          stream,   \* what the client sent and the thread has not received
          msg,      \* self.msg
          sent,     \* how many messages the client has sent
          asked,    \* history: the names in the USR lines received
          answers   \* history: the names that were looked up

tableVars == <<row, renewed>>
sweepVars == <<timer, first, sweep, doomed, fails>>
connVars  == <<conn, stream, msg, sent, asked, answers>>
vars      == <<tableVars, main, host, sweepVars, connVars>>

-----------------------------------------------------------------------------
(* What travels: the lines that run understands.  get_rsa_key sends the rest
   of its 100 byte buffer after the line.  Cut is a name that lost its end. *)
Cut        == "cut"
CRLF       == <<"crlf", "">>
Usr(u)     == <<"USR", u>>
Other      == <<"junk", "">>
XIT        == <<"XIT", "">>
Empty      == <<"", "">>
Messages   == {<<Usr(u), CRLF>> \o rest : u \in Uids, rest \in {<<>>, <<Other>>}}
                \cup {<<XIT, CRLF>>}

(* ServidorRSA.__init__ begins with a call of timeout_check.               *)
Init ==
    /\ row = [u \in Uids |-> NoRow] /\ renewed = {}
    /\ main = "init" /\ host = TRUE
    /\ timer = "none" /\ first = TRUE
    /\ sweep = "select" /\ doomed = {} /\ fails = 0
    /\ conn = [c \in Conns |-> "none"]
    /\ stream = [c \in Conns |-> <<>>] /\ msg = [c \in Conns |-> <<>>]
    /\ sent = [c \in Conns |-> 0]
    /\ asked = [c \in Conns |-> <<>>] /\ answers = [c \in Conns |-> <<>>]

-----------------------------------------------------------------------------
(* Someone writes the row of u: init is now.                               *)
Register(u) ==
    /\ row' = [row EXCEPT ![u] = [age |-> 0, over |-> FALSE]]
    /\ renewed' = renewed \cup {u}
    /\ UNCHANGED <<main, host, sweepVars, connVars>>

(* A minute passes.  age is what (now - init).seconds / 60 gives, which
   forgets whole days; over is whether the session really is too old.      *)
Older(r) ==
    IF r = NoRow THEN NoRow
    ELSE [age |-> (r.age + 1) % Day, over |-> r.over \/ r.age + 1 > Limit]

Minute ==
    /\ timer # "due" /\ sweep = "none"
    /\ row' = [u \in Uids |-> Older(row[u])]
    /\ timer' = IF timer = "waiting" THEN "due" ELSE timer
    /\ UNCHANGED <<renewed, main, host, first, sweep, doomed, fails, connVars>>

(* threading.Timer calls timeout_check in its own thread.                  *)
Fire ==
    /\ timer = "due"
    /\ timer' = "none" /\ first' = FALSE /\ sweep' = "select"
    /\ UNCHANGED <<tableVars, main, host, doomed, fails, connVars>>

(* A mutant: a session ends one minute early. *)
Expired_Early(r) == r # NoRow /\ r.age >= Limit

(* delta > t.                                                              *)
Expired(r) == r # NoRow /\ r.age > Limit

(* timeout_check reads the whole table and picks the old sessions.         *)
timeout_check ==
    /\ sweep = "select"
    /\ doomed' = {u \in Uids : Expired(row[u])}
    /\ renewed' = {}
    /\ sweep' = IF doomed' = {} THEN "rearm" ELSE "delete"
    /\ UNCHANGED <<row, main, host, timer, first, fails, connVars>>

(* delete from pubkey where uid = user: the row as it is now.              *)
DeleteRow(u) ==
    /\ sweep = "delete" /\ u \in doomed
    /\ row' = [row EXCEPT ![u] = NoRow]
    /\ doomed' = doomed \ {u}
    /\ sweep' = IF doomed' = {} THEN "rearm" ELSE "delete"
    /\ UNCHANGED <<renewed, main, host, timer, first, fails, connVars>>

(* A mutant: an exception ends timeout_check. *)
SweepFails_NoTimer ==
    /\ sweep \in {"select", "delete"} /\ fails < MaxFails
    /\ fails' = fails + 1
    /\ doomed' = {} /\ sweep' = "none"
    /\ main' = IF main = "init" THEN "accept" ELSE main
    /\ UNCHANGED <<tableVars, host, timer, first, connVars>>

(* Any exception between connect and the last delete: except: pass.        *)
SweepFails ==
    /\ sweep \in {"select", "delete"} /\ fails < MaxFails
    /\ fails' = fails + 1
    /\ doomed' = {} /\ sweep' = "rearm"
    /\ UNCHANGED <<tableVars, main, host, timer, first, connVars>>

(* A mutant: the next timer is started whatever HOST is. *)
Rearm_Always ==
    /\ sweep = "rearm" /\ sweep' = "none"
    /\ timer' = "waiting"
    /\ main' = IF main = "init" THEN "accept" ELSE main
    /\ UNCHANGED <<tableVars, host, first, doomed, fails, connVars>>

(* if HOST != "": the next timer.  The first call returns to __init__,
   which keeps that first timer in self.tcheck and goes on to accept.      *)
Rearm ==
    /\ sweep = "rearm" /\ sweep' = "none"
    /\ timer' = IF host THEN "waiting" ELSE "none"
    /\ main' = IF main = "init" THEN "accept" ELSE main
    /\ UNCHANGED <<tableVars, host, first, doomed, fails, connVars>>

-----------------------------------------------------------------------------
(* respond: the connection gets a thread.                                  *)
Accept(c) ==
    /\ main = "accept" /\ conn[c] = "none"
    /\ conn' = [conn EXCEPT ![c] = "running"]
    /\ UNCHANGED <<tableVars, main, host, sweepVars, stream, msg, sent, asked,
                   answers>>

(* accept is interrupted or fails: self.tcheck.cancel() only reaches the
   first timer, and only before it fires.                                  *)
Interrupt ==
    /\ main = "accept" /\ main' = "close"
    /\ timer' = IF first /\ timer \in {"waiting", "due"} THEN "cancelled"
                                                         ELSE timer
    /\ UNCHANGED <<tableVars, host, first, sweep, doomed, fails, connVars>>

close_all ==
    /\ main = "close" /\ main' = "host"
    /\ UNCHANGED <<tableVars, host, sweepVars, connVars>>

(* HOST = "" and sys.exit, which __init__ catches: the main thread ends,
   the process when the other threads have.                                *)
ForgetHost ==
    /\ main = "host" /\ main' = "ended"
    /\ host' = FALSE
    /\ UNCHANGED <<tableVars, sweepVars, connVars>>

-----------------------------------------------------------------------------
Close(c, how) == conn' = [conn EXCEPT ![c] = how]

(* The client sends a message, or closes its side (it is then "left").     *)
ClientSends(c) ==
    /\ conn[c] = "running" /\ sent[c] < MaxSent
    /\ sent' = [sent EXCEPT ![c] = @ + 1]
    /\ \E m \in Messages : stream' = [stream EXCEPT ![c] = @ \o m]
    /\ UNCHANGED <<tableVars, main, host, sweepVars, conn, msg, asked, answers>>

ClientLeaves(c) ==
    /\ conn[c] = "running" /\ Close(c, "left")
    /\ UNCHANGED <<tableVars, main, host, sweepVars, stream, msg, sent, asked,
                   answers>>

(* buffer.split('\r\n'): as many lines as separators, and one more.        *)
Split(s) ==
    LET lines[i \in 0 .. Len(s)] ==
            IF i = 0 THEN <<Empty>>
            ELSE LET before == lines[i - 1]
                 IN  IF s[i] = CRLF THEN Append(before, Empty)
                     ELSE IF Last(before) = Empty THEN Append(Front(before), s[i])
                     ELSE before
    IN  lines[Len(s)]

Names(lines) ==
    LET usr == SelectSeq(lines, LAMBDA l : l[1] = "USR")
    IN  [i \in 1 .. Len(usr) |-> usr[i][2]]

(* A mutant: the first empty line ends the conversation. *)
Pending_First(m) == m

(* The lines from the first that is not empty on.                          *)
Pending(m) ==
    LET full == {i \in 1 .. Len(m) : m[i] # Empty}
    IN  IF full = {} THEN <<>>
        ELSE SubSeq(m, CHOOSE i \in full : \A j \in full : i <= j, Len(m))

(* How the loop goes on after the command that heads q.                    *)
Verdict(q, before) ==
    IF q = <<>> \/ q[1] = Empty THEN "closed"
    ELSE IF q[1] = XIT THEN "exit" ELSE before

(* The body of run: one command is taken and answered, the others wait for
   the next recv.                                                          *)
Handle(c, m) ==
    LET q == Pending(m)
    IN  /\ msg' = [msg EXCEPT ![c] = IF q = <<>> THEN <<>> ELSE Tail(q)]
        /\ answers' = [answers EXCEPT ![c] =
                          IF q # <<>> /\ q[1][1] = "USR"
                          THEN Append(@, q[1][2]) ELSE @]
        /\ conn' = [conn EXCEPT ![c] = Verdict(q, @)]

(* recv returns the first n pieces, the last of them whole or, when it is a
   name, without its end.                                                  *)
Received(c, lines, rest) ==
    /\ asked' = [asked EXCEPT ![c] = @ \o Names(lines)]
    /\ stream' = [stream EXCEPT ![c] = rest]
    /\ Handle(c, msg[c] \o lines)
    /\ UNCHANGED <<tableVars, main, host, sweepVars, sent>>

Recv(c) ==
    /\ conn[c] \in {"running", "left"}
    /\ \E n \in 1 .. Len(stream[c]) :
          LET s == stream[c]
          IN  \/ Received(c, Split(SubSeq(s, 1, n)), SubSeq(s, n + 1, Len(s)))
              \/ /\ s[n] # CRLF /\ s[n][1] = "USR"
                 /\ Received(c, Split(Append(SubSeq(s, 1, n - 1), Usr(Cut))),
                             <<Other>> \o SubSeq(s, n + 1, Len(s)))

(* The client has gone: recv returns the empty string, again and again.    *)
RecvNothing(c) ==
    /\ conn[c] = "left" /\ stream[c] = <<>>
    /\ Received(c, <<Empty>>, <<>>)

(* settimeout(60): the exception ends the loop.                            *)
RecvTimeout(c) ==
    /\ conn[c] = "running" /\ stream[c] = <<>>
    /\ Close(c, "timed out")
    /\ UNCHANGED <<tableVars, main, host, sweepVars, stream, msg, sent, asked,
                   answers>>

Responser(c) == Recv(c) \/ RecvNothing(c) \/ RecvTimeout(c)

Sweeping == timeout_check \/ SweepFails \/ Rearm \/ \E u \in Uids : DeleteRow(u)

Next ==
    \/ \E u \in Uids : Register(u)
    \/ Minute \/ Fire \/ Sweeping
    \/ Interrupt \/ close_all \/ ForgetHost
    \/ \E c \in Conns : Accept(c) \/ ClientSends(c) \/ ClientLeaves(c) \/ Responser(c)

(* Threads that can run do, and the clock goes on.                         *)
Spec ==
    /\ Init /\ [][Next]_vars
    /\ WF_vars(Minute) /\ WF_vars(Fire) /\ WF_vars(Sweeping)
    /\ WF_vars(close_all \/ ForgetHost)
    /\ \A c \in Conns : WF_vars(Responser(c))
-----------------------------------------------------------------------------
(***************************************************************************)
(* A session that nobody renewed during a sweep is removed by that sweep   *)
(* only when its time is over, however many days it lay in the table.      *)
(***************************************************************************)
RemovedWhenOver ==
    [][\A u \in Uids : row[u] # NoRow /\ row'[u] = NoRow
           => row[u].over \/ u \in renewed]_vars

(***************************************************************************)
(* TODO: the server removes the users who reach the time limit.  Although  *)
(* a sweep may fail, and a session that was missed looks young again on    *)
(* the next day, it is removed in the end while the server runs.           *)
(***************************************************************************)
OldSessionsGo ==
    \A u \in Uids :
        row[u] # NoRow /\ row[u].over
            ~> row[u] = NoRow \/ ~row[u].over \/ main # "accept"

(***************************************************************************)
(* Once HOST is cleared the process ends: the timer that cancel missed     *)
(* fires once more at most, and no connection stays open without data.     *)
(***************************************************************************)
ServerEnds ==
    ~host ~> /\ timer \in {"none", "cancelled"} /\ sweep = "none"
             /\ \A c \in Conns : conn[c] \notin {"running", "left"}

(***************************************************************************)
(* However TCP cuts the stream, the names are looked up in the order in    *)
(* which they were received, each at most once; and although run takes one *)
(* command per recv, when it ends because the client has left, none is     *)
(* left in self.msg.                                                       *)
(***************************************************************************)
AllAnswered ==
    \A c \in Conns : /\ IsPrefix(answers[c], asked[c])
                    /\ conn[c] = "closed" => answers[c] = asked[c]
=============================================================================
