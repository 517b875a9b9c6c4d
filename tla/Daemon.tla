------------------------------- MODULE Daemon -------------------------------
(***************************************************************************)
(* The sshd daemon (openssh/sshd.c, server_accept_loop and its signal      *)
(* handlers): it accepts connections, forks a process for each, counts the *)
(* unauthenticated ones by a pipe to each, replaces the ephemeral server   *)
(* key of protocol 1, restarts on SIGHUP and ends on SIGTERM.              *)
(*                                                                         *)
(* The loop is cut where a signal or a child may get in between: before    *)
(* the check of SIGHUP, between that check and select, in select, between  *)
(* select and the work it returns, and between two accepts.  The signal    *)
(* handlers only set flags.                                                *)
(***************************************************************************)
EXTENDS Integers, FiniteSets

CONSTANTS Conns, NoConn, Listeners,
          max_startups_begin, max_startups_rate, max_startups,
          Proto1         \* options.protocol & SSH_PROTO_1

(* What becomes of a connection outside the queues of the listeners.       *)
Fates == {"away", "dropped", "unauth", "auth", "gone", "gaveup"}

ASSUME DaemonAssumption ==
    /\ NoConn \notin Conns /\ Proto1 \in BOOLEAN /\ Listeners \cap Fates = {}
    /\ max_startups \in Nat \ {0} /\ max_startups_begin \in 0..max_startups
    /\ max_startups_rate \in 1..100

VARIABLES loop,          \* "top", "enter" (about to select), "select", "awake",
                         \* "accept", or "exited"
          ready,         \* fdset after select; no sockets and no pipes after EINTR
          startup_pipes, startups,
          received_sighup, received_sigterm,
          key_used, key_do_regen,
          alarm,         \* the key regeneration alarm is running
          conn,          \* where each connection is: a queue, or what became of it
          mine,          \* history: children forked since the last restart
          given          \* history: a child has been given the current server key

signals == <<received_sighup, received_sigterm>>
key     == <<key_used, key_do_regen, alarm, given>>
vars    == <<loop, ready, startup_pipes, startups, signals, key, conn, mine>>

Slots == 1..max_startups
EmptySlots == [s \in Slots |-> NoConn]
Nothing == [socks |-> {}, pipes |-> {}]

Unauthenticated == {c \in Conns : conn[c] = "unauth"}

(* The child holds the write end until it is authenticated or dies.        *)
Closed(c) == conn[c] \in {"auth", "gone"}

Queued(l) == {c \in Conns : conn[c] = l}

Init ==
    /\ loop = "top" /\ ready = Nothing /\ startup_pipes = EmptySlots /\ startups = 0
    /\ received_sighup = FALSE /\ received_sigterm = FALSE
    /\ key_used = FALSE /\ key_do_regen = FALSE /\ alarm = FALSE /\ given = FALSE
    /\ conn = [c \in Conns |-> "away"] /\ mine = {}
-----------------------------------------------------------------------------
(* Top of the loop: sighup_restart executes the program again.             *)
sighup_restart ==
    /\ loop = "top" /\ received_sighup
    /\ startup_pipes' = EmptySlots /\ startups' = 0 /\ mine' = {}
    /\ received_sighup' = FALSE /\ received_sigterm' = FALSE
    /\ key_used' = FALSE /\ key_do_regen' = FALSE /\ alarm' = FALSE /\ given' = FALSE
    /\ UNCHANGED <<loop, ready, conn>>

(* A mutant: the flag is not looked at. *)
CheckSighup_Skips ==
    /\ loop = "top" /\ loop' = "enter"
    /\ UNCHANGED <<ready, startup_pipes, startups, signals, key, conn, mine>>

CheckSighup ==
    /\ loop = "top" /\ ~received_sighup /\ loop' = "enter"
    /\ UNCHANGED <<ready, startup_pipes, startups, signals, key, conn, mine>>

ReadySocks == {l \in Listeners : Queued(l) # {}}
(* A mutant: the last slot is not looked at. *)
ReadyPipes_Short ==
    {s \in Slots \ {max_startups} : startup_pipes[s] # NoConn /\ Closed(startup_pipes[s])}

ReadyPipes == {s \in Slots : startup_pipes[s] # NoConn /\ Closed(startup_pipes[s])}

(* select returns at once when something is ready, and blocks otherwise.   *)
Select ==
    /\ loop \in {"enter", "select"}
    /\ IF ReadySocks \cup ReadyPipes = {}
       THEN loop = "enter" /\ loop' = "select" /\ UNCHANGED ready
       ELSE loop' = "awake" /\ ready' = [socks |-> ReadySocks, pipes |-> ReadyPipes]
    /\ UNCHANGED <<startup_pipes, startups, signals, key, conn, mine>>

Terminate ==
    /\ loop = "awake" /\ received_sigterm /\ loop' = "exited"
    /\ UNCHANGED <<ready, startup_pipes, startups, signals, key, conn, mine>>

(* A mutant: the new key still counts as used. *)
generate_ephemeral_server_key_Used ==
    IF key_used /\ key_do_regen
    THEN key_do_regen' = FALSE /\ given' = FALSE /\ UNCHANGED key_used
    ELSE UNCHANGED <<key_used, key_do_regen, given>>

generate_ephemeral_server_key ==
    IF key_used /\ key_do_regen
    THEN key_used' = FALSE /\ key_do_regen' = FALSE /\ given' = FALSE
    ELSE UNCHANGED <<key_used, key_do_regen, given>>

(* A mutant: the slot of a closed pipe is not cleared. *)
ClosePipes_Keep ==
    /\ loop = "awake" /\ ~received_sigterm /\ loop' = "accept"
    /\ generate_ephemeral_server_key /\ UNCHANGED alarm
    /\ startups' = startups - Cardinality(ready.pipes)
    /\ ready' = [ready EXCEPT !.pipes = {}]
    /\ UNCHANGED <<startup_pipes, signals, conn, mine>>

(* After select: the key, then the pipes whose child is authenticated or
   dead.                                                                   *)
ClosePipes ==
    /\ loop = "awake" /\ ~received_sigterm /\ loop' = "accept"
    /\ generate_ephemeral_server_key /\ UNCHANGED alarm
    /\ startup_pipes' = [s \in Slots |-> IF s \in ready.pipes THEN NoConn ELSE startup_pipes[s]]
    /\ startups' = startups - Cardinality(ready.pipes)
    /\ ready' = [ready EXCEPT !.pipes = {}]
    /\ UNCHANGED <<signals, conn, mine>>

(* A mutant: one connection too many. *)
drop_connection_More ==
    IF startups < max_startups_begin THEN {FALSE}
    ELSE IF startups > max_startups \/ max_startups_rate = 100 THEN {TRUE} ELSE BOOLEAN

drop_connection ==
    IF startups < max_startups_begin THEN {FALSE}
    ELSE IF startups >= max_startups \/ max_startups_rate = 100 THEN {TRUE}
    ELSE LET p == ((100 - max_startups_rate) * (startups - max_startups_begin))
                    \div (max_startups - max_startups_begin) + max_startups_rate
         IN  {r < p : r \in {0, 99}}

(* accept, the verdict of drop_connection, the pipe, which may fail too, the
   slot, and fork, which may fail; a connection the client has given up in
   the queue is skipped.                                                   *)
Accept(l) ==
    /\ loop = "accept" /\ l \in ready.socks
    /\ ready' = [ready EXCEPT !.socks = @ \ {l}]
    /\ \/ /\ Queued(l) = {}
          /\ UNCHANGED <<startup_pipes, startups, key, conn, mine>>
       \/ \E c \in Queued(l), drop \in drop_connection \cup {TRUE} :
            \/ /\ drop /\ conn' = [conn EXCEPT ![c] = "dropped"]
               /\ UNCHANGED <<startup_pipes, startups, key, mine>>
            \/ /\ ~drop
               /\ \/ \E s \in Slots :
                       /\ startup_pipes[s] = NoConn
                       /\ \A r \in 1..(s - 1) : startup_pipes[r] # NoConn
                       /\ startup_pipes' = [startup_pipes EXCEPT ![s] = c]
                       /\ startups' = startups + 1
                  \/ /\ \A s \in Slots : startup_pipes[s] # NoConn
                     /\ UNCHANGED <<startup_pipes, startups>>
               /\ conn' \in {[conn EXCEPT ![c] = "unauth"], [conn EXCEPT ![c] = "gone"]}
               /\ mine' = mine \cup {c} /\ given' = TRUE
               /\ key_used' = (key_used \/ Proto1)
               /\ alarm' = (alarm \/ (Proto1 /\ ~key_used))
               /\ UNCHANGED key_do_regen
    /\ UNCHANGED <<loop, signals>>

EndRound ==
    /\ loop = "accept" /\ ready.socks = {} /\ loop' = "top"
    /\ UNCHANGED <<ready, startup_pipes, startups, signals, key, conn, mine>>
-----------------------------------------------------------------------------
(* A handler sets its flag; in select it also ends the wait.  A wait ended
   by a signal, with nothing ready, goes through the same work.            *)
Interrupts ==
    /\ loop # "exited"
    /\ IF loop = "select" THEN loop' = "awake" /\ ready' = Nothing ELSE UNCHANGED <<loop, ready>>
    /\ UNCHANGED <<startup_pipes, startups, mine>>

sighup_handler ==
    /\ ~received_sighup /\ received_sighup' = TRUE
    /\ Interrupts /\ UNCHANGED <<received_sigterm, key, conn>>

sigterm_handler ==
    /\ ~received_sigterm /\ received_sigterm' = TRUE
    /\ Interrupts /\ UNCHANGED <<received_sighup, key, conn>>

key_regeneration_alarm ==
    /\ alarm /\ alarm' = FALSE /\ key_do_regen' = TRUE
    /\ Interrupts /\ UNCHANGED <<signals, key_used, given, conn>>

(* main_sigchld_handler, for the death of a child: reaping changes nothing
   else.                                                                   *)
ChildDies(c) ==
    /\ conn[c] \in {"unauth", "auth"} /\ conn' = [conn EXCEPT ![c] = "gone"]
    /\ IF c \in mine /\ loop # "exited" THEN Interrupts
       ELSE UNCHANGED <<loop, ready, startup_pipes, startups, mine>>
    /\ UNCHANGED <<signals, key>>

Outside(c, from, to) ==
    /\ conn[c] = from /\ conn' = [conn EXCEPT ![c] = to]
    /\ UNCHANGED <<loop, ready, startup_pipes, startups, signals, key, mine>>

Connect(c)       == loop # "exited" /\ \E l \in Listeners : Outside(c, "away", l)
GivesUp(c)       == \E l \in Listeners : Outside(c, l, "gaveup")
Authenticates(c) == Outside(c, "unauth", "auth")

(* A client whose connection is over may connect again.                     *)
Returns(c) ==
    /\ \A s \in Slots : startup_pipes[s] # c
    /\ conn[c] \in {"gone", "dropped", "gaveup"} /\ conn' = [conn EXCEPT ![c] = "away"]
    /\ mine' = mine \ {c}
    /\ UNCHANGED <<loop, ready, startup_pipes, startups, signals, key>>

Loop ==
    \/ sighup_restart \/ CheckSighup \/ Select \/ Terminate \/ ClosePipes
    \/ (\E l \in Listeners : Accept(l)) \/ EndRound

Next ==
    \/ Loop
    \/ sighup_handler \/ sigterm_handler \/ key_regeneration_alarm
    \/ \E c \in Conns : Connect(c) \/ GivesUp(c) \/ Authenticates(c) \/ ChildDies(c)
                        \/ Returns(c)

(* The loop runs, alarms go off, and a child is authenticated or dies before
   its grace time ends.                                                    *)
Fairness ==
    /\ WF_vars(Loop) /\ WF_vars(key_regeneration_alarm)
    /\ \A c \in Conns : WF_vars(conn[c] = "unauth" /\ (Authenticates(c) \/ ChildDies(c)))

Spec == Init /\ [][Next]_vars /\ Fairness
-----------------------------------------------------------------------------
(* Type invariant. *)
TypeOK ==
    /\ loop \in {"top", "enter", "select", "awake", "accept", "exited"}
    /\ ready \in [socks : SUBSET Listeners, pipes : SUBSET Slots]
    /\ startup_pipes \in [Slots -> Conns \cup {NoConn}] /\ startups \in 0..max_startups
    /\ conn \in [Conns -> Fates \cup Listeners]

(* The counter that drop_connection looks at counts the slots in use, and
   every unauthenticated child of this daemon has a slot of its own: so
   there are never more of them than MaxStartups, whatever the order in
   which children finish, die and fail to fork, and the signals come
   (sshd.c:1066-1121).                                                     *)
StartupsCounted ==
    /\ startups = Cardinality({s \in Slots : startup_pipes[s] # NoConn})
    /\ \A c \in Unauthenticated \cap mine : \E s \in Slots : startup_pipes[s] = c
    /\ \A s, t \in Slots :
         s # t /\ startup_pipes[s] # NoConn => startup_pipes[s] # startup_pipes[t]

(* A server key that a child has been given is always on its way to being
   replaced: its alarm runs, or has gone off and is remembered until the
   loop gets to it (sshd.c:1058-1062, 1198-1204).  KeyRegenerationInterval
   is taken to be positive: with 0 the key is never regenerated
   (sshd_config.5:433), and no alarm is set (sshd.c:1202).                 *)
UsedKeyAges == Proto1 /\ given => alarm \/ key_do_regen

(* A slot is given back after its child is authenticated or dead, as long as
   the daemon lives (sshd.c:1066-1078).                                    *)
SlotsReturn ==
    \A s \in Slots, c \in Conns :
        (startup_pipes[s] = c /\ Closed(c)) ~> (startup_pipes[s] # c \/ loop = "exited")

(* A daemon that keeps waking up acts on a SIGHUP (sshd.c:1034, 1051).      *)
SighupSeen ==
    []<>(loop # "select") => (received_sighup ~> (~received_sighup \/ loop = "exited"))
=============================================================================
