------------------------------ MODULE Channels ------------------------------
(***************************************************************************)
(* One multiplexed channel between an ssh client and sshd, both ends of it *)
(* (openssh/channels.c, openssh/nchan.c, the session part of session.c):   *)
(* opening, data, the sliding windows, and the two half-closes.            *)
(*                                                                         *)
(* The channel is a session without a terminal (stdin, stdout and stderr   *)
(* of a command), a forwarded TCP connection, or a forwarded TCP connection*)
(* over protocol 1.5, which closes with other messages and has no windows. *)
(* The connection below delivers in order.  A process is single-threaded   *)
(* and handles an event at a time: a packet (a channel_input handler), a  *)
(* round of channel_output_poll or of select, the death of the command.    *)
(* Data are counted in units: only how many there are matters here.        *)
(***************************************************************************)
EXTENDS Integers, Sequences

CONSTANTS Kinds,       \* the kinds of channel: "session", "tcp", "tcp15"
          Window,      \* local_window_max of an open channel
          MaxPacket,   \* local_maxpacket, on both sides
          Volume,      \* bound on what is written to each stream, for TLC
          MaxIO        \* bound on what one read or write transfers, for TLC

ASSUME ChannelAssumption ==
    /\ Kinds \subseteq {"session", "tcp", "tcp15"} /\ Kinds # {}
    /\ Window \in Nat \ {0} /\ MaxPacket \in Nat \ {0} 
    /\ Volume \in [{"in", "out", "err"} -> Nat] /\ MaxIO \in Nat \ {0}

VARIABLES kind,      \* what the channel is for
          ch,        \* channels[id] at each end
          net,       \* the packets on their way to each end
          child,     \* s->pid: "none", "running", "exited" (a zombie), "reaped"
          gone,      \* whether the connection ended with an error
          taken,     \* history: units read from the source of each stream
          given,     \* history: units written to its sink
          refused,   \* history: streams whose sink refused a write, or never was
          status     \* history: the client got the exit status

vars == <<kind, ch, net, child, gone, taken, given, refused, status>>

Ends    == {"client", "server"}
Peer(e) == IF e = "client" THEN "server" ELSE "client"

(* The three streams, by the end they arrive at and the descriptor there.  *)
Streams  == {"in", "out", "err"}
From(e)  == IF e = "client" THEN "in" ELSE "out"
To(e)    == IF e = "client" THEN "out" ELSE "in"
compat20 == kind # "tcp15"

(* A packet, and the number in it (a window, or an amount of data).        *)
Packet(t, n) == [t |-> t, n |-> n]

(* tx holds the packets a handler sends; err records that it has logged
   an error about the state the channel is in.                             *)
channel_new(type, window, efd, eusage, detach) ==
    [type |-> type, istate |-> "open", ostate |-> "open", flags |-> {},
     input |-> 0, output |-> 0, extended |-> 0, efd |-> efd, eusage |-> eusage,
     local_window |-> window, max |-> window, local_consumed |-> 0,
     remote_window |-> 0, detach |-> detach, tx |-> <<>>, err |-> FALSE]

NoChannel == channel_new("none", 0, FALSE, "none", "none")

channel_free(c) == [NoChannel EXCEPT !.type = "free", !.istate = "closed",
                                     !.ostate = "closed", !.tx = c.tx, !.err = c.err]

Send(c, t, n) == [c EXCEPT !.tx = Append(@, Packet(t, n))]
Error(c)      == [c EXCEPT !.err = TRUE]
Flag(c, f)    == [c EXCEPT !.flags = @ \cup {f}]
-----------------------------------------------------------------------------
(* nchan.c: the states of the two halves of a channel.                     *)

CHANNEL_EFD_INPUT_ACTIVE(c) ==
    compat20 /\ c.eusage = "read" /\ (c.efd \/ c.extended > 0)

CHANNEL_EFD_OUTPUT_ACTIVE(c) ==
    /\ compat20 /\ c.eusage = "write" /\ c.efd
    /\ c.flags \cap {"eof_rcvd", "close_rcvd"} = {} \/ c.extended > 0

chan_shutdown_write(c) == [c EXCEPT !.output = 0]

chan_send_ieof1(c) ==
    IF c.istate \in {"open", "wait_drain"} THEN Send(c, "ieof", 0) ELSE Error(c)

chan_send_oclose1(c) ==
    IF c.ostate \in {"open", "wait_drain"}
    THEN [Send(c, "oclose", 0) EXCEPT !.output = 0] ELSE Error(c)

chan_send_eof2(c) ==
    IF c.istate = "wait_drain" THEN Flag(Send(c, "eof", 0), "eof_sent") ELSE Error(c)

chan_send_close2(c) ==
    IF c.istate # "closed" \/ c.ostate # "closed" \/ "close_sent" \in c.flags
    THEN Error(c) ELSE Flag(Send(c, "close", 0), "close_sent")

chan_read_failed(c) ==
    IF c.istate = "open" THEN [c EXCEPT !.istate = "wait_drain"] ELSE Error(c)

(* A mutant: a failed write closes the half without waiting for the peer. *)
chan_write_failed_NoWait(c) ==
    IF c.ostate \notin {"open", "wait_drain"} THEN Error(c)
    ELSE IF compat20 THEN [chan_shutdown_write(c) EXCEPT !.ostate = "closed"]
    ELSE [chan_send_oclose1(chan_shutdown_write(c)) EXCEPT !.ostate = "closed"]

chan_write_failed(c) ==
    IF c.ostate \notin {"open", "wait_drain"} THEN Error(c)
    ELSE IF compat20 THEN [chan_shutdown_write(c) EXCEPT !.ostate = "closed"]
    ELSE [chan_send_oclose1(chan_shutdown_write(c)) EXCEPT
            !.ostate = IF c.ostate = "open" THEN "wait_ieof" ELSE "closed"]

chan_ibuf_empty(c) ==
    IF c.input > 0 \/ c.istate # "wait_drain" THEN Error(c)
    ELSE IF compat20
    THEN [(IF "close_sent" \in c.flags THEN c ELSE chan_send_eof2(c))
            EXCEPT !.istate = "closed"]
    ELSE [chan_send_ieof1(c) EXCEPT !.istate = "wait_oclose"]

chan_obuf_empty(c) ==
    IF c.output > 0 \/ c.ostate # "wait_drain" THEN Error(c)
    ELSE [(IF compat20 THEN chan_shutdown_write(c)
                       ELSE chan_send_oclose1(chan_shutdown_write(c)))
            EXCEPT !.ostate = "closed"]

chan_rcvd_oclose1(c) ==
    CASE c.istate = "wait_oclose" -> [c EXCEPT !.istate = "closed"]
      [] c.istate \in {"open", "wait_drain"} ->
            [chan_send_ieof1(c) EXCEPT !.istate = "closed"]
      [] OTHER -> Error(c)

chan_rcvd_ieof1(c) ==
    CASE c.ostate = "open"      -> [c EXCEPT !.ostate = "wait_drain"]
      [] c.ostate = "wait_ieof" -> [c EXCEPT !.ostate = "closed"]
      [] OTHER                  -> Error(c)

(* A mutant: the half is closed before what was received is written. *)
chan_rcvd_eof2_NoDrain(c) ==
    [Flag(chan_shutdown_write(c), "eof_rcvd") EXCEPT !.ostate = "closed"]

chan_rcvd_eof2(c) ==
    [Flag(c, "eof_rcvd") EXCEPT !.ostate = IF @ = "open" THEN "wait_drain" ELSE @]

chan_rcvd_close2(c) ==
    LET c1 == Flag(IF "close_rcvd" \in c.flags THEN Error(c) ELSE c, "close_rcvd")
        c2 == [c1 EXCEPT !.ostate = IF @ = "open" THEN "wait_drain" ELSE @]
    IN  IF c.type = "larval"
        THEN [c1 EXCEPT !.ostate = "closed", !.istate = "closed"]
        ELSE [(IF c.istate = "wait_drain" THEN chan_send_eof2(c2) ELSE c2)
                EXCEPT !.istate = "closed"]

chan_rcvd_ieof(c) ==
    LET c1 == IF compat20 THEN chan_rcvd_eof2(c) ELSE chan_rcvd_ieof1(c)
    IN  IF /\ c1.ostate = "wait_drain" /\ c1.output = 0
           /\ ~CHANNEL_EFD_OUTPUT_ACTIVE(c1)
        THEN chan_obuf_empty(c1) ELSE c1

chan_rcvd_oclose(c) == IF compat20 THEN chan_rcvd_close2(c) ELSE chan_rcvd_oclose1(c)

(* chan_is_dead: the channel after the call, and its result.               *)
BothClosed(c)   == c.istate = "closed" /\ c.ostate = "closed"
Closing(c, do_send) ==
    IF /\ c.type # "zombie" /\ BothClosed(c) /\ compat20
       /\ "close_sent" \notin c.flags /\ do_send
    THEN chan_send_close2(c) ELSE c
(* A mutant: the close of the peer is not waited for. *)
IsDead_NoRcvd(c, do_send) ==
    c.type = "zombie" \/ (BothClosed(c) /\ (compat20 => "close_sent" \in c.flags))

IsDead(c, do_send) ==
    \/ c.type = "zombie"
    \/ /\ BothClosed(c)
       /\ compat20 => /\ "close_rcvd" \in c.flags
                      /\ "close_sent" \in c.flags \/ ~do_send

(* A mutant: the guard of a session lets the close message out. *)
channel_garbage_collect_Sends(e, c) ==
    LET c1   == Closing(c, TRUE)
        held == /\ c.detach # "none"
                /\ ~IsDead(c1, TRUE) \/ (e = "server" /\ child \in {"running", "exited"})
        c2   == [c1 EXCEPT !.detach = "none"]
    IN  IF held THEN c1
        ELSE IF IsDead(c2, TRUE) THEN channel_free(c2) ELSE c2

(* channel_garbage_collect with the callback that guards a session:
   client_channel_closed always lets the channel go, and
   session_close_by_channel once the command has been waited for.  A guard
   of "wait" forbids the close message, one of "close" allows it.          *)
channel_garbage_collect(e, c) ==
    LET c1   == IF c.detach = "none" THEN c ELSE Closing(c, c.detach = "close")
        held == /\ c.detach # "none"
                /\ \/ ~IsDead(c1, c.detach = "close")
                   \/ e = "server" /\ child \in {"running", "exited"}
        c2   == Closing([c1 EXCEPT !.detach = "none"], TRUE)
    IN  IF held THEN c1
        ELSE IF IsDead(c2, TRUE) THEN channel_free(c2) ELSE c2
-----------------------------------------------------------------------------
(* channels.c: the handlers of the main loop.                              *)

(* The descriptors channel_pre_open selects.                               *)
SelectsRead(c)  == /\ c.istate = "open"
                   /\ compat20 => c.input < c.remote_window
SelectsWrite(c) == c.ostate \in {"open", "wait_drain"} /\ c.output > 0
SelectsErr(c)   == /\ compat20 /\ c.efd
                   /\ \/ c.eusage = "write" /\ c.extended > 0
                      \/ /\ c.eusage = "read" /\ "eof_sent" \notin c.flags
                         /\ c.extended < c.remote_window

channel_pre_open(c) ==
    IF c.ostate = "wait_drain" /\ c.output = 0 /\ ~CHANNEL_EFD_OUTPUT_ACTIVE(c)
    THEN chan_obuf_empty(c) ELSE c

(* A system call returns n > 0 units, 0 for "not now", or -1 for the end of
   the file and for errors.                                                *)
channel_handle_rfd(c, n) ==
    IF n < 0 THEN chan_read_failed(c) ELSE [c EXCEPT !.input = @ + n]

channel_handle_wfd(c, n) ==
    IF n < 0 THEN chan_write_failed(c)
    ELSE [c EXCEPT !.output = @ - n,
                   !.local_consumed = IF compat20 THEN @ + n ELSE @]

(* Once the command is dead (detach is "close"), stderr is read without
   waiting for select, and "not now" closes it too.                        *)
channel_handle_efd(c, n) ==
    CASE c.eusage = "write" /\ c.efd ->
            IF n < 0 THEN [c EXCEPT !.efd = FALSE]
            ELSE [c EXCEPT !.extended = @ - n, !.local_consumed = @ + n]
      [] c.eusage = "read" /\ c.efd ->
            IF n < 0 \/ (n = 0 /\ c.detach = "close") THEN [c EXCEPT !.efd = FALSE]
            ELSE [c EXCEPT !.extended = @ + n]
      [] OTHER -> c

(* A mutant: local_consumed is not reset. *)
channel_check_window_NoReset(c) ==
    IF /\ c.type = "open" /\ c.flags \cap {"close_sent", "close_rcvd"} = {}
       /\ c.max - c.local_window > 3 * MaxPacket \/ c.local_window < c.max \div 2
       /\ c.local_consumed > 0
    THEN [Send(c, "adjust", c.local_consumed)
            EXCEPT !.local_window = @ + c.local_consumed]
    ELSE c

(* A mutant: a small window is not given back. *)
channel_check_window_Large(c) ==
    IF /\ c.type = "open" /\ c.flags \cap {"close_sent", "close_rcvd"} = {}
       /\ c.max - c.local_window > 3 * MaxPacket /\ c.local_consumed > 0
    THEN [Send(c, "adjust", c.local_consumed)
            EXCEPT !.local_window = @ + c.local_consumed, !.local_consumed = 0]
    ELSE c

channel_check_window(c) ==
    IF /\ c.type = "open" /\ c.flags \cap {"close_sent", "close_rcvd"} = {}
       /\ \/ c.max - c.local_window > 3 * MaxPacket
          \/ c.local_window < c.max \div 2
       /\ c.local_consumed > 0
    THEN [Send(c, "adjust", c.local_consumed)
            EXCEPT !.local_window = @ + c.local_consumed, !.local_consumed = 0]
    ELSE c

channel_post_open(c, r, w, x) ==
    LET c1 == channel_handle_wfd(channel_handle_rfd(c, r), w)
    IN  IF compat20 THEN channel_check_window(channel_handle_efd(c1, x)) ELSE c1

(* What one round of channel_output_poll sends for a channel.              *)
Min(a, b) == IF a < b THEN a ELSE b
(* A mutant: the window of the peer is not respected. *)
Portion_NoWindow(c, len) == IF compat20 THEN Min(len, MaxPacket) ELSE len

Portion(c, len) == IF compat20 THEN Min(len, Min(c.remote_window, MaxPacket)) ELSE len
Spend(c, n)     == IF compat20 THEN [c EXCEPT !.remote_window = @ - n] ELSE c

channel_output_poll(c) ==
    LET len == Portion(c, c.input)
        c1  == IF c.istate \in {"open", "wait_drain"} /\ c.input > 0
               THEN IF len = 0 THEN c
                    ELSE Spend(Send([c EXCEPT !.input = @ - len], "data", len), len)
               ELSE IF c.istate = "wait_drain" /\ ~CHANNEL_EFD_INPUT_ACTIVE(c)
               THEN chan_ibuf_empty(c) ELSE c
        ext == Portion(c1, c1.extended)
    IN  IF c.type # "open" \/ (compat20 /\ c.flags \cap {"close_sent", "close_rcvd"} # {})
        THEN c
        ELSE IF /\ compat20 /\ "eof_sent" \notin c1.flags /\ c1.eusage = "read"
                /\ ext > 0
        THEN Spend(Send([c1 EXCEPT !.extended = @ - ext], "ext", ext), ext)
        ELSE c1
-----------------------------------------------------------------------------
(* channels.c: the handlers of packets, for a channel that exists.         *)

channel_input_data(c, n) ==
    CASE c.type # "open"   -> c
      [] c.ostate # "open" ->
            IF compat20 THEN [c EXCEPT !.local_window = @ - n, !.local_consumed = @ + n]
            ELSE c
      [] compat20 /\ n > c.local_window -> c
      [] OTHER -> [c EXCEPT !.output = @ + n,
                            !.local_window = IF compat20 THEN @ - n ELSE @]

channel_input_extended_data(c, n) ==
    IF c.type # "open" \/ ~c.efd \/ c.eusage # "write" \/ n > c.local_window
    THEN c
    ELSE [c EXCEPT !.extended = @ + n, !.local_window = @ - n]

(* The client's callback asks for the command to be run.                   *)
channel_input_open_confirmation(c, n) ==
    LET c1 == [c EXCEPT !.type = "open", !.remote_window = n]
    IN  IF kind = "session" THEN Send(c1, "exec", 0) ELSE c1

(* do_exec_no_pty and session_set_fds.                                     *)
session_exec_req(c) ==
    Send([c EXCEPT !.type = "open", !.efd = TRUE, !.eusage = "read",
                   !.local_window = Window, !.max = Window], "adjust", Window)

(* A packet the handler cannot accept: packet_disconnect.  The others go on;
   the client only logs a request for a channel it does not know.          *)
Rejects(c, m) ==
    \/ m.t \in {"data", "ext", "eof", "ieof", "close", "oclose", "exec"}
           /\ c.type \in {"none", "free", "zombie"}
    \/ m.t \in {"confirm", "failure"} /\ c.type # "opening"
    \/ m.t = "ext" /\ "eof_rcvd" \in c.flags

Handle(c, m) ==
    CASE m.t = "data"            -> channel_input_data(c, m.n)
      [] m.t = "ext"             -> channel_input_extended_data(c, m.n)
      [] m.t \in {"eof", "ieof"} -> chan_rcvd_ieof(c)
      [] m.t \in {"close", "oclose"} -> chan_rcvd_oclose(c)
      [] m.t = "confirm"         -> channel_input_open_confirmation(c, m.n)
      [] m.t = "failure"         -> channel_free(c)
      [] m.t = "adjust" /\ c.type # "free" ->
            [c EXCEPT !.remote_window = @ + m.n]
      [] m.t = "exec" /\ c.type = "larval" -> session_exec_req(c)
      [] OTHER -> c
-----------------------------------------------------------------------------
(* The client has just opened the channel: ssh_session2_open, or a connection
   to a forwarded port (channel_post_port_listener).                       *)
ClientChannel ==
    IF kind = "session" THEN channel_new("opening", Window, TRUE, "write", "wait")
    ELSE channel_new("opening", Window, FALSE, "none", "none")

Init ==
    /\ kind \in Kinds
    /\ ch = [client |-> ClientChannel, server |-> NoChannel]
    /\ net = [client |-> <<>>, server |-> <<Packet("open", Window)>>]
    /\ child = "none" /\ gone = FALSE
    /\ taken = [s \in Streams |-> 0] /\ given = [s \in Streams |-> 0]
    /\ refused = {} /\ status = FALSE

(* The channel of end e becomes c, and what c wants sent is sent.          *)
Store(e, c) ==
    /\ ch' = [ch EXCEPT ![e] = [c EXCEPT !.tx = <<>>]]
    /\ net' = [net EXCEPT ![Peer(e)] = @ \o c.tx]

(* The same, for the handler of the packet e has received.                 *)
StoreRcvd(e, c) ==
    /\ ch' = [ch EXCEPT ![e] = [c EXCEPT !.tx = <<>>]]
    /\ net' = [net EXCEPT ![Peer(e)] = @ \o c.tx, ![e] = Tail(@)]

history == <<taken, given, refused, status>>

(* server_input_channel_open and channel_input_port_open: a session waits
   for its command, a connection to the target is begun, or either fails.  *)
ServerOpens ==
    /\ ~gone /\ net["server"] # <<>> /\ Head(net["server"]).t = "open"
    /\ LET rwindow == Head(net["server"]).n
           larval  == [channel_new("larval", 0, FALSE, "none", "wait")
                         EXCEPT !.remote_window = rwindow]
           joining == [channel_new("connecting", Window, FALSE, "none", "none")
                         EXCEPT !.remote_window = rwindow]
       IN  \/ /\ StoreRcvd("server", IF kind = "session"
                                     THEN Send(larval, "confirm", 0) ELSE joining)
              /\ UNCHANGED refused
           \/ /\ StoreRcvd("server", Send(NoChannel, "failure", 0))
              /\ refused' = Streams
    /\ UNCHANGED <<kind, child, gone, taken, given, status>>

(* channel_post_connecting: the connection to the target is there, or not. *)
ServerConnects ==
    /\ ~gone /\ ch["server"].type = "connecting"
    /\ LET c == ch["server"]
       IN  \/ /\ Store("server", Send([c EXCEPT !.type = "open"], "confirm", Window))
              /\ UNCHANGED refused
           \/ /\ Store("server", channel_garbage_collect("server",
                    Send([c EXCEPT !.type = "zombie"], "failure", 0)))
              /\ refused' = Streams
    /\ UNCHANGED <<kind, child, gone, taken, given, status>>

(* A packet for the channel; a request to run the command forks it.        *)
Receive(e) ==
    /\ ~gone /\ net[e] # <<>> /\ Head(net[e]).t # "open"
    /\ LET m == Head(net[e])
       IN  IF Rejects(ch[e], m)
           THEN gone' = TRUE /\ UNCHANGED <<ch, net, child, status>>
           ELSE /\ StoreRcvd(e, Handle(ch[e], m))
                /\ child' = IF m.t = "exec" /\ ch[e].type = "larval"
                            THEN "running" ELSE child
                /\ status' = (status \/ (m.t = "exit" /\ ch[e].type = "open"))
                /\ UNCHANGED gone
    /\ UNCHANGED <<kind, taken, given, refused>>

(* channel_output_poll.                                                    *)
Poll(e) ==
    /\ ~gone /\ channel_output_poll(ch[e]) # ch[e]
    /\ Store(e, channel_output_poll(ch[e]))
    /\ UNCHANGED <<kind, child, gone, history>>

(* Stderr is read at the server, without select once the command is dead,
   and written at the client.                                              *)
StderrReady(c) ==
    SelectsErr(c) \/ (c.eusage = "read" /\ c.efd /\ c.detach = "close")
StderrLeft(c)  ==
    IF c.eusage = "read" THEN Volume["err"] - taken["err"] ELSE c.extended
Units(n)       == IF n > 0 THEN n ELSE 0

(* channel_prepare_select, select and channel_after_select for an open
   channel.  r, w and x are the results of read, of write, and of the read
   or the write on the descriptor of stderr (0 when it is not selected).   *)
Select(e, r, w, x) ==
    /\ ~gone /\ ch[e].type = "open"
    /\ r # 0 => SelectsRead(ch[e]) /\ r <= Volume[From(e)] - taken[From(e)]
    /\ w # 0 => SelectsWrite(ch[e]) /\ w <= ch[e].output
    /\ x # 0 => StderrReady(ch[e]) /\ x <= StderrLeft(ch[e])
    /\ \E pre \in {channel_garbage_collect(e, channel_pre_open(ch[e]))} :
         IF pre.type = "free"
         THEN r = 0 /\ w = 0 /\ x = 0 /\ Store(e, pre)
         ELSE \E post \in {channel_post_open(pre, r, w, x)} :
                Store(e, channel_garbage_collect(e, post))
    /\ taken' = [taken EXCEPT ![From(e)] = @ + Units(r),
                              !["err"] = @ + IF e = "server" THEN Units(x) ELSE 0]
    /\ given' = [given EXCEPT ![To(e)] = @ + Units(w),
                              !["err"] = @ + IF e = "client" THEN Units(x) ELSE 0]
    /\ refused' = refused \cup {s \in {To(e)} : w < 0}
                          \cup {s \in {"err"} : x < 0 /\ e = "client"}
    /\ UNCHANGED <<kind, child, gone, status>>

ChildExits ==
    /\ ~gone /\ child = "running" /\ child' = "exited"
    /\ UNCHANGED <<kind, ch, net, gone, history>>

(* collect_children, session_close_by_pid and session_exit_message.        *)
Reap ==
    /\ ~gone /\ child = "exited"
    /\ IF ch["server"].type = "free"
       THEN gone' = TRUE /\ UNCHANGED <<ch, net, child, refused>>
       ELSE LET c == [Send(ch["server"], "exit", 0) EXCEPT !.detach = "close"]
            IN  /\ Store("server", IF c.ostate = "closed" THEN c ELSE chan_write_failed(c))
                /\ refused' = IF c.ostate = "closed" THEN refused ELSE refused \cup {"in"}
                /\ child' = "reaped" /\ UNCHANGED gone
    /\ UNCHANGED <<kind, taken, given, status>>

Results == -1 .. MaxIO

Next ==
    \/ ServerOpens \/ ServerConnects \/ ChildExits \/ Reap
    \/ \E e \in Ends : Receive(e) \/ Poll(e)
    \/ \E e \in Ends, r, w, x \in Results : Select(e, r, w, x)

(* What the main loops do is done sooner or later; and the programs at the
   two ends of the channel sooner or later end, and take what they are sent
   or refuse it.                                                           *)
Fairness ==
    /\ WF_vars(ServerOpens) /\ WF_vars(ServerConnects)
    /\ WF_vars(ChildExits) /\ WF_vars(Reap)
    /\ \A e \in Ends :
         /\ WF_vars(Receive(e)) /\ WF_vars(Poll(e)) /\ WF_vars(Select(e, 0, 0, 0))
         /\ WF_vars(Select(e, -1, 0, 0))
         /\ WF_vars(Select(e, 0, 1, 0) \/ Select(e, 0, -1, 0))
    /\ WF_vars(Select("server", 0, 0, -1))
    /\ WF_vars(Select("client", 0, 0, 1) \/ Select("client", 0, 0, -1))

Spec == Init /\ [][Next]_vars /\ Fairness
-----------------------------------------------------------------------------
(* Properties.                                                             *)

TypeOK ==
    /\ kind \in Kinds /\ gone \in BOOLEAN /\ status \in BOOLEAN
    /\ child \in {"none", "running", "exited", "reaped"}
    /\ refused \subseteq Streams
    /\ taken \in [Streams -> Nat] /\ given \in [Streams -> Nat]
    /\ \A e \in Ends :
         /\ ch[e].type \in {"none", "opening", "larval", "connecting", "open", "free"}
         /\ ch[e].istate \in {"open", "wait_drain", "wait_oclose", "closed"}
         /\ ch[e].ostate \in {"open", "wait_drain", "wait_ieof", "closed"}
         /\ {ch[e].input, ch[e].output, ch[e].extended, ch[e].local_consumed,
             ch[e].local_window, ch[e].remote_window} \subseteq Nat

(* Neither end ever gets a packet it must answer with packet_disconnect, the
   death of a command always finds the channel of its session, and none of
   the "protocol error", "internal error" and "cannot send" branches of
   nchan.c is taken: the two state machines never get out of step.         *)
InStep == ~gone /\ \A e \in Ends : ~ch[e].err

(* When an end frees its channel nothing is on its way to it any more, so
   that channel_new may give the number to another channel at once.        *)
NothingForFreed == \A e \in Ends : ch[e].type = "free" => net[e] = <<>>

Sum(q)        == LET sum[i \in 0 .. Len(q)] == IF i = 0 THEN 0 ELSE sum[i - 1] + q[i].n
                 IN  sum[Len(q)]
InFlight(e, T) == Sum(SelectSeq(net[e], LAMBDA m : m.t \in T))

(* Flow control: what the peer may still send, what it has sent and what it
   has been granted but does not know of yet never exceed the window of the
   receiver, so that channel_input_data never drops data for being too
   much; and the window and what waits for a sink never exceed the maximum. *)
WindowKept ==
    compat20 => \A e \in Ends :
        LET c == ch[e]
            p == ch[Peer(e)]
        IN  c.type = "open" =>
              /\ p.type = "open" =>
                   p.remote_window + InFlight(e, {"data", "ext"})
                     + InFlight(Peer(e), {"adjust"}) <= c.local_window
              /\ c.local_window + c.local_consumed + c.output
                   + (IF c.eusage = "write" THEN c.extended ELSE 0) <= c.max

(* The client learns the exit status of the command before the channel of
   the session closes: sshd sends no close while the command has not been
   waited for, and the client none before sshd.                            *)
StatusBeforeClose ==
    kind = "session" /\ refused # Streams /\ "close_rcvd" \in ch["client"].flags
      => status

(* Every channel that is opened is freed at both ends in the end, also when
   the windows are exhausted again and again, unless a sink has refused
   data (see EndsAfterRefusal).                                            *)
Ended       == \A e \in Ends : ch[e].type \in {"none", "free"}
OnlyInput   == refused \subseteq (IF kind = "session" THEN {"in"} ELSE {})
ChannelEnds == []OnlyInput => <>Ended

(* The same when sinks refuse data, after which the data that still arrive
   are dropped and must not use up the window.                             *)
EndsAfterRefusal == <>Ended

(* What the programs at the two ends see of the channel: see BytePipes.    *)
PipeState(s) ==
    LET e        == IF s = "in" THEN "server" ELSE "client"
        broken   == s \in refused \/ (s = "err" /\ "out" \in refused)
        shut     == IF s = "err" THEN ch[e].type = "free"
                    ELSE ch[e].ostate \in {"wait_ieof", "closed"}
        finished == IF s = "err"
                    THEN ch["server"].type = "free"
                           \/ (ch["server"].eusage = "read" /\ ~ch["server"].efd)
                    ELSE ch[Peer(e)].istate # "open"
    IN  IF broken THEN "broken"
        ELSE IF s = "err" /\ kind # "session" THEN "flow"
        ELSE IF shut THEN "ended" ELSE IF finished THEN "eof" ELSE "flow"

Pipes == INSTANCE BytePipes WITH
            pipe <- [s \in Streams |-> [taken |-> taken[s], given |-> given[s],
                                        state |-> PipeState(s)]]

(* The channel implements three byte pipes: nothing is delivered that was
   not sent, and the end of a stream reaches its sink only after the last
   unit its source wrote, however the two half-closes, the windows and the
   death of the command interleave.                                        *)
PipesSpec == Pipes!Spec
=============================================================================
