--------------------------- MODULE ChannelsProofs ---------------------------
(***************************************************************************)
(* Theorems about a channel: its two ends never get out of step, for every *)
(* window, packet size and volume of data, so for queues of packets of any *)
(* length.                                                                 *)
(***************************************************************************)
EXTENDS ChannelEndProofs

(* The channel has been asked for; the answer was no; or it is, or has been,
   in use.                                                                 *)
Unopened ==
    /\ ch["client"].type = "opening" /\ ch["server"].type = "none"
    /\ Fresh(ch["client"]) /\ child = "none"
    /\ net["client"] = <<>> /\ net["server"] = <<Packet("open", Window)>>

Failed ==
    /\ ch["server"].type \in {"none", "free"} /\ child = "none"
    /\ net["server"] = <<>> /\ ch["client"].flags = {}
    /\ \/ ch["client"].type = "opening" /\ net["client"] = <<Packet("failure", 0)>>
       \/ ch["client"].type = "free" /\ net["client"] = <<>>

(* The command, its status, and the channel of its session.                *)
Command ==
    /\ kind # "session" => child = "none" /\ ch["server"].type # "larval"
    /\ ch["server"].type = "larval" => child = "none"
    /\ kind = "session" /\ ch["server"].type = "open" => child # "none"
    /\ child \in {"running", "exited"}
         => ch["server"].type = "open" /\ ch["server"].detach = "wait"
    /\ kind = "session" /\ Fin(ch["server"]) => child = "reaped"
    /\ child = "reaped" => status = TRUE \/ Has(net["client"], "exit")

Live ==
    /\ ch["server"].type \in {"connecting", "larval", "open", "free"}
    /\ ch["client"].type \in {"opening", "open", "free"}
    /\ Dir(kind, net["client"], ch["server"], ch["client"])
    /\ Dir(kind, net["server"], ch["client"], ch["server"])
    /\ ch["client"].type = "opening" => Fresh(ch["client"]) /\ net["server"] = <<>>
    /\ ch["server"].type = "connecting"
         => /\ Fresh(ch["server"]) /\ ch["client"].type = "opening"
            /\ net["client"] = <<>> /\ kind # "session"
    /\ ch["server"].type = "larval"
         => /\ Fresh(ch["server"]) /\ ch["server"].detach = "wait"
            /\ \/ ch["client"].type = "opening"
               \/ net["server"] # <<>> /\ net["server"][1].t = "exec"
    /\ Command

ChannelInv ==
    /\ kind \in Kinds /\ gone = FALSE /\ child \in {"none", "running", "exited", "reaped"}
    /\ status \in BOOLEAN
    /\ ch \in [Ends -> Chan] /\ net \in [Ends -> Seq(Packets)]
    /\ \A e \in Ends : Local(kind, ch[e]) /\ ch[e].tx = <<>>
    /\ Unopened \/ Failed \/ Live
-----------------------------------------------------------------------------
(* A round of select.                                                      *)
LEMMA PostOpenTurn ==
    ASSUME NEW q \in Seq(Packets), NEW r \in Seq(Packets), NEW c, NEW e, Turn(q, r, c, e),
           NEW i \in Int, NEW o \in Int, NEW x \in Int,
           i < 0 => c.istate = "open", o < 0 => c.ostate \in {"open", "wait_drain"}
    PROVE  LET d == channel_post_open(c, i, o, x)
           IN  Turn(q, r, d, e) /\ Still(c, d) /\ d.flags = c.flags
<1>. DEFINE c1 == channel_handle_rfd(c, i)
            c2 == channel_handle_wfd(c1, o)
            c3 == channel_handle_efd(c2, x)
            c4 == channel_check_window(c3)
            d  == channel_post_open(c, i, o, x)
<1>1. d = IF compat20 THEN c4 ELSE c2
    BY DEF channel_post_open
<1>2. Turn(q, r, c1, e) /\ Still(c, c1) /\ c1.ostate = c.ostate /\ c1.flags = c.flags
    BY ReadTurn
<1>. HIDE DEF c1, d
<1>3. Turn(q, r, c2, e) /\ Still(c1, c2) /\ c2.flags = c1.flags
    BY <1>2, WriteTurn
<1>. HIDE DEF c2
<1>4. Turn(q, r, c3, e) /\ Still(c2, c3) /\ c3.flags = c2.flags
    BY <1>3, StderrTurn
<1>. HIDE DEF c3
<1>5. compat20 => Turn(q, r, c4, e) /\ Still(c3, c4) /\ c4.flags = c3.flags
    BY <1>4, WindowTurn
<1>. HIDE DEF c4
<1>. QED
    BY <1>1, <1>2, <1>3, <1>4, <1>5 DEF Still, d

(* While there is a command the guard keeps the channel of its session.    *)
Held(x, c) == x = "server" /\ child \in {"running", "exited"} /\ c.detach = "wait"

Ready(c, i, o, x) ==
    /\ i \in Int /\ o \in Int /\ x \in Int
    /\ i # 0 => SelectsRead(c)
    /\ o # 0 => SelectsWrite(c)

Round(y, c, i, o, x) ==
    LET pre == channel_garbage_collect(y, channel_pre_open(c))
    IN  IF pre.type = "free" THEN pre
        ELSE channel_garbage_collect(y, channel_post_open(pre, i, o, x))

LEMMA SelectTurn ==
    ASSUME NEW q \in Seq(Packets), NEW r \in Seq(Packets), NEW c, NEW e, NEW y \in Ends,
           NEW i, NEW o, NEW x, Turn(q, r, c, e), Ready(c, i, o, x)
    PROVE  LET d == Round(y, c, i, o, x)
           IN  /\ Pair(kind, q, r \o d.tx, d, e) /\ d.type \in {"open", "free"}
               /\ Held(y, c) => d.type = "open" /\ d.detach = "wait" /\ d.flags = c.flags
<1>. DEFINE b    == channel_pre_open(c)
            pre  == channel_garbage_collect(y, b)
            post == channel_post_open(pre, i, o, x)
            z    == channel_garbage_collect(y, post)
            d    == Round(y, c, i, o, x)
<1>0. d = IF pre.type = "free" THEN pre ELSE z
    BY DEF Round
<1>. HIDE DEF d
<1>1. /\ Turn(q, r, b, e) /\ Still(c, b) /\ b.istate = c.istate /\ b.flags = c.flags
      /\ c.output > 0 => b = c
    BY PreOpenTurn
<1>. HIDE DEF b
<1>2. /\ Pair(kind, q, r \o pre.tx, pre, e) /\ pre.type \in {"open", "free"}
      /\ pre.type = "open" => pre.istate = b.istate /\ pre.ostate = b.ostate
      /\ y = "server" /\ child \in {"running", "exited"} /\ b.detach = "wait" => pre = b
    BY <1>1, CollectTurn
<1>3. b.type = "open"
    BY <1>1, TurnChan, Zenon
<1>. HIDE DEF pre
<1>4. CASE pre.type = "free"
    <2>1. ~Held(y, c)
        BY <1>1, <1>2, <1>3, <1>4 DEF Held, Still
    <2>2. d = pre
        BY <1>0, <1>4
    <2>. QED
        BY <1>2, <2>1, <2>2 DEF d
<1>5. CASE pre.type = "open"
    <2>1. Turn(q, r, pre, e)
        BY <1>2, <1>5 DEF Turn
    <2>2. /\ i < 0 => pre.istate = "open"
          /\ o < 0 => pre.ostate \in {"open", "wait_drain"}
        BY <1>1, <1>2, <1>5 DEF Ready, SelectsRead, SelectsWrite
    <2>3. Turn(q, r, post, e) /\ Still(pre, post) /\ post.flags = pre.flags
        BY <2>1, <2>2, PostOpenTurn DEF Ready
    <2>. HIDE DEF post
    <2>4. /\ Pair(kind, q, r \o z.tx, z, e) /\ z.type \in {"open", "free"}
          /\ y = "server" /\ child \in {"running", "exited"} /\ post.detach = "wait" => z = post
        BY <2>3, CollectTurn
    <2>5. d = z
        BY <1>0, <1>5
    <2>6. post.type = "open"
        BY <2>3, TurnChan, Zenon
    <2>. HIDE DEF z
    <2>7. Held(y, c) => z.type = "open" /\ z.detach = "wait" /\ z.flags = c.flags
        BY <1>1, <1>2, <2>3, <2>4, <2>6 DEF Held, Still
    <2>8. /\ Pair(kind, q, r \o d.tx, d, e) /\ d.type \in {"open", "free"}
          /\ Held(y, c) => d.type = "open" /\ d.detach = "wait" /\ d.flags = c.flags
        BY <2>4, <2>5, <2>7
    <2>. QED
        BY <2>8 DEF d
<1>. QED
    BY <1>2, <1>4, <1>5

(* An end that has sent nothing yet becomes open, and may send a packet.   *)
LEMMA BeginPair ==
    ASSUME NEW q \in Seq(Packets), NEW r \in Seq(Packets), NEW s \in Seq(Packets),
           NEW c, NEW d, NEW e, NEW t \in {"exec", "adjust"}, NEW n \in Int,
           q # <<>>, Dir(kind, q, e, c), Dir(kind, r, c, e),
           Fresh(c), c.type \in {"opening", "larval"},
           Local(kind, d), Fresh(d), d.type = "open",
           q[1].t \in {"confirm", "exec"},
           s = r \/ (compat20 /\ s = Append(r, Packet(t, n)))
    PROVE  Pair(kind, Tail(q), s, d, e)
<1>1. /\ c.flags = {} /\ d.flags = {} /\ c.istate = "open" /\ d.istate = "open"
      /\ c.ostate = "open" /\ d.ostate = "open"
    BY DEF Fresh
<1>2. /\ ~Fin(c) /\ ~Fin(d) /\ ~EofSent(c) /\ ~Rcvd(d)
      /\ ~IeofSent(c) /\ ~IeofRcvd(d) /\ ~OcloseSent(c) /\ ~OcloseRcvd(d)
      /\ ~IeofRcvd(c) /\ ~OcloseRcvd(c)
    BY <1>1 DEF Fin, EofSent, Rcvd, IeofSent, IeofRcvd, OcloseSent, OcloseRcvd
<1>3. Dir(kind, Tail(q), e, d)
    <2>1. Answered(Tail(q), e, d)
        BY AnsweredTail DEF Dir
    <2>2. ASSUME kind # "tcp15" PROVE Dir20(Tail(q), e, d)
        <3>1. Dir20(q, e, c)
            BY <2>2 DEF Dir
        <3>. QED
            BY <1>1, <1>2, <3>1, DirTail20
    <2>3. ASSUME kind = "tcp15" PROVE Dir15(Tail(q), e, d)
        <3>1. Dir15(q, e, c)
            BY <2>3 DEF Dir
        <3>2. /\ IeofRcvd(d) <=> IeofRcvd(c) \/ q[1].t = "ieof"
              /\ OcloseRcvd(d) <=> OcloseRcvd(c) \/ q[1].t = "oclose"
            BY <1>2
        <3>. QED
            BY <3>1, <3>2, DirTail15
    <2>. QED
        BY <2>1, <2>2, <2>3 DEF Dir
<1>4. Dir(kind, r, d, e)
    BY <1>2, DirSame
<1>5. CASE s = r
    BY <1>3, <1>4, <1>5 DEF Pair
<1>6. CASE compat20 /\ s = Append(r, Packet(t, n))
    <2>. DEFINE m == Packet(t, n)
    <2>1. m \in Packets /\ m.t = t
        BY DEF Packet, Packets, Names
    <2>. HIDE DEF m
    <2>2. Dir20(r, d, e) /\ Answered(r, d, e) /\ kind # "tcp15"
        BY <1>4, <1>6 DEF Dir, compat20
    <2>3. ~EofSent(d)
        BY <1>1 DEF EofSent
    <2>4. Dir20(Append(r, m), d, e)
        BY <1>2, <2>1, <2>2, <2>3, DirAppend20
    <2>5. Answered(Append(r, m), d, e)
        BY <2>1, <2>2, AnsweredAppend
    <2>. QED
        BY <1>3, <1>6, <2>2, <2>4, <2>5 DEF Pair, Dir, m
<1>. QED
    BY <1>5, <1>6
-----------------------------------------------------------------------------
(* The end is stored and what it sends is on its way.                      *)
Stored(d) == [d EXCEPT !.tx = <<>>]

LEMMA StoredChan ==
    ASSUME NEW d \in Chan
    PROVE  LET s == Stored(d)
           IN  /\ s \in Chan /\ s.tx = <<>> /\ s.type = d.type /\ s.istate = d.istate
               /\ s.ostate = d.ostate /\ s.flags = d.flags /\ s.detach = d.detach
               /\ s.err = d.err
<1>1. <<>> \in Seq(Packets)
    OBVIOUS
<1>. QED
    BY <1>1, Zenon DEF Stored, Chan

Settled ==
    /\ ch \in [Ends -> Chan] /\ net \in [Ends -> Seq(Packets)]
    /\ \A e \in Ends : Local(kind, ch[e]) /\ ch[e].tx = <<>>
Linked ==
    /\ Dir(kind, net["client"], ch["server"], ch["client"])
    /\ Dir(kind, net["server"], ch["client"], ch["server"])

LEMMA PeerEnd ==
    ASSUME NEW e \in Ends
    PROVE  /\ Peer(e) \in Ends /\ Peer(e) # e /\ Ends = {e, Peer(e)}
           /\ e = "client" => Peer(e) = "server"
           /\ e = "server" => Peer(e) = "client"
           /\ e = "client" \/ e = "server"
  BY DEF Ends, Peer

LEMMA LinkedPair ==
    ASSUME Settled, Linked, NEW e \in Ends
    PROVE  Pair(kind, net[e], net[Peer(e)] \o ch[e].tx, ch[e], ch[Peer(e)])
<1>1. net[Peer(e)] \in Seq(Packets) /\ ch[e].tx = <<>> /\ Local(kind, ch[e])
    BY PeerEnd DEF Settled
<1>2. net[Peer(e)] \o ch[e].tx = net[Peer(e)]
    BY <1>1
<1>3. Dir(kind, net[e], ch[Peer(e)], ch[e]) /\ Dir(kind, net[Peer(e)], ch[e], ch[Peer(e)])
    <2>1. CASE e = "client"
        BY <2>1, PeerEnd DEF Linked
    <2>2. CASE e = "server"
        BY <2>2, PeerEnd DEF Linked
    <2>. QED
        BY <2>1, <2>2, PeerEnd
<1>. QED
    BY <1>1, <1>2, <1>3 DEF Pair

(* The end e and the packets before it and behind it after a step.         *)
Steps(e, d, q) ==
    /\ ch' \in [Ends -> Chan] /\ net' \in [Ends -> Seq(Packets)]
    /\ ch'[e] = Stored(d) /\ ch'[Peer(e)] = ch[Peer(e)]
    /\ net'[e] = q /\ net'[Peer(e)] = net[Peer(e)] \o d.tx

LEMMA StoreSteps ==
    ASSUME Settled, NEW e \in Ends, NEW d \in Chan
    PROVE  /\ Store(e, d) => Steps(e, d, net[e])
           /\ StoreRcvd(e, d) /\ net[e] # <<>> => Steps(e, d, Tail(net[e]))
<1>1. /\ ch \in [Ends -> Chan] /\ net \in [Ends -> Seq(Packets)]
      /\ Peer(e) \in Ends /\ Peer(e) # e
    BY PeerEnd DEF Settled
<1>2. Stored(d) \in Chan /\ d.tx \in Seq(Packets)
    BY StoredChan DEF Chan
<1>3. net[Peer(e)] \o d.tx \in Seq(Packets)
    BY <1>1, <1>2
<1>4. net[e] # <<>> => Tail(net[e]) \in Seq(Packets)
    BY <1>1
<1>5. ASSUME Store(e, d) PROVE Steps(e, d, net[e])
    <2>1. /\ ch' = [ch EXCEPT ![e] = Stored(d)]
          /\ net' = [net EXCEPT ![Peer(e)] = net[Peer(e)] \o d.tx]
        BY <1>5 DEF Store, Stored
    <2>. QED
        BY <1>1, <1>2, <1>3, <2>1 DEF Steps
<1>6. ASSUME StoreRcvd(e, d), net[e] # <<>> PROVE Steps(e, d, Tail(net[e]))
    <2>1. /\ ch' = [ch EXCEPT ![e] = Stored(d)]
          /\ net' = [net EXCEPT ![Peer(e)] = net[Peer(e)] \o d.tx, ![e] = Tail(net[e])]
        BY <1>1, <1>6 DEF StoreRcvd, Stored
    <2>. QED
        BY <1>1, <1>2, <1>3, <1>4, <1>6, <2>1, Zenon DEF Steps
<1>. QED
    BY <1>5, <1>6

LEMMA StepsLocal ==
    ASSUME Settled, NEW e \in Ends, NEW d, NEW q, Local(kind, d), Steps(e, d, q), kind' = kind
    PROVE  /\ Settled' /\ ch'[e].type = d.type /\ ch'[e].istate = d.istate
           /\ ch'[e].ostate = d.ostate /\ ch'[e].flags = d.flags
           /\ ch'[e].detach = d.detach
<1>. DEFINE s == Stored(d)
<1>1. d \in Chan
    BY DEF Local
<1>2. /\ s \in Chan /\ s.tx = <<>> /\ s.type = d.type /\ s.istate = d.istate
      /\ s.ostate = d.ostate /\ s.flags = d.flags /\ s.detach = d.detach /\ s.err = d.err
    BY <1>1, StoredChan
<1>. HIDE DEF s
<1>3. Local(kind, s)
    BY <1>2 DEF Local, BothClosed
<1>4. ch'[e] = s /\ ch'[Peer(e)] = ch[Peer(e)]
    BY DEF Steps, s
<1>5. Local(kind, ch[Peer(e)]) /\ ch[Peer(e)].tx = <<>>
    BY PeerEnd DEF Settled
<1>6. \A f \in Ends : Local(kind', ch'[f]) /\ ch'[f].tx = <<>>
    BY <1>2, <1>3, <1>4, <1>5, PeerEnd
<1>. QED
    BY <1>2, <1>4, <1>6 DEF Settled, Steps

LEMMA StepsLinked ==
    ASSUME Settled, NEW e \in Ends, NEW d, NEW q \in Seq(Packets),
           Pair(kind, q, net[Peer(e)] \o d.tx, d, ch[Peer(e)]), Steps(e, d, q), kind' = kind
    PROVE  Linked'
<1>. DEFINE s == ch'[e]
            o == ch[Peer(e)]
            r == net[Peer(e)] \o d.tx
<1>0. net'[Peer(e)] = r /\ net'[Peer(e)] \in Seq(Packets)
    BY PeerEnd, Zenon DEF Steps
<1>1. /\ Local(kind, d) /\ d \in Chan /\ Dir(kind, r, d, o) /\ Dir(kind, q, o, d)
      /\ net'[e] = q /\ net'[Peer(e)] = r /\ ch'[Peer(e)] = o /\ r \in Seq(Packets)
    BY <1>0 DEF Pair, Steps, Local
<1>2. s.type = d.type /\ s.istate = d.istate /\ s.ostate = d.ostate /\ s.flags = d.flags
    BY <1>1, StepsLocal
<1>. HIDE DEF s, o, r
<1>3. /\ Fin(s) <=> Fin(d)
      /\ EofSent(s) <=> EofSent(d)
      /\ Rcvd(s) <=> Rcvd(d)
      /\ IeofSent(s) <=> IeofSent(d)
      /\ OcloseSent(s) <=> OcloseSent(d)
      /\ IeofRcvd(s) <=> IeofRcvd(d)
      /\ OcloseRcvd(s) <=> OcloseRcvd(d)
    BY <1>2 DEF Fin, EofSent, Rcvd, IeofSent, OcloseSent, IeofRcvd, OcloseRcvd
<1>4. Dir(kind, r, s, o)
    BY <1>1, <1>2, <1>3, DirSame, SMTT(30)
<1>5. Dir(kind, q, o, s)
    BY <1>1, <1>2, <1>3, DirSame
<1>6. CASE e = "client"
    BY <1>1, <1>4, <1>5, <1>6, PeerEnd DEF Linked, s
<1>7. CASE e = "server"
    BY <1>1, <1>4, <1>5, <1>7, PeerEnd DEF Linked, s
<1>. QED
    BY <1>6, <1>7, PeerEnd

(* An open end acts: the other clauses of the invariant.                   *)
LEMMA HasAdded ==
    ASSUME NEW q \in Seq(Packets), NEW r \in Seq(Packets), NEW t, Has(q, t)
    PROVE  Has(q \o r, t)
<1>1. PICK i \in 1 .. Len(q) : q[i].t = t
    BY DEF Has
<1>2. i \in 1 .. Len(q \o r) /\ (q \o r)[i] = q[i]
    OBVIOUS
<1>. QED
    BY <1>1, <1>2 DEF Has

LEMMA HasTail ==
    ASSUME NEW q \in Seq(Packets), NEW t, q # <<>>, Has(q, t), q[1].t # t
    PROVE  Has(Tail(q), t)
<1>1. PICK i \in 1 .. Len(q) : q[i].t = t
    BY DEF Has
<1>2. i # 1 /\ Len(q) \in Nat /\ i \in Nat
    BY <1>1
<1>3. i - 1 \in 1 .. Len(q) - 1 /\ (i - 1) + 1 = i
    BY <1>2
<1>4. Tail(q)[i - 1] = q[i] /\ Len(Tail(q)) = Len(q) - 1
    BY <1>3, TailRest
<1>. QED
    BY <1>1, <1>3, <1>4, ZenonT(30) DEF Has

LEMMA HeadKept ==
    ASSUME NEW q \in Seq(Packets), NEW r \in Seq(Packets), q # <<>>
    PROVE  q \o r # <<>> /\ (q \o r)[1] = q[1]
<1>1. Len(q) \in Nat \ {0} /\ Len(q \o r) = Len(q) + Len(r) /\ Len(r) \in Nat
    OBVIOUS
<1>2. Len(q \o r) # 0
    BY <1>1
<1>. QED
    BY <1>1, <1>2

Progress(e, q) ==
    \/ q = net[e] /\ status' = status
    \/ /\ net[e] # <<>> /\ q = Tail(net[e]) /\ (status = TRUE => status' = TRUE)
       /\ e = "client" /\ net[e][1].t = "exit" => status' = TRUE

LEMMA OpenStep ==
    ASSUME ChannelInv, Live, NEW e \in Ends, NEW d, NEW q \in Seq(Packets),
           ch[e].type = "open", d.type \in {"open", "free"},
           Pair(kind, q, net[Peer(e)] \o d.tx, d, ch[Peer(e)]), Steps(e, d, q),
           kind' = kind, gone' = FALSE, status' \in BOOLEAN, Progress(e, q),
           e = "client" => child' = child,
           e = "server" /\ child \in {"running", "exited"}
             => \/ /\ child' = child
                   /\ d.type = "open" /\ d.detach = "wait" /\ "close_sent" \notin d.flags
                \/ child' = "reaped" /\ Has(net'["client"], "exit"),
           e = "server" /\ child \notin {"running", "exited"} => child' = child
    PROVE  ChannelInv'
<1>1. /\ Settled /\ Linked /\ child \in {"none", "running", "exited", "reaped"}
      /\ kind \in Kinds /\ status \in BOOLEAN
    BY DEF ChannelInv, Live, Settled, Linked
<1>2. Local(kind, d) /\ d \in Chan /\ d.tx \in Seq(Packets)
    BY SMTT(30) DEF Pair, Local, Chan
<1>3. /\ Settled' /\ ch'[e].type = d.type /\ ch'[e].flags = d.flags
      /\ ch'[e].detach = d.detach
    BY <1>1, <1>2, StepsLocal, SMTT(30)
<1>4. Linked'
    BY <1>1, StepsLinked
<1>5. /\ net["client"] \in Seq(Packets) /\ net["server"] \in Seq(Packets)
    BY <1>1, SMTT(30) DEF Settled, Ends
<1>6. CASE e = "client"
    <2>1. /\ ch'["client"].type \in {"open", "free"} /\ ch'["server"] = ch["server"]
          /\ net'["client"] = q /\ net'["server"] = net["server"] \o d.tx
          /\ child' = child /\ ch["client"].type = "open"
        BY <1>3, <1>6, PeerEnd, Zenon DEF Steps
    <2>2. ch["server"].type # "connecting"
        BY <2>1, SMTT(30) DEF Live
    <2>3. ch["server"].type = "larval" =>
            /\ Fresh(ch'["server"]) /\ ch'["server"].detach = "wait"
            /\ net'["server"] # <<>> /\ net'["server"][1].t = "exec"
        BY <1>2, <1>5, <2>1, HeadKept, Zenon DEF Live
    <2>4. child' = "reaped" => status' = TRUE \/ Has(net'["client"], "exit")
        <3>1. SUFFICES ASSUME child = "reaped", status' # TRUE
                       PROVE  Has(net'["client"], "exit")
            BY <2>1, Zenon
        <3>2. Has(net["client"], "exit")
            BY <3>1, ZenonT(30) DEF Live, Command, Progress
        <3>. QED
            BY <1>5, <1>6, <2>1, <3>1, <3>2, HasTail, Zenon DEF Progress
    <2>5. Command'
        BY <2>1, <2>4 DEF Live, Command
    <2>. QED
        BY <1>1, <1>3, <1>4, <2>1, <2>2, <2>3, <2>5, ZenonT(30)
        DEF ChannelInv, Live, Settled, Linked
<1>7. CASE e = "server"
    <2>1. /\ ch'["server"].type \in {"open", "free"} /\ ch'["client"] = ch["client"]
          /\ net'["server"] = q /\ net'["client"] = net["client"] \o d.tx
          /\ ch["server"].type = "open" /\ ch'["server"].type = d.type
          /\ ch'["server"].flags = d.flags /\ ch'["server"].detach = d.detach
        BY <1>3, <1>7, PeerEnd, Zenon DEF Steps
    <2>2. ch["client"].type = "opening" => Fresh(ch'["client"]) /\ net'["server"] = <<>>
        BY <1>7, <2>1 DEF Live, Progress
    <2>3. status = TRUE => status' = TRUE
        BY Zenon DEF Progress
    <2>4. child' = "reaped" => status' = TRUE \/ Has(net'["client"], "exit")
        <3>1. CASE child = "reaped"
            BY <1>2, <1>5, <2>1, <2>3, <3>1, HasAdded DEF Live, Command
        <3>2. CASE child # "reaped"
            BY <1>1, <1>7, <3>2, SMTT(30)
        <3>. QED
            BY <3>1, <3>2, Zenon
    <2>5. kind = "session" => child \in {"running", "exited", "reaped"}
        BY <1>1, <2>1, SMTT(30) DEF Live, Command
    <2>6. kind # "session" => child = "none"
        BY DEF Live, Command
    <2>7. child' \in {"none", "running", "exited", "reaped"}
        BY <1>1, <1>7
    <2>8. kind' = "session" /\ Fin(ch'["server"]) => child' = "reaped"
        BY <1>1, <1>7, <2>1, <2>5 DEF Fin
    <2>9. child' \in {"running", "exited"} =>
            ch'["server"].type = "open" /\ ch'["server"].detach = "wait"
        BY <1>1, <1>7, <2>1
    <2>10. /\ kind' # "session" => child' = "none" /\ ch'["server"].type # "larval"
           /\ ch'["server"].type = "larval" => child' = "none"
           /\ kind' = "session" /\ ch'["server"].type = "open" => child' # "none"
        BY <1>1, <1>7, <2>1, <2>5, <2>6
    <2>11. Command'
        BY <2>4, <2>8, <2>9, <2>10 DEF Command
    <2>. QED
        BY <1>1, <1>3, <1>4, <2>1, <2>2, <2>7, <2>11, ZenonT(30)
        DEF ChannelInv, Live, Settled, Linked
<1>. QED
    BY <1>6, <1>7, PeerEnd
-----------------------------------------------------------------------------
(* The actions.                                                            *)
LEMMA OpenLive ==
    ASSUME ChannelInv, NEW e \in Ends, ch[e].type = "open"
    PROVE  /\ Live /\ Settled /\ Linked
           /\ net[e] \in Seq(Packets) /\ net[Peer(e)] \in Seq(Packets)
           /\ Turn(net[e], net[Peer(e)], ch[e], ch[Peer(e)])
<1>1. Live
    BY PeerEnd, Zenon DEF ChannelInv, Unopened, Failed
<1>2. Settled /\ Linked
    BY <1>1 DEF ChannelInv, Live, Settled, Linked
<1>3. net[e] \in Seq(Packets) /\ net[Peer(e)] \in Seq(Packets)
    BY <1>2, PeerEnd DEF Settled
<1>. QED
    BY <1>1, <1>2, <1>3, LinkedPair DEF Turn

LEMMA PollInv ==
    ASSUME ChannelInv, NEW e \in Ends, Poll(e)
    PROVE  ChannelInv'
<1>. DEFINE c == ch[e]
            d == channel_output_poll(c)
<1>1. /\ d # c /\ Store(e, d) /\ kind' = kind /\ child' = child /\ gone' = gone
      /\ status' = status
    BY DEF Poll, history
<1>2. c.type = "open"
    BY <1>1, Zenon DEF channel_output_poll
<1>3. /\ Live /\ Settled /\ Linked
      /\ net[e] \in Seq(Packets) /\ net[Peer(e)] \in Seq(Packets)
      /\ Turn(net[e], net[Peer(e)], c, ch[Peer(e)])
    BY <1>2, OpenLive
<1>. HIDE DEF c
<1>4. /\ Turn(net[e], net[Peer(e)], d, ch[Peer(e)]) /\ Still(c, d)
      /\ d.flags \ {"eof_sent"} = c.flags \ {"eof_sent"}
    BY <1>3, PollTurn, Zenon
<1>. HIDE DEF d
<1>5. d \in Chan /\ d.type = "open" /\ Pair(kind, net[e], net[Peer(e)] \o d.tx, d, ch[Peer(e)])
    BY <1>4, TurnChan, Zenon DEF Turn
<1>6. Steps(e, d, net[e])
    BY <1>1, <1>3, <1>5, StoreSteps, SMTT(30)
<1>7. e = "server" /\ child \in {"running", "exited"} =>
        d.detach = "wait" /\ "close_sent" \notin d.flags
    BY <1>3, <1>4, SMTT(30) DEF Live, Command, Still, Fin, c
<1>8. gone' = FALSE /\ status' \in BOOLEAN /\ Progress(e, net[e])
    BY <1>1, SMTT(30) DEF ChannelInv, Progress
<1>. QED
    BY <1>1, <1>2, <1>3, <1>5, <1>6, <1>7, <1>8, OpenStep, Zenon DEF c

LEMMA SelectInv ==
    ASSUME ChannelInv, NEW e \in Ends, NEW i \in Int, NEW o \in Int, NEW x \in Int,
           Select(e, i, o, x)
    PROVE  ChannelInv'
<1>. DEFINE c == ch[e]
            q == net[e]
            r == net[Peer(e)]
            p == ch[Peer(e)]
            d == Round(e, c, i, o, x)
<1>2. /\ c.type = "open" /\ kind' = kind /\ child' = child /\ gone' = gone
      /\ status' = status /\ Store(e, d)
    BY SMTT(30) DEF Select, Round
<1>3. Ready(c, i, o, x)
    BY DEF Select, Ready
<1>4. /\ Live /\ Settled /\ Linked
      /\ q \in Seq(Packets) /\ r \in Seq(Packets) /\ Turn(q, r, c, p)
    BY <1>2, OpenLive, SMTT(30)
<1>. HIDE DEF c, q, r, p
<1>5. /\ Pair(kind, q, r \o d.tx, d, p)
      /\ d.type \in {"open", "free"}
      /\ Held(e, c) => d.type = "open" /\ d.detach = "wait" /\ d.flags = c.flags
    BY <1>3, <1>4, SelectTurn, SMTT(30)
<1>. HIDE DEF d
<1>6. d \in Chan
    BY <1>5 DEF Pair, Local
<1>7. Steps(e, d, q)
    BY <1>2, <1>4, <1>6, StoreSteps, SMTT(30) DEF q
<1>8. e = "server" /\ child \in {"running", "exited"} =>
        d.type = "open" /\ d.detach = "wait" /\ "close_sent" \notin d.flags
    BY <1>4, <1>5, SMTT(30) DEF Live, Command, Held, Fin, c
<1>9. gone' = FALSE /\ status' \in BOOLEAN /\ Progress(e, q)
    BY <1>2 DEF ChannelInv, Progress, q
<1>. QED
    BY <1>2, <1>4, <1>5, <1>7, <1>8, <1>9, OpenStep, ZenonT(30) DEF c, r, p

(* session_exit_message: the status is sent before the guard allows a close. *)
LEMMA ExitTurn ==
    ASSUME NEW q \in Seq(Packets), NEW r \in Seq(Packets), NEW c, NEW e, Turn(q, r, c, e),
           compat20, "close_sent" \notin c.flags, c.tx = <<>>
    PROVE  LET b == [Send(c, "exit", 0) EXCEPT !.detach = "close"]
               d == IF b.ostate = "closed" THEN b ELSE chan_write_failed(b)
           IN  Turn(q, r, d, e) /\ d.tx = <<Packet("exit", 0)>>
<1>. DEFINE s == Send(c, "exit", 0)
            b == [s EXCEPT !.detach = "close"]
            w == chan_write_failed(b)
            d == IF b.ostate = "closed" THEN b ELSE w
<1>1. /\ c \in Chan /\ c.type = "open" /\ c.err = FALSE
      /\ c.istate # "wait_oclose" /\ c.ostate # "wait_ieof"
      /\ c.ostate \in {"open", "wait_drain", "wait_ieof", "closed"}
    BY TurnChan, Zenon
<1>2. "exit" \in Names /\ 0 \in Int
    BY DEF Names
<1>3. /\ s \in Chan /\ s.tx = Append(c.tx, Packet("exit", 0))
      /\ s.type = c.type /\ s.istate = c.istate /\ s.ostate = c.ostate
      /\ s.flags = c.flags /\ s.err = c.err
    BY <1>1, <1>2, SendAdds, Zenon
<1>. HIDE DEF s
<1>4. b \in Chan /\ Alike(s, b)
    BY <1>3, SetGuard, Zenon
<1>. HIDE DEF b
<1>5. /\ b.tx = Append(c.tx, Packet("exit", 0)) /\ b.type = "open" /\ b.istate = c.istate
      /\ b.ostate = c.ostate /\ b.flags = c.flags /\ b.err = FALSE
    BY <1>1, <1>3, <1>4, SMTT(30) DEF Alike
<1>6. Local(kind, b) /\ Sent(c, "exit", b)
    BY <1>1, <1>2, <1>4, <1>5, LocalNext, Zenon DEF Sent
<1>7. Turn(q, r, b, e)
    BY <1>5, <1>6, TurnSend
<1>8. b.tx = <<Packet("exit", 0)>>
    BY <1>5
<1>9. CASE b.ostate = "closed"
    <2>1. d = b
        BY <1>9
    <2>. QED
        BY <1>7, <1>8, <2>1, Zenon DEF b, s
<1>10. CASE b.ostate # "closed"
    <2>1. b.ostate \in {"open", "wait_drain"}
        BY <1>1, <1>5, <1>10, SMTT(30)
    <2>2. Turn(q, r, w, e) /\ w.tx = b.tx
        BY <1>4, <1>7, <2>1, WriteFailedTurn, WriteFailed
    <2>3. d = w
        BY <1>10, SMTT(30)
    <2>. QED
        BY <1>8, <2>2, <2>3 DEF b, s
<1>. QED
    BY <1>9, <1>10, SMTT(30)

LEMMA ReapInv ==
    ASSUME ChannelInv, Reap
    PROVE  ChannelInv'
<1>. DEFINE c == ch["server"]
            b == [Send(c, "exit", 0) EXCEPT !.detach = "close"]
            d == IF b.ostate = "closed" THEN b ELSE chan_write_failed(b)
            o == ch[Peer("server")]
            r == net[Peer("server")]
<1>1. child = "exited" /\ "server" \in Ends /\ Peer("server") = "client"
    BY DEF Reap, Ends, Peer
<1>2. c.type = "open" /\ kind = "session" /\ "close_sent" \notin c.flags
    BY <1>1 DEF ChannelInv, Unopened, Failed, Live, Command, Fin
<1>3. /\ Live /\ Settled /\ Linked /\ net["server"] \in Seq(Packets) /\ r \in Seq(Packets)
      /\ Turn(net["server"], r, c, o)
    BY <1>1, <1>2, OpenLive
<1>4. /\ Store("server", d) /\ child' = "reaped" /\ gone' = gone /\ kind' = kind
      /\ status' = status
    BY <1>2 DEF Reap
<1>5. c.tx = <<>> /\ compat20
    BY <1>1, <1>2, <1>3 DEF Settled, compat20
<1>. HIDE DEF c, o, r
<1>6. Turn(net["server"], r, d, o) /\ d.tx = <<Packet("exit", 0)>>
    BY <1>2, <1>3, <1>5, ExitTurn, Zenon
<1>. HIDE DEF d
<1>7. d \in Chan /\ d.type = "open" /\ Pair(kind, net["server"], r \o d.tx, d, o)
    BY <1>6, TurnChan, Zenon DEF Turn
<1>8. Steps("server", d, net["server"])
    BY <1>1, <1>3, <1>4, <1>7, StoreSteps
<1>9. Has(net'["client"], "exit")
    <2>1. net'["client"] = r \o <<Packet("exit", 0)>>
        BY <1>1, <1>6, <1>8 DEF Steps, r
    <2>2. /\ Len(r) + 1 \in 1 .. Len(r \o <<Packet("exit", 0)>>)
          /\ (r \o <<Packet("exit", 0)>>)[Len(r) + 1] = Packet("exit", 0)
        BY <1>3
    <2>3. Packet("exit", 0).t = "exit"
        BY DEF Packet
    <2>. QED
        BY <2>1, <2>2, <2>3 DEF Has
<1>10. gone' = FALSE /\ status' \in BOOLEAN /\ Progress("server", net["server"])
    BY <1>4 DEF ChannelInv, Progress
<1>. QED
    BY <1>1, <1>2, <1>3, <1>4, <1>7, <1>8, <1>9, <1>10, OpenStep, Zenon DEF c, o, r

LEMMA ChildExitsInv ==
    ASSUME ChannelInv, ChildExits
    PROVE  ChannelInv'
<1>1. /\ child = "running" /\ child' = "exited" /\ kind' = kind /\ ch' = ch /\ net' = net
      /\ gone' = gone /\ status' = status
    BY DEF ChildExits, history
<1>2. Live
    BY <1>1, SMTT(30) DEF ChannelInv, Unopened, Failed
<1>3. Command'
    BY <1>1, <1>2, SMTT(30) DEF Live, Command
<1>4. Live'
    BY <1>1, <1>2, <1>3, SMTT(30) DEF Live
<1>. QED
    BY <1>1, <1>4 DEF ChannelInv

(* A packet for an open channel.                                           *)
LEMMA ReceiveOpenInv ==
    ASSUME ChannelInv, NEW e \in Ends, Receive(e), ch[e].type = "open"
    PROVE  ChannelInv'
<1>. DEFINE c == ch[e]
            q == net[e]
            r == net[Peer(e)]
            p == ch[Peer(e)]
            d == Handle(c, q[1])
<1>1. /\ Live /\ Settled /\ Linked
      /\ q \in Seq(Packets) /\ r \in Seq(Packets) /\ Turn(q, r, c, p)
    BY OpenLive
<1>2. q # <<>> /\ Head(q) = q[1] /\ Tail(q) \in Seq(Packets)
    BY <1>1 DEF Receive
<1>. HIDE DEF c, q, r, p
<1>3. /\ ~Rejects(c, q[1]) /\ Turn(Tail(q), r, d, p) /\ Still(c, d)
      /\ "close_sent" \in d.flags => "close_sent" \in c.flags
    BY <1>1, <1>2, HandleTurn, SMTT(30)
<1>4. /\ StoreRcvd(e, d) /\ kind' = kind /\ child' = child /\ gone' = gone
      /\ status' = (status \/ q[1].t = "exit")
    BY <1>2, <1>3, SMTT(30) DEF Receive, c, q
<1>. HIDE DEF d
<1>5. d \in Chan /\ d.type = "open" /\ Pair(kind, Tail(q), r \o d.tx, d, p)
    BY <1>3, TurnChan, ZenonT(30) DEF Turn
<1>6. Steps(e, d, Tail(q))
    BY <1>1, <1>2, <1>4, <1>5, StoreSteps, SMTT(30) DEF q
<1>7. e = "server" /\ child \in {"running", "exited"} =>
        d.detach = "wait" /\ "close_sent" \notin d.flags
    BY <1>1, <1>3 DEF Live, Command, Still, Fin, c
<1>8. gone' = FALSE /\ status \in BOOLEAN
    BY <1>4 DEF ChannelInv
<1>9. status' \in BOOLEAN /\ (status = TRUE => status' = TRUE)
      /\ (q[1].t = "exit" => status' = TRUE)
    BY <1>4, <1>8, Zenon
<1>10. Progress(e, Tail(q))
    BY <1>2, <1>9, SMTT(30) DEF Progress, q
<1>. QED
    BY <1>1, <1>2, <1>4, <1>5, <1>6, <1>7, <1>8, <1>9, <1>10, OpenStep, Zenon DEF r, p

(* channel_input_open_failure.                                             *)
LEMMA ReceiveFailureInv ==
    ASSUME ChannelInv, NEW e \in Ends, Receive(e), Failed
    PROVE  ChannelInv'
<1>. DEFINE c == ch["client"]
            d == channel_free(c)
<1>1. Settled /\ "client" \in Ends /\ "server" \in Ends /\ Peer("client") = "server"
    BY SMTT(30) DEF ChannelInv, Settled, Ends, Peer
<1>2. net[e] # <<>>
    BY Zenon DEF Receive
<1>3. /\ e = "client" /\ c.type = "opening" /\ net["client"] = <<Packet("failure", 0)>>
    BY <1>2, PeerEnd, Zenon DEF Failed
<1>4. Head(net["client"]) = Packet("failure", 0) /\ Tail(net["client"]) = <<>>
    BY <1>3
<1>5. Packet("failure", 0).t = "failure"
    BY DEF Packet
<1>6. ~Rejects(c, Packet("failure", 0)) /\ Handle(c, Packet("failure", 0)) = d
    BY <1>3, <1>5 DEF Rejects, Handle
<1>7. /\ StoreRcvd("client", d) /\ kind' = kind /\ child' = child /\ gone' = gone
      /\ status' = status
    <2>1. /\ StoreRcvd("client", d) /\ kind' = kind /\ child' = child /\ gone' = gone
          /\ status' = (status \/ FALSE)
        BY <1>3, <1>4, <1>5, <1>6 DEF Receive
    <2>2. status \in BOOLEAN
        BY DEF ChannelInv
    <2>. QED
        BY <2>1, <2>2
<1>8. c \in Chan /\ c.err = FALSE /\ c.tx = <<>>
    BY <1>1 DEF Settled, Local
<1>9. /\ d \in Chan /\ d.type = "free" /\ d.istate = "closed" /\ d.ostate = "closed"
      /\ d.flags = {} /\ d.tx = <<>> /\ d.err = FALSE
    BY <1>8, Freed, Zenon
<1>. HIDE DEF d
<1>10. Local(kind, d)
    BY <1>9 DEF Local, BothClosed
<1>11. Steps("client", d, <<>>)
    <2>1. Steps("client", d, Tail(net["client"]))
        BY <1>1, <1>2, <1>3, <1>7, <1>9, StoreSteps, Zenon
    <2>. QED
        BY <1>4, <2>1, Zenon
<1>12. Settled' /\ ch'["client"].type = "free" /\ ch'["client"].flags = {}
    BY <1>1, <1>7, <1>9, <1>10, <1>11, StepsLocal
<1>13. Failed'
    <2>1. /\ ch'["server"] = ch["server"] /\ net'["client"] = <<>>
          /\ net'["server"] = net["server"] \o d.tx
        BY <1>1, <1>11, Zenon DEF Steps
    <2>2. net["server"] \o d.tx = <<>>
        BY <1>9 DEF Failed
    <2>. QED
        BY <1>7, <1>12, <2>1, <2>2 DEF Failed
<1>. QED
    BY <1>7, <1>12, <1>13 DEF ChannelInv, Settled

(* channel_input_open_confirmation: the client asks for its command first. *)
LEMMA ConfirmChan ==
    ASSUME NEW c \in Chan, c.err = FALSE, c.tx = <<>>, Fresh(c), NEW n \in Int
    PROVE  LET d == channel_input_open_confirmation(c, n)
           IN  /\ Local(kind, d) /\ d.type = "open" /\ Fresh(d)
               /\ d.tx = IF kind = "session" THEN <<Packet("exec", 0)>> ELSE <<>>
<1>. DEFINE s == SetRemote(c, n)
            b == [s EXCEPT !.type = "open"]
            d == channel_input_open_confirmation(c, n)
<1>1. "exec" \in Names /\ 0 \in Int
    BY DEF Names
<1>2. d = IF kind = "session" THEN Send(b, "exec", 0) ELSE b
    BY Zenon DEF channel_input_open_confirmation, SetRemote, Chan
<1>3. s \in Chan /\ Alike(c, s)
    BY SetCounts DEF Quiet
<1>. HIDE DEF s
<1>4. /\ b \in Chan /\ b.type = "open" /\ b.istate = "open" /\ b.ostate = "open"
      /\ b.flags = {} /\ b.err = FALSE /\ b.tx = <<>>
    BY <1>3, Zenon DEF Chan, Alike, Fresh
<1>. HIDE DEF b, d
<1>5. /\ d \in Chan /\ d.type = "open" /\ d.istate = "open" /\ d.ostate = "open"
      /\ d.flags = {} /\ d.err = FALSE
      /\ d.tx = IF kind = "session" THEN Append(b.tx, Packet("exec", 0)) ELSE <<>>
    <2>1. CASE kind = "session"
        <3>1. d = Send(b, "exec", 0)
            BY <1>2, <2>1
        <3>. QED
            BY <1>1, <1>4, <2>1, <3>1, SendAdds, Zenon
    <2>2. CASE kind # "session"
        BY <1>2, <1>4, <2>2
    <2>. QED
        BY <2>1, <2>2, Zenon
<1>6. Append(b.tx, Packet("exec", 0)) = <<Packet("exec", 0)>>
    BY <1>4
<1>7. Local(kind, d) /\ Fresh(d)
    BY <1>5, LocalNext, ZenonT(30) DEF Fresh
<1>. QED
    BY <1>5, <1>6, <1>7, Zenon DEF d

LEMMA ReceiveConfirmInv ==
    ASSUME ChannelInv, Live, Receive("client"), ch["client"].type = "opening"
    PROVE  ChannelInv'
<1>. DEFINE c == ch["client"]
            q == net["client"]
            r == net["server"]
            p == ch["server"]
            d == Handle(c, q[1])
<1>1. /\ Settled /\ Linked /\ "client" \in Ends /\ Peer("client") = "server"
      /\ child \in {"none", "running", "exited", "reaped"} /\ kind \in Kinds
      /\ status \in BOOLEAN /\ gone = FALSE
    BY SMTT(30) DEF ChannelInv, Live, Settled, Linked, Ends, Peer
<1>2. /\ q \in Seq(Packets) /\ r \in Seq(Packets) /\ q # <<>> /\ c \in Chan
      /\ c.err = FALSE /\ c.tx = <<>>
    BY <1>1, SMTT(30) DEF Settled, Ends, Local, Receive
<1>3. /\ Head(q) = q[1] /\ Tail(q) \in Seq(Packets) /\ q[1] \in Packets
      /\ Len(q) \in Nat \ {0}
    BY <1>2, TailRest, SMTT(30)
<1>4. /\ q[1].t = "confirm" /\ q[1].n \in Int
      /\ Dir(kind, q, p, c) /\ Dir(kind, r, c, p)
    BY <1>1, <1>3 DEF Linked, Dir, Answered, Packets
<1>5. Fresh(c) /\ r = <<>> /\ p.type \in {"larval", "open", "free"}
    BY <1>2 DEF Live
<1>6. ~Rejects(c, q[1]) /\ d = channel_input_open_confirmation(c, q[1].n)
    BY <1>4 DEF Rejects, Handle
<1>7. /\ StoreRcvd("client", d) /\ kind' = kind /\ child' = child /\ gone' = gone
      /\ status' = status
    <2>1. /\ StoreRcvd("client", d) /\ kind' = kind /\ child' = child /\ gone' = gone
          /\ status' = (status \/ FALSE)
        BY <1>3, <1>4, <1>6, SMTT(30) DEF Receive
    <2>. QED
        BY <1>1, <2>1, SMTT(30)
<1>. HIDE DEF c, q, r, p, d
<1>8. /\ Local(kind, d) /\ d.type = "open" /\ Fresh(d)
      /\ d.tx = IF kind = "session" THEN <<Packet("exec", 0)>> ELSE <<>>
    BY <1>2, <1>4, <1>5, <1>6, ConfirmChan, Zenon
<1>9. d \in Chan
    BY <1>8 DEF Local
<1>10. Pair(kind, Tail(q), r \o d.tx, d, p)
    <2>. DEFINE s == r \o d.tx
    <2>1. s \in Seq(Packets)
        BY <1>2, <1>9 DEF Chan
    <2>2. s = r \/ (compat20 /\ s = Append(r, Packet("exec", 0)))
        BY <1>5, <1>8 DEF compat20
    <2>3. c.type = "opening" /\ 0 \in Int
        BY SMTT(30) DEF c
    <2>. HIDE DEF s
    <2>4. Pair(kind, Tail(q), s, d, p)
        BY <1>2, <1>4, <1>5, <1>8, <2>1, <2>2, <2>3, BeginPair, Zenon
    <2>. QED
        BY <2>4 DEF s
<1>11. Steps("client", d, Tail(q))
    BY <1>1, <1>2, <1>7, <1>9, StoreSteps DEF q
<1>12. /\ ch'["client"].type = "open" /\ ch'["server"] = p /\ net'["client"] = Tail(q)
       /\ net'["server"] = d.tx /\ Settled' /\ Linked'
    <2>1. Settled' /\ ch'["client"].type = "open"
        BY <1>1, <1>7, <1>8, <1>11, StepsLocal, SMTT(30)
    <2>2. Linked'
        BY <1>1, <1>3, <1>7, <1>10, <1>11, StepsLinked, Zenon DEF r, p
    <2>3. /\ ch'["server"] = p /\ net'["client"] = Tail(q) /\ net'["server"] = r \o d.tx
        BY <1>1, <1>11, Zenon DEF Steps, r, p
    <2>4. r \o d.tx = d.tx
        BY <1>5, <1>9 DEF Chan
    <2>. QED
        BY <2>1, <2>2, <2>3, <2>4, SMTT(30)
<1>13. p.type = "larval" => /\ Fresh(p) /\ p.detach = "wait"
                            /\ net'["server"] # <<>> /\ net'["server"][1].t = "exec"
    <2>1. p.type = "larval" => kind = "session" /\ Fresh(p) /\ p.detach = "wait"
        BY DEF Live, Command, p
    <2>2. <<Packet("exec", 0)>> # <<>> /\ <<Packet("exec", 0)>>[1].t = "exec"
        BY DEF Packet
    <2>. QED
        BY <1>8, <1>12, <2>1, <2>2
<1>14. Has(q, "exit") => Has(Tail(q), "exit")
    BY <1>2, <1>4, HasTail, SMTT(30)
<1>15. Command'
    BY <1>7, <1>12, <1>14, SMTT(30) DEF Live, Command, p, q
<1>16. Live'
    BY <1>5, <1>7, <1>12, <1>13, <1>15, SMTT(30) DEF Live, Linked
<1>. QED
    BY <1>1, <1>7, <1>12, <1>16 DEF ChannelInv, Settled

(* session_exec_req: the command is started, and the window granted.       *)
LEMMA ExecChan ==
    ASSUME NEW c \in Chan, c.err = FALSE, c.tx = <<>>, Fresh(c), c.detach = "wait"
    PROVE  LET d == session_exec_req(c)
           IN  /\ Local(kind, d) /\ d.type = "open" /\ Fresh(d) /\ d.detach = "wait"
               /\ d.tx = <<Packet("adjust", Window)>>
<1>. DEFINE b == [c EXCEPT !.type = "open", !.efd = TRUE, !.eusage = "read",
                           !.local_window = Window, !.max = Window]
            d == session_exec_req(c)
<1>1. "adjust" \in Names /\ Window \in Int
    BY ChannelAssumption DEF Names
<1>2. d = Send(b, "adjust", Window)
    BY DEF session_exec_req
<1>3. /\ b \in Chan /\ b.type = "open" /\ b.istate = "open" /\ b.ostate = "open"
      /\ b.flags = {} /\ b.err = FALSE /\ b.tx = <<>> /\ b.detach = "wait"
    BY <1>1, Zenon DEF Chan, Fresh
<1>. HIDE DEF b, d
<1>4. /\ d \in Chan /\ d.type = "open" /\ d.istate = "open" /\ d.ostate = "open"
      /\ d.flags = {} /\ d.err = FALSE /\ d.detach = "wait"
      /\ d.tx = Append(b.tx, Packet("adjust", Window))
    BY <1>1, <1>2, <1>3, SendAdds
<1>5. Append(b.tx, Packet("adjust", Window)) = <<Packet("adjust", Window)>>
    BY <1>3
<1>6. Local(kind, d) /\ Fresh(d)
    BY <1>4, LocalNext, ZenonT(30) DEF Fresh
<1>. QED
    BY <1>4, <1>5, <1>6 DEF d

LEMMA ReceiveExecInv ==
    ASSUME ChannelInv, Live, Receive("server"), ch["server"].type = "larval"
    PROVE  ChannelInv'
<1>. DEFINE c == ch["server"]
            q == net["server"]
            r == net["client"]
            p == ch["client"]
            d == Handle(c, q[1])
<1>1. /\ Settled /\ Linked /\ "server" \in Ends /\ Peer("server") = "client"
      /\ kind \in Kinds /\ status \in BOOLEAN /\ gone = FALSE
    BY SMTT(30) DEF ChannelInv, Live, Settled, Linked, Ends, Peer
<1>2. /\ q \in Seq(Packets) /\ r \in Seq(Packets) /\ q # <<>> /\ c \in Chan
      /\ c.err = FALSE /\ c.tx = <<>> /\ c.type = "larval"
    BY <1>1, Zenon DEF Settled, Ends, Local, Receive
<1>3. Head(q) = q[1] /\ Tail(q) \in Seq(Packets)
    BY <1>2, TailRest, SMTT(30)
<1>4. /\ Fresh(c) /\ c.detach = "wait" /\ q[1].t = "exec" /\ p.type \in {"open", "free"}
      /\ Dir(kind, q, p, c) /\ Dir(kind, r, c, p) /\ kind = "session" /\ child = "none"
    BY <1>1, <1>2 DEF Live, Linked, Command
<1>5. ~Rejects(c, q[1]) /\ d = session_exec_req(c)
    BY <1>2, <1>4 DEF Rejects, Handle
<1>6. /\ StoreRcvd("server", d) /\ kind' = kind /\ child' = "running" /\ gone' = gone
      /\ status' = status
    <2>1. /\ StoreRcvd("server", d) /\ kind' = kind /\ child' = "running" /\ gone' = gone
          /\ status' = (status \/ FALSE)
        BY <1>2, <1>3, <1>4, <1>5, SMTT(30) DEF Receive
    <2>. QED
        BY <1>1, <2>1, SMTT(30)
<1>. HIDE DEF c, q, r, p, d
<1>7. /\ Local(kind, d) /\ d.type = "open" /\ Fresh(d) /\ d.detach = "wait"
      /\ d.tx = <<Packet("adjust", Window)>>
    BY <1>2, <1>4, <1>5, ExecChan, Zenon
<1>8. d \in Chan /\ d.tx \in Seq(Packets)
    BY <1>7, Zenon DEF Local, Chan
<1>9. Pair(kind, Tail(q), r \o d.tx, d, p)
    <2>. DEFINE s == r \o d.tx
    <2>1. s \in Seq(Packets)
        BY <1>2, <1>8
    <2>2. compat20 /\ s = Append(r, Packet("adjust", Window))
        BY <1>2, <1>4, <1>7 DEF compat20
    <2>3. Window \in Int
        BY ChannelAssumption, SMTT(30)
    <2>. HIDE DEF s
    <2>4. Pair(kind, Tail(q), s, d, p)
        BY <1>2, <1>4, <1>7, <2>1, <2>2, <2>3, BeginPair, ZenonT(30)
    <2>. QED
        BY <2>4 DEF s
<1>10. Steps("server", d, Tail(q))
    BY <1>1, <1>2, <1>6, <1>8, StoreSteps, SMTT(30) DEF q
<1>11. /\ Settled' /\ ch'["server"].type = "open" /\ ch'["server"].detach = "wait"
       /\ ch'["server"].flags = {}
    BY <1>1, <1>6, <1>7, <1>10, StepsLocal DEF Fresh
<1>12. Linked' /\ ch'["client"] = p
    BY <1>1, <1>3, <1>6, <1>9, <1>10, StepsLinked, Zenon DEF Steps, r, p
<1>13. Command'
    BY <1>4, <1>6, <1>11, SMTT(30) DEF Command, Fin
<1>14. Live'
    BY <1>4, <1>11, <1>12, <1>13 DEF Live, Linked
<1>. QED
    BY <1>1, <1>6, <1>11, <1>14, SMTT(30) DEF ChannelInv, Settled

(* A channel that is freed is not sent anything any more.                  *)
LEMMA FreedEmpty ==
    ASSUME Settled, Linked, NEW e \in Ends, ch[e].type = "free"
    PROVE  net[e] = <<>>
<1>. DEFINE c == ch[e]
            p == ch[Peer(e)]
            q == net[e]
<1>1. Dir(kind, q, p, c) /\ Local(kind, c)
    BY LinkedPair DEF Pair
<1>2. q \in Seq(Packets)
    BY DEF Settled
<1>. HIDE DEF q, p
<1>3. CASE kind # "tcp15"
    <2>1. Len(q) = 0
        BY <1>1, <1>3, SMTT(30) DEF Dir, Dir20, Rcvd
    <2>. QED
        BY <1>2, <2>1 DEF q
<1>4. CASE kind = "tcp15"
    <2>1. IeofRcvd(c) /\ OcloseRcvd(c)
        BY <1>1, SMTT(30) DEF Local, BothClosed, IeofRcvd, OcloseRcvd
    <2>2. \A i \in 1 .. Len(q) : q[i].t = "oclose" /\ q[i].t # "oclose"
        BY <1>1, <1>4, <2>1 DEF Dir, Dir15
    <2>3. Len(q) \in Nat /\ ~(1 \in 1 .. Len(q))
        BY <1>2, <2>2
    <2>4. Len(q) = 0
        BY <2>3, SMTT(30)
    <2>. QED
        BY <1>2, <2>4 DEF q
<1>. QED
    BY <1>3, <1>4

LEMMA ReceiveInv ==
    ASSUME ChannelInv, NEW e \in Ends, Receive(e)
    PROVE  ChannelInv'
<1>1. net[e] # <<>> /\ Head(net[e]).t # "open"
    BY Zenon DEF Receive
<1>2. CASE Unopened
    <2>1. net[e] = <<Packet("open", Window)>>
        BY <1>1, <1>2, PeerEnd DEF Unopened
    <2>2. Head(<<Packet("open", Window)>>).t = "open"
        BY DEF Packet
    <2>. QED
        BY <1>1, <2>1, <2>2, SMTT(30)
<1>3. CASE Failed
    BY <1>3, ReceiveFailureInv
<1>4. CASE Live
    <2>1. Settled /\ Linked
        BY <1>4 DEF ChannelInv, Live, Settled, Linked
    <2>2. ch[e].type # "free"
        BY <1>1, <2>1, FreedEmpty
    <2>3. CASE ch[e].type = "open"
        BY <2>3, ReceiveOpenInv, SMTT(30)
    <2>4. CASE e = "client" /\ ch[e].type # "open"
        BY <1>4, <2>2, <2>4, ReceiveConfirmInv, SMTT(30) DEF Live
    <2>5. CASE e = "server" /\ ch[e].type # "open"
        BY <1>1, <1>4, <2>2, <2>5, ReceiveExecInv, SMTT(30) DEF Live
    <2>. QED
        BY <2>3, <2>4, <2>5, PeerEnd, SMTT(30)
<1>. QED
    BY <1>2, <1>3, <1>4, ZenonT(30) DEF ChannelInv
-----------------------------------------------------------------------------
(* The server answers the request for the channel.                         *)
LEMMA BeginDirs ==
    ASSUME NEW k, NEW c, NEW p, NEW q, NEW n \in Int, Fresh(c), Fresh(p),
           c.type = "opening", p.type \in {"larval", "connecting", "open"},
           q = <<Packet("confirm", n)>> \/ (q = <<>> /\ p.type = "connecting")
    PROVE  Dir(k, q, p, c) /\ Dir(k, <<>>, c, p)
<1>1. /\ ~Rcvd(c) /\ ~Rcvd(p) /\ c.flags = {} /\ p.flags = {}
      /\ ~IeofRcvd(c) /\ ~IeofRcvd(p) /\ ~OcloseRcvd(c) /\ ~OcloseRcvd(p)
    BY DEF Fresh, Rcvd, IeofRcvd, OcloseRcvd
<1>2. Len(<<>>) = 0 /\ (1 .. 0) = {}
    OBVIOUS
<1>3. /\ Len(<<Packet("confirm", n)>>) = 1 /\ <<Packet("confirm", n)>>[1].t = "confirm"
      /\ \A i \in 1 .. 1 : i = 1
    BY SMTT(30) DEF Packet
<1>4. Dir(k, <<>>, c, p)
    BY <1>1, <1>2 DEF Dir, Dir20, Dir15, Answered, Has
<1>5. Dir(k, q, p, c)
    <2>1. CASE q = <<Packet("confirm", n)>>
        <3>1. Len(q) = 1 /\ q[1].t = "confirm" /\ \A i \in 1 .. Len(q) : q[i].t = "confirm" /\ i = 1
            BY <1>3, <2>1, SMTT(30)
        <3>. QED
            BY <1>1, <3>1 DEF Dir, Dir20, Dir15, Answered, Has
    <2>2. CASE q = <<>> /\ p.type = "connecting"
        BY <1>1, <1>2, <2>2, SMTT(30) DEF Dir, Dir20, Dir15, Answered, Has
    <2>. QED
        BY <2>1, <2>2, SMTT(30)
<1>. QED
    BY <1>4, <1>5

LEMMA AnswerStep ==
    ASSUME ChannelInv, NEW d, NEW n \in Int, Local(kind, d), Fresh(d),
           Steps("server", d, <<>>), ch["client"].type = "opening", Fresh(ch["client"]),
           net["client"] = <<>>, child = "none", child' = "none", kind' = kind,
           gone' = gone, status' = status,
           \/ /\ kind = "session" /\ d.type = "larval" /\ d.detach = "wait"
              /\ d.tx = <<Packet("confirm", n)>>
           \/ kind # "session" /\ d.type = "connecting" /\ d.tx = <<>>
           \/ kind # "session" /\ d.type = "open" /\ d.tx = <<Packet("confirm", n)>>
    PROVE  ChannelInv'
<1>. DEFINE p == ch'["server"]
<1>1. Settled /\ "server" \in Ends /\ Peer("server") = "client"
    BY SMTT(30) DEF ChannelInv, Settled, Ends, Peer
<1>2. /\ Settled' /\ p.type = d.type /\ p.istate = d.istate /\ p.ostate = d.ostate
      /\ p.flags = d.flags /\ p.detach = d.detach
    BY <1>1, StepsLocal
<1>3. d.tx \in Seq(Packets) /\ <<>> \o d.tx = d.tx
    BY SMTT(30) DEF Local, Chan
<1>4. /\ ch'["client"] = ch["client"] /\ net'["server"] = <<>> /\ net'["client"] = d.tx
    BY <1>1, <1>3, Zenon DEF Steps
<1>. HIDE DEF p
<1>5. Fresh(p) /\ ~Fin(p)
    BY <1>2 DEF Fresh, Fin
<1>6. Dir(kind, d.tx, p, ch["client"]) /\ Dir(kind, <<>>, ch["client"], p)
    BY <1>2, <1>5, BeginDirs, ZenonT(30)
<1>7. Command'
    BY <1>2, <1>5 DEF Command, p
<1>8. Live'
    BY <1>2, <1>4, <1>5, <1>6, <1>7, ZenonT(30) DEF Live, p
<1>. QED
    BY <1>2, <1>8, SMTT(30) DEF ChannelInv, Settled

LEMMA RefuseStep ==
    ASSUME ChannelInv, NEW d, Local(kind, d), d.type \in {"none", "free"},
           Steps("server", d, <<>>), ch["client"].type = "opening", Fresh(ch["client"]),
           net["client"] = <<>>, child = "none", child' = "none", kind' = kind,
           gone' = gone, status' = status, d.tx = <<Packet("failure", 0)>>
    PROVE  ChannelInv'
<1>1. Settled /\ "server" \in Ends /\ Peer("server") = "client"
    BY SMTT(30) DEF ChannelInv, Settled, Ends, Peer
<1>2. Settled' /\ ch'["server"].type = d.type
    BY <1>1, StepsLocal, SMTT(30)
<1>3. d.tx \in Seq(Packets) /\ <<>> \o d.tx = d.tx
    <2>1. \A s \in Seq(Packets) : <<>> \o s = s
        OBVIOUS
    <2>2. d.tx \in Seq(Packets)
        BY Zenon DEF Local, Chan
    <2>. QED
        BY <2>1, <2>2, SMTT(30)
<1>4. /\ ch'["client"] = ch["client"] /\ net'["server"] = <<>> /\ net'["client"] = d.tx
    BY <1>1, <1>3 DEF Steps
<1>5. Failed'
    BY <1>2, <1>4, SMTT(30) DEF Failed, Fresh
<1>. QED
    BY <1>2, <1>5, Zenon DEF ChannelInv, Settled

NewEnd(type, w, guard) == channel_new(type, w, FALSE, "none", guard)

LEMMA NewEndChan ==
    ASSUME NEW t \in {"none", "larval", "connecting"}, NEW w \in Int, NEW g \in {"none", "wait"}
    PROVE  LET d == NewEnd(t, w, g)
           IN  /\ d \in Chan /\ d.type = t /\ Fresh(d) /\ d.tx = <<>> /\ d.err = FALSE
               /\ d.detach = g
<1>1. FALSE \in BOOLEAN /\ <<>> \in Seq(Packets)
    OBVIOUS
<1>. QED
    BY <1>1 DEF NewEnd, channel_new, Chan, Fresh

LEMMA FreshLocal ==
    ASSUME NEW d \in Chan, d.err = FALSE, Fresh(d), d.type # "free"
    PROVE  Local(kind, d)
  BY SMTT(30) DEF Local, Fresh

LEMMA OneMore ==
    ASSUME NEW c \in Chan, c.tx = <<>>, NEW t \in Names, NEW n \in Int
    PROVE  LET d == Send(c, t, n)
           IN  /\ d \in Chan /\ d.tx = <<Packet(t, n)>> /\ d.type = c.type
               /\ d.detach = c.detach /\ d.err = c.err /\ d.istate = c.istate
               /\ d.ostate = c.ostate /\ d.flags = c.flags
<1>. DEFINE d == Send(c, t, n)
<1>1. /\ d \in Chan /\ d.tx = Append(c.tx, Packet(t, n)) /\ d.type = c.type
      /\ d.detach = c.detach /\ d.err = c.err /\ d.istate = c.istate
      /\ d.ostate = c.ostate /\ d.flags = c.flags
    BY SendAdds
<1>2. Append(c.tx, Packet(t, n)) = <<Packet(t, n)>>
    OBVIOUS
<1>. HIDE DEF d
<1>3. d.tx = <<Packet(t, n)>>
    BY <1>1, <1>2
<1>. QED
    BY <1>1, <1>3, SMTT(30) DEF d

LEMMA ServerOpensInv ==
    ASSUME ChannelInv, ServerOpens
    PROVE  ChannelInv'
<1>. DEFINE n  == Head(net["server"]).n
            l  == SetRemote(NewEnd("larval", 0, "wait"), n)
            dl == Send(l, "confirm", 0)
            dc == SetRemote(NewEnd("connecting", Window, "none"), n)
            df == Send(NewEnd("none", 0, "none"), "failure", 0)
<1>1. /\ Settled /\ "server" \in Ends /\ Peer("server") = "client"
      /\ net["server"] \in Seq(Packets)
    BY DEF ChannelInv, Settled, Ends, Peer
<1>2. net["server"] # <<>> /\ Head(net["server"]).t = "open"
    BY DEF ServerOpens
<1>3. Unopened
    <2>1. ~Failed
        BY <1>2, SMTT(30) DEF Failed
    <2>2. ~Live
        <3>1. net["server"][1].t = "open" /\ 1 \in 1 .. Len(net["server"])
            BY <1>1, <1>2
        <3>. QED
            BY <3>1, Zenon DEF Live, Dir, Dir20, Dir15
    <2>. QED
        BY <2>1, <2>2 DEF ChannelInv
<1>4. /\ ch["client"].type = "opening" /\ Fresh(ch["client"]) /\ child = "none"
      /\ net["client"] = <<>>
    BY <1>3 DEF Unopened
<1>5. n = Window /\ Tail(net["server"]) = <<>>
    <2>1. net["server"] = <<Packet("open", Window)>>
        BY <1>3 DEF Unopened
    <2>2. Packet("open", Window).n = Window
        BY DEF Packet
    <2>3. Head(<<Packet("open", Window)>>) = Packet("open", Window)
        OBVIOUS
    <2>. QED
        BY <2>1, <2>2, <2>3
<1>6. Window \in Int /\ 0 \in Int /\ "confirm" \in Names /\ "failure" \in Names
    BY ChannelAssumption DEF Names
<1>7. /\ kind' = kind /\ child' = "none" /\ gone' = gone /\ status' = status
      /\ \/ kind = "session" /\ StoreRcvd("server", dl)
         \/ kind # "session" /\ StoreRcvd("server", dc)
         \/ StoreRcvd("server", df)
    BY <1>4, Zenon DEF ServerOpens, NewEnd, SetRemote, NoChannel
<1>8. n \in Int
    BY <1>5, <1>6, SMTT(30)
<1>. HIDE DEF n
<1>9. CASE kind = "session" /\ StoreRcvd("server", dl)
    <2>1. LET a == NewEnd("larval", 0, "wait")
          IN  /\ a \in Chan /\ a.type = "larval" /\ Fresh(a) /\ a.tx = <<>> /\ a.err = FALSE
              /\ a.detach = "wait"
        BY <1>6, NewEndChan, Zenon
    <2>2. /\ l \in Chan /\ l.type = "larval" /\ Fresh(l) /\ l.tx = <<>> /\ l.err = FALSE
          /\ l.detach = "wait"
        BY <1>8, <2>1, SetCounts, Zenon DEF Quiet, Alike, Fresh
    <2>. HIDE DEF l
    <2>3. /\ dl \in Chan /\ dl.type = "larval" /\ Fresh(dl) /\ dl.err = FALSE
          /\ dl.detach = "wait" /\ dl.tx = <<Packet("confirm", 0)>>
        BY <1>6, <2>2, OneMore DEF Fresh
    <2>. HIDE DEF dl
    <2>4. Local(kind, dl)
        BY <2>3, FreshLocal, Zenon
    <2>5. Steps("server", dl, <<>>)
        BY <1>1, <1>2, <1>5, <1>9, <2>3, StoreSteps, Zenon
    <2>. QED
        BY <1>4, <1>6, <1>7, <1>9, <2>3, <2>4, <2>5, AnswerStep, SMTT(30)
<1>10. CASE kind # "session" /\ StoreRcvd("server", dc)
    <2>1. LET a == NewEnd("connecting", Window, "none")
          IN  /\ a \in Chan /\ a.type = "connecting" /\ Fresh(a) /\ a.tx = <<>>
              /\ a.err = FALSE
        BY <1>6, NewEndChan, Zenon
    <2>2. /\ dc \in Chan /\ dc.type = "connecting" /\ Fresh(dc) /\ dc.tx = <<>>
          /\ dc.err = FALSE
        BY <1>8, <2>1, SetCounts, Zenon DEF Quiet, Alike, Fresh
    <2>. HIDE DEF dc
    <2>3. Local(kind, dc)
        BY <2>2, FreshLocal, ZenonT(30)
    <2>4. Steps("server", dc, <<>>)
        BY <1>1, <1>2, <1>5, <1>10, <2>2, StoreSteps, Zenon
    <2>. QED
        BY <1>4, <1>6, <1>7, <1>10, <2>2, <2>3, <2>4, AnswerStep, SMTT(30)
<1>11. CASE StoreRcvd("server", df)
    <2>1. LET a == NewEnd("none", 0, "none")
          IN  a \in Chan /\ a.type = "none" /\ Fresh(a) /\ a.tx = <<>> /\ a.err = FALSE
        BY <1>6, NewEndChan, Zenon
    <2>2. /\ df \in Chan /\ df.type = "none" /\ Fresh(df) /\ df.err = FALSE
          /\ df.tx = <<Packet("failure", 0)>>
        BY <1>6, <2>1, OneMore DEF Fresh
    <2>. HIDE DEF df
    <2>3. Local(kind, df)
        BY <2>2, FreshLocal, Zenon
    <2>4. Steps("server", df, <<>>)
        BY <1>1, <1>2, <1>5, <1>11, <2>2, StoreSteps, Zenon
    <2>. QED
        BY <1>4, <1>7, <2>2, <2>3, <2>4, RefuseStep, SMTT(30)
<1>. QED
    BY <1>7, <1>9, <1>10, <1>11

(* channel_post_connecting.                                                *)
LEMMA ZombieFreed ==
    ASSUME NEW z \in Chan, z.type = "zombie", z.err = FALSE, child = "none"
    PROVE  LET d == channel_garbage_collect("server", z)
           IN  Local(kind, d) /\ d.type = "free" /\ d.tx = z.tx
<1>. DEFINE n1 == [z EXCEPT !.detach = "none"]
            d  == channel_garbage_collect("server", z)
<1>1. n1 \in Chan /\ Alike(z, n1)
    BY SetGuard, Zenon
<1>2. \A s \in BOOLEAN : /\ Closing(z, s) = z /\ IsDead(z, s)
                         /\ n1.type = "zombie" => Closing(n1, s) = n1 /\ IsDead(n1, s)
    BY DEF Closing, IsDead
<1>. HIDE DEF n1
<1>3. n1.type = "zombie" /\ n1.err = FALSE /\ n1.tx = z.tx
    BY <1>1 DEF Alike
<1>4. d = channel_free(n1)
    BY <1>2, <1>3, Zenon DEF channel_garbage_collect, n1
<1>. HIDE DEF d
<1>5. /\ d \in Chan /\ d.type = "free" /\ d.istate = "closed" /\ d.ostate = "closed"
      /\ d.flags = {} /\ d.tx = z.tx /\ d.err = FALSE
    BY <1>1, <1>3, <1>4, Freed, Zenon
<1>6. Local(kind, d)
    BY <1>5 DEF Local, BothClosed
<1>. QED
    BY <1>5, <1>6 DEF d

Typed(c, t) == [c EXCEPT !.type = t]

LEMMA ServerConnectsInv ==
    ASSUME ChannelInv, ServerConnects
    PROVE  ChannelInv'
<1>. DEFINE c == ch["server"]
            o == Typed(c, "open")
            s == Send(o, "confirm", Window)
            z == Typed(c, "zombie")
            f == Send(z, "failure", 0)
            d == channel_garbage_collect("server", f)
<1>1. /\ Settled /\ "server" \in Ends /\ Peer("server") = "client"
    BY DEF ChannelInv, Settled, Ends, Peer
<1>2. c.type = "connecting"
    BY DEF ServerConnects
<1>3. Live
    BY <1>2, SMTT(30) DEF ChannelInv, Unopened, Failed
<1>4. /\ ch["client"].type = "opening" /\ Fresh(ch["client"]) /\ child = "none"
      /\ net["client"] = <<>> /\ net["server"] = <<>> /\ Fresh(c) /\ kind # "session"
    BY <1>2, <1>3 DEF Live, Command
<1>5. Window \in Int /\ 0 \in Int /\ "confirm" \in Names /\ "failure" \in Names
    BY ChannelAssumption DEF Names
<1>6. /\ kind' = kind /\ child' = "none" /\ gone' = gone /\ status' = status
      /\ Store("server", s) \/ Store("server", d)
    BY <1>4, SMTT(30) DEF ServerConnects, Typed
<1>7. c \in Chan /\ c.err = FALSE /\ c.tx = <<>>
    BY <1>1, SMTT(30) DEF Settled, Local
<1>. HIDE DEF c
<1>8. CASE Store("server", s)
    <2>1. /\ o \in Chan /\ o.type = "open" /\ Fresh(o) /\ o.err = FALSE /\ o.tx = <<>>
        BY <1>4, <1>7, SMTT(30) DEF Typed, Chan, Fresh
    <2>. HIDE DEF o
    <2>2. /\ s \in Chan /\ s.type = "open" /\ Fresh(s) /\ s.err = FALSE
          /\ s.tx = <<Packet("confirm", Window)>>
        BY <1>5, <2>1, OneMore, SMTT(30) DEF Fresh
    <2>. HIDE DEF s
    <2>3. Local(kind, s)
        BY <2>2, FreshLocal, Zenon
    <2>4. Steps("server", s, <<>>)
        BY <1>1, <1>4, <1>8, <2>2, StoreSteps, SMTT(30)
    <2>. QED
        BY <1>4, <1>5, <1>6, <2>2, <2>3, <2>4, AnswerStep, SMTT(30)
<1>9. CASE Store("server", d)
    <2>1. z \in Chan /\ z.type = "zombie" /\ z.err = FALSE /\ z.tx = <<>>
        BY <1>7, SMTT(30) DEF Typed, Chan
    <2>. HIDE DEF z
    <2>2. /\ f \in Chan /\ f.type = "zombie" /\ f.err = FALSE
          /\ f.tx = <<Packet("failure", 0)>>
        BY <1>5, <2>1, OneMore, SMTT(30)
    <2>. HIDE DEF f
    <2>3. Local(kind, d) /\ d.type = "free" /\ d.tx = <<Packet("failure", 0)>>
        BY <1>4, <2>2, ZombieFreed, Zenon
    <2>. HIDE DEF d
    <2>4. d \in Chan
        BY <2>3 DEF Local
    <2>5. Steps("server", d, <<>>)
        BY <1>1, <1>4, <1>9, <2>4, StoreSteps
    <2>. QED
        BY <1>4, <1>6, <2>3, <2>5, RefuseStep, SMTT(30)
<1>. QED
    BY <1>6, <1>8, <1>9
-----------------------------------------------------------------------------
LEMMA InitInv ==
    ASSUME Init
    PROVE  ChannelInv
<1>. DEFINE c == ClientChannel
            p == NewEnd("none", 0, "none")
            q == <<Packet("open", Window)>>
<1>1. Window \in Int /\ 0 \in Int /\ "open" \in Names
    BY ChannelAssumption DEF Names
<1>2. /\ kind \in Kinds /\ ch = [client |-> c, server |-> p]
      /\ net = [client |-> <<>>, server |-> q] /\ child = "none" /\ gone = FALSE
      /\ status = FALSE
    BY SMTT(30) DEF Init, NoChannel, NewEnd
<1>3. /\ c \in Chan /\ c.type = "opening" /\ Fresh(c) /\ c.tx = <<>> /\ c.err = FALSE
    <2>1. FALSE \in BOOLEAN /\ TRUE \in BOOLEAN /\ <<>> \in Seq(Packets)
        OBVIOUS
    <2>. QED
        BY <1>1, <2>1 DEF ClientChannel, channel_new, Chan, Fresh
<1>4. p \in Chan /\ p.type = "none" /\ Fresh(p) /\ p.tx = <<>> /\ p.err = FALSE
    BY <1>1, NewEndChan, Zenon
<1>5. q \in Seq(Packets) /\ <<>> \in Seq(Packets)
    BY <1>1 DEF Packet, Packets
<1>. HIDE DEF c, p, q
<1>6. Local(kind, c) /\ Local(kind, p)
    BY <1>3, <1>4, FreshLocal, Zenon
<1>7. /\ ch["client"] = c /\ ch["server"] = p /\ net["client"] = <<>> /\ net["server"] = q
      /\ ch \in [Ends -> Chan] /\ net \in [Ends -> Seq(Packets)]
    <2>1. /\ ch["client"] = c /\ ch["server"] = p /\ net["client"] = <<>> /\ net["server"] = q
        BY <1>2
    <2>2. ch \in [Ends -> Chan]
        <3>1. ch = [e \in Ends |-> IF e = "client" THEN c ELSE p]
            BY <1>2 DEF Ends
        <3>. QED
            BY <1>3, <1>4, <3>1 DEF Ends
    <2>3. net \in [Ends -> Seq(Packets)]
        <3>1. net = [e \in Ends |-> IF e = "client" THEN <<>> ELSE q]
            BY <1>2 DEF Ends
        <3>. QED
            BY <1>5, <3>1 DEF Ends
    <2>. QED
        BY <2>1, <2>2, <2>3
<1>8. \A e \in Ends : Local(kind, ch[e]) /\ ch[e].tx = <<>>
    BY <1>3, <1>4, <1>6, <1>7, SMTT(30) DEF Ends
<1>9. Unopened
    BY <1>2, <1>3, <1>4, <1>7, SMTT(30) DEF Unopened, q
<1>. QED
    BY <1>2, <1>7, <1>8, <1>9, Zenon DEF ChannelInv

LEMMA NextInv ==
    ASSUME ChannelInv, [Next]_vars
    PROVE  ChannelInv'
<1>1. CASE ServerOpens
    BY <1>1, ServerOpensInv
<1>2. CASE ServerConnects
    BY <1>2, ServerConnectsInv, SMTT(30)
<1>3. CASE ChildExits
    BY <1>3, ChildExitsInv
<1>4. CASE Reap
    BY <1>4, ReapInv
<1>5. ASSUME NEW e \in Ends, Receive(e)
      PROVE  ChannelInv'
    BY <1>5, ReceiveInv
<1>6. ASSUME NEW e \in Ends, Poll(e)
      PROVE  ChannelInv'
    BY <1>6, PollInv
<1>7. ASSUME NEW e \in Ends, NEW i \in Results, NEW o \in Results, NEW x \in Results,
             Select(e, i, o, x)
      PROVE  ChannelInv'
    <2>1. i \in Int /\ o \in Int /\ x \in Int
        BY ChannelAssumption, SMTT(30) DEF Results
    <2>. QED
        BY <1>7, <2>1, SelectInv
<1>8. CASE UNCHANGED vars
    BY <1>8, Zenon DEF vars, ChannelInv, Unopened, Failed, Live, Command
<1>. QED
    BY <1>1, <1>2, <1>3, <1>4, <1>5, <1>6, <1>7, <1>8, SMTT(30) DEF Next

(* At every moment the packets between the two ends of a channel fit the
   states of their halves: a close is the last packet of its direction, an end
   that has got it is owed nothing, the half-closes of protocol 1.5 come once
   each, and the server is done with a session only when its command has been
   waited for and the status sent (nchan.c, channels.c, session.c).        *)
THEOREM ChannelInvariant == Spec => []ChannelInv
<1>1. Init => ChannelInv
    BY InitInv
<1>2. ChannelInv /\ [Next]_vars => ChannelInv'
    BY NextInv
<1>. QED
    BY <1>1, <1>2, PTL DEF Spec

(* For every window, packet size and amount of data: no packet_disconnect and
   none of the error branches of nchan.c is ever reached.                  *)
THEOREM ChannelInStep == Spec => []InStep
<1>1. ChannelInv => InStep
    BY DEF ChannelInv, InStep, Local
<1>. QED
    BY <1>1, ChannelInvariant, PTL

(* chan_is_dead lets an end free its channel only when nothing can come for
   it any more: the number may be given to another channel at once.        *)
THEOREM ChannelNothingForFreed == Spec => []NothingForFreed
<1>1. ChannelInv => NothingForFreed
    <2>1. SUFFICES ASSUME ChannelInv, NEW e \in Ends, ch[e].type = "free"
                   PROVE  net[e] = <<>>
        BY DEF NothingForFreed
    <2>2. CASE Unopened
        BY <2>1, <2>2, PeerEnd, Zenon DEF Unopened
    <2>3. CASE Failed
        BY <2>1, <2>3, PeerEnd, SMTT(30) DEF Failed
    <2>4. CASE Live
        <3>1. Settled /\ Linked
            BY <2>1, <2>4, ZenonT(30) DEF ChannelInv, Live, Settled, Linked
        <3>. QED
            BY <2>1, <3>1, FreedEmpty, SMTT(30)
    <2>. QED
        BY <2>1, <2>2, <2>3, <2>4 DEF ChannelInv
<1>. QED
    BY <1>1, ChannelInvariant, PTL

(* The guard of session_close_by_channel keeps the close message back until
   session_exit_message has sent the status, so the client has the status
   when it gets the close.                                                 *)
THEOREM ChannelStatusBeforeClose == Spec => []StatusBeforeClose
<1>1. ChannelInv => StatusBeforeClose
    <2>1. SUFFICES ASSUME ChannelInv, kind = "session", "close_rcvd" \in ch["client"].flags
                   PROVE  status = TRUE
        BY Zenon DEF StatusBeforeClose
    <2>2. Live
        BY <2>1 DEF ChannelInv, Unopened, Failed, Fresh
    <2>3. Len(net["client"]) = 0 /\ Fin(ch["server"])
        BY <2>1, <2>2, Zenon DEF Live, Dir, Dir20, Rcvd
    <2>4. ~Has(net["client"], "exit")
        BY <2>3 DEF Has
    <2>. QED
        BY <2>1, <2>2, <2>3, <2>4 DEF Live, Command
<1>. QED
    BY <1>1, ChannelInvariant, PTL
=============================================================================
