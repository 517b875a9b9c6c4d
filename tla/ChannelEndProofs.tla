-------------------------- MODULE ChannelEndProofs --------------------------
(***************************************************************************)
(* Lemmas about one end of a channel: the queues of packets between it and *)
(* its peer, and what each function of nchan.c and each round of the main  *)
(* loop of channels.c does to them.  ChannelsProofs puts them together.    *)
(***************************************************************************)
EXTENDS Channels, TLAPS

Names   == {"open", "confirm", "failure", "exec", "adjust", "data", "ext", "exit", "eof",
            "close", "ieof", "oclose"}
Packets == [t : Names, n : Int]

Chan ==
    [type : {"none", "opening", "larval", "connecting", "open", "zombie", "free"},
     istate : {"open", "wait_drain", "wait_oclose", "closed"},
     ostate : {"open", "wait_drain", "wait_ieof", "closed"},
     flags : SUBSET {"eof_sent", "eof_rcvd", "close_sent", "close_rcvd"},
     input : Int, output : Int, extended : Int, efd : BOOLEAN,
     eusage : {"none", "read", "write"}, local_window : Int, max : Int,
     local_consumed : Int, remote_window : Int, detach : {"none", "wait", "close"},
     tx : Seq(Packets), err : BOOLEAN]
-----------------------------------------------------------------------------
(* The invariant.  Protocol 2: an end has sent its close, or has got the one
   of its peer; a channel that is freed has done both.                     *)
Fin(c)     == c.type = "free" \/ "close_sent" \in c.flags
Rcvd(c)    == c.type = "free" \/ "close_rcvd" \in c.flags
EofSent(c) == c.type = "free" \/ "eof_sent" \in c.flags

Has(q, t) == \E i \in 1 .. Len(q) : q[i].t = t

(* The packets q on their way from the end p to the end e.  A close is the
   last packet, and no stderr comes after the end of the file.             *)
Dir20(q, p, e) ==
    /\ \A i \in 1 .. Len(q) :
         q[i].t \in {"confirm", "exec", "adjust", "data", "ext", "exit", "eof", "close"}
    /\ \A i \in 1 .. Len(q) : q[i].t = "close" => i = Len(q) /\ Fin(p)
    /\ Rcvd(e) => Len(q) = 0 /\ Fin(p)
    /\ \A i \in 1 .. Len(q) : q[i].t = "eof" =>
         EofSent(p) /\ \A j \in 1 .. Len(q) : j > i => q[j].t # "ext"
    /\ "eof_rcvd" \in e.flags => EofSent(p) /\ ~Has(q, "ext")

(* Protocol 1.5: the input half of p says ieof once, after its data, and the
   output half of p says oclose once, whichever comes first.               *)
IeofSent(p)   == p.istate \in {"wait_oclose", "closed"}
IeofRcvd(e)   == e.ostate \in {"wait_drain", "closed"}
OcloseSent(p) == p.ostate \in {"wait_ieof", "closed"}
OcloseRcvd(e) == e.istate = "closed"

Dir15(q, p, e) ==
    /\ \A i \in 1 .. Len(q) : q[i].t \in {"confirm", "data", "ieof", "oclose"}
    /\ \A i \in 1 .. Len(q) : q[i].t = "ieof" =>
         /\ IeofSent(p) /\ ~IeofRcvd(e)
         /\ \A j \in 1 .. Len(q) : j > i => q[j].t = "oclose"
    /\ IeofRcvd(e) => IeofSent(p) /\ \A i \in 1 .. Len(q) : q[i].t = "oclose"
    /\ \A i \in 1 .. Len(q) : q[i].t = "oclose" =>
         /\ OcloseSent(p) /\ ~OcloseRcvd(e)
         /\ \A j \in 1 .. Len(q) : q[j].t = "oclose" => j = i
    /\ OcloseRcvd(e) => OcloseSent(p)

(* The answer to the request for the channel comes first, and once.        *)
Answered(q, p, e) ==
    /\ \A i \in 1 .. Len(q) : q[i].t = "confirm" => i = 1 /\ e.type = "opening"
    /\ e.type = "opening" => IF Len(q) = 0 THEN p.type = "connecting"
                                           ELSE q[1].t = "confirm"

Dir(k, q, p, e) ==
    /\ Answered(q, p, e)
    /\ k # "tcp15" => Dir20(q, p, e)
    /\ k = "tcp15" => Dir15(q, p, e)

(* One end by itself.                                                      *)
Local(k, c) ==
    /\ c \in Chan /\ c.err = FALSE
    /\ c.type = "free" => BothClosed(c)
    /\ k # "tcp15" => /\ c.istate # "wait_oclose" /\ c.ostate # "wait_ieof"
                      /\ "close_sent" \in c.flags => BothClosed(c)
    /\ k = "tcp15" => c.flags = {}

(* An end c that has q before it, and Q on its way to the other end e.     *)
Pair(k, q, Q, c, e) == Local(k, c) /\ Dir(k, Q, c, e) /\ Dir(k, q, e, c)

(* An end at which nothing has happened yet.                               *)
Fresh(c) == c.istate = "open" /\ c.ostate = "open" /\ c.flags = {}
-----------------------------------------------------------------------------
(* The queues.  A packet is added by an end that has not sent its close.   *)
LEMMA AppendLast ==
    ASSUME NEW q \in Seq(Packets), NEW m \in Packets
    PROVE  /\ Append(q, m) \in Seq(Packets) /\ Len(Append(q, m)) = Len(q) + 1
           /\ Append(q, m)[Len(q) + 1] = m
           /\ \A i \in 1 .. Len(q) : Append(q, m)[i] = q[i]
           /\ \A i \in 1 .. Len(q) + 1 : i \in 1 .. Len(q) \/ i = Len(q) + 1
  OBVIOUS

LEMMA TailRest ==
    ASSUME NEW q \in Seq(Packets), q # <<>>
    PROVE  /\ Tail(q) \in Seq(Packets) /\ Len(Tail(q)) = Len(q) - 1 /\ Len(q) \in Nat \ {0}
           /\ Head(q) = q[1] /\ q[1] \in Packets
           /\ \A i \in 1 .. Len(q) - 1 : Tail(q)[i] = q[i + 1] /\ i + 1 \in 1 .. Len(q)
  OBVIOUS

LEMMA ConcatAppend ==
    ASSUME NEW q \in Seq(Packets), NEW r \in Seq(Packets), NEW m \in Packets
    PROVE  q \o r \in Seq(Packets) /\ q \o Append(r, m) = Append(q \o r, m)
  OBVIOUS

(* What a queue depends on, of the end that sends and of the one that gets. *)
LEMMA DirSame ==
    ASSUME NEW k, NEW q \in Seq(Packets), NEW p, NEW e, NEW p2, NEW e2,
           Dir(k, q, p, e),
           e2.type = "opening" <=> e.type = "opening",
           p.type = "connecting" => p2.type = "connecting",
           k # "tcp15" => /\ Fin(p) => Fin(p2)
                          /\ EofSent(p) => EofSent(p2)
                          /\ Rcvd(e2) => Rcvd(e)
                          /\ "eof_rcvd" \in e2.flags => "eof_rcvd" \in e.flags,
           k = "tcp15" => /\ IeofSent(p) => IeofSent(p2)
                          /\ OcloseSent(p) => OcloseSent(p2)
                          /\ IeofRcvd(e2) <=> IeofRcvd(e)
                          /\ OcloseRcvd(e2) <=> OcloseRcvd(e)
    PROVE  Dir(k, q, p2, e2)
<1>1. Answered(q, p2, e2)
    BY DEF Dir, Answered
<1>2. k # "tcp15" => Dir20(q, p2, e2)
    BY DEF Dir, Dir20
<1>3. k = "tcp15" => Dir15(q, p2, e2)
    BY DEF Dir, Dir15
<1>. QED
    BY <1>1, <1>2, <1>3 DEF Dir

LEMMA DirAppend20 ==
    ASSUME NEW q \in Seq(Packets), NEW p, NEW e, NEW p2, NEW m \in Packets,
           Dir20(q, p, e),
           m.t \in {"exec", "adjust", "data", "ext", "exit", "eof", "close"},
           ~Fin(p), EofSent(p) => EofSent(p2) /\ m.t # "ext",
           m.t = "close" => Fin(p2), m.t = "eof" => EofSent(p2)
    PROVE  Dir20(Append(q, m), p2, e)
<1>. DEFINE r == Append(q, m)
<1>1. /\ Len(r) = Len(q) + 1 /\ r[Len(q) + 1] = m /\ Len(q) \in Nat
      /\ \A i \in 1 .. Len(q) : r[i] = q[i]
      /\ \A i \in 1 .. Len(r) : i \in 1 .. Len(q) \/ i = Len(q) + 1
    BY AppendLast
<1>. HIDE DEF r
<1>2. \A i \in 1 .. Len(r) :
         r[i].t \in {"confirm", "exec", "adjust", "data", "ext", "exit", "eof", "close"}
    BY <1>1 DEF Dir20
<1>3. \A i \in 1 .. Len(r) : r[i].t = "close" => i = Len(r) /\ Fin(p2)
    BY <1>1 DEF Dir20
<1>4. ~Rcvd(e)
    BY DEF Dir20
<1>5. \A i \in 1 .. Len(r) : r[i].t = "eof" =>
         EofSent(p2) /\ \A j \in 1 .. Len(r) : j > i => r[j].t # "ext"
    <2>. SUFFICES ASSUME NEW i \in 1 .. Len(r), r[i].t = "eof"
                  PROVE  EofSent(p2) /\ \A j \in 1 .. Len(r) : j > i => r[j].t # "ext"
        OBVIOUS
    <2>1. CASE i \in 1 .. Len(q)
        <3>1. q[i].t = "eof" /\ EofSent(p)
            BY <2>1, <1>1 DEF Dir20
        <3>2. \A j \in 1 .. Len(q) : j > i => q[j].t # "ext"
            BY <2>1, <3>1 DEF Dir20
        <3>. QED
            BY <3>1, <3>2, <1>1
    <2>2. CASE i = Len(q) + 1
        BY <2>2, <1>1
    <2>. QED
        BY <2>1, <2>2, <1>1
<1>6. "eof_rcvd" \in e.flags => EofSent(p2) /\ ~Has(r, "ext")
    BY <1>1 DEF Dir20, Has
<1>. QED
    BY <1>2, <1>3, <1>4, <1>5, <1>6 DEF Dir20, r

LEMMA DirAppend15 ==
    ASSUME NEW q \in Seq(Packets), NEW p, NEW e, NEW p2, NEW m \in Packets,
           Dir15(q, p, e), m.t \in {"data", "ieof", "oclose"},
           IeofSent(p) => IeofSent(p2) /\ m.t = "oclose",
           OcloseSent(p) => OcloseSent(p2) /\ m.t # "oclose",
           m.t = "ieof" => IeofSent(p2), m.t = "oclose" => OcloseSent(p2)
    PROVE  Dir15(Append(q, m), p2, e)
<1>. DEFINE r == Append(q, m)
<1>1. /\ Len(r) = Len(q) + 1 /\ r[Len(q) + 1] = m /\ Len(q) \in Nat
      /\ \A i \in 1 .. Len(q) : r[i] = q[i]
      /\ \A i \in 1 .. Len(r) : i \in 1 .. Len(q) \/ i = Len(q) + 1
    BY AppendLast
<1>. HIDE DEF r
<1>2. \A i \in 1 .. Len(r) : r[i].t \in {"confirm", "data", "ieof", "oclose"}
    BY <1>1 DEF Dir15
<1>3. \A i \in 1 .. Len(r) : r[i].t = "ieof" =>
         /\ IeofSent(p2) /\ ~IeofRcvd(e)
         /\ \A j \in 1 .. Len(r) : j > i => r[j].t = "oclose"
    <2>. SUFFICES ASSUME NEW i \in 1 .. Len(r), r[i].t = "ieof"
                  PROVE  /\ IeofSent(p2) /\ ~IeofRcvd(e)
                         /\ \A j \in 1 .. Len(r) : j > i => r[j].t = "oclose"
        OBVIOUS
    <2>1. CASE i \in 1 .. Len(q)
        <3>1. q[i].t = "ieof" /\ IeofSent(p) /\ ~IeofRcvd(e)
            BY <2>1, <1>1 DEF Dir15
        <3>2. \A j \in 1 .. Len(q) : j > i => q[j].t = "oclose"
            BY <2>1, <3>1 DEF Dir15
        <3>. QED
            BY <3>1, <3>2, <1>1
    <2>2. CASE i = Len(q) + 1
        BY <2>2, <1>1 DEF Dir15
    <2>. QED
        BY <2>1, <2>2, <1>1
<1>4. IeofRcvd(e) => IeofSent(p2) /\ \A i \in 1 .. Len(r) : r[i].t = "oclose"
    BY <1>1 DEF Dir15
<1>5. \A i \in 1 .. Len(r) : r[i].t = "oclose" =>
         /\ OcloseSent(p2) /\ ~OcloseRcvd(e)
         /\ \A j \in 1 .. Len(r) : r[j].t = "oclose" => j = i
    BY <1>1 DEF Dir15
<1>6. OcloseRcvd(e) => OcloseSent(p2)
    BY DEF Dir15
<1>. QED
    BY <1>2, <1>3, <1>4, <1>5, <1>6 DEF Dir15, r

LEMMA AnsweredAppend ==
    ASSUME NEW q \in Seq(Packets), NEW p, NEW e, NEW p2, NEW m \in Packets,
           Answered(q, p, e), p.type # "connecting", m.t # "confirm"
    PROVE  Answered(Append(q, m), p2, e)
  BY AppendLast DEF Answered

(* A packet is taken from the queue.                                       *)
LEMMA DirTail20 ==
    ASSUME NEW q \in Seq(Packets), q # <<>>, NEW p, NEW e, NEW e2, Dir20(q, p, e),
           Rcvd(e2) => Rcvd(e) \/ q[1].t = "close",
           "eof_rcvd" \in e2.flags => "eof_rcvd" \in e.flags \/ q[1].t = "eof"
    PROVE  Dir20(Tail(q), p, e2)
<1>. DEFINE r == Tail(q)
<1>1. /\ Len(r) = Len(q) - 1 /\ Len(q) \in Nat \ {0}
      /\ \A i \in 1 .. Len(r) : r[i] = q[i + 1] /\ i + 1 \in 1 .. Len(q)
    BY TailRest
<1>. HIDE DEF r
<1>2. \A i \in 1 .. Len(r) :
         r[i].t \in {"confirm", "exec", "adjust", "data", "ext", "exit", "eof", "close"}
    BY <1>1 DEF Dir20
<1>3. \A i \in 1 .. Len(r) : r[i].t = "close" => i = Len(r) /\ Fin(p)
    BY <1>1, SMTT(30) DEF Dir20
<1>4. Rcvd(e2) => Len(r) = 0 /\ Fin(p)
    BY <1>1 DEF Dir20
<1>5. \A i \in 1 .. Len(r) : r[i].t = "eof" =>
         EofSent(p) /\ \A j \in 1 .. Len(r) : j > i => r[j].t # "ext"
    <2>. SUFFICES ASSUME NEW i \in 1 .. Len(r), r[i].t = "eof"
                  PROVE  EofSent(p) /\ \A j \in 1 .. Len(r) : j > i => r[j].t # "ext"
        OBVIOUS
    <2>1. EofSent(p) /\ \A j \in 1 .. Len(q) : j > i + 1 => q[j].t # "ext"
        BY <1>1 DEF Dir20
    <2>2. \A j \in 1 .. Len(r) : j > i => j + 1 > i + 1
        BY <1>1
    <2>. QED
        BY <2>1, <2>2, <1>1
<1>6. "eof_rcvd" \in e2.flags => EofSent(p) /\ ~Has(r, "ext")
    <2>1. \A j \in 1 .. Len(r) : j + 1 > 1
        BY <1>1
    <2>. QED
        BY <1>1, <2>1 DEF Dir20, Has
<1>. QED
    BY <1>2, <1>3, <1>4, <1>5, <1>6 DEF Dir20, r

LEMMA DirTail15 ==
    ASSUME NEW q \in Seq(Packets), q # <<>>, NEW p, NEW e, NEW e2, Dir15(q, p, e),
           IeofRcvd(e2) <=> IeofRcvd(e) \/ q[1].t = "ieof",
           OcloseRcvd(e2) <=> OcloseRcvd(e) \/ q[1].t = "oclose"
    PROVE  Dir15(Tail(q), p, e2)
<1>. DEFINE r == Tail(q)
<1>1. /\ Len(r) = Len(q) - 1 /\ Len(q) \in Nat \ {0}
      /\ \A i \in 1 .. Len(r) : r[i] = q[i + 1] /\ i + 1 \in 1 .. Len(q) /\ i + 1 > 1
    BY TailRest
<1>. HIDE DEF r
<1>2. \A i \in 1 .. Len(r) : r[i].t \in {"confirm", "data", "ieof", "oclose"}
    BY <1>1 DEF Dir15
<1>3. \A i \in 1 .. Len(r) : r[i].t = "ieof" =>
         /\ IeofSent(p) /\ ~IeofRcvd(e2)
         /\ \A j \in 1 .. Len(r) : j > i => r[j].t = "oclose"
    <2>. SUFFICES ASSUME NEW i \in 1 .. Len(r), r[i].t = "ieof"
                  PROVE  /\ IeofSent(p) /\ ~IeofRcvd(e2)
                         /\ \A j \in 1 .. Len(r) : j > i => r[j].t = "oclose"
        OBVIOUS
    <2>1. /\ IeofSent(p) /\ ~IeofRcvd(e)
          /\ \A j \in 1 .. Len(q) : j > i + 1 => q[j].t = "oclose"
        BY <1>1 DEF Dir15
    <2>2. \A j \in 1 .. Len(r) : j > i => j + 1 > i + 1
        BY <1>1
    <2>3. q[1].t # "ieof"
        <3>1. 1 \in 1 .. Len(q) /\ i + 1 > 1 /\ i + 1 \in 1 .. Len(q) /\ r[i] = q[i + 1]
            BY <1>1
        <3>. QED
            BY <3>1 DEF Dir15
    <2>. QED
        BY <2>1, <2>2, <2>3, <1>1
<1>4. IeofRcvd(e2) => IeofSent(p) /\ \A i \in 1 .. Len(r) : r[i].t = "oclose"
    BY <1>1 DEF Dir15
<1>5. \A i \in 1 .. Len(r) : r[i].t = "oclose" =>
         /\ OcloseSent(p) /\ ~OcloseRcvd(e2)
         /\ \A j \in 1 .. Len(r) : r[j].t = "oclose" => j = i
    <2>. SUFFICES ASSUME NEW i \in 1 .. Len(r), r[i].t = "oclose"
                  PROVE  /\ OcloseSent(p) /\ ~OcloseRcvd(e2)
                         /\ \A j \in 1 .. Len(r) : r[j].t = "oclose" => j = i
        OBVIOUS
    <2>1. /\ OcloseSent(p) /\ ~OcloseRcvd(e)
          /\ \A j \in 1 .. Len(q) : q[j].t = "oclose" => j = i + 1
        BY <1>1, SMTT(30) DEF Dir15
    <2>2. \A j \in 1 .. Len(r) : j + 1 = i + 1 => j = i
        BY <1>1
    <2>3. q[1].t # "oclose"
        <3>1. 1 \in 1 .. Len(q) /\ i + 1 # 1
            BY <1>1
        <3>. QED
            BY <3>1, <2>1
    <2>. QED
        BY <2>1, <2>2, <2>3, <1>1
<1>6. OcloseRcvd(e2) => OcloseSent(p)
    BY <1>1 DEF Dir15
<1>. QED
    BY <1>2, <1>3, <1>4, <1>5, <1>6 DEF Dir15, r

LEMMA AnsweredTail ==
    ASSUME NEW q \in Seq(Packets), q # <<>>, NEW p, NEW e, NEW e2, Answered(q, p, e),
           e2.type # "opening"
    PROVE  Answered(Tail(q), p, e2)
<1>1. \A i \in 1 .. Len(Tail(q)) : Tail(q)[i] = q[i + 1] /\ i + 1 \in 1 .. Len(q) /\ i + 1 # 1
    BY TailRest
<1>. QED
    BY <1>1 DEF Answered
-----------------------------------------------------------------------------
(* One end acts: c becomes d, and may have sent something.                 *)
LEMMA PairSame ==
    ASSUME NEW k, NEW q \in Seq(Packets), NEW r \in Seq(Packets), NEW c, NEW d, NEW e,
           Pair(k, q, r, c, e), Local(k, d), c.type = "open", d.type = "open",
           k # "tcp15" => c.flags = d.flags,
           k = "tcp15" => /\ IeofSent(c) => IeofSent(d)
                          /\ OcloseSent(c) => OcloseSent(d)
                          /\ IeofRcvd(d) <=> IeofRcvd(c)
                          /\ OcloseRcvd(d) <=> OcloseRcvd(c)
    PROVE  Pair(k, q, r, d, e)
<1>1. Dir(k, r, d, e)
    BY DirSame DEF Pair, Fin, EofSent
<1>2. Dir(k, q, e, d)
    BY DirSame DEF Pair, Rcvd
<1>. QED
    BY <1>1, <1>2 DEF Pair

LEMMA PairSend ==
    ASSUME NEW k, NEW q \in Seq(Packets), NEW r \in Seq(Packets), NEW c, NEW d, NEW e,
           NEW t \in {"exec", "adjust", "data", "ext", "exit", "eof", "close", "ieof", "oclose"},
           NEW n \in Int,
           Pair(k, q, r, c, e), Local(k, d), c.type = "open", d.type = "open",
           k # "tcp15" => /\ "close_sent" \notin c.flags /\ t \notin {"ieof", "oclose"}
                          /\ d.flags \subseteq c.flags \cup {"eof_sent", "close_sent"}
                          /\ c.flags \subseteq d.flags
                          /\ "eof_sent" \in c.flags => t # "ext"
                          /\ t = "close" => "close_sent" \in d.flags
                          /\ t = "eof" => "eof_sent" \in d.flags,
           k = "tcp15" => /\ t \in {"data", "ieof", "oclose"}
                          /\ IeofSent(c) => IeofSent(d) /\ t = "oclose"
                          /\ OcloseSent(c) => OcloseSent(d) /\ t # "oclose"
                          /\ t = "ieof" => IeofSent(d)
                          /\ t = "oclose" => OcloseSent(d)
                          /\ IeofRcvd(d) <=> IeofRcvd(c)
                          /\ OcloseRcvd(d) <=> OcloseRcvd(c)
    PROVE  Pair(k, q, Append(r, Packet(t, n)), d, e)
<1>1. Packet(t, n) \in Packets /\ Packet(t, n).t = t
    BY DEF Packet, Packets, Names
<1>2. Answered(Append(r, Packet(t, n)), d, e)
    BY <1>1, AnsweredAppend DEF Pair, Dir
<1>3. k # "tcp15" => Dir20(Append(r, Packet(t, n)), d, e)
    BY <1>1, DirAppend20 DEF Pair, Dir, Fin, EofSent
<1>4. k = "tcp15" => Dir15(Append(r, Packet(t, n)), d, e)
    BY <1>1, DirAppend15 DEF Pair, Dir
<1>5. Dir(k, q, e, d)
    BY DirSame DEF Pair, Rcvd
<1>. QED
    BY <1>2, <1>3, <1>4, <1>5 DEF Pair, Dir

(* What the other end and the queues depend on.                            *)
Alike(c, d) ==
    /\ d.type = c.type /\ d.istate = c.istate /\ d.ostate = c.ostate /\ d.flags = c.flags
    /\ d.tx = c.tx /\ d.err = c.err

LEMMA AlikeLocal ==
    ASSUME NEW k, NEW c, NEW d \in Chan, Local(k, c), Alike(c, d)
    PROVE  Local(k, d)
  BY DEF Local, Alike, BothClosed

LEMMA AlikePair ==
    ASSUME NEW k, NEW q \in Seq(Packets), NEW r \in Seq(Packets), NEW c, NEW d \in Chan, NEW e,
           Pair(k, q, r, c, e), Alike(c, d)
    PROVE  Pair(k, q, r, d, e)
<1>1. Local(k, d)
    BY AlikeLocal DEF Pair
<1>2. Dir(k, r, d, e)
    BY DirSame DEF Pair, Alike, Fin, EofSent, IeofSent, OcloseSent
<1>3. Dir(k, q, e, d)
    BY DirSame DEF Pair, Alike, Rcvd, IeofRcvd, OcloseRcvd
<1>. QED
    BY <1>1, <1>2, <1>3 DEF Pair

(* The fields that a handler sets.                                         *)
Quiet(c, d) == d \in Chan /\ Alike(c, d) /\ d.detach = c.detach

SetIn(c, n)        == [c EXCEPT !.input = n]
SetOut(c, n)       == [c EXCEPT !.output = n]
SetExt(c, n)       == [c EXCEPT !.extended = n]
SetRemote(c, n)    == [c EXCEPT !.remote_window = n]
Written(c, m, n)   == [c EXCEPT !.output = m, !.local_consumed = n]
WrittenX(c, m, n)  == [c EXCEPT !.extended = m, !.local_consumed = n]
Granted(c, m, n)   == [c EXCEPT !.local_window = m, !.local_consumed = n]
Arrived(c, m, n)   == [c EXCEPT !.output = m, !.local_window = n]
ArrivedX(c, m, n)  == [c EXCEPT !.extended = m, !.local_window = n]

LEMMA SetCounts ==
    ASSUME NEW c \in Chan, NEW n \in Int
    PROVE  /\ Quiet(c, SetIn(c, n)) /\ Quiet(c, SetOut(c, n))
           /\ Quiet(c, SetExt(c, n)) /\ Quiet(c, SetRemote(c, n))
<1>1. Quiet(c, SetIn(c, n)) /\ Quiet(c, SetOut(c, n))
    BY SMTT(30) DEF Chan, Alike, Quiet, SetIn, SetOut
<1>2. Quiet(c, SetExt(c, n)) /\ Quiet(c, SetRemote(c, n))
    BY Zenon DEF Chan, Alike, Quiet, SetExt, SetRemote
<1>. QED
    BY <1>1, <1>2

LEMMA SetTwoCounts ==
    ASSUME NEW c \in Chan, NEW m \in Int, NEW n \in Int
    PROVE  /\ Quiet(c, Written(c, m, n)) /\ Quiet(c, WrittenX(c, m, n))
           /\ Quiet(c, Granted(c, m, n))
           /\ Quiet(c, Arrived(c, m, n)) /\ Quiet(c, ArrivedX(c, m, n))
<1>1. Quiet(c, Written(c, m, n)) /\ Quiet(c, WrittenX(c, m, n))
    BY Zenon DEF Chan, Alike, Quiet, Written, WrittenX
<1>2. Quiet(c, Granted(c, m, n))
    BY Zenon DEF Chan, Alike, Quiet, Granted
<1>3. Quiet(c, Arrived(c, m, n)) /\ Quiet(c, ArrivedX(c, m, n))
    BY Zenon DEF Chan, Alike, Quiet, Arrived, ArrivedX
<1>. QED
    BY <1>1, <1>2, <1>3

LEMMA CountsTyped ==
    ASSUME NEW c \in Chan
    PROVE  /\ c.input \in Int /\ c.output \in Int /\ c.extended \in Int
           /\ c.local_window \in Int /\ c.local_consumed \in Int /\ c.remote_window \in Int
           /\ c.tx \in Seq(Packets)
  BY DEF Chan

In(c, s)  == [c EXCEPT !.istate = s]
Out(c, s) == [c EXCEPT !.ostate = s]

LEMMA SetInput ==
    ASSUME NEW c \in Chan, NEW s \in {"open", "wait_drain", "wait_oclose", "closed"}
    PROVE  LET d == In(c, s)
           IN  /\ d \in Chan /\ d.istate = s
               /\ d.type = c.type /\ d.ostate = c.ostate /\ d.flags = c.flags
               /\ d.tx = c.tx /\ d.err = c.err /\ d.detach = c.detach
  BY DEF Chan, In

LEMMA SetOutput ==
    ASSUME NEW c \in Chan, NEW s \in {"open", "wait_drain", "wait_ieof", "closed"}
    PROVE  LET d == Out(c, s)
           IN  /\ d \in Chan /\ d.ostate = s
               /\ d.type = c.type /\ d.istate = c.istate /\ d.flags = c.flags
               /\ d.tx = c.tx /\ d.err = c.err /\ d.detach = c.detach
  BY DEF Chan, Out

LEMMA SetGuard ==
    ASSUME NEW c \in Chan, NEW s \in {"none", "wait", "close"}
    PROVE  LET d == [c EXCEPT !.detach = s]
           IN  d \in Chan /\ d.detach = s /\ Alike(c, d)
  BY DEF Chan, Alike

LEMMA SetStderr ==
    ASSUME NEW c \in Chan, NEW b \in BOOLEAN
    PROVE  LET d == [c EXCEPT !.efd = b]
           IN  d \in Chan /\ d.detach = c.detach /\ Alike(c, d)
  BY DEF Chan, Alike

LEMMA SendAdds ==
    ASSUME NEW c \in Chan, NEW t \in Names, NEW n \in Int
    PROVE  LET d == Send(c, t, n)
           IN  /\ d \in Chan /\ d.tx = Append(c.tx, Packet(t, n)) /\ Packet(t, n) \in Packets
               /\ d.type = c.type /\ d.istate = c.istate /\ d.ostate = c.ostate
               /\ d.flags = c.flags /\ d.detach = c.detach /\ d.err = c.err
               /\ d.eusage = c.eusage /\ d.efd = c.efd
<1>1. Packet(t, n) \in Packets
    BY DEF Packet, Packets
<1>2. Append(c.tx, Packet(t, n)) \in Seq(Packets)
    BY <1>1 DEF Chan
<1>. QED
    BY <1>1, <1>2, Zenon DEF Send, Chan

LEMMA FlagAdds ==
    ASSUME NEW c \in Chan, NEW f \in {"eof_sent", "eof_rcvd", "close_sent", "close_rcvd"}
    PROVE  LET d == Flag(c, f)
           IN  /\ d \in Chan /\ d.tx = c.tx /\ d.flags = c.flags \cup {f}
               /\ d.type = c.type /\ d.istate = c.istate /\ d.ostate = c.ostate
               /\ d.detach = c.detach /\ d.err = c.err
               /\ d.eusage = c.eusage /\ d.efd = c.efd
  BY DEF Flag, Chan
-----------------------------------------------------------------------------
(* The steps of the main loop.  r is what is on its way to the other end
   already, before what the handler of this step sends.                    *)
Turn(q, r, c, e) == Pair(kind, q, r \o c.tx, c, e) /\ c.type = "open"
Sent(c, t, d)    == \E n \in Int : d.tx = Append(c.tx, Packet(t, n))

LEMMA TurnSame ==
    ASSUME NEW q \in Seq(Packets), NEW r \in Seq(Packets), NEW c, NEW d, NEW e,
           Turn(q, r, c, e), Local(kind, d), d.type = "open", d.tx = c.tx,
           compat20 => d.flags = c.flags,
           ~compat20 => /\ IeofSent(c) => IeofSent(d)
                        /\ OcloseSent(c) => OcloseSent(d)
                        /\ IeofRcvd(d) <=> IeofRcvd(c)
                        /\ OcloseRcvd(d) <=> OcloseRcvd(c)
    PROVE  Turn(q, r, d, e)
<1>1. r \o c.tx \in Seq(Packets)
    BY DEF Turn, Pair, Local, Chan
<1>. QED
    BY <1>1, PairSame, Zenon DEF Turn, compat20

LEMMA TurnSend ==
    ASSUME NEW q \in Seq(Packets), NEW r \in Seq(Packets), NEW c, NEW d, NEW e,
           NEW t \in {"exec", "adjust", "data", "ext", "exit", "eof", "close", "ieof", "oclose"},
           Turn(q, r, c, e), Local(kind, d), d.type = "open", Sent(c, t, d),
           compat20 => /\ "close_sent" \notin c.flags /\ t \notin {"ieof", "oclose"}
                       /\ d.flags \subseteq c.flags \cup {"eof_sent", "close_sent"}
                       /\ c.flags \subseteq d.flags
                       /\ "eof_sent" \in c.flags => t # "ext"
                       /\ t = "close" => "close_sent" \in d.flags
                       /\ t = "eof" => "eof_sent" \in d.flags,
           ~compat20 => /\ t \in {"data", "ieof", "oclose"}
                        /\ IeofSent(c) => IeofSent(d) /\ t = "oclose"
                        /\ OcloseSent(c) => OcloseSent(d) /\ t # "oclose"
                        /\ t = "ieof" => IeofSent(d)
                        /\ t = "oclose" => OcloseSent(d)
                        /\ IeofRcvd(d) <=> IeofRcvd(c)
                        /\ OcloseRcvd(d) <=> OcloseRcvd(c)
    PROVE  Turn(q, r, d, e)
<1>. PICK n \in Int : d.tx = Append(c.tx, Packet(t, n))
    BY DEF Sent
<1>1. c.tx \in Seq(Packets) /\ Packet(t, n) \in Packets
    BY DEF Turn, Pair, Local, Chan, Packet, Packets, Names
<1>2. r \o c.tx \in Seq(Packets) /\ r \o d.tx = Append(r \o c.tx, Packet(t, n))
    BY <1>1, ConcatAppend, SMTT(30)
<1>3. Pair(kind, q, Append(r \o c.tx, Packet(t, n)), d, e)
    <2>1. r \o c.tx \in Seq(Packets) /\ Pair(kind, q, r \o c.tx, c, e) /\ c.type = "open"
        BY <1>2 DEF Turn
    <2>2. compat20 <=> kind # "tcp15"
        BY DEF compat20
    <2>3. CASE compat20
        BY <2>1, <2>2, <2>3, PairSend, Zenon
    <2>4. CASE ~compat20
        BY <2>1, <2>2, <2>4, PairSend, Zenon
    <2>. QED
        BY <2>3, <2>4
<1>. QED
    BY <1>2, <1>3 DEF Turn

LEMMA TurnAlike ==
    ASSUME NEW q \in Seq(Packets), NEW r \in Seq(Packets), NEW c, NEW d \in Chan, NEW e,
           Turn(q, r, c, e), Alike(c, d)
    PROVE  Turn(q, r, d, e)
<1>1. r \o c.tx \in Seq(Packets)
    BY DEF Turn, Pair, Local, Chan
<1>. QED
    BY <1>1, AlikePair, Zenon DEF Turn, Alike

-----------------------------------------------------------------------------
(* nchan.c, as far as the other end can tell.                              *)
Still(c, d) == d.type = c.type /\ d.detach = c.detach /\ d.err = c.err

LEMMA ShutdownWrite ==
    ASSUME NEW c \in Chan
    PROVE  LET d == chan_shutdown_write(c) IN d \in Chan /\ Alike(c, d) /\ Still(c, d)
<1>1. 0 \in Int
    OBVIOUS
<1>. QED
    <2>1. chan_shutdown_write(c) = SetOut(c, 0)
        BY DEF chan_shutdown_write, SetOut
    <2>2. Quiet(c, SetOut(c, 0))
        BY <1>1, SetCounts
    <2>. QED
        BY <2>1, <2>2 DEF Still, Alike, Quiet

LEMMA SendOclose ==
    ASSUME NEW c \in Chan, c.ostate \in {"open", "wait_drain"}
    PROVE  LET d == chan_send_oclose1(c)
           IN  /\ d \in Chan /\ Still(c, d) /\ Sent(c, "oclose", d)
               /\ d.istate = c.istate /\ d.ostate = c.ostate /\ d.flags = c.flags
<1>. DEFINE f == Send(c, "oclose", 0)
            d == SetOut(f, 0)
<1>1. 0 \in Int /\ "oclose" \in Names /\ chan_send_oclose1(c) = d
    BY DEF chan_send_oclose1, Names, SetOut
<1>2. /\ f \in Chan /\ f.tx = Append(c.tx, Packet("oclose", 0)) /\ f.type = c.type
      /\ f.istate = c.istate /\ f.ostate = c.ostate /\ f.flags = c.flags
      /\ f.detach = c.detach /\ f.err = c.err
    BY <1>1, SendAdds
<1>. HIDE DEF f
<1>3. d \in Chan /\ Alike(f, d) /\ d.detach = f.detach
    BY <1>1, <1>2, SetCounts, Zenon DEF Quiet
<1>. QED
    BY <1>1, <1>2, <1>3 DEF Alike, Still, Sent

LEMMA SendIeof ==
    ASSUME NEW c \in Chan, c.istate \in {"open", "wait_drain"}
    PROVE  LET d == chan_send_ieof1(c)
           IN  /\ d \in Chan /\ Still(c, d) /\ Sent(c, "ieof", d)
               /\ d.istate = c.istate /\ d.ostate = c.ostate /\ d.flags = c.flags
<1>. DEFINE f == Send(c, "ieof", 0)
<1>1. 0 \in Int /\ "ieof" \in Names /\ chan_send_ieof1(c) = f
    BY DEF chan_send_ieof1, Names
<1>2. /\ f \in Chan /\ f.tx = Append(c.tx, Packet("ieof", 0)) /\ f.type = c.type
      /\ f.istate = c.istate /\ f.ostate = c.ostate /\ f.flags = c.flags
      /\ f.detach = c.detach /\ f.err = c.err
    BY <1>1, SendAdds, Zenon
<1>. HIDE DEF f
<1>. QED
    BY <1>1, <1>2 DEF Still, Sent

LEMMA SendEof ==
    ASSUME NEW c \in Chan, c.istate = "wait_drain"
    PROVE  LET d == chan_send_eof2(c)
           IN  /\ d \in Chan /\ Still(c, d) /\ Sent(c, "eof", d)
               /\ d.istate = c.istate /\ d.ostate = c.ostate
               /\ d.flags = c.flags \cup {"eof_sent"}
<1>. DEFINE f == Send(c, "eof", 0)
<1>1. 0 \in Int /\ "eof" \in Names /\ chan_send_eof2(c) = Flag(f, "eof_sent")
    BY DEF chan_send_eof2, Names
<1>2. /\ f \in Chan /\ f.tx = Append(c.tx, Packet("eof", 0)) /\ f.type = c.type
      /\ f.istate = c.istate /\ f.ostate = c.ostate /\ f.flags = c.flags
      /\ f.detach = c.detach /\ f.err = c.err
    BY <1>1, SendAdds
<1>. HIDE DEF f
<1>. QED
    BY <1>1, <1>2, FlagAdds DEF Still, Sent

LEMMA SendClose ==
    ASSUME NEW c \in Chan, BothClosed(c), "close_sent" \notin c.flags
    PROVE  LET d == chan_send_close2(c)
           IN  /\ d \in Chan /\ Still(c, d) /\ Sent(c, "close", d)
               /\ d.istate = c.istate /\ d.ostate = c.ostate
               /\ d.flags = c.flags \cup {"close_sent"}
<1>. DEFINE f == Send(c, "close", 0)
<1>1. 0 \in Int /\ "close" \in Names /\ chan_send_close2(c) = Flag(f, "close_sent")
    BY DEF chan_send_close2, Names, BothClosed
<1>2. /\ f \in Chan /\ f.tx = Append(c.tx, Packet("close", 0)) /\ f.type = c.type
      /\ f.istate = c.istate /\ f.ostate = c.ostate /\ f.flags = c.flags
      /\ f.detach = c.detach /\ f.err = c.err
    BY <1>1, SendAdds
<1>. HIDE DEF f
<1>. QED
    BY <1>1, <1>2, FlagAdds DEF Still, Sent

LEMMA ReadFailed ==
    ASSUME NEW c \in Chan, c.istate = "open"
    PROVE  LET d == chan_read_failed(c)
           IN  /\ d \in Chan /\ Still(c, d) /\ d.tx = c.tx
               /\ d.istate = "wait_drain" /\ d.ostate = c.ostate /\ d.flags = c.flags
<1>1. chan_read_failed(c) = In(c, "wait_drain")
    BY DEF chan_read_failed, In
<1>. QED
    BY <1>1, SetInput DEF Still

LEMMA WriteFailed ==
    ASSUME NEW c \in Chan, c.ostate \in {"open", "wait_drain"}
    PROVE  LET d == chan_write_failed(c)
           IN  /\ d \in Chan /\ Still(c, d) /\ d.istate = c.istate /\ d.flags = c.flags
               /\ compat20 => d.ostate = "closed" /\ d.tx = c.tx
               /\ ~compat20 => /\ d.ostate = IF c.ostate = "open" THEN "wait_ieof" ELSE "closed"
                               /\ Sent(c, "oclose", d)
<1>. DEFINE s == chan_shutdown_write(c)
            o == chan_send_oclose1(s)
<1>1. s \in Chan /\ Alike(c, s) /\ Still(c, s)
    BY ShutdownWrite
<1>2. CASE compat20
    <2>1. chan_write_failed(c) = Out(s, "closed")
        BY <1>2 DEF chan_write_failed, Out
    <2>. HIDE DEF s
    <2>. QED
        BY <1>1, <1>2, <2>1, SetOutput DEF Still, Alike
<1>3. CASE ~compat20
    <2>. DEFINE z == IF c.ostate = "open" THEN "wait_ieof" ELSE "closed"
    <2>1. chan_write_failed(c) = Out(o, z)
        BY <1>3 DEF chan_write_failed, Out
    <2>. HIDE DEF s
    <2>2. /\ o \in Chan /\ Still(s, o) /\ Sent(s, "oclose", o)
          /\ o.istate = s.istate /\ o.flags = s.flags
        BY <1>1, SendOclose DEF Alike
    <2>3. z \in {"open", "wait_drain", "wait_ieof", "closed"}
        OBVIOUS
    <2>. HIDE DEF o, z
    <2>4. LET d == Out(o, z)
          IN  /\ d \in Chan /\ Still(o, d) /\ d.ostate = z
              /\ d.istate = o.istate /\ d.flags = o.flags /\ d.tx = o.tx
        BY <2>2, <2>3, SetOutput DEF Still
    <2>. QED
        BY <1>1, <1>3, <2>1, <2>2, <2>4 DEF Still, Alike, Sent, z
<1>. QED
    BY <1>2, <1>3

LEMMA ObufEmpty ==
    ASSUME NEW c \in Chan, c.ostate = "wait_drain", ~(c.output > 0)
    PROVE  LET d == chan_obuf_empty(c)
           IN  /\ d \in Chan /\ Still(c, d) /\ d.istate = c.istate /\ d.flags = c.flags
               /\ d.ostate = "closed"
               /\ compat20 => d.tx = c.tx
               /\ ~compat20 => Sent(c, "oclose", d)
<1>. DEFINE s == chan_shutdown_write(c)
            o == chan_send_oclose1(s)
<1>1. s \in Chan /\ Alike(c, s) /\ Still(c, s)
    BY ShutdownWrite
<1>2. CASE compat20
    <2>1. chan_obuf_empty(c) = Out(s, "closed")
        BY <1>2 DEF chan_obuf_empty, Out
    <2>. HIDE DEF s
    <2>. QED
        BY <1>1, <1>2, <2>1, SetOutput DEF Still, Alike
<1>3. CASE ~compat20
    <2>1. chan_obuf_empty(c) = Out(o, "closed")
        BY <1>3 DEF chan_obuf_empty, Out
    <2>. HIDE DEF s
    <2>2. /\ o \in Chan /\ Still(s, o) /\ Sent(s, "oclose", o)
          /\ o.istate = s.istate /\ o.flags = s.flags
        BY <1>1, SendOclose DEF Alike
    <2>. HIDE DEF o
    <2>. QED
        BY <1>1, <1>3, <2>1, <2>2, SetOutput DEF Still, Alike, Sent
<1>. QED
    BY <1>2, <1>3

LEMMA IbufEmpty ==
    ASSUME NEW c \in Chan, c.istate = "wait_drain", ~(c.input > 0),
           "close_sent" \notin c.flags
    PROVE  LET d == chan_ibuf_empty(c)
           IN  /\ d \in Chan /\ Still(c, d) /\ d.ostate = c.ostate
               /\ compat20 => /\ d.istate = "closed" /\ Sent(c, "eof", d)
                              /\ d.flags = c.flags \cup {"eof_sent"}
               /\ ~compat20 => /\ d.istate = "wait_oclose" /\ Sent(c, "ieof", d)
                               /\ d.flags = c.flags
<1>1. CASE compat20
    <2>. DEFINE s == chan_send_eof2(c)
    <2>1. chan_ibuf_empty(c) = In(s, "closed")
        BY <1>1 DEF chan_ibuf_empty, In
    <2>2. /\ s \in Chan /\ Still(c, s) /\ Sent(c, "eof", s) /\ s.ostate = c.ostate
          /\ s.flags = c.flags \cup {"eof_sent"}
        BY SendEof
    <2>. HIDE DEF s
    <2>. QED
        BY <1>1, <2>1, <2>2, SetInput DEF Still, Sent
<1>2. CASE ~compat20
    <2>. DEFINE s == chan_send_ieof1(c)
    <2>1. chan_ibuf_empty(c) = In(s, "wait_oclose")
        BY <1>2 DEF chan_ibuf_empty, In
    <2>2. /\ s \in Chan /\ Still(c, s) /\ Sent(c, "ieof", s) /\ s.ostate = c.ostate
          /\ s.flags = c.flags
        BY SendIeof
    <2>. HIDE DEF s
    <2>. QED
        BY <1>2, <2>1, <2>2, SetInput DEF Still, Sent
<1>. QED
    BY <1>1, <1>2
-----------------------------------------------------------------------------
(* The rounds of the main loop.                                            *)
LEMMA TurnChan ==
    ASSUME NEW q, NEW r, NEW c, NEW e, Turn(q, r, c, e)
    PROVE  /\ c \in Chan /\ Local(kind, c) /\ c.type = "open" /\ c.err = FALSE
           /\ c.istate \in {"open", "wait_drain", "wait_oclose", "closed"}
           /\ c.ostate \in {"open", "wait_drain", "wait_ieof", "closed"}
           /\ compat20 => c.istate # "wait_oclose" /\ c.ostate # "wait_ieof"
           /\ compat20 /\ "close_sent" \in c.flags => c.istate = "closed" /\ c.ostate = "closed"
           /\ ~compat20 => c.flags = {}
  BY DEF Turn, Pair, Local, Chan, compat20, BothClosed

LEMMA LocalNext ==
    ASSUME NEW d \in Chan, d.type = "open", d.err = FALSE,
           compat20 => /\ d.istate # "wait_oclose" /\ d.ostate # "wait_ieof"
                       /\ "close_sent" \in d.flags => d.istate = "closed" /\ d.ostate = "closed",
           ~compat20 => d.flags = {}
    PROVE  Local(kind, d)
  BY DEF Local, compat20, BothClosed

(* The input half waits for its buffer to drain; the output half closes.   *)
LEMMA PreOpenTurn ==
    ASSUME NEW q \in Seq(Packets), NEW r \in Seq(Packets), NEW c, NEW e, Turn(q, r, c, e)
    PROVE  LET d == channel_pre_open(c)
           IN  /\ Turn(q, r, d, e) /\ Still(c, d) /\ d.istate = c.istate
               /\ d.flags = c.flags /\ (c.output > 0 => d = c)
<1>. DEFINE d == channel_pre_open(c)
<1>1. /\ c \in Chan /\ c.type = "open" /\ c.err = FALSE
      /\ compat20 => c.istate # "wait_oclose" /\ c.ostate # "wait_ieof"
      /\ compat20 /\ "close_sent" \in c.flags => c.istate = "closed" /\ c.ostate = "closed"
      /\ ~compat20 => c.flags = {}
    BY TurnChan, Zenon
<1>2. CASE c.ostate = "wait_drain" /\ c.output = 0 /\ ~CHANNEL_EFD_OUTPUT_ACTIVE(c)
    <2>1. d = chan_obuf_empty(c) /\ ~(c.output > 0)
        BY <1>2 DEF channel_pre_open
    <2>2. /\ d \in Chan /\ Still(c, d) /\ d.istate = c.istate /\ d.flags = c.flags
          /\ d.ostate = "closed"
          /\ compat20 => d.tx = c.tx
          /\ ~compat20 => Sent(c, "oclose", d)
        BY <1>1, <1>2, <2>1, ObufEmpty
    <2>. HIDE DEF d
    <2>3. d.type = "open" /\ Local(kind, d)
        BY <1>1, <2>2, LocalNext, Zenon DEF Still
    <2>4. ASSUME compat20 PROVE Turn(q, r, d, e)
        BY <2>2, <2>3, <2>4, TurnSame
    <2>5. ASSUME ~compat20 PROVE Turn(q, r, d, e)
        <3>1. /\ IeofSent(d) <=> IeofSent(c)
              /\ ~OcloseSent(c) /\ OcloseSent(d) /\ IeofRcvd(c) /\ IeofRcvd(d)
              /\ OcloseRcvd(d) <=> OcloseRcvd(c)
            BY <1>2, <2>2 DEF IeofSent, OcloseSent, IeofRcvd, OcloseRcvd
        <3>. QED
            BY <2>2, <2>3, <2>5, <3>1, TurnSend
    <2>6. Turn(q, r, d, e)
        BY <2>4, <2>5
    <2>. QED
        BY <2>1, <2>2, <2>6 DEF d
<1>3. CASE ~(c.ostate = "wait_drain" /\ c.output = 0 /\ ~CHANNEL_EFD_OUTPUT_ACTIVE(c))
    <2>1. d = c
        BY <1>3 DEF channel_pre_open
    <2>. QED
        BY <2>1 DEF Still
<1>. QED
    BY <1>2, <1>3

(* A close is sent once, and only when both halves are closed.             *)
Finish(c) == Closing(c, TRUE)
Dead(c)   == IsDead(c, TRUE)

LEMMA ClosingTurn ==
    ASSUME NEW q \in Seq(Packets), NEW r \in Seq(Packets), NEW c, NEW e, Turn(q, r, c, e)
    PROVE  LET d == Finish(c)
           IN  /\ Turn(q, r, d, e) /\ Still(c, d)
               /\ d.istate = c.istate /\ d.ostate = c.ostate
               /\ d.flags \ {"close_sent"} = c.flags \ {"close_sent"}
<1>. DEFINE d == Finish(c)
<1>1. /\ c \in Chan /\ c.type = "open" /\ c.err = FALSE
      /\ compat20 => c.istate # "wait_oclose" /\ c.ostate # "wait_ieof"
    BY TurnChan, Zenon
<1>2. CASE BothClosed(c) /\ compat20 /\ "close_sent" \notin c.flags
    <2>1. d = chan_send_close2(c)
        BY <1>1, <1>2 DEF Closing, Finish
    <2>2. /\ d \in Chan /\ Still(c, d) /\ Sent(c, "close", d)
          /\ d.istate = c.istate /\ d.ostate = c.ostate
          /\ d.flags = c.flags \cup {"close_sent"}
        BY <1>1, <1>2, <2>1, SendClose
    <2>. HIDE DEF d
    <2>3. d.type = "open" /\ Local(kind, d)
        BY <1>1, <1>2, <2>2, LocalNext, Zenon DEF Still, BothClosed
    <2>4. Turn(q, r, d, e)
        BY <1>2, <2>2, <2>3, TurnSend
    <2>. QED
        BY <1>2, <2>2, <2>4 DEF d
<1>3. CASE ~(BothClosed(c) /\ compat20 /\ "close_sent" \notin c.flags)
    <2>1. d = c
        BY <1>1, <1>3 DEF Closing, Finish
    <2>. QED
        BY <2>1 DEF Still
<1>. QED
    BY <1>2, <1>3

(* A channel that is freed has sent and received all there was.            *)
Free(d, t, b) == [d EXCEPT !.type = "free", !.istate = "closed", !.ostate = "closed",
                           !.tx = t, !.err = b]

LEMMA SetFree ==
    ASSUME NEW c \in Chan, NEW t \in Seq(Packets), NEW b \in BOOLEAN
    PROVE  LET d == Free(c, t, b)
           IN  /\ d \in Chan /\ d.type = "free" /\ d.istate = "closed" /\ d.ostate = "closed"
               /\ d.flags = c.flags /\ d.tx = t /\ d.err = b
  BY Zenon DEF Chan, Free

LEMMA Freed ==
    ASSUME NEW c \in Chan, c.err = FALSE
    PROVE  LET d == channel_free(c)
           IN  /\ d \in Chan /\ d.type = "free" /\ d.istate = "closed" /\ d.ostate = "closed"
               /\ d.flags = {} /\ d.tx = c.tx /\ d.err = FALSE
<1>1. c.tx \in Seq(Packets) /\ c.err \in BOOLEAN
    BY DEF Chan
<1>2. NoChannel \in Chan /\ NoChannel.flags = {}
    <2>1. <<>> \in Seq(Packets) /\ 0 \in Int
        OBVIOUS
    <2>. QED
        BY <2>1 DEF Chan, NoChannel, channel_new
<1>3. channel_free(c) = Free(NoChannel, c.tx, c.err)
    BY DEF channel_free, Free
<1>. QED
    BY <1>1, <1>2, <1>3, SetFree

LEMMA FreeTurn ==
    ASSUME NEW q \in Seq(Packets), NEW r \in Seq(Packets), NEW c, NEW e, Turn(q, r, c, e),
           Dead(c)
    PROVE  LET d == channel_free(c)
           IN  Pair(kind, q, r \o d.tx, d, e) /\ d.type = "free"
<1>. DEFINE d == channel_free(c)
<1>1. /\ c \in Chan /\ c.type = "open" /\ c.err = FALSE /\ c.tx \in Seq(Packets)
      /\ c.istate = "closed" /\ c.ostate = "closed"
      /\ compat20 => {"close_sent", "close_rcvd"} \subseteq c.flags
    BY TurnChan, Zenon DEF Dead, IsDead, BothClosed, Chan
<1>2. /\ d \in Chan /\ d.type = "free" /\ d.istate = "closed" /\ d.ostate = "closed"
      /\ d.flags = {} /\ d.tx = c.tx /\ d.err = FALSE
    BY <1>1, Freed, Zenon
<1>. HIDE DEF d
<1>3. Local(kind, d)
    BY <1>2 DEF Local, BothClosed
<1>4. r \o c.tx \in Seq(Packets) /\ Dir(kind, r \o c.tx, c, e) /\ Dir(kind, q, e, c)
    BY <1>1 DEF Turn, Pair
<1>5. Dir(kind, r \o c.tx, d, e)
    BY <1>1, <1>2, <1>4, DirSame, Zenon DEF Fin, EofSent, IeofSent, OcloseSent, compat20
<1>6. Dir(kind, q, e, d)
    BY <1>1, <1>2, <1>4, DirSame, SMTT(30) DEF Rcvd, IeofRcvd, OcloseRcvd, compat20
<1>. QED
    BY <1>2, <1>3, <1>5, <1>6 DEF Pair, d

(* A channel without a command that has to be waited for is freed when it
   is dead; while there is one nothing happens.                            *)
LEMMA CollectTurn ==
    ASSUME NEW q \in Seq(Packets), NEW r \in Seq(Packets), NEW c, NEW e, NEW x \in Ends,
           Turn(q, r, c, e)
    PROVE  LET d == channel_garbage_collect(x, c)
           IN  /\ Pair(kind, q, r \o d.tx, d, e) /\ d.type \in {"open", "free"}
               /\ d.type = "open" => /\ d.istate = c.istate /\ d.ostate = c.ostate
                                     /\ d.flags \ {"close_sent"} = c.flags \ {"close_sent"}
               /\ x = "server" /\ child \in {"running", "exited"} /\ c.detach = "wait" => d = c
<1>. DEFINE d  == channel_garbage_collect(x, c)
            c1 == IF c.detach = "none" THEN c ELSE Closing(c, c.detach = "close")
            n1 == [c1 EXCEPT !.detach = "none"]
            c2 == Finish(n1)
            held == /\ c.detach # "none"
                    /\ \/ ~IsDead(c1, c.detach = "close")
                       \/ x = "server" /\ child \in {"running", "exited"}
<1>1. d = IF held THEN c1 ELSE IF Dead(c2) THEN channel_free(c2) ELSE c2
    BY DEF channel_garbage_collect, Finish, Dead
<1>2. /\ Turn(q, r, c1, e) /\ Still(c, c1)
      /\ c1.istate = c.istate /\ c1.ostate = c.ostate
      /\ c1.flags \ {"close_sent"} = c.flags \ {"close_sent"}
      /\ c.detach = "wait" => c1 = c
    <2>1. c1 = IF c.detach = "close" THEN Finish(c) ELSE c
        <3>1. CASE c.detach = "close"
            BY <3>1 DEF Closing, Finish
        <3>2. CASE c.detach # "close"
            BY <3>2 DEF Closing
        <3>. QED
            BY <3>1, <3>2
    <2>. HIDE DEF c1
    <2>2. CASE c.detach = "close"
        BY <2>1, <2>2, ClosingTurn
    <2>3. CASE c.detach # "close"
        BY <2>1, <2>3 DEF Still
    <2>. QED
        BY <2>2, <2>3
<1>3. x = "server" /\ child \in {"running", "exited"} /\ c.detach = "wait" => held
    OBVIOUS
<1>. HIDE DEF c1
<1>4. n1 \in Chan /\ Alike(c1, n1)
    BY <1>2, TurnChan, SetGuard, Zenon
<1>. HIDE DEF n1
<1>5. /\ Turn(q, r, n1, e) /\ n1.istate = c.istate /\ n1.ostate = c.ostate
      /\ n1.flags \ {"close_sent"} = c.flags \ {"close_sent"}
    BY <1>2, <1>4, TurnAlike DEF Alike
<1>6. /\ Turn(q, r, c2, e) /\ c2.istate = c.istate /\ c2.ostate = c.ostate
      /\ c2.flags \ {"close_sent"} = c.flags \ {"close_sent"}
    BY <1>5, ClosingTurn
<1>. HIDE DEF c2, held
<1>7. CASE held
    BY <1>1, <1>2, <1>7 DEF Turn
<1>8. CASE ~held /\ Dead(c2)
    <2>1. d = channel_free(c2)
        BY <1>1, <1>8
    <2>2. Pair(kind, q, r \o d.tx, d, e) /\ d.type = "free"
        BY <1>6, <1>8, <2>1, FreeTurn
    <2>. QED
        BY <1>3, <1>8, <2>2
<1>9. CASE ~held /\ ~Dead(c2)
    <2>1. d = c2
        BY <1>1, <1>9
    <2>. QED
        BY <1>3, <1>6, <1>9, <2>1 DEF Turn
<1>. QED
    BY <1>7, <1>8, <1>9

(* A failed read or write.                                                 *)
LEMMA WriteFailedTurn ==
    ASSUME NEW q \in Seq(Packets), NEW r \in Seq(Packets), NEW c, NEW e, Turn(q, r, c, e),
           c.ostate \in {"open", "wait_drain"}
    PROVE  LET d == chan_write_failed(c)
           IN  Turn(q, r, d, e) /\ Still(c, d) /\ d.flags = c.flags
<1>. DEFINE d == chan_write_failed(c)
<1>1. /\ c \in Chan /\ c.type = "open" /\ c.err = FALSE
      /\ compat20 => c.istate # "wait_oclose"
      /\ compat20 /\ "close_sent" \in c.flags => c.istate = "closed" /\ c.ostate = "closed"
      /\ ~compat20 => c.flags = {}
    BY TurnChan, Zenon
<1>2. /\ d \in Chan /\ Still(c, d) /\ d.istate = c.istate /\ d.flags = c.flags
      /\ compat20 => d.ostate = "closed" /\ d.tx = c.tx
      /\ ~compat20 => /\ d.ostate = IF c.ostate = "open" THEN "wait_ieof" ELSE "closed"
                      /\ Sent(c, "oclose", d)
    BY <1>1, WriteFailed
<1>. HIDE DEF d
<1>3. d.type = "open" /\ Local(kind, d)
    BY <1>1, <1>2, LocalNext, Zenon DEF Still
<1>4. ASSUME compat20 PROVE Turn(q, r, d, e)
    BY <1>2, <1>3, <1>4, TurnSame
<1>5. ASSUME ~compat20 PROVE Turn(q, r, d, e)
    <2>1. /\ IeofSent(d) <=> IeofSent(c)
          /\ ~OcloseSent(c) /\ OcloseSent(d)
          /\ IeofRcvd(d) <=> IeofRcvd(c)
          /\ OcloseRcvd(d) <=> OcloseRcvd(c)
        BY <1>2, <1>5 DEF IeofSent, OcloseSent, IeofRcvd, OcloseRcvd
    <2>. QED
        BY <1>2, <1>3, <1>5, <2>1, TurnSend
<1>. QED
    BY <1>2, <1>4, <1>5 DEF d

LEMMA ReadTurn ==
    ASSUME NEW q \in Seq(Packets), NEW r \in Seq(Packets), NEW c, NEW e, Turn(q, r, c, e),
           NEW n \in Int, n < 0 => c.istate = "open"
    PROVE  LET d == channel_handle_rfd(c, n)
           IN  /\ Turn(q, r, d, e) /\ Still(c, d) /\ d.ostate = c.ostate /\ d.flags = c.flags
<1>. DEFINE d == channel_handle_rfd(c, n)
<1>0. c \in Chan /\ c.input + n \in Int
    <2>1. c \in Chan
        BY TurnChan, Zenon
    <2>. QED
        BY <2>1, CountsTyped
<1>1. /\ c.type = "open" /\ c.err = FALSE
      /\ compat20 => c.istate # "wait_oclose" /\ c.ostate # "wait_ieof"
      /\ compat20 /\ "close_sent" \in c.flags => c.istate = "closed" /\ c.ostate = "closed"
      /\ ~compat20 => c.flags = {}
    BY TurnChan, Zenon
<1>2. CASE n < 0
    <2>1. d = chan_read_failed(c) /\ c.istate = "open"
        BY <1>2 DEF channel_handle_rfd
    <2>2. /\ d \in Chan /\ Still(c, d) /\ d.tx = c.tx
          /\ d.istate = "wait_drain" /\ d.ostate = c.ostate /\ d.flags = c.flags
        BY <1>0, <1>1, <2>1, ReadFailed
    <2>. HIDE DEF d
    <2>3. d.type = "open" /\ Local(kind, d)
        BY <1>0, <1>1, <2>1, <2>2, LocalNext, Zenon DEF Still
    <2>4. /\ ~IeofSent(c) /\ (OcloseSent(d) <=> OcloseSent(c))
          /\ (IeofRcvd(d) <=> IeofRcvd(c)) /\ (OcloseRcvd(d) <=> OcloseRcvd(c))
        BY <2>1, <2>2 DEF IeofSent, OcloseSent, IeofRcvd, OcloseRcvd
    <2>5. Turn(q, r, d, e)
        BY <2>2, <2>3, <2>4, TurnSame
    <2>. QED
        BY <2>2, <2>5 DEF d
<1>3. CASE ~(n < 0)
    <2>1. d = SetIn(c, c.input + n)
        BY <1>3 DEF channel_handle_rfd, SetIn
    <2>2. d \in Chan /\ Alike(c, d) /\ d.detach = c.detach
        BY <1>0, <1>1, <2>1, SetCounts, Zenon DEF Quiet
    <2>. HIDE DEF d
    <2>3. Turn(q, r, d, e)
        BY <2>2, TurnAlike
    <2>. QED
        BY <2>2, <2>3 DEF Alike, Still, d
<1>. QED
    BY <1>2, <1>3

LEMMA WriteTurn ==
    ASSUME NEW q \in Seq(Packets), NEW r \in Seq(Packets), NEW c, NEW e, Turn(q, r, c, e),
           NEW n \in Int, n < 0 => c.ostate \in {"open", "wait_drain"}
    PROVE  LET d == channel_handle_wfd(c, n)
           IN  Turn(q, r, d, e) /\ Still(c, d) /\ d.flags = c.flags
<1>. DEFINE d == channel_handle_wfd(c, n)
            m == IF compat20 THEN c.local_consumed + n ELSE c.local_consumed
<1>0. c \in Chan /\ c.output - n \in Int /\ m \in Int
    <2>1. c \in Chan
        BY TurnChan, Zenon
    <2>. QED
        BY <2>1, CountsTyped
<1>1. /\ c.type = "open" /\ c.err = FALSE
      /\ compat20 => c.istate # "wait_oclose" /\ c.ostate # "wait_ieof"
      /\ compat20 /\ "close_sent" \in c.flags => c.istate = "closed" /\ c.ostate = "closed"
      /\ ~compat20 => c.flags = {}
    BY TurnChan, Zenon
<1>2. CASE n < 0
    <2>1. d = chan_write_failed(c) /\ c.ostate \in {"open", "wait_drain"}
        BY <1>2 DEF channel_handle_wfd
    <2>. HIDE DEF d
    <2>2. Turn(q, r, d, e) /\ Still(c, d) /\ d.flags = c.flags
        BY <2>1, WriteFailedTurn
    <2>. QED
        BY <2>2 DEF d
<1>3. CASE ~(n < 0)
    <2>1. d = Written(c, c.output - n, m)
        BY <1>3 DEF channel_handle_wfd, Written
    <2>. HIDE DEF m
    <2>2. d \in Chan /\ Alike(c, d) /\ d.detach = c.detach
        <3>1. Quiet(c, Written(c, c.output - n, m))
            BY <1>0, SetTwoCounts
        <3>. QED
            BY <2>1, <3>1 DEF Quiet
    <2>. HIDE DEF d
    <2>3. Turn(q, r, d, e)
        BY <2>2, TurnAlike
    <2>. QED
        BY <2>2, <2>3 DEF Alike, Still, d
<1>. QED
    BY <1>2, <1>3

LEMMA StderrTurn ==
    ASSUME NEW q \in Seq(Packets), NEW r \in Seq(Packets), NEW c, NEW e, Turn(q, r, c, e),
           NEW n \in Int
    PROVE  LET d == channel_handle_efd(c, n)
           IN  Turn(q, r, d, e) /\ Still(c, d) /\ d.flags = c.flags
<1>. DEFINE d == channel_handle_efd(c, n)
            v == [c EXCEPT !.efd = FALSE]
            w == WrittenX(c, c.extended - n, c.local_consumed + n)
            x == SetExt(c, c.extended + n)
<1>0. c \in Chan
    BY TurnChan, Zenon
<1>1. /\ c \in Chan /\ c.extended - n \in Int /\ c.extended + n \in Int
      /\ c.local_consumed + n \in Int
    BY <1>0, CountsTyped
<1>2. d = v \/ d = w \/ d = x \/ d = c
    BY DEF channel_handle_efd, WrittenX, SetExt
<1>3. v \in Chan /\ Alike(c, v) /\ v.detach = c.detach
    BY <1>1, SetStderr, Zenon
<1>4. w \in Chan /\ Alike(c, w) /\ w.detach = c.detach
    BY <1>1, SetTwoCounts DEF Quiet
<1>5. x \in Chan /\ Alike(c, x) /\ x.detach = c.detach
    BY <1>1, SetCounts, Zenon DEF Quiet
<1>. HIDE DEF d, v, w, x
<1>6. d \in Chan /\ Alike(c, d) /\ d.detach = c.detach
    BY <1>1, <1>2, <1>3, <1>4, <1>5 DEF Alike
<1>7. Turn(q, r, d, e)
    BY <1>6, TurnAlike
<1>. QED
    BY <1>6, <1>7 DEF Alike, Still, d

(* The window is given back while the channel is open.                     *)
LEMMA WindowTurn ==
    ASSUME NEW q \in Seq(Packets), NEW r \in Seq(Packets), NEW c, NEW e, Turn(q, r, c, e),
           compat20
    PROVE  LET d == channel_check_window(c)
           IN  Turn(q, r, d, e) /\ Still(c, d) /\ d.flags = c.flags
<1>. DEFINE d == channel_check_window(c)
            s == Send(c, "adjust", c.local_consumed)
            w == Granted(s, s.local_window + c.local_consumed, 0)
<1>1. /\ c \in Chan /\ c.type = "open" /\ c.err = FALSE /\ c.local_consumed \in Int
      /\ c.istate # "wait_oclose" /\ c.ostate # "wait_ieof"
    BY TurnChan, CountsTyped, Zenon
<1>2. "adjust" \in Names /\ 0 \in Int
    BY DEF Names
<1>3. /\ s \in Chan /\ s.tx = Append(c.tx, Packet("adjust", c.local_consumed))
      /\ s.type = c.type /\ s.istate = c.istate /\ s.ostate = c.ostate
      /\ s.flags = c.flags /\ s.detach = c.detach /\ s.err = c.err
    BY <1>1, <1>2, SendAdds, Zenon
<1>4. CASE d = c
    BY <1>4 DEF Still
<1>5. CASE d # c
    <2>1. d = w /\ "close_sent" \notin c.flags
        BY <1>5 DEF channel_check_window, Granted
    <2>. HIDE DEF s
    <2>2. s.local_window + c.local_consumed \in Int
        BY <1>1, <1>3, CountsTyped
    <2>3. w \in Chan /\ Alike(s, w) /\ w.detach = s.detach
        BY <1>2, <1>3, <2>2, SetTwoCounts DEF Quiet
    <2>. HIDE DEF d, w
    <2>4. /\ d \in Chan /\ Still(c, d) /\ d.flags = c.flags /\ Sent(c, "adjust", d)
          /\ d.istate = c.istate /\ d.ostate = c.ostate
        BY <1>1, <1>3, <2>1, <2>3 DEF Alike, Still, Sent
    <2>5. d.type = "open" /\ Local(kind, d)
        BY <1>1, <2>1, <2>4, LocalNext, Zenon DEF Still
    <2>6. Turn(q, r, d, e)
        BY <2>1, <2>4, <2>5, TurnSend
    <2>. QED
        BY <2>4, <2>6 DEF d
<1>. QED
    BY <1>4, <1>5

(* What a round of channel_output_poll sends.                              *)
LEMMA PortionTyped ==
    ASSUME NEW c \in Chan, NEW n \in Int
    PROVE  Portion(c, n) \in Int
<1>1. c.remote_window \in Int /\ MaxPacket \in Int
    BY CountsTyped, ChannelAssumption
<1>. QED
    BY <1>1 DEF Portion, Min

LEMMA SpendQuiet ==
    ASSUME NEW c \in Chan, NEW n \in Int
    PROVE  Quiet(c, Spend(c, n))
<1>1. c.remote_window - n \in Int
    BY CountsTyped
<1>2. Quiet(c, SetRemote(c, c.remote_window - n))
    BY <1>1, SetCounts
<1>3. CASE compat20
    BY <1>2, <1>3 DEF Spend, SetRemote
<1>4. CASE ~compat20
    BY <1>4, SMTT(30) DEF Spend, Quiet, Alike
<1>. QED
    BY <1>3, <1>4

LEMMA DataTurn ==
    ASSUME NEW q \in Seq(Packets), NEW r \in Seq(Packets), NEW c, NEW e, Turn(q, r, c, e),
           NEW t \in {"data", "ext"}, NEW n \in Int, NEW b \in Chan, Quiet(c, b),
           compat20 => "close_sent" \notin c.flags /\ (t = "ext" => "eof_sent" \notin c.flags),
           ~compat20 => t = "data" /\ c.istate \in {"open", "wait_drain"}
    PROVE  LET d == Spend(Send(b, t, n), n)
           IN  Turn(q, r, d, e) /\ Still(c, d) /\ d.flags = c.flags
<1>. DEFINE s == Send(b, t, n)
            d == Spend(s, n)
<1>1. /\ c \in Chan /\ c.type = "open" /\ c.err = FALSE
      /\ compat20 => c.istate # "wait_oclose" /\ c.ostate # "wait_ieof"
      /\ ~compat20 => c.flags = {}
    BY TurnChan, Zenon
<1>2. t \in Names
    BY DEF Names
<1>3. /\ s \in Chan /\ s.tx = Append(b.tx, Packet(t, n))
      /\ s.type = b.type /\ s.istate = b.istate /\ s.ostate = b.ostate
      /\ s.flags = b.flags /\ s.detach = b.detach /\ s.err = b.err
    BY <1>2, SendAdds, Zenon
<1>. HIDE DEF s
<1>4. Quiet(s, d)
    BY <1>3, SpendQuiet
<1>. HIDE DEF d
<1>5. /\ d \in Chan /\ d.type = "open" /\ d.err = FALSE /\ Still(c, d) /\ d.flags = c.flags
      /\ d.istate = c.istate /\ d.ostate = c.ostate /\ Sent(c, t, d)
    BY <1>1, <1>3, <1>4 DEF Quiet, Alike, Still, Sent
<1>6. Local(kind, d)
    BY <1>1, <1>5, LocalNext, Zenon
<1>7. /\ IeofSent(d) <=> IeofSent(c)
      /\ OcloseSent(d) <=> OcloseSent(c)
      /\ IeofRcvd(d) <=> IeofRcvd(c)
      /\ OcloseRcvd(d) <=> OcloseRcvd(c)
      /\ c.istate \in {"open", "wait_drain"} => ~IeofSent(c)
    BY <1>5 DEF IeofSent, OcloseSent, IeofRcvd, OcloseRcvd
<1>8. Turn(q, r, d, e)
    <2>1. ASSUME compat20 PROVE Turn(q, r, d, e)
        BY <1>5, <1>6, <2>1, TurnSend, SMTT(30)
    <2>2. ASSUME ~compat20 PROVE Turn(q, r, d, e)
        BY <1>5, <1>6, <1>7, <2>2, TurnSend, SMTT(30)
    <2>. QED
        BY <2>1, <2>2
<1>. QED
    BY <1>5, <1>8, SMTT(30) DEF d, s

LEMMA DrainedTurn ==
    ASSUME NEW q \in Seq(Packets), NEW r \in Seq(Packets), NEW c, NEW e, Turn(q, r, c, e),
           c.istate = "wait_drain", ~(c.input > 0), "close_sent" \notin c.flags
    PROVE  LET d == chan_ibuf_empty(c)
           IN  /\ Turn(q, r, d, e) /\ Still(c, d)
               /\ d.flags \ {"eof_sent"} = c.flags \ {"eof_sent"}
<1>. DEFINE d == chan_ibuf_empty(c)
<1>1. /\ c \in Chan /\ c.type = "open" /\ c.err = FALSE
      /\ compat20 => c.istate # "wait_oclose" /\ c.ostate # "wait_ieof"
      /\ ~compat20 => c.flags = {}
    BY TurnChan, Zenon
<1>2. /\ d \in Chan /\ Still(c, d) /\ d.ostate = c.ostate
      /\ compat20 => /\ d.istate = "closed" /\ Sent(c, "eof", d)
                     /\ d.flags = c.flags \cup {"eof_sent"}
      /\ ~compat20 => /\ d.istate = "wait_oclose" /\ Sent(c, "ieof", d)
                      /\ d.flags = c.flags
    BY <1>1, IbufEmpty
<1>. HIDE DEF d
<1>3. d.type = "open" /\ Local(kind, d)
    BY <1>1, <1>2, LocalNext, Zenon DEF Still
<1>4. ASSUME compat20 PROVE Turn(q, r, d, e)
    BY <1>2, <1>3, <1>4, TurnSend, SMTT(30)
<1>5. ASSUME ~compat20 PROVE Turn(q, r, d, e)
    <2>1. /\ ~IeofSent(c) /\ IeofSent(d)
          /\ OcloseSent(d) <=> OcloseSent(c)
          /\ IeofRcvd(d) <=> IeofRcvd(c)
          /\ OcloseRcvd(d) <=> OcloseRcvd(c)
        BY <1>2, <1>5 DEF IeofSent, OcloseSent, IeofRcvd, OcloseRcvd
    <2>. QED
        BY <1>2, <1>3, <1>5, <2>1, TurnSend
<1>. QED
    BY <1>2, <1>4, <1>5 DEF d

LEMMA PollTurn ==
    ASSUME NEW q \in Seq(Packets), NEW r \in Seq(Packets), NEW c, NEW e, Turn(q, r, c, e)
    PROVE  LET d == channel_output_poll(c)
           IN  /\ Turn(q, r, d, e) /\ Still(c, d)
               /\ d.flags \ {"eof_sent"} = c.flags \ {"eof_sent"}
<1>. DEFINE len == Portion(c, c.input)
            b1  == SetIn(c, c.input - len)
            c1  == IF c.istate \in {"open", "wait_drain"} /\ c.input > 0
                   THEN IF len = 0 THEN c ELSE Spend(Send(b1, "data", len), len)
                   ELSE IF c.istate = "wait_drain" /\ ~CHANNEL_EFD_INPUT_ACTIVE(c)
                   THEN chan_ibuf_empty(c) ELSE c
            ext == Portion(c1, c1.extended)
            b2  == SetExt(c1, c1.extended - ext)
            c2  == Spend(Send(b2, "ext", ext), ext)
            d   == channel_output_poll(c)
<1>1. c \in Chan /\ c.type = "open" /\ (~compat20 => c.flags = {})
    BY TurnChan, Zenon
<1>2. CASE compat20 /\ c.flags \cap {"close_sent", "close_rcvd"} # {}
    <2>1. d = c
        BY <1>2 DEF channel_output_poll
    <2>. QED
        BY <2>1 DEF Still
<1>3. CASE ~(compat20 /\ c.flags \cap {"close_sent", "close_rcvd"} # {})
    <2>1. "close_sent" \notin c.flags
        BY <1>1, <1>3
    <2>2. \/ d = c1
          \/ d = c2 /\ compat20 /\ "eof_sent" \notin c1.flags
        BY <1>1, <1>3, SMTT(30) DEF channel_output_poll, SetIn, SetExt
    <2>3. /\ Turn(q, r, c1, e) /\ Still(c, c1)
          /\ c1.flags \ {"eof_sent"} = c.flags \ {"eof_sent"}
        <3>1. CASE c.istate \in {"open", "wait_drain"} /\ c.input > 0 /\ len # 0
            <4>1. c.input \in Int /\ len \in Int
                BY <1>1, CountsTyped, PortionTyped, SMTT(30)
            <4>0. c.input - len \in Int
                BY <4>1
            <4>2. Quiet(c, b1)
                BY <1>1, <4>0, SetCounts
            <4>. HIDE DEF b1, len
            <4>3. c1 = Spend(Send(b1, "data", len), len)
                BY <3>1
            <4>. HIDE DEF c1
            <4>4. b1 \in Chan
                BY <4>2, SMTT(30) DEF Quiet
            <4>5. Turn(q, r, c1, e) /\ Still(c, c1) /\ c1.flags = c.flags
                BY <1>1, <3>1, <4>1, <4>2, <4>3, <4>4, <2>1, DataTurn
            <4>. QED
                BY <4>5, Zenon
        <3>2. CASE c.istate = "wait_drain" /\ ~(c.input > 0) /\ c1 = chan_ibuf_empty(c)
            <4>. HIDE DEF c1
            <4>. QED
                BY <3>2, <2>1, DrainedTurn, Zenon
        <3>3. CASE c1 = c
            <4>. HIDE DEF c1
            <4>. QED
                BY <3>3 DEF Still
        <3>. QED
            BY <3>1, <3>2, <3>3, ZenonT(30)
    <2>. HIDE DEF c1
    <2>4. CASE d = c1
        BY <2>3, <2>4
    <2>5. CASE d = c2 /\ compat20 /\ "eof_sent" \notin c1.flags
        <3>0. c1 \in Chan
            BY <2>3, TurnChan, Zenon
        <3>1. c1.extended \in Int /\ ext \in Int
            BY <3>0, CountsTyped, PortionTyped
        <3>2. c1.extended - ext \in Int
            BY <3>1
        <3>5. Quiet(c1, b2)
            BY <3>0, <3>2, SetCounts
        <3>3. "close_sent" \notin c1.flags
            BY <2>1, <2>3
        <3>. HIDE DEF b2, ext, d
        <3>6. b2 \in Chan
            BY <3>5, SMTT(30) DEF Quiet
        <3>4. Turn(q, r, d, e) /\ Still(c1, d) /\ d.flags = c1.flags
            BY <2>3, <2>5, <3>1, <3>3, <3>5, <3>6, DataTurn, SMTT(30)
        <3>. QED
            BY <2>3, <3>4 DEF Still, d
    <2>. QED
        BY <2>2, <2>4, <2>5
<1>. QED
    BY <1>2, <1>3
-----------------------------------------------------------------------------
(* The handlers of packets: the packet q[1] is taken by the end c, which
   becomes d.                                                              *)
LEMMA TurnTake ==
    ASSUME NEW q \in Seq(Packets), NEW r \in Seq(Packets), NEW c, NEW d, NEW e,
           q # <<>>, Turn(q, r, c, e), Local(kind, d), d.type = "open", d.tx = c.tx,
           compat20 => /\ "close_sent" \in c.flags => "close_sent" \in d.flags
                       /\ "eof_sent" \in c.flags => "eof_sent" \in d.flags
                       /\ "close_rcvd" \in d.flags => "close_rcvd" \in c.flags \/ q[1].t = "close"
                       /\ "eof_rcvd" \in d.flags => "eof_rcvd" \in c.flags \/ q[1].t = "eof",
           ~compat20 => /\ IeofSent(c) => IeofSent(d)
                        /\ OcloseSent(c) => OcloseSent(d)
                        /\ IeofRcvd(d) <=> IeofRcvd(c) \/ q[1].t = "ieof"
                        /\ OcloseRcvd(d) <=> OcloseRcvd(c) \/ q[1].t = "oclose"
    PROVE  Turn(Tail(q), r, d, e)
<1>1. r \o c.tx \in Seq(Packets)
    BY DEF Turn, Pair, Local, Chan
<1>2. /\ Local(kind, c) /\ c.type = "open"
      /\ Dir(kind, r \o c.tx, c, e) /\ Dir(kind, q, e, c)
    BY SMTT(30) DEF Turn, Pair
<1>3. CASE compat20
    <2>1. kind # "tcp15"
        BY <1>3 DEF compat20
    <2>2. Dir(kind, r \o c.tx, d, e)
        <3>1. (Fin(c) => Fin(d)) /\ (EofSent(c) => EofSent(d))
            BY <1>2, <1>3 DEF Fin, EofSent
        <3>. QED
            BY <1>1, <1>2, <2>1, <3>1, DirSame, Zenon
    <2>3. Dir20(Tail(q), e, d)
        <3>1. /\ Dir20(q, e, c)
              /\ Rcvd(d) => Rcvd(c) \/ q[1].t = "close"
              /\ "eof_rcvd" \in d.flags => "eof_rcvd" \in c.flags \/ q[1].t = "eof"
            BY <1>2, <1>3, <2>1 DEF Dir, Rcvd
        <3>. QED
            BY <3>1, DirTail20
    <2>4. Answered(Tail(q), e, d)
        BY <1>2, AnsweredTail, SMTT(30) DEF Dir
    <2>. QED
        BY <2>1, <2>2, <2>3, <2>4, SMTT(30) DEF Turn, Pair, Dir
<1>4. CASE ~compat20
    <2>1. kind = "tcp15"
        BY <1>4 DEF compat20
    <2>2. Dir(kind, r \o c.tx, d, e)
        BY <1>1, <1>2, <1>4, <2>1, DirSame, Zenon
    <2>3. Dir15(Tail(q), e, d)
        <3>1. Dir15(q, e, c)
            BY <1>2, <2>1 DEF Dir
        <3>. QED
            BY <1>4, <3>1, DirTail15
    <2>4. Answered(Tail(q), e, d)
        BY <1>2, AnsweredTail DEF Dir
    <2>. QED
        BY <2>1, <2>2, <2>3, <2>4, SMTT(30) DEF Turn, Pair, Dir
<1>. QED
    BY <1>3, <1>4

(* What the queue says of its first packet.                                *)
LEMMA FirstPacket ==
    ASSUME NEW q \in Seq(Packets), NEW r \in Seq(Packets), NEW c, NEW e,
           q # <<>>, Turn(q, r, c, e)
    PROVE  /\ q[1] \in Packets /\ q[1].t \in Names /\ q[1].n \in Int
           /\ q[1].t \notin {"open", "confirm", "failure"}
           /\ compat20 => /\ q[1].t \notin {"ieof", "oclose"} /\ "close_rcvd" \notin c.flags
                          /\ q[1].t = "ext" => "eof_rcvd" \notin c.flags
           /\ ~compat20 => /\ q[1].t \in {"data", "ieof", "oclose"}
                           /\ q[1].t = "ieof" => ~IeofRcvd(c)
                           /\ q[1].t = "oclose" => ~OcloseRcvd(c)
<1>1. q[1] \in Packets /\ Len(q) \in Nat \ {0} /\ 1 \in 1 .. Len(q)
    BY TailRest
<1>2. q[1].t \in Names /\ q[1].n \in Int
    BY <1>1 DEF Packets
<1>3. c.type = "open" /\ Dir(kind, q, e, c)
    BY DEF Turn, Pair
<1>4. q[1].t # "confirm"
    BY <1>1, <1>3 DEF Dir, Answered
<1>5. compat20 => /\ q[1].t \notin {"ieof", "oclose", "open", "failure"}
                  /\ "close_rcvd" \notin c.flags
                  /\ q[1].t = "ext" => "eof_rcvd" \notin c.flags
    BY <1>1, <1>3 DEF Dir, Dir20, Rcvd, Has, compat20
<1>6. ~compat20 => /\ q[1].t \in {"confirm", "data", "ieof", "oclose"}
                   /\ q[1].t = "ieof" => ~IeofRcvd(c)
                   /\ q[1].t = "oclose" => ~OcloseRcvd(c)
    BY <1>1, <1>3, SMTT(30) DEF Dir, Dir15, compat20
<1>. QED
    BY <1>1, <1>2, <1>4, <1>5, <1>6

(* A packet that only changes the buffers and the windows.                 *)
LEMMA QuietTake ==
    ASSUME NEW q \in Seq(Packets), NEW r \in Seq(Packets), NEW c, NEW d, NEW e,
           q # <<>>, Turn(q, r, c, e), Quiet(c, d), q[1].t \notin {"ieof", "oclose"}
    PROVE  Turn(Tail(q), r, d, e) /\ Still(c, d) /\ d.flags = c.flags
<1>1. /\ d \in Chan /\ d.type = "open" /\ d.tx = c.tx /\ d.flags = c.flags
      /\ d.istate = c.istate /\ d.ostate = c.ostate /\ Local(kind, d) /\ Still(c, d)
    BY TurnChan, AlikeLocal, Zenon DEF Quiet, Alike, Still
<1>2. /\ IeofSent(d) <=> IeofSent(c)
      /\ OcloseSent(d) <=> OcloseSent(c)
      /\ IeofRcvd(d) <=> IeofRcvd(c)
      /\ OcloseRcvd(d) <=> OcloseRcvd(c)
    BY <1>1 DEF IeofSent, OcloseSent, IeofRcvd, OcloseRcvd
<1>. QED
    BY <1>1, <1>2, TurnTake

LEMMA QuietSelf ==
    ASSUME NEW c \in Chan
    PROVE  Quiet(c, c)
  BY DEF Quiet, Alike

LEMMA InputQuiet ==
    ASSUME NEW c \in Chan, NEW n \in Int
    PROVE  /\ Quiet(c, channel_input_data(c, n))
           /\ Quiet(c, channel_input_extended_data(c, n))
           /\ Quiet(c, SetRemote(c, c.remote_window + n))
<1>. DEFINE w == IF compat20 THEN c.local_window - n ELSE c.local_window
<1>1. /\ c.local_window - n \in Int /\ c.local_consumed + n \in Int /\ c.output + n \in Int
      /\ c.extended + n \in Int /\ c.remote_window + n \in Int /\ w \in Int
    BY CountsTyped, SMTT(30)
<1>2. /\ Quiet(c, Granted(c, c.local_window - n, c.local_consumed + n))
      /\ Quiet(c, ArrivedX(c, c.extended + n, c.local_window - n))
      /\ Quiet(c, SetRemote(c, c.remote_window + n)) /\ Quiet(c, c)
    BY <1>1, SetCounts, SetTwoCounts, QuietSelf
<1>3. Quiet(c, Arrived(c, c.output + n, w))
    <2>. HIDE DEF w
    <2>. QED
        BY <1>1, SetTwoCounts
<1>4. channel_input_data(c, n) \in {c, Granted(c, c.local_window - n, c.local_consumed + n),
                                    Arrived(c, c.output + n, w)}
    BY DEF channel_input_data, Granted, Arrived
<1>5. channel_input_extended_data(c, n)
        \in {c, ArrivedX(c, c.extended + n, c.local_window - n)}
    BY DEF channel_input_extended_data, ArrivedX
<1>. HIDE DEF w
<1>. QED
    BY <1>2, <1>3, <1>4, <1>5

(* The end of the file of the peer: the output half drains and closes.     *)
LEMMA IeofTake ==
    ASSUME NEW q \in Seq(Packets), NEW r \in Seq(Packets), NEW c, NEW e,
           q # <<>>, Turn(q, r, c, e), q[1].t \in {"eof", "ieof"}
    PROVE  LET d == chan_rcvd_ieof(c)
           IN  /\ Turn(Tail(q), r, d, e) /\ Still(c, d)
               /\ d.flags \ {"eof_rcvd"} = c.flags \ {"eof_rcvd"}
<1>. DEFINE c1 == IF compat20 THEN chan_rcvd_eof2(c) ELSE chan_rcvd_ieof1(c)
            d  == chan_rcvd_ieof(c)
<1>1. /\ c \in Chan /\ c.type = "open" /\ c.err = FALSE
      /\ c.istate \in {"open", "wait_drain", "wait_oclose", "closed"}
      /\ c.ostate \in {"open", "wait_drain", "wait_ieof", "closed"}
      /\ compat20 => c.istate # "wait_oclose" /\ c.ostate # "wait_ieof"
      /\ compat20 /\ "close_sent" \in c.flags => c.istate = "closed" /\ c.ostate = "closed"
      /\ ~compat20 => c.flags = {}
    BY TurnChan, Zenon
<1>2. /\ compat20 => q[1].t = "eof"
      /\ ~compat20 => q[1].t = "ieof" /\ ~IeofRcvd(c)
    BY FirstPacket
<1>3. c1.output = c.output
    BY <1>1 DEF chan_rcvd_eof2, chan_rcvd_ieof1, Flag, Error, Chan
<1>4. d = channel_pre_open(c1)
    BY DEF chan_rcvd_ieof, channel_pre_open
<1>5. ASSUME compat20
      PROVE  /\ Turn(Tail(q), r, c1, e) /\ Still(c, c1)
             /\ c1.flags \ {"eof_rcvd"} = c.flags \ {"eof_rcvd"}
    <2>. DEFINE f == Flag(c, "eof_rcvd")
                z == IF c.ostate = "open" THEN "wait_drain" ELSE c.ostate
    <2>1. /\ f \in Chan /\ f.tx = c.tx /\ f.flags = c.flags \cup {"eof_rcvd"}
          /\ f.type = c.type /\ f.istate = c.istate /\ f.ostate = c.ostate
          /\ f.detach = c.detach /\ f.err = c.err
        BY <1>1, FlagAdds
    <2>. HIDE DEF f
    <2>2. chan_rcvd_eof2(c) = Out(f, z)
        BY <2>1 DEF chan_rcvd_eof2, Out, f
    <2>3. z \in {"open", "wait_drain", "wait_ieof", "closed"}
        BY <1>1
    <2>4. /\ z # "wait_ieof" /\ c.ostate = "closed" => z = "closed"
        BY <1>1, <1>5
    <2>5. c1 = Out(f, z)
        BY <1>5, <2>2
    <2>. HIDE DEF z, c1
    <2>6. /\ c1 \in Chan /\ c1.ostate = z /\ c1.type = c.type /\ c1.istate = c.istate
          /\ c1.flags = c.flags \cup {"eof_rcvd"} /\ c1.tx = c.tx /\ c1.err = c.err
          /\ c1.detach = c.detach
        BY <2>1, <2>3, <2>5, SetOutput
    <2>7. Local(kind, c1)
        BY <1>1, <1>5, <2>3, <2>4, <2>6, LocalNext, Zenon DEF z
    <2>8. Turn(Tail(q), r, c1, e)
        BY <1>1, <1>2, <1>5, <2>6, <2>7, TurnTake
    <2>. QED
        BY <2>6, <2>8, SMTT(30) DEF Still
<1>6. ASSUME ~compat20
      PROVE  /\ Turn(Tail(q), r, c1, e) /\ Still(c, c1)
             /\ c1.flags \ {"eof_rcvd"} = c.flags \ {"eof_rcvd"}
    <2>. DEFINE z == IF c.ostate = "open" THEN "wait_drain" ELSE "closed"
    <2>1. c.ostate \in {"open", "wait_ieof"}
        BY <1>1, <1>2, <1>6 DEF IeofRcvd
    <2>2. c1 = Out(c, z)
        BY <1>6, <2>1 DEF chan_rcvd_ieof1, Out
    <2>3. z \in {"open", "wait_drain", "wait_ieof", "closed"}
        OBVIOUS
    <2>4. z \in {"wait_drain", "closed"} /\ (c.ostate = "wait_ieof" => z = "closed")
        OBVIOUS
    <2>. HIDE DEF z, c1
    <2>5. /\ c1 \in Chan /\ c1.ostate = z /\ c1.type = c.type /\ c1.istate = c.istate
          /\ c1.flags = c.flags /\ c1.tx = c.tx /\ c1.err = c.err /\ c1.detach = c.detach
        BY <1>1, <2>2, <2>3, SetOutput
    <2>6. Local(kind, c1)
        BY <1>1, <1>6, <2>5, LocalNext, Zenon
    <2>7. /\ IeofSent(c) => IeofSent(c1)
          /\ OcloseSent(c) => OcloseSent(c1)
          /\ IeofRcvd(c1)
          /\ OcloseRcvd(c1) <=> OcloseRcvd(c)
        BY <2>1, <2>4, <2>5, SMTT(30) DEF IeofSent, OcloseSent, IeofRcvd, OcloseRcvd
    <2>8. Turn(Tail(q), r, c1, e)
        BY <1>1, <1>2, <1>6, <2>5, <2>6, <2>7, TurnTake, SMTT(30)
    <2>. QED
        BY <2>5, <2>8 DEF Still
<1>. HIDE DEF c1, d
<1>7. /\ Turn(Tail(q), r, c1, e) /\ Still(c, c1)
      /\ c1.flags \ {"eof_rcvd"} = c.flags \ {"eof_rcvd"}
    BY <1>5, <1>6
<1>8. Tail(q) \in Seq(Packets)
    BY TailRest
<1>9. Turn(Tail(q), r, d, e) /\ Still(c1, d) /\ d.flags = c1.flags
    BY <1>4, <1>7, <1>8, PreOpenTurn, Zenon
<1>. QED
    BY <1>7, <1>9 DEF Still, d

(* The close of the peer, in protocol 2.                                   *)
LEMMA CloseTake ==
    ASSUME NEW q \in Seq(Packets), NEW r \in Seq(Packets), NEW c, NEW e,
           q # <<>>, Turn(q, r, c, e), q[1].t = "close", compat20
    PROVE  LET d == chan_rcvd_close2(c)
           IN  /\ Turn(Tail(q), r, d, e) /\ Still(c, d)
               /\ "close_sent" \in d.flags => "close_sent" \in c.flags
<1>. DEFINE f == Flag(c, "close_rcvd")
            z == IF c.ostate = "open" THEN "wait_drain" ELSE c.ostate
            b == Out(f, z)
            s == chan_send_eof2(b)
            d == chan_rcvd_close2(c)
<1>1. /\ c \in Chan /\ c.type = "open" /\ c.err = FALSE
      /\ c.istate \in {"open", "wait_drain", "wait_oclose", "closed"}
      /\ c.ostate \in {"open", "wait_drain", "wait_ieof", "closed"}
      /\ c.istate # "wait_oclose" /\ c.ostate # "wait_ieof"
      /\ "close_sent" \in c.flags => c.istate = "closed" /\ c.ostate = "closed"
    BY TurnChan, Zenon
<1>2. "close_rcvd" \notin c.flags
    BY FirstPacket
<1>3. /\ f \in Chan /\ f.tx = c.tx /\ f.flags = c.flags \cup {"close_rcvd"}
      /\ f.type = c.type /\ f.istate = c.istate /\ f.ostate = c.ostate
      /\ f.detach = c.detach /\ f.err = c.err
    BY <1>1, FlagAdds
<1>. HIDE DEF f
<1>4. d = IF c.istate = "wait_drain" THEN In(s, "closed") ELSE In(b, "closed")
    BY <1>1, <1>2, <1>3, Zenon DEF chan_rcvd_close2, In, Out, f
<1>5. /\ z \in {"open", "wait_drain", "wait_ieof", "closed"} /\ z # "wait_ieof"
      /\ c.ostate = "closed" => z = "closed"
    BY <1>1
<1>. HIDE DEF z
<1>6. /\ b \in Chan /\ b.ostate = z /\ b.type = c.type /\ b.istate = c.istate
      /\ b.flags = c.flags \cup {"close_rcvd"} /\ b.tx = c.tx /\ b.err = c.err
      /\ b.detach = c.detach
    BY <1>3, <1>5, SetOutput, SMTT(30)
<1>. HIDE DEF b
<1>7. Turn(Tail(q), r, b, e)
    <2>1. Local(kind, b)
        BY <1>1, <1>5, <1>6, LocalNext, Zenon
    <2>. QED
        BY <1>1, <1>6, <2>1, TurnTake
<1>8. Tail(q) \in Seq(Packets)
    BY TailRest
<1>9. CASE c.istate = "wait_drain"
    <2>1. /\ s \in Chan /\ Still(b, s) /\ Sent(b, "eof", s)
          /\ s.ostate = b.ostate /\ s.flags = b.flags \cup {"eof_sent"}
        BY <1>6, <1>9, SendEof
    <2>. HIDE DEF s, d
    <2>2. /\ d \in Chan /\ d.istate = "closed" /\ d.type = s.type /\ d.ostate = s.ostate
          /\ d.flags = s.flags /\ d.tx = s.tx /\ d.err = s.err /\ d.detach = s.detach
        BY <1>4, <1>9, <2>1, SetInput
    <2>3. Sent(b, "eof", d) /\ Still(b, d) /\ "close_sent" \notin d.flags
        BY <1>1, <1>6, <1>9, <2>1, <2>2 DEF Sent, Still
    <2>4. Local(kind, d)
        BY <1>1, <1>5, <1>6, <2>1, <2>2, <2>3, LocalNext, Zenon DEF Still
    <2>5. /\ d.type = "open" /\ "close_sent" \notin b.flags
          /\ d.flags = b.flags \cup {"eof_sent"}
        BY <1>1, <1>6, <1>9, <2>1, <2>2 DEF Still
    <2>6. Turn(Tail(q), r, d, e)
        BY <1>7, <1>8, <2>3, <2>4, <2>5, TurnSend, Zenon
    <2>. QED
        BY <1>6, <2>3, <2>6 DEF Still, d
<1>10. CASE c.istate # "wait_drain"
    <2>. HIDE DEF d
    <2>1. /\ d \in Chan /\ d.istate = "closed" /\ d.type = b.type /\ d.ostate = b.ostate
          /\ d.flags = b.flags /\ d.tx = b.tx /\ d.err = b.err /\ d.detach = b.detach
        BY <1>4, <1>6, <1>10, SetInput
    <2>4. /\ d.type = "open" /\ d.err = FALSE /\ d.ostate # "wait_ieof"
          /\ "close_sent" \in d.flags => d.ostate = "closed"
        BY <1>1, <1>5, <1>6, <2>1
    <2>2. Local(kind, d)
        BY <2>1, <2>4, LocalNext, Zenon
    <2>3. Turn(Tail(q), r, d, e)
        BY <1>1, <1>6, <1>7, <1>8, <2>1, <2>2, TurnSame, Zenon
    <2>. QED
        BY <1>6, <2>1, <2>3 DEF Still, d
<1>. QED
    BY <1>9, <1>10

(* The close of the output half of the peer, in protocol 1.5.              *)
LEMMA OcloseTake ==
    ASSUME NEW q \in Seq(Packets), NEW r \in Seq(Packets), NEW c, NEW e,
           q # <<>>, Turn(q, r, c, e), q[1].t = "oclose", ~compat20
    PROVE  LET d == chan_rcvd_oclose1(c)
           IN  Turn(Tail(q), r, d, e) /\ Still(c, d) /\ d.flags = c.flags
<1>. DEFINE s == chan_send_ieof1(c)
            b == IF c.istate = "wait_oclose" THEN c ELSE In(s, "wait_oclose")
            d == chan_rcvd_oclose1(c)
<1>1. /\ c \in Chan /\ c.type = "open" /\ c.err = FALSE /\ c.flags = {}
      /\ c.istate \in {"open", "wait_drain", "wait_oclose", "closed"}
    BY TurnChan, Zenon
<1>2. c.istate # "closed"
    BY FirstPacket DEF OcloseRcvd
<1>3. /\ c.istate = "wait_oclose" => d = In(c, "closed")
      /\ c.istate # "wait_oclose" => d = In(s, "closed")
    BY <1>1, <1>2, SMTT(30) DEF chan_rcvd_oclose1, In
<1>4. /\ Turn(q, r, b, e) /\ Still(c, b) /\ b.flags = {} /\ b.istate = "wait_oclose"
      /\ d = In(b, "closed")
    <2>1. CASE c.istate = "wait_oclose"
        <3>1. b = c
            BY <2>1, SMTT(30)
        <3>. HIDE DEF b
        <3>. QED
            BY <1>1, <1>3, <2>1, <3>1 DEF Still
    <2>2. CASE c.istate # "wait_oclose"
        <3>1. /\ s \in Chan /\ Still(c, s) /\ Sent(c, "ieof", s)
              /\ s.ostate = c.ostate /\ s.flags = c.flags
            BY <1>1, <1>2, <2>2, SendIeof
        <3>2. b = In(s, "wait_oclose")
            BY <2>2
        <3>. HIDE DEF s, b, d
        <3>3. In(In(s, "wait_oclose"), "closed") = In(s, "closed")
            BY <3>1, Zenon DEF In, Chan
        <3>4. /\ b \in Chan /\ b.istate = "wait_oclose" /\ b.type = s.type
              /\ b.ostate = s.ostate /\ b.flags = s.flags /\ b.tx = s.tx /\ b.err = s.err
              /\ b.detach = s.detach
            BY <3>1, <3>2, SetInput
        <3>5. Still(c, b) /\ b.type = "open" /\ b.flags = {} /\ Local(kind, b) /\ Sent(c, "ieof", b)
            BY <1>1, <3>1, <3>4, LocalNext, Zenon DEF Still, Sent
        <3>6. /\ ~IeofSent(c) /\ IeofSent(b)
              /\ OcloseSent(b) <=> OcloseSent(c)
              /\ IeofRcvd(b) <=> IeofRcvd(c)
              /\ OcloseRcvd(b) <=> OcloseRcvd(c)
            BY <1>2, <2>2, <3>1, <3>4, SMTT(30) DEF IeofSent, OcloseSent, IeofRcvd, OcloseRcvd
        <3>7. Turn(q, r, b, e)
            BY <3>5, <3>6, TurnSend
        <3>. QED
            BY <1>3, <2>2, <3>2, <3>3, <3>4, <3>5, <3>7
    <2>. QED
        BY <2>1, <2>2, SMTT(30)
<1>. HIDE DEF b, d
<1>5. b \in Chan
    BY <1>4, TurnChan, Zenon
<1>6. /\ d \in Chan /\ d.istate = "closed" /\ d.type = b.type /\ d.ostate = b.ostate
      /\ d.flags = b.flags /\ d.tx = b.tx /\ d.err = b.err /\ d.detach = b.detach
    BY <1>4, <1>5, SetInput
<1>7. Still(c, d) /\ d.type = "open" /\ d.flags = c.flags /\ Local(kind, d)
    BY <1>1, <1>4, <1>6, LocalNext, Zenon DEF Still
<1>8. /\ IeofSent(d)
      /\ OcloseSent(d) <=> OcloseSent(b)
      /\ IeofRcvd(d) <=> IeofRcvd(b)
      /\ OcloseRcvd(d)
    BY <1>6, SMTT(30) DEF IeofSent, OcloseSent, IeofRcvd, OcloseRcvd
<1>9. Turn(Tail(q), r, d, e)
    BY <1>4, <1>6, <1>7, <1>8, TurnTake, SMTT(30)
<1>. QED
    BY <1>7, <1>9 DEF d

(* The handlers together.                                                  *)
LEMMA HandleTurn ==
    ASSUME NEW q \in Seq(Packets), NEW r \in Seq(Packets), NEW c, NEW e,
           q # <<>>, Turn(q, r, c, e)
    PROVE  LET d == Handle(c, q[1])
           IN  /\ ~Rejects(c, q[1])
               /\ Turn(Tail(q), r, d, e) /\ Still(c, d)
               /\ "close_sent" \in d.flags => "close_sent" \in c.flags
<1>. DEFINE m == q[1]
            d == Handle(c, m)
<1>1. c \in Chan /\ c.type = "open"
    BY TurnChan, Zenon
<1>2. /\ m.t \in Names /\ m.n \in Int /\ m.t \notin {"open", "confirm", "failure"}
      /\ compat20 => /\ m.t \notin {"ieof", "oclose"}
                     /\ m.t = "ext" => "eof_rcvd" \notin c.flags
      /\ ~compat20 => m.t \in {"data", "ieof", "oclose"}
    BY FirstPacket
<1>3. ~Rejects(c, m)
    BY <1>1, <1>2 DEF Rejects
<1>4. CASE m.t \in {"eof", "ieof"}
    <2>1. d = chan_rcvd_ieof(c)
        BY <1>4 DEF Handle
    <2>. HIDE DEF d
    <2>2. /\ Turn(Tail(q), r, d, e) /\ Still(c, d)
          /\ d.flags \ {"eof_rcvd"} = c.flags \ {"eof_rcvd"}
        BY <1>4, <2>1, IeofTake
    <2>. QED
        BY <1>3, <2>2 DEF d
<1>5. CASE m.t = "close"
    <2>1. compat20 /\ d = chan_rcvd_close2(c)
        BY <1>2, <1>5 DEF Handle, chan_rcvd_oclose
    <2>. HIDE DEF d
    <2>2. /\ Turn(Tail(q), r, d, e) /\ Still(c, d)
          /\ "close_sent" \in d.flags => "close_sent" \in c.flags
        BY <1>5, <2>1, CloseTake
    <2>. QED
        BY <1>3, <2>2 DEF d
<1>6. CASE m.t = "oclose"
    <2>1. ~compat20 /\ d = chan_rcvd_oclose1(c)
        BY <1>2, <1>6 DEF Handle, chan_rcvd_oclose
    <2>. HIDE DEF d
    <2>2. Turn(Tail(q), r, d, e) /\ Still(c, d) /\ d.flags = c.flags
        BY <1>6, <2>1, OcloseTake
    <2>. QED
        BY <1>3, <2>2 DEF d
<1>7. CASE m.t \in {"data", "ext", "adjust", "exec", "exit"}
    <2>1. d \in {c, channel_input_data(c, m.n), channel_input_extended_data(c, m.n),
                 SetRemote(c, c.remote_window + m.n)}
        BY <1>1, <1>7 DEF Handle, SetRemote
    <2>2. /\ Quiet(c, channel_input_data(c, m.n)) /\ Quiet(c, c)
          /\ Quiet(c, channel_input_extended_data(c, m.n))
          /\ Quiet(c, SetRemote(c, c.remote_window + m.n))
        BY <1>1, <1>2, InputQuiet, QuietSelf
    <2>. HIDE DEF d
    <2>3. Quiet(c, d)
        BY <2>1, <2>2
    <2>4. Turn(Tail(q), r, d, e) /\ Still(c, d) /\ d.flags = c.flags
        BY <1>7, <2>3, QuietTake
    <2>. QED
        BY <1>3, <2>4 DEF d
<1>. QED
    BY <1>2, <1>4, <1>5, <1>6, <1>7 DEF Names
=============================================================================
