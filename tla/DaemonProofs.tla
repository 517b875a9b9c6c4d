---------------------------- MODULE DaemonProofs ----------------------------
(***************************************************************************)
(* Theorems about the accept loop of sshd, for every number of connections *)
(* and listeners and every setting of MaxStartups.                         *)
(***************************************************************************)
EXTENDS Daemon, FiniteSetTheorems, TLAPS

Used == {s \in Slots : startup_pipes[s] # NoConn}

(* Only a connection that was forked for has a slot.                       *)
SlotsForked ==
    \A s \in Slots : startup_pipes[s] # NoConn
        => conn[startup_pipes[s]] \in {"unauth", "auth", "gone"}

(* What select reported of the pipes is still so when the loop gets to it. *)
ReportStands ==
    IF loop \in {"awake", "exited"} THEN ready.pipes \subseteq ReadyPipes
                                    ELSE ready.pipes = {}

(* A key that was given is used, and a used key is about to be replaced.   *)
KeyInv ==
    /\ Proto1 /\ given => key_used
    /\ Proto1 /\ key_used => alarm \/ key_do_regen

DaemonInv == TypeOK /\ StartupsCounted /\ SlotsForked /\ ReportStands /\ KeyInv
-----------------------------------------------------------------------------
(* The slots are finitely many, so the counter cannot pass MaxStartups, and
   below it there is a slot to be had.                                     *)
LEMMA SlotsFinite ==
    /\ IsFiniteSet(Slots) /\ Cardinality(Slots) = max_startups
    /\ \A S \in SUBSET Slots : /\ IsFiniteSet(S) /\ Cardinality(S) \in 0..max_startups
                               /\ Cardinality(S) = max_startups => S = Slots
<1>1. max_startups \in Nat \ {0}
    BY DaemonAssumption
<1>2. IsFiniteSet(Slots) /\ Cardinality(Slots) = max_startups
    BY <1>1, FS_Interval DEF Slots
<1>3. ASSUME NEW S \in SUBSET Slots
      PROVE  /\ IsFiniteSet(S) /\ Cardinality(S) \in 0..max_startups
             /\ Cardinality(S) = max_startups => S = Slots
    BY <1>1, <1>2, FS_Subset, FS_CardinalityType
<1>. QED
    BY <1>2, <1>3

(* drop_connection lets nobody in at the limit.                            *)
LEMMA LimitDrops ==
    ASSUME TypeOK, NEW drop \in drop_connection, ~drop
    PROVE  startups < max_startups
<1>1. CASE startups < max_startups_begin
    BY <1>1, DaemonAssumption DEF TypeOK
<1>2. CASE startups >= max_startups_begin
    <2>. SUFFICES ASSUME startups >= max_startups
                  PROVE  FALSE
        BY DaemonAssumption DEF TypeOK
    <2>1. ~(startups < max_startups_begin)
        BY <1>2, DaemonAssumption DEF TypeOK
    <2>2. drop_connection = {TRUE}
        BY <2>1, Zenon DEF drop_connection
    <2>. QED
        BY <2>2, Zenon
<1>. QED
    BY <1>1, <1>2, DaemonAssumption DEF TypeOK

(* The steps of the loop. *)

LEMMA RestartInv == ASSUME DaemonInv, sighup_restart PROVE DaemonInv'
<1>. USE DEF DaemonInv
<1>1. startup_pipes' = EmptySlots /\ startups' = 0 /\ mine' = {} /\ loop = "top"
      /\ UNCHANGED <<loop, ready, conn>>
    BY DEF sighup_restart
<1>2. {s \in Slots : startup_pipes'[s] # NoConn} = {}
    BY <1>1 DEF EmptySlots
<1>3. StartupsCounted'
    BY <1>1, <1>2, FS_EmptySet DEF StartupsCounted, EmptySlots
<1>4. TypeOK'
    BY <1>1, DaemonAssumption DEF TypeOK, EmptySlots
<1>5. SlotsForked' /\ ReportStands'
    BY <1>1, <1>2 DEF SlotsForked, ReportStands
<1>6. KeyInv'
    BY DEF sighup_restart, KeyInv
<1>. QED
    BY <1>3, <1>4, <1>5, <1>6

(* The steps that leave the slots and the connections alone.               *)
LEMMA SlotsKept ==
    ASSUME DaemonInv, UNCHANGED <<startup_pipes, startups, conn, mine>>
    PROVE  StartupsCounted' /\ SlotsForked' /\ ReadyPipes' = ReadyPipes
BY DEF DaemonInv, StartupsCounted, SlotsForked, ReadyPipes, Unauthenticated, Closed

LEMMA CheckInv == ASSUME DaemonInv, CheckSighup \/ Terminate \/ EndRound PROVE DaemonInv'
<1>1. UNCHANGED <<ready, startup_pipes, startups, signals, key, conn, mine>>
    BY DEF CheckSighup, Terminate, EndRound
<1>2. \/ loop = "awake" /\ loop' = "exited"
      \/ loop \in {"top", "accept"} /\ loop' \in {"enter", "top"}
    BY DEF CheckSighup, Terminate, EndRound
<1>3. KeyInv'
    BY <1>1 DEF DaemonInv, KeyInv, signals, key
<1>4. TypeOK'
    BY <1>1, <1>2 DEF DaemonInv, TypeOK
<1>5. ReportStands'
    BY <1>1, <1>2, SlotsKept DEF DaemonInv, ReportStands
<1>. QED
    BY <1>1, <1>3, <1>4, <1>5, SlotsKept DEF DaemonInv

LEMMA SelectInv == ASSUME DaemonInv, Select PROVE DaemonInv'
<1>1. UNCHANGED <<startup_pipes, startups, signals, key, conn, mine>>
    BY DEF Select
<1>2. \/ loop = "enter" /\ loop' = "select" /\ UNCHANGED ready
      \/ loop' = "awake" /\ ready' = [socks |-> ReadySocks, pipes |-> ReadyPipes]
    BY DEF Select
<1>3. KeyInv'
    BY <1>1 DEF DaemonInv, KeyInv, signals, key
<1>4. TypeOK'
    BY <1>1, <1>2 DEF DaemonInv, TypeOK, ReadySocks, ReadyPipes
<1>5. ReportStands'
    BY <1>1, <1>2, SlotsKept DEF DaemonInv, ReportStands
<1>. QED
    BY <1>1, <1>3, <1>4, <1>5, SlotsKept DEF DaemonInv

(* A signal handler: the wait in select may end with nothing reported.     *)
LEMMA SignalInv ==
    ASSUME DaemonInv, sighup_handler \/ sigterm_handler \/ key_regeneration_alarm
    PROVE  DaemonInv'
<1>1. /\ UNCHANGED <<startup_pipes, startups, conn, mine>>
      /\ \/ loop = "select" /\ loop' = "awake" /\ ready' = Nothing
         \/ UNCHANGED <<loop, ready>>
    BY DEF sighup_handler, sigterm_handler, key_regeneration_alarm, Interrupts
<1>2. KeyInv'
    BY DEF DaemonInv, KeyInv, sighup_handler, sigterm_handler, key_regeneration_alarm,
           signals, key
<1>3. TypeOK'
    BY <1>1 DEF DaemonInv, TypeOK, Nothing
<1>4. ReportStands'
    BY <1>1, SlotsKept DEF DaemonInv, ReportStands, Nothing
<1>. QED
    BY <1>1, <1>2, <1>3, <1>4, SlotsKept DEF DaemonInv

(* The pipes that were reported belong to slots in use, so the counter goes
   down by as many as are cleared.                                         *)
LEMMA ClosePipesInv == ASSUME DaemonInv, ClosePipes PROVE DaemonInv'
<1>. USE DEF DaemonInv
<1>. DEFINE closed == ready.pipes
<1>1. /\ startup_pipes' = [s \in Slots |-> IF s \in closed THEN NoConn ELSE startup_pipes[s]]
      /\ startups' = startups - Cardinality(closed) /\ loop = "awake" /\ loop' = "accept"
      /\ ready' = [ready EXCEPT !.pipes = {}] /\ UNCHANGED <<conn, mine>>
    BY DEF ClosePipes
<1>2. closed \subseteq ReadyPipes /\ ReadyPipes \subseteq Used /\ Used \subseteq Slots
    BY <1>1 DEF ReportStands, ReadyPipes, Used
<1>3. Used' = Used \ closed
    BY <1>1, <1>2 DEF Used
<1>4. Cardinality(Used') = startups'
    <2>1. IsFiniteSet(Used) /\ Used \cap closed = closed /\ startups = Cardinality(Used)
        BY <1>2, SlotsFinite DEF StartupsCounted, Used
    <2>. QED
        BY <1>1, <1>3, <2>1, FS_Difference, ZenonT(30)
<1>5. \A s \in Slots : startup_pipes'[s] # NoConn
            => s \notin closed /\ startup_pipes'[s] = startup_pipes[s]
    BY <1>1
<1>6. StartupsCounted'
    <2>1. ASSUME NEW c \in Conns, conn[c] = "unauth", c \in mine
          PROVE  \E s \in Slots : startup_pipes'[s] = c
        <3>1. PICK s \in Slots : startup_pipes[s] = c
            BY <2>1 DEF StartupsCounted, Unauthenticated
        <3>2. s \notin closed
            BY <1>2, <2>1, <3>1 DEF ReadyPipes, Closed
        <3>. QED
            BY <1>1, <3>1, <3>2
    <2>2. \A s, t \in Slots :
            s # t /\ startup_pipes'[s] # NoConn => startup_pipes'[s] # startup_pipes'[t]
        BY <1>1, <1>5 DEF StartupsCounted
    <2>. QED
        BY <1>1, <1>4, <2>1, <2>2 DEF StartupsCounted, Unauthenticated, Used
<1>7. TypeOK'
    <2>1. startups' \in 0..max_startups
        BY <1>3, <1>4, <1>2, SlotsFinite
    <2>. QED
        BY <1>1, <2>1 DEF TypeOK
<1>8. SlotsForked' /\ ReportStands'
    BY <1>1, <1>5 DEF SlotsForked, ReportStands, TypeOK
<1>9. KeyInv'
    BY DEF KeyInv, ClosePipes, generate_ephemeral_server_key, signals
<1>. QED
    BY <1>6, <1>7, <1>8, <1>9

(* A connection that is accepted was in a queue, so it has no slot yet, and
   below the limit it gets the first free one.                             *)
LEMMA AcceptInv == ASSUME DaemonInv, NEW l \in Listeners, Accept(l) PROVE DaemonInv'
<1>. USE DEF DaemonInv
<1>1. /\ loop = "accept" /\ UNCHANGED <<loop, signals>>
      /\ ready' = [ready EXCEPT !.socks = @ \ {l}]
    BY DEF Accept
<1>2. /\ ready'.pipes = {} /\ ReportStands'
      /\ ready' \in [socks : SUBSET Listeners, pipes : SUBSET Slots]
    BY <1>1 DEF ReportStands, TypeOK
<1>3. CASE UNCHANGED <<startup_pipes, startups, key, conn, mine>>
    BY <1>1, <1>2, <1>3, SlotsKept DEF TypeOK, KeyInv, key
<1>4. ASSUME NEW c \in Queued(l), conn' = [conn EXCEPT ![c] = "dropped"],
             UNCHANGED <<startup_pipes, startups, key, mine>>
      PROVE  DaemonInv'
    <2>1. c \in Conns /\ conn[c] = l /\ l \notin Fates
        BY DaemonAssumption DEF Queued
    <2>2. TypeOK'
        BY <1>1, <1>2, <1>4, <2>1 DEF TypeOK, Fates
    <2>3. \A s \in Slots : startup_pipes[s] # NoConn => conn'[startup_pipes[s]] = conn[startup_pipes[s]]
        BY <1>4, <2>1 DEF SlotsForked, TypeOK, Fates
    <2>4. SlotsForked'
        BY <1>4, <2>3 DEF SlotsForked
    <2>5. Unauthenticated' \subseteq Unauthenticated
        BY <1>4, <2>1 DEF Unauthenticated, TypeOK
    <2>6. StartupsCounted'
        BY <1>4, <2>5 DEF StartupsCounted
    <2>. QED
        BY <1>2, <1>4, <2>2, <2>4, <2>6 DEF KeyInv, key
<1>5. ASSUME NEW c \in Queued(l), NEW drop \in drop_connection, ~drop,
             \/ \E s \in Slots :
                  /\ startup_pipes[s] = NoConn
                  /\ startup_pipes' = [startup_pipes EXCEPT ![s] = c]
                  /\ startups' = startups + 1
             \/ /\ \A s \in Slots : startup_pipes[s] # NoConn
                /\ UNCHANGED <<startup_pipes, startups>>,
             conn' \in {[conn EXCEPT ![c] = "unauth"], [conn EXCEPT ![c] = "gone"]},
             mine' = mine \cup {c}
      PROVE  TypeOK' /\ StartupsCounted' /\ SlotsForked'
    <2>1. c \in Conns /\ conn[c] = l /\ l \notin Fates /\ c # NoConn
        BY DaemonAssumption DEF Queued
    <2>2. \A s \in Slots : startup_pipes[s] # c
        BY <2>1 DEF SlotsForked, Fates
    <2>3. Used \subseteq Slots /\ IsFiniteSet(Used) /\ Cardinality(Used) = startups
        BY SlotsFinite DEF Used, StartupsCounted
    <2>4. PICK s \in Slots : /\ startup_pipes[s] = NoConn
                             /\ startup_pipes' = [startup_pipes EXCEPT ![s] = c]
                             /\ startups' = startups + 1
        <3>1. startups < max_startups
            BY <1>5, LimitDrops
        <3>2. Used # Slots
            BY <2>3, <3>1, SlotsFinite DEF TypeOK
        <3>. QED
            BY <1>5, <3>2 DEF Used
    <2>5. Used' = Used \cup {s} /\ s \notin Used
        BY <2>1, <2>4 DEF Used, TypeOK
    <2>6. Cardinality(Used') = startups' /\ startups' \in 0..max_startups
        <3>1. Cardinality(Used') = startups'
            BY <2>3, <2>4, <2>5, FS_AddElement, Zenon
        <3>. QED
            BY <2>3, <2>5, <3>1, SlotsFinite
    <2>7. /\ conn' \in [Conns -> Fates \cup Listeners] /\ conn'[c] \in {"unauth", "gone"}
          /\ \A d \in Conns : d # c => conn'[d] = conn[d]
        BY <1>5, <2>1 DEF TypeOK, Fates
    <2>8. TypeOK'
        BY <1>1, <1>2, <2>1, <2>4, <2>6, <2>7 DEF TypeOK
    <2>9. SlotsForked'
        <3>. SUFFICES ASSUME NEW t \in Slots, startup_pipes'[t] # NoConn
                      PROVE  conn'[startup_pipes'[t]] \in {"unauth", "auth", "gone"}
            BY DEF SlotsForked
        <3>1. CASE t = s
            BY <2>4, <2>7, <3>1 DEF TypeOK
        <3>2. CASE t # s
            <4>1. startup_pipes'[t] = startup_pipes[t] /\ startup_pipes[t] \in Conns
                BY <2>4, <3>2 DEF TypeOK
            <4>. QED
                BY <2>2, <2>7, <4>1 DEF SlotsForked
        <3>. QED
            BY <3>1, <3>2
    <2>10. StartupsCounted'
        <3>1. ASSUME NEW d \in Conns, conn'[d] = "unauth", d \in mine'
              PROVE  \E t \in Slots : startup_pipes'[t] = d
            <4>1. CASE d = c
                BY <2>4, <4>1 DEF TypeOK
            <4>2. CASE d # c
                <5>1. PICK t \in Slots : startup_pipes[t] = d
                    BY <1>5, <2>7, <3>1, <4>2 DEF StartupsCounted, Unauthenticated
                <5>2. t # s
                    BY <2>4, <5>1, DaemonAssumption
                <5>. QED
                    BY <2>4, <5>1, <5>2 DEF TypeOK
            <4>. QED
                BY <4>1, <4>2
        <3>2. \A t, r \in Slots :
                t # r /\ startup_pipes'[t] # NoConn => startup_pipes'[t] # startup_pipes'[r]
            BY <2>1, <2>2, <2>4 DEF StartupsCounted, TypeOK
        <3>. QED
            BY <2>6, <3>1, <3>2 DEF StartupsCounted, Unauthenticated, Used
    <2>. QED
        BY <2>8, <2>9, <2>10
<1>6. ASSUME given' = TRUE, key_used' = (key_used \/ Proto1),
             alarm' = (alarm \/ (Proto1 /\ ~key_used)), UNCHANGED key_do_regen
      PROVE  KeyInv'
    BY <1>6, Zenon DEF KeyInv
<1>7. ASSUME NEW c \in Queued(l), NEW drop \in drop_connection \cup {TRUE}, ~drop,
             \/ \E s \in Slots :
                  /\ startup_pipes[s] = NoConn
                  /\ \A r \in 1..(s - 1) : startup_pipes[r] # NoConn
                  /\ startup_pipes' = [startup_pipes EXCEPT ![s] = c]
                  /\ startups' = startups + 1
             \/ /\ \A s \in Slots : startup_pipes[s] # NoConn
                /\ UNCHANGED <<startup_pipes, startups>>,
             conn' \in {[conn EXCEPT ![c] = "unauth"], [conn EXCEPT ![c] = "gone"]},
             mine' = mine \cup {c}, given' = TRUE, key_used' = (key_used \/ Proto1),
             alarm' = (alarm \/ (Proto1 /\ ~key_used)), UNCHANGED key_do_regen
      PROVE  DaemonInv'
    <2>1. drop \in drop_connection
        BY <1>7, Zenon
    <2>2. TypeOK' /\ StartupsCounted' /\ SlotsForked'
        BY <1>5, <1>7, <2>1
    <2>. QED
        BY <1>2, <1>6, <1>7, <2>2
<1>. QED
    BY <1>3, <1>4, <1>7, Zenon DEF Accept

(* What happens outside the loop. *)

(* A connection goes from one place to another.  Only one that has no slot,
   or one whose child has ended, goes where a slot is not for.             *)
LEMMA MoveInv ==
    ASSUME DaemonInv, NEW c \in Conns, NEW to \in Fates \cup Listeners,
           conn' = [conn EXCEPT ![c] = to], to # "unauth",
           Closed(c) => to \in {"auth", "gone"} \/ \A s \in Slots : startup_pipes[s] # c,
           conn[c] = "unauth" => to \in {"auth", "gone"},
           mine' \subseteq mine, UNCHANGED <<startup_pipes, startups>>
    PROVE  StartupsCounted' /\ SlotsForked' /\ ReadyPipes \subseteq ReadyPipes'
<1>. USE DEF DaemonInv
<1>1. conn'[c] = to /\ \A d \in Conns : d # c => conn'[d] = conn[d]
    BY DEF TypeOK
<1>2. StartupsCounted'
    BY <1>1 DEF StartupsCounted, Unauthenticated
<1>3. \A s \in Slots : startup_pipes[s] = c => to \in {"auth", "gone"}
    BY DaemonAssumption DEF SlotsForked, Closed
<1>4. \A s \in Slots : startup_pipes[s] # NoConn => startup_pipes[s] \in Conns
    BY DEF TypeOK
<1>5. SlotsForked'
    BY <1>1, <1>3, <1>4 DEF SlotsForked
<1>6. ReadyPipes \subseteq ReadyPipes'
    BY <1>1, <1>3, <1>4 DEF ReadyPipes, Closed
<1>. QED
    BY <1>2, <1>5, <1>6

LEMMA OutsideInv ==
    ASSUME DaemonInv, NEW c \in Conns,
           Connect(c) \/ GivesUp(c) \/ Authenticates(c) \/ ChildDies(c) \/ Returns(c)
    PROVE  DaemonInv'
<1>. USE DEF DaemonInv
<1>1. /\ UNCHANGED <<startup_pipes, startups, signals, key>> /\ mine' \subseteq mine
      /\ \/ loop = "select" /\ loop' = "awake" /\ ready' = Nothing
         \/ UNCHANGED <<loop, ready>>
    BY DEF Connect, GivesUp, Authenticates, ChildDies, Returns, Outside, Interrupts
<1>2. PICK to \in Fates \cup Listeners :
        /\ conn' = [conn EXCEPT ![c] = to] /\ to # "unauth"
        /\ Closed(c) => to \in {"auth", "gone"} \/ \A s \in Slots : startup_pipes[s] # c
        /\ conn[c] = "unauth" => to \in {"auth", "gone"}
    BY DaemonAssumption, Zenon DEF Connect, GivesUp, Authenticates, ChildDies, Returns, Outside,
       Closed, Fates
<1>3. StartupsCounted' /\ SlotsForked' /\ ReadyPipes \subseteq ReadyPipes'
    BY <1>1, <1>2, MoveInv, Zenon
<1>4. TypeOK'
    BY <1>1, <1>2 DEF TypeOK, Nothing
<1>5. ReportStands'
    BY <1>1, <1>3 DEF ReportStands, Nothing
<1>6. KeyInv'
    BY <1>1 DEF KeyInv, key
<1>. QED
    BY <1>3, <1>4, <1>5, <1>6
-----------------------------------------------------------------------------
LEMMA InitInv == ASSUME Init PROVE DaemonInv
<1>1. {s \in Slots : startup_pipes[s] # NoConn} = {}
    BY DEF Init, EmptySlots
<1>2. StartupsCounted
    BY <1>1, FS_EmptySet DEF Init, StartupsCounted, Unauthenticated
<1>3. TypeOK
    BY DaemonAssumption DEF Init, TypeOK, EmptySlots, Nothing, Fates
<1>4. SlotsForked /\ ReportStands /\ KeyInv
    BY <1>1 DEF Init, SlotsForked, ReportStands, KeyInv, Nothing
<1>. QED
    BY <1>2, <1>3, <1>4 DEF DaemonInv

LEMMA NextInv == ASSUME DaemonInv, [Next]_vars PROVE DaemonInv'
<1>1. CASE Loop
    BY <1>1, RestartInv, CheckInv, SelectInv, ClosePipesInv, AcceptInv DEF Loop
<1>2. CASE sighup_handler \/ sigterm_handler \/ key_regeneration_alarm
    BY <1>2, SignalInv
<1>3. CASE \E c \in Conns : Connect(c) \/ GivesUp(c) \/ Authenticates(c) \/ ChildDies(c)
                           \/ Returns(c)
    BY <1>3, OutsideInv
<1>4. CASE UNCHANGED vars
    <2>1. TypeOK' /\ ReportStands' /\ KeyInv'
        BY <1>4, SlotsKept DEF DaemonInv, vars, key, TypeOK, ReportStands, KeyInv
    <2>. QED
        BY <1>4, <2>1, SlotsKept DEF DaemonInv, vars
<1>. QED
    BY <1>1, <1>2, <1>3, <1>4 DEF Next

(***************************************************************************)
(* The inductive invariant of the accept loop.                             *)
(***************************************************************************)
THEOREM DaemonInvariant == Spec => []DaemonInv
    BY InitInv, NextInv, PTL DEF Spec

(***************************************************************************)
(* The type invariant: the counter stays within MaxStartups, and a slot    *)
(* holds a connection or nothing (sshd.c:1066-1121).                       *)
(***************************************************************************)
THEOREM DaemonTypes == Spec => []TypeOK
<1>1. DaemonInv => TypeOK
    BY DEF DaemonInv
<1>. QED
    BY <1>1, DaemonInvariant, PTL

(***************************************************************************)
(* MaxStartups is kept: the counter drop_connection looks at counts the    *)
(* slots in use, and every unauthenticated child has one of its own,       *)
(* whatever the order of forks, deaths and signals (sshd.c:1066-1121).     *)
(***************************************************************************)
THEOREM DaemonCounts == Spec => []StartupsCounted
<1>1. DaemonInv => StartupsCounted
    BY DEF DaemonInv
<1>. QED
    BY <1>1, DaemonInvariant, PTL

(* What the option MaxStartups is for.                                     *)
AtMostMaxStartups ==
    LET waiting == Unauthenticated \cap mine
    IN  IsFiniteSet(waiting) /\ Cardinality(waiting) <= max_startups

(***************************************************************************)
(* Hence the daemon never has more than MaxStartups unauthenticated        *)
(* children of its own: they map one to one into the slots.                *)
(***************************************************************************)
THEOREM DaemonBound == Spec => []AtMostMaxStartups
<1>1. ASSUME DaemonInv PROVE AtMostMaxStartups
    <2>. DEFINE waiting == Unauthenticated \cap mine
                slot    == [c \in waiting |-> CHOOSE s \in Slots : startup_pipes[s] = c]
    <2>1. \A c \in waiting : \E s \in Slots : startup_pipes[s] = c
        BY <1>1 DEF DaemonInv, StartupsCounted
    <2>2. \A c \in waiting : slot[c] \in Slots /\ startup_pipes[slot[c]] = c
        BY <2>1
    <2>3. slot \in Injection(waiting, Slots)
        BY <2>2 DEF Injection, IsInjective
    <2>. QED
        BY <2>3, SlotsFinite, FS_Injection DEF AtMostMaxStartups
<1>. QED
    BY <1>1, DaemonInvariant, PTL

(***************************************************************************)
(* A server key that a child was given is always about to be replaced      *)
(* (sshd.c:1058-1062, 1198-1204).                                          *)
(***************************************************************************)
THEOREM DaemonReplacesKeys == Spec => []UsedKeyAges
<1>1. DaemonInv => UsedKeyAges
    BY DEF DaemonInv, KeyInv, UsedKeyAges
<1>. QED
    BY <1>1, DaemonInvariant, PTL
=============================================================================
