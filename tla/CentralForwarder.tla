---------------------------- MODULE CentralForwarder ----------------------------
(***************************************************************************)
(* The central server's forwarder between many clients and one robot         *)
(* (ArCentralForwarder.cpp), for one command.                                *)
(*                                                                         *)
(* The robot knows a single client, the forwarder.  Packets from the robot   *)
(* carry no trace of who asked, so the forwarder keeps a list of those who    *)
(* asked once, in their order, and otherwise hands a packet to all who have    *)
(* requested the command.  To the robot it requests the command as often as   *)
(* the most demanding of its clients.  The command's return type says how      *)
(* many packets an answer has.                                               *)
(***************************************************************************)
EXTENDS Integers, Sequences, FiniteSets, SequencesExt

CONSTANTS
    Clients,    \* clients of the forwarder, each connects once
    NoClient,   \* a NULL in the list, or nobody
    Periods,    \* intervals of requests, in milliseconds
    MaxAsks,    \* bound: packets all clients send
    MaxUnasked  \* bound: packets the robot sends by itself

ASSUME ForwarderAssumption ==
    /\ NoClient \notin Clients /\ IsFiniteSet(Clients)
    /\ Periods \subseteq Nat
    /\ MaxAsks \in Nat /\ MaxUnasked \in Nat

Never == -2    \* nobody has requested the command
OnNews == -1   \* requested, at no interval
Wishes == {Never, OnNews} \cup Periods

ReturnTypes == {"none", "single", "untilEmpty", "video", "videoOptim"}
Videos == {"video", "videoOptim"}
Queued == {"single", "untilEmpty"}  \* answers go to one client after another

VARIABLES
    returnType,  \* of the command, from its data flags
    status,      \* a client: "connected", "gone" (STATE_DISCONNECTED), "deleted"
    wish,        \* a client's entry for the command in myRequested
    waiting,     \* myRequestOnces
    toRobot,     \* packets on their way to the robot
    robotWish,   \* the entry for the command in the robot's myRequested
    fromRobot,   \* packets on their way back: who asked, and is it the last part
    asks, unasked, \* packets so far, for MaxAsks and MaxUnasked
    \* history: the robot was asked to send by itself; an answer reached a client
    \* that did not ask for it
    requestedOnce, crossed

vars == <<returnType, status, wish, waiting, toRobot, robotWish, fromRobot, asks,
          unasked, requestedOnce, crossed>>
history == <<requestedOnce, crossed>>

Init ==
    /\ returnType \in ReturnTypes
    /\ status = [c \in Clients |-> "connected"]
    /\ wish = [c \in Clients |-> Never]
    /\ waiting = <<>> /\ toRobot = <<>> /\ fromRobot = <<>>
    /\ robotWish = Never
    /\ asks = 0 /\ unasked = 0
    /\ requestedOnce = FALSE /\ crossed = FALSE

----------------------------------------------------------------------------
(* What the clients together want *)

Listed(st) == {c \in Clients : st[c] # "deleted"}

\* Fault: a client that wants news only hides the others' intervals.
FrequencyNewsFirst(w, st) ==
    LET wishes == {w[c] : c \in Listed(st)} IN
    IF OnNews \in wishes THEN OnNews
    ELSE IF wishes \cap Periods = {} THEN Never
    ELSE CHOOSE p \in wishes \cap Periods : \A q \in wishes \cap Periods : p <= q

\* ArServerBase::getFrequency: the shortest interval, else news, else nothing.
Frequency(w, st) ==
    LET wishes == {w[c] : c \in Listed(st)} IN
    IF wishes \cap Periods # {}
    THEN CHOOSE p \in wishes \cap Periods : \A q \in wishes \cap Periods : p <= q
    ELSE IF OnNews \in wishes THEN OnNews ELSE Never

Once(c) == [do |-> "once", by |-> c]
Request(i) == [do |-> "request", interval |-> i]
StopRequest == [do |-> "stop"]

\* requestChanged: passed on to the robot, an interval for videos excepted; and
\* the command is asked for once, for clients that came after the first.
Changed(i) ==
    IF i = Never THEN <<StopRequest>>
    ELSE IF returnType \in Videos /\ i # OnNews THEN <<>>
    ELSE <<Request(i), Once(NoClient)>>

RequestChanged ==
    LET sent == Changed(Frequency(wish', status')) IN
    /\ toRobot' = toRobot \o sent
    /\ requestedOnce' = (requestedOnce \/ \E i \in DOMAIN sent : sent[i].do = "request")

----------------------------------------------------------------------------
(* Clients of the forwarder *)

Asks(c) == status[c] = "connected" /\ asks < MaxAsks /\ asks' = asks + 1

\* REQUEST, new or revised: nothing is answered here.
ClientRequests(c, i) ==
    /\ Asks(c)
    /\ wish' = [wish EXCEPT ![c] = i] /\ UNCHANGED status
    /\ RequestChanged
    /\ UNCHANGED <<returnType, waiting, robotWish, fromRobot, unasked, crossed>>

\* REQUESTSTOP; without a request it changes nothing.
ClientStops(c) ==
    /\ Asks(c) /\ wish[c] # Never
    /\ wish' = [wish EXCEPT ![c] = Never] /\ UNCHANGED status
    /\ RequestChanged
    /\ UNCHANGED <<returnType, waiting, robotWish, fromRobot, unasked, crossed>>

\* Fault: who asked for a command without an answer is remembered too.
RememberAlways(c) == Append(waiting, c)

\* The list of those who asked once, unless the command has no answer.
Remember(c) == IF returnType = "none" THEN waiting ELSE Append(waiting, c)

\* requestOnce.
ClientAsksOnce(c) ==
    /\ Asks(c)
    /\ waiting' = Remember(c)
    /\ toRobot' = Append(toRobot, Once(c))
    /\ UNCHANGED <<returnType, status, wish, robotWish, fromRobot, unasked, history>>

ClientEnds(c) ==
    /\ status[c] = "connected"
    /\ status' = [status EXCEPT ![c] = "gone"]
    /\ UNCHANGED <<returnType, wish, waiting, toRobot, robotWish, fromRobot, asks,
                   unasked, history>>

\* Fault: the entries of a removed client are erased.
ForgottenErasing(c) == SelectSeq(waiting, LAMBDA w : w # c)

\* Fault: only its first entry is replaced.
ForgottenOnce(c) ==
    [i \in DOMAIN waiting |->
       IF waiting[i] = c /\ \A j \in 1 .. i - 1 : waiting[j] # c THEN NoClient
       ELSE waiting[i]]

\* robotServerClientRemoved: NULL in place of each entry, since the answers are
\* still to come.
Forgotten(c) ==
    [i \in DOMAIN waiting |-> IF waiting[i] = c THEN NoClient ELSE waiting[i]]

\* loopOnce deletes the client: off the list, the callback, then the destructor,
\* which ends its request.
RemoveClient(c) ==
    /\ status[c] = "gone"
    /\ status' = [status EXCEPT ![c] = "deleted"]
    /\ waiting' = Forgotten(c)
    /\ wish' = [wish EXCEPT ![c] = Never]
    /\ IF wish[c] # Never THEN RequestChanged ELSE UNCHANGED <<toRobot, requestedOnce>>
    /\ UNCHANGED <<returnType, robotWish, fromRobot, asks, unasked, crossed>>

----------------------------------------------------------------------------
(* The robot's server *)

Part(c, last) == [for |-> c, last |-> last]

\* What the functor of the command sends.
Answer(c) == CASE returnType = "none" -> <<>>
               [] returnType = "untilEmpty" -> <<Part(c, FALSE), Part(c, TRUE)>>
               [] OTHER -> <<Part(c, TRUE)>>

\* Whether a packet may be the last part of an answer, an empty one.
Lasts == IF returnType = "untilEmpty" THEN BOOLEAN ELSE {TRUE}

\* What is sent without having been asked for once may go by UDP: it is lost, or
\* arrives before or after what goes by TCP.
Unasked ==
    IF returnType = "none" THEN {fromRobot}
    ELSE {fromRobot} \cup
         {InsertAt(fromRobot, i, Part(NoClient, last)) :
            i \in 1 .. Len(fromRobot) + 1, last \in Lasts}

\* processPacket: a command asked for once is answered; one that is requested for
\* the first time too, a revised request is not.
RobotReads ==
    /\ toRobot # <<>> /\ toRobot' = Tail(toRobot)
    /\ LET p == Head(toRobot) IN
         \/ /\ p.do = "once"
            /\ fromRobot' = fromRobot \o Answer(p.by) /\ UNCHANGED robotWish
         \/ /\ p.do = "stop"
            /\ robotWish' = Never /\ UNCHANGED fromRobot
         \/ /\ p.do = "request"
            /\ robotWish' = p.interval
            /\ IF robotWish = Never THEN fromRobot' \in Unasked ELSE UNCHANGED fromRobot
    /\ UNCHANGED <<returnType, status, wish, waiting, asks, unasked, history>>

\* handleRequests, or a broadcast of the robot's program.
RobotSends ==
    /\ robotWish # Never /\ unasked < MaxUnasked /\ unasked' = unasked + 1
    /\ fromRobot' \in Unasked
    /\ UNCHANGED <<returnType, status, wish, waiting, toRobot, robotWish, asks, history>>

----------------------------------------------------------------------------
(* receiveData *)

\* The receivers of an answer among those who asked once.
Deliver(packet, receivers) ==
    crossed' = (crossed \/ \E c \in receivers : packet.for # c)

\* One answer, one client: until its last part, or its only one.
ReceiveForFirst ==
    /\ returnType \in Queued /\ waiting # <<>>
    /\ Deliver(Head(fromRobot), {Head(waiting)} \ {NoClient})
    /\ waiting' = IF returnType = "single" \/ Head(fromRobot).last
                  THEN Tail(waiting) ELSE waiting

\* Everybody who waits gets the same picture.
ReceiveForAll ==
    /\ returnType \in Videos
    /\ waiting' = <<>> /\ UNCHANGED crossed

\* Nobody waits: a broadcast to the clients that have requested the command.
ReceiveForRequesters ==
    /\ returnType \notin Videos /\ ~(returnType \in Queued /\ waiting # <<>>)
    /\ UNCHANGED <<waiting, crossed>>

ReceiveData ==
    /\ fromRobot # <<>> /\ fromRobot' = Tail(fromRobot)
    /\ ReceiveForFirst \/ ReceiveForAll \/ ReceiveForRequesters
    /\ UNCHANGED <<returnType, status, wish, toRobot, robotWish, asks, unasked,
                   requestedOnce>>

----------------------------------------------------------------------------
ClientActs(c) ==
    \/ \E i \in Wishes \ {Never} : ClientRequests(c, i)
    \/ ClientStops(c) \/ ClientAsksOnce(c) \/ ClientEnds(c)

Next ==
    \/ \E c \in Clients : ClientActs(c) \/ RemoveClient(c)
    \/ RobotReads \/ RobotSends \/ ReceiveData

Spec == Init /\ [][Next]_vars

----------------------------------------------------------------------------
(* Properties *)

\* Types of the lists and wires.
TypeOK ==
    /\ returnType \in ReturnTypes
    /\ status \in [Clients -> {"connected", "gone", "deleted"}]
    /\ wish \in [Clients -> Wishes] /\ robotWish \in Wishes
    /\ waiting \in Seq(Clients \cup {NoClient})
    /\ toRobot \in Seq([do: {"once"}, by: Clients \cup {NoClient}]
                       \cup [do: {"request"}, interval: Wishes \ {Never}] \cup [do: {"stop"}])
    /\ fromRobot \in Seq([for: Clients \cup {NoClient}, last: BOOLEAN])
    /\ asks \in 0 .. MaxAsks /\ unasked \in 0 .. MaxUnasked
    /\ requestedOnce \in BOOLEAN /\ crossed \in BOOLEAN

\* The list of askers and the answers on their way stay in step, whoever comes
\* and goes in between: as long as the robot was never asked to send by itself,
\* a client receives the answers it asked for and no other's (receiveData,
\* requestOnce, robotServerClientRemoved).
AnswersReachAskers == crossed => requestedOnce

\* Answers that are still to come.
ToCome == Cardinality({i \in DOMAIN toRobot : toRobot[i].do = "once"})
          + Cardinality({i \in DOMAIN fromRobot : fromRobot[i].last})

\* Nobody is left in the list for whom no answer is to come, though broadcasts
\* and requests mix with the answers and UDP loses some of them.
NobodyWaitsInVain ==
    /\ ToCome = 0 => waiting = <<>>
    /\ returnType \in Queued => Len(waiting) <= ToCome

\* The list names no client that was deleted: receiveData would send to it.
WaitersAlive ==
    \A i \in DOMAIN waiting :
      waiting[i] # NoClient => status[waiting[i]] # "deleted"

\* What the clients that are still there have requested.
RequestedNow == {wish[c] : c \in Listed(status)}

\* A robot that sends at i serves such wishes: as often as the most demanding one, and
\* not at all if there is none; a video only on news, and only while nobody wants it
\* at an interval.
Serves(i, wishes, type) ==
    IF type \in Videos
    THEN /\ i \in {Never, OnNews}
         /\ wishes \cap Periods = {} => (i = Never <=> wishes \subseteq {Never})
    ELSE /\ i \in wishes \cup {Never}
         /\ i = Never => wishes \subseteq {Never}
         /\ \A p \in wishes \cap Periods : i \in 0 .. p

\* Once the robot has read what the forwarder told it, it serves the clients' wishes,
\* whoever changed his or went away (requestChanged, ~ArServerClient).
RobotFollowsWishes ==
    (\A i \in DOMAIN toRobot : toRobot[i].do = "once") =>
      Serves(robotWish, RequestedNow, returnType)

=============================================================================
