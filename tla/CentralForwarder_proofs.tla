------------------------ MODULE CentralForwarder_proofs ------------------------
(***************************************************************************)
(* Machine-checked proofs about CentralForwarder, for any number of clients, *)
(* any intervals and any number of packets.                                *)
(***************************************************************************)
EXTENDS CentralForwarder, WellFoundedInduction, FiniteSetTheorems, FunctionTheorems, TLAPS

ToRobot == [do: {"once"}, by: Clients \cup {NoClient}]
           \cup [do: {"request"}, interval: Wishes \ {Never}] \cup [do: {"stop"}]

----------------------------------------------------------------------------
(* What the clients together want *)

\* Some interval is the shortest.
LEMMA ShortestPeriod ==
    ASSUME NEW T \in SUBSET Nat, T # {}
    PROVE  \E p \in T : \A q \in T : p <= q
<1>1. PICK p \in T : \A q \in T : ~ (<<q, p>> \in OpToRel(<, Nat))
  BY NatLessThanWellFounded, WFMin
<1>2. \A q \in T : ~ (q < p)
  BY <1>1 DEF OpToRel
<1> QED BY <1>2

\* getFrequency is a wish, the most demanding one.
LEMMA FrequencyIsAWish ==
    ASSUME NEW w, NEW st, w \in [Clients -> Wishes]
    PROVE  LET wishes == {w[c] : c \in Listed(st)}
               f == Frequency(w, st)
           IN /\ f \in Wishes
              /\ f \in wishes \cup {Never}
              /\ f = Never => wishes \subseteq {Never}
              /\ f \in Periods <=> wishes \cap Periods # {}
              /\ \A p \in wishes \cap Periods : f \in 0 .. p
<1> DEFINE wishes == {w[c] : c \in Listed(st)}
           f == Frequency(w, st)
<1>0. wishes \subseteq Wishes /\ Periods \subseteq Nat
  BY ForwarderAssumption DEF Listed
<1>1. CASE wishes \cap Periods # {}
  <2>1. f = CHOOSE p \in wishes \cap Periods : \A q \in wishes \cap Periods : p <= q
    BY <1>1 DEF Frequency
  <2>2. \E p \in wishes \cap Periods : \A q \in wishes \cap Periods : p <= q
    <3> DEFINE T == wishes \cap Periods
    <3>1. T \in SUBSET Nat /\ T # {}
      BY <1>0, <1>1
    <3> HIDE DEF T
    <3>2. \E p \in T : \A q \in T : p <= q
      BY <3>1, ShortestPeriod
    <3> QED BY <3>2 DEF T
  <2>3. f \in wishes \cap Periods /\ \A q \in wishes \cap Periods : f <= q
    BY <2>1, <2>2
  <2> HIDE DEF f, wishes
  <2>4. f # Never
    BY <1>0, <2>3 DEF Never
  <2>5. ASSUME NEW p \in wishes \cap Periods
        PROVE  f \in 0 .. p
    <3>1. f \in Nat /\ p \in Nat /\ f <= p
      BY <1>0, <2>3
    <3> QED BY <3>1
  <2> QED BY <1>0, <1>1, <2>3, <2>4, <2>5 DEF f, wishes
<1>2. CASE wishes \cap Periods = {}
  <2>1. f = IF OnNews \in wishes THEN OnNews ELSE Never
    BY <1>2 DEF Frequency
  <2>2. f \notin Periods /\ OnNews # Never
    BY <1>0, <2>1 DEF OnNews, Never
  <2>3. f = Never => wishes \subseteq {Never}
    BY <1>0, <1>2, <2>1, <2>2 DEF Wishes
  <2> QED BY <1>0, <1>2, <2>1, <2>2, <2>3 DEF Wishes
<1> QED BY <1>1, <1>2

\* What is passed on to the robot is well formed.
LEMMA ChangedType ==
    ASSUME NEW i \in Wishes
    PROVE  Changed(i) \in Seq(ToRobot)
<1>1. StopRequest \in ToRobot
  BY DEF StopRequest, ToRobot
<1>2. i # Never => Request(i) \in ToRobot
  BY DEF Request, ToRobot
<1>3. Once(NoClient) \in ToRobot
  BY DEF Once, ToRobot
<1> QED BY <1>1, <1>2, <1>3 DEF Changed

----------------------------------------------------------------------------
(* Types *)

\* What a change of wishes sends keeps the wire well formed.
LEMMA RequestChangedType ==
    ASSUME TypeOK, RequestChanged, wish' \in [Clients -> Wishes]
    PROVE  toRobot' \in Seq(ToRobot) /\ requestedOnce' \in BOOLEAN
<1>1. Frequency(wish', status') \in Wishes
  BY FrequencyIsAWish
<1>2. Changed(Frequency(wish', status')) \in Seq(ToRobot)
  BY <1>1, ChangedType
<1>3. toRobot \in Seq(ToRobot) /\ requestedOnce \in BOOLEAN
  BY DEF TypeOK, ToRobot
<1> QED BY <1>2, <1>3 DEF RequestChanged

LEMMA RequestChangedWire == ASSUME toRobot' \in Seq(ToRobot)
    PROVE toRobot' \in Seq([do: {"once"}, by: Clients \cup {NoClient}]
              \cup [do: {"request"}, interval: Wishes \ {Never}] \cup [do: {"stop"}])
BY DEF ToRobot

\* A packet slipped in between others leaves a sequence of packets.
LEMMA UnaskedType ==
    ASSUME TypeOK, fromRobot' \in Unasked
    PROVE  fromRobot' \in Seq([for: Clients \cup {NoClient}, last: BOOLEAN])
<1> DEFINE Parts == [for: Clients \cup {NoClient}, last: BOOLEAN]
<1>1. \A last \in BOOLEAN : Part(NoClient, last) \in Parts
  BY DEF Part
<1>2. fromRobot \in Seq(Parts)
  BY DEF TypeOK
<1>3. ASSUME NEW i \in 1 .. Len(fromRobot) + 1, NEW last \in BOOLEAN
      PROVE  InsertAt(fromRobot, i, Part(NoClient, last)) \in Seq(Parts)
  <2> HIDE DEF Parts
  <2>1. SubSeq(fromRobot, 1, i - 1) \in Seq(Parts)
    BY <1>2
  <2>2. SubSeq(fromRobot, i, Len(fromRobot)) \in Seq(Parts)
    BY <1>2
  <2>3. <<Part(NoClient, last)>> \in Seq(Parts)
    BY <1>1
  <2> QED BY <2>1, <2>2, <2>3 DEF InsertAt
<1> HIDE DEF Parts
<1>4. Lasts \subseteq BOOLEAN
  BY DEF Lasts
<1>5. fromRobot' \in Seq(Parts)
  BY <1>2, <1>3, <1>4 DEF Unasked
<1> QED BY <1>5 DEF Parts

\* What a functor sends.
LEMMA AnswerType ==
    ASSUME TypeOK, NEW c \in Clients \cup {NoClient}
    PROVE  Answer(c) \in Seq([for: Clients \cup {NoClient}, last: BOOLEAN])
<1> DEFINE Parts == [for: Clients \cup {NoClient}, last: BOOLEAN]
           more == Part(c, FALSE)
           end == Part(c, TRUE)
<1>1. more \in Parts /\ end \in Parts
  BY DEF Part
<1>2. Answer(c) \in {<<>>, <<more, end>>, <<end>>}
  BY DEF Answer
<1> HIDE DEF Parts, more, end
<1>3. <<>> \in Seq(Parts) /\ <<end>> \in Seq(Parts) /\ <<more, end>> \in Seq(Parts)
  BY <1>1
<1>4. Answer(c) \in Seq(Parts)
  BY <1>2, <1>3
<1> QED BY <1>4 DEF Parts

\* What the robot does keeps the wires well formed.
LEMMA RobotReadsType ==
    ASSUME TypeOK, RobotReads
    PROVE  /\ toRobot' \in Seq(ToRobot) /\ robotWish' \in Wishes
           /\ fromRobot' \in Seq([for: Clients \cup {NoClient}, last: BOOLEAN])
<1> DEFINE p == Head(toRobot)
           Parts == [for: Clients \cup {NoClient}, last: BOOLEAN]
<1>1. toRobot \in Seq(ToRobot) /\ fromRobot \in Seq(Parts) /\ robotWish \in Wishes
  BY DEF TypeOK, ToRobot
<1>2. p \in ToRobot /\ toRobot' \in Seq(ToRobot)
  <2> QED BY <1>1 DEF RobotReads
<1>3. CASE p.do = "once"
  <2>1. p.by \in Clients \cup {NoClient}
    BY <1>2, <1>3 DEF ToRobot
  <2>2. fromRobot' = fromRobot \o Answer(p.by) /\ robotWish' = robotWish
    BY <1>3 DEF RobotReads
  <2>3. Answer(p.by) \in Seq(Parts)
    BY <2>1, AnswerType
  <2> HIDE DEF Parts, p
  <2>4. fromRobot' \in Seq(Parts)
    BY <1>1, <2>2, <2>3
  <2> QED BY <1>1, <1>2, <2>2, <2>4 DEF Parts
<1>4. CASE p.do = "stop"
  BY <1>1, <1>2, <1>4 DEF RobotReads, Wishes
<1>5. CASE p.do = "request"
  <2>1. p.interval \in Wishes
    BY <1>2, <1>5 DEF ToRobot
  <2>2. robotWish' = p.interval /\ (fromRobot' \in Unasked \/ fromRobot' = fromRobot)
    BY <1>5 DEF RobotReads
  <2>3. fromRobot' \in Seq(Parts)
    BY <1>1, <2>2, UnaskedType
  <2> QED BY <1>2, <2>1, <2>2, <2>3
<1> QED BY <1>2, <1>3, <1>4, <1>5 DEF ToRobot

LEMMA TypeInit == Init => TypeOK
<1> SUFFICES ASSUME Init PROVE TypeOK
  OBVIOUS
<1>1. waiting \in Seq(Clients \cup {NoClient})
  BY DEF Init
<1>2. toRobot \in Seq(ToRobot)
  <2> QED BY DEF Init
<1>3. fromRobot \in Seq([for: Clients \cup {NoClient}, last: BOOLEAN])
  BY DEF Init
<1>4. asks \in 0 .. MaxAsks /\ unasked \in 0 .. MaxUnasked
  BY ForwarderAssumption DEF Init
<1>5. /\ status \in [Clients -> {"connected", "gone", "deleted"}]
      /\ wish \in [Clients -> Wishes] /\ robotWish \in Wishes
  BY DEF Init, Wishes
<1>6. returnType \in ReturnTypes /\ requestedOnce \in BOOLEAN /\ crossed \in BOOLEAN
  BY DEF Init
<1> QED BY <1>1, <1>2, <1>3, <1>4, <1>5, <1>6 DEF TypeOK, ToRobot

LEMMA TypeStep == TypeOK /\ [Next]_vars => TypeOK'
<1> SUFFICES ASSUME TypeOK, [Next]_vars PROVE TypeOK'
  OBVIOUS
<1> USE ForwarderAssumption
<1>1. ASSUME NEW c \in Clients, NEW i \in Wishes \ {Never}, ClientRequests(c, i)
      PROVE  TypeOK'
  <2>1. wish' \in [Clients -> Wishes]
    BY <1>1 DEF ClientRequests, TypeOK
  <2>2. toRobot' \in Seq(ToRobot) /\ requestedOnce' \in BOOLEAN
    BY <1>1, <2>1, RequestChangedType DEF ClientRequests
  <2> QED BY <1>1, <2>1, <2>2 DEF ClientRequests, Asks, TypeOK, ToRobot
<1>2. ASSUME NEW c \in Clients, ClientStops(c)
      PROVE  TypeOK'
  <2>1. wish' \in [Clients -> Wishes]
    BY <1>2 DEF ClientStops, TypeOK, Wishes
  <2>2. toRobot' \in Seq(ToRobot) /\ requestedOnce' \in BOOLEAN
    BY <1>2, <2>1, RequestChangedType DEF ClientStops
  <2> QED BY <1>2, <2>1, <2>2 DEF ClientStops, Asks, TypeOK, ToRobot
<1>3. ASSUME NEW c \in Clients, ClientAsksOnce(c)
      PROVE  TypeOK'
  <2>1. toRobot' \in Seq(ToRobot)
    <3>1. Once(c) \in ToRobot
      BY DEF Once, ToRobot
    <3>2. toRobot \in Seq(ToRobot)
      BY DEF TypeOK, ToRobot
    <3> QED BY <1>3, <3>1, <3>2 DEF ClientAsksOnce
  <2>2. waiting' \in Seq(Clients \cup {NoClient})
    BY <1>3 DEF ClientAsksOnce, Remember, TypeOK
  <2> QED BY <1>3, <2>1, <2>2 DEF ClientAsksOnce, Asks, history, TypeOK, ToRobot
<1>4. ASSUME NEW c \in Clients, ClientEnds(c)
      PROVE  TypeOK'
  BY <1>4 DEF ClientEnds, history, TypeOK
<1>5. ASSUME NEW c \in Clients, RemoveClient(c)
      PROVE  TypeOK'
  <2>1. wish' \in [Clients -> Wishes]
    BY <1>5 DEF RemoveClient, TypeOK, Wishes
  <2>2. toRobot' \in Seq(ToRobot) /\ requestedOnce' \in BOOLEAN
    BY <1>5, <2>1, RequestChangedType DEF RemoveClient, TypeOK, ToRobot
  <2>3. waiting' \in Seq(Clients \cup {NoClient})
    <3> DEFINE S == Clients \cup {NoClient}
               n == Len(waiting)
    <3>1. waiting \in [1 .. n -> S] /\ n \in Nat
      BY DEF TypeOK
    <3>2. waiting' \in [1 .. n -> S]
      BY <1>5, <3>1 DEF RemoveClient, Forgotten
    <3> HIDE DEF S, n
    <3> QED BY <3>1, <3>2 DEF S
  <2> QED BY <1>5, <2>1, <2>2, <2>3 DEF RemoveClient, TypeOK, ToRobot
<1>6. CASE RobotReads
  BY <1>6, RobotReadsType DEF RobotReads, history, TypeOK, ToRobot
<1>7. CASE RobotSends
  BY <1>7, UnaskedType DEF RobotSends, history, TypeOK
<1>8. CASE ReceiveData
  <2>1. fromRobot' \in Seq([for: Clients \cup {NoClient}, last: BOOLEAN])
    BY <1>8 DEF ReceiveData, TypeOK
  <2>2. waiting' \in Seq(Clients \cup {NoClient})
    <3>1. waiting' \in {waiting, <<>>} \/ (waiting # <<>> /\ waiting' = Tail(waiting))
      BY <1>8 DEF ReceiveData, ReceiveForFirst, ReceiveForAll, ReceiveForRequesters
    <3>2. waiting \in Seq(Clients \cup {NoClient})
      BY DEF TypeOK
    <3>3. <<>> \in Seq(Clients \cup {NoClient})
      OBVIOUS
    <3>4. waiting # <<>> => Tail(waiting) \in Seq(Clients \cup {NoClient})
      BY <3>2
    <3> QED BY <3>1, <3>2, <3>3, <3>4
  <2>3. crossed' \in BOOLEAN
    <3>1. crossed \in BOOLEAN
      BY DEF TypeOK
    <3> QED BY <1>8, <3>1, Zenon DEF ReceiveData, ReceiveForFirst, ReceiveForAll,
                                     ReceiveForRequesters, Deliver
  <2> QED BY <1>8, <2>1, <2>2, <2>3 DEF ReceiveData, TypeOK
<1>9. CASE UNCHANGED vars
  BY <1>9 DEF vars, TypeOK
<1> QED BY <1>1, <1>2, <1>3, <1>4, <1>5, <1>6, <1>7, <1>8, <1>9 DEF Next, ClientActs

\* The lists and wires hold what they should (all of ArCentralForwarder).
THEOREM TypeCorrect == Spec => []TypeOK
BY TypeInit, TypeStep, PTL DEF Spec

----------------------------------------------------------------------------
(* Nobody who was deleted is in the list *)

LEMMA WaitersStep == TypeOK /\ WaitersAlive /\ [Next]_vars => WaitersAlive'
<1> SUFFICES ASSUME TypeOK, WaitersAlive, [Next]_vars PROVE WaitersAlive'
  OBVIOUS
<1>0. waiting \in Seq(Clients \cup {NoClient})
  BY DEF TypeOK
<1>1. ASSUME NEW c \in Clients, NEW i \in Wishes \ {Never}, ClientRequests(c, i)
      PROVE  WaitersAlive'
  BY <1>1 DEF ClientRequests, WaitersAlive
<1>2. ASSUME NEW c \in Clients, ClientStops(c)
      PROVE  WaitersAlive'
  BY <1>2 DEF ClientStops, WaitersAlive
<1>3. ASSUME NEW c \in Clients, ClientAsksOnce(c)
      PROVE  WaitersAlive'
  <2>1. status[c] = "connected" /\ status' = status
    BY <1>3 DEF ClientAsksOnce, Asks
  <2>2. waiting' \in {waiting, Append(waiting, c)}
    BY <1>3 DEF ClientAsksOnce, Remember
  <2> QED BY <1>0, <2>1, <2>2 DEF WaitersAlive
<1>4. ASSUME NEW c \in Clients, ClientEnds(c)
      PROVE  WaitersAlive'
  BY <1>4 DEF ClientEnds, WaitersAlive, TypeOK
<1>5. ASSUME NEW c \in Clients, RemoveClient(c)
      PROVE  WaitersAlive'
  \* The client that is deleted is in the list no more.
  BY <1>0, <1>5, ForwarderAssumption DEF RemoveClient, Forgotten, WaitersAlive, TypeOK
<1>6. CASE RobotReads
  BY <1>6 DEF RobotReads, WaitersAlive
<1>7. CASE RobotSends
  BY <1>7 DEF RobotSends, WaitersAlive
<1>8. CASE ReceiveData
  <2>1. \/ waiting' \in {waiting, <<>>}
        \/ waiting # <<>> /\ waiting' = Tail(waiting)
    BY <1>8 DEF ReceiveData, ReceiveForFirst, ReceiveForAll, ReceiveForRequesters
  <2>2. status' = status
    BY <1>8 DEF ReceiveData
  <2> QED BY <1>0, <2>1, <2>2 DEF WaitersAlive
<1>9. CASE UNCHANGED vars
  BY <1>9 DEF vars, WaitersAlive
<1> QED BY <1>1, <1>2, <1>3, <1>4, <1>5, <1>6, <1>7, <1>8, <1>9 DEF Next, ClientActs

\* receiveData never sends to a client that was deleted (robotServerClientRemoved).
THEOREM WaitersStayAlive == Spec => []WaitersAlive
<1>1. Init => WaitersAlive
  BY DEF Init, WaitersAlive
<1> QED BY <1>1, TypeCorrect, WaitersStep, PTL DEF Spec

----------------------------------------------------------------------------
(* The robot sends what is wanted *)

\* What a packet to the robot makes of its entry.
Asked(p) == IF p.do = "stop" THEN Never ELSE p.interval

\* The last change of the request that is on its way serves the clients' wishes:
\* without it nothing is known of the robot after it has read that change.
WishesOnTheirWay ==
    \A i \in DOMAIN toRobot :
      toRobot[i].do # "once" /\ (\A j \in DOMAIN toRobot : j > i => toRobot[j].do = "once")
        => Serves(Asked(toRobot[i]), RequestedNow, returnType)

WishInv == TypeOK /\ RobotFollowsWishes /\ WishesOnTheirWay

\* A change that is passed on serves the new wishes; one that is kept back, of a video,
\* leaves served what was.
LEMMA ChangeServes ==
    ASSUME TypeOK, wish' \in [Clients -> Wishes], returnType' = returnType
    PROVE  LET f == Frequency(wish', status') IN
           /\ Changed(f) # <<>> => Serves(f, RequestedNow', returnType)
           /\ Changed(f) = <<>> =>
                \A v \in Wishes : Serves(v, RequestedNow, returnType)
                                => Serves(v, RequestedNow', returnType)
<1> DEFINE f == Frequency(wish', status')
           R == RequestedNow'
<1>1. /\ f \in Wishes /\ f \in R \cup {Never}
      /\ f = Never => R \subseteq {Never}
      /\ f \in Periods <=> R \cap Periods # {}
      /\ \A p \in R \cap Periods : f \in 0 .. p
  BY FrequencyIsAWish DEF RequestedNow
<1>2. R \subseteq Wishes
  BY DEF RequestedNow, Listed
<1>3. Never # OnNews /\ Never \notin Periods /\ OnNews \notin Periods
  BY ForwarderAssumption DEF Never, OnNews
<1> HIDE DEF f, R
<1>4. Changed(f) = <<>> <=> f # Never /\ returnType \in Videos /\ f # OnNews
  BY DEF Changed
<1>5. ASSUME Changed(f) # <<>>
      PROVE  Serves(f, R, returnType)
  <2>1. CASE returnType \in Videos
    <3>1. f \in {Never, OnNews} /\ R \cap Periods = {}
      BY <1>1, <1>3, <1>4, <1>5, <2>1
    <3>2. f = Never <=> R \subseteq {Never}
      BY <1>1, <3>1
    <3> QED BY <2>1, <3>1, <3>2 DEF Serves
  <2>2. CASE returnType \notin Videos
    BY <1>1, <2>2 DEF Serves
  <2> QED BY <2>1, <2>2
<1>6. ASSUME Changed(f) = <<>>, NEW v \in Wishes, Serves(v, RequestedNow, returnType)
      PROVE  Serves(v, R, returnType)
  <2>1. returnType \in Videos /\ R \cap Periods # {}
    BY <1>1, <1>4, <1>6 DEF Wishes
  <2>2. v \in {Never, OnNews}
    BY <1>6, <2>1 DEF Serves
  <2> QED BY <2>1, <2>2 DEF Serves
<1> QED BY <1>5, <1>6 DEF f, R

\* A change of wishes is on its way as soon as it happens.
LEMMA RequestChangedKeeps ==
    ASSUME WishInv, RequestChanged, wish' \in [Clients -> Wishes],
           UNCHANGED <<returnType, robotWish>>
    PROVE  RobotFollowsWishes' /\ WishesOnTheirWay'
<1> DEFINE f == Frequency(wish', status')
           n == Len(toRobot)
<1>1. /\ toRobot \in Seq(ToRobot) /\ robotWish \in Wishes
      /\ toRobot' = toRobot \o Changed(f)
  BY DEF WishInv, TypeOK, ToRobot, RequestChanged
<1>2. /\ Changed(f) # <<>> => Serves(f, RequestedNow', returnType)
      /\ Changed(f) = <<>> =>
           \A v \in Wishes : Serves(v, RequestedNow, returnType)
                           => Serves(v, RequestedNow', returnType)
  BY ChangeServes DEF WishInv
<1> HIDE DEF f
<1>3. \A i \in DOMAIN toRobot : toRobot[i].do # "once" => Asked(toRobot[i]) \in Wishes
  <2> SUFFICES ASSUME NEW p \in ToRobot, p.do # "once"
               PROVE  Asked(p) \in Wishes
    BY <1>1
  <2> QED BY DEF ToRobot, Asked, Wishes
<1>4. CASE Changed(f) = <<>>
  <2>1. toRobot' = toRobot
    BY <1>1, <1>4
  <2> QED BY <1>1, <1>2, <1>3, <1>4, <2>1 DEF WishInv, RobotFollowsWishes, WishesOnTheirWay
<1>5. CASE Changed(f) = <<StopRequest>> /\ f = Never
  <2>1. toRobot' = Append(toRobot, StopRequest) /\ n \in Nat
    BY <1>1, <1>5
  <2>2. /\ DOMAIN toRobot' = 1 .. n + 1
        /\ toRobot'[n + 1].do = "stop" /\ Asked(toRobot'[n + 1]) = f
    BY <1>1, <1>5, <2>1 DEF StopRequest, Asked
  <2> HIDE DEF n
  <2> QED BY <1>2, <1>5, <2>1, <2>2 DEF RobotFollowsWishes, WishesOnTheirWay, Asked
<1>6. CASE Changed(f) = <<Request(f), Once(NoClient)>>
  <2>1. toRobot' = toRobot \o <<Request(f), Once(NoClient)>> /\ n \in Nat
    BY <1>1, <1>6
  <2>2. /\ DOMAIN toRobot' = 1 .. n + 2
        /\ toRobot'[n + 1] = Request(f) /\ toRobot'[n + 2] = Once(NoClient)
    BY <1>1, <2>1
  <2>3. Request(f).do = "request" /\ Asked(Request(f)) = f /\ Once(NoClient).do = "once"
    BY DEF Request, Once, Asked
  <2> HIDE DEF n
  <2>4. Serves(f, RequestedNow', returnType)
    BY <1>2, <1>6
  <2>5. RobotFollowsWishes'
    BY <2>1, <2>2, <2>3 DEF RobotFollowsWishes
  <2>6. ASSUME NEW i \in DOMAIN toRobot', toRobot'[i].do # "once",
               \A j \in DOMAIN toRobot' : j > i => toRobot'[j].do = "once"
        PROVE  Serves(Asked(toRobot'[i]), RequestedNow', returnType)
    <3>1. i \in 1 .. n + 2 /\ n \in Nat
      BY <2>1, <2>2
    <3>2. i # n + 2
      BY <2>2, <2>3, <2>6
    <3>3. n + 1 \in DOMAIN toRobot' /\ toRobot'[n + 1].do # "once"
      BY <2>2, <2>3, <3>1
    <3>4. ~(n + 1 > i)
      BY <2>6, <3>3
    <3>5. i = n + 1
      BY <3>1, <3>2, <3>4
    <3> QED BY <2>2, <2>3, <2>4, <3>5
  <2> QED BY <2>5, <2>6 DEF WishesOnTheirWay
<1> QED BY <1>4, <1>5, <1>6 DEF Changed

\* Whether somebody has no wish makes no difference.
LEMMA ServesAlike ==
    ASSUME NEW v, NEW R, NEW S, NEW type, R \cup {Never} = S \cup {Never},
           Serves(v, R, type)
    PROVE  Serves(v, S, type)
<1>1. Never \notin Periods
  BY ForwarderAssumption DEF Never
<1>2. R \cap Periods = S \cap Periods /\ (R \subseteq {Never} <=> S \subseteq {Never})
  BY <1>1
<1> QED BY <1>2 DEF Serves

\* The robot reads what is on its way, the last change last.
LEMMA RobotReadsKeeps ==
    ASSUME WishInv, RobotReads
    PROVE  RobotFollowsWishes' /\ WishesOnTheirWay'
<1> DEFINE n == Len(toRobot)
           ok(v) == Serves(v, RequestedNow, returnType)
<1>1. toRobot \in Seq(ToRobot) /\ toRobot # <<>> /\ toRobot' = Tail(toRobot)
  BY DEF WishInv, TypeOK, ToRobot, RobotReads
<1>2. /\ n \in Nat /\ n > 0 /\ DOMAIN toRobot = 1 .. n /\ DOMAIN toRobot' = 1 .. n - 1
      /\ \A i \in 1 .. n - 1 : toRobot'[i] = toRobot[i + 1]
      /\ Head(toRobot) = toRobot[1]
  BY <1>1
<1>3. RequestedNow' = RequestedNow /\ returnType' = returnType
  BY DEF RobotReads, RequestedNow, Listed
<1>4. toRobot[1].do = "once" => robotWish' = robotWish
  BY <1>2 DEF RobotReads
<1>5. toRobot[1].do # "once" => robotWish' = Asked(toRobot[1])
  BY <1>2 DEF RobotReads, Asked
<1> HIDE DEF n
<1>6. ASSUME \A i \in DOMAIN toRobot' : toRobot'[i].do = "once"
      PROVE  ok(robotWish')
  <2>1. \A j \in 1 .. n : j > 1 => toRobot[j].do = "once"
    <3> SUFFICES ASSUME NEW j \in 1 .. n, j > 1 PROVE toRobot[j].do = "once"
      OBVIOUS
    <3>1. j - 1 \in 1 .. n - 1 /\ (j - 1) + 1 = j
      BY <1>2
    <3>2. toRobot'[j - 1] = toRobot[j]
      BY <1>2, <3>1
    <3>3. j - 1 \in DOMAIN toRobot'
      BY <1>2, <3>1
    <3> QED BY <1>6, <3>2, <3>3
  <2>2. CASE toRobot[1].do = "once"
    <3>1. \A i \in DOMAIN toRobot : toRobot[i].do = "once"
      BY <1>2, <2>1, <2>2
    <3> QED BY <1>4, <2>2, <3>1 DEF WishInv, RobotFollowsWishes
  <2>3. CASE toRobot[1].do # "once"
    <3>1. 1 \in DOMAIN toRobot
      BY <1>2
    <3>2. ok(Asked(toRobot[1]))
      BY <1>2, <2>1, <2>3, <3>1 DEF WishInv, WishesOnTheirWay
    <3> QED BY <1>5, <2>3, <3>2
  <2> QED BY <2>2, <2>3
<1>7. ASSUME NEW i \in DOMAIN toRobot', toRobot'[i].do # "once",
             \A j \in DOMAIN toRobot' : j > i => toRobot'[j].do = "once"
      PROVE  ok(Asked(toRobot'[i]))
  <2>1. i + 1 \in DOMAIN toRobot /\ toRobot'[i] = toRobot[i + 1]
    BY <1>2
  <2>2. ASSUME NEW j \in DOMAIN toRobot, j > i + 1
        PROVE  toRobot[j].do = "once"
    <3>1. j - 1 \in DOMAIN toRobot' /\ j - 1 > i /\ toRobot'[j - 1] = toRobot[j]
      BY <1>2, <2>2
    <3> QED BY <1>7, <3>1
  <2> QED BY <1>7, <2>1, <2>2 DEF WishInv, WishesOnTheirWay
<1> QED BY <1>3, <1>6, <1>7 DEF RobotFollowsWishes, WishesOnTheirWay

\* Where nobody's wish changes, only the wire has to be looked at.
LEMMA WishUnchanged ==
    ASSUME WishInv, UNCHANGED <<returnType, toRobot, robotWish>>,
           RequestedNow' \cup {Never} = RequestedNow \cup {Never}
    PROVE  RobotFollowsWishes' /\ WishesOnTheirWay'
<1>1. \A v : Serves(v, RequestedNow, returnType) => Serves(v, RequestedNow', returnType)
  BY ServesAlike
<1> QED BY <1>1 DEF WishInv, RobotFollowsWishes, WishesOnTheirWay

LEMMA WishStep == WishInv /\ [Next]_vars => WishInv'
<1> SUFFICES ASSUME WishInv, [Next]_vars
             PROVE  RobotFollowsWishes' /\ WishesOnTheirWay'
  BY TypeStep DEF WishInv
<1>0. wish \in [Clients -> Wishes] /\ toRobot \in Seq(ToRobot)
  BY DEF WishInv, TypeOK, ToRobot
<1>1. ASSUME NEW c \in Clients, NEW i \in Wishes \ {Never}, ClientRequests(c, i)
      PROVE  RobotFollowsWishes' /\ WishesOnTheirWay'
  <2>1. wish' \in [Clients -> Wishes]
    BY <1>0, <1>1 DEF ClientRequests
  <2> QED BY <1>1, <2>1, RequestChangedKeeps DEF ClientRequests
<1>2. ASSUME NEW c \in Clients, ClientStops(c)
      PROVE  RobotFollowsWishes' /\ WishesOnTheirWay'
  <2>1. wish' \in [Clients -> Wishes]
    BY <1>0, <1>2 DEF ClientStops, Wishes
  <2> QED BY <1>2, <2>1, RequestChangedKeeps DEF ClientStops
<1>3. ASSUME NEW c \in Clients, ClientAsksOnce(c)
      PROVE  RobotFollowsWishes' /\ WishesOnTheirWay'
  <2> DEFINE n == Len(toRobot)
  <2>1. /\ n \in Nat /\ DOMAIN toRobot = 1 .. n /\ DOMAIN toRobot' = 1 .. n + 1
        /\ \A i \in 1 .. n : toRobot'[i] = toRobot[i]
        /\ toRobot'[n + 1].do = "once"
    BY <1>0, <1>3 DEF ClientAsksOnce, Once
  <2>2. RequestedNow' = RequestedNow /\ UNCHANGED <<returnType, robotWish>>
    BY <1>3 DEF ClientAsksOnce, history, RequestedNow, Listed
  <2> HIDE DEF n
  <2> QED BY <2>1, <2>2 DEF WishInv, RobotFollowsWishes, WishesOnTheirWay
<1>4. ASSUME NEW c \in Clients, ClientEnds(c)
      PROVE  RobotFollowsWishes' /\ WishesOnTheirWay'
  <2>1. Listed(status') = Listed(status)
    BY <1>4 DEF ClientEnds, Listed, WishInv, TypeOK
  <2>2. RequestedNow' = RequestedNow /\ UNCHANGED <<returnType, toRobot, robotWish>>
    BY <1>4, <2>1 DEF ClientEnds, RequestedNow
  <2> QED BY <2>2, WishUnchanged
<1>5. ASSUME NEW c \in Clients, RemoveClient(c)
      PROVE  RobotFollowsWishes' /\ WishesOnTheirWay'
  <2>1. CASE wish[c] # Never
    <3>1. wish' \in [Clients -> Wishes]
      BY <1>0, <1>5 DEF RemoveClient, Wishes
    <3> QED BY <1>5, <2>1, <3>1, RequestChangedKeeps DEF RemoveClient
  <2>2. CASE wish[c] = Never
    <3>1. wish' = wish /\ UNCHANGED <<returnType, toRobot, robotWish>>
      BY <1>0, <1>5, <2>2 DEF RemoveClient
    <3>2. Listed(status') = Listed(status) \ {c} /\ c \in Listed(status)
      BY <1>5 DEF RemoveClient, Listed, WishInv, TypeOK
    <3>3. RequestedNow' \cup {Never} = RequestedNow \cup {Never}
      BY <2>2, <3>1, <3>2 DEF RequestedNow
    <3> QED BY <3>1, <3>3, WishUnchanged
  <2> QED BY <2>1, <2>2
<1>6. CASE RobotReads
  BY <1>6, RobotReadsKeeps
<1>7. CASE RobotSends \/ ReceiveData \/ UNCHANGED vars
  <2>1. RequestedNow' = RequestedNow /\ UNCHANGED <<returnType, toRobot, robotWish>>
    BY <1>7 DEF RobotSends, ReceiveData, vars, RequestedNow, Listed
  <2> QED BY <2>1, WishUnchanged
<1> QED BY <1>1, <1>2, <1>3, <1>4, <1>5, <1>6, <1>7 DEF Next, ClientActs

\* Once the robot has read what the forwarder told it, it sends what the clients that
\* are left want (requestChanged, ArServerBase::getFrequency, ~ArServerClient).
THEOREM RobotServesWishes == Spec => []RobotFollowsWishes
<1>1. Init => WishInv
  <2> SUFFICES ASSUME Init PROVE RobotFollowsWishes /\ WishesOnTheirWay
    BY TypeInit DEF WishInv
  <2>1. toRobot = <<>> /\ robotWish = Never /\ RequestedNow \subseteq {Never}
    BY DEF Init, RequestedNow, Listed
  <2>2. Serves(Never, RequestedNow, returnType)
    <3>1. Never \notin Periods
      BY ForwarderAssumption DEF Never
    <3> QED BY <2>1, <3>1 DEF Serves
  <2> QED BY <2>1, <2>2 DEF RobotFollowsWishes, WishesOnTheirWay
<1>2. WishInv => RobotFollowsWishes
  BY DEF WishInv
<1> QED BY <1>1, <1>2, WishStep, PTL DEF Spec

----------------------------------------------------------------------------
(* How many packets of a kind are on a wire *)

Count(q, A) == Cardinality({i \in DOMAIN q : q[i] \in A})

LEMMA CountType ==
    ASSUME NEW S, NEW q \in Seq(S), NEW A
    PROVE  /\ IsFiniteSet({i \in DOMAIN q : q[i] \in A}) /\ Count(q, A) \in Nat
           /\ Count(q, A) = 0 <=> \A i \in DOMAIN q : q[i] \notin A
<1>1. IsFiniteSet(1 .. Len(q)) /\ DOMAIN q = 1 .. Len(q)
  BY FS_Interval
<1>2. IsFiniteSet({i \in DOMAIN q : q[i] \in A})
  BY <1>1, FS_Subset
<1> QED BY <1>2, FS_CardinalityType, FS_EmptySet DEF Count

LEMMA CountAppend ==
    ASSUME NEW S, NEW q \in Seq(S), NEW A, NEW x \in S
    PROVE  Count(Append(q, x), A) = Count(q, A) + IF x \in A THEN 1 ELSE 0
<1> DEFINE n == Len(q)
           C == {i \in DOMAIN q : q[i] \in A}
           D == {i \in DOMAIN Append(q, x) : Append(q, x)[i] \in A}
<1>1. /\ n \in Nat /\ DOMAIN q = 1 .. n /\ DOMAIN Append(q, x) = 1 .. n + 1
      /\ Append(q, x)[n + 1] = x /\ \A i \in 1 .. n : Append(q, x)[i] = q[i]
  OBVIOUS
<1>2. IsFiniteSet(C) /\ Cardinality(C) \in Nat
  BY CountType, FS_CardinalityType
<1>5. Count(q, A) = Cardinality(C) /\ Count(Append(q, x), A) = Cardinality(D)
  BY DEF Count
<1>3. CASE x \in A
  <2>1. D = C \cup {n + 1} /\ n + 1 \notin C
    BY <1>1, <1>3
  <2>2. Cardinality(D) = Cardinality(C) + 1
    BY <1>2, <2>1, FS_AddElement
  <2> HIDE DEF C, D
  <2> QED BY <1>3, <1>5, <2>2
<1>4. CASE x \notin A
  <2>1. D = C
    BY <1>1, <1>4
  <2> HIDE DEF C, D
  <2> QED BY <1>2, <1>4, <1>5, <2>1
<1> QED BY <1>3, <1>4

LEMMA CountTail ==
    ASSUME NEW S, NEW q \in Seq(S), NEW A, q # <<>>
    PROVE  Count(q, A) = Count(Tail(q), A) + IF Head(q) \in A THEN 1 ELSE 0
<1> DEFINE n == Len(q)
           C == {i \in DOMAIN q : q[i] \in A}
           D == {i \in DOMAIN Tail(q) : Tail(q)[i] \in A}
           f == [i \in D |-> i + 1]
<1>1. /\ n \in Nat /\ n > 0 /\ DOMAIN q = 1 .. n /\ DOMAIN Tail(q) = 1 .. n - 1
      /\ Head(q) = q[1] /\ \A i \in 1 .. n - 1 : Tail(q)[i] = q[i + 1]
      /\ Tail(q) \in Seq(S)
  OBVIOUS
<1>2. /\ IsFiniteSet(C) /\ Cardinality(C) \in Nat
      /\ IsFiniteSet(D) /\ Cardinality(D) \in Nat
  BY <1>1, CountType, FS_CardinalityType
<1>3. f \in Bijection(D, C \ {1})
  <2>1. \A i \in D : i + 1 \in C \ {1}
    BY <1>1
  <2>2. \A j \in C \ {1} : j - 1 \in D /\ (j - 1) + 1 = j
    BY <1>1
  <2>3. \A i, j \in D : i + 1 = j + 1 => i = j
    BY <1>1
  <2> HIDE DEF C, D
  <2>4. f \in [D -> C \ {1}] /\ \A i \in D : f[i] = i + 1
    BY <2>1
  <2> HIDE DEF f
  <2>5. \A i, j \in D : f[i] = f[j] => i = j
    BY <2>3, <2>4
  <2>6. \A j \in C \ {1} : \E i \in D : f[i] = j
    BY <2>2, <2>4
  <2> QED BY <2>4, <2>5, <2>6, Fun_IsInj, Fun_IsSurj DEF Bijection
<1>4. /\ 1 \in C <=> Head(q) \in A
      /\ Count(q, A) = Cardinality(C) /\ Count(Tail(q), A) = Cardinality(D)
  BY <1>1 DEF Count
<1> HIDE DEF C, D, f
<1>5. Cardinality(C \ {1}) = Cardinality(D)
  <2>1. ExistsBijection(D, C \ {1})
    BY <1>3, Fun_ExistsBij
  <2> QED BY <1>2, <2>1, FS_Bijection
<1>6. Cardinality(C \ {1}) = IF 1 \in C THEN Cardinality(C) - 1 ELSE Cardinality(C)
  BY <1>2, FS_RemoveElement
<1> QED BY <1>2, <1>4, <1>5, <1>6

LEMMA CountInsert ==
    ASSUME NEW S, NEW q \in Seq(S), NEW A, NEW x \in S, NEW k \in 1 .. Len(q) + 1
    PROVE  Count(InsertAt(q, k, x), A) >= Count(q, A)
<1> DEFINE n == Len(q)
           r == InsertAt(q, k, x)
           C == {i \in DOMAIN q : q[i] \in A}
           D == {i \in DOMAIN r : r[i] \in A}
           f == [i \in C |-> IF i < k THEN i ELSE i + 1]
<1>1. n \in Nat /\ k \in 1 .. n + 1 /\ DOMAIN q = 1 .. n
  OBVIOUS
<1>2. /\ r \in Seq(S) /\ DOMAIN r = 1 .. n + 1
      /\ \A i \in 1 .. n : r[IF i < k THEN i ELSE i + 1] = q[i]
  <2> DEFINE a == SubSeq(q, 1, k - 1)
             b == SubSeq(q, k, n)
  <2>1. /\ a \in Seq(S) /\ Len(a) = k - 1 /\ \A i \in 1 .. k - 1 : a[i] = q[i]
    BY <1>1
  <2>2. /\ b \in Seq(S) /\ Len(b) = n - k + 1
        /\ \A i \in 1 .. n - k + 1 : b[i] = q[k + i - 1]
    BY <1>1
  <2>3. r = a \o <<x>> \o b
    BY DEF InsertAt
  <2> HIDE DEF a, b, r
  <2>4. /\ a \o <<x>> \in Seq(S) /\ Len(a \o <<x>>) = k
        /\ \A i \in 1 .. k - 1 : (a \o <<x>>)[i] = a[i]
    BY <1>1, <2>1
  <2>5. r \in Seq(S) /\ Len(r) = n + 1
    BY <1>1, <2>2, <2>3, <2>4
  <2>6. ASSUME NEW i \in 1 .. n, i < k PROVE r[i] = q[i]
    <3>1. i \in 1 .. k - 1 /\ i \in 1 .. Len(a \o <<x>>)
      BY <1>1, <2>4, <2>6
    <3>2. r[i] = (a \o <<x>>)[i]
      BY <2>2, <2>3, <2>4, <3>1
    <3> QED BY <2>1, <2>4, <3>1, <3>2
  <2>7. ASSUME NEW i \in 1 .. n, ~(i < k) PROVE r[i + 1] = q[i]
    <3>1. /\ i + 1 - k \in 1 .. n - k + 1 /\ k + (i + 1 - k) - 1 = i
          /\ i + 1 \in Len(a \o <<x>>) + 1 .. Len(a \o <<x>>) + Len(b)
      BY <1>1, <2>2, <2>4, <2>7
    <3>2. r[i + 1] = b[i + 1 - k]
      BY <2>2, <2>3, <2>4, <3>1
    <3> QED BY <2>2, <3>1, <3>2
  <2> QED BY <2>5, <2>6, <2>7
<1> HIDE DEF r
<1>3. /\ IsFiniteSet(C) /\ Cardinality(C) \in Nat
      /\ IsFiniteSet(D) /\ Cardinality(D) \in Nat
  BY <1>2, CountType, FS_CardinalityType
<1>4. f \in Injection(C, D)
  <2>1. \A i \in C : (IF i < k THEN i ELSE i + 1) \in D
    BY <1>1, <1>2
  <2>2. \A i, j \in C : (IF i < k THEN i ELSE i + 1) = (IF j < k THEN j ELSE j + 1) => i = j
    BY <1>1
  <2> HIDE DEF C, D
  <2>3. f \in [C -> D] /\ \A i \in C : f[i] = IF i < k THEN i ELSE i + 1
    BY <2>1
  <2> HIDE DEF f
  <2>4. \A i, j \in C : f[i] = f[j] => i = j
    BY <2>2, <2>3
  <2> QED BY <2>3, <2>4, Fun_IsInj
<1>5. Cardinality(C) <= Cardinality(D)
  BY <1>3, <1>4, FS_Injection
<1> QED BY <1>3, <1>5 DEF Count, r

----------------------------------------------------------------------------
(* Nobody waits in vain *)

Parts == [for: Clients \cup {NoClient}, last: BOOLEAN]
Onces == {p \in ToRobot : p.do = "once"}
LastParts == {p \in Parts : p.last}

\* Beside the property: who is in the list has asked for something with an answer, and
\* what has no parts ends with its first packet.
VainInv ==
    /\ TypeOK /\ NobodyWaitsInVain
    /\ returnType = "none" => waiting = <<>>
    /\ returnType # "untilEmpty" => \A i \in DOMAIN fromRobot : fromRobot[i].last

LEMMA WiresCounted ==
    ASSUME NEW q \in Seq(ToRobot), NEW r \in Seq(Parts)
    PROVE  /\ Count(q, Onces) \in Nat /\ Count(r, LastParts) \in Nat
           /\ Cardinality({i \in DOMAIN q : q[i].do = "once"}) = Count(q, Onces)
           /\ Cardinality({i \in DOMAIN r : r[i].last}) = Count(r, LastParts)
<1>1. Count(q, Onces) \in Nat /\ Count(r, LastParts) \in Nat
  BY CountType
<1>2. {i \in DOMAIN q : q[i].do = "once"} = {i \in DOMAIN q : q[i] \in Onces}
  <2> QED BY DEF Onces
<1>3. {i \in DOMAIN r : r[i].last} = {i \in DOMAIN r : r[i] \in LastParts}
  <2> HIDE DEF Parts
  <2> QED BY DEF LastParts
<1> QED BY <1>1, <1>2, <1>3 DEF Count

LEMMA ToComeCounts ==
    ASSUME TypeOK
    PROVE  /\ toRobot \in Seq(ToRobot) /\ fromRobot \in Seq(Parts)
           /\ Count(toRobot, Onces) \in Nat /\ Count(fromRobot, LastParts) \in Nat
           /\ ToCome = Count(toRobot, Onces) + Count(fromRobot, LastParts)
<1>1. toRobot \in Seq(ToRobot) /\ fromRobot \in Seq(Parts)
  BY DEF TypeOK, ToRobot, Parts
<1> QED BY <1>1, WiresCounted DEF ToCome

LEMMA ToComeCountsNext ==
    ASSUME TypeOK'
    PROVE  /\ Count(toRobot', Onces) \in Nat /\ Count(fromRobot', LastParts) \in Nat
           /\ ToCome' = Count(toRobot', Onces) + Count(fromRobot', LastParts)
<1>1. toRobot' \in Seq(ToRobot) /\ fromRobot' \in Seq(Parts)
  BY DEF TypeOK, ToRobot, Parts
<1> QED BY <1>1, WiresCounted DEF ToCome

\* What is slipped in between takes nothing away.
LEMMA UnaskedAdds ==
    ASSUME VainInv, fromRobot' \in Unasked
    PROVE  /\ Count(fromRobot', LastParts) >= Count(fromRobot, LastParts)
           /\ returnType # "untilEmpty" => \A i \in DOMAIN fromRobot' : fromRobot'[i].last
<1>1. fromRobot \in Seq(Parts) /\ Count(fromRobot, LastParts) \in Nat
  BY ToComeCounts DEF VainInv
<1>2. CASE fromRobot' = fromRobot
  BY <1>1, <1>2 DEF VainInv
<1>3. ASSUME NEW k \in 1 .. Len(fromRobot) + 1, NEW last \in Lasts,
             fromRobot' = InsertAt(fromRobot, k, Part(NoClient, last))
      PROVE  /\ Count(fromRobot', LastParts) >= Count(fromRobot, LastParts)
             /\ returnType # "untilEmpty" => \A i \in DOMAIN fromRobot' : fromRobot'[i].last
  <2> DEFINE x == Part(NoClient, last)
             Fine == IF returnType # "untilEmpty" THEN LastParts ELSE Parts
  <2>1. x \in Parts /\ x \in Fine
    BY DEF Lasts, Part, Parts, LastParts
  <2>2. Count(fromRobot', LastParts) >= Count(fromRobot, LastParts)
    BY <1>1, <1>3, <2>1, CountInsert
  <2>3. fromRobot \in Seq(Fine)
    <3>1. \A i \in DOMAIN fromRobot : fromRobot[i] \in Fine
      <4> HIDE DEF Parts
      <4> QED BY <1>1 DEF VainInv, LastParts
    <3> HIDE DEF Fine
    <3> QED BY <1>1, <3>1
  <2>4. fromRobot' \in Seq(Fine)
    <3> HIDE DEF Fine, x
    <3>1. SubSeq(fromRobot, 1, k - 1) \in Seq(Fine)
      BY <2>3
    <3>2. SubSeq(fromRobot, k, Len(fromRobot)) \in Seq(Fine)
      BY <2>3
    <3>3. <<x>> \in Seq(Fine)
      BY <2>1
    <3> QED BY <1>3, <3>1, <3>2, <3>3 DEF InsertAt, x
  <2> HIDE DEF Parts
  <2> QED BY <2>2, <2>4 DEF LastParts
<1> QED BY <1>2, <1>3 DEF Unasked

\* One answer adds one that is to come.
LEMMA AnswerAdds ==
    ASSUME TypeOK, returnType # "none", NEW c \in Clients \cup {NoClient}
    PROVE  /\ Count(fromRobot \o Answer(c), LastParts) = Count(fromRobot, LastParts) + 1
           /\ returnType # "untilEmpty" => Answer(c) = <<Part(c, TRUE)>>
<1> DEFINE more == Part(c, FALSE)
           end == Part(c, TRUE)
<1>1. more \in Parts /\ end \in Parts /\ more \notin LastParts /\ end \in LastParts
  BY DEF Part, Parts, LastParts
<1>2. fromRobot \in Seq(Parts) /\ Count(fromRobot, LastParts) \in Nat
  BY ToComeCounts
<1>3. CASE returnType = "untilEmpty"
  <2>1. Answer(c) = <<more, end>>
    BY <1>3 DEF Answer
  <2> HIDE DEF more, end, Parts
  <2>2. Append(fromRobot, more) \in Seq(Parts)
    BY <1>1, <1>2
  <2>3. fromRobot \o <<more, end>> = Append(Append(fromRobot, more), end)
    BY <1>1, <1>2
  <2>4. Count(Append(fromRobot, more), LastParts) = Count(fromRobot, LastParts)
    BY <1>1, <1>2, CountAppend
  <2>5. Count(Append(Append(fromRobot, more), end), LastParts)
          = Count(Append(fromRobot, more), LastParts) + 1
    BY <1>1, <2>2, CountAppend
  <2> QED BY <1>3, <2>1, <2>3, <2>4, <2>5
<1>4. CASE returnType # "untilEmpty"
  <2>1. Answer(c) = <<end>>
    BY <1>4 DEF Answer
  <2> HIDE DEF more, end, Parts
  <2>2. fromRobot \o <<end>> = Append(fromRobot, end)
    BY <1>1, <1>2
  <2>3. Count(Append(fromRobot, end), LastParts) = Count(fromRobot, LastParts) + 1
    BY <1>1, <1>2, CountAppend
  <2> QED BY <2>1, <2>2, <2>3 DEF end
<1> QED BY <1>3, <1>4

\* A change of request that is passed on takes no question away.
LEMMA ChangedAdds ==
    ASSUME TypeOK, RequestChanged, wish' \in [Clients -> Wishes]
    PROVE  Count(toRobot', Onces) >= Count(toRobot, Onces)
<1> DEFINE f == Frequency(wish', status')
<1>1. /\ toRobot \in Seq(ToRobot) /\ Count(toRobot, Onces) \in Nat
      /\ toRobot' = toRobot \o Changed(f)
  BY ToComeCounts DEF RequestChanged
<1>2. f \in Wishes
  BY FrequencyIsAWish
<1>3. StopRequest \in ToRobot
  BY DEF StopRequest, ToRobot
<1>4. f # Never => Request(f) \in ToRobot /\ Once(NoClient) \in ToRobot
  BY <1>2 DEF Request, Once, ToRobot
<1> HIDE DEF f
<1>5. CASE Changed(f) = <<>>
  BY <1>1, <1>5
<1>6. CASE Changed(f) = <<StopRequest>>
  <2>1. toRobot' = Append(toRobot, StopRequest)
    BY <1>1, <1>3, <1>6
  <2>2. Count(Append(toRobot, StopRequest), Onces)
          = Count(toRobot, Onces) + IF StopRequest \in Onces THEN 1 ELSE 0
    BY <1>1, <1>3, CountAppend
  <2> QED BY <1>1, <2>1, <2>2
<1>7. CASE f # Never /\ Changed(f) = <<Request(f), Once(NoClient)>>
  <2> DEFINE q == Append(toRobot, Request(f))
  <2>1. toRobot' = Append(q, Once(NoClient)) /\ q \in Seq(ToRobot)
    BY <1>1, <1>4, <1>7
  <2>2. Count(q, Onces) = Count(toRobot, Onces) + IF Request(f) \in Onces THEN 1 ELSE 0
    BY <1>1, <1>4, <1>7, CountAppend
  <2> HIDE DEF q
  <2>3. Count(Append(q, Once(NoClient)), Onces)
          = Count(q, Onces) + IF Once(NoClient) \in Onces THEN 1 ELSE 0
    BY <1>4, <1>7, <2>1, CountAppend
  <2> QED BY <1>1, <2>1, <2>2, <2>3
<1> QED BY <1>5, <1>6, <1>7 DEF Changed

LEMMA ListLength ==
    ASSUME NEW S, NEW q \in Seq(S)
    PROVE  /\ Len(q) \in Nat /\ (q = <<>> <=> Len(q) = 0)
           /\ q # <<>> => Tail(q) \in Seq(S) /\ Len(Tail(q)) = Len(q) - 1
OBVIOUS

\* A step that only adds to what is to come, and to the list no more than that.
LEMMA AddingKeeps ==
    ASSUME VainInv, TypeOK', returnType' = returnType,
           returnType # "untilEmpty" => \A i \in DOMAIN fromRobot' : fromRobot'[i].last,
           \/ waiting' = waiting /\ ToCome' >= ToCome
           \/ /\ Len(waiting') = Len(waiting) /\ ToCome' >= ToCome
              /\ returnType = "none" => waiting' = <<>>
           \/ /\ returnType # "none" /\ ToCome' > ToCome
              /\ Len(waiting') = Len(waiting) + 1
    PROVE  VainInv'
<1>1. /\ ToCome \in Nat /\ ToCome' \in Nat
      /\ waiting \in Seq(Clients \cup {NoClient}) /\ waiting' \in Seq(Clients \cup {NoClient})
  <2>1. TypeOK
    BY DEF VainInv
  <2>2. ToCome \in Nat /\ ToCome' \in Nat
    BY <2>1, ToComeCounts, ToComeCountsNext
  <2> QED BY <2>1, <2>2 DEF TypeOK
<1>2. Len(waiting) \in Nat /\ Len(waiting') \in Nat /\ (waiting = <<>> <=> Len(waiting) = 0)
      /\ (waiting' = <<>> <=> Len(waiting') = 0)
  BY <1>1, ListLength
<1> QED BY <1>1, <1>2 DEF VainInv, NobodyWaitsInVain

LEMMA VainStep == VainInv /\ [Next]_vars => VainInv'
<1> SUFFICES ASSUME VainInv, [Next]_vars
             PROVE  VainInv'
  OBVIOUS
<1>0. TypeOK /\ TypeOK'
  BY TypeStep DEF VainInv
<1>1. /\ toRobot \in Seq(ToRobot) /\ fromRobot \in Seq(Parts)
      /\ Count(toRobot, Onces) \in Nat /\ Count(fromRobot, LastParts) \in Nat
      /\ ToCome = Count(toRobot, Onces) + Count(fromRobot, LastParts)
      /\ Count(toRobot', Onces) \in Nat /\ Count(fromRobot', LastParts) \in Nat
      /\ ToCome' = Count(toRobot', Onces) + Count(fromRobot', LastParts)
      /\ waiting \in Seq(Clients \cup {NoClient})
  BY <1>0, ToComeCounts, ToComeCountsNext DEF TypeOK
<1>2. UNCHANGED fromRobot =>
        (returnType # "untilEmpty" => \A i \in DOMAIN fromRobot' : fromRobot'[i].last)
  BY DEF VainInv
<1>3. ASSUME RequestChanged, wish' \in [Clients -> Wishes],
             UNCHANGED <<returnType, fromRobot>>,
             \/ waiting' = waiting
             \/ Len(waiting') = Len(waiting) /\ (returnType = "none" => waiting' = <<>>)
      PROVE  VainInv'
  BY <1>0, <1>1, <1>2, <1>3, ChangedAdds, AddingKeeps
<1>4. ASSUME NEW c \in Clients, NEW i \in Wishes \ {Never}, ClientRequests(c, i)
      PROVE  VainInv'
  BY <1>0, <1>3, <1>4 DEF ClientRequests, TypeOK
<1>5. ASSUME NEW c \in Clients, ClientStops(c)
      PROVE  VainInv'
  BY <1>0, <1>3, <1>5 DEF ClientStops, TypeOK, Wishes
<1>6. ASSUME NEW c \in Clients, ClientAsksOnce(c)
      PROVE  VainInv'
  <2>1. UNCHANGED <<returnType, fromRobot>> /\ toRobot' = Append(toRobot, Once(c))
    BY <1>6 DEF ClientAsksOnce
  <2>2. Once(c) \in ToRobot /\ Once(c) \in Onces
    BY DEF Once, ToRobot, Onces
  <2>3. Count(Append(toRobot, Once(c)), Onces) = Count(toRobot, Onces) + 1
    BY <1>1, <2>2, CountAppend
  <2>4. ToCome' = ToCome + 1
    BY <1>1, <2>1, <2>3
  <2>5. \/ returnType = "none" /\ waiting' = waiting
        \/ returnType # "none" /\ Len(waiting') = Len(waiting) + 1
    BY <1>1, <1>6 DEF ClientAsksOnce, Remember
  <2>6. ToCome \in Nat
    BY <1>1
  <2> QED BY <1>0, <1>2, <2>1, <2>4, <2>5, <2>6, AddingKeeps
<1>7. ASSUME UNCHANGED <<returnType, waiting, toRobot, fromRobot>>
      PROVE  VainInv'
  BY <1>0, <1>1, <1>2, <1>7, AddingKeeps
<1>8. ASSUME NEW c \in Clients, ClientEnds(c)
      PROVE  VainInv'
  BY <1>7, <1>8 DEF ClientEnds
<1>9. ASSUME NEW c \in Clients, RemoveClient(c)
      PROVE  VainInv'
  <2>1. /\ UNCHANGED <<returnType, fromRobot>> /\ wish' \in [Clients -> Wishes]
        /\ RequestChanged \/ toRobot' = toRobot
    BY <1>0, <1>9 DEF RemoveClient, TypeOK, Wishes
  <2>2. Len(waiting') = Len(waiting) /\ (waiting = <<>> => waiting' = <<>>)
    BY <1>0, <1>1, <1>9 DEF RemoveClient, Forgotten, TypeOK
  <2>3. returnType = "none" => waiting' = <<>>
    BY <2>2 DEF VainInv
  <2>4. CASE RequestChanged
    BY <1>3, <2>1, <2>2, <2>3, <2>4
  <2>5. CASE toRobot' = toRobot
    BY <1>0, <1>1, <1>2, <2>1, <2>2, <2>3, <2>5, AddingKeeps
  <2> QED BY <2>1, <2>4, <2>5
<1>10. CASE RobotReads
  <2> DEFINE p == Head(toRobot)
  <2>1. /\ toRobot # <<>> /\ p \in ToRobot /\ toRobot' = Tail(toRobot)
        /\ UNCHANGED <<returnType, waiting>>
    <3> QED BY <1>1, <1>10 DEF RobotReads
  <2>2. Count(toRobot, Onces) = Count(toRobot', Onces) + IF p \in Onces THEN 1 ELSE 0
    BY <1>1, <2>1, CountTail
  <2>3. CASE p.do = "once"
    <3>1. p.by \in Clients \cup {NoClient} /\ p \in Onces
      BY <2>1, <2>3 DEF ToRobot, Onces
    <3>2. fromRobot' = fromRobot \o Answer(p.by)
      BY <1>10, <2>3 DEF RobotReads
    <3>3. CASE returnType = "none"
      <4>1. Answer(p.by) = <<>> /\ waiting = <<>>
        BY <3>3 DEF Answer, VainInv
      <4>2. fromRobot' = fromRobot
        BY <1>1, <3>2, <4>1
      <4> QED BY <1>0, <1>2, <2>1, <3>3, <4>1, <4>2 DEF VainInv, NobodyWaitsInVain, Queued
    <3>4. CASE returnType # "none"
      <4>1. Count(fromRobot', LastParts) = Count(fromRobot, LastParts) + 1
        BY <1>0, <3>1, <3>2, <3>4, AnswerAdds
      <4>2. returnType # "untilEmpty" => \A i \in DOMAIN fromRobot' : fromRobot'[i].last
        <5> SUFFICES ASSUME returnType # "untilEmpty", NEW i \in DOMAIN fromRobot'
                     PROVE  fromRobot'[i].last
          OBVIOUS
        <5>1. Answer(p.by) = <<Part(p.by, TRUE)>>
          BY <1>0, <3>1, <3>4, AnswerAdds
        <5> DEFINE x == Part(p.by, TRUE)
        <5>2. x.last /\ \A j \in DOMAIN fromRobot : fromRobot[j].last
          BY DEF Part, VainInv
        <5> HIDE DEF x
        <5>3. fromRobot' = fromRobot \o <<x>>
          BY <3>2, <5>1 DEF x
        <5>4. \/ i \in DOMAIN fromRobot /\ fromRobot'[i] = fromRobot[i]
              \/ fromRobot'[i] = x
          BY <1>1, <5>3
        <5> QED BY <5>2, <5>4
      <4> QED BY <1>0, <1>1, <2>1, <2>2, <3>1, <4>1, <4>2, AddingKeeps
    <3> QED BY <3>3, <3>4
  <2>4. CASE p.do # "once"
    <3>1. p \notin Onces
      BY <2>4 DEF Onces
    <3>2. fromRobot' \in Unasked \/ fromRobot' = fromRobot
      BY <1>10, <2>4 DEF RobotReads
    <3>3. /\ Count(fromRobot', LastParts) >= Count(fromRobot, LastParts)
          /\ returnType # "untilEmpty" => \A i \in DOMAIN fromRobot' : fromRobot'[i].last
      BY <1>1, <1>2, <3>2, UnaskedAdds
    <3> QED BY <1>0, <1>1, <2>1, <2>2, <3>1, <3>3, AddingKeeps
  <2> QED BY <2>3, <2>4
<1>11. CASE RobotSends
  <2>1. UNCHANGED <<returnType, waiting, toRobot>> /\ fromRobot' \in Unasked
    BY <1>11 DEF RobotSends
  <2>2. /\ Count(fromRobot', LastParts) >= Count(fromRobot, LastParts)
        /\ returnType # "untilEmpty" => \A i \in DOMAIN fromRobot' : fromRobot'[i].last
    BY <2>1, UnaskedAdds
  <2> QED BY <1>0, <1>1, <2>1, <2>2, AddingKeeps
<1>12. CASE ReceiveData
  <2> DEFINE p == Head(fromRobot)
  <2>1. /\ fromRobot # <<>> /\ fromRobot' = Tail(fromRobot)
        /\ UNCHANGED <<returnType, toRobot>>
    BY <1>12 DEF ReceiveData
  <2>2. /\ Count(fromRobot, LastParts) = Count(fromRobot', LastParts)
                                         + IF p \in LastParts THEN 1 ELSE 0
        /\ p \in Parts
    <3> HIDE DEF Parts
    <3> QED BY <1>1, <2>1, CountTail
  <2>3. returnType # "untilEmpty" =>
          p.last /\ \A i \in DOMAIN fromRobot' : fromRobot'[i].last
    <3> HIDE DEF Parts
    <3>1. /\ p = fromRobot[1] /\ 1 \in DOMAIN fromRobot
          /\ \A i \in DOMAIN fromRobot' : i + 1 \in DOMAIN fromRobot
                                          /\ fromRobot'[i] = fromRobot[i + 1]
      BY <1>1, <2>1
    <3> QED BY <3>1 DEF VainInv
  <2>4. p \in LastParts <=> p.last
    BY <2>2 DEF LastParts
  <2>5. p.last \in BOOLEAN
    BY <2>2 DEF Parts
  <2>6. /\ ToCome \in Nat /\ ToCome' \in Nat
        /\ p.last => ToCome' = ToCome - 1
        /\ ~p.last => ToCome' = ToCome
    BY <1>1, <2>1, <2>2, <2>4, SMTT(30)
  <2> HIDE DEF p
  <2>7. CASE ReceiveForFirst
    <3>1. /\ returnType \in Queued /\ waiting # <<>>
          /\ waiting' = IF returnType = "single" \/ p.last THEN Tail(waiting) ELSE waiting
      BY <2>7 DEF ReceiveForFirst, p
    <3>2. Len(waiting) \in Nat /\ Len(waiting) > 0 /\ Len(Tail(waiting)) = Len(waiting) - 1
          /\ (Len(Tail(waiting)) = 0 => Tail(waiting) = <<>>)
      <4>1. Tail(waiting) \in Seq(Clients \cup {NoClient})
        BY <1>1, <3>1, ListLength
      <4> QED BY <1>1, <3>1, <4>1, ListLength, SMTT(30)
    <3>3. Len(waiting) <= ToCome
      BY <3>1 DEF VainInv, NobodyWaitsInVain
    <3>4. CASE p.last
      <4>1. waiting' = Tail(waiting) /\ ToCome' = ToCome - 1
        BY <2>6, <3>1, <3>4
      <4>2. Len(waiting') <= ToCome' /\ (ToCome' = 0 => waiting' = <<>>)
        BY <2>6, <3>2, <3>3, <4>1
      <4> QED BY <1>0, <2>1, <2>3, <3>1, <4>2 DEF VainInv, NobodyWaitsInVain, Queued
    <3>5. CASE ~p.last
      <4>1. waiting' = waiting /\ ToCome' = ToCome
        BY <2>3, <2>6, <3>1, <3>5 DEF Queued
      <4> QED BY <1>0, <2>1, <2>3, <4>1 DEF VainInv, NobodyWaitsInVain
    <3> QED BY <3>4, <3>5
  <2>8. CASE ReceiveForAll
    <3>1. waiting' = <<>> /\ returnType \notin Queued
      BY <2>8 DEF ReceiveForAll, Videos, Queued
    <3> QED BY <1>0, <2>1, <2>3, <3>1 DEF VainInv, NobodyWaitsInVain
  <2>9. CASE ReceiveForRequesters
    <3>1. waiting' = waiting /\ returnType \notin Videos
          /\ ~(returnType \in Queued /\ waiting # <<>>)
      BY <2>9 DEF ReceiveForRequesters
    <3>2. waiting' = <<>>
      BY <1>0, <3>1 DEF VainInv, TypeOK, ReturnTypes, Queued, Videos
    <3>3. Len(waiting') = 0
      BY <3>2
    <3> QED BY <1>0, <2>1, <2>3, <2>6, <3>2, <3>3 DEF VainInv, NobodyWaitsInVain
  <2> QED BY <1>12, <2>7, <2>8, <2>9 DEF ReceiveData
<1>13. CASE UNCHANGED vars
  BY <1>7, <1>13 DEF vars
<1> QED BY <1>4, <1>5, <1>6, <1>8, <1>9, <1>10, <1>11, <1>12, <1>13 DEF Next, ClientActs

\* Nobody is left in the list for whom no answer is to come (requestOnce, receiveData,
\* robotServerClientRemoved), however many ask, leave and are sent what they did not ask
\* for once.
THEOREM NobodyIsForgotten == Spec => []NobodyWaitsInVain
<1>1. Init => VainInv
  <2> SUFFICES ASSUME Init
               PROVE  VainInv
    OBVIOUS
  <2>1. TypeOK /\ waiting = <<>> /\ toRobot = <<>> /\ fromRobot = <<>>
    BY TypeInit DEF Init
  <2>2. ToCome \in Nat /\ Len(waiting) = 0
    BY <2>1, ToComeCounts
  <2> QED BY <2>1, <2>2 DEF VainInv, NobodyWaitsInVain
<1>2. VainInv => NobodyWaitsInVain
  BY DEF VainInv
<1> QED BY <1>1, <1>2, VainStep, PTL DEF Spec

----------------------------------------------------------------------------
(* Answers reach those who asked *)

\* How many packets of a kind are before the i-th.
Before(q, i, A) == Count(SubSeq(q, 1, i - 1), A)

LEMMA BeforeAppend ==
    ASSUME NEW S, NEW q \in Seq(S), NEW A, NEW x \in S, NEW i \in 1 .. Len(q) + 1
    PROVE  /\ Before(q, i, A) \in Nat /\ Before(q, Len(q) + 1, A) = Count(q, A)
           /\ Before(Append(q, x), i, A) = Before(q, i, A)
<1>1. SubSeq(q, 1, i - 1) \in Seq(S)
  OBVIOUS
<1>2. SubSeq(Append(q, x), 1, i - 1) = SubSeq(q, 1, i - 1)
  OBVIOUS
<1>3. SubSeq(q, 1, (Len(q) + 1) - 1) = q
  OBVIOUS
<1> QED BY <1>1, <1>2, <1>3, CountType DEF Before

LEMMA BeforeTail ==
    ASSUME NEW S, NEW q \in Seq(S), NEW A, q # <<>>, NEW i \in 1 .. Len(q)
    PROVE  /\ Before(Tail(q), i, A) \in Nat
           /\ Before(q, i + 1, A) = Before(Tail(q), i, A) + IF Head(q) \in A THEN 1 ELSE 0
<1> DEFINE r == SubSeq(q, 1, (i + 1) - 1)
<1>1. r \in Seq(S) /\ r # <<>> /\ Head(r) = Head(q)
  OBVIOUS
<1>2. Tail(r) = SubSeq(Tail(q), 1, i - 1) /\ Tail(r) \in Seq(S)
  <2>0. /\ Len(r) = i /\ Len(q) \in Nat /\ Len(Tail(q)) = Len(q) - 1
        /\ \A j \in 1 .. i : r[j] = q[j]
    OBVIOUS
  <2>1. /\ Tail(r) \in Seq(S) /\ Len(Tail(r)) = i - 1
        /\ \A j \in 1 .. i - 1 : Tail(r)[j] = r[j + 1]
    <3> HIDE DEF r
    <3> QED BY <1>1, <2>0
  <2>2. /\ SubSeq(Tail(q), 1, i - 1) \in Seq(S) /\ Len(SubSeq(Tail(q), 1, i - 1)) = i - 1
        /\ \A j \in 1 .. i - 1 : SubSeq(Tail(q), 1, i - 1)[j] = q[j + 1]
    BY <2>0
  <2> HIDE DEF r
  <2>3. \A j \in 1 .. i - 1 : Tail(r)[j] = q[j + 1]
    BY <2>0, <2>1
  <2> QED BY <2>1, <2>2, <2>3
<1> HIDE DEF r
<1>3. Count(r, A) = Count(Tail(r), A) + IF Head(r) \in A THEN 1 ELSE 0
  BY <1>1, CountTail
<1>4. Count(Tail(r), A) \in Nat
  BY <1>2, CountType
<1> QED BY <1>1, <1>2, <1>3, <1>4 DEF Before, r

\* The k-th of those who wait is c, or was and has gone.
Entry(w, k, c) == k \in DOMAIN w /\ w[k] \in {c, NoClient}

\* As long as the robot was not asked to send by itself, the list of those who wait is in
\* step with the answers and questions that are under way: as many as answers to come, and
\* each part of an answer, and each question, finds its asker behind those that are served
\* before.
InStep ==
    /\ robotWish = Never /\ ~crossed
    /\ \A i \in DOMAIN toRobot : toRobot[i].do # "request"
    /\ returnType \in Queued =>
         /\ Len(waiting) = Count(toRobot, Onces) + Count(fromRobot, LastParts)
         /\ \A i \in DOMAIN fromRobot :
              Entry(waiting, Before(fromRobot, i, LastParts) + 1, fromRobot[i].for)
         /\ \A i \in DOMAIN toRobot : toRobot[i].do = "once" =>
              Entry(waiting, Count(fromRobot, LastParts) + Before(toRobot, i, Onces) + 1,
                    toRobot[i].by)

AskInv == VainInv /\ (~requestedOnce => InStep)

\* A change of wishes that asks the robot for nothing: only a stop is sent.
LEMMA StopKeeps ==
    ASSUME TypeOK, InStep, RequestChanged, ~requestedOnce', wish' \in [Clients -> Wishes],
           UNCHANGED <<returnType, robotWish, fromRobot, crossed>>,
           DOMAIN waiting' = DOMAIN waiting, Len(waiting') = Len(waiting),
           \A k \in DOMAIN waiting : waiting'[k] \in {waiting[k], NoClient}
    PROVE  InStep'
<1> DEFINE f == Frequency(wish', status')
           n == Len(toRobot)
<1>1. /\ toRobot \in Seq(ToRobot) /\ toRobot' = toRobot \o Changed(f)
      /\ \A i \in DOMAIN Changed(f) : Changed(f)[i].do # "request"
  BY ToComeCounts DEF RequestChanged
<1>2. Changed(f) = <<>> \/ Changed(f) = <<StopRequest>>
  <2>1. ASSUME Changed(f) = <<Request(f), Once(NoClient)>>
        PROVE  FALSE
    <3>1. 1 \in DOMAIN Changed(f) /\ Changed(f)[1].do = "request"
      BY <2>1 DEF Request
    <3> QED BY <1>1, <3>1
  <2> QED BY <2>1 DEF Changed
<1> HIDE DEF f
<1>3. \A k, c : Entry(waiting, k, c) => Entry(waiting', k, c)
  BY DEF Entry
<1>4. CASE toRobot' = toRobot
  BY <1>3, <1>4 DEF InStep
<1>5. CASE toRobot' = Append(toRobot, StopRequest)
  <2>1. StopRequest \in ToRobot /\ StopRequest \notin Onces /\ StopRequest.do = "stop"
    BY DEF StopRequest, ToRobot, Onces
  <2>2. /\ n \in Nat /\ DOMAIN toRobot = 1 .. n /\ DOMAIN toRobot' = 1 .. n + 1
        /\ toRobot'[n + 1] = StopRequest
        /\ \A i \in 1 .. n : toRobot'[i] = toRobot[i]
    BY <1>1, <1>5
  <2>3. Count(Append(toRobot, StopRequest), Onces) = Count(toRobot, Onces)
    <3>1. Count(toRobot, Onces) \in Nat
      BY ToComeCounts
    <3> QED BY <1>1, <2>1, <3>1, CountAppend
  <2>4. \A i \in 1 .. n + 1 :
          Before(Append(toRobot, StopRequest), i, Onces) = Before(toRobot, i, Onces)
    <3>1. ASSUME NEW x \in ToRobot, NEW i \in 1 .. n + 1
          PROVE  Before(Append(toRobot, x), i, Onces) = Before(toRobot, i, Onces)
      <4>1. toRobot \in Seq(ToRobot) /\ i \in 1 .. Len(toRobot) + 1
        BY <1>1
      <4> QED BY <4>1, BeforeAppend, ZenonT(40)
    <3> QED BY <2>1, <3>1
  <2> HIDE DEF n
  <2>5. \A i \in 1 .. n : i \in 1 .. n + 1
    BY <2>2
  <2>6. /\ Count(toRobot', Onces) = Count(toRobot, Onces)
        /\ \A i \in 1 .. n : Before(toRobot', i, Onces) = Before(toRobot, i, Onces)
    BY <1>5, <2>3, <2>4, <2>5
  <2>7. \A i \in DOMAIN toRobot' : i \in 1 .. n \/ toRobot'[i] = StopRequest
    BY <2>2
  <2>8. \A i \in DOMAIN toRobot' : toRobot'[i].do # "request"
    BY <2>1, <2>2, <2>7 DEF InStep
  <2>9. ASSUME returnType \in Queued, NEW i \in DOMAIN toRobot', toRobot'[i].do = "once"
        PROVE  Entry(waiting', Count(fromRobot', LastParts) + Before(toRobot', i, Onces) + 1,
                     toRobot'[i].by)
    <3>1. i \in 1 .. n /\ toRobot'[i] = toRobot[i]
      BY <2>1, <2>2, <2>7, <2>9
    <3>2. Entry(waiting, Count(fromRobot, LastParts) + Before(toRobot, i, Onces) + 1,
                toRobot[i].by)
      BY <2>2, <2>9, <3>1 DEF InStep
    <3> QED BY <1>3, <2>6, <3>1, <3>2
  <2> QED BY <1>3, <2>6, <2>8, <2>9 DEF InStep
<1>6. toRobot \o <<>> = toRobot /\ toRobot \o <<StopRequest>> = Append(toRobot, StopRequest)
  BY <1>1
<1> QED BY <1>1, <1>2, <1>4, <1>5, <1>6

\* Who asks takes the place behind all that is under way.
LEMMA AskKeeps ==
    ASSUME TypeOK, InStep, NEW c \in Clients, ClientAsksOnce(c)
    PROVE  InStep'
<1> DEFINE n == Len(toRobot)
           x == Once(c)
<1>1. /\ toRobot \in Seq(ToRobot) /\ waiting \in Seq(Clients \cup {NoClient})
      /\ Count(toRobot, Onces) \in Nat /\ Count(fromRobot, LastParts) \in Nat
  <2>1. waiting \in Seq(Clients \cup {NoClient})
    BY DEF TypeOK
  <2> QED BY <2>1, ToComeCounts
<1>2. /\ UNCHANGED <<returnType, robotWish, fromRobot, crossed>>
      /\ toRobot' = Append(toRobot, x) /\ waiting' = Remember(c)
  BY DEF ClientAsksOnce, history
<1>3. x \in ToRobot /\ x \in Onces /\ x.do = "once" /\ x.by = c
  BY DEF Once, ToRobot, Onces
<1> HIDE DEF x
<1>4. /\ n \in Nat /\ DOMAIN toRobot = 1 .. n /\ DOMAIN toRobot' = 1 .. n + 1
      /\ toRobot'[n + 1] = x /\ \A i \in 1 .. n : toRobot'[i] = toRobot[i]
  BY <1>1, <1>2
<1>5. Count(toRobot', Onces) = Count(toRobot, Onces) + 1
  BY <1>1, <1>2, <1>3, CountAppend
<1>6. /\ \A i \in 1 .. n : Before(toRobot', i, Onces) = Before(toRobot, i, Onces)
      /\ Before(toRobot', n + 1, Onces) = Count(toRobot, Onces)
  <2>1. \A i \in 1 .. n + 1 : Before(toRobot', i, Onces) = Before(toRobot, i, Onces)
    BY <1>1, <1>2, <1>3, BeforeAppend
  <2>2. Before(toRobot, n + 1, Onces) = Count(toRobot, Onces)
    BY <1>1, <1>3, <1>4, BeforeAppend
  <2> QED BY <1>4, <2>1, <2>2
<1> HIDE DEF n
<1>7. ASSUME returnType \in Queued
      PROVE  /\ Len(waiting') = Len(waiting) + 1 /\ Entry(waiting', Len(waiting) + 1, c)
             /\ \A k, d : Entry(waiting, k, d) => Entry(waiting', k, d)
  <2>1. waiting' = Append(waiting, c) /\ c \in Clients \cup {NoClient}
    BY <1>2, <1>7 DEF Remember, Queued
  <2> QED BY <1>1, <2>1 DEF Entry
<1>8. ASSUME returnType \in Queued
      PROVE  /\ Len(waiting') = Count(toRobot', Onces) + Count(fromRobot', LastParts)
             /\ \A i \in DOMAIN fromRobot' :
                  Entry(waiting', Before(fromRobot', i, LastParts) + 1, fromRobot'[i].for)
             /\ \A i \in DOMAIN toRobot' : toRobot'[i].do = "once" =>
                  Entry(waiting', Count(fromRobot', LastParts) + Before(toRobot', i, Onces) + 1,
                        toRobot'[i].by)
  <2>1. Len(waiting) = Count(toRobot, Onces) + Count(fromRobot, LastParts)
    BY <1>8 DEF InStep
  <2>2. Len(waiting') = Count(toRobot', Onces) + Count(fromRobot', LastParts)
    BY <1>1, <1>2, <1>5, <1>7, <1>8, <2>1
  <2>3. \A i \in DOMAIN fromRobot' :
          Entry(waiting', Before(fromRobot', i, LastParts) + 1, fromRobot'[i].for)
    BY <1>2, <1>7, <1>8 DEF InStep
  <2>4. ASSUME NEW i \in 1 .. n, toRobot'[i].do = "once"
        PROVE  Entry(waiting', Count(fromRobot', LastParts) + Before(toRobot', i, Onces) + 1,
                     toRobot'[i].by)
    BY <1>2, <1>4, <1>6, <1>7, <1>8, <2>4 DEF InStep
  <2>5. Entry(waiting', Count(fromRobot', LastParts) + Before(toRobot', n + 1, Onces) + 1,
              toRobot'[n + 1].by)
    <3>1. Count(fromRobot', LastParts) + Before(toRobot', n + 1, Onces) + 1 = Len(waiting) + 1
      BY <1>1, <1>2, <1>6, <2>1
    <3> QED BY <1>3, <1>4, <1>7, <1>8, <3>1
  <2> QED BY <1>4, <2>2, <2>3, <2>4, <2>5
<1>9. \A i \in DOMAIN toRobot' : toRobot'[i].do # "request"
  BY <1>3, <1>4 DEF InStep
<1> QED BY <1>2, <1>8, <1>9 DEF InStep

\* The robot answers the first question; its parts are for the asker that comes next.
LEMMA ReadKeeps ==
    ASSUME VainInv, TypeOK', InStep, RobotReads
    PROVE  InStep'
<1> DEFINE p == Head(toRobot)
           n == Len(toRobot)
           N == Count(fromRobot, LastParts)
<1>1. /\ toRobot \in Seq(ToRobot) /\ toRobot # <<>> /\ toRobot' = Tail(toRobot)
      /\ fromRobot \in Seq(Parts) /\ N \in Nat
      /\ Count(toRobot, Onces) \in Nat /\ Count(toRobot', Onces) \in Nat
      /\ UNCHANGED <<returnType, waiting, crossed>>
  BY ToComeCounts, ToComeCountsNext DEF RobotReads, VainInv, history
<1>2. /\ n \in Nat /\ n > 0 /\ DOMAIN toRobot = 1 .. n /\ DOMAIN toRobot' = 1 .. n - 1
      /\ \A i \in 1 .. n - 1 : i + 1 \in 1 .. n /\ toRobot'[i] = toRobot[i + 1]
      /\ p = toRobot[1] /\ 1 \in DOMAIN toRobot /\ p \in ToRobot
  BY <1>1
<1>3. /\ Count(toRobot, Onces) = Count(toRobot', Onces) + IF p \in Onces THEN 1 ELSE 0
      /\ \A i \in 1 .. n - 1 :
           /\ Before(toRobot', i, Onces) \in Nat
           /\ Before(toRobot, i + 1, Onces)
                = Before(toRobot', i, Onces) + IF p \in Onces THEN 1 ELSE 0
  <2>1. Count(toRobot, Onces) = Count(Tail(toRobot), Onces) + IF p \in Onces THEN 1 ELSE 0
    BY <1>1, CountTail
  <2>2. ASSUME NEW i \in 1 .. n - 1
        PROVE  /\ Before(Tail(toRobot), i, Onces) \in Nat
               /\ Before(toRobot, i + 1, Onces)
                    = Before(Tail(toRobot), i, Onces) + IF p \in Onces THEN 1 ELSE 0
    <3>1. i \in 1 .. Len(toRobot)
      BY <1>2
    <3> QED BY <1>1, <3>1, BeforeTail
  <2> QED BY <1>1, <2>1, <2>2
<1> HIDE DEF p, n
<1>4. p.do # "request" /\ \A i \in DOMAIN toRobot' : toRobot'[i].do # "request"
  BY <1>2 DEF InStep
<1>5. CASE p.do = "once"
  <2> DEFINE c == p.by
  <2>1. c \in Clients \cup {NoClient} /\ p \in Onces
    BY <1>2, <1>5 DEF ToRobot, Onces
  <2>2. fromRobot' = fromRobot \o Answer(c) /\ robotWish' = robotWish
    BY <1>5 DEF RobotReads, p
  <2>3. ASSUME returnType \in Queued
        PROVE  /\ Count(fromRobot', LastParts) = N + 1
               /\ \A i \in DOMAIN fromRobot' :
                    \/ /\ i \in DOMAIN fromRobot /\ fromRobot'[i] = fromRobot[i]
                       /\ Before(fromRobot', i, LastParts) = Before(fromRobot, i, LastParts)
                    \/ fromRobot'[i].for = c /\ Before(fromRobot', i, LastParts) = N
    <3> DEFINE more == Part(c, FALSE)
               end == Part(c, TRUE)
               m == Len(fromRobot)
    <3>1. /\ more \in Parts /\ end \in Parts /\ more \notin LastParts
          /\ more.for = c /\ end.for = c
      BY <2>1 DEF Part, Parts, LastParts
    <3>2. Count(fromRobot', LastParts) = N + 1
      BY <2>1, <2>2, <2>3, AnswerAdds DEF VainInv, Queued
    <3>3. m \in Nat /\ DOMAIN fromRobot = 1 .. m
      BY <1>1
    <3>4. \A x \in Parts :
            /\ Append(fromRobot, x) \in Seq(Parts) /\ DOMAIN Append(fromRobot, x) = 1 .. m + 1
            /\ Append(fromRobot, x)[m + 1] = x
            /\ \A i \in 1 .. m : Append(fromRobot, x)[i] = fromRobot[i]
      BY <1>1
    <3>5. ASSUME NEW x \in Parts
          PROVE  /\ \A i \in 1 .. m : Before(Append(fromRobot, x), i, LastParts)
                                        = Before(fromRobot, i, LastParts)
                 /\ Before(Append(fromRobot, x), m + 1, LastParts) = N
      <4>1. ASSUME NEW i \in 1 .. m + 1
            PROVE  /\ Before(Append(fromRobot, x), i, LastParts)
                        = Before(fromRobot, i, LastParts)
                   /\ Before(fromRobot, m + 1, LastParts) = N
        BY <1>1, BeforeAppend
      <4>2. m + 1 \in 1 .. m + 1 /\ \A i \in 1 .. m : i \in 1 .. m + 1
        BY <3>3
      <4> HIDE DEF m, N
      <4> QED BY <4>1, <4>2
    <3>6. CASE returnType = "single"
      <4>1. fromRobot' = fromRobot \o <<end>>
        BY <2>2, <3>6 DEF Answer
      <4> HIDE DEF more, end
      <4>2. fromRobot' = Append(fromRobot, end)
        BY <1>1, <3>1, <4>1
      <4> HIDE DEF m, N
      <4>3. \A i \in DOMAIN fromRobot' : i \in 1 .. m \/ i = m + 1
        BY <3>1, <3>3, <3>4, <4>2
      <4> QED BY <3>1, <3>2, <3>3, <3>4, <3>5, <4>2, <4>3
    <3>7. CASE returnType = "untilEmpty"
      <4> DEFINE q == Append(fromRobot, more)
      <4>1. fromRobot' = fromRobot \o <<more, end>>
        BY <2>2, <3>7 DEF Answer
      <4> HIDE DEF more, end
      <4>2. /\ fromRobot' = Append(q, end) /\ q \in Seq(Parts) /\ Len(q) = m + 1
            /\ DOMAIN Append(q, end) = 1 .. m + 2 /\ Append(q, end)[m + 2] = end
            /\ \A i \in 1 .. m + 1 : Append(q, end)[i] = q[i]
        BY <1>1, <3>1, <4>1
      <4>3. /\ Count(q, LastParts) = N
            /\ \A i \in 1 .. m : Before(q, i, LastParts) = Before(fromRobot, i, LastParts)
            /\ Before(q, m + 1, LastParts) = N
        BY <1>1, <3>1, <3>5, CountAppend
      <4>4. \A i \in 1 .. m : q[i] = fromRobot[i]
        BY <3>1, <3>4
      <4>5. q[m + 1] = more
        BY <3>1, <3>4
      <4> HIDE DEF q
      <4>6. ASSUME NEW i \in 1 .. m + 2
            PROVE  /\ Before(Append(q, end), i, LastParts) = Before(q, i, LastParts)
                   /\ Before(q, m + 2, LastParts) = Count(q, LastParts)
        <5>1. i \in 1 .. Len(q) + 1 /\ Len(q) + 1 = m + 2
          BY <3>3, <4>2
        <5> QED BY <3>1, <4>2, <5>1, BeforeAppend
      <4> HIDE DEF m, N
      <4>7. /\ m + 2 \in 1 .. m + 2 /\ m + 1 \in 1 .. m + 2 /\ m + 1 \in 1 .. m + 1
            /\ \A i \in 1 .. m : i \in 1 .. m + 2 /\ i \in 1 .. m + 1
            /\ \A i \in 1 .. m + 2 : i \in 1 .. m \/ i = m + 1 \/ i = m + 2
        BY <3>3
      <4>8. \A i \in 1 .. m :
              /\ fromRobot'[i] = fromRobot[i]
              /\ Before(fromRobot', i, LastParts) = Before(fromRobot, i, LastParts)
        BY <4>2, <4>3, <4>4, <4>6, <4>7
      <4>9. /\ fromRobot'[m + 1].for = c /\ Before(fromRobot', m + 1, LastParts) = N
            /\ fromRobot'[m + 2].for = c /\ Before(fromRobot', m + 2, LastParts) = N
        BY <3>1, <4>2, <4>3, <4>5, <4>6, <4>7
      <4> QED BY <3>2, <3>3, <4>2, <4>7, <4>8, <4>9
    <3> QED BY <2>3, <3>6, <3>7 DEF Queued
  <2> HIDE DEF c
  <2>4. ASSUME returnType \in Queued
        PROVE  /\ Len(waiting) = Count(toRobot, Onces) + N
               /\ Entry(waiting, N + 1, c)
               /\ \A i \in 1 .. n - 1 : toRobot'[i].do = "once" =>
                    Entry(waiting, N + 1 + Before(toRobot', i, Onces) + 1, toRobot'[i].by)
    <3>1. Len(waiting) = Count(toRobot, Onces) + N
      BY <2>4 DEF InStep
    <3>2. \A i \in 1 .. n : toRobot[i].do = "once" =>
            Entry(waiting, N + Before(toRobot, i, Onces) + 1, toRobot[i].by)
      BY <1>2, <2>4 DEF InStep
    <3>3. Before(toRobot, 1, Onces) = 0
      <4>1. SubSeq(toRobot, 1, 1 - 1) = <<>>
        BY <1>1
      <4>2. <<>> \in Seq(ToRobot) /\ DOMAIN <<>> = {}
        OBVIOUS
      <4> QED BY <4>1, <4>2, CountType DEF Before
    <3>4. Entry(waiting, N + 1, c)
      <4>1. N + Before(toRobot, 1, Onces) + 1 = N + 1
        BY <1>1, <3>3
      <4> QED BY <1>2, <1>5, <3>2, <4>1 DEF c
    <3>5. ASSUME NEW i \in 1 .. n - 1, toRobot'[i].do = "once"
          PROVE  Entry(waiting, N + 1 + Before(toRobot', i, Onces) + 1, toRobot'[i].by)
      <4>1. N + Before(toRobot, i + 1, Onces) + 1 = N + 1 + Before(toRobot', i, Onces) + 1
        BY <1>1, <1>3, <2>1
      <4> HIDE DEF N
      <4> QED BY <1>2, <3>2, <3>5, <4>1
    <3> QED BY <3>1, <3>4, <3>5
  <2>5. ASSUME returnType \in Queued
        PROVE  /\ Len(waiting') = Count(toRobot', Onces) + Count(fromRobot', LastParts)
               /\ \A i \in DOMAIN fromRobot' :
                    Entry(waiting', Before(fromRobot', i, LastParts) + 1, fromRobot'[i].for)
               /\ \A i \in DOMAIN toRobot' : toRobot'[i].do = "once" =>
                    Entry(waiting', Count(fromRobot', LastParts) + Before(toRobot', i, Onces) + 1,
                          toRobot'[i].by)
    <3>1. Len(waiting') = Count(toRobot', Onces) + Count(fromRobot', LastParts)
      BY <1>1, <1>3, <2>1, <2>3, <2>4, <2>5
    <3> HIDE DEF N
    <3>2. \A i \in DOMAIN fromRobot' :
            Entry(waiting', Before(fromRobot', i, LastParts) + 1, fromRobot'[i].for)
      BY <1>1, <2>3, <2>4, <2>5 DEF InStep
    <3>3. \A i \in DOMAIN toRobot' : toRobot'[i].do = "once" =>
            Entry(waiting', Count(fromRobot', LastParts) + Before(toRobot', i, Onces) + 1,
                  toRobot'[i].by)
      BY <1>1, <1>2, <2>3, <2>4, <2>5
    <3> QED BY <3>1, <3>2, <3>3
  <2> QED BY <1>1, <1>4, <2>2, <2>5 DEF InStep
<1>6. CASE p.do = "stop"
  <2>1. p \notin Onces
    BY <1>6 DEF Onces
  <2>2. robotWish' = Never /\ UNCHANGED fromRobot
    BY <1>6 DEF RobotReads, p
  <2>3. /\ Count(toRobot', Onces) = Count(toRobot, Onces)
        /\ \A i \in 1 .. n - 1 :
             Before(toRobot, i + 1, Onces) = Before(toRobot', i, Onces)
    BY <1>1, <1>3, <2>1
  <2> HIDE DEF N
  <2> QED BY <1>1, <1>2, <1>4, <2>2, <2>3 DEF InStep
<1>7. p.do \in {"once", "stop", "request"}
  BY <1>2 DEF ToRobot
<1> QED BY <1>4, <1>5, <1>6, <1>7

\* A part of an answer goes to the first who waits, and with the last part he leaves.
LEMMA ReceiveKeeps ==
    ASSUME VainInv, TypeOK', InStep, ReceiveData
    PROVE  InStep'
<1> DEFINE p == Head(fromRobot)
           n == Len(fromRobot)
           N == Count(fromRobot', LastParts)
           last == IF p \in LastParts THEN 1 ELSE 0
<1>1. /\ fromRobot \in Seq(Parts) /\ fromRobot # <<>> /\ fromRobot' = Tail(fromRobot)
      /\ toRobot \in Seq(ToRobot) /\ UNCHANGED <<returnType, toRobot, robotWish>>
      /\ N \in Nat /\ Count(fromRobot, LastParts) \in Nat /\ Count(toRobot, Onces) \in Nat
  BY ToComeCounts, ToComeCountsNext DEF ReceiveData, VainInv
<1>2. waiting \in Seq(Clients \cup {NoClient})
  BY DEF VainInv, TypeOK
<1>3. /\ n \in Nat /\ n > 0 /\ DOMAIN fromRobot = 1 .. n /\ DOMAIN fromRobot' = 1 .. n - 1
      /\ \A i \in 1 .. n - 1 : i + 1 \in 1 .. n /\ fromRobot'[i] = fromRobot[i + 1]
      /\ p = fromRobot[1] /\ 1 \in DOMAIN fromRobot /\ p \in Parts
  BY <1>1
<1>4. /\ Count(fromRobot, LastParts) = N + last
      /\ \A i \in 1 .. n - 1 :
           /\ Before(fromRobot', i, LastParts) \in Nat
           /\ Before(fromRobot, i + 1, LastParts) = Before(fromRobot', i, LastParts) + last
  <2>1. Count(fromRobot, LastParts) = Count(Tail(fromRobot), LastParts) + last
    BY <1>1, CountTail
  <2>2. ASSUME NEW i \in 1 .. n - 1
        PROVE  /\ Before(Tail(fromRobot), i, LastParts) \in Nat
               /\ Before(fromRobot, i + 1, LastParts)
                    = Before(Tail(fromRobot), i, LastParts) + last
    <3>1. i \in 1 .. Len(fromRobot)
      BY <1>3
    <3> QED BY <1>1, <3>1, BeforeTail
  <2> QED BY <1>1, <2>1, <2>2
<1>5. p \in LastParts <=> p.last
  BY <1>3 DEF LastParts
<1>6. \A i \in 1 .. Len(toRobot) : Before(toRobot, i, Onces) \in Nat
  <2>1. ASSUME NEW i \in 1 .. Len(toRobot)
        PROVE  Before(toRobot, i, Onces) \in Nat
    <3>1. SubSeq(toRobot, 1, i - 1) \in Seq(ToRobot)
      BY <1>1
    <3> QED BY <3>1, CountType DEF Before
  <2> QED BY <2>1
<1> HIDE DEF n, last
<1>7. CASE returnType \notin Queued
  <2>1. crossed' = crossed
    BY <1>7 DEF ReceiveData, ReceiveForFirst, ReceiveForAll, ReceiveForRequesters
  <2> QED BY <1>1, <1>7, <2>1 DEF InStep
<1>8. CASE returnType \in Queued
  <2>1. /\ Len(waiting) = Count(toRobot, Onces) + Count(fromRobot, LastParts)
        /\ \A i \in 1 .. n : Entry(waiting, Before(fromRobot, i, LastParts) + 1, fromRobot[i].for)
        /\ \A i \in 1 .. Len(toRobot) : toRobot[i].do = "once" =>
             Entry(waiting, Count(fromRobot, LastParts) + Before(toRobot, i, Onces) + 1,
                   toRobot[i].by)
    <3>1. DOMAIN toRobot = 1 .. Len(toRobot)
      BY <1>1
    <3>2. DOMAIN fromRobot = 1 .. n
      BY <1>3
    <3> HIDE DEF N
    <3> QED BY <1>8, <3>1, <3>2 DEF InStep
  <2>2. Before(fromRobot, 1, LastParts) = 0
    <3>1. SubSeq(fromRobot, 1, 1 - 1) = <<>>
      BY <1>1
    <3>2. <<>> \in Seq(Parts) /\ DOMAIN <<>> = {}
      OBVIOUS
    <3> QED BY <3>1, <3>2, CountType DEF Before
  <2>3. Entry(waiting, 1, p.for)
    <3>1. Before(fromRobot, 1, LastParts) + 1 = 1
      BY <2>2
    <3> QED BY <1>3, <2>1, <3>1
  <2>4. waiting # <<>> /\ Head(waiting) \in {p.for, NoClient}
    BY <1>2, <2>3 DEF Entry
  <2>5. ReceiveForFirst
    BY <1>8, <2>4 DEF ReceiveData, ReceiveForAll, ReceiveForRequesters, Videos, Queued
  <2>6. crossed' = FALSE
    <3>1. \A c \in {Head(waiting)} \ {NoClient} : p.for = c
      BY <2>4
    <3>2. crossed' = (crossed \/ \E c \in {Head(waiting)} \ {NoClient} : p.for # c)
      BY <2>5 DEF ReceiveForFirst, Deliver, p
    <3>3. ~crossed
      BY DEF InStep
    <3> QED BY <3>1, <3>2, <3>3
  <2>7. waiting' = IF p.last THEN Tail(waiting) ELSE waiting
    <3>1. returnType = "single" => p.last
      BY <1>3 DEF VainInv
    <3>2. waiting' = IF returnType = "single" \/ p.last THEN Tail(waiting) ELSE waiting
      BY <2>5 DEF ReceiveForFirst, p
    <3> QED BY <3>1, <3>2
  <2>8. /\ Len(waiting') = Len(waiting) - last
        /\ \A k \in Nat : \A c : Entry(waiting, k + last + 1, c) => Entry(waiting', k + 1, c)
    <3>1. CASE p.last
      <4>1. waiting' = Tail(waiting) /\ last = 1
        BY <1>5, <2>7, <3>1 DEF last
      <4>2. /\ Len(waiting) \in Nat /\ DOMAIN waiting = 1 .. Len(waiting)
            /\ Len(Tail(waiting)) = Len(waiting) - 1
            /\ DOMAIN Tail(waiting) = 1 .. Len(waiting) - 1
            /\ \A k \in 1 .. Len(waiting) - 1 : Tail(waiting)[k] = waiting[k + 1]
        BY <1>2, <2>4
      <4>3. \A k \in Nat : k + 1 + 1 \in 1 .. Len(waiting) => k + 1 \in 1 .. Len(waiting) - 1
        BY <4>2
      <4> QED BY <4>1, <4>2, <4>3 DEF Entry
    <3>2. CASE ~p.last
      <4>1. waiting' = waiting /\ last = 0
        BY <1>5, <2>7, <3>2 DEF last
      <4> QED BY <1>2, <4>1 DEF Entry
    <3> QED BY <3>1, <3>2
  <2>9. last \in {0, 1}
    BY DEF last
  <2> HIDE DEF N, p
  <2>10. Len(waiting') = Count(toRobot, Onces) + N
    BY <1>1, <1>4, <2>1, <2>8, <2>9
  <2>11. ASSUME NEW i \in 1 .. n - 1
         PROVE  Entry(waiting', Before(fromRobot', i, LastParts) + 1, fromRobot'[i].for)
    <3>1. Entry(waiting, Before(fromRobot', i, LastParts) + last + 1, fromRobot'[i].for)
      BY <1>3, <1>4, <2>1
    <3> QED BY <1>4, <2>8, <3>1
  <2>12. ASSUME NEW i \in 1 .. Len(toRobot), toRobot[i].do = "once"
         PROVE  Entry(waiting', N + Before(toRobot, i, Onces) + 1, toRobot[i].by)
    <3>1. /\ Count(fromRobot, LastParts) + Before(toRobot, i, Onces) + 1
               = (N + Before(toRobot, i, Onces)) + last + 1
          /\ N + Before(toRobot, i, Onces) \in Nat
      BY <1>1, <1>4, <1>6, <2>9, SMTT(30)
    <3>2. Entry(waiting, (N + Before(toRobot, i, Onces)) + last + 1, toRobot[i].by)
      BY <2>1, <2>12, <3>1
    <3> QED BY <2>8, <3>1, <3>2
  <2>13. DOMAIN toRobot = 1 .. Len(toRobot)
    BY <1>1
  <2> QED BY <1>1, <1>3, <2>6, <2>10, <2>11, <2>12, <2>13 DEF InStep, N
<1> QED BY <1>7, <1>8

LEMMA AskStep == AskInv /\ [Next]_vars => AskInv'
<1> SUFFICES ASSUME VainInv, InStep, ~requestedOnce', [Next]_vars, TypeOK', ~requestedOnce
             PROVE  InStep'
  <2>1. VainInv /\ [Next]_vars => VainInv' /\ TypeOK'
    BY VainStep DEF VainInv
  <2>2. ASSUME VainInv, [Next]_vars, requestedOnce
        PROVE  requestedOnce'
    BY <2>2 DEF VainInv, TypeOK, Next, ClientActs, ClientRequests, ClientStops, RequestChanged,
       ClientAsksOnce, ClientEnds, RemoveClient, RobotReads, RobotSends, ReceiveData, vars,
       history
  <2> QED BY <2>1, <2>2 DEF AskInv
<1>1. /\ TypeOK /\ wish \in [Clients -> Wishes]
      /\ waiting \in Seq(Clients \cup {NoClient})
  BY DEF VainInv, TypeOK
<1>2. ASSUME NEW c \in Clients, NEW i \in Wishes \ {Never}, ClientRequests(c, i)
      PROVE  InStep'
  <2>1. wish' \in [Clients -> Wishes]
    BY <1>1, <1>2 DEF ClientRequests
  <2> QED BY <1>1, <1>2, <2>1, StopKeeps DEF ClientRequests
<1>3. ASSUME NEW c \in Clients, ClientStops(c)
      PROVE  InStep'
  <2>1. wish' \in [Clients -> Wishes]
    BY <1>1, <1>3 DEF ClientStops, Wishes
  <2> QED BY <1>1, <1>3, <2>1, StopKeeps DEF ClientStops
<1>4. ASSUME NEW c \in Clients, ClientAsksOnce(c)
      PROVE  InStep'
  BY <1>1, <1>4, AskKeeps
<1>5. ASSUME UNCHANGED <<returnType, robotWish, crossed, toRobot, fromRobot>>,
             DOMAIN waiting' = DOMAIN waiting, Len(waiting') = Len(waiting),
             \A k \in DOMAIN waiting : waiting'[k] \in {waiting[k], NoClient}
      PROVE  InStep'
  <2>1. \A k, c : Entry(waiting, k, c) => Entry(waiting', k, c)
    BY <1>5 DEF Entry
  <2> QED BY <1>5, <2>1 DEF InStep
<1>6. ASSUME NEW c \in Clients, ClientEnds(c)
      PROVE  InStep'
  BY <1>5, <1>6 DEF ClientEnds, history
<1>7. ASSUME NEW c \in Clients, RemoveClient(c)
      PROVE  InStep'
  <2>1. /\ DOMAIN waiting' = DOMAIN waiting /\ Len(waiting') = Len(waiting)
        /\ \A k \in DOMAIN waiting : waiting'[k] \in {waiting[k], NoClient}
    BY <1>1, <1>7 DEF RemoveClient, Forgotten
  <2>2. /\ UNCHANGED <<returnType, robotWish, fromRobot, crossed>>
        /\ wish' \in [Clients -> Wishes]
        /\ RequestChanged \/ toRobot' = toRobot
    BY <1>1, <1>7 DEF RemoveClient, Wishes
  <2> QED BY <1>1, <1>5, <2>1, <2>2, StopKeeps
<1>8. CASE RobotReads
  BY <1>8, ReadKeeps
<1>9. CASE RobotSends
  BY <1>9 DEF RobotSends, InStep
<1>10. CASE ReceiveData
  BY <1>10, ReceiveKeeps
<1>11. CASE UNCHANGED vars
  BY <1>5, <1>11 DEF vars
<1> QED BY <1>2, <1>3, <1>4, <1>6, <1>7, <1>8, <1>9, <1>10, <1>11 DEF Next, ClientActs

\* As long as the robot was never asked to send by itself, a client receives the answers
\* it asked for and no other's (receiveData, requestOnce, robotServerClientRemoved): for
\* any number of clients, whoever leaves with answers still to come.
THEOREM AnswersFindTheirAskers == Spec => []AnswersReachAskers
<1>1. Init => AskInv
  <2> SUFFICES ASSUME Init
               PROVE  VainInv /\ InStep
    BY DEF AskInv
  <2>1. /\ TypeOK /\ waiting = <<>> /\ toRobot = <<>> /\ fromRobot = <<>>
        /\ robotWish = Never /\ ~crossed
    BY TypeInit DEF Init
  <2>2. ToCome \in Nat /\ Len(waiting) = 0
    BY <2>1, ToComeCounts
  <2>3. VainInv
    BY <2>1, <2>2 DEF VainInv, NobodyWaitsInVain
  <2>4. Count(toRobot, Onces) = 0 /\ Count(fromRobot, LastParts) = 0
    <3>1. toRobot \in Seq(ToRobot) /\ fromRobot \in Seq(Parts)
      BY <2>1, ToComeCounts
    <3>2. DOMAIN toRobot = {} /\ DOMAIN fromRobot = {}
      BY <2>1
    <3> QED BY <3>1, <3>2, CountType
  <2> QED BY <2>1, <2>2, <2>3, <2>4 DEF InStep
<1>2. AskInv => AnswersReachAskers
  BY DEF AskInv, InStep, AnswersReachAskers
<1> QED BY <1>1, <1>2, AskStep, PTL DEF Spec
=============================================================================
