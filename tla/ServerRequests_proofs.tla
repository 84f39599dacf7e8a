------------------------- MODULE ServerRequests_proofs -------------------------
(***************************************************************************)
(* Machine-checked proofs about ServerRequests, for any number of clients    *)
(* and modes and any number of packets: no command is requested twice, every *)
(* answer carries the name of its command, broadcasts reach living clients   *)
(* only, and those who requested the mode know it.                          *)
(***************************************************************************)
EXTENDS ServerRequests, SequenceTheorems, WellFoundedInduction, TLAPS

Entries == [command: Commands, interval: Intervals, due: BOOLEAN]
InFunctor == {"functor", "found", "send"}

----------------------------------------------------------------------------
(* Lists of requests *)

\* No command is in the list twice.
Distinct(s) == \A i, j \in DOMAIN s : s[i].command = s[j].command => i = j

CommandsOf(s) == {s[i].command : i \in DOMAIN s}

\* A command that is not in the list is put in front.
LEMMA InFront ==
    ASSUME NEW s \in Seq(Entries), Distinct(s), NEW k \in Commands, NEW v \in Intervals,
           k \notin CommandsOf(s)
    PROVE  LET t == <<Entry(k, v)>> \o s
           IN t \in Seq(Entries) /\ Distinct(t) /\ CommandsOf(t) = CommandsOf(s) \cup {k}
<1> DEFINE e == Entry(k, v)
           t == <<e>> \o s
<1>1. e \in Entries /\ e.command = k
  BY DEF Entry, Entries
<1>2. <<e>> \in Seq(Entries) /\ Len(<<e>>) = 1 /\ <<e>>[1] = e
  BY <1>1
<1> HIDE DEF e
<1>3. /\ t \in Seq(Entries) /\ Len(t) = Len(s) + 1 /\ t[1] = e
      /\ \A i \in 2 .. Len(s) + 1 : t[i] = s[i - 1]
  BY <1>2, ConcatProperties
<1> HIDE DEF t
<1>4. DOMAIN t = 1 .. Len(s) + 1 /\ DOMAIN s = 1 .. Len(s) /\ Len(s) \in Nat
  BY <1>3
<1>5. \A i \in DOMAIN s : i + 1 \in DOMAIN t /\ t[i + 1] = s[i]
  BY <1>3, <1>4
<1>6. \A i \in DOMAIN t : i = 1 \/ (i - 1 \in DOMAIN s /\ t[i] = s[i - 1])
  BY <1>3, <1>4
<1>7. CommandsOf(t) = CommandsOf(s) \cup {k}
  <2>1. \A x \in CommandsOf(t) : x \in CommandsOf(s) \cup {k}
    BY <1>1, <1>3, <1>6 DEF CommandsOf
  <2>2. \A x \in CommandsOf(s) : x \in CommandsOf(t)
    BY <1>5 DEF CommandsOf
  <2>3. k \in CommandsOf(t)
    <3>1. 1 \in DOMAIN t /\ t[1].command = k
      BY <1>1, <1>3, <1>4
    <3> QED BY <3>1 DEF CommandsOf
  <2> QED BY <2>1, <2>2, <2>3
<1>8. Distinct(t)
  <2>1. ASSUME NEW i \in DOMAIN t, NEW j \in DOMAIN t, t[i].command = t[j].command
        PROVE  i = j
    <3>1. \A n \in DOMAIN s : s[n].command # k
      BY DEF CommandsOf
    <3>2. CASE i = 1
      BY <1>1, <1>3, <1>6, <2>1, <3>1, <3>2
    <3>3. CASE j = 1
      BY <1>1, <1>3, <1>6, <2>1, <3>1, <3>3
    <3>4. CASE i # 1 /\ j # 1
      <4>1. i - 1 = j - 1
        BY <1>6, <2>1, <3>4 DEF Distinct
      <4> QED BY <1>4, <4>1
    <3> QED BY <3>2, <3>3, <3>4
  <2> QED BY <2>1 DEF Distinct
<1> QED BY <1>3, <1>7, <1>8 DEF t, e

\* An entry of the list changes, its command does not.
LEMMA Revised ==
    ASSUME NEW s \in Seq(Entries), Distinct(s), NEW n, NEW e \in Entries,
           n \in DOMAIN s => e.command = s[n].command
    PROVE  LET t == [s EXCEPT ![n] = e]
           IN t \in Seq(Entries) /\ Distinct(t) /\ CommandsOf(t) = CommandsOf(s)
<1> DEFINE t == [s EXCEPT ![n] = e]
<1>1. DOMAIN t = DOMAIN s /\ \A i \in DOMAIN s : t[i].command = s[i].command
  OBVIOUS
<1>2. t \in Seq(Entries)
  <2>1. t = [i \in 1 .. Len(s) |-> IF i = n THEN e ELSE s[i]]
    OBVIOUS
  <2>2. \A i \in 1 .. Len(s) : (IF i = n THEN e ELSE s[i]) \in Entries
    OBVIOUS
  <2>3. Len(s) \in Nat
    OBVIOUS
  <2> HIDE DEF t
  <2> QED BY <2>1, <2>2, <2>3
<1> HIDE DEF t
<1>3. Distinct(t) /\ CommandsOf(t) = CommandsOf(s)
  BY <1>1 DEF Distinct, CommandsOf
<1> QED BY <1>2, <1>3 DEF t

\* An entry is taken out.
LEMMA TakenOut ==
    ASSUME NEW s \in Seq(Entries), Distinct(s), NEW n \in DOMAIN s
    PROVE  LET t == RemoveAt(s, n)
           IN t \in Seq(Entries) /\ Distinct(t) /\ CommandsOf(t) \subseteq CommandsOf(s)
<1> DEFINE p == SubSeq(s, 1, n - 1)
           q == SubSeq(s, n + 1, Len(s))
           t == p \o q
           from == [i \in DOMAIN t |-> IF i < n THEN i ELSE i + 1]
<1>1. n \in 1 .. Len(s) /\ Len(s) \in Nat /\ DOMAIN s = 1 .. Len(s)
  OBVIOUS
<1>2. /\ p \in Seq(Entries) /\ Len(p) = n - 1 /\ \A i \in 1 .. n - 1 : p[i] = s[i]
  BY <1>1
<1>3. /\ q \in Seq(Entries) /\ Len(q) = Len(s) - n
      /\ \A i \in 1 .. Len(s) - n : q[i] = s[n + i]
  BY <1>1
<1> HIDE DEF p, q
<1>4. /\ t \in Seq(Entries) /\ Len(t) = Len(p) + Len(q)
      /\ \A i \in 1 .. Len(p) + Len(q) :
           t[i] = IF i <= Len(p) THEN p[i] ELSE q[i - Len(p)]
  BY <1>2, <1>3, ConcatProperties
<1> HIDE DEF t
<1>5. Len(t) = Len(s) - 1 /\ DOMAIN t = 1 .. Len(s) - 1
  BY <1>1, <1>2, <1>3, <1>4
<1>6. \A i \in DOMAIN t : from[i] \in DOMAIN s /\ t[i] = s[from[i]]
  <2>1. ASSUME NEW i \in DOMAIN t
        PROVE  from[i] \in DOMAIN s /\ t[i] = s[from[i]]
    <3>1. CASE i < n
      BY <1>1, <1>2, <1>4, <1>5, <2>1, <3>1
    <3>2. CASE ~(i < n)
      <4>1. i \in 1 .. Len(p) + Len(q) /\ ~(i <= Len(p)) /\ i + 1 \in DOMAIN s
        <5>1. i \in 1 .. Len(s) - 1 /\ n \in 1 .. Len(s) /\ Len(p) = n - 1
          BY <1>1, <1>2, <1>5, <2>1
        <5>2. Len(q) = Len(s) - n /\ Len(s) \in Nat /\ DOMAIN s = 1 .. Len(s)
          BY <1>1, <1>3
        <5> QED BY <3>2, <5>1, <5>2
      <4>2. t[i] = q[i - (n - 1)] /\ i - (n - 1) \in 1 .. Len(s) - n
        <5>1. Len(p) = n - 1 /\ Len(q) = Len(s) - n /\ n \in Nat /\ Len(s) \in Nat
          BY <1>1, <1>2, <1>3
        <5>2. t[i] = q[i - Len(p)]
          BY <1>4, <4>1
        <5>3. i \in Nat
          BY <1>5, <2>1
        <5>4. i \in 1 .. (n - 1) + (Len(s) - n) /\ ~(i <= n - 1)
          BY <4>1, <5>1
        <5>5. t[i] = q[i - (n - 1)]
          BY <5>1, <5>2
        <5>6. i - (n - 1) \in 1 .. Len(s) - n
          BY <5>1, <5>3, <5>4, SMTT(30)
        <5> QED BY <5>5, <5>6
      <4>3. n + (i - (n - 1)) = i + 1
        BY <1>1, <1>5, <2>1
      <4>4. t[i] = s[i + 1]
        BY <1>3, <4>2, <4>3
      <4> QED BY <3>2, <4>1, <4>4
    <3> QED BY <3>1, <3>2
  <2> QED BY <2>1
<1>7. \A i, j \in DOMAIN t : from[i] = from[j] => i = j
  BY <1>1, <1>5
<1> HIDE DEF from
<1>8. Distinct(t)
  BY <1>6, <1>7 DEF Distinct
<1>9. CommandsOf(t) \subseteq CommandsOf(s)
  BY <1>6 DEF CommandsOf
<1> QED BY <1>4, <1>8, <1>9 DEF t, p, q, RemoveAt

\* A command that is requested is found.
LEMMA WhereFound ==
    ASSUME NEW c \in Clients, NEW k, requested[c] \in Seq(Entries), Requests(c, k)
    PROVE  Where(c, k) \in DOMAIN requested[c]
<1> DEFINE s == requested[c]
           I == {i \in 1 .. Len(s) : s[i].command = k}
<1>1. I \in SUBSET Nat /\ I # {} /\ DOMAIN s = 1 .. Len(s)
  BY DEF Requests, ToSet
<1>2. Where(c, k) = CHOOSE x \in I : \A y \in I : x <= y
  BY <1>1 DEF Where, SelectInSeq, Min
<1> HIDE DEF I
<1>3. \E x \in I : \A y \in I : x <= y
  <2>1. PICK x \in I : \A y \in I : ~ (<<y, x>> \in OpToRel(<, Nat))
    BY <1>1, NatLessThanWellFounded, WFMin
  <2>2. \A y \in I : ~ (y < x)
    BY <1>1, <2>1 DEF OpToRel
  <2> QED BY <1>1, <2>2
<1>4. Where(c, k) \in I
  BY <1>2, <1>3
<1> QED BY <1>1, <1>4 DEF I

----------------------------------------------------------------------------
(* The inductive invariant *)

\* What is on the two stacks of a client's commands: between the packets only the
\* bottom, and else the command of whoever works for the client.
Stacked ==
    \A c \in Clients :
      /\ stack["net"][c] = IF c = netClient /\ netPc \in InFunctor
                           THEN <<netCommand, NoCommand>> ELSE <<NoCommand>>
      /\ stack["slow"][c] = IF c = slowFor THEN <<Slow>> ELSE <<>>

\* The network thread is in a functor for a client and a command of its own.
Working ==
    /\ netPc \in InFunctor => netClient \in Clients /\ netCommand \in Commands
    /\ netPc \in {"found", "send"} => netCommand = ModeInfo
    /\ netPc \notin InFunctor => netCommand = NoCommand

\* A broadcast is under way only while its mode is changed, and goes to living
\* clients; the network thread that changes the mode is within a client's packet.
Casting ==
    /\ BroadcastsReachLiving
    /\ caster = "none" => castTodo = {} /\ castAt = NoClient
    /\ mode = NoMode => caster # "none" /\ castTodo = {} /\ castAt = NoClient
    /\ mode # NoMode => mode = told
    /\ caster = "net" => netPc = "read" /\ netClient # NoClient

\* Whoever requested the mode knows the one that is broadcast, will be told by
\* the broadcast or by the answer it waits for, or got an answer that was overtaken.
Knowing ==
    /\ netPc \in {"found", "send"} /\ ~netLate => caster = "none" /\ netAnswer = told
    /\ \A c \in Clients :
         /\ status[c] = "connected" /\ ModeInfo \in CommandsOf(requested[c])
         /\ ~(netClient = c /\ netCommand = ModeInfo)
         => view[c] = told \/ c \in overtaken \/ c \in castTodo \/ castAt = c

Inv == TypeOK /\ Stacked /\ Working /\ Casting /\ Knowing

----------------------------------------------------------------------------
(* Requests *)

Requesting ==
    /\ requested \in [Clients -> Seq(Entries)]
    /\ \A c \in Clients : Distinct(requested[c])

\* Only the command that is called next is new in a client's list.
Grown ==
    \A c \in Clients : \A k \in CommandsOf(requested'[c]) :
      k \in CommandsOf(requested[c]) \/ (netClient' = c /\ netCommand' = k)

LEMMA TypedLists == TypeOK => Requesting
BY DEF TypeOK, Requesting, Entries, Distinct

\* One client's list is replaced.
LEMMA OneList ==
    ASSUME Requesting, NEW c \in Clients, NEW s \in Seq(Entries), Distinct(s),
           requested' = [requested EXCEPT ![c] = s],
           \A k \in CommandsOf(s) :
             k \in CommandsOf(requested[c]) \/ (netClient' = c /\ netCommand' = k)
    PROVE  Requesting' /\ Grown
<1>1. \A d \in Clients : requested'[d] = IF d = c THEN s ELSE requested[d]
  BY DEF Requesting
<1>2. requested' \in [Clients -> Seq(Entries)]
  BY DEF Requesting
<1>3. Grown
  BY <1>1 DEF Grown
<1>4. \A d \in Clients : Distinct(requested'[d])
  BY <1>1 DEF Requesting
<1> QED BY <1>2, <1>3, <1>4 DEF Requesting

LEMMA ListsUnchanged ==
    ASSUME Requesting, UNCHANGED requested PROVE Requesting' /\ Grown
BY DEF Requesting, Grown

\* An entry's interval or whether it is due changes.
LEMMA EntryChanges ==
    ASSUME Requesting, NEW c \in Clients, NEW n, NEW e,
           requested' = [requested EXCEPT ![c][n] = e],
           n \in DOMAIN requested[c] =>
             e \in Entries /\ e.command = requested[c][n].command
    PROVE  Requesting' /\ Grown
<1> DEFINE s == requested[c]
           t == [s EXCEPT ![n] = e]
<1>0. s \in Seq(Entries) /\ Distinct(s)
  BY DEF Requesting
<1>1. requested' = [requested EXCEPT ![c] = t]
  BY DEF Requesting
<1>2. CASE n \in DOMAIN s
  <2>1. e \in Entries /\ e.command = s[n].command
    BY <1>2
  <2> HIDE DEF s
  <2>2. t \in Seq(Entries) /\ Distinct(t) /\ CommandsOf(t) = CommandsOf(s)
    BY <1>0, <2>1, Revised
  <2> HIDE DEF t
  <2> QED BY <1>1, <2>2, OneList DEF s
<1>3. CASE n \notin DOMAIN s
  <2>1. t = s
    BY <1>0, <1>3
  <2>2. requested' = requested
    BY <1>1, <2>1 DEF Requesting
  <2> QED BY <2>2, ListsUnchanged
<1> QED BY <1>2, <1>3

LEMMA RequestLists ==
    ASSUME TypeOK, NEW c \in Clients, NEW k \in Commands, NEW i \in Intervals,
           ReadRequest(c, k, i)
    PROVE  Requesting' /\ Grown
<1> USE TypedLists
<1>0. Requesting /\ requested[c] \in Seq(Entries) /\ Distinct(requested[c])
  BY DEF Requesting
<1>1. CASE RequestNew(c, k, i)
  <2> DEFINE s == <<Entry(k, i)>> \o requested[c]
  <2>1. k \notin CommandsOf(requested[c])
    BY <1>1 DEF RequestNew, Requests, ToSet, CommandsOf
  <2>2. s \in Seq(Entries) /\ Distinct(s) /\ CommandsOf(s) = CommandsOf(requested[c]) \cup {k}
    BY <1>0, <2>1, InFront
  <2>3. requested' = [requested EXCEPT ![c] = s]
    BY <1>1 DEF RequestNew
  <2>4. netClient' = c /\ netCommand' = k
    BY <1>1 DEF RequestNew, Call, ReadRequest, Reads
  <2> HIDE DEF s
  <2> QED BY <1>0, <2>2, <2>3, <2>4, OneList
<1>2. CASE RequestRevised(c, k, i)
  <2> DEFINE n == Where(c, k)
             e == [requested[c][n] EXCEPT !.interval = i]
  <2>1. requested' = [requested EXCEPT ![c][n] = e]
    BY <1>2 DEF RequestRevised
  <2>2. n \in DOMAIN requested[c]
    BY <1>0, <1>2, WhereFound DEF RequestRevised
  <2>3. requested[c][n] \in Entries
    BY <1>0, <2>2
  <2>4. e \in Entries /\ e.command = requested[c][n].command
    BY <2>3 DEF Entries
  <2> HIDE DEF n, e
  <2> QED BY <1>0, <2>1, <2>2, <2>4, EntryChanges
<1> QED BY <1>1, <1>2 DEF ReadRequest

LEMMA StopLists ==
    ASSUME TypeOK, NEW c \in Clients, NEW k \in Commands, ReadStop(c, k)
    PROVE  Requesting' /\ Grown
<1> USE TypedLists
<1>0. Requesting /\ requested[c] \in Seq(Entries) /\ Distinct(requested[c])
  BY DEF Requesting
<1>1. CASE Requests(c, k)
  <2> DEFINE s == RemoveAt(requested[c], Where(c, k))
  <2>1. Where(c, k) \in DOMAIN requested[c]
    BY <1>0, <1>1, WhereFound
  <2>2. s \in Seq(Entries) /\ Distinct(s) /\ CommandsOf(s) \subseteq CommandsOf(requested[c])
    BY <1>0, <2>1, TakenOut
  <2>3. requested' = [requested EXCEPT ![c] = s]
    BY <1>1 DEF ReadStop
  <2> HIDE DEF s
  <2> QED BY <1>0, <2>2, <2>3, OneList
<1>2. CASE ~Requests(c, k)
  <2>1. requested' = [requested EXCEPT ![c] = requested[c]]
    BY <1>2 DEF ReadStop
  <2> QED BY <1>0, <2>1, OneList
<1> QED BY <1>1, <1>2

LEMMA ReturnLists ==
    ASSUME TypeOK, Working, netPc \in InFunctor, Return
    PROVE  Requesting' /\ Grown
<1> USE TypedLists
<1>0. Requesting /\ netClient \in Clients
  BY DEF Working
<1>1. CASE netIndex = 0
  BY <1>0, <1>1, ListsUnchanged DEF Return
<1>2. CASE netIndex # 0
  <2> DEFINE n == netIndex
             e == [requested[netClient][n] EXCEPT !.due = FALSE]
  <2>1. requested' = [requested EXCEPT ![netClient][n] = e]
    BY <1>2 DEF Return
  <2>2. ASSUME n \in DOMAIN requested[netClient]
        PROVE  e \in Entries /\ e.command = requested[netClient][n].command
    <3>1. requested[netClient][n] \in Entries
      BY <1>0, <2>2 DEF Requesting
    <3> QED BY <3>1 DEF Entries
  <2> HIDE DEF n, e
  <2> QED BY <1>0, <2>1, <2>2, EntryChanges
<1> QED BY <1>1, <1>2

LEMMA IntervalLists ==
    ASSUME TypeOK, NEW c \in Clients, IntervalPasses(c)
    PROVE  Requesting' /\ Grown
<1> USE TypedLists
<1>1. PICK n \in DOMAIN requested[c] : requested' = [requested EXCEPT ![c][n].due = TRUE]
  BY DEF IntervalPasses
<1> DEFINE e == [requested[c][n] EXCEPT !.due = TRUE]
<1>2. requested' = [requested EXCEPT ![c][n] = e]
  BY <1>1
<1>3. e \in Entries /\ e.command = requested[c][n].command
  <2>1. requested[c][n] \in Entries
    BY DEF Requesting
  <2> QED BY <2>1 DEF Entries
<1> HIDE DEF e
<1> QED BY <1>2, <1>3, EntryChanges

LEMMA RemoveLists ==
    ASSUME TypeOK, NetRemove PROVE Requesting' /\ Grown
<1> USE TypedLists
<1>1. PICK dead : requested' = [c \in Clients |-> IF c \in dead THEN <<>> ELSE requested[c]]
  BY DEF NetRemove, RemoveDead
<1>2. \A c \in Clients : requested'[c] = <<>> \/ requested'[c] = requested[c]
  BY <1>1
<1>3. requested' \in [Clients -> Seq(Entries)]
  BY <1>1 DEF Requesting
<1>4. Distinct(<<>>) /\ CommandsOf(<<>>) = {}
  BY DEF Distinct, CommandsOf
<1> QED BY <1>2, <1>3, <1>4 DEF Requesting, Grown

LEMMA ListsStep ==
    ASSUME TypeOK, Working, Next PROVE Requesting' /\ Grown
<1> USE TypedLists
<1> USE DEF clientVars, netVars, modeVars
<1>1. ASSUME NEW c \in Clients, Asks(c) PROVE Requesting' /\ Grown
  <2>1. ASSUME NEW k \in Commands, ReadStop(c, k) PROVE Requesting' /\ Grown
    BY <2>1, StopLists
  <2>2. ASSUME NEW k \in Commands, NEW i \in Intervals, ReadRequest(c, k, i)
        PROVE  Requesting' /\ Grown
    BY <2>2, RequestLists
  <2>3. ASSUME NEW k \in Commands, ReadOnce(c, k) PROVE UNCHANGED requested
    BY <2>3 DEF ReadOnce
  <2>4. ReadSwitch(c) \/ ReadEnd(c) => UNCHANGED requested
    BY DEF ReadSwitch, ReadEnd
  <2> QED BY <1>1, <2>1, <2>2, <2>3, <2>4, ListsUnchanged DEF Asks
<1>2. CASE NetLoop
  <2>1. CASE NetRemove
    BY <2>1, RemoveLists
  <2>2. CASE SendMode \/ SetEncoderClient \/ AnswerSlowCommand
    <3>1. Return /\ netPc \in InFunctor
      BY <2>2 DEF SendMode, SetEncoderClient, AnswerSlowCommand, InFunctor
    <3> QED BY <3>1, ReturnLists
  <2>3. CASE NetVisited \/ NetServe \/ NetHandled \/ FindMode \/ ReadMode
    <3>1. UNCHANGED requested
      BY <2>3 DEF NetVisited, NetServe, NetHandled, FindMode, ReadMode
    <3> QED BY <3>1, ListsUnchanged
  <2>4. ASSUME NEW c \in Clients, NetVisit(c) \/ NetHandle(c) PROVE UNCHANGED requested
    BY <2>4 DEF NetVisit, NetHandle
  <2> QED BY <1>2, <2>1, <2>2, <2>3, <2>4, ListsUnchanged DEF NetLoop
<1>3. ASSUME NEW c \in Clients, SlowBegin(c) \/ IntervalPasses(c)
      PROVE  Requesting' /\ Grown
  <2>1. SlowBegin(c) => UNCHANGED requested
    BY DEF SlowBegin
  <2> QED BY <1>3, <2>1, IntervalLists, ListsUnchanged
<1>4. CASE Switch \/ RobotLeaves \/ SlowEnd \/ EncoderPacket
  <2>1. UNCHANGED requested
    BY <1>4 DEF Switch, RobotLeaves, SlowEnd, EncoderPacket
  <2> QED BY <2>1, ListsUnchanged
<1> QED BY <1>1, <1>2, <1>3, <1>4 DEF Next

----------------------------------------------------------------------------
(* Types *)

\* The types of the client's other variables and of their history.
ClientTypes ==
    /\ status \in [Clients -> {"connected", "gone", "deleted"}]
    /\ putOff \in [Clients -> Nat]
    /\ asks \in 0 .. MaxAsks
    /\ view \in [Clients -> Modes \cup {NoMode}] /\ overtaken \in SUBSET Clients
    /\ slowFor \in Clients \cup {NoClient}
    /\ encoderClient \in Clients \cup {NoClient} /\ running \in BOOLEAN

StackTypes ==
    stack \in [{"net", "slow"} -> [Clients -> Seq(Commands \cup {NoCommand})]]

NetTypes ==
    /\ netPc \in {"read", "functor", "found", "send", "handle"}
    /\ netTodo \in SUBSET Clients /\ netClient \in Clients \cup {NoClient}
    /\ netCommand \in Commands \cup {NoCommand} /\ netIndex \in Nat
    /\ netAnswer \in Modes \cup {NoMode} /\ netLate \in BOOLEAN

ModeTypes ==
    /\ mode \in Modes \cup {NoMode} /\ told \in Modes /\ switches \in 0 .. MaxSwitches
    /\ caster \in {"none", "net", "robot"} /\ castTodo \in SUBSET Clients
    /\ castAt \in Clients \cup {NoClient}

LEMMA TypesParts ==
    TypeOK <=> Requesting /\ ClientTypes /\ StackTypes /\ NetTypes /\ ModeTypes
BY DEF TypeOK, Requesting, Distinct, Entries, ClientTypes, StackTypes, NetTypes, ModeTypes

\* The functor of a command returns.
LEMMA ReturnTypes ==
    ASSUME NetTypes, Return PROVE NetTypes'
BY DEF NetTypes, Return

\* One is called, or not.
LEMMA CallTypes ==
    ASSUME NetTypes, UNCHANGED <<netTodo, netClient, netAnswer>>, NEW k \in Commands,
           \/ UNCHANGED <<netPc, netCommand, netIndex, netLate>>
           \/ netPc' = "functor" /\ netCommand' = k /\ netIndex' = 0 /\ netLate' = FALSE
    PROVE  NetTypes'
<1>1. netLate' \in BOOLEAN
  <2>1. netLate' = netLate \/ netLate' = FALSE
    OBVIOUS
  <2> QED BY <2>1 DEF NetTypes
<1>2. netPc' \in {"read", "functor", "found", "send", "handle"}
  BY DEF NetTypes
<1>3. netCommand' \in Commands \cup {NoCommand} /\ netIndex' \in Nat
  BY DEF NetTypes
<1> QED BY <1>1, <1>2, <1>3 DEF NetTypes

LEMMA NetTypesStep ==
    ASSUME TypeOK, Next PROVE NetTypes'
<1> USE TypesParts
<1> USE DEF clientVars, netVars, modeVars, Call
<1>1. ASSUME NEW c \in Clients, Asks(c) PROVE NetTypes'
  <2>1. ASSUME NEW k \in Commands, NEW i \in Intervals, ReadRequest(c, k, i)
        PROVE  NetTypes'
    <3>1. UNCHANGED <<netTodo, netClient, netAnswer>>
      BY <2>1 DEF ReadRequest
    <3>2. \/ UNCHANGED <<netPc, netCommand, netIndex, netLate>>
          \/ netPc' = "functor" /\ netCommand' = k /\ netIndex' = 0 /\ netLate' = FALSE
      BY <2>1 DEF ReadRequest, RequestNew, RequestRevised
    <3> QED BY <3>1, <3>2, CallTypes
  <2>2. ASSUME NEW k \in Commands, ReadOnce(c, k) PROVE NetTypes'
    <3>1. UNCHANGED <<netTodo, netClient, netAnswer>>
      BY <2>2 DEF ReadOnce
    <3>2. \/ UNCHANGED <<netPc, netCommand, netIndex, netLate>>
          \/ netPc' = "functor" /\ netCommand' = k /\ netIndex' = 0 /\ netLate' = FALSE
      BY <2>2 DEF ReadOnce
    <3> QED BY <3>1, <3>2, CallTypes
  <2>3. ASSUME NEW k \in Commands, ReadStop(c, k) PROVE NetTypes'
    <3>1. UNCHANGED netVars
      BY <2>3 DEF ReadStop
    <3> QED BY <3>1 DEF NetTypes
  <2>4. CASE ReadSwitch(c) \/ ReadEnd(c)
    BY <2>4 DEF ReadSwitch, ReadEnd, NetTypes
  <2> QED BY <1>1, <2>1, <2>2, <2>3, <2>4 DEF Asks
<1>2. CASE NetLoop
  <2>1. CASE NetVisited
    BY <2>1 DEF NetVisited, NetTypes
  <2>2. CASE NetRemove
    BY <2>2 DEF NetRemove, RemoveDead, NetTypes
  <2>3. CASE NetServe
    <3>1. ASSUME netClient # NoClient, NEW i \in DueAfter(netClient, netIndex),
                 Call(netClient, requested[netClient][i].command, i),
                 UNCHANGED <<netTodo, netClient, netAnswer>>
          PROVE  NetTypes'
      <4>1. i \in Nat /\ requested[netClient][i] \in Entries
        BY <3>1 DEF Requesting, DueAfter, NetTypes
      <4>2. requested[netClient][i].command \in Commands
        BY <4>1 DEF Entries
      <4> QED BY <3>1, <4>1, <4>2 DEF NetTypes
    <3>2. ASSUME netClient' = NoClient, netIndex' = 0,
                 UNCHANGED <<netPc, netTodo, netCommand, netLate, netAnswer>>
          PROVE  NetTypes'
      BY <3>2 DEF NetTypes
    <3> QED BY <2>3, <3>1, <3>2 DEF NetServe
  <2>4. CASE NetHandled
    BY <2>4 DEF NetHandled, Listed, NetTypes
  <2>5. CASE FindMode \/ ReadMode
    BY <2>5 DEF FindMode, ReadMode, NetTypes, ModeTypes
  <2>6. CASE SendMode \/ SetEncoderClient \/ AnswerSlowCommand
    <3>1. Return
      BY <2>6 DEF SendMode, SetEncoderClient, AnswerSlowCommand
    <3> QED BY <3>1, ReturnTypes
  <2>7. ASSUME NEW c \in Clients, NetVisit(c) \/ NetHandle(c) PROVE NetTypes'
    BY <2>7 DEF NetVisit, NetHandle, NetTypes
  <2> QED BY <1>2, <2>1, <2>2, <2>3, <2>4, <2>5, <2>6, <2>7 DEF NetLoop
<1>3. ASSUME NEW c \in Clients, SlowBegin(c) \/ IntervalPasses(c) PROVE NetTypes'
  BY <1>3 DEF SlowBegin, IntervalPasses, NetTypes
<1>4. CASE Switch \/ RobotLeaves \/ SlowEnd \/ EncoderPacket
  BY <1>4 DEF Switch, RobotLeaves, SlowEnd, EncoderPacket, NetTypes
<1> QED BY <1>1, <1>2, <1>3, <1>4 DEF Next

LEMMA LeaveTypes ==
    ASSUME ModeTypes, NEW t \in {"net", "robot"}, Leave(t) PROVE ModeTypes'
<1>1. switches \in Nat /\ switches + 1 \in 0 .. MaxSwitches
  BY RequestsAssumption DEF ModeTypes, Leave
<1> QED BY <1>1 DEF ModeTypes, Leave

LEMMA ModeTypesStep ==
    ASSUME TypeOK, Next PROVE ModeTypes'
<1> USE TypesParts, RequestsAssumption
<1> USE DEF clientVars, netVars, modeVars, ModeTypes
<1>1. ASSUME NEW c \in Clients, Asks(c) PROVE ModeTypes'
  <2>1. CASE ReadSwitch(c)
    <3>1. Leave("net")
      BY <2>1 DEF ReadSwitch
    <3> QED BY <3>1, LeaveTypes
  <2>2. ASSUME NEW k \in Commands, ReadStop(c, k) \/ ReadOnce(c, k) PROVE ModeTypes'
    BY <2>2 DEF ReadStop, ReadOnce
  <2>3. ASSUME NEW k \in Commands, NEW i \in Intervals, ReadRequest(c, k, i)
        PROVE  ModeTypes'
    BY <2>3 DEF ReadRequest
  <2>4. CASE ReadEnd(c)
    BY <2>4 DEF ReadEnd
  <2> QED BY <1>1, <2>1, <2>2, <2>3, <2>4 DEF Asks
<1>2. CASE NetLoop
  BY <1>2 DEF NetLoop, NetVisited, NetRemove, RemoveDead, NetServe, NetHandled, NetVisit,
     NetHandle, FindMode, ReadMode, SendMode, SetEncoderClient, AnswerSlowCommand, Return
<1>3. ASSUME NEW c \in Clients, SlowBegin(c) \/ IntervalPasses(c) PROVE ModeTypes'
  BY <1>3 DEF SlowBegin, IntervalPasses
<1>4. CASE Switch
  BY <1>4 DEF Switch, Enter, CastTo, CastAt, CastEnd, Listed
<1>5. CASE RobotLeaves
  BY <1>5, LeaveTypes DEF RobotLeaves
<1>6. CASE SlowEnd \/ EncoderPacket
  BY <1>6 DEF SlowEnd, EncoderPacket
<1> QED BY <1>1, <1>2, <1>3, <1>4, <1>5, <1>6 DEF Next

LEMMA ClientTypesStep ==
    ASSUME TypeOK, Working, Next PROVE ClientTypes'
<1> USE TypesParts, RequestsAssumption
<1> USE DEF clientVars, netVars, modeVars, history, ClientTypes
<1>1. ASSUME NEW c \in Clients, Asks(c) PROVE ClientTypes'
  <2>2. Reads(c) => asks' \in 0 .. MaxAsks
    BY DEF Reads
  <2>3. ASSUME NEW k \in Commands, ReadStop(c, k) PROVE ClientTypes'
    <3>1. /\ Reads(c)
          /\ UNCHANGED <<status, putOff, slowFor, encoderClient, view, overtaken>>
      BY <2>3 DEF ReadStop
    <3>2. Survives(Requests(c, k) /\ Walked(c)) => running' \in BOOLEAN
      BY DEF Survives
    <3>3. running' \in BOOLEAN
      BY <2>3, <3>2 DEF ReadStop
    <3> QED BY <2>2, <3>1, <3>3
  <2>4. ASSUME NEW k \in Commands, ReadOnce(c, k) PROVE ClientTypes'
    <3>1. /\ Reads(c)
          /\ UNCHANGED <<status, slowFor, encoderClient, running, view, overtaken>>
          /\ putOff' = [putOff EXCEPT ![c] = @ + 1] \/ UNCHANGED putOff
      BY <2>4 DEF ReadOnce
    <3>2. putOff' \in [Clients -> Nat]
      BY <3>1
    <3> QED BY <2>2, <3>1, <3>2
  <2>5. ASSUME NEW k \in Commands, NEW i \in Intervals, ReadRequest(c, k, i)
        PROVE  ClientTypes'
    BY <2>2, <2>5 DEF ReadRequest
  <2>6. CASE ReadSwitch(c)
    BY <2>2, <2>6 DEF ReadSwitch
  <2>7. CASE ReadEnd(c)
    BY <2>7 DEF ReadEnd
  <2> QED BY <1>1, <2>3, <2>4, <2>5, <2>6, <2>7 DEF Asks
<1>2. CASE NetLoop
  <2>1. CASE NetRemove
    <3>1. /\ UNCHANGED <<putOff, asks, slowFor, encoderClient, running, view, overtaken>>
          /\ \E dead : status' = [c \in Clients |-> IF c \in dead THEN "deleted" ELSE status[c]]
      BY <2>1 DEF NetRemove, RemoveDead
    <3> QED BY <3>1
  <2>2. CASE SendMode
    <3>1. /\ Return /\ view' = [view EXCEPT ![netClient] = netAnswer]
          /\ netClient \in Clients /\ netAnswer \in Modes \cup {NoMode}
          /\ overtaken' \in {overtaken \cup {netClient}, overtaken \ {netClient}}
      BY <2>2 DEF SendMode, Working, InFunctor, NetTypes
    <3>2. UNCHANGED <<status, putOff, asks, slowFor, encoderClient, running>>
      BY <2>2 DEF SendMode, Return
    <3> QED BY <3>1, <3>2
  <2>3. CASE SetEncoderClient \/ AnswerSlowCommand
    <3>1. Return /\ UNCHANGED <<running, view, overtaken>>
      BY <2>3 DEF SetEncoderClient, AnswerSlowCommand
    <3>2. UNCHANGED <<status, putOff, asks, slowFor>>
      BY <3>1 DEF Return
    <3>3. encoderClient' \in {encoderClient, netClient}
      BY <2>3 DEF SetEncoderClient, AnswerSlowCommand
    <3> QED BY <3>1, <3>2, <3>3 DEF NetTypes
  <2>4. CASE ReadMode
    <3>1. running' \in BOOLEAN
      BY <2>4 DEF ReadMode, Survives
    <3> QED BY <2>4, <3>1 DEF ReadMode
  <2>5. CASE NetVisited \/ NetServe \/ NetHandled \/ FindMode
    BY <2>5 DEF NetVisited, NetServe, NetHandled, FindMode
  <2>6. ASSUME NEW c \in Clients, NetVisit(c) \/ NetHandle(c) PROVE ClientTypes'
    BY <2>6 DEF NetVisit, NetHandle
  <2> QED BY <1>2, <2>1, <2>2, <2>3, <2>4, <2>5, <2>6 DEF NetLoop
<1>3. ASSUME NEW c \in Clients, SlowBegin(c) PROVE ClientTypes'
  <2>1. /\ putOff[c] > 0 /\ putOff' = [putOff EXCEPT ![c] = @ - 1] /\ slowFor' = c
        /\ UNCHANGED <<status, asks, encoderClient, running, view, overtaken>>
    BY <1>3 DEF SlowBegin
  <2>2. putOff' \in [Clients -> Nat]
    BY <2>1
  <2> QED BY <2>1, <2>2
<1>4. ASSUME NEW c \in Clients, IntervalPasses(c) PROVE ClientTypes'
  BY <1>4 DEF IntervalPasses
<1>5. CASE Switch
  <2>1. UNCHANGED <<status, putOff, asks, slowFor, encoderClient, running>>
    BY <1>5 DEF Switch
  <2>2. CASE CastAt
    <3>1. /\ castAt \in Clients
          /\ \/ UNCHANGED <<view, overtaken>>
             \/ view' = [view EXCEPT ![castAt] = mode] /\ overtaken' = overtaken \ {castAt}
      BY <2>2 DEF CastAt, ModeTypes
    <3> QED BY <2>1, <3>1 DEF ModeTypes
  <2>3. CASE UNCHANGED history
    BY <2>1, <2>3
  <2> QED BY <1>5, <2>2, <2>3 DEF Switch
<1>6. CASE RobotLeaves \/ SlowEnd
  BY <1>6 DEF RobotLeaves, SlowEnd
<1>7. CASE EncoderPacket
  <2>1. running' \in BOOLEAN
    BY <1>7 DEF EncoderPacket, Survives
  <2> QED BY <1>7, <2>1 DEF EncoderPacket
<1> QED BY <1>1, <1>2, <1>3, <1>4, <1>5, <1>6, <1>7 DEF Next

----------------------------------------------------------------------------
(* The functors and the stacks of commands *)

\* What the network thread's step does to the functor it is in, if any: none
\* before and after, the same, one is called, or it returns.
NoFunctor == netPc \notin InFunctor /\ netPc' \notin InFunctor /\ UNCHANGED netCommand
SameFunctor ==
    /\ netPc \in InFunctor /\ netPc' \in InFunctor /\ UNCHANGED <<netClient, netCommand>>
    /\ netPc' \in {"found", "send"} => netPc \in {"found", "send"} \/ netCommand = ModeInfo
Calls ==
    /\ netPc \notin InFunctor /\ netPc' = "functor" /\ netClient' \in Clients
    /\ netCommand' \in Commands /\ Push("net", netClient', netCommand')
Returns ==
    /\ netPc \in InFunctor /\ netPc' \notin InFunctor /\ netCommand' = NoCommand
    /\ UNCHANGED netClient /\ Pop("net", netClient)

\* Which of them a step is, and that it leaves the slow/idle thread's stack alone
\* unless it is a step of that thread.
NetStep == UNCHANGED slowFor /\ (Calls \/ Returns \/ (UNCHANGED stack /\ (NoFunctor \/ SameFunctor)))

LEMMA SameNet ==
    UNCHANGED <<netPc, netClient, netCommand>> => NoFunctor \/ SameFunctor
BY DEF NoFunctor, SameFunctor, InFunctor

LEMMA ReturnStep ==
    ASSUME netPc \in InFunctor, Return PROVE NetStep
BY DEF Return, NetStep, Returns, InFunctor

LEMMA StepOfNet ==
    ASSUME TypeOK, Working, Next
    PROVE  \/ NetStep
           \/ SlowEnd
           \/ \E c \in Clients : SlowBegin(c)
<1> USE TypesParts
<1> USE DEF clientVars, netVars, modeVars, history
<1>0. ASSUME UNCHANGED <<stack, slowFor, netPc, netClient, netCommand>> PROVE NetStep
  BY <1>0, SameNet DEF NetStep
<1>1. ASSUME NEW c \in Clients, Asks(c) PROVE NetStep
  <2>1. ASSUME NEW k \in Commands, ReadStop(c, k) PROVE NetStep
    <3>1. UNCHANGED <<stack, slowFor, netPc, netClient, netCommand>>
      BY <2>1 DEF ReadStop
    <3> QED BY <3>1, <1>0
  <2>2. ASSUME NEW k \in Commands, Reads(c), Call(c, k, 0), UNCHANGED <<netClient, slowFor>>
        PROVE  NetStep
    BY <2>2 DEF Reads, Call, NetStep, Calls, InFunctor
  <2>3. ASSUME NEW k \in Commands, ReadOnce(c, k) PROVE NetStep
    <3>1. Reads(c) /\ UNCHANGED <<netClient, slowFor>>
      BY <2>3 DEF ReadOnce
    <3>2. Call(c, k, 0) \/ UNCHANGED <<stack, netPc, netCommand>>
      BY <2>3 DEF ReadOnce
    <3> QED BY <3>1, <3>2, <2>2, <1>0
  <2>4. ASSUME NEW k \in Commands, NEW i \in Intervals, ReadRequest(c, k, i) PROVE NetStep
    <3>1. Reads(c) /\ UNCHANGED <<netClient, slowFor>>
      BY <2>4 DEF ReadRequest
    <3>2. Call(c, k, 0) \/ UNCHANGED <<stack, netPc, netCommand>>
      BY <2>4 DEF ReadRequest, RequestNew, RequestRevised
    <3> QED BY <3>1, <3>2, <2>2, <1>0
  <2>5. ReadSwitch(c) => UNCHANGED <<stack, slowFor, netPc, netClient, netCommand>>
    BY DEF ReadSwitch
  <2>6. ReadEnd(c) => UNCHANGED <<stack, slowFor, netPc, netClient, netCommand>>
    BY DEF ReadEnd
  <2> QED BY <1>0, <1>1, <2>1, <2>3, <2>4, <2>5, <2>6 DEF Asks
<1>2. CASE NetLoop
  <2>0. ASSUME netPc \notin InFunctor, netPc' \notin InFunctor,
               UNCHANGED <<stack, slowFor, netCommand>>
        PROVE  NetStep
    BY <2>0 DEF NetStep, NoFunctor
  <2>1. CASE NetVisited \/ NetHandled
    BY <2>0, <2>1 DEF NetVisited, NetHandled, InFunctor
  <2>2. CASE NetRemove
    BY <2>0, <2>2 DEF NetRemove, RemoveDead, InFunctor
  <2>3. ASSUME NEW c \in Clients, NetVisit(c) \/ NetHandle(c) PROVE NetStep
    BY <2>0, <2>3 DEF NetVisit, NetHandle, InFunctor
  <2>4. CASE NetServe
    <3>1. ASSUME netClient # NoClient, NEW i \in DueAfter(netClient, netIndex),
                 Call(netClient, requested[netClient][i].command, i),
                 UNCHANGED netClient
          PROVE  NetStep
      <4>1. netClient \in Clients /\ requested[netClient][i] \in Entries
        BY <3>1 DEF Requesting, DueAfter, NetTypes
      <4>2. requested[netClient][i].command \in Commands
        BY <4>1 DEF Entries
      <4>3. netPc \notin InFunctor /\ UNCHANGED slowFor
        BY <2>4 DEF NetServe, InFunctor
      <4> QED BY <3>1, <4>1, <4>2, <4>3 DEF NetStep, Calls, Call
    <3>2. ASSUME UNCHANGED <<stack, netPc, netCommand>> PROVE NetStep
      BY <2>0, <2>4, <3>2 DEF NetServe, InFunctor
    <3> QED BY <2>4, <3>1, <3>2 DEF NetServe
  <2>5. CASE FindMode
    <3>1. netPc \in InFunctor /\ netPc' \in InFunctor /\ netCommand = ModeInfo
      BY <2>5 DEF FindMode, InFunctor
    <3>2. UNCHANGED <<stack, slowFor, netClient, netCommand>>
      BY <2>5 DEF FindMode
    <3> QED BY <3>1, <3>2 DEF NetStep, SameFunctor
  <2>6. CASE ReadMode
    <3>1. netPc = "found" /\ netPc \in InFunctor /\ netPc' \in InFunctor
      BY <2>6 DEF ReadMode, InFunctor
    <3>2. UNCHANGED <<stack, slowFor, netClient, netCommand>>
      BY <2>6 DEF ReadMode
    <3> QED BY <3>1, <3>2 DEF NetStep, SameFunctor
  <2>7. CASE SendMode \/ SetEncoderClient \/ AnswerSlowCommand
    <3>1. Return /\ netPc \in InFunctor
      BY <2>7 DEF SendMode, SetEncoderClient, AnswerSlowCommand, InFunctor
    <3> QED BY <3>1, ReturnStep
  <2> QED BY <1>2, <2>1, <2>2, <2>3, <2>4, <2>5, <2>6, <2>7 DEF NetLoop
<1>3. ASSUME NEW c \in Clients, IntervalPasses(c) PROVE NetStep
  BY <1>0, <1>3 DEF IntervalPasses
<1>4. CASE Switch \/ RobotLeaves \/ EncoderPacket
  BY <1>0, <1>4 DEF Switch, RobotLeaves, EncoderPacket
<1> QED BY <1>1, <1>2, <1>3, <1>4 DEF Next

LEMMA WorkingStep ==
    ASSUME TypeOK, Working, Next PROVE Working'
<1>1. CASE NetStep
  <2>1. CASE Calls
    BY <2>1 DEF Calls, Working, InFunctor
  <2>2. CASE Returns
    BY <2>2 DEF Returns, Working, InFunctor
  <2>3. CASE NoFunctor
    BY <2>3 DEF NoFunctor, Working, InFunctor
  <2>4. CASE SameFunctor
    BY <2>4 DEF SameFunctor, Working, InFunctor
  <2> QED BY <1>1, <2>1, <2>2, <2>3, <2>4 DEF NetStep
<1>2. ASSUME UNCHANGED netVars PROVE Working'
  BY <1>2 DEF netVars, Working
<1>3. CASE SlowEnd
  BY <1>2, <1>3 DEF SlowEnd
<1>4. ASSUME NEW c \in Clients, SlowBegin(c) PROVE Working'
  BY <1>2, <1>4 DEF SlowBegin
<1> QED BY <1>1, <1>3, <1>4, StepOfNet

LEMMA OnBottom ==
    ASSUME NEW k PROVE <<k>> \o <<NoCommand>> = <<k, NoCommand>>
<1> DEFINE a == <<k>>
           b == <<NoCommand>>
           S == {k, NoCommand}
<1>1. a \in Seq(S) /\ b \in Seq(S) /\ Len(a) = 1 /\ Len(b) = 1
  OBVIOUS
<1>2. a[1] = k /\ b[1] = NoCommand
  OBVIOUS
<1> HIDE DEF a, b
<1>3. /\ a \o b \in Seq(S) /\ Len(a \o b) = 2
      /\ (a \o b)[1] = k /\ (a \o b)[2] = NoCommand
  BY <1>1, <1>2, ConcatProperties
<1> HIDE DEF S
<1>4. a \o b = <<k, NoCommand>>
  <2>1. <<k, NoCommand>> \in Seq(S) /\ Len(<<k, NoCommand>>) = 2
    BY DEF S
  <2>2. <<k, NoCommand>>[1] = k /\ <<k, NoCommand>>[2] = NoCommand
    OBVIOUS
  <2>3. \A i \in 1 .. Len(a \o b) : (a \o b)[i] = <<k, NoCommand>>[i]
    BY <1>3, <2>2
  <2> QED BY <1>3, <2>1, <2>3, SeqEqual
<1> QED BY <1>4 DEF a, b

\* One stack of one client is replaced.
LEMMA OneStack ==
    ASSUME StackTypes, NEW t \in {"net", "slow"}, NEW c \in Clients,
           NEW s \in Seq(Commands \cup {NoCommand}),
           stack' = [stack EXCEPT ![t][c] = s]
    PROVE  StackTypes'
<1>1. stack' = [stack EXCEPT ![t] = [stack[t] EXCEPT ![c] = s]]
  OBVIOUS
<1>2. [stack[t] EXCEPT ![c] = s] \in [Clients -> Seq(Commands \cup {NoCommand})]
  BY DEF StackTypes
<1> QED BY <1>1, <1>2 DEF StackTypes

LEMMA StackedStep ==
    ASSUME TypeOK, Working, Stacked, Next PROVE Stacked' /\ StackTypes'
<1>. StackTypes /\ ClientTypes /\ "net" \in {"net", "slow"} /\ "slow" \in {"net", "slow"}
  BY TypesParts
<1> USE RequestsAssumption
<1>0. ASSUME UNCHANGED <<stack, slowFor, netPc, netClient, netCommand>>
      PROVE  Stacked' /\ StackTypes'
  BY <1>0 DEF Stacked, StackTypes
<1>1. CASE NetStep /\ Calls
  <2> DEFINE c == netClient'
             k == netCommand'
  <2>1. /\ netPc \notin InFunctor /\ netPc' \in InFunctor /\ c \in Clients /\ k \in Commands
        /\ stack' = [stack EXCEPT !["net"][c] = <<k>> \o @] /\ UNCHANGED slowFor
    BY <1>1 DEF NetStep, Calls, Push, InFunctor
  <2>2. <<k>> \o <<NoCommand>> = <<k, NoCommand>>
    BY <2>1, OnBottom
  <2>3. stack["net"][c] = <<NoCommand>>
    BY <2>1 DEF Stacked
  <2>4. stack' = [stack EXCEPT !["net"][c] = <<k, NoCommand>>]
    BY <2>1, <2>2, <2>3 DEF StackTypes
  <2>5. <<k, NoCommand>> \in Seq(Commands \cup {NoCommand})
    BY <2>1
  <2> HIDE DEF c, k
  <2>6. StackTypes'
    BY <2>1, <2>4, <2>5, OneStack
  <2>7. \A d \in Clients :
          /\ stack'["net"][d] = IF d = c THEN <<k, NoCommand>> ELSE stack["net"][d]
          /\ stack'["slow"][d] = stack["slow"][d]
    BY <2>1, <2>4 DEF StackTypes
  <2>8. Stacked'
    BY <2>1, <2>7 DEF Stacked, c, k
  <2> QED BY <2>6, <2>8
<1>2. CASE NetStep /\ Returns
  <2> DEFINE c == netClient
  <2>1. /\ netPc \in InFunctor /\ netPc' \notin InFunctor /\ c \in Clients
        /\ stack' = [stack EXCEPT !["net"][c] = Tail(@)] /\ UNCHANGED <<slowFor, netClient>>
    BY <1>2 DEF NetStep, Returns, Pop, Working
  <2>2. Tail(<<netCommand, NoCommand>>) = <<NoCommand>>
    OBVIOUS
  <2>3. stack["net"][c] = <<netCommand, NoCommand>>
    BY <2>1 DEF Stacked
  <2>4. stack' = [stack EXCEPT !["net"][c] = <<NoCommand>>]
    BY <2>1, <2>2, <2>3 DEF StackTypes
  <2>5. <<NoCommand>> \in Seq(Commands \cup {NoCommand})
    OBVIOUS
  <2> HIDE DEF c
  <2>6. StackTypes'
    BY <2>1, <2>4, <2>5, OneStack
  <2>7. \A d \in Clients :
          /\ stack'["net"][d] = IF d = c THEN <<NoCommand>> ELSE stack["net"][d]
          /\ stack'["slow"][d] = stack["slow"][d]
    BY <2>1, <2>4 DEF StackTypes
  <2>8. Stacked'
    BY <2>1, <2>7 DEF Stacked, c
  <2> QED BY <2>6, <2>8
<1>3. CASE UNCHANGED <<stack, slowFor>> /\ (NoFunctor \/ SameFunctor)
  <2>1. CASE NoFunctor
    BY <1>3, <2>1 DEF NoFunctor, Stacked, StackTypes
  <2>2. CASE SameFunctor
    BY <1>3, <2>2 DEF SameFunctor, Stacked, StackTypes
  <2> QED BY <1>3, <2>1, <2>2
<1>4. ASSUME NEW c \in Clients, SlowBegin(c) PROVE Stacked' /\ StackTypes'
  <2>1. /\ slowFor = NoClient /\ slowFor' = c
        /\ stack' = [stack EXCEPT !["slow"][c] = <<Slow>> \o @]
        /\ UNCHANGED <<netPc, netClient, netCommand>>
    BY <1>4 DEF SlowBegin, Push, netVars
  <2>2. c # NoClient /\ stack["slow"][c] = <<>> /\ <<Slow>> \o <<>> = <<Slow>>
    BY <2>1 DEF Stacked
  <2>3. stack' = [stack EXCEPT !["slow"][c] = <<Slow>>]
    BY <2>1, <2>2 DEF StackTypes
  <2>4. <<Slow>> \in Seq(Commands \cup {NoCommand})
    BY DEF Commands
  <2>5. StackTypes'
    BY <2>3, <2>4, OneStack
  <2>6. \A d \in Clients :
          /\ stack'["slow"][d] = IF d = c THEN <<Slow>> ELSE stack["slow"][d]
          /\ stack'["net"][d] = stack["net"][d]
    BY <2>3 DEF StackTypes
  <2>7. Stacked'
    BY <2>1, <2>2, <2>6 DEF Stacked
  <2> QED BY <2>5, <2>7
<1>5. CASE SlowEnd
  <2> DEFINE c == slowFor
  <2>1. /\ c \in Clients /\ slowFor' = NoClient
        /\ stack' = [stack EXCEPT !["slow"][c] = Tail(@)]
        /\ UNCHANGED <<netPc, netClient, netCommand>>
    BY <1>5 DEF SlowEnd, Pop, netVars, ClientTypes
  <2>2. stack["slow"][c] = <<Slow>> /\ Tail(<<Slow>>) = <<>>
    BY <2>1 DEF Stacked
  <2>3. stack' = [stack EXCEPT !["slow"][c] = <<>>]
    BY <2>1, <2>2 DEF StackTypes
  <2>4. <<>> \in Seq(Commands \cup {NoCommand})
    OBVIOUS
  <2> HIDE DEF c
  <2>5. StackTypes'
    BY <2>1, <2>3, <2>4, OneStack
  <2>6. \A d \in Clients :
          /\ stack'["slow"][d] = IF d = c THEN <<>> ELSE stack["slow"][d]
          /\ stack'["net"][d] = stack["net"][d]
    BY <2>1, <2>3 DEF StackTypes
  <2>7. Stacked'
    BY <2>1, <2>6 DEF Stacked, c
  <2> QED BY <2>5, <2>7
<1> QED BY <1>1, <1>2, <1>3, <1>4, <1>5, StepOfNet DEF NetStep

----------------------------------------------------------------------------
(* Broadcasts *)

\* The network thread changes the mode within a client's packet only.
LEMMA NetCasts ==
    ASSUME TypeOK, Working, Casting, Next
    PROVE  caster' = "net" => netPc' = "read" /\ netClient' # NoClient
<1> USE DEF clientVars, netVars, modeVars, history
<1> SUFFICES ASSUME caster' = "net" PROVE netPc' = "read" /\ netClient' # NoClient
  OBVIOUS
<1>0. CASE UNCHANGED netVars /\ caster = "net"
  BY <1>0 DEF Casting
<1>1. ASSUME NEW c \in Clients, Asks(c) PROVE netPc' = "read" /\ netClient' # NoClient
  <2>1. ASSUME NEW k \in Commands, ReadStop(c, k) PROVE FALSE
    BY <2>1 DEF ReadStop, Reads
  <2>2. ASSUME NEW k \in Commands, ReadOnce(c, k) PROVE FALSE
    BY <2>2 DEF ReadOnce, Reads
  <2>3. ASSUME NEW k \in Commands, NEW i \in Intervals, ReadRequest(c, k, i) PROVE FALSE
    BY <2>3 DEF ReadRequest, Reads
  <2>4. CASE ReadSwitch(c)
    BY <2>4, RequestsAssumption DEF ReadSwitch, Reads
  <2>5. CASE ReadEnd(c)
    BY <2>5 DEF ReadEnd
  <2> QED BY <1>1, <2>1, <2>2, <2>3, <2>4, <2>5 DEF Asks
<1>2. CASE NetLoop
  <2>1. UNCHANGED caster
    BY <1>2 DEF NetLoop, NetVisited, NetRemove, RemoveDead, NetServe, NetHandled, NetVisit,
       NetHandle, FindMode, ReadMode, SendMode, SetEncoderClient, AnswerSlowCommand, Return
  <2>2. netPc = "read" /\ netClient # NoClient /\ caster = "net"
    BY <2>1 DEF Casting
  <2> QED BY <1>2, <2>2 DEF NetLoop, NetVisited, NetRemove, RemoveDead, NetServe,
       NetHandled, NetVisit, NetHandle, FindMode, ReadMode, SendMode, SetEncoderClient,
       AnswerSlowCommand
<1>3. ASSUME NEW c \in Clients, SlowBegin(c) \/ IntervalPasses(c)
      PROVE  netPc' = "read" /\ netClient' # NoClient
  BY <1>0, <1>3 DEF SlowBegin, IntervalPasses
<1>4. CASE Switch
  <2>1. UNCHANGED netVars /\ caster = "net"
    BY <1>4 DEF Switch, Enter, CastTo, CastAt, CastEnd
  <2> QED BY <1>0, <2>1
<1>5. CASE RobotLeaves
  BY <1>5 DEF RobotLeaves, Leave
<1>6. CASE SlowEnd \/ EncoderPacket
  BY <1>0, <1>6 DEF SlowEnd, EncoderPacket
<1> QED BY <1>1, <1>2, <1>3, <1>4, <1>5, <1>6 DEF Next

\* The rest of Casting.
Announcing ==
    /\ BroadcastsReachLiving
    /\ caster = "none" => castTodo = {} /\ castAt = NoClient
    /\ mode = NoMode => caster # "none" /\ castTodo = {} /\ castAt = NoClient
    /\ mode # NoMode => mode = told

LEMMA AnnouncingStays ==
    ASSUME Announcing, UNCHANGED modeVars,
           \A c \in castTodo \cup {castAt} : c # NoClient => status'[c] # "deleted"
    PROVE  Announcing'
BY DEF Announcing, BroadcastsReachLiving, modeVars

LEMMA AnnouncingLeave ==
    ASSUME Announcing, NEW t \in {"net", "robot"}, Leave(t) PROVE Announcing'
BY DEF Announcing, BroadcastsReachLiving, Leave

\* Deleting waits for a broadcast of the robot's thread, and the network thread
\* does not broadcast then.
LEMMA AnnouncingRemove ==
    ASSUME TypeOK, Casting, NetRemove PROVE Announcing'
<1>1. caster # "net" /\ (caster # "robot" \/ (castTodo = {} /\ castAt = NoClient))
  BY DEF NetRemove, RemoveDead, ListInUse, Casting
<1>2. castTodo = {} /\ castAt = NoClient
  BY <1>1 DEF Casting, TypeOK
<1>3. Announcing /\ UNCHANGED modeVars
  BY DEF Casting, Announcing, NetRemove, RemoveDead
<1> QED BY <1>2, <1>3, AnnouncingStays

LEMMA AnnouncingStep ==
    ASSUME TypeOK, Casting, Next PROVE Announcing'
<1> USE TypesParts
<1> USE DEF clientVars, netVars, history
<1>. Announcing
  BY DEF Casting, Announcing
<1>0. ASSUME UNCHANGED status, UNCHANGED modeVars PROVE Announcing'
  <2>1. \A c \in castTodo \cup {castAt} : c # NoClient => status'[c] # "deleted"
    BY <1>0 DEF Announcing, BroadcastsReachLiving
  <2> QED BY <1>0, <2>1, AnnouncingStays
<1>1. ASSUME NEW c \in Clients, Asks(c) PROVE Announcing'
  <2>1. ASSUME NEW k \in Commands, ReadStop(c, k) PROVE Announcing'
    BY <1>0, <2>1 DEF ReadStop
  <2>2. ASSUME NEW k \in Commands, ReadOnce(c, k) PROVE Announcing'
    BY <1>0, <2>2 DEF ReadOnce
  <2>3. ASSUME NEW k \in Commands, NEW i \in Intervals, ReadRequest(c, k, i)
        PROVE  Announcing'
    BY <1>0, <2>3 DEF ReadRequest
  <2>4. CASE ReadSwitch(c)
    BY <2>4, AnnouncingLeave DEF ReadSwitch
  <2>5. CASE ReadEnd(c)
    <3>1. UNCHANGED modeVars /\ status' = [status EXCEPT ![c] = "gone"]
      BY <2>5 DEF ReadEnd
    <3>2. \A d \in Clients : status'[d] = status[d] \/ status'[d] = "gone"
      BY <3>1 DEF ClientTypes
    <3>3. \A d \in castTodo \cup {castAt} : d # NoClient => status'[d] # "deleted"
      BY <3>2 DEF Announcing, BroadcastsReachLiving, ModeTypes
    <3> QED BY <3>1, <3>3, AnnouncingStays
  <2> QED BY <1>1, <2>1, <2>2, <2>3, <2>4, <2>5 DEF Asks
<1>2. CASE NetLoop
  <2>1. CASE NetRemove
    BY <2>1, AnnouncingRemove
  <2>2. CASE NetVisited \/ NetServe \/ NetHandled \/ FindMode \/ ReadMode
    BY <1>0, <2>2 DEF NetVisited, NetServe, NetHandled, FindMode, ReadMode
  <2>3. CASE SendMode \/ SetEncoderClient \/ AnswerSlowCommand
    BY <1>0, <2>3 DEF SendMode, SetEncoderClient, AnswerSlowCommand, Return
  <2>4. ASSUME NEW c \in Clients, NetVisit(c) \/ NetHandle(c) PROVE Announcing'
    BY <1>0, <2>4 DEF NetVisit, NetHandle
  <2> QED BY <1>2, <2>1, <2>2, <2>3, <2>4 DEF NetLoop
<1>3. ASSUME NEW c \in Clients, SlowBegin(c) \/ IntervalPasses(c) PROVE Announcing'
  BY <1>0, <1>3 DEF SlowBegin, IntervalPasses
<1>4. CASE Switch
  <2>1. UNCHANGED status
    BY <1>4 DEF Switch
  <2>2. ASSUME NEW m \in Modes, Enter(m) PROVE Announcing'
    BY <2>1, <2>2, RequestsAssumption DEF Enter, Listed, Announcing, BroadcastsReachLiving
  <2>3. ASSUME NEW c \in Clients, CastTo(c) PROVE Announcing'
    BY <2>1, <2>3 DEF CastTo, Announcing, BroadcastsReachLiving
  <2>4. CASE CastAt
    BY <2>1, <2>4 DEF CastAt, Announcing, BroadcastsReachLiving
  <2>5. CASE CastEnd
    BY <2>1, <2>5 DEF CastEnd, Announcing, BroadcastsReachLiving
  <2> QED BY <1>4, <2>2, <2>3, <2>4, <2>5 DEF Switch
<1>5. CASE RobotLeaves
  BY <1>5, AnnouncingLeave DEF RobotLeaves
<1>6. CASE SlowEnd \/ EncoderPacket
  BY <1>0, <1>6 DEF SlowEnd, EncoderPacket
<1> QED BY <1>1, <1>2, <1>3, <1>4, <1>5, <1>6 DEF Next

LEMMA CastingStep ==
    ASSUME TypeOK, Working, Casting, Next PROVE Casting'
BY AnnouncingStep, NetCasts DEF Announcing, Casting

----------------------------------------------------------------------------
(* Knowing the mode *)

\* The answer found for getModeInfo is right unless a change has overtaken it.
Finding ==
    netPc \in {"found", "send"} /\ ~netLate => caster = "none" /\ netAnswer = told

LEMMA FindingStep ==
    ASSUME TypeOK, Working, Casting, Finding, Next PROVE Finding'
<1> USE DEF clientVars, netVars, modeVars, history
<1>0. ASSUME UNCHANGED netVars, UNCHANGED told, caster' = "none" \/ UNCHANGED caster
      PROVE  Finding'
  BY <1>0 DEF Finding
<1>1. ASSUME netPc' \notin {"found", "send"} PROVE Finding'
  BY <1>1 DEF Finding
<1>2. ASSUME NEW c \in Clients, Asks(c) PROVE Finding'
  <2>1. ASSUME NEW k \in Commands, ReadStop(c, k) PROVE netPc' \notin {"found", "send"}
    BY <2>1 DEF ReadStop, Reads
  <2>2. ASSUME NEW k \in Commands, ReadOnce(c, k) PROVE netPc' \notin {"found", "send"}
    BY <2>2 DEF ReadOnce, Reads, Call
  <2>3. ASSUME NEW k \in Commands, NEW i \in Intervals, ReadRequest(c, k, i)
        PROVE  netPc' \notin {"found", "send"}
    BY <2>3 DEF ReadRequest, RequestNew, RequestRevised, Reads, Call
  <2>4. ReadSwitch(c) \/ ReadEnd(c) => netPc' \notin {"found", "send"}
    BY DEF ReadSwitch, ReadEnd, Reads
  <2> QED BY <1>1, <1>2, <2>1, <2>2, <2>3, <2>4 DEF Asks
<1>3. CASE NetLoop
  <2>1. CASE FindMode
    BY <2>1 DEF FindMode, Finding, Casting
  <2>2. CASE ReadMode
    BY <2>2 DEF ReadMode, Finding, Casting
  <2>3. CASE SendMode \/ SetEncoderClient \/ AnswerSlowCommand
    BY <1>1, <2>3 DEF SendMode, SetEncoderClient, AnswerSlowCommand, Return
  <2>4. CASE NetVisited \/ NetRemove \/ NetServe \/ NetHandled
    BY <1>1, <2>4 DEF NetVisited, NetRemove, RemoveDead, NetServe, NetHandled, Call
  <2>5. ASSUME NEW c \in Clients, NetVisit(c) \/ NetHandle(c) PROVE Finding'
    BY <1>1, <2>5 DEF NetVisit, NetHandle
  <2> QED BY <1>3, <2>1, <2>2, <2>3, <2>4, <2>5 DEF NetLoop
<1>4. ASSUME NEW c \in Clients, SlowBegin(c) \/ IntervalPasses(c) PROVE Finding'
  BY <1>0, <1>4 DEF SlowBegin, IntervalPasses
<1>5. CASE Switch
  <2>1. UNCHANGED netVars
    BY <1>5 DEF Switch
  <2>2. caster # "none" \/ (UNCHANGED told /\ UNCHANGED caster)
    BY <1>5 DEF Switch, Enter, CastTo, CastAt, CastEnd, Casting
  <2> QED BY <2>1, <2>2 DEF Finding
<1>6. CASE RobotLeaves
  BY <1>6 DEF RobotLeaves, Finding
<1>7. CASE SlowEnd \/ EncoderPacket
  BY <1>0, <1>7 DEF SlowEnd, EncoderPacket
<1> QED BY <1>2, <1>3, <1>4, <1>5, <1>6, <1>7 DEF Next

\* The answer for getModeInfo that the network thread works on.
Answering(c) == netClient = c /\ netCommand = ModeInfo

\* It works on it until it sends it.
LEMMA AnsweringStays ==
    ASSUME TypeOK, Working, Next, ~SendMode, NEW c \in Clients, Answering(c)
    PROVE  Answering(c)'
<1>1. netPc \in InFunctor /\ ModeInfo # NoCommand /\ ModeInfo # Encoder /\ ModeInfo # Slow
  BY DEF Working, Answering, ModeInfo, NoCommand, Encoder, Slow
<1>2. CASE NetStep
  <2>1. CASE Returns
    <3>1. netPc' \notin InFunctor /\ netPc \in InFunctor /\ netCommand = ModeInfo
      BY <2>1 DEF Returns, Answering
    <3> USE DEF clientVars, netVars, modeVars, history
    <3>2. NetLoop \/ RobotLeaves \/ Switch \/ SlowEnd \/ EncoderPacket
            \/ \E d \in Clients : Asks(d) \/ SlowBegin(d) \/ IntervalPasses(d)
      BY DEF Next
    <3>3. ASSUME UNCHANGED netPc PROVE FALSE
      BY <3>1, <3>3 DEF InFunctor
    <3>4. ~(RobotLeaves \/ Switch \/ SlowEnd \/ EncoderPacket)
      BY <3>3 DEF RobotLeaves, Switch, SlowEnd, EncoderPacket
    <3>5. \A d \in Clients : ~SlowBegin(d) /\ ~IntervalPasses(d)
      BY <3>3 DEF SlowBegin, IntervalPasses
    <3>6. ASSUME NEW d \in Clients, Asks(d) PROVE netPc = "read"
      BY <3>6 DEF Asks, ReadStop, ReadOnce, ReadRequest, ReadSwitch, ReadEnd, Reads
    <3>7. ASSUME NetLoop PROVE FALSE
      BY <1>1, <3>1, <3>7 DEF NetLoop, NetVisit, NetHandle, NetVisited, NetRemove, RemoveDead,
         NetServe, NetHandled, FindMode, ReadMode, SetEncoderClient, AnswerSlowCommand,
         InFunctor
    <3> QED BY <3>1, <3>2, <3>4, <3>5, <3>6, <3>7 DEF InFunctor
  <2>2. CASE Calls \/ NoFunctor
    BY <1>1, <2>2 DEF Calls, NoFunctor
  <2>3. CASE SameFunctor
    BY <2>3 DEF SameFunctor, Answering
  <2> QED BY <1>2, <2>1, <2>2, <2>3 DEF NetStep
<1>3. CASE SlowEnd \/ \E d \in Clients : SlowBegin(d)
  BY <1>3 DEF SlowEnd, SlowBegin, netVars, Answering
<1> QED BY <1>2, <1>3, StepOfNet

\* A client that requested the mode is all right.
Told(c) == view[c] = told \/ c \in overtaken \/ c \in castTodo \/ castAt = c
Requester(c) ==
    status[c] = "connected" /\ ModeInfo \in CommandsOf(requested[c]) /\ ~Answering(c)

\* Whoever becomes a requester asks or has an answer sent.
LEMMA RequesterStays ==
    ASSUME TypeOK, Working, Grown, Next, ~SendMode, NEW c \in Clients, Requester(c)',
           status'[c] = "connected" => status[c] = "connected"
    PROVE  Requester(c)
BY AnsweringStays DEF Requester, Answering, Grown

LEMMA StatusStep ==
    ASSUME TypeOK, Next, NEW c \in Clients PROVE status'[c] = "connected" => status[c] = "connected"
<1> USE TypesParts
<1> USE DEF clientVars, netVars, modeVars, history
<1>1. ASSUME NEW d \in Clients, Asks(d) PROVE status'[c] = "connected" => status[c] = "connected"
  <2>1. CASE ReadEnd(d)
    BY <2>1 DEF ReadEnd, ClientTypes
  <2>2. ASSUME NEW k \in Commands, ReadStop(d, k) \/ ReadOnce(d, k) PROVE UNCHANGED status
    BY <2>2 DEF ReadStop, ReadOnce
  <2>3. ASSUME NEW k \in Commands, NEW i \in Intervals, ReadRequest(d, k, i)
        PROVE  UNCHANGED status
    BY <2>3 DEF ReadRequest
  <2>4. CASE ReadSwitch(d)
    BY <2>4 DEF ReadSwitch
  <2> QED BY <1>1, <2>1, <2>2, <2>3, <2>4 DEF Asks
<1>2. CASE NetLoop
  <2>1. CASE NetRemove
    <3>1. \E dead : status' = [d \in Clients |-> IF d \in dead THEN "deleted" ELSE status[d]]
      BY <2>1 DEF NetRemove, RemoveDead
    <3> QED BY <3>1
  <2>2. CASE ~NetRemove
    BY <1>2, <2>2 DEF NetLoop, NetVisited, NetServe, NetHandled, NetVisit, NetHandle,
       FindMode, ReadMode, SendMode, SetEncoderClient, AnswerSlowCommand, Return
  <2> QED BY <2>1, <2>2
<1>3. ASSUME NEW d \in Clients, SlowBegin(d) \/ IntervalPasses(d) PROVE UNCHANGED status
  BY <1>3 DEF SlowBegin, IntervalPasses
<1>4. CASE Switch \/ RobotLeaves \/ SlowEnd \/ EncoderPacket
  BY <1>4 DEF Switch, RobotLeaves, SlowEnd, EncoderPacket
<1> QED BY <1>1, <1>2, <1>3, <1>4 DEF Next

\* What a change of mode and a broadcast do to a requester.
LEMMA SwitchTells ==
    ASSUME TypeOK, Casting, Switch, NEW c \in Clients, Requester(c), Told(c)
    PROVE  Told(c)'
<1> USE TypesParts
<1>1. UNCHANGED status
  BY DEF Switch, clientVars
<1>2. ASSUME NEW m \in Modes, Enter(m), UNCHANGED history PROVE Told(c)'
  <2>1. castTodo = {} /\ castAt = NoClient /\ UNCHANGED <<view, overtaken, castAt>>
    BY <1>2 DEF Enter, history, Casting
  <2>2. CASE m = told
    BY <1>2, <2>1, <2>2, RequestsAssumption DEF Enter, Told
  <2>3. CASE m # told
    <3>1. c \in Listed /\ castTodo' = Listed
      BY <1>2, <2>3 DEF Enter, Requester, Listed
    <3> QED BY <3>1 DEF Told
  <2> QED BY <2>2, <2>3
<1>3. ASSUME NEW d \in Clients, CastTo(d), UNCHANGED history PROVE Told(c)'
  BY <1>3, RequestsAssumption DEF CastTo, Told, history
<1>4. CASE CastAt
  <2>1. CASE castAt = c
    <3>1. Requests(c, ModeInfo) /\ status[c] = "connected"
      BY DEF Requester, Requests, CommandsOf, ToSet
    <3>2. view' = [view EXCEPT ![c] = mode] /\ UNCHANGED told
      BY <1>4, <2>1, <3>1 DEF CastAt
    <3>3. mode = told
      BY <2>1, RequestsAssumption DEF Casting
    <3> QED BY <3>2, <3>3 DEF Told, ClientTypes
  <2>2. CASE castAt # c
    <3>1. /\ UNCHANGED <<told, castTodo>>
          /\ \/ UNCHANGED <<view, overtaken>>
             \/ /\ view' = [view EXCEPT ![castAt] = mode]
                /\ overtaken' = overtaken \ {castAt}
      BY <1>4 DEF CastAt
    <3> QED BY <2>2, <3>1 DEF Told, ClientTypes
  <2> QED BY <2>1, <2>2
<1>5. CASE CastEnd /\ UNCHANGED history
  BY <1>5 DEF CastEnd, Told, history
<1> QED BY <1>2, <1>3, <1>4, <1>5 DEF Switch

LEMMA SendTells ==
    ASSUME TypeOK, Working, Casting, Finding, SendMode, NEW c \in Clients,
           Requester(c) => Told(c), Grown,
           status'[c] = "connected" => status[c] = "connected", Requester(c)'
    PROVE  Told(c)'
<1> USE TypesParts
<1>1. /\ netPc = "send" /\ netClient \in Clients /\ UNCHANGED <<told, castTodo, castAt, netClient>>
      /\ view' = [view EXCEPT ![netClient] = netAnswer]
      /\ overtaken' = IF netLate THEN overtaken \cup {netClient} ELSE overtaken \ {netClient}
      /\ netCommand' = NoCommand
  BY DEF SendMode, Return, modeVars, Working, InFunctor
<1>2. CASE c = netClient
  BY <1>1, <1>2 DEF Told, Finding, ClientTypes
<1>3. CASE c # netClient
  <2>1. Requester(c)
    BY <1>1, <1>3 DEF Requester, Answering, Grown
  <2> QED BY <1>1, <1>3, <2>1 DEF Told, ClientTypes
<1> QED BY <1>2, <1>3

LEMMA ToldStays ==
    ASSUME TypeOK, Next, ~SendMode, ~Switch, NEW c \in Clients, Told(c)
    PROVE  Told(c)'
<1> USE DEF clientVars, netVars, modeVars, history
<1>1. ASSUME NEW d \in Clients, Asks(d) PROVE UNCHANGED <<view, overtaken, told, castTodo, castAt>>
  <2>1. ASSUME NEW k \in Commands, ReadStop(d, k) \/ ReadOnce(d, k)
        PROVE  UNCHANGED <<view, overtaken, told, castTodo, castAt>>
    BY <2>1 DEF ReadStop, ReadOnce
  <2>2. ASSUME NEW k \in Commands, NEW i \in Intervals, ReadRequest(d, k, i)
        PROVE  UNCHANGED <<view, overtaken, told, castTodo, castAt>>
    BY <2>2 DEF ReadRequest
  <2>3. ReadSwitch(d) \/ ReadEnd(d) => UNCHANGED <<view, overtaken, told, castTodo, castAt>>
    BY DEF ReadSwitch, Leave, ReadEnd
  <2> QED BY <1>1, <2>1, <2>2, <2>3 DEF Asks
<1>2. NetLoop => UNCHANGED <<view, overtaken, told, castTodo, castAt>>
  BY DEF NetLoop, NetVisited, NetRemove, RemoveDead, NetServe, NetHandled, NetVisit, NetHandle,
     FindMode, ReadMode, SetEncoderClient, AnswerSlowCommand, Return
<1>3. ASSUME NEW d \in Clients, SlowBegin(d) \/ IntervalPasses(d)
      PROVE  UNCHANGED <<view, overtaken, told, castTodo, castAt>>
  BY <1>3 DEF SlowBegin, IntervalPasses
<1>4. RobotLeaves \/ SlowEnd \/ EncoderPacket
        => UNCHANGED <<view, overtaken, told, castTodo, castAt>>
  BY DEF RobotLeaves, Leave, SlowEnd, EncoderPacket
<1>5. UNCHANGED <<view, overtaken, told, castTodo, castAt>>
  BY <1>1, <1>2, <1>3, <1>4 DEF Next
<1> QED BY <1>5 DEF Told

LEMMA KnowingParts == Knowing <=> Finding /\ \A c \in Clients : Requester(c) => Told(c)
BY DEF Knowing, Finding, Requester, Answering, Told

LEMMA KnowingPartsNext ==
    Knowing' <=> Finding' /\ \A c \in Clients : Requester(c)' => Told(c)'
BY DEF Knowing, Finding, Requester, Answering, Told

LEMMA KnowingStep ==
    ASSUME TypeOK, Working, Casting, Knowing, Next PROVE Knowing'
<1>1. Finding /\ \A c \in Clients : Requester(c) => Told(c)
  BY KnowingParts
<1>2. Finding'
  BY <1>1, FindingStep
<1>3. Grown
  BY ListsStep
<1>4. ASSUME NEW c \in Clients, Requester(c)' PROVE Told(c)'
  <2>1. status'[c] = "connected" => status[c] = "connected"
    BY StatusStep
  <2>2. CASE SendMode
    BY <1>1, <1>3, <1>4, <2>1, <2>2, SendTells
  <2>3. CASE ~SendMode
    <3>1. Requester(c) /\ Told(c)
      BY <1>1, <1>3, <1>4, <2>1, <2>3, RequesterStays
    <3> QED BY <2>3, <3>1, SwitchTells, ToldStays
  <2> QED BY <2>2, <2>3
<1> QED BY <1>2, <1>4, KnowingPartsNext

----------------------------------------------------------------------------
(* The theorems *)

LEMMA InvInit == Init => Inv
<1> SUFFICES ASSUME Init PROVE Inv
  OBVIOUS
<1> USE RequestsAssumption DEF Init
<1>1. Requesting
  <2>1. Distinct(<<>>)
    BY DEF Distinct
  <2> QED BY <2>1 DEF Requesting
<1>2. ClientTypes
  BY DEF ClientTypes
<1>8. NetTypes
  BY DEF NetTypes
<1>9. ModeTypes
  BY DEF ModeTypes
<1>3. StackTypes
  <2>1. <<NoCommand>> \in Seq(Commands \cup {NoCommand})
    OBVIOUS
  <2>2. stack = [t \in {"net", "slow"} |->
                   IF t = "net" THEN [c \in Clients |-> <<NoCommand>>]
                   ELSE [c \in Clients |-> <<>>]]
    OBVIOUS
  <2>3. [c \in Clients |-> <<NoCommand>>] \in [Clients -> Seq(Commands \cup {NoCommand})]
    BY <2>1
  <2>4. [c \in Clients |-> <<>>] \in [Clients -> Seq(Commands \cup {NoCommand})]
    OBVIOUS
  <2> QED BY <2>2, <2>3, <2>4 DEF StackTypes
<1>4. Stacked
  BY DEF Stacked, InFunctor
<1>5. Working
  BY DEF Working, InFunctor
<1>6. Casting
  BY DEF Casting, BroadcastsReachLiving
<1>7. Knowing
  BY DEF Knowing, CommandsOf
<1> QED BY <1>1, <1>2, <1>3, <1>4, <1>5, <1>6, <1>7, <1>8, <1>9, TypesParts DEF Inv

LEMMA TypesPartsNext ==
    TypeOK' <=> Requesting' /\ ClientTypes' /\ StackTypes' /\ NetTypes' /\ ModeTypes'
BY DEF TypeOK, Requesting, Distinct, Entries, ClientTypes, StackTypes, NetTypes, ModeTypes

LEMMA InvStep == Inv /\ [Next]_vars => Inv'
<1> SUFFICES ASSUME Inv, [Next]_vars PROVE Inv'
  OBVIOUS
<1>. TypeOK /\ Stacked /\ Working /\ Casting /\ Knowing
  BY DEF Inv
<1>1. CASE Next
  <2>1. TypeOK'
    BY <1>1, ListsStep, ClientTypesStep, StackedStep, NetTypesStep, ModeTypesStep,
       TypesPartsNext
  <2> QED BY <1>1, <2>1, StackedStep, WorkingStep, CastingStep, KnowingStep DEF Inv
<1>2. CASE UNCHANGED vars
  <2> USE DEF vars, clientVars, netVars, modeVars, history
  <2>1. TypeOK'
    <3> USE TypesParts
    <3>1. Requesting' /\ StackTypes'
      BY <1>2 DEF Requesting, StackTypes
    <3>2. ClientTypes'
      BY <1>2 DEF ClientTypes
    <3>3. NetTypes' /\ ModeTypes'
      BY <1>2 DEF NetTypes, ModeTypes
    <3> QED BY <3>1, <3>2, <3>3, TypesPartsNext
  <2>2. Stacked'
    BY <1>2 DEF Stacked
  <2>3. Working'
    BY <1>2 DEF Working
  <2>4. Casting'
    <3>1. /\ castTodo' = castTodo /\ castAt' = castAt /\ status' = status /\ mode' = mode
          /\ told' = told /\ caster' = caster /\ netPc' = netPc /\ netClient' = netClient
      BY <1>2
    <3> QED BY <3>1 DEF Casting, BroadcastsReachLiving
  <2>5. Knowing'
    BY <1>2 DEF Knowing
  <2> QED BY <2>1, <2>2, <2>3, <2>4, <2>5 DEF Inv
<1> QED BY <1>1, <1>2

\* In every state of every run the inductive invariant holds.
LEMMA InvHolds == Spec => []Inv
BY InvInit, InvStep, PTL DEF Spec

\* Types, and no client's list holds a command twice: one REQUESTSTOP ends what the
\* client requested (ArServerClient::processPacket's search before it adds).
THEOREM RequestedOnce == Spec => []TypeOK
<1>1. Inv => TypeOK
  BY DEF Inv
<1> QED BY <1>1, InvHolds, PTL

\* Every answer carries the name of the command it answers, whatever the other
\* thread that answers this client is doing (ArServerClient::getCommand).
THEOREM AnswersCarryTheirNames == Spec => []AnswersNamed
<1>1. Inv => AnswersNamed
  <2> SUFFICES ASSUME Inv PROVE AnswersNamed
    OBVIOUS
  <2>1. ASSUME netPc \in InFunctor PROVE Named("net", netClient) = netCommand
    <3>1. stack["net"][netClient] = <<netCommand, NoCommand>>
      BY <2>1 DEF Inv, Stacked, Working
    <3> QED BY <3>1 DEF Named
  <2>2. ASSUME slowFor # NoClient PROVE Named("slow", slowFor) = Slow
    <3>1. slowFor \in Clients
      BY <2>2 DEF Inv, TypeOK
    <3>2. stack["slow"][slowFor] = <<Slow>>
      BY <3>1 DEF Inv, Stacked
    <3> QED BY <3>2 DEF Named
  <2> QED BY <2>1, <2>2 DEF AnswersNamed, InFunctor
<1> QED BY <1>1, InvHolds, PTL

\* A broadcast of the robot's thread never reaches for a client that loopOnce has
\* deleted, however the two interleave (ArServerBase's myClientsMutex).
THEOREM BroadcastsAreSafe == Spec => []BroadcastsReachLiving
<1>1. Inv => BroadcastsReachLiving
  BY DEF Inv, Casting
<1> QED BY <1>1, InvHolds, PTL

\* Whoever requested getModeInfo knows the mode when nobody changes it, unless its
\* last answer was overtaken by a change (checkBroadcastModeInfoPacket of ArServerMode
\* against its getModeInfo, which takes no lock).
THEOREM RequestersAreTold == Spec => []RequestersKnowMode
<1>1. Inv => RequestersKnowMode
  <2> SUFFICES ASSUME Inv, NEW c \in Clients, status[c] = "connected",
                      Requests(c, ModeInfo), caster = "none",
                      ~(netClient = c /\ netCommand = ModeInfo)
               PROVE  view[c] = mode \/ c \in overtaken
    BY DEF RequestersKnowMode
  <2>1. ModeInfo \in CommandsOf(requested[c])
    BY DEF Requests, ToSet, CommandsOf
  <2>2. view[c] = told \/ c \in overtaken \/ c \in castTodo \/ castAt = c
    BY <2>1 DEF Inv, Knowing
  <2>3. castTodo = {} /\ castAt = NoClient /\ mode = told
    BY DEF Inv, Casting
  <2> QED BY <2>2, <2>3, RequestsAssumption
<1> QED BY <1>1, InvHolds, PTL

============================================================================
