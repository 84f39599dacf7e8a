------------------------- MODULE ClientConnection_proofs -------------------------
(***************************************************************************)
(* For any number of clients and sessions, and whatever the network loses:  *)
(* a client and its session never disagree on whether it was accepted (Inv); *)
(* if no key is drawn twice, UDP is only used where it was seen to work in    *)
(* this very session (UdpInv); and a client that gives UDP up has the server *)
(* told (ToldInv).  Each invariant is carried by a lemma that says what the  *)
(* steps may do to what it speaks of.                                       *)
(***************************************************************************)
EXTENDS ClientConnection, TLAPS

Accepted == {"connected", "disconnected", "deleted"}
Refused == {"rejected", "deleted"}

\* A packet with this command is under way.
Says(q, command) == \E i \in 1 .. Len(q) : q[i] = command

\* What the argument needs of the types: a client that talks has a session.
Types ==
    /\ state \in [Clients -> ClientStates]
    /\ session \in [Clients -> 0 .. MaxSessions]
    /\ sstate \in [Sessions -> SessionStates]
    /\ toClient \in [Sessions -> Seq(ServerCommands)]
    /\ \A c \in Clients : state[c] \in {"opened", "exchanged", "waiting", "connected",
                                        "rejected"} => session[c] \in Sessions

\* The packet that carries a verdict agrees with it for as long as it is under way.
VerdictsSent ==
    \A s \in Sessions :
        /\ Says(toClient[s], "CONNECTED") \/ Says(toClient[s], "LIST")
             => sstate[s] \in Accepted
        /\ Says(toClient[s], "REJECTED") => sstate[s] \in Refused

Inv == Types /\ VerdictsSent /\ VerdictsAgree

\* A read that stalls and a command put off change nothing the invariants speak of.
coreVars == <<state, phase, running, session, clock, from, to, outbox, opened, serverUdp,
              sstate, key, tcpOnly, sentTcpOnly, address, netVars>>

LEMMA AsideSteps ==
    ASSUME \/ UNCHANGED vars
           \/ \E c \in Clients : ReadStalls(c)
           \/ \E s \in Sessions : DeferPacket(s) \/ ServeDeferred(s)
    PROVE  UNCHANGED coreVars
<1>1. CASE UNCHANGED vars
  BY <1>1 DEF vars, coreVars, clientVars, serverVars
<1>2. CASE \E c \in Clients : ReadStalls(c)
  BY <1>2 DEF ReadStalls, coreVars, serverVars
<1>3. CASE \E s \in Sessions : DeferPacket(s) \/ ServeDeferred(s)
  BY <1>3 DEF DeferPacket, ServeDeferred, coreVars, clientVars
<1> QED BY <1>1, <1>2, <1>3

----------------------------------------------------------------------------
(* Packets under way: what the operations on sequences do to them *)

\* Reading a packet adds none.
LEMMA TailSays ==
    ASSUME NEW S, NEW q \in Seq(S), q # <<>>
    PROVE  /\ Tail(q) \in Seq(S)
           /\ Says(q, Head(q))
           /\ \A x : Says(Tail(q), x) => Says(q, x)
<1>1. Tail(q) \in Seq(S) /\ Len(q) \in Nat /\ Len(q) > 0 /\ Len(Tail(q)) = Len(q) - 1
  OBVIOUS
<1>2. \A i \in 1 .. Len(Tail(q)) : Tail(q)[i] = q[i + 1] /\ i + 1 \in 1 .. Len(q)
  BY <1>1
<1>3. Head(q) = q[1] /\ 1 \in 1 .. Len(q)
  BY <1>1
<1> QED BY <1>1, <1>2, <1>3 DEF Says

\* Losing the last packets adds none.
LEMMA PrefixSays ==
    ASSUME NEW S, NEW q \in Seq(S), NEW n \in 0 .. Len(q)
    PROVE  /\ SubSeq(q, 1, n) \in Seq(S)
           /\ \A x : Says(SubSeq(q, 1, n), x) => Says(q, x)
<1>1. SubSeq(q, 1, n) \in Seq(S) /\ Len(SubSeq(q, 1, n)) = n /\ Len(q) \in Nat
  OBVIOUS
<1>2. \A i \in 1 .. n : SubSeq(q, 1, n)[i] = q[i] /\ i \in 1 .. Len(q)
  BY <1>1
<1> QED BY <1>1, <1>2 DEF Says

\* Sending adds what is sent and nothing else.
LEMMA ConcatSays ==
    ASSUME NEW S, NEW q \in Seq(S), NEW r \in Seq(S)
    PROVE  /\ q \o r \in Seq(S)
           /\ \A x : Says(q \o r, x) => Says(q, x) \/ Says(r, x)
<1>1. q \o r \in Seq(S) /\ Len(q \o r) = Len(q) + Len(r) /\ Len(q) \in Nat /\ Len(r) \in Nat
  OBVIOUS
<1>2. \A i \in 1 .. Len(q \o r) :
        \/ i \in 1 .. Len(q) /\ (q \o r)[i] = q[i]
        \/ i - Len(q) \in 1 .. Len(r) /\ (q \o r)[i] = r[i - Len(q)]
  BY <1>1
<1> QED BY <1>1, <1>2 DEF Says

----------------------------------------------------------------------------
(* Two shapes of steps *)

\* A step of a client: no session changes, no packet appears, and a client's verdict
\* comes from a packet.
LEMMA ClientSide ==
    ASSUME Inv, Types', sstate' = sstate, session' = session,
           \A s \in Sessions, x \in ServerCommands :
               Says(toClient'[s], x) => Says(toClient[s], x),
           \A c \in Clients :
               \/ state'[c] = state[c]
               \/ state'[c] \in {"none", "opened", "exchanged", "failed", "lost"}
               \/ state'[c] = "waiting" /\ Says(toClient[session[c]], "CONNECTED")
                    /\ session[c] \in Sessions
               \/ state'[c] = "connected" /\ state[c] = "waiting"
               \/ state'[c] = "rejected" /\ Says(toClient[session[c]], "REJECTED")
                    /\ session[c] \in Sessions
    PROVE  Inv'
<1>1. VerdictsSent'
  BY DEF Inv, VerdictsSent, ServerCommands
<1>2. VerdictsAgree'
  <2> SUFFICES ASSUME NEW c \in Clients
               PROVE  /\ state'[c] \in {"waiting", "connected"} => sstate[session[c]] \in Accepted
                      /\ state'[c] = "rejected" => sstate[session[c]] \in Refused
    BY DEF VerdictsAgree, Accepted, Refused
  <2>1. /\ state[c] \in {"waiting", "connected"} => sstate[session[c]] \in Accepted
        /\ state[c] = "rejected" => sstate[session[c]] \in Refused
    BY DEF Inv, VerdictsAgree, Accepted, Refused
  <2>2. session[c] \in Sessions =>
          /\ Says(toClient[session[c]], "CONNECTED") => sstate[session[c]] \in Accepted
          /\ Says(toClient[session[c]], "REJECTED") => sstate[session[c]] \in Refused
    BY DEF Inv, VerdictsSent
  <2> QED BY <2>1, <2>2
<1> QED BY <1>1, <1>2 DEF Inv

\* A step of the server or the network: no client changes, a verdict stands until the
\* session is deleted, and a packet with a verdict appears only as it is given.
LEMMA ServerSide ==
    ASSUME Inv, Types', state' = state, session' = session,
           \A s \in Sessions :
               /\ sstate[s] \in Accepted => sstate'[s] \in Accepted
               /\ sstate[s] \in Refused => sstate'[s] \in Refused
               /\ Says(toClient'[s], "CONNECTED") \/ Says(toClient'[s], "LIST") =>
                    \/ Says(toClient[s], "CONNECTED") \/ Says(toClient[s], "LIST")
                    \/ sstate'[s] = "connected"
               /\ Says(toClient'[s], "REJECTED") =>
                    Says(toClient[s], "REJECTED") \/ sstate'[s] = "rejected"
    PROVE  Inv'
<1>1. VerdictsSent'
  BY DEF Inv, VerdictsSent, Accepted, Refused
<1>2. VerdictsAgree'
  <2> SUFFICES ASSUME NEW c \in Clients
               PROVE  /\ state[c] \in {"waiting", "connected"} => sstate'[session[c]] \in Accepted
                      /\ state[c] = "rejected" => sstate'[session[c]] \in Refused
    BY DEF VerdictsAgree, Accepted, Refused
  <2>1. /\ state[c] \in {"waiting", "connected"} => sstate[session[c]] \in Accepted
        /\ state[c] = "rejected" => sstate[session[c]] \in Refused
    BY DEF Inv, VerdictsAgree, Accepted, Refused
  <2>2. state[c] \in {"waiting", "connected", "rejected"} => session[c] \in Sessions
    BY DEF Inv, Types
  <2> QED BY <2>1, <2>2
<1> QED BY <1>1, <1>2 DEF Inv

----------------------------------------------------------------------------
(* What steps do to the packets under way *)

\* A client that runs has a session.
LEMMA AliveHasSession ==
    ASSUME Inv, NEW c \in Clients, Alive(c)
    PROVE  session[c] \in Sessions /\ toClient[session[c]] \in Seq(ServerCommands)
BY DEF Alive, Inv, Types

\* Reading takes a packet off, and it was there.
LEMMA IncomingSays ==
    ASSUME Inv, NEW c \in Clients, NEW command, Incoming(c, command)
    PROVE  /\ sstate' = sstate /\ session' = session
           /\ session[c] \in Sessions /\ Says(toClient[session[c]], command)
           /\ toClient' \in [Sessions -> Seq(ServerCommands)]
           /\ \A s \in Sessions, x \in ServerCommands :
                  Says(toClient'[s], x) => Says(toClient[s], x)
<1>1. /\ session[c] \in Sessions /\ toClient[session[c]] \in Seq(ServerCommands)
  BY AliveHasSession DEF Incoming
<1>2. /\ toClient[session[c]] # <<>> /\ Head(toClient[session[c]]) = command
      /\ toClient' = [toClient EXCEPT ![session[c]] = Tail(@)]
      /\ sstate' = sstate /\ session' = session
  BY DEF Incoming, serverVars
<1>3. toClient \in [Sessions -> Seq(ServerCommands)]
  BY DEF Inv, Types
<1>4. /\ Tail(toClient[session[c]]) \in Seq(ServerCommands)
      /\ Says(toClient[session[c]], Head(toClient[session[c]]))
      /\ \A x : Says(Tail(toClient[session[c]]), x) => Says(toClient[session[c]], x)
  BY <1>1, <1>2, TailSays
<1>5. \A s \in Sessions : toClient'[s] = IF s = session[c] THEN Tail(toClient[session[c]])
                                         ELSE toClient[s]
  BY <1>2, <1>3
<1>6. toClient' \in [Sessions -> Seq(ServerCommands)]
  BY <1>1, <1>2, <1>3, <1>4
<1> QED BY <1>1, <1>2, <1>4, <1>5, <1>6

\* A closed socket holds no packets.
LEMMA CloseSocketsSays ==
    ASSUME Inv, NEW c \in Clients, CloseSockets(c)
    PROVE  /\ toClient' \in [Sessions -> Seq(ServerCommands)]
           /\ \A s \in Sessions, x \in ServerCommands :
                  Says(toClient'[s], x) => Says(toClient[s], x)
<1>1. toClient' = [s \in Sessions |-> IF s = session[c] THEN <<>> ELSE toClient[s]]
  BY DEF CloseSockets
<1>2. toClient \in [Sessions -> Seq(ServerCommands)] /\ <<>> \in Seq(ServerCommands)
  BY DEF Inv, Types
<1>3. toClient' \in [Sessions -> Seq(ServerCommands)]
  BY <1>1, <1>2
<1>4. \A x : ~Says(<<>>, x)
  BY DEF Says
<1> QED BY <1>1, <1>3, <1>4

\* Replies adds the packets of the reply, or none.
LEMMA RepliesSays ==
    ASSUME Inv, NEW S \in SUBSET Sessions, NEW commands,
           \A s \in S : commands[s] \in Seq(ServerCommands), Replies(S, commands)
    PROVE  /\ toClient' \in [Sessions -> Seq(ServerCommands)]
           /\ \A s \in Sessions, x \in ServerCommands :
                  Says(toClient'[s], x)
                    => Says(toClient[s], x) \/ (s \in S /\ Says(commands[s], x))
<1>1. toClient \in [Sessions -> Seq(ServerCommands)]
  BY DEF Inv, Types
<1>2. toClient' = [s \in Sessions |->
                     IF s \in S /\ sstate[s] # "disconnected" /\ ended[s] = {}
                     THEN toClient[s] \o commands[s] ELSE toClient[s]]
  BY DEF Replies
<1>3. \A s \in S : /\ toClient[s] \o commands[s] \in Seq(ServerCommands)
                   /\ \A x : Says(toClient[s] \o commands[s], x)
                                => Says(toClient[s], x) \/ Says(commands[s], x)
  <2> SUFFICES ASSUME NEW s \in S
               PROVE  /\ toClient[s] \o commands[s] \in Seq(ServerCommands)
                      /\ \A x : Says(toClient[s] \o commands[s], x)
                                  => Says(toClient[s], x) \/ Says(commands[s], x)
    OBVIOUS
  <2>1. toClient[s] \in Seq(ServerCommands) /\ commands[s] \in Seq(ServerCommands)
    BY <1>1
  <2> QED BY <2>1, ConcatSays
<1>4. toClient' \in [Sessions -> Seq(ServerCommands)]
  BY <1>1, <1>2, <1>3
<1> QED BY <1>2, <1>3, <1>4

----------------------------------------------------------------------------
(* The steps of a client *)

\* A new session is one that nobody has a verdict from.
LEMMA StartKeeps ==
    ASSUME Inv, NEW c \in Clients, Start(c)
    PROVE  Inv'
<1>1. toClient' = toClient /\ toClient \in [Sessions -> Seq(ServerCommands)]
  BY DEF Start, Inv, Types
<1>2. CASE /\ ~opened /\ state' = [state EXCEPT ![c] = "failed"]
           /\ UNCHANGED <<sstate, peer, session, phase, clock>>
  <2>1. Types'
    BY <1>1, <1>2 DEF Inv, Types, ClientStates
  <2> QED BY <1>1, <1>2, <2>1, ClientSide DEF Inv, Types
<1>3. ASSUME NEW s \in Sessions, sstate[s] = "unused",
             sstate' = [sstate EXCEPT ![s] = "waiting"],
             session' = [session EXCEPT ![c] = s],
             state' = [state EXCEPT ![c] = "opened"]
      PROVE  Inv'
  <2>1. Types'
    BY <1>1, <1>3 DEF Inv, Types, ClientStates, SessionStates, Sessions
  <2>2. \A r \in Sessions : r # s => sstate'[r] = sstate[r]
    BY <1>3 DEF Inv, Types
  <2>3. sstate[s] \notin Accepted \cup Refused
    BY <1>3 DEF Accepted, Refused
  <2>4. VerdictsSent'
    BY <1>1, <2>2, <2>3 DEF Inv, VerdictsSent
  <2>5. VerdictsAgree'
    <3> SUFFICES ASSUME NEW d \in Clients
                 PROVE  /\ state'[d] \in {"waiting", "connected"}
                             => sstate'[session'[d]] \in Accepted
                        /\ state'[d] = "rejected" => sstate'[session'[d]] \in Refused
      BY DEF VerdictsAgree, Accepted, Refused
    <3>1. CASE d = c
      BY <1>3, <3>1 DEF Inv, Types
    <3>2. CASE d # c
      <4>1. state'[d] = state[d] /\ session'[d] = session[d]
        BY <1>3, <3>2 DEF Inv, Types
      <4>2. /\ state[d] \in {"waiting", "connected"} => sstate[session[d]] \in Accepted
            /\ state[d] = "rejected" => sstate[session[d]] \in Refused
        BY DEF Inv, VerdictsAgree, Accepted, Refused
      <4>3. state[d] \in {"waiting", "connected", "rejected"} => session[d] \in Sessions
        BY DEF Inv, Types
      <4> QED BY <2>2, <2>3, <4>1, <4>2, <4>3
    <3> QED BY <3>1, <3>2
  <2> QED BY <2>1, <2>4, <2>5 DEF Inv
<1> QED BY <1>2, <1>3 DEF Start

\* A client's packet counts only in the state it belongs to.
LEMMA ReadKeeps ==
    ASSUME Inv, NEW c \in Clients, Read(c)
    PROVE  Inv'
<1>1. CASE GetIntroduction(c)
  <2>1. Incoming(c, "INTRODUCTION")
    BY <1>1 DEF GetIntroduction
  <2>2. state' = state \/ state' = [state EXCEPT ![c] = "exchanged"]
    BY <1>1 DEF GetIntroduction, Becomes
  <2>3. Types'
    BY <2>1, <2>2, IncomingSays DEF Inv, Types, ClientStates
  <2> QED BY <2>1, <2>2, <2>3, IncomingSays, ClientSide DEF Inv, Types
<1>2. CASE GetConnected(c)
  <2>1. Incoming(c, "CONNECTED")
    BY <1>2 DEF GetConnected
  <2>2. state' = state \/ state' = [state EXCEPT ![c] = "waiting"]
    BY <1>2 DEF GetConnected, Becomes
  <2>3. Types'
    BY <2>1, <2>2, IncomingSays DEF Inv, Types, ClientStates
  <2> QED BY <2>1, <2>2, <2>3, IncomingSays, ClientSide DEF Inv, Types
<1>3. CASE GetRejected(c)
  <2>1. Incoming(c, "REJECTED")
    BY <1>3 DEF GetRejected
  <2>2. \/ state' = [state EXCEPT ![c] = state[c]]
        \/ state' = [state EXCEPT ![c] = "rejected"]
    BY <1>3 DEF GetRejected, Becomes
  <2>3. Types'
    BY <2>1, <2>2, IncomingSays DEF Inv, Types, ClientStates
  <2> QED BY <2>1, <2>2, <2>3, IncomingSays, ClientSide DEF Inv, Types
<1>4. CASE GetList(c)
  <2>1. Incoming(c, "LIST")
    BY <1>4 DEF GetList
  <2>2. \/ state' = [state EXCEPT ![c] = state[c]]
        \/ state[c] = "waiting" /\ state' = [state EXCEPT ![c] = "connected"]
    BY <1>4 DEF GetList, Becomes
  <2>3. Types'
    BY <2>1, <2>2, IncomingSays DEF Inv, Types, ClientStates
  <2> QED BY <2>1, <2>2, <2>3, IncomingSays, ClientSide DEF Inv, Types
<1>5. ASSUME NEW command, NEW way, GetWayToServer(c, command, way)
      PROVE  Inv'
  <2>1. Incoming(c, command) /\ state' = state
    BY <1>5 DEF GetWayToServer
  <2>2. Types'
    BY <2>1, IncomingSays DEF Inv, Types
  <2> QED BY <2>1, <2>2, IncomingSays, ClientSide
<1>6. CASE GetShutdown(c) \/ LoseConnection(c)
  <2>1. /\ CloseSockets(c) /\ state' = [state EXCEPT ![c] = "lost"]
        /\ sstate' = sstate /\ session' = session
    BY <1>6 DEF GetShutdown, LoseConnection, Becomes, serverVars
  <2>2. Types'
    BY <2>1, CloseSocketsSays DEF Inv, Types, ClientStates
  <2> QED BY <2>1, <2>2, CloseSocketsSays, ClientSide DEF Inv, Types
<1> QED BY <1>1, <1>2, <1>3, <1>4, <1>5, <1>6 DEF Read

\* Giving up keeps a rejection and forgets everything else.
LEMMA GiveUpKeeps ==
    ASSUME Inv, NEW c \in Clients, NEW st, GiveUp(c, st),
           st = state[c] \/ st = "failed"
    PROVE  Inv'
<1>1. /\ CloseSockets(c) /\ state' = [state EXCEPT ![c] = st]
      /\ sstate' = sstate /\ session' = session
  BY DEF GiveUp, Becomes, serverVars
<1>2. Types'
  BY <1>1, CloseSocketsSays DEF Inv, Types, ClientStates
<1> QED BY <1>1, <1>2, CloseSocketsSays, ClientSide DEF Inv, Types

\* The phases of connecting change no verdict.
LEMMA ConnectKeeps ==
    ASSUME Inv, NEW c \in Clients, Connect(c)
    PROVE  Inv'
<1>1. \/ \E st : GiveUp(c, st) /\ (st = state[c] \/ st = "failed")
      \/ /\ toClient' = toClient /\ sstate' = sstate /\ session' = session
         /\ \/ state' = state
            \/ state' = [state EXCEPT ![c] = "failed"]
            \/ state[c] = "connected" /\ state' = [state EXCEPT ![c] = "connected"]
  BY DEF Connect, ContinueTcp, ContinueUdp, Becomes, serverVars, netVars
<1>2. CASE \E st : GiveUp(c, st) /\ (st = state[c] \/ st = "failed")
  BY <1>2, GiveUpKeeps
<1>3. CASE /\ toClient' = toClient /\ sstate' = sstate /\ session' = session
           /\ \/ state' = state
              \/ state' = [state EXCEPT ![c] = "failed"]
              \/ state[c] = "connected" /\ state' = [state EXCEPT ![c] = "connected"]
  <2>1. Types'
    BY <1>3 DEF Inv, Types, ClientStates
  <2> QED BY <1>3, <2>1, ClientSide DEF Inv, Types
<1> QED BY <1>1, <1>2, <1>3

\* Sending, disconnecting, datagrams and time change no verdict either.
LEMMA OtherClientStepsKeep ==
    ASSUME Inv, NEW c \in Clients,
           \/ SendData(c) \/ Disconnect(c) \/ TimePasses(c)
           \/ \E s \in Sessions : GetUdpIntroduction(c, s)
    PROVE  Inv'
<1>1. CASE SendData(c) \/ TimePasses(c) \/ \E s \in Sessions : GetUdpIntroduction(c, s)
  <2>1. toClient' = toClient /\ sstate' = sstate /\ session' = session /\ state' = state
    BY <1>1 DEF SendData, TimePasses, GetUdpIntroduction, serverVars, netVars
  <2>2. Types'
    BY <2>1 DEF Inv, Types
  <2> QED BY <2>1, <2>2, ClientSide
<1>2. CASE Disconnect(c)
  <2>1. /\ CloseSockets(c) /\ state' = [state EXCEPT ![c] = "none"]
        /\ sstate' = sstate /\ session' = session
    BY <1>2 DEF Disconnect, Becomes, serverVars
  <2>2. Types'
    BY <2>1, CloseSocketsSays DEF Inv, Types, ClientStates
  <2> QED BY <2>1, <2>2, CloseSocketsSays, ClientSide DEF Inv, Types
<1> QED BY <1>1, <1>2

----------------------------------------------------------------------------
(* The steps of the server and the network *)

\* What a reply to one session adds.
LEMMA ReplySays ==
    ASSUME Inv, NEW s \in Sessions, NEW commands \in Seq(ServerCommands),
           Reply(s, commands)
    PROVE  /\ toClient' \in [Sessions -> Seq(ServerCommands)]
           /\ \A r \in Sessions, x \in ServerCommands :
                  Says(toClient'[r], x)
                    => Says(toClient[r], x) \/ (r = s /\ Says(commands, x))
<1> DEFINE answers == [r \in {s} |-> commands]
<1>1. {s} \in SUBSET Sessions /\ \A r \in {s} : answers[r] = commands
  OBVIOUS
<1>2. Replies({s}, answers)
  BY DEF Reply
<1> HIDE DEF answers
<1>3. \A r \in {s} : answers[r] \in Seq(ServerCommands)
  BY <1>1
<1> QED BY <1>1, <1>2, <1>3, RepliesSays

\* A session is accepted.
LEMMA AcceptKeeps ==
    ASSUME Inv, NEW s \in Sessions, Accept(s)
    PROVE  Inv'
<1>1. /\ sstate[s] = "waiting" /\ sstate' = [sstate EXCEPT ![s] = "sentIntro"]
      /\ Reply(s, <<"INTRODUCTION">>) /\ state' = state /\ session' = session
  BY DEF Accept, clientVars
<1>2. <<"INTRODUCTION">> \in Seq(ServerCommands)
      /\ \A x : Says(<<"INTRODUCTION">>, x) => x = "INTRODUCTION"
  BY DEF ServerCommands, Says
<1>3. /\ toClient' \in [Sessions -> Seq(ServerCommands)]
      /\ \A r \in Sessions, x \in ServerCommands :
           Says(toClient'[r], x) => Says(toClient[r], x) \/ x = "INTRODUCTION"
  BY <1>1, <1>2, ReplySays
<1>4. Types'
  BY <1>1, <1>3 DEF Inv, Types, SessionStates
<1> QED BY <1>1, <1>3, <1>4, ServerSide DEF Inv, Types, Accepted, Refused, ServerCommands

\* The one step that gives a verdict sends it.
LEMMA ServeIntroductionKeeps ==
    ASSUME Inv, NEW s \in Sessions, ServeIntroduction(s)
    PROVE  Inv'
<1>1. state' = state /\ session' = session
  BY DEF ServeIntroduction, Arrived, clientVars
<1>2. CASE /\ sstate[s] = "sentIntro" /\ Reply(s, <<"REJECTED">>)
           /\ sstate' = [sstate EXCEPT ![s] = "rejected"]
  <2>1. <<"REJECTED">> \in Seq(ServerCommands)
        /\ \A x : Says(<<"REJECTED">>, x) => x = "REJECTED"
    BY DEF ServerCommands, Says
  <2>2. /\ toClient' \in [Sessions -> Seq(ServerCommands)]
        /\ \A r \in Sessions, x \in ServerCommands :
             Says(toClient'[r], x) => Says(toClient[r], x) \/ (r = s /\ x = "REJECTED")
    BY <1>2, <2>1, ReplySays
  <2>3. Types'
    BY <1>1, <1>2, <2>2 DEF Inv, Types, SessionStates
  <2> QED BY <1>1, <1>2, <2>2, <2>3, ServerSide
          DEF Inv, Types, Accepted, Refused, ServerCommands
<1>3. CASE /\ sstate[s] = "sentIntro" /\ Reply(s, <<"CONNECTED", "LIST">>)
           /\ sstate' = [sstate EXCEPT ![s] = "connected"]
  <2>1. <<"CONNECTED", "LIST">> \in Seq(ServerCommands)
        /\ \A x : Says(<<"CONNECTED", "LIST">>, x) => x \in {"CONNECTED", "LIST"}
    BY DEF ServerCommands, Says
  <2>2. /\ toClient' \in [Sessions -> Seq(ServerCommands)]
        /\ \A r \in Sessions, x \in ServerCommands :
             Says(toClient'[r], x)
               => Says(toClient[r], x) \/ (r = s /\ x \in {"CONNECTED", "LIST"})
    BY <1>3, <2>1, ReplySays
  <2>3. Types'
    BY <1>1, <1>3, <2>2 DEF Inv, Types, SessionStates
  <2> QED BY <1>1, <1>3, <2>2, <2>3, ServerSide
          DEF Inv, Types, Accepted, Refused, ServerCommands
<1>4. CASE UNCHANGED <<sstate, address, toClient, intros>>
  <2>1. Types'
    BY <1>1, <1>4 DEF Inv, Types
  <2> QED BY <1>1, <1>4, <2>1, ServerSide
<1> QED BY <1>2, <1>3, <1>4 DEF ServeIntroduction

\* The steps that change the state of a session and send nothing: no verdict is undone.
LEMMA ForgetKeeps ==
    ASSUME Inv, NEW s \in Sessions, ServeShutdown(s) \/ LoseClient(s)
    PROVE  Inv'
<1>1. /\ sstate[s] \in {"sentIntro", "connected"}
      /\ sstate' = [sstate EXCEPT ![s] = "disconnected"]
      /\ toClient' = toClient /\ state' = state /\ session' = session
  BY DEF ServeShutdown, LoseClient, Arrived, clientVars, netVars
<1>2. Types'
  BY <1>1 DEF Inv, Types, SessionStates
<1> QED BY <1>1, <1>2, ServerSide DEF Inv, Types, Accepted, Refused

\* Sending TCP_ONLY, or reading what concerns UDP.
LEMMA UdpStepsKeep ==
    ASSUME Inv,
           \/ \E s \in Sessions :
                ServeUdpConfirmation(s) \/ ServeTcpOnly(s) \/ SendTcpOnly(s)
           \/ \E c \in Clients, k \in Keys : ServeUdpIntroduction(c, k)
    PROVE  Inv'
<1>1. ASSUME NEW s \in Sessions, ServeUdpConfirmation(s) \/ ServeTcpOnly(s)
      PROVE  Inv'
  <2>1. toClient' = toClient /\ sstate' = sstate /\ state' = state /\ session' = session
    BY <1>1 DEF ServeUdpConfirmation, ServeTcpOnly, Arrived, clientVars
  <2>2. Types'
    BY <2>1 DEF Inv, Types
  <2> QED BY <2>1, <2>2, ServerSide
<1>2. ASSUME NEW s \in Sessions, SendTcpOnly(s)
      PROVE  Inv'
  <2>1. /\ Reply(s, <<"TCP_ONLY">>) /\ sstate' = sstate
        /\ state' = state /\ session' = session
    BY <1>2 DEF SendTcpOnly, clientVars
  <2>2. <<"TCP_ONLY">> \in Seq(ServerCommands)
        /\ \A x : Says(<<"TCP_ONLY">>, x) => x = "TCP_ONLY"
    BY DEF ServerCommands, Says
  <2>3. /\ toClient' \in [Sessions -> Seq(ServerCommands)]
        /\ \A r \in Sessions, x \in ServerCommands :
             Says(toClient'[r], x) => Says(toClient[r], x) \/ x = "TCP_ONLY"
    BY <2>1, <2>2, ReplySays
  <2>4. Types'
    BY <2>1, <2>3 DEF Inv, Types
  <2> QED BY <2>1, <2>3, <2>4, ServerSide DEF ServerCommands
<1>3. ASSUME NEW c \in Clients, NEW k \in Keys, ServeUdpIntroduction(c, k)
      PROVE  Inv'
  <2> DEFINE S == {s \in Present : key[s] = k}
             U == {s \in S : ~tcpOnly[s] /\ sstate[s] # "disconnected"}
             answers == [s \in S |-> IF s \in U THEN <<"UDP_CONFIRMATION">>
                                     ELSE <<"UDP_INTRODUCTION", "UDP_CONFIRMATION">>]
  <2>1. S \in SUBSET Sessions
    BY DEF Present
  <2>2. /\ Replies(S, answers) /\ sstate' = sstate
        /\ state' = state /\ session' = session
    BY <1>3 DEF ServeUdpIntroduction, clientVars
  <2>3. \A s \in S : \/ answers[s] = <<"UDP_CONFIRMATION">>
                     \/ answers[s] = <<"UDP_INTRODUCTION", "UDP_CONFIRMATION">>
    OBVIOUS
  <2>4. /\ <<"UDP_CONFIRMATION">> \in Seq(ServerCommands)
        /\ <<"UDP_INTRODUCTION", "UDP_CONFIRMATION">> \in Seq(ServerCommands)
        /\ \A x : Says(<<"UDP_CONFIRMATION">>, x) => x = "UDP_CONFIRMATION"
        /\ \A x : Says(<<"UDP_INTRODUCTION", "UDP_CONFIRMATION">>, x)
                    => x \in {"UDP_INTRODUCTION", "UDP_CONFIRMATION"}
    BY DEF ServerCommands, Says
  <2> HIDE DEF S, answers
  <2>5. \A s \in S : answers[s] \in Seq(ServerCommands)
    BY <2>3, <2>4
  <2>6. /\ toClient' \in [Sessions -> Seq(ServerCommands)]
        /\ \A s \in Sessions, x \in ServerCommands :
             Says(toClient'[s], x)
               => Says(toClient[s], x) \/ (s \in S /\ Says(answers[s], x))
    BY <2>1, <2>2, <2>5, RepliesSays
  <2>7. \A s \in Sessions, x \in ServerCommands :
          Says(toClient'[s], x)
            => Says(toClient[s], x) \/ x \in {"UDP_INTRODUCTION", "UDP_CONFIRMATION"}
    BY <2>3, <2>4, <2>6
  <2>8. Types'
    BY <2>2, <2>6 DEF Inv, Types
  <2> QED BY <2>2, <2>7, <2>8, ServerSide DEF ServerCommands
<1> QED BY <1>1, <1>2, <1>3

\* Deletion, of one or of all, loses packets; closing adds a SHUTDOWN.
LEMMA DeleteKeeps ==
    ASSUME Inv, NEW s \in Sessions, Delete(s)
    PROVE  Inv'
<1>1. /\ sstate[s] \in {"rejected", "disconnected"} /\ state' = state /\ session' = session
      /\ sstate' = [r \in Sessions |-> IF r \in {s} THEN "deleted" ELSE sstate[r]]
  BY DEF Delete, Deleted, clientVars
<1>2. PICK n \in 0 .. Len(toClient[s]) :
        toClient' = [toClient EXCEPT ![s] = SubSeq(@, 1, n)]
  BY DEF Delete
<1>3. toClient \in [Sessions -> Seq(ServerCommands)] /\ toClient[s] \in Seq(ServerCommands)
  BY DEF Inv, Types
<1>4. /\ SubSeq(toClient[s], 1, n) \in Seq(ServerCommands)
      /\ \A x : Says(SubSeq(toClient[s], 1, n), x) => Says(toClient[s], x)
  BY <1>2, <1>3, PrefixSays
<1>5. /\ toClient' \in [Sessions -> Seq(ServerCommands)]
      /\ \A r \in Sessions : toClient'[r] = IF r = s THEN SubSeq(toClient[s], 1, n)
                                            ELSE toClient[r]
  BY <1>2, <1>3, <1>4
<1>6. Types'
  BY <1>1, <1>5 DEF Inv, Types, SessionStates
<1> QED BY <1>1, <1>4, <1>5, <1>6, ServerSide DEF Inv, Types, Accepted, Refused

\* The same when the server closes.
LEMMA CloseServerKeeps ==
    ASSUME Inv, CloseServer
    PROVE  Inv'
<1> DEFINE answers == [s \in Present |-> <<"SHUTDOWN">>]
<1>1. /\ Present \in SUBSET Sessions /\ \A s \in Present : answers[s] = <<"SHUTDOWN">>
  BY DEF Present
<1>2. /\ Replies(Present, answers) /\ state' = state /\ session' = session
      /\ sstate' = [s \in Sessions |->
                      IF s \in Present \cup {r \in Sessions : sstate[r] = "waiting"}
                      THEN "deleted" ELSE sstate[s]]
  BY DEF CloseServer, Deleted, clientVars
<1>3. <<"SHUTDOWN">> \in Seq(ServerCommands) /\ \A x : Says(<<"SHUTDOWN">>, x) => x = "SHUTDOWN"
  BY DEF ServerCommands, Says
<1> HIDE DEF answers
<1>4. /\ toClient' \in [Sessions -> Seq(ServerCommands)]
      /\ \A s \in Sessions, x \in ServerCommands :
           Says(toClient'[s], x)
             => Says(toClient[s], x) \/ (s \in Present /\ Says(answers[s], x))
  BY <1>1, <1>2, <1>3, RepliesSays
<1>5. \A s \in Sessions, x \in ServerCommands :
        Says(toClient'[s], x) => Says(toClient[s], x) \/ x = "SHUTDOWN"
  BY <1>1, <1>3, <1>4
<1>6. Types'
  BY <1>2, <1>4 DEF Inv, Types, SessionStates
<1> QED BY <1>2, <1>5, <1>6, ServerSide DEF Inv, Types, Accepted, Refused, ServerCommands

\* A broken connection holds no packets.
LEMMA LinkBreaksKeeps ==
    ASSUME Inv, NEW s \in Sessions, LinkBreaks(s)
    PROVE  Inv'
<1>1. /\ toClient' = [toClient EXCEPT ![s] = <<>>] /\ sstate' = sstate
      /\ state' = state /\ session' = session
  BY DEF LinkBreaks, clientVars, serverVars
<1>2. toClient \in [Sessions -> Seq(ServerCommands)] /\ <<>> \in Seq(ServerCommands)
      /\ \A x : ~Says(<<>>, x)
  BY DEF Inv, Types, Says
<1>3. /\ toClient' \in [Sessions -> Seq(ServerCommands)]
      /\ \A r \in Sessions : toClient'[r] = IF r = s THEN <<>> ELSE toClient[r]
  BY <1>1, <1>2
<1>4. Types'
  BY <1>1, <1>3 DEF Inv, Types
<1> QED BY <1>1, <1>2, <1>3, <1>4, ServerSide

----------------------------------------------------------------------------
(* The invariant of the specification *)

\* Before the first attempt nothing is under way and nobody has a verdict.
LEMMA InitEstablishes == Init => Inv
<1> SUFFICES ASSUME Init
             PROVE  Inv
  OBVIOUS
<1>1. \A s \in Sessions : toClient[s] = <<>> /\ Len(toClient[s]) = 0
  BY DEF Init
<1>2. VerdictsSent
  BY <1>1 DEF VerdictsSent, Says
<1>3. toClient \in [Sessions -> Seq(ServerCommands)]
  BY DEF Init
<1>4. Types
  BY <1>3, ConnectionAssumption DEF Init, Types, ClientStates, SessionStates
<1>5. VerdictsAgree
  BY DEF Init, VerdictsAgree
<1> QED BY <1>2, <1>4, <1>5 DEF Inv

\* Every step of a client, the server or the network keeps the invariant.
LEMMA NextKeeps == Inv /\ [Next]_vars => Inv'
<1> SUFFICES ASSUME Inv, [Next]_vars
             PROVE  Inv'
  OBVIOUS
<1>1. ASSUME NEW c \in Clients,
             \/ Start(c) \/ Read(c) \/ SendData(c) \/ Disconnect(c) \/ Connect(c)
             \/ TimePasses(c)
             \/ \E s \in Sessions : GetUdpIntroduction(c, s)
      PROVE  Inv'
  BY <1>1, StartKeeps, ReadKeeps, ConnectKeeps, OtherClientStepsKeep
<1>2. ASSUME NEW c \in Clients, NEW k \in Keys, ServeUdpIntroduction(c, k)
      PROVE  Inv'
  BY <1>2, UdpStepsKeep
<1>3. ASSUME NEW s \in Sessions, Accept(s) \/ TcpCallback(s) \/ LinkBreaks(s)
      PROVE  Inv'
  BY <1>3, AcceptKeeps, ServeIntroductionKeeps, UdpStepsKeep, ForgetKeeps, DeleteKeeps,
     LinkBreaksKeeps DEF TcpCallback
<1>4. CASE CloseServer
  BY <1>4, CloseServerKeeps
<1>5. CASE UNCHANGED coreVars
  <2>1. /\ toClient' = toClient /\ sstate' = sstate /\ state' = state /\ session' = session
    BY <1>5 DEF coreVars, netVars
  <2>2. Types'
    BY <2>1 DEF Inv, Types
  <2> QED BY <2>1, <2>2, ServerSide
<1> QED BY <1>1, <1>2, <1>3, <1>4, <1>5, AsideSteps DEF Next

\* A client and the session it talks to never disagree on whether it was accepted
\* (VerdictsAgree), although the verdict is under way while connections break, clients
\* give up and the server closes.
THEOREM VerdictsAlwaysAgree == Spec => []VerdictsAgree
<1>1. Inv => VerdictsAgree
  BY DEF Inv
<1> QED BY <1>1, InitEstablishes, NextKeeps, PTL DEF Spec
----------------------------------------------------------------------------
(* Datagrams: they are for the session whose key they carry *)

New == {"unused", "waiting"}

UdpTypes ==
    /\ from \in [Clients -> SUBSET Ways] /\ to \in [Clients -> SUBSET Ways]
    /\ key \in [Sessions -> Keys] /\ peer \in [Sessions -> Clients \cup {NoClient}]
    /\ address \in [Sessions -> Clients \cup {NoClient}]

\* A session is one client's, and nothing is sent before it is accepted.
SessionsOwned ==
    /\ \A c \in Clients : session[c] # 0 =>
           peer[session[c]] = c /\ sstate[session[c]] # "unused"
    /\ \A s \in Sessions, x \in ServerCommands : Says(toClient[s], x) => sstate[s] \notin New

\* Sessions begin and are accepted one after the other, and if the server never draws a
\* key again no two that were accepted share one.
KeysDrawn ==
    \A r, s \in Sessions : r < s =>
        /\ sstate[s] # "unused" => sstate[r] # "unused"
        /\ opened /\ sstate[s] \notin New =>
             sstate[r] \notin New /\ (~KeysRepeat => key[r] # key[s])

\* A client's introduction carries the key of a session of its own.
AuthsOwned ==
    \A a \in auths : \E s \in Sessions :
        /\ peer[s] \in Clients /\ sstate[s] \notin New
        /\ a = <<peer[s], key[s]>>

\* Where the server has confirmed UDP, it knows the client's address; one that draws a
\* key again may take another client's.
AddressesKnown == ~KeysRepeat =>
    /\ \A s \in Sessions : Says(toClient[s], "UDP_CONFIRMATION") => address[s] = peer[s]
    /\ \A c \in Clients : "udp" \in to[c] =>
           session[c] \in Sessions /\ address[session[c]] = c

\* Where the client has confirmed UDP, the session had sent it something.
IntrosSeen == \A c \in Clients : "udp" \in from[c] => <<c, session[c]>> \in intros

UdpInv ==
    UdpTypes /\ SessionsOwned /\ KeysDrawn /\ AuthsOwned /\ AddressesKnown /\ IntrosSeen

\* Every step but three changes what UdpInv speaks of in one of these ways.
LEMMA UdpFrame ==
    ASSUME Inv, UdpInv, UdpTypes',
           UNCHANGED <<session, peer, key>>, opened' => opened,
           \A s \in Sessions :
               /\ sstate[s] \notin New => sstate'[s] \notin New
               /\ sstate[s] = "unused" <=> sstate'[s] = "unused"
               /\ opened' /\ sstate'[s] \notin New => sstate[s] \notin New
               /\ \A x \in ServerCommands :
                    Says(toClient'[s], x) => Says(toClient[s], x) \/ sstate'[s] \notin New
               /\ Says(toClient'[s], "UDP_CONFIRMATION")
                    => Says(toClient[s], "UDP_CONFIRMATION")
               /\ address'[s] = address[s] \/ address'[s] = peer[s],
           \A a \in auths' :
               \/ a \in auths
               \/ \E c \in Clients :
                    /\ a = <<c, key[session[c]]>> /\ session[c] \in Sessions
                    /\ sstate[session[c]] \notin New,
           intros \subseteq intros',
           \A c \in Clients :
               /\ "udp" \in from'[c] => "udp" \in from[c] \/ <<c, session[c]>> \in intros
               /\ "udp" \in to'[c] =>
                    \/ "udp" \in to[c]
                    \/ /\ session[c] \in Sessions
                       /\ Says(toClient[session[c]], "UDP_CONFIRMATION")
    PROVE  UdpInv'
<1>1. /\ \A c \in Clients : session[c] # 0 =>
             session[c] \in Sessions /\ peer[session[c]] = c
                                     /\ sstate[session[c]] # "unused"
      /\ 0 \notin Sessions
  BY DEF Inv, Types, UdpInv, SessionsOwned, Sessions
<1>2. SessionsOwned'
  <2>1. \A c \in Clients : session[c] # 0 =>
          peer[session[c]] = c /\ sstate'[session[c]] # "unused"
    BY <1>1
  <2>2. \A s \in Sessions, x \in ServerCommands :
          Says(toClient'[s], x) => sstate'[s] \notin New
    BY DEF UdpInv, SessionsOwned
  <2> QED BY <2>1, <2>2 DEF SessionsOwned
<1>3. KeysDrawn'
  BY DEF UdpInv, KeysDrawn
<1>4. AuthsOwned'
  <2> SUFFICES ASSUME NEW a \in auths'
               PROVE  \E s \in Sessions : /\ peer[s] \in Clients /\ sstate'[s] \notin New
                                          /\ a = <<peer[s], key[s]>>
    BY DEF AuthsOwned
  <2>1. CASE a \in auths
    BY <2>1 DEF UdpInv, AuthsOwned
  <2>2. ASSUME NEW c \in Clients, a = <<c, key[session[c]]>>, session[c] \in Sessions,
               sstate[session[c]] \notin New
        PROVE  \E s \in Sessions : /\ peer[s] \in Clients /\ sstate'[s] \notin New
                                   /\ a = <<peer[s], key[s]>>
    <3>1. peer[session[c]] = c
      BY <1>1, <2>2
    <3> QED BY <2>2, <3>1
  <2> QED BY <2>1, <2>2
<1>5. AddressesKnown'
  <2> SUFFICES ASSUME ~KeysRepeat
               PROVE  AddressesKnown'
    BY DEF AddressesKnown
  <2>1. \A s \in Sessions : Says(toClient'[s], "UDP_CONFIRMATION") => address'[s] = peer[s]
    BY DEF UdpInv, AddressesKnown
  <2>2. ASSUME NEW c \in Clients, "udp" \in to'[c]
        PROVE  session[c] \in Sessions /\ address'[session[c]] = c
    <3>1. session[c] \in Sessions
      BY <2>2 DEF UdpInv, AddressesKnown
    <3>2. peer[session[c]] = c
      BY <1>1, <3>1
    <3>3. address[session[c]] = c
      BY <2>2, <3>1, <3>2 DEF UdpInv, AddressesKnown
    <3> QED BY <3>1, <3>2, <3>3
  <2> QED BY <2>1, <2>2 DEF AddressesKnown
<1>6. IntrosSeen'
  BY DEF UdpInv, IntrosSeen
<1> QED BY <1>2, <1>3, <1>4, <1>5, <1>6 DEF UdpInv
\* A new session is nobody's yet, and takes the attempt's ways of UDP with it.
LEMMA StartUdp ==
    ASSUME Inv, UdpInv, NEW c \in Clients, Start(c)
    PROVE  UdpInv'
<1>1. /\ UNCHANGED <<key, opened, auths, toClient, address, intros>>
      /\ from' = [from EXCEPT ![c] = from'[c]] /\ to' = [to EXCEPT ![c] = to'[c]]
      /\ from'[c] \subseteq {"tcp"} /\ to'[c] \subseteq {"tcp"}
  BY DEF Start, UdpInv, UdpTypes
<1>2. UdpTypes' /\ (\A d \in Clients : d # c => from'[d] = from[d] /\ to'[d] = to[d])
  <2>1. peer' \in [Sessions -> Clients \cup {NoClient}]
    BY DEF Start, UdpInv, UdpTypes
  <2> QED BY <1>1, <2>1 DEF UdpInv, UdpTypes, Ways
<1>3. CASE ~opened /\ UNCHANGED <<sstate, peer, session, phase, clock>>
  <2>1. \A d \in Clients : /\ "udp" \in from'[d] => "udp" \in from[d]
                           /\ "udp" \in to'[d] => "udp" \in to[d]
    BY <1>1, <1>2
  <2> QED BY <1>1, <1>2, <1>3, <2>1, UdpFrame
<1>4. ASSUME NEW s \in Sessions, sstate[s] = "unused",
             \A r \in 1 .. s - 1 : sstate[r] # "unused",
             sstate' = [sstate EXCEPT ![s] = "waiting"],
             peer' = [peer EXCEPT ![s] = c], session' = [session EXCEPT ![c] = s]
      PROVE  UdpInv'
  <2>1. /\ sstate'[s] = "waiting" /\ peer'[s] = c /\ session'[c] = s
        /\ \A r \in Sessions : r # s => sstate'[r] = sstate[r] /\ peer'[r] = peer[r]
        /\ \A d \in Clients : d # c => session'[d] = session[d]
    BY <1>4 DEF Inv, Types, UdpInv, UdpTypes
  <2>2. \A d \in Clients : session[d] # 0 =>
          /\ session[d] \in Sessions /\ session[d] # s
          /\ peer[session[d]] = d /\ sstate[session[d]] # "unused"
    BY <1>4 DEF Inv, Types, UdpInv, SessionsOwned, Sessions
  <2>3. \A x \in ServerCommands : ~Says(toClient[s], x)
    BY <1>4 DEF UdpInv, SessionsOwned, New
  <2>4. SessionsOwned'
    <3>1. \A d \in Clients : session'[d] # 0 =>
            peer'[session'[d]] = d /\ sstate'[session'[d]] # "unused"
      BY <2>1, <2>2
    <3>2. \A r \in Sessions, x \in ServerCommands :
            Says(toClient[r], x) => sstate'[r] \notin New
      BY <2>1, <2>3 DEF UdpInv, SessionsOwned
    <3> QED BY <1>1, <3>1, <3>2 DEF SessionsOwned
  <2>5. KeysDrawn'
    <3> SUFFICES ASSUME NEW r \in Sessions, NEW u \in Sessions, r < u
                 PROVE  /\ sstate'[u] # "unused" => sstate'[r] # "unused"
                        /\ opened /\ sstate'[u] \notin New =>
                             sstate'[r] \notin New /\ (~KeysRepeat => key[r] # key[u])
      BY <1>1 DEF KeysDrawn
    <3>1. /\ sstate[u] # "unused" => sstate[r] # "unused"
          /\ opened /\ sstate[u] \notin New =>
               sstate[r] \notin New /\ (~KeysRepeat => key[r] # key[u])
      BY DEF UdpInv, KeysDrawn
    <3>2. u = s => r \in 1 .. s - 1
      BY DEF Sessions
    <3> QED BY <1>4, <2>1, <3>1, <3>2 DEF New
  <2>6. AuthsOwned'
    <3> SUFFICES ASSUME NEW a \in auths
                 PROVE  \E r \in Sessions : /\ peer'[r] \in Clients /\ sstate'[r] \notin New
                                            /\ a = <<peer'[r], key[r]>>
      BY <1>1 DEF AuthsOwned
    <3>1. PICK r \in Sessions : /\ peer[r] \in Clients /\ sstate[r] \notin New
                                /\ a = <<peer[r], key[r]>>
      BY DEF UdpInv, AuthsOwned
    <3>2. r # s
      BY <1>4, <3>1 DEF New
    <3> QED BY <2>1, <3>1, <3>2
  <2>7. AddressesKnown'
    <3> SUFFICES ASSUME ~KeysRepeat
                 PROVE  AddressesKnown'
      BY DEF AddressesKnown
    <3>1. \A r \in Sessions : Says(toClient[r], "UDP_CONFIRMATION") =>
            r # s /\ address[r] = peer[r]
      BY <2>3 DEF UdpInv, AddressesKnown, ServerCommands
    <3>2. \A d \in Clients : "udp" \in to'[d] =>
            d # c /\ session[d] \in Sessions /\ address[session[d]] = d
      BY <1>1, <1>2 DEF UdpInv, AddressesKnown
    <3> QED BY <1>1, <2>1, <3>1, <3>2 DEF AddressesKnown
  <2>8. IntrosSeen'
    BY <1>1, <1>2, <2>1 DEF UdpInv, IntrosSeen
  <2> QED BY <1>2, <2>4, <2>5, <2>6, <2>7, <2>8 DEF UdpInv
<1> QED BY <1>3, <1>4 DEF Start

\* A session is accepted: its key is drawn.
LEMMA AcceptUdp ==
    ASSUME Inv, UdpInv, NEW s \in Sessions, Accept(s)
    PROVE  UdpInv'
<1>1. PICK k \in Keys : /\ KeysRepeat \/ \A r \in 1 .. s - 1 : key[r] # k
                        /\ key' = [key EXCEPT ![s] = k]
  BY DEF Accept
<1>2. /\ sstate[s] = "waiting" /\ sstate' = [sstate EXCEPT ![s] = "sentIntro"]
      /\ \A r \in 1 .. s - 1 : sstate[r] # "waiting"
      /\ Reply(s, <<"INTRODUCTION">>) /\ opened
      /\ UNCHANGED <<opened, session, peer, address, auths, intros, from, to>>
  BY DEF Accept, clientVars
<1>3. /\ <<"INTRODUCTION">> \in Seq(ServerCommands)
      /\ \A x : Says(<<"INTRODUCTION">>, x) => x = "INTRODUCTION"
  BY DEF ServerCommands, Says
<1>4. \A r \in Sessions, x \in ServerCommands :
        Says(toClient'[r], x) => Says(toClient[r], x) \/ (r = s /\ x = "INTRODUCTION")
  BY <1>2, <1>3, ReplySays
<1>5. /\ UdpTypes'
      /\ key'[s] = k /\ sstate'[s] = "sentIntro"
      /\ \A r \in Sessions : r # s => key'[r] = key[r] /\ sstate'[r] = sstate[r]
  BY <1>1, <1>2 DEF UdpInv, UdpTypes, Inv, Types
<1>6. SessionsOwned'
  <2>1. \A c \in Clients : session[c] # 0 => sstate'[session[c]] # "unused"
    <3>1. \A c \in Clients : session[c] # 0 => session[c] \in Sessions
      BY DEF Inv, Types, Sessions
    <3> QED BY <1>5, <3>1 DEF UdpInv, SessionsOwned
  <2>2. \A r \in Sessions, x \in ServerCommands :
          Says(toClient'[r], x) => sstate'[r] \notin New
    BY <1>4, <1>5 DEF UdpInv, SessionsOwned, New
  <2> QED BY <1>2, <2>1, <2>2 DEF UdpInv, SessionsOwned
<1>7. KeysDrawn'
  <2> SUFFICES ASSUME NEW r \in Sessions, NEW u \in Sessions, r < u
               PROVE  /\ sstate'[u] # "unused" => sstate'[r] # "unused"
                      /\ opened' /\ sstate'[u] \notin New =>
                           sstate'[r] \notin New /\ (~KeysRepeat => key'[r] # key'[u])
    BY DEF KeysDrawn
  <2>1. /\ sstate[u] # "unused" => sstate[r] # "unused"
        /\ sstate[u] \notin New =>
             sstate[r] \notin New /\ (~KeysRepeat => key[r] # key[u])
    BY <1>2 DEF UdpInv, KeysDrawn
  <2>2. u = s => r \in 1 .. s - 1
    BY DEF Sessions
  <2>3. CASE u = s
    BY <1>1, <1>2, <1>5, <2>1, <2>2, <2>3 DEF New
  <2>4. CASE u # s
    BY <1>2, <1>5, <2>1, <2>4 DEF New
  <2> QED BY <2>3, <2>4
<1>8. AuthsOwned'
  <2> SUFFICES ASSUME NEW a \in auths
               PROVE  \E r \in Sessions : /\ peer[r] \in Clients /\ sstate'[r] \notin New
                                          /\ a = <<peer[r], key'[r]>>
    BY <1>2 DEF AuthsOwned
  <2>1. PICK r \in Sessions : /\ peer[r] \in Clients /\ sstate[r] \notin New
                              /\ a = <<peer[r], key[r]>>
    BY DEF UdpInv, AuthsOwned
  <2>2. r # s
    BY <1>2, <2>1 DEF New
  <2> QED BY <1>5, <2>1, <2>2
<1>9. AddressesKnown' /\ IntrosSeen'
  BY <1>2, <1>4 DEF UdpInv, AddressesKnown, IntrosSeen, ServerCommands
<1> QED BY <1>5, <1>6, <1>7, <1>8, <1>9 DEF UdpInv

\* A client's introduction reaches its own session and no other.
LEMMA ServeUdpIntroductionUdp ==
    ASSUME Inv, UdpInv, NEW c \in Clients, NEW k \in Keys,
           ServeUdpIntroduction(c, k)
    PROVE  UdpInv'
<1> DEFINE S == {s \in Present : key[s] = k}
           U == {s \in S : ~tcpOnly[s] /\ sstate[s] # "disconnected"}
           answers == [s \in S |-> IF s \in U THEN <<"UDP_CONFIRMATION">>
                                   ELSE <<"UDP_INTRODUCTION", "UDP_CONFIRMATION">>]
<1>1. /\ S \in SUBSET Sessions /\ Replies(S, answers) /\ opened /\ <<c, k>> \in auths
      /\ address' = [s \in Sessions |-> IF s \in S THEN c ELSE address[s]]
      /\ intros \subseteq intros' /\ auths' \subseteq auths
      /\ UNCHANGED <<opened, session, peer, key, sstate, from, to>>
  BY DEF ServeUdpIntroduction, Present, clientVars
<1>2. \A s \in S : answers[s] \in Seq(ServerCommands)
  <2>1. \A s \in S : \/ answers[s] = <<"UDP_CONFIRMATION">>
                     \/ answers[s] = <<"UDP_INTRODUCTION", "UDP_CONFIRMATION">>
    OBVIOUS
  <2>2. /\ <<"UDP_CONFIRMATION">> \in Seq(ServerCommands)
        /\ <<"UDP_INTRODUCTION", "UDP_CONFIRMATION">> \in Seq(ServerCommands)
    BY DEF ServerCommands
  <2> QED BY <2>1, <2>2
<1>3. \A s \in S : sstate[s] \notin New /\ key[s] = k
  BY DEF Present, New
<1> HIDE DEF S, answers
<1>4. \A s \in Sessions, x \in ServerCommands :
        Says(toClient'[s], x) => Says(toClient[s], x) \/ s \in S
  BY <1>1, <1>2, RepliesSays
<1>5. ASSUME ~KeysRepeat
      PROVE  \A s \in S : peer[s] = c
  <2>1. PICK r \in Sessions : /\ peer[r] \in Clients /\ sstate[r] \notin New
                              /\ <<c, k>> = <<peer[r], key[r]>>
    BY <1>1 DEF UdpInv, AuthsOwned
  <2> SUFFICES ASSUME NEW s \in S, s # r
               PROVE  FALSE
    BY <2>1
  <2>2. s \in Sessions /\ (s < r \/ r < s)
    BY <1>1 DEF Sessions
  <2>3. key[s] # key[r]
    BY <1>1, <1>3, <1>5, <2>1, <2>2 DEF UdpInv, KeysDrawn
  <2> QED BY <1>3, <2>1, <2>3
<1>6. UdpTypes'
  BY <1>1 DEF UdpInv, UdpTypes
<1>7. SessionsOwned' /\ KeysDrawn' /\ AuthsOwned' /\ IntrosSeen'
  <2>1. SessionsOwned'
    BY <1>1, <1>3, <1>4 DEF UdpInv, SessionsOwned
  <2> QED BY <1>1, <2>1 DEF UdpInv, KeysDrawn, AuthsOwned, IntrosSeen
<1>8. AddressesKnown'
  <2> SUFFICES ASSUME ~KeysRepeat
               PROVE  AddressesKnown'
    BY DEF AddressesKnown
  <2>1. \A s \in Sessions : address'[s] = IF s \in S THEN peer[s] ELSE address[s]
    BY <1>1, <1>5
  <2>2. \A s \in Sessions : Says(toClient'[s], "UDP_CONFIRMATION") => address'[s] = peer[s]
    BY <1>4, <2>1 DEF UdpInv, AddressesKnown, ServerCommands
  <2>3. \A d \in Clients : "udp" \in to[d] =>
          session[d] \in Sessions /\ address[session[d]] = d /\ peer[session[d]] = d
    BY DEF UdpInv, AddressesKnown, SessionsOwned, Sessions
  <2> QED BY <1>1, <2>1, <2>2, <2>3 DEF AddressesKnown
<1> QED BY <1>6, <1>7, <1>8 DEF UdpInv

\* A packet that a client reads.
LEMMA ReadUdp ==
    ASSUME Inv, UdpInv, NEW c \in Clients, Read(c)
    PROVE  UdpInv'
<1> DEFINE Frame ==
             /\ UNCHANGED <<session, sstate, peer, key, opened, address>>
             /\ \A s \in Sessions, x \in ServerCommands :
                  Says(toClient'[s], x) => Says(toClient[s], x)
             /\ UNCHANGED intros
<1>1. "UDP_CONFIRMATION" \in ServerCommands
  BY DEF ServerCommands
<1>2. ASSUME NEW command, Incoming(c, command)
      PROVE  Frame
  BY <1>2, IncomingSays DEF Incoming, serverVars
<1>3. CASE GetIntroduction(c)
  <2>1. Incoming(c, "INTRODUCTION") /\ UNCHANGED auths
    BY <1>3 DEF GetIntroduction
  <2>2. /\ from' = from \/ from' = [from EXCEPT ![c] = {"tcp"}]
               \/ from' = [from EXCEPT ![c] = @]
        /\ to' = to \/ to' = [to EXCEPT ![c] = {"tcp"}] \/ to' = [to EXCEPT ![c] = @]
    BY <1>3 DEF GetIntroduction
  <2>3. /\ from' \in [Clients -> SUBSET Ways] /\ to' \in [Clients -> SUBSET Ways]
        /\ \A d \in Clients : /\ "udp" \in from'[d] => "udp" \in from[d]
                              /\ "udp" \in to'[d] => "udp" \in to[d]
    BY <2>2 DEF UdpInv, UdpTypes, Ways
  <2>4. UdpTypes'
    BY <2>1, <2>3, <1>2 DEF UdpInv, UdpTypes
  <2> QED BY <1>1, <1>2, <2>1, <2>3, <2>4, UdpFrame
<1>4. CASE GetConnected(c)
  <2>1. Incoming(c, "CONNECTED") /\ UNCHANGED <<from, to>>
    BY <1>4 DEF GetConnected
  <2>2. auths' \subseteq auths \cup {<<c, key[session[c]]>>}
    BY <1>4 DEF GetConnected
  <2>3. session[c] \in Sessions /\ sstate[session[c]] \notin New
    BY <2>1, IncomingSays DEF Inv, VerdictsSent, Accepted, New
  <2>4. UdpTypes'
    BY <2>1, <1>2 DEF UdpInv, UdpTypes
  <2>5. Frame
    BY <2>1, <1>2
  <2> QED BY <1>1, <2>1, <2>2, <2>3, <2>4, <2>5, UdpFrame
<1>5. CASE GetRejected(c) \/ GetList(c)
  <2>1. Frame /\ UNCHANGED <<from, to, auths>>
    BY <1>2, <1>5 DEF GetRejected, GetList
  <2>2. UdpTypes'
    BY <2>1 DEF UdpInv, UdpTypes
  <2> QED BY <1>1, <2>1, <2>2, UdpFrame
<1>6. ASSUME NEW command, NEW way \in SUBSET Ways, GetWayToServer(c, command, way),
             "udp" \in way => command = "UDP_CONFIRMATION"
      PROVE  UdpInv'
  <2>1. Incoming(c, command) /\ UNCHANGED <<from, auths>>
    BY <1>6 DEF GetWayToServer
  <2>2. Frame /\ session[c] \in Sessions /\ Says(toClient[session[c]], command)
    BY <1>2, <2>1, IncomingSays
  <2>3. to' = [to EXCEPT ![c] = @ \cup way] \/ to' = [to EXCEPT ![c] = @]
    BY <1>6 DEF GetWayToServer
  <2>4. /\ to' \in [Clients -> SUBSET Ways]
        /\ \A d \in Clients : "udp" \in to'[d] =>
             "udp" \in to[d] \/ (d = c /\ command = "UDP_CONFIRMATION")
    BY <1>6, <2>3 DEF UdpInv, UdpTypes
  <2>5. UdpTypes'
    BY <2>1, <2>2, <2>4 DEF UdpInv, UdpTypes
  <2> QED BY <1>1, <2>1, <2>2, <2>4, <2>5, UdpFrame
<1>7. CASE GetShutdown(c) \/ LoseConnection(c)
  <2>1. /\ CloseSockets(c)
        /\ UNCHANGED <<session, sstate, peer, key, opened, address, intros, from, to, auths>>
    BY <1>7 DEF GetShutdown, LoseConnection, serverVars
  <2>2. UdpTypes'
    BY <2>1 DEF UdpInv, UdpTypes
  <2> QED BY <1>1, <2>1, <2>2, CloseSocketsSays, UdpFrame
<1> QED BY <1>3, <1>4, <1>5, <1>6, <1>7 DEF Read, Ways

\* The other steps of a client.
LEMMA ClientUdp ==
    ASSUME Inv, UdpInv, NEW c \in Clients,
           \/ SendData(c) \/ Disconnect(c) \/ Connect(c) \/ TimePasses(c)
           \/ \E s \in Sessions : GetUdpIntroduction(c, s)
    PROVE  UdpInv'
<1>1. "UDP_CONFIRMATION" \in ServerCommands
  BY DEF ServerCommands
<1>2. UNCHANGED <<session, sstate, peer, key, opened, address, intros, auths>>
  BY DEF SendData, Disconnect, Connect, ContinueTcp, ContinueUdp, GiveUp, TimePasses,
     GetUdpIntroduction, serverVars, netVars
<1>3. toClient' = toClient \/ CloseSockets(c)
  BY DEF SendData, Disconnect, Connect, ContinueTcp, ContinueUdp, GiveUp, TimePasses,
     GetUdpIntroduction, netVars
<1>4. \A s \in Sessions, x \in ServerCommands :
        Says(toClient'[s], x) => Says(toClient[s], x)
  BY <1>3, CloseSocketsSays
<1>5. CASE UNCHANGED <<from, to>>
  <2>1. UdpTypes'
    BY <1>2, <1>5 DEF UdpInv, UdpTypes
  <2> QED BY <1>1, <1>2, <1>4, <1>5, <2>1, UdpFrame
<1>6. CASE /\ from' = [from EXCEPT ![c] = IF @ = {} THEN {"tcp"} ELSE @]
           /\ to' = [to EXCEPT ![c] = IF @ = {} THEN {"tcp"} ELSE @]
  <2>1. /\ from' \in [Clients -> SUBSET Ways] /\ to' \in [Clients -> SUBSET Ways]
        /\ \A d \in Clients : /\ "udp" \in from'[d] => "udp" \in from[d]
                              /\ "udp" \in to'[d] => "udp" \in to[d]
    BY <1>6 DEF UdpInv, UdpTypes, Ways
  <2>2. UdpTypes'
    BY <1>2, <2>1 DEF UdpInv, UdpTypes
  <2> QED BY <1>1, <1>2, <1>4, <2>1, <2>2, UdpFrame
<1>7. CASE \E s \in Sessions : GetUdpIntroduction(c, s)
  <2>1. /\ <<c, session[c]>> \in intros /\ from' = [from EXCEPT ![c] = {"udp"}]
        /\ UNCHANGED to
    BY <1>7 DEF GetUdpIntroduction
  <2>2. /\ from' \in [Clients -> SUBSET Ways]
        /\ \A d \in Clients : "udp" \in from'[d] => "udp" \in from[d] \/ d = c
    BY <2>1 DEF UdpInv, UdpTypes, Ways
  <2>3. UdpTypes'
    BY <1>2, <2>1, <2>2 DEF UdpInv, UdpTypes
  <2> QED BY <1>1, <1>2, <1>4, <2>1, <2>2, <2>3, UdpFrame
<1> QED BY <1>5, <1>6, <1>7 DEF SendData, Disconnect, Connect, ContinueTcp, ContinueUdp,
        GiveUp, TimePasses

\* A session that is introduced learns its own client's address.
LEMMA ServeIntroductionUdp ==
    ASSUME Inv, UdpInv, NEW s \in Sessions, ServeIntroduction(s)
    PROVE  UdpInv'
<1>1. /\ UNCHANGED <<session, peer, key, opened, auths, from, to>>
      /\ intros \subseteq intros'
  BY DEF ServeIntroduction, Arrived, clientVars
<1>2. CASE UNCHANGED <<sstate, address, toClient, intros>>
  <2>1. UdpTypes'
    BY <1>1, <1>2 DEF UdpInv, UdpTypes
  <2> QED BY <1>1, <1>2, <2>1, UdpFrame
<1>3. ASSUME NEW st \in {"rejected", "connected"},
             NEW commands \in {<<"REJECTED">>, <<"CONNECTED", "LIST">>},
             sstate[s] = "sentIntro", Reply(s, commands),
             sstate' = [sstate EXCEPT ![s] = st],
             address' = address \/ address' = [address EXCEPT ![s] = peer[s]]
      PROVE  UdpInv'
  <2>1. /\ commands \in Seq(ServerCommands)
        /\ ~Says(commands, "UDP_CONFIRMATION") /\ "UDP_CONFIRMATION" \in ServerCommands
    <3>1. /\ <<"REJECTED">> \in Seq(ServerCommands)
          /\ ~Says(<<"REJECTED">>, "UDP_CONFIRMATION")
      BY DEF ServerCommands, Says
    <3>2. /\ <<"CONNECTED", "LIST">> \in Seq(ServerCommands)
          /\ ~Says(<<"CONNECTED", "LIST">>, "UDP_CONFIRMATION")
      BY DEF ServerCommands, Says
    <3>3. "UDP_CONFIRMATION" \in ServerCommands
      BY DEF ServerCommands
    <3> QED BY <3>1, <3>2, <3>3
  <2>2. \A r \in Sessions, x \in ServerCommands :
          Says(toClient'[r], x) => Says(toClient[r], x) \/ (r = s /\ Says(commands, x))
    BY <1>3, <2>1, ReplySays
  <2>3. /\ sstate'[s] = st
        /\ \A r \in Sessions : r # s => sstate'[r] = sstate[r]
        /\ \A r \in Sessions : address'[r] = address[r] \/ address'[r] = peer[r]
    BY <1>3 DEF Inv, Types, UdpInv, UdpTypes
  <2>4. UdpTypes'
    BY <1>1, <1>3 DEF UdpInv, UdpTypes
  <2>5. \A r \in Sessions :
          /\ sstate[r] \notin New => sstate'[r] \notin New
          /\ sstate[r] = "unused" <=> sstate'[r] = "unused"
          /\ sstate'[r] \notin New => sstate[r] \notin New
          /\ \A x \in ServerCommands :
               Says(toClient'[r], x) => Says(toClient[r], x) \/ sstate'[r] \notin New
          /\ Says(toClient'[r], "UDP_CONFIRMATION") => Says(toClient[r], "UDP_CONFIRMATION")
    BY <1>3, <2>1, <2>2, <2>3 DEF New
  <2> QED BY <1>1, <2>3, <2>4, <2>5, UdpFrame
<1> QED BY <1>2, <1>3 DEF ServeIntroduction

\* The rest of what a session, the server and the network do.
LEMMA ServerUdp ==
    ASSUME Inv, UdpInv,
           \/ CloseServer
           \/ \E s \in Sessions :
                \/ ServeUdpConfirmation(s) \/ ServeTcpOnly(s) \/ ServeShutdown(s)
                \/ SendTcpOnly(s) \/ LoseClient(s) \/ Delete(s) \/ LinkBreaks(s)
    PROVE  UdpInv'
<1>1. UNCHANGED <<session, peer, key, auths, intros, address, from, to>>
  BY DEF CloseServer, ServeUdpConfirmation, ServeTcpOnly, ServeShutdown, Arrived,
     SendTcpOnly, LoseClient, Delete, LinkBreaks, clientVars, serverVars, netVars
<1>2. UdpTypes' /\ "UDP_CONFIRMATION" \in ServerCommands
  BY <1>1 DEF UdpInv, UdpTypes, ServerCommands
<1>3. ASSUME opened' => opened,
             \A s \in Sessions :
               /\ sstate[s] \notin New => sstate'[s] \notin New
               /\ sstate[s] = "unused" <=> sstate'[s] = "unused"
               /\ opened' /\ sstate'[s] \notin New => sstate[s] \notin New,
             \A s \in Sessions, x \in ServerCommands :
               Says(toClient'[s], x) =>
                 Says(toClient[s], x)
                 \/ (sstate[s] \notin New /\ x # "UDP_CONFIRMATION")
      PROVE  UdpInv'
  BY <1>1, <1>2, <1>3, UdpFrame
<1>4. CASE CloseServer
  <2> DEFINE answers == [s \in Present |-> <<"SHUTDOWN">>]
  <2>1. /\ Present \in SUBSET Sessions /\ \A s \in Present : answers[s] = <<"SHUTDOWN">>
        /\ \A s \in Present : sstate[s] \notin New
    BY DEF Present, New
  <2>2. /\ Replies(Present, answers) /\ ~opened'
        /\ \A s \in Sessions :
             sstate'[s] = IF s \in Present \cup {r \in Sessions : sstate[r] = "waiting"}
                          THEN "deleted" ELSE sstate[s]
    BY <1>4 DEF CloseServer, Deleted
  <2>3. /\ <<"SHUTDOWN">> \in Seq(ServerCommands)
        /\ ~Says(<<"SHUTDOWN">>, "UDP_CONFIRMATION")
    BY DEF ServerCommands, Says
  <2> HIDE DEF answers
  <2>4. \A s \in Sessions, x \in ServerCommands :
          Says(toClient'[s], x)
            => Says(toClient[s], x) \/ (s \in Present /\ Says(answers[s], x))
    <3>1. \A s \in Present : answers[s] \in Seq(ServerCommands)
      BY <2>1, <2>3
    <3>2. Inv /\ Present \in SUBSET Sessions /\ Replies(Present, answers)
      BY <2>1, <2>2
    <3> QED BY <3>1, <3>2, RepliesSays, Zenon
  <2>5. \A s \in Sessions :
          /\ sstate[s] \notin New => sstate'[s] \notin New
          /\ sstate[s] = "unused" <=> sstate'[s] = "unused"
    BY <2>1, <2>2 DEF New
  <2> QED BY <1>3, <2>1, <2>2, <2>3, <2>4, <2>5
<1>5. ASSUME NEW s \in Sessions, ServeUdpConfirmation(s) \/ ServeTcpOnly(s)
      PROVE  UdpInv'
  <2>1. UNCHANGED <<opened, sstate, toClient>>
    BY <1>5 DEF ServeUdpConfirmation, ServeTcpOnly, Arrived
  <2> QED BY <1>3, <2>1
<1>6. ASSUME NEW s \in Sessions, ServeShutdown(s) \/ LoseClient(s)
      PROVE  UdpInv'
  <2>1. /\ UNCHANGED <<opened, toClient>>
        /\ sstate[s] \in {"sentIntro", "connected"}
        /\ sstate' = [sstate EXCEPT ![s] = "disconnected"]
    BY <1>6 DEF ServeShutdown, LoseClient, Arrived, netVars
  <2>2. \A r \in Sessions : sstate'[r] = IF r = s THEN "disconnected" ELSE sstate[r]
    BY <2>1 DEF Inv, Types
  <2> QED BY <1>3, <2>1, <2>2 DEF New
<1>7. ASSUME NEW s \in Sessions, SendTcpOnly(s)
      PROVE  UdpInv'
  <2>1. /\ UNCHANGED <<opened, sstate>> /\ Reply(s, <<"TCP_ONLY">>)
        /\ sstate[s] \notin New
    BY <1>7 DEF SendTcpOnly, New
  <2>2. <<"TCP_ONLY">> \in Seq(ServerCommands) /\ ~Says(<<"TCP_ONLY">>, "UDP_CONFIRMATION")
    BY DEF ServerCommands, Says
  <2>3. \A r \in Sessions, x \in ServerCommands :
          Says(toClient'[r], x)
            => Says(toClient[r], x) \/ (r = s /\ Says(<<"TCP_ONLY">>, x))
    BY <2>1, <2>2, ReplySays
  <2> QED BY <1>3, <2>1, <2>2, <2>3
<1>8. ASSUME NEW s \in Sessions, Delete(s)
      PROVE  UdpInv'
  <2>1. PICK n \in 0 .. Len(toClient[s]) :
          toClient' = [toClient EXCEPT ![s] = SubSeq(@, 1, n)]
    BY <1>8 DEF Delete
  <2>2. /\ toClient \in [Sessions -> Seq(ServerCommands)]
        /\ toClient[s] \in Seq(ServerCommands)
    BY DEF Inv, Types
  <2>3. \A x : Says(SubSeq(toClient[s], 1, n), x) => Says(toClient[s], x)
    BY <2>1, <2>2, PrefixSays
  <2>4. \A r \in Sessions : toClient'[r] = IF r = s THEN SubSeq(toClient[s], 1, n)
                                           ELSE toClient[r]
    BY <2>1, <2>2
  <2>5. /\ UNCHANGED opened /\ sstate[s] \in {"rejected", "disconnected"}
        /\ \A r \in Sessions : sstate'[r] = IF r = s THEN "deleted" ELSE sstate[r]
    BY <1>8 DEF Delete, Deleted
  <2> QED BY <1>3, <2>3, <2>4, <2>5 DEF New
<1>9. ASSUME NEW s \in Sessions, LinkBreaks(s)
      PROVE  UdpInv'
  <2>1. UNCHANGED <<opened, sstate>> /\ toClient' = [toClient EXCEPT ![s] = <<>>]
    BY <1>9 DEF LinkBreaks, serverVars
  <2>2. /\ \A x : ~Says(<<>>, x)
        /\ \A r \in Sessions : toClient'[r] = IF r = s THEN <<>> ELSE toClient[r]
    BY <2>1 DEF Says, Inv, Types
  <2> QED BY <1>3, <2>1, <2>2
<1> QED BY <1>4, <1>5, <1>6, <1>7, <1>8, <1>9

LEMMA UdpStep == ASSUME Inv, UdpInv, [Next]_vars PROVE UdpInv'
<1>1. CASE UNCHANGED coreVars
  <2>1. UNCHANGED <<session, peer, key, opened, sstate, toClient, auths, intros, address,
                    from, to>>
    BY <1>1 DEF coreVars, netVars
  <2>2. UdpTypes'
    BY <2>1 DEF UdpInv, UdpTypes
  <2> QED BY <2>1, <2>2, UdpFrame
<1>2. CASE Next
  BY <1>2, StartUdp, ReadUdp, ClientUdp, ServeUdpIntroductionUdp, AcceptUdp,
     ServeIntroductionUdp, ServerUdp, AsideSteps, <1>1 DEF Next, TcpCallback
<1> QED BY <1>1, <1>2, AsideSteps

LEMMA UdpInit == Init => UdpInv
<1> SUFFICES ASSUME Init
             PROVE  UdpInv
  OBVIOUS
<1>1. UdpTypes
  BY DEF Init, UdpTypes
<1>2. /\ \A c \in Clients : session[c] = 0 /\ from[c] = {} /\ to[c] = {}
      /\ \A s \in Sessions : toClient[s] = <<>> /\ sstate[s] = "unused"
      /\ auths = {}
  BY DEF Init
<1>3. \A x : ~Says(<<>>, x)
  BY DEF Says
<1>4. SessionsOwned /\ KeysDrawn /\ AuthsOwned /\ AddressesKnown /\ IntrosSeen
  BY <1>2, <1>3 DEF SessionsOwned, KeysDrawn, AuthsOwned, AddressesKnown, IntrosSeen, New,
     ServerCommands
<1> QED BY <1>1, <1>4 DEF UdpInv

\* As long as the server draws no key twice, UDP is only used where it was seen to work in
\* this very session, for any number of clients whose datagrams are lost, late or repeated.
THEOREM DatagramsFindTheirClient ==
    ASSUME ~KeysRepeat
    PROVE  Spec => []UdpGoesToItsClient
<1>1. Inv /\ UdpInv => UdpGoesToItsClient
  BY DEF UdpInv, AddressesKnown, IntrosSeen, UdpGoesToItsClient
<1>2. Inv /\ UdpInv /\ [Next]_vars => (Inv /\ UdpInv)'
  BY UdpStep, NextKeeps
<1> QED BY <1>1, <1>2, InitEstablishes, UdpInit, PTL DEF Spec
----------------------------------------------------------------------------
(* TCP only: what a client no longer reads, the server is told not to send *)

Talking == {"exchanged", "waiting", "connected"}

ToldTypes ==
    /\ outbox \in [Clients -> Seq(ClientCommands)]
    /\ toServer \in [Sessions -> Seq(ClientCommands)]
    /\ tcpOnly \in [Sessions -> BOOLEAN] /\ ended \in [Sessions -> SUBSET Directions]

\* A client that was greeted talks to a session that was accepted: what accepting one
\* resets is not yet in use.
Greeted == \A c \in Clients : state[c] \in Talking => sstate[session[c]] \notin New

\* The server knows that this client takes TCP only, or a packet that says so is on its way.
Promised(c) ==
    \/ tcpOnly[session[c]]
    \/ Says(outbox[c], "TCP_ONLY") \/ Says(toServer[session[c]], "TCP_ONLY")

\* From the introduction on, not only once connected.
Told ==
    \A c \in Clients :
        state[c] \in Talking /\ "tcp" \in from[c] /\ ended[session[c]] = {} => Promised(c)

ToldInv == ToldTypes /\ Greeted /\ Told

\* Every step but a client's start changes what ToldInv speaks of in one of these ways.
LEMMA ToldFrame ==
    ASSUME Inv, ToldInv, ToldTypes', session' = session,
           \A s \in Sessions : /\ sstate[s] \notin New => sstate'[s] \notin New
                               /\ ended'[s] = {} => ended[s] = {},
           \A c \in Clients : state'[c] \in Talking =>
               /\ state[c] \notin Talking => session[c] \in Sessions
                                             /\ sstate'[session[c]] \notin New
               /\ "tcp" \in from'[c] =>
                    (state[c] \in Talking /\ "tcp" \in from[c]) \/ Promised(c)'
               /\ state[c] \in Talking /\ ended'[session[c]] = {} /\ Promised(c)
                    => Promised(c)'
    PROVE  ToldInv'
<1>1. \A c \in Clients : state[c] \in Talking => session[c] \in Sessions
  BY DEF Inv, Types, Talking
<1>2. Greeted'
  BY <1>1 DEF ToldInv, Greeted
<1>3. Told'
  BY <1>1 DEF ToldInv, Told
<1> QED BY <1>2, <1>3 DEF ToldInv

\* What is sent or flushed is somewhere on its way still, and a packet that is read is gone
\* only if it is the first.
LEMMA WordsStay ==
    ASSUME NEW S, NEW q \in Seq(S), NEW r \in Seq(S)
    PROVE  /\ q \o r \in Seq(S)
           /\ \A x : Says(q, x) \/ Says(r, x) => Says(q \o r, x)
           /\ \A n \in 0 .. Len(q) :
                /\ SubSeq(q, 1, n) \in Seq(S) /\ SubSeq(q, n + 1, Len(q)) \in Seq(S)
                /\ \A x : Says(q, x) =>
                     Says(SubSeq(q, 1, n), x) \/ Says(SubSeq(q, n + 1, Len(q)), x)
           /\ q # <<>> => \A x : Says(q, x) /\ Head(q) # x => Says(Tail(q), x)
<1>1. Len(q) \in Nat /\ Len(r) \in Nat
  OBVIOUS
<1>2. q \o r \in Seq(S) /\ \A x : Says(q, x) \/ Says(r, x) => Says(q \o r, x)
  <2>1. q \o r \in Seq(S) /\ Len(q \o r) = Len(q) + Len(r)
    OBVIOUS
  <2>2. \A i \in 1 .. Len(q) : i \in 1 .. Len(q \o r) /\ (q \o r)[i] = q[i]
    BY <1>1, <2>1
  <2>3. \A i \in 1 .. Len(r) : i + Len(q) \in 1 .. Len(q \o r) /\ (q \o r)[i + Len(q)] = r[i]
    BY <1>1, <2>1
  <2> QED BY <2>1, <2>2, <2>3 DEF Says
<1>3. ASSUME NEW n \in 0 .. Len(q)
      PROVE  /\ SubSeq(q, 1, n) \in Seq(S) /\ SubSeq(q, n + 1, Len(q)) \in Seq(S)
             /\ \A x : Says(q, x) =>
                  Says(SubSeq(q, 1, n), x) \/ Says(SubSeq(q, n + 1, Len(q)), x)
  <2>1. /\ SubSeq(q, 1, n) \in Seq(S) /\ Len(SubSeq(q, 1, n)) = n
        /\ \A i \in 1 .. n : SubSeq(q, 1, n)[i] = q[i]
    BY <1>1
  <2>2. /\ SubSeq(q, n + 1, Len(q)) \in Seq(S)
        /\ Len(SubSeq(q, n + 1, Len(q))) = Len(q) - n
        /\ \A i \in 1 .. Len(q) - n : SubSeq(q, n + 1, Len(q))[i] = q[n + i]
    BY <1>1
  <2>3. \A i \in 1 .. Len(q) :
          \/ i \in 1 .. n
          \/ i - n \in 1 .. Len(q) - n /\ n + (i - n) = i
    BY <1>1
  <2> SUFFICES ASSUME NEW x, NEW i \in 1 .. Len(q), q[i] = x
               PROVE  Says(SubSeq(q, 1, n), x) \/ Says(SubSeq(q, n + 1, Len(q)), x)
    BY <2>1, <2>2 DEF Says
  <2>4. CASE i \in 1 .. n
    BY <2>1, <2>4 DEF Says
  <2>5. CASE i - n \in 1 .. Len(q) - n /\ n + (i - n) = i
    BY <2>2, <2>5 DEF Says
  <2> QED BY <2>3, <2>4, <2>5
<1>4. ASSUME q # <<>>, NEW x, Says(q, x), Head(q) # x
      PROVE  Says(Tail(q), x)
  <2>1. Len(Tail(q)) = Len(q) - 1 /\ \A i \in 1 .. Len(q) - 1 : Tail(q)[i] = q[i + 1]
    BY <1>1, <1>4
  <2>2. PICK i \in 1 .. Len(q) : q[i] = x
    BY <1>4 DEF Says
  <2>3. i # 1
    BY <1>4, <2>2
  <2>4. i - 1 \in 1 .. Len(q) - 1 /\ (i - 1) + 1 = i
    BY <1>1, <2>3
  <2> QED BY <2>1, <2>2, <2>4 DEF Says
<1> QED BY <1>2, <1>3, <1>4

\* Queueing adds to a client's packets, flushing moves them to its connection.
LEMMA QueuedStays ==
    ASSUME ToldInv, NEW c \in Clients, NEW commands \in Seq(ClientCommands),
           Queued(c, commands)
    PROVE  /\ outbox' \in [Clients -> Seq(ClientCommands)]
           /\ \A d \in Clients : Says(outbox[d], "TCP_ONLY") => Says(outbox'[d], "TCP_ONLY")
           /\ Says(commands, "TCP_ONLY") => Says(outbox'[c], "TCP_ONLY")
<1>1. /\ outbox \in [Clients -> Seq(ClientCommands)] /\ outbox[c] \in Seq(ClientCommands)
      /\ outbox' = [outbox EXCEPT ![c] = @ \o commands]
  BY DEF ToldInv, ToldTypes, Queued
<1>2. /\ outbox[c] \o commands \in Seq(ClientCommands)
      /\ Says(outbox[c], "TCP_ONLY") \/ Says(commands, "TCP_ONLY")
           => Says(outbox[c] \o commands, "TCP_ONLY")
  BY <1>1, WordsStay
<1>3. \A d \in Clients : outbox'[d] = IF d = c THEN outbox[c] \o commands ELSE outbox[d]
  BY <1>1
<1> QED BY <1>1, <1>2, <1>3

LEMMA FlushStays ==
    ASSUME ToldInv, NEW c \in Clients, session[c] \in Sessions,
           NEW commands \in Seq(ClientCommands), Flush(c, commands)
    PROVE  /\ outbox' \in [Clients -> Seq(ClientCommands)]
           /\ toServer' \in [Sessions -> Seq(ClientCommands)]
           /\ \A d \in Clients : d # c => outbox'[d] = outbox[d]
           /\ \A s \in Sessions :
                Says(toServer[s], "TCP_ONLY") => Says(toServer'[s], "TCP_ONLY")
           /\ Says(outbox[c], "TCP_ONLY") =>
                Says(outbox'[c], "TCP_ONLY") \/ Says(toServer'[session[c]], "TCP_ONLY")
<1> DEFINE all == outbox[c] \o commands
<1>1. PICK n \in 0 .. Len(all) :
        /\ toServer' = [toServer EXCEPT ![session[c]] = @ \o SubSeq(all, 1, n)]
        /\ outbox' = [outbox EXCEPT ![c] = SubSeq(all, n + 1, Len(all))]
  BY DEF Flush
<1>2. /\ outbox \in [Clients -> Seq(ClientCommands)] /\ outbox[c] \in Seq(ClientCommands)
      /\ toServer \in [Sessions -> Seq(ClientCommands)]
      /\ toServer[session[c]] \in Seq(ClientCommands)
  BY DEF ToldInv, ToldTypes
<1>3. /\ all \in Seq(ClientCommands)
      /\ Says(outbox[c], "TCP_ONLY") => Says(all, "TCP_ONLY")
  BY <1>2, WordsStay
<1> HIDE DEF all
<1>4. /\ SubSeq(all, 1, n) \in Seq(ClientCommands)
      /\ SubSeq(all, n + 1, Len(all)) \in Seq(ClientCommands)
      /\ Says(all, "TCP_ONLY") => \/ Says(SubSeq(all, 1, n), "TCP_ONLY")
                                  \/ Says(SubSeq(all, n + 1, Len(all)), "TCP_ONLY")
  BY <1>1, <1>3, WordsStay
<1>5. /\ toServer[session[c]] \o SubSeq(all, 1, n) \in Seq(ClientCommands)
      /\ \/ Says(toServer[session[c]], "TCP_ONLY")
         \/ Says(SubSeq(all, 1, n), "TCP_ONLY")
         => Says(toServer[session[c]] \o SubSeq(all, 1, n), "TCP_ONLY")
  BY <1>2, <1>4, WordsStay
<1>6. /\ \A s \in Sessions : toServer'[s] = IF s = session[c]
                                            THEN toServer[session[c]] \o SubSeq(all, 1, n)
                                            ELSE toServer[s]
      /\ toServer' \in [Sessions -> Seq(ClientCommands)]
  BY <1>1, <1>2, <1>5
<1>7. /\ \A d \in Clients : outbox'[d] = IF d = c THEN SubSeq(all, n + 1, Len(all))
                                         ELSE outbox[d]
      /\ outbox' \in [Clients -> Seq(ClientCommands)]
  BY <1>1, <1>2, <1>4
<1> QED BY <1>3, <1>4, <1>5, <1>6, <1>7

\* A new attempt has no session that anybody was greeted by.
LEMMA StartTold ==
    ASSUME Inv, UdpInv, ToldInv, NEW c \in Clients, Start(c)
    PROVE  ToldInv'
<1>1. /\ UNCHANGED <<outbox, toServer, tcpOnly, ended>>
      /\ \A d \in Clients : d # c => from'[d] = from[d]
  BY DEF Start, UdpInv, UdpTypes
<1>2. ToldTypes'
  BY <1>1 DEF ToldInv, ToldTypes
<1>3. /\ \A d \in Clients : d # c => session'[d] = session[d] /\ state'[d] = state[d]
      /\ state'[c] \notin Talking
      /\ \A s \in Sessions : sstate[s] \notin New => sstate'[s] \notin New
  BY DEF Start, Inv, Types, New, Talking
<1>4. \A d \in Clients : state[d] \in Talking => session[d] \in Sessions
  BY DEF Inv, Types, Talking
<1>5. Greeted'
  BY <1>3, <1>4 DEF ToldInv, Greeted
<1>6. Told'
  BY <1>1, <1>3 DEF ToldInv, Told, Promised
<1> QED BY <1>2, <1>5, <1>6 DEF ToldInv

\* A client whose connection is closed has nobody left to tell.
LEMMA ClosingTold ==
    ASSUME Inv, ToldInv, NEW c \in Clients, CloseSockets(c), session' = session,
           UNCHANGED <<sstate, tcpOnly, from>>,
           state'[c] \in Talking => state[c] \in Talking,
           \A d \in Clients : d # c => state'[d] = state[d],
           \/ UNCHANGED <<outbox, toServer>>
           \/ session[c] \in Sessions /\ Flush(c, <<"SHUTDOWN">>)
    PROVE  ToldInv'
<1>1. /\ ended' \in [Sessions -> SUBSET Directions]
      /\ \A s \in Sessions : ended[s] \subseteq ended'[s]
      /\ session[c] \in Sessions => ended'[session[c]] # {}
  BY DEF CloseSockets, ToldInv, ToldTypes, Directions
<1>2. <<"SHUTDOWN">> \in Seq(ClientCommands)
  BY DEF ClientCommands
<1>3. /\ outbox' \in [Clients -> Seq(ClientCommands)]
      /\ toServer' \in [Sessions -> Seq(ClientCommands)]
      /\ \A d \in Clients : d # c => outbox'[d] = outbox[d]
      /\ \A s \in Sessions : Says(toServer[s], "TCP_ONLY") => Says(toServer'[s], "TCP_ONLY")
  BY <1>2, FlushStays DEF ToldInv, ToldTypes
<1>4. ToldTypes'
  BY <1>1, <1>3 DEF ToldInv, ToldTypes
<1>5. \A d \in Clients : state[d] \in Talking => session[d] \in Sessions
  BY DEF Inv, Types, Talking
<1>6. \A d \in Clients : state'[d] \in Talking =>
        /\ state[d] \in Talking
        /\ "tcp" \in from'[d] => state[d] \in Talking /\ "tcp" \in from[d]
        /\ ended'[session[d]] = {} /\ Promised(d) => Promised(d)'
  BY <1>1, <1>3, <1>5 DEF Promised
<1> QED BY <1>1, <1>4, <1>6, ToldFrame

\* A step of a client that leaves the server alone.
LEMMA QuietTold ==
    ASSUME Inv, ToldInv, NEW c \in Clients,
           UNCHANGED <<session, sstate, tcpOnly, toServer, ended>>,
           outbox' \in [Clients -> Seq(ClientCommands)],
           \A d \in Clients : Says(outbox[d], "TCP_ONLY") => Says(outbox'[d], "TCP_ONLY"),
           \A d \in Clients : d # c => state'[d] = state[d] /\ from'[d] = from[d],
           state'[c] \in Talking =>
               /\ state[c] \in Talking
                  \/ (session[c] \in Sessions /\ sstate[session[c]] \notin New)
               /\ "tcp" \in from'[c] =>
                    (state[c] \in Talking /\ "tcp" \in from[c]) \/ Says(outbox'[c], "TCP_ONLY")
    PROVE  ToldInv'
<1>1. ToldTypes'
  BY DEF ToldInv, ToldTypes
<1>2. \A d \in Clients : state'[d] \in Talking =>
        /\ state[d] \notin Talking => session[d] \in Sessions /\ sstate'[session[d]] \notin New
        /\ "tcp" \in from'[d] =>
             (state[d] \in Talking /\ "tcp" \in from[d]) \/ Promised(d)'
        /\ Promised(d) => Promised(d)'
  BY DEF Promised
<1> QED BY <1>1, <1>2, ToldFrame

\* A packet that a client reads: the introduction is where TCP only may begin.
LEMMA ReadTold ==
    ASSUME Inv, UdpInv, ToldInv, NEW c \in Clients, Read(c)
    PROVE  ToldInv'
<1>1. ASSUME NEW command, Incoming(c, command)
      PROVE  /\ UNCHANGED <<session, sstate, tcpOnly, toServer, ended>>
             /\ session[c] \in Sessions /\ Says(toClient[session[c]], command)
  BY <1>1, IncomingSays DEF Incoming, serverVars
<1>2. /\ state \in [Clients -> ClientStates] /\ from \in [Clients -> SUBSET Ways]
      /\ outbox \in [Clients -> Seq(ClientCommands)]
  BY DEF Inv, Types, UdpInv, UdpTypes, ToldInv, ToldTypes
<1>3. CASE GetIntroduction(c)
  <2>1. Incoming(c, "INTRODUCTION")
    BY <1>3 DEF GetIntroduction
  <2>2. CASE state[c] # "opened" /\ UNCHANGED <<state, from, to, outbox>>
    BY <1>1, <1>2, <2>1, <2>2, QuietTold
  <2>3. CASE /\ state' = [state EXCEPT ![c] = "exchanged"]
             /\ from' = [from EXCEPT ![c] = IF serverUdp THEN @ ELSE {"tcp"}]
             /\ Queued(c, <<"INTRODUCTION">> \o
                            IF "tcp" \in from'[c] THEN <<"TCP_ONLY">> ELSE <<>>)
    <3> DEFINE commands == <<"INTRODUCTION">> \o
                             IF "tcp" \in from'[c] THEN <<"TCP_ONLY">> ELSE <<>>
    <3>1. /\ <<"INTRODUCTION">> \in Seq(ClientCommands)
          /\ <<"TCP_ONLY">> \in Seq(ClientCommands) /\ <<>> \in Seq(ClientCommands)
          /\ Says(<<"TCP_ONLY">>, "TCP_ONLY")
      BY DEF ClientCommands, Says
    <3>2. /\ commands \in Seq(ClientCommands)
          /\ "tcp" \in from'[c] => Says(commands, "TCP_ONLY")
      BY <3>1, WordsStay
    <3> HIDE DEF commands
    <3>3. Queued(c, commands)
      BY <2>3 DEF commands
    <3>4. sstate[session[c]] \notin New /\ session[c] \in Sessions
      BY <1>1, <2>1 DEF UdpInv, SessionsOwned, ServerCommands
    <3>5. /\ outbox' \in [Clients -> Seq(ClientCommands)]
          /\ \A d \in Clients : Says(outbox[d], "TCP_ONLY") => Says(outbox'[d], "TCP_ONLY")
          /\ "tcp" \in from'[c] => Says(outbox'[c], "TCP_ONLY")
      BY <3>2, <3>3, QueuedStays
    <3>6. \A d \in Clients : d # c => state'[d] = state[d] /\ from'[d] = from[d]
      BY <1>2, <2>3
    <3> QED BY <1>1, <2>1, <3>4, <3>5, <3>6, QuietTold
  <2> QED BY <1>3, <2>2, <2>3 DEF GetIntroduction, Becomes
<1>4. ASSUME NEW command, Incoming(c, command), UNCHANGED <<from, outbox>>,
             \/ state' = state
             \/ \E st : /\ state' = [state EXCEPT ![c] = st]
                        /\ st \in Talking => state[c] \in Talking
      PROVE  ToldInv'
  BY <1>1, <1>2, <1>4, QuietTold
<1>5. CASE GetConnected(c)
  <2>1. /\ Incoming(c, "CONNECTED") /\ UNCHANGED <<from, outbox>>
        /\ \/ state' = state
           \/ state[c] = "exchanged" /\ state' = [state EXCEPT ![c] = "waiting"]
    BY <1>5 DEF GetConnected, Becomes
  <2> QED BY <1>4, <2>1 DEF Talking
<1>6. CASE GetRejected(c)
  <2>1. /\ Incoming(c, "REJECTED") /\ UNCHANGED <<from, outbox>>
        /\ \/ state' = [state EXCEPT ![c] = "rejected"]
           \/ state' = [state EXCEPT ![c] = state[c]]
    BY <1>6 DEF GetRejected, Becomes
  <2> QED BY <1>4, <2>1 DEF Talking
<1>7. CASE GetList(c)
  <2>1. /\ Incoming(c, "LIST") /\ UNCHANGED <<from, outbox>>
        /\ \/ state[c] = "waiting" /\ state' = [state EXCEPT ![c] = "connected"]
           \/ state' = [state EXCEPT ![c] = state[c]]
    BY <1>7 DEF GetList, Becomes
  <2> QED BY <1>4, <2>1 DEF Talking
<1>8. ASSUME NEW command, NEW way, GetWayToServer(c, command, way)
      PROVE  ToldInv'
  BY <1>4, <1>8 DEF GetWayToServer
<1>9. CASE GetShutdown(c) \/ LoseConnection(c)
  <2>1. /\ CloseSockets(c) /\ state' = [state EXCEPT ![c] = "lost"]
        /\ UNCHANGED <<session, sstate, tcpOnly, from>>
        /\ session[c] \in Sessions
        /\ UNCHANGED <<outbox, toServer>> \/ Flush(c, <<"SHUTDOWN">>)
    BY <1>9, AliveHasSession DEF GetShutdown, LoseConnection, Becomes, serverVars
  <2>2. /\ state'[c] \notin Talking
        /\ \A d \in Clients : d # c => state'[d] = state[d]
    BY <1>2, <2>1 DEF Talking
  <2> QED BY <2>1, <2>2, ClosingTold
<1> QED BY <1>3, <1>5, <1>6, <1>7, <1>8, <1>9 DEF Read

\* The other steps of a client: it says so when it gives UDP up.
LEMMA ClientTold ==
    ASSUME Inv, UdpInv, ToldInv, NEW c \in Clients,
           \/ SendData(c) \/ Disconnect(c) \/ Connect(c) \/ TimePasses(c)
           \/ \E s \in Sessions : GetUdpIntroduction(c, s)
    PROVE  ToldInv'
<1>1. /\ state \in [Clients -> ClientStates] /\ from \in [Clients -> SUBSET Ways]
      /\ outbox \in [Clients -> Seq(ClientCommands)]
  BY DEF Inv, Types, UdpInv, UdpTypes, ToldInv, ToldTypes
<1>2. CASE SendData(c)
  <2>1. /\ session[c] \in Sessions /\ Flush(c, <<>>) /\ <<>> \in Seq(ClientCommands)
        /\ UNCHANGED <<state, from, session, sstate, tcpOnly, ended>>
    BY <1>2, AliveHasSession DEF SendData, Looping, serverVars
  <2>2. /\ outbox' \in [Clients -> Seq(ClientCommands)]
        /\ toServer' \in [Sessions -> Seq(ClientCommands)]
        /\ \A d \in Clients : d # c => outbox'[d] = outbox[d]
        /\ \A s \in Sessions :
             Says(toServer[s], "TCP_ONLY") => Says(toServer'[s], "TCP_ONLY")
        /\ Says(outbox[c], "TCP_ONLY") =>
             Says(outbox'[c], "TCP_ONLY") \/ Says(toServer'[session[c]], "TCP_ONLY")
    BY <2>1, FlushStays
  <2>3. ToldTypes'
    BY <2>1, <2>2 DEF ToldInv, ToldTypes
  <2>4. \A d \in Clients : state[d] \in Talking => session[d] \in Sessions
    BY DEF Inv, Types, Talking
  <2>5. \A d \in Clients : state[d] \in Talking /\ Promised(d) => Promised(d)'
    BY <2>1, <2>2, <2>4 DEF Promised
  <2> QED BY <2>1, <2>3, <2>5, ToldFrame
<1>3. CASE Disconnect(c)
  <2>1. /\ CloseSockets(c) /\ state' = [state EXCEPT ![c] = "none"]
        /\ UNCHANGED <<session, sstate, tcpOnly, from>>
        /\ session[c] \in Sessions /\ Flush(c, <<"SHUTDOWN">>)
    BY <1>3, AliveHasSession DEF Disconnect, Becomes, serverVars
  <2>2. state'[c] \notin Talking /\ \A d \in Clients : d # c => state'[d] = state[d]
    BY <1>1, <2>1 DEF Talking
  <2> QED BY <2>1, <2>2, ClosingTold
<1>4. ASSUME NEW st, GiveUp(c, st), st = state[c] \/ st = "failed"
      PROVE  ToldInv'
  <2>1. /\ CloseSockets(c) /\ state' = [state EXCEPT ![c] = st]
        /\ UNCHANGED <<session, sstate, tcpOnly, from, outbox, toServer>>
    BY <1>4 DEF GiveUp, Becomes, serverVars
  <2>2. /\ state'[c] \in Talking => state[c] \in Talking
        /\ \A d \in Clients : d # c => state'[d] = state[d]
    BY <1>1, <1>4, <2>1 DEF Talking
  <2> QED BY <2>1, <2>2, ClosingTold
<1>5. ASSUME UNCHANGED <<state, from, session, outbox, sstate, tcpOnly, toServer, ended>>
      PROVE  ToldInv'
  BY <1>1, <1>5, QuietTold
<1>6. CASE TimePasses(c)
  BY <1>5, <1>6 DEF TimePasses, serverVars, netVars
<1>7. CASE Connect(c)
  <2>1. CASE /\ state[c] = "connected"
             /\ from' = [from EXCEPT ![c] = IF @ = {} THEN {"tcp"} ELSE @]
             /\ Queued(c, IF from[c] = {} THEN <<"TCP_ONLY">> ELSE <<>>)
             /\ \E st : state' = [state EXCEPT ![c] = st]
             /\ UNCHANGED <<session, sstate, tcpOnly, toServer, ended>>
    <3> DEFINE commands == IF from[c] = {} THEN <<"TCP_ONLY">> ELSE <<>>
    <3>1. /\ <<"TCP_ONLY">> \in Seq(ClientCommands) /\ <<>> \in Seq(ClientCommands)
          /\ Says(<<"TCP_ONLY">>, "TCP_ONLY")
      BY DEF ClientCommands, Says
    <3>2. /\ commands \in Seq(ClientCommands)
          /\ from[c] = {} => Says(commands, "TCP_ONLY")
      BY <3>1
    <3> HIDE DEF commands
    <3>3. Queued(c, commands)
      BY <2>1 DEF commands
    <3>4. /\ outbox' \in [Clients -> Seq(ClientCommands)]
          /\ \A d \in Clients : Says(outbox[d], "TCP_ONLY") => Says(outbox'[d], "TCP_ONLY")
          /\ from[c] = {} => Says(outbox'[c], "TCP_ONLY")
      BY <3>2, <3>3, QueuedStays
    <3>5. /\ \A d \in Clients : d # c => state'[d] = state[d] /\ from'[d] = from[d]
          /\ from[c] # {} => from'[c] = from[c]
      BY <1>1, <2>1
    <3>6. state[c] \in Talking
      BY <2>1 DEF Talking
    <3> QED BY <2>1, <3>4, <3>5, <3>6, QuietTold
  <2> QED BY <1>4, <1>5, <1>7, <2>1 DEF Connect, ContinueTcp, ContinueUdp, Becomes,
             serverVars, netVars
<1>8. ASSUME NEW s \in Sessions, GetUdpIntroduction(c, s)
      PROVE  ToldInv'
  <2>1. /\ UNCHANGED <<state, session, sstate, tcpOnly, toServer, ended>>
        /\ from' = [from EXCEPT ![c] = {"udp"}] /\ Queued(c, <<"UDP_CONFIRMATION">>)
    BY <1>8 DEF GetUdpIntroduction, serverVars, netVars
  <2>2. <<"UDP_CONFIRMATION">> \in Seq(ClientCommands)
    BY DEF ClientCommands
  <2>3. /\ outbox' \in [Clients -> Seq(ClientCommands)]
        /\ \A d \in Clients : Says(outbox[d], "TCP_ONLY") => Says(outbox'[d], "TCP_ONLY")
    BY <2>1, <2>2, QueuedStays
  <2>4. \A d \in Clients : from'[d] = IF d = c THEN {"udp"} ELSE from[d]
    BY <1>1, <2>1
  <2>5. "tcp" \notin from'[c] /\ \A d \in Clients : d # c => from'[d] = from[d]
    BY <2>4
  <2>6. state'[c] \in Talking => state[c] \in Talking
    BY <2>1
  <2> QED BY <2>1, <2>3, <2>5, <2>6, QuietTold
<1> QED BY <1>2, <1>3, <1>6, <1>7, <1>8

\* A session takes packets off in their order, and TCP only makes it tcpOnly.
LEMMA ArrivedTold ==
    ASSUME Inv, ToldInv, NEW s \in Sessions, NEW command, Arrived(s, command),
           \A r \in Sessions : sstate[r] \notin New => sstate'[r] \notin New,
           \/ tcpOnly' = tcpOnly /\ command # "TCP_ONLY"
           \/ tcpOnly' = [tcpOnly EXCEPT ![s] = TRUE]
    PROVE  ToldInv'
<1>1. /\ UNCHANGED <<state, session, from, outbox, ended>>
      /\ toServer[s] # <<>> /\ Head(toServer[s]) = command
      /\ toServer' = [toServer EXCEPT ![s] = Tail(@)]
  BY DEF Arrived, clientVars
<1>2. /\ toServer \in [Sessions -> Seq(ClientCommands)] /\ toServer[s] \in Seq(ClientCommands)
      /\ tcpOnly \in [Sessions -> BOOLEAN]
  BY DEF ToldInv, ToldTypes
<1>3. /\ Tail(toServer[s]) \in Seq(ClientCommands)
      /\ Says(toServer[s], "TCP_ONLY") /\ command # "TCP_ONLY"
           => Says(Tail(toServer[s]), "TCP_ONLY")
  BY <1>1, <1>2, WordsStay, TailSays
<1>4. \A r \in Sessions : /\ r # s => toServer'[r] = toServer[r]
                          /\ toServer'[s] = Tail(toServer[s])
  BY <1>1, <1>2
<1>5. /\ tcpOnly' \in [Sessions -> BOOLEAN]
      /\ \A r \in Sessions : tcpOnly[r] => tcpOnly'[r]
      /\ command = "TCP_ONLY" => tcpOnly'[s]
  BY <1>2
<1>6. ToldTypes'
  BY <1>1, <1>2, <1>3, <1>5 DEF ToldInv, ToldTypes
<1>7. \A d \in Clients : state[d] \in Talking => session[d] \in Sessions
  BY DEF Inv, Types, Talking
<1>8. \A d \in Clients : state[d] \in Talking /\ Promised(d) => Promised(d)'
  BY <1>1, <1>3, <1>4, <1>5, <1>7 DEF Promised
<1> QED BY <1>1, <1>6, <1>8, ToldFrame

\* What a session, the server and the network do.  Accepting a session resets its tcpOnly,
\* before any client was greeted by it.
LEMMA ServerTold ==
    ASSUME Inv, UdpInv, ToldInv,
           \/ CloseServer \/ \E c \in Clients, k \in Keys : ServeUdpIntroduction(c, k)
           \/ \E s \in Sessions : Accept(s) \/ TcpCallback(s) \/ LinkBreaks(s)
    PROVE  ToldInv'
<1>1. sstate \in [Sessions -> SessionStates]
  BY DEF Inv, Types
<1>2. ASSUME NEW s \in Sessions, Accept(s)
      PROVE  ToldInv'
  <2>1. /\ UNCHANGED <<state, session, from, outbox, toServer, ended>>
        /\ sstate[s] \in New /\ sstate' = [sstate EXCEPT ![s] = "sentIntro"]
        /\ tcpOnly' = [tcpOnly EXCEPT ![s] = ~serverUdp]
    BY <1>2 DEF Accept, New, clientVars
  <2>2. \A r \in Sessions : sstate[r] \notin New => sstate'[r] \notin New
    BY <1>1, <2>1 DEF New
  <2>3. ToldTypes' /\ \A r \in Sessions : r # s => tcpOnly'[r] = tcpOnly[r]
    BY <2>1 DEF ToldInv, ToldTypes
  <2>4. \A d \in Clients : state[d] \in Talking => session[d] \in Sessions /\ session[d] # s
    BY <2>1 DEF Inv, Types, Talking, ToldInv, Greeted
  <2>5. \A d \in Clients : state[d] \in Talking /\ Promised(d) => Promised(d)'
    BY <2>1, <2>3, <2>4 DEF Promised
  <2> QED BY <2>1, <2>2, <2>3, <2>5, ToldFrame
<1>3. ASSUME NEW s \in Sessions,
             \/ ServeIntroduction(s) \/ ServeUdpConfirmation(s) \/ ServeTcpOnly(s)
             \/ ServeShutdown(s)
      PROVE  ToldInv'
  <2>1. \A r \in Sessions : sstate[r] \notin New => sstate'[r] \notin New
    BY <1>1, <1>3 DEF ServeIntroduction, ServeUdpConfirmation, ServeTcpOnly, ServeShutdown,
       New
  <2> QED BY <1>3, <2>1, ArrivedTold DEF ServeIntroduction, ServeUdpConfirmation,
             ServeTcpOnly, ServeShutdown
<1>4. ASSUME UNCHANGED <<state, session, from, outbox, toServer, tcpOnly>>,
             ended' \in [Sessions -> SUBSET Directions],
             \A r \in Sessions : /\ sstate[r] \notin New => sstate'[r] \notin New
                                 /\ ended[r] \subseteq ended'[r]
      PROVE  ToldInv'
  <2>1. ToldTypes'
    BY <1>4 DEF ToldInv, ToldTypes
  <2>2. \A d \in Clients : Promised(d) => Promised(d)'
    BY <1>4 DEF Promised
  <2> QED BY <1>4, <2>1, <2>2, ToldFrame
<1>5. ended \in [Sessions -> SUBSET Directions]
  BY DEF ToldInv, ToldTypes
<1>6. ASSUME NEW s \in Sessions, SendTcpOnly(s) \/ LoseClient(s)
      PROVE  ToldInv'
  <2>1. /\ UNCHANGED <<state, session, from, outbox, toServer, tcpOnly, ended>>
        /\ \A r \in Sessions : sstate[r] \notin New => sstate'[r] \notin New
    BY <1>1, <1>6 DEF SendTcpOnly, LoseClient, New, clientVars, netVars
  <2> QED BY <1>4, <1>5, <2>1
<1>7. ASSUME NEW c \in Clients, NEW k \in Keys, ServeUdpIntroduction(c, k)
      PROVE  ToldInv'
  <2>1. UNCHANGED <<state, session, from, outbox, toServer, tcpOnly, ended, sstate>>
    BY <1>7 DEF ServeUdpIntroduction, clientVars
  <2> QED BY <1>4, <1>5, <2>1
<1>8. ASSUME NEW S, Deleted(S),
             UNCHANGED <<state, session, from, outbox, toServer, tcpOnly>>
      PROVE  ToldInv'
  <2>1. /\ \A r \in Sessions : sstate[r] \notin New => sstate'[r] \notin New
        /\ ended' \in [Sessions -> SUBSET Directions]
        /\ \A r \in Sessions : ended[r] \subseteq ended'[r]
    BY <1>5, <1>8 DEF Deleted, New, Directions
  <2> QED BY <1>4, <1>8, <2>1
<1>9. ASSUME NEW s \in Sessions, LinkBreaks(s)
      PROVE  ToldInv'
  <2>1. /\ UNCHANGED <<state, session, from, outbox, tcpOnly, sstate>>
        /\ toServer' = [toServer EXCEPT ![s] = <<>>]
        /\ ended' = [ended EXCEPT ![s] = Directions]
    BY <1>9 DEF LinkBreaks, clientVars, serverVars
  <2>2. ToldTypes'
    BY <2>1 DEF ToldInv, ToldTypes
  <2>3. \A r \in Sessions : /\ ended'[r] = {} => ended[r] = {} /\ r # s
                            /\ r # s => toServer'[r] = toServer[r]
    BY <1>5, <2>1 DEF ToldInv, ToldTypes, Directions
  <2>4. \A d \in Clients : state[d] \in Talking => session[d] \in Sessions
    BY DEF Inv, Types, Talking
  <2>5. \A d \in Clients : state[d] \in Talking /\ ended'[session[d]] = {} /\ Promised(d)
          => Promised(d)'
    BY <2>1, <2>3, <2>4 DEF Promised
  <2> QED BY <2>1, <2>2, <2>3, <2>5, ToldFrame
<1> QED BY <1>2, <1>3, <1>6, <1>7, <1>8, <1>9 DEF TcpCallback, CloseServer, Delete, clientVars

LEMMA ToldStep == ASSUME Inv, UdpInv, ToldInv, [Next]_vars PROVE ToldInv'
<1>1. CASE UNCHANGED coreVars
  <2>1. UNCHANGED <<state, session, from, outbox, sstate, tcpOnly, toServer, ended>>
    BY <1>1 DEF coreVars, netVars
  <2>2. ToldTypes' /\ \A d \in Clients : Promised(d) => Promised(d)'
    BY <2>1 DEF ToldInv, ToldTypes, Promised
  <2> QED BY <2>1, <2>2, ToldFrame
<1>2. CASE Next
  BY <1>2, StartTold, ReadTold, ClientTold, ServerTold, AsideSteps, <1>1 DEF Next
<1> QED BY <1>1, <1>2, AsideSteps

\* A client that is connected and no longer reads UDP has told the server so, or the packet
\* that says so is on its way (TcpOnlyTold): for any number of clients, whether or not keys
\* repeat and sockets fail to open.
THEOREM WhoStopsReadingSaysSo == Spec => []TcpOnlyTold
<1>1. Init => ToldInv
  BY DEF Init, ToldInv, ToldTypes, Greeted, Told, Talking
<1>2. Inv /\ ToldInv => TcpOnlyTold
  <2> SUFFICES ASSUME Inv, ToldInv, NEW c \in Clients,
                      state[c] = "connected", "tcp" \in from[c], ended[session[c]] = {}
               PROVE  \/ tcpOnly[session[c]]
                      \/ "TCP_ONLY" \in ToSet(outbox[c]) \cup ToSet(toServer[session[c]])
    BY DEF TcpOnlyTold
  <2>1. Promised(c) /\ session[c] \in Sessions
    BY DEF ToldInv, Told, Talking, Inv, Types
  <2>2. \A q : Says(q, "TCP_ONLY") => \E i \in 1 .. Len(q) : q[i] = "TCP_ONLY"
    BY DEF Says
  <2>3. /\ outbox[c] \in Seq(ClientCommands) /\ toServer[session[c]] \in Seq(ClientCommands)
    BY <2>1 DEF ToldInv, ToldTypes
  <2>4. \A q \in Seq(ClientCommands) : Says(q, "TCP_ONLY") => "TCP_ONLY" \in ToSet(q)
    BY <2>2 DEF ToSet
  <2> QED BY <2>1, <2>3, <2>4 DEF Promised
<1>3. Inv /\ UdpInv /\ ToldInv /\ [Next]_vars => (Inv /\ UdpInv /\ ToldInv)'
  BY ToldStep, UdpStep, NextKeeps
<1> QED BY <1>1, <1>2, <1>3, InitEstablishes, UdpInit, PTL DEF Spec
=============================================================================
