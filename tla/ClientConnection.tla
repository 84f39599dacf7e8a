---------------------------- MODULE ClientConnection ----------------------------
(***************************************************************************)
(* Connecting to the robot server: ArClientBase against ArServerClient.      *)
(*                                                                         *)
(* A client introduces itself by TCP, is accepted or rejected, waits for the *)
(* list of commands and is connected.  Beside that, each side finds out      *)
(* whether datagrams get through to the other: the server's UDP introduction *)
(* carries a key the client knows, the client's carries the key by which the *)
(* server knows the session; each is confirmed by TCP.  Both parties give up  *)
(* on a side of UDP when told to, and the client when it takes too long.      *)
(*                                                                         *)
(* A client object may connect again after a connection ended; every attempt *)
(* is a session of its own at the server.  TCP keeps order and may break; a  *)
(* datagram may be lost or delayed, and the server's may arrive again.      *)
(***************************************************************************)
EXTENDS Naturals, SequencesExt

CONSTANTS
    Clients,       \* ArClientBase objects, each with a UDP socket of its own
    NoClient,      \* an address that is nobody's
    MaxSessions,   \* bound: attempts that reach the server
    Keys,          \* what ArMath::random() may draw as myAuthKey
    Fragile,       \* bound: sessions whose connection the network may cut
    Stalling,      \* bound: clients to whom a packet may come in pieces
    Deferring,     \* bound: sessions that may get slow or idle packets
    KeysRepeat,    \* whether it may draw a key again; the code does not prevent it
    UdpFails       \* whether a client's UDP socket may fail to open

Sessions == 1 .. MaxSessions

ASSUME ConnectionAssumption ==
    /\ MaxSessions \in Nat \ {0}
    /\ NoClient \notin Clients /\ Stalling \subseteq Clients
    /\ Fragile \subseteq Sessions /\ Deferring \subseteq Sessions
    /\ KeysRepeat \in BOOLEAN /\ UdpFails \in BOOLEAN

VARIABLES
    state,      \* [Clients -> ClientStates], myState of the client
    phase,      \* [Clients -> Phases], myNonBlockingConnectState
    running,    \* the clients whose thread is running
    session,    \* [Clients -> 0 .. MaxSessions], the last session, 0 for none
    clock,      \* [Clients -> Clocks], time since the attempt or its UDP part began
    from,       \* [Clients -> SUBSET Ways], myUdpConfirmedFrom, myTcpOnlyFrom
    to,         \* [Clients -> SUBSET Ways], myUdpConfirmedTo, myTcpOnlyTo
    outbox,     \* [Clients -> Seq(ClientCommands)], packets in myTcpSender
    midHeader,  \* the clients whose thread reads on within a packet's header
    opened,     \* myOpened of the server
    serverUdp,  \* the server has a UDP port
    sstate,     \* [Sessions -> SessionStates], myState of the ArServerClient
    key,        \* [Sessions -> Keys], myAuthKey
    tcpOnly, sentTcpOnly,  \* [Sessions -> BOOLEAN], myTcpOnly, mySentTcpOnly
    flagged,    \* the sessions with myHaveSlowPackets or myHaveIdlePackets
    peer,       \* [Sessions -> Clients or NoClient], whose attempt it is
    address,    \* [Sessions -> Clients or NoClient], mySin
    toServer, toClient,    \* [Sessions -> Seq(...)], the TCP connection
    ended,      \* [Sessions -> SUBSET Directions] that no more data will enter
    intros,     \* datagrams to clients: UDP introductions of sessions
    auths       \* datagrams to the server: UDP introductions of clients

clientVars == <<state, phase, running, session, clock, from, to, outbox, midHeader>>
serverVars == <<opened, serverUdp, sstate, key, tcpOnly, sentTcpOnly, flagged, address>>
netVars == <<peer, toServer, toClient, ended, intros, auths>>
vars == <<clientVars, serverVars, netVars>>

ClientStates == {"none", "opened", "exchanged", "waiting", "connected",
                 "rejected", "failed", "lost"}
Phases == {"none", "tcp", "udp"}
Clocks == {"fresh", "late", "over"}   \* "late": two thirds of the timeout, for UDP
Ways == {"udp", "tcp"}
SessionStates == {"unused", "waiting", "sentIntro", "connected", "rejected",
                  "disconnected", "deleted"}
Directions == {"toServer", "toClient"}
ClientCommands == {"INTRODUCTION", "UDP_CONFIRMATION", "TCP_ONLY", "SHUTDOWN"}
ServerCommands == {"INTRODUCTION", "CONNECTED", "LIST", "REJECTED", "UDP_INTRODUCTION",
                   "UDP_CONFIRMATION", "TCP_ONLY", "SHUTDOWN"}

----------------------------------------------------------------------------
Init ==
    /\ state = [c \in Clients |-> "none"] /\ phase = [c \in Clients |-> "none"]
    /\ running = {} /\ session = [c \in Clients |-> 0]
    /\ clock = [c \in Clients |-> "fresh"]
    /\ from = [c \in Clients |-> {}] /\ to = [c \in Clients |-> {}]
    /\ outbox = [c \in Clients |-> <<>>] /\ midHeader = {}
    /\ opened = TRUE /\ serverUdp \in BOOLEAN
    /\ sstate = [s \in Sessions |-> "unused"]
    /\ \E k \in Keys : key = [s \in Sessions |-> k]
    /\ tcpOnly = [s \in Sessions |-> FALSE] /\ sentTcpOnly = [s \in Sessions |-> FALSE]
    /\ flagged = {} /\ peer = [s \in Sessions |-> NoClient]
    /\ address = [s \in Sessions |-> NoClient]
    /\ toServer = [s \in Sessions |-> <<>>] /\ toClient = [s \in Sessions |-> <<>>]
    /\ ended = [s \in Sessions |-> {}] /\ intros = {} /\ auths = {}

----------------------------------------------------------------------------
(* Client: ArClientBase *)

\* The sockets are closed; what is in the sender stays there.
CloseSockets(c) ==
    /\ ended' = [s \in Sessions |->
                   ended[s] \cup IF s = session[c] THEN {"toServer"} ELSE {}]
    /\ toClient' = [s \in Sessions |-> IF s = session[c] THEN <<>> ELSE toClient[s]]

\* clear(), then the sockets.  The UDP socket may fail to open, which leaves TCP.
\* A program does not connect a client anew whose last thread still reads.
Start(c) ==
    /\ phase[c] = "none" /\ state[c] \in {"none", "failed", "rejected", "lost"}
    /\ c \notin midHeader
    /\ \E ways \in {{}} \cup IF UdpFails THEN {{"tcp"}} ELSE {} :
         from' = [from EXCEPT ![c] = ways] /\ to' = [to EXCEPT ![c] = ways]
    /\ \/ \E s \in Sessions :
            /\ opened /\ sstate[s] = "unused" /\ \A r \in 1 .. s - 1 : sstate[r] # "unused"
            /\ sstate' = [sstate EXCEPT ![s] = "waiting"]
            /\ peer' = [peer EXCEPT ![s] = c] /\ session' = [session EXCEPT ![c] = s]
            /\ state' = [state EXCEPT ![c] = "opened"]
            /\ phase' = [phase EXCEPT ![c] = "tcp"] /\ clock' = [clock EXCEPT ![c] = "fresh"]
       \/ /\ ~opened /\ state' = [state EXCEPT ![c] = "failed"]
          /\ UNCHANGED <<sstate, peer, session, phase, clock>>
    /\ UNCHANGED <<running, outbox, midHeader, opened, serverUdp, key, tcpOnly, sentTcpOnly,
                   flagged, address, toServer, toClient, ended, intros, auths>>

\* loopOnce runs while connecting, then in the client's thread.
Alive(c) ==
    /\ phase[c] # "none" \/ c \in running
    /\ state[c] \in {"opened", "exchanged", "waiting", "connected"}

\* readPacket: once the first byte of a packet is there, a read of nothing is repeated
\* until the rest of the header comes or the connection turns out to be closed.
ReadStalls(c) ==
    /\ c \in Stalling /\ Alive(c) /\ toClient[session[c]] # <<>>
    /\ midHeader' = midHeader \cup {c}
    /\ UNCHANGED <<state, phase, running, session, clock, from, to, outbox, serverVars,
                   netVars>>

\* loopOnce goes on after its read.
Looping(c) == Alive(c) /\ c \notin midHeader

Incoming(c, command) ==
    /\ Alive(c) /\ toClient[session[c]] # <<>>
    /\ Head(toClient[session[c]]) = command
    /\ toClient' = [toClient EXCEPT ![session[c]] = Tail(@)]
    /\ midHeader' = midHeader \ {c}
    /\ UNCHANGED <<phase, running, session, clock, serverVars, peer, toServer,
                   ended, intros>>

Queued(c, commands) == outbox' = [outbox EXCEPT ![c] = @ \o commands]
Becomes(c, s) == state' = [state EXCEPT ![c] = s]

\* The server's introduction: a UDP port of 0 means TCP only, both ways.
GetIntroduction(c) ==
    /\ Incoming(c, "INTRODUCTION")
    /\ \/ /\ state[c] = "opened" /\ Becomes(c, "exchanged")
          /\ from' = [from EXCEPT ![c] = IF serverUdp THEN @ ELSE {"tcp"}]
          /\ to' = [to EXCEPT ![c] = IF serverUdp THEN @ ELSE {"tcp"}]
          /\ Queued(c, <<"INTRODUCTION">> \o
                       IF "tcp" \in from'[c] THEN <<"TCP_ONLY">> ELSE <<>>)
       \/ state[c] # "opened" /\ UNCHANGED <<state, from, to, outbox>>
    /\ UNCHANGED auths

\* Accepted: the one UDP introduction is sent, if there are a socket and a port.
GetConnected(c) ==
    /\ Incoming(c, "CONNECTED")
    /\ \/ /\ state[c] = "exchanged" /\ Becomes(c, "waiting")
          /\ auths' = IF "tcp" \in to[c] THEN auths
                      ELSE auths \cup {<<c, key[session[c]]>>}
       \/ state[c] # "exchanged" /\ UNCHANGED <<state, auths>>
    /\ UNCHANGED <<from, to, outbox>>

GetRejected(c) ==
    /\ Incoming(c, "REJECTED")
    /\ Becomes(c, IF state[c] \in {"exchanged", "waiting"} THEN "rejected" ELSE state[c])
    /\ UNCHANGED <<from, to, outbox, auths>>

GetList(c) ==
    /\ Incoming(c, "LIST")
    /\ Becomes(c, IF state[c] = "waiting" THEN "connected" ELSE state[c])
    /\ UNCHANGED <<from, to, outbox, auths>>

\* Confirmation of UDP, or TCP only: each counts once connected.  A UDP introduction
\* that comes by TCP does not count.
GetWayToServer(c, command, way) ==
    /\ Incoming(c, command)
    /\ to' = [to EXCEPT ![c] = IF state[c] = "connected" THEN @ \cup way ELSE @]
    /\ UNCHANGED <<state, from, outbox, auths>>

\* sendData: as many packets as the socket takes, after queueing some more.
Flush(c, commands) ==
    LET all == outbox[c] \o commands
    IN \E n \in 0 .. Len(all) :
         /\ "toServer" \in ended[session[c]] => n = 0
         /\ toServer' = [toServer EXCEPT ![session[c]] = @ \o SubSeq(all, 1, n)]
         /\ outbox' = [outbox EXCEPT ![c] = SubSeq(all, n + 1, Len(all))]

SendData(c) ==
    /\ Looping(c) /\ outbox[c] # <<>>
    /\ Flush(c, <<>>) /\ Len(outbox'[c]) = Len(outbox[c]) - 1
    /\ UNCHANGED <<state, phase, running, session, clock, from, to, midHeader, serverVars,
                   peer, toClient, ended, intros, auths>>

\* The server shuts down: the client disconnects, and the socket it goes on to read
\* from, now closed, counts as a connection lost.
GetShutdown(c) ==
    /\ Alive(c) /\ toClient[session[c]] # <<>> /\ Head(toClient[session[c]]) = "SHUTDOWN"
    /\ running' = running \ {c} /\ Flush(c, <<"SHUTDOWN">>) /\ CloseSockets(c)
    /\ Becomes(c, "lost") /\ midHeader' = midHeader \ {c}
    /\ UNCHANGED <<phase, session, clock, from, to, serverVars, peer, intros, auths>>

\* Fault: the introduction's key is not compared.
GetAnyUdpIntroduction(c, s) ==
    /\ Looping(c) /\ state[c] # "opened" /\ from[c] = {} /\ <<c, s>> \in intros
    /\ from' = [from EXCEPT ![c] = {"udp"}] /\ Queued(c, <<"UDP_CONFIRMATION">>)
    /\ UNCHANGED <<state, phase, running, session, clock, to, midHeader, serverVars, netVars>>

\* A UDP introduction, if UDP is still read; it must carry this session's key.
GetUdpIntroduction(c, s) ==
    /\ Looping(c) /\ state[c] # "opened" /\ from[c] = {}
    /\ <<c, s>> \in intros /\ s = session[c]
    /\ from' = [from EXCEPT ![c] = {"udp"}] /\ Queued(c, <<"UDP_CONFIRMATION">>)
    /\ UNCHANGED <<state, phase, running, session, clock, to, midHeader, serverVars, netVars>>

\* The connection turns out to be closed.
LoseConnection(c) ==
    /\ Alive(c) /\ toClient[session[c]] = <<>> /\ "toClient" \in ended[session[c]]
    /\ CloseSockets(c) /\ Becomes(c, "lost") /\ running' = running \ {c}
    /\ midHeader' = midHeader \ {c}
    /\ UNCHANGED <<phase, session, clock, from, to, outbox, serverVars, peer, toServer,
                   intros, auths>>

\* disconnect(), by the program or by disconnectSoon().  A thread within a header goes on
\* reading the closed socket.
Disconnect(c) ==
    /\ c \in running /\ Alive(c)
    /\ Flush(c, <<"SHUTDOWN">>) /\ CloseSockets(c)
    /\ Becomes(c, "none") /\ running' = running \ {c}
    /\ UNCHANGED <<phase, session, clock, from, to, midHeader, serverVars, peer, intros,
                   auths>>

\* internalNonBlockingConnectContinue, after its loopOnce().
GiveUp(c, s) ==
    /\ Becomes(c, s) /\ CloseSockets(c)
    /\ phase' = [phase EXCEPT ![c] = "none"] /\ clock' = [clock EXCEPT ![c] = "fresh"]
    /\ UNCHANGED <<running, session, from, to, outbox, midHeader, serverVars, peer, toServer,
                   intros, auths>>

\* Fault: there is no timeout.
ContinueTcpPatiently(c) ==
    /\ phase[c] = "tcp"
    /\ \/ state[c] \in {"rejected", "none", "lost"} /\ GiveUp(c, state[c])
       \/ /\ state[c] = "connected"
          /\ phase' = [phase EXCEPT ![c] = "udp"] /\ clock' = [clock EXCEPT ![c] = "fresh"]
          /\ UNCHANGED <<state, running, session, from, to, outbox, midHeader, serverVars,
                         netVars>>

\* TCP until the list is there, or the time is over.
ContinueTcp(c) ==
    /\ phase[c] = "tcp"
    /\ \/ state[c] \in {"rejected", "none", "lost"} /\ GiveUp(c, state[c])
       \/ /\ state[c] \in {"opened", "exchanged", "waiting"} /\ clock[c] = "over"
          /\ GiveUp(c, "failed")
       \/ /\ state[c] = "connected"
          /\ phase' = [phase EXCEPT ![c] = "udp"] /\ clock' = [clock EXCEPT ![c] = "fresh"]
          /\ UNCHANGED <<state, running, session, from, to, outbox, midHeader, serverVars,
                         netVars>>

\* Fault: the server is not told.
ContinueUdpSilently(c) ==
    /\ phase[c] = "udp"
    /\ \/ state[c] # "connected" /\ GiveUp(c, state[c])
       \/ /\ state[c] = "connected" /\ from[c] # {} /\ to[c] # {}
          /\ phase' = [phase EXCEPT ![c] = "none"] /\ clock' = [clock EXCEPT ![c] = "fresh"]
          /\ running' = running \cup {c}
          /\ UNCHANGED <<state, session, from, to, outbox, midHeader, serverVars, netVars>>
       \/ /\ state[c] = "connected" /\ {} \in {from[c], to[c]} /\ clock[c] # "fresh"
          /\ from' = [from EXCEPT ![c] = IF @ = {} THEN {"tcp"} ELSE @]
          /\ to' = [to EXCEPT ![c] = IF @ = {} THEN {"tcp"} ELSE @]
          /\ Becomes(c, IF clock[c] = "over" THEN "failed" ELSE "connected")
          /\ UNCHANGED <<phase, running, session, clock, outbox, midHeader, serverVars,
                         netVars>>

\* What is undecided after two thirds of the timeout is left to TCP.
ContinueUdp(c) ==
    /\ phase[c] = "udp"
    /\ \/ state[c] # "connected" /\ GiveUp(c, state[c])
       \/ /\ state[c] = "connected" /\ from[c] # {} /\ to[c] # {}
          /\ phase' = [phase EXCEPT ![c] = "none"] /\ clock' = [clock EXCEPT ![c] = "fresh"]
          /\ running' = running \cup {c}
          /\ UNCHANGED <<state, session, from, to, outbox, midHeader, serverVars, netVars>>
       \/ /\ state[c] = "connected" /\ {} \in {from[c], to[c]} /\ clock[c] # "fresh"
          /\ from' = [from EXCEPT ![c] = IF @ = {} THEN {"tcp"} ELSE @]
          /\ to' = [to EXCEPT ![c] = IF @ = {} THEN {"tcp"} ELSE @]
          /\ Queued(c, IF from[c] = {} THEN <<"TCP_ONLY">> ELSE <<>>)
          /\ Becomes(c, IF clock[c] = "over" THEN "failed" ELSE "connected")
          /\ UNCHANGED <<phase, running, session, clock, midHeader, serverVars, netVars>>

TimePasses(c) ==
    /\ phase[c] # "none" /\ clock[c] # "over"
    /\ clock' = [clock EXCEPT ![c] = IF phase[c] = "udp" /\ @ = "fresh" THEN "late"
                                     ELSE "over"]
    /\ UNCHANGED <<state, phase, running, session, from, to, outbox, midHeader, serverVars,
                   netVars>>

----------------------------------------------------------------------------
(* Server: ArServerBase and its ArServerClient objects *)

Present == {s \in Sessions : sstate[s] \in {"sentIntro", "connected", "rejected",
                                            "disconnected"}}

\* setupPacket refuses a client that has gone; a broken connection swallows the rest.
Replies(S, commands) ==
    toClient' = [s \in Sessions |->
                   IF s \in S /\ sstate[s] # "disconnected" /\ ended[s] = {}
                   THEN toClient[s] \o commands[s] ELSE toClient[s]]
Reply(s, commands) == Replies({s}, [r \in {s} |-> commands])

\* finishAcceptingSocket: a key is drawn, the introduction goes out.  The loop draws once
\* more after the key it found free, so no key is ruled out.
Accept(s) ==
    /\ opened /\ sstate[s] = "waiting" /\ \A r \in 1 .. s - 1 : sstate[r] # "waiting"
    /\ \E k \in Keys :
         /\ KeysRepeat \/ \A r \in 1 .. s - 1 : key[r] # k
         /\ key' = [key EXCEPT ![s] = k]
    /\ sstate' = [sstate EXCEPT ![s] = "sentIntro"]
    /\ tcpOnly' = [tcpOnly EXCEPT ![s] = ~serverUdp]
    /\ sentTcpOnly' = [sentTcpOnly EXCEPT ![s] = ~serverUdp]
    /\ Reply(s, <<"INTRODUCTION">>)
    /\ UNCHANGED <<opened, serverUdp, flagged, address, clientVars, peer, toServer, ended,
                   intros, auths>>

Arrived(s, command) ==
    /\ sstate[s] \in {"sentIntro", "connected"} /\ toServer[s] # <<>>
    /\ Head(toServer[s]) = command
    /\ toServer' = [toServer EXCEPT ![s] = Tail(@)]
    /\ UNCHANGED <<opened, serverUdp, key, sentTcpOnly, flagged, clientVars, peer, ended,
                   auths>>

\* Fault: after the rejection the session goes on as if the password had matched.
ServeIntroductionOnceRejected(s) ==
    /\ Arrived(s, "INTRODUCTION")
    /\ \/ /\ sstate[s] = "sentIntro"
          /\ \/ Reply(s, <<"REJECTED", "CONNECTED", "LIST">>)
             \/ Reply(s, <<"CONNECTED", "LIST">>)
          /\ sstate' = [sstate EXCEPT ![s] = "connected"]
          /\ address' = [address EXCEPT ![s] = peer[s]]
          /\ intros' = IF tcpOnly[s] THEN intros ELSE intros \cup {<<peer[s], s>>}
       \/ sstate[s] # "sentIntro" /\ UNCHANGED <<sstate, address, toClient, intros>>
    /\ UNCHANGED tcpOnly

\* The client's introduction: its password decides, or the server sends everybody
\* to another.
ServeIntroduction(s) ==
    /\ Arrived(s, "INTRODUCTION")
    /\ \/ /\ sstate[s] = "sentIntro" /\ Reply(s, <<"REJECTED">>)
          /\ sstate' = [sstate EXCEPT ![s] = "rejected"]
          /\ UNCHANGED <<address, intros>>
       \/ /\ sstate[s] = "sentIntro" /\ Reply(s, <<"CONNECTED", "LIST">>)
          /\ sstate' = [sstate EXCEPT ![s] = "connected"]
          /\ address' = [address EXCEPT ![s] = peer[s]]
          /\ intros' = IF tcpOnly[s] THEN intros ELSE intros \cup {<<peer[s], s>>}
       \/ sstate[s] # "sentIntro" /\ UNCHANGED <<sstate, address, toClient, intros>>
    /\ UNCHANGED tcpOnly

\* The server never looks at what UDP_CONFIRMATION sets.
ServeUdpConfirmation(s) ==
    /\ Arrived(s, "UDP_CONFIRMATION")
    /\ UNCHANGED <<sstate, tcpOnly, address, toClient, intros>>

ServeTcpOnly(s) ==
    /\ Arrived(s, "TCP_ONLY") /\ tcpOnly' = [tcpOnly EXCEPT ![s] = TRUE]
    /\ UNCHANGED <<sstate, address, toClient, intros>>

ServeShutdown(s) ==
    /\ Arrived(s, "SHUTDOWN") /\ sstate' = [sstate EXCEPT ![s] = "disconnected"]
    /\ UNCHANGED <<tcpOnly, address, toClient, intros>>

\* A client's UDP introduction goes to every session with its key.
ServeUdpIntroduction(c, k) ==
    /\ opened /\ serverUdp /\ <<c, k>> \in auths /\ auths' = auths \ {<<c, k>>}
    /\ LET S == {s \in Present : key[s] = k}
           U == {s \in S : ~tcpOnly[s] /\ sstate[s] # "disconnected"}
       IN /\ address' = [s \in Sessions |-> IF s \in S THEN c ELSE address[s]]
          /\ intros' = intros \cup ({c} \X U)
          /\ Replies(S, [s \in S |-> IF s \in U THEN <<"UDP_CONFIRMATION">>
                                     ELSE <<"UDP_INTRODUCTION", "UDP_CONFIRMATION">>])
    /\ UNCHANGED <<opened, serverUdp, sstate, key, tcpOnly, sentTcpOnly, flagged, clientVars,
                   peer, toServer, ended>>

\* tcpCallback, before it reads.
SendTcpOnly(s) ==
    /\ sstate[s] \in {"sentIntro", "connected"} /\ tcpOnly[s] /\ ~sentTcpOnly[s]
    /\ sentTcpOnly' = [sentTcpOnly EXCEPT ![s] = TRUE] /\ Reply(s, <<"TCP_ONLY">>)
    /\ UNCHANGED <<opened, serverUdp, sstate, key, tcpOnly, flagged, address, clientVars, peer,
                   toServer, ended, intros, auths>>

\* Fault: only a client that was never introduced is given up.
LoseNewClient(s) ==
    /\ sstate[s] = "sentIntro"
    /\ sstate' = [sstate EXCEPT ![s] = "disconnected"]
    /\ UNCHANGED <<opened, serverUdp, key, tcpOnly, sentTcpOnly, flagged, address, clientVars,
                   netVars>>

\* tcpCallback: no introduction within a minute, or the connection is closed.
LoseClient(s) ==
    /\ \/ sstate[s] = "sentIntro"
       \/ sstate[s] = "connected" /\ toServer[s] = <<>> /\ "toServer" \in ended[s]
    /\ sstate' = [sstate EXCEPT ![s] = "disconnected"]
    /\ UNCHANGED <<opened, serverUdp, key, tcpOnly, sentTcpOnly, flagged, address, clientVars,
                   netVars>>

\* A deleted session's connection is closed; of its packets some were sent.
Deleted(S) ==
    /\ sstate' = [s \in Sessions |-> IF s \in S THEN "deleted" ELSE sstate[s]]
    /\ ended' = [s \in Sessions |-> ended[s] \cup IF s \in S THEN {"toClient"} ELSE {}]
    /\ flagged' = flagged \ S

\* processPacket stores a slow or idle command of the program's, by TCP or UDP, and flags it.
DeferPacket(s) ==
    /\ s \in Deferring /\ sstate[s] = "connected" /\ flagged' = flagged \cup {s}
    /\ UNCHANGED <<opened, serverUdp, sstate, key, tcpOnly, sentTcpOnly, address, clientVars,
                   netVars>>

\* The thread for slow and idle commands has served what a session has; the session may
\* be disconnected by then.
ServeDeferred(s) ==
    /\ opened /\ s \in flagged /\ flagged' = flagged \ {s}
    /\ UNCHANGED <<opened, serverUdp, sstate, key, tcpOnly, sentTcpOnly, address, clientVars,
                   netVars>>

\* tcpCallback returns false; a disconnected session is kept while it is flagged.
Delete(s) ==
    /\ sstate[s] \in {"rejected", "disconnected"}
    /\ sstate[s] = "disconnected" => s \notin flagged
    /\ Deleted({s})
    /\ \E n \in 0 .. Len(toClient[s]) :
         toClient' = [toClient EXCEPT ![s] = SubSeq(@, 1, n)]
    /\ UNCHANGED <<opened, serverUdp, key, tcpOnly, sentTcpOnly, address, clientVars, peer,
                   toServer, intros, auths>>

\* close(): every client is told, then deleted.
CloseServer ==
    /\ opened /\ opened' = FALSE
    /\ Deleted(Present \cup {s \in Sessions : sstate[s] = "waiting"})
    /\ Replies(Present, [s \in Present |-> <<"SHUTDOWN">>])
    /\ UNCHANGED <<serverUdp, key, tcpOnly, sentTcpOnly, address, clientVars, peer, toServer,
                   intros, auths>>

\* The network cuts a connection: what was under way is gone.
LinkBreaks(s) ==
    /\ s \in Fragile /\ sstate[s] \notin {"unused", "waiting", "deleted"} /\ ended[s] = {}
    /\ ended' = [ended EXCEPT ![s] = Directions]
    /\ toServer' = [toServer EXCEPT ![s] = <<>>] /\ toClient' = [toClient EXCEPT ![s] = <<>>]
    /\ UNCHANGED <<clientVars, serverVars, peer, intros, auths>>

----------------------------------------------------------------------------
\* readData returns: a packet is complete, or the connection is closed.
Read(c) ==
    \/ GetIntroduction(c) \/ GetConnected(c) \/ GetRejected(c) \/ GetList(c)
    \/ GetShutdown(c) \/ LoseConnection(c)
    \/ GetWayToServer(c, "UDP_CONFIRMATION", {"udp"})
    \/ GetWayToServer(c, "TCP_ONLY", {"tcp"})
    \/ GetWayToServer(c, "UDP_INTRODUCTION", {})

Connect(c) == c \notin midHeader /\ (ContinueTcp(c) \/ ContinueUdp(c))

TcpCallback(s) ==
    \/ ServeIntroduction(s) \/ ServeUdpConfirmation(s) \/ ServeTcpOnly(s)
    \/ ServeShutdown(s) \/ SendTcpOnly(s) \/ LoseClient(s) \/ Delete(s)

Next ==
    \/ \E c \in Clients :
         \/ Start(c) \/ ReadStalls(c) \/ Read(c) \/ SendData(c) \/ Disconnect(c)
         \/ Connect(c) \/ TimePasses(c)
         \/ \E s \in Sessions : GetUdpIntroduction(c, s)
         \/ \E k \in Keys : ServeUdpIntroduction(c, k)
    \/ \E s \in Sessions :
         Accept(s) \/ TcpCallback(s) \/ DeferPacket(s) \/ ServeDeferred(s) \/ LinkBreaks(s)
    \/ CloseServer

Spec == Init /\ [][Next]_vars

\* A read returns at once unless it is within a header and the connection is open.
PromptRead(c) == Read(c) /\ (c \in midHeader => toClient[session[c]] = <<>>)

\* A client's loop runs, time passes, and a socket that is open takes data again some
\* day.  The server need not do anything, and no packet or datagram need arrive.
FairSpec ==
    /\ Spec
    /\ \A c \in Clients : /\ WF_vars(PromptRead(c)) /\ WF_vars(SendData(c))
                          /\ WF_vars(Connect(c)) /\ WF_vars(TimePasses(c))

\* Of a packet that begins to arrive at a client the rest of the header comes as well,
\* or the connection is seen to end.
HeadersComplete == \A c \in Clients : WF_vars(Read(c))

\* The server's loop runs and its own reads return.
ServerRuns == \A s \in Sessions : WF_vars(Accept(s) \/ TcpCallback(s))

\* The thread for slow and idle commands gets to every flagged session; to idle ones only
\* if the robot rests some day.
DeferredServed == \A s \in Sessions : WF_vars(ServeDeferred(s))

----------------------------------------------------------------------------
(* Properties *)

TypeOK ==
    /\ state \in [Clients -> ClientStates] /\ phase \in [Clients -> Phases]
    /\ running \subseteq Clients /\ session \in [Clients -> 0 .. MaxSessions]
    /\ clock \in [Clients -> Clocks]
    /\ from \in [Clients -> SUBSET Ways] /\ to \in [Clients -> SUBSET Ways]
    /\ outbox \in [Clients -> Seq(ClientCommands)] /\ midHeader \subseteq Clients
    /\ opened \in BOOLEAN /\ serverUdp \in BOOLEAN
    /\ sstate \in [Sessions -> SessionStates] /\ key \in [Sessions -> Keys]
    /\ tcpOnly \in [Sessions -> BOOLEAN] /\ sentTcpOnly \in [Sessions -> BOOLEAN]
    /\ flagged \subseteq Sessions /\ peer \in [Sessions -> Clients \cup {NoClient}]
    /\ address \in [Sessions -> Clients \cup {NoClient}]
    /\ toServer \in [Sessions -> Seq(ClientCommands)]
    /\ toClient \in [Sessions -> Seq(ServerCommands)]
    /\ ended \in [Sessions -> SUBSET Directions]
    /\ intros \subseteq Clients \X Sessions /\ auths \subseteq Clients \X Keys

\* A client that believes itself accepted was accepted, and one that believes itself
\* rejected was rejected, by the session it talks to.
VerdictsAgree ==
    \A c \in Clients :
        /\ state[c] \in {"waiting", "connected"} =>
             sstate[session[c]] \in {"connected", "disconnected", "deleted"}
        /\ state[c] = "rejected" => sstate[session[c]] \in {"rejected", "deleted"}

\* UDP is only used where it was seen to work in this very session: the server knows
\* where to send to, and what the client sends from belongs to its session.
UdpGoesToItsClient ==
    \A c \in Clients : state[c] = "connected" =>
        /\ "udp" \in to[c] => address[session[c]] = c
        /\ "udp" \in from[c] => <<c, session[c]>> \in intros

\* A client that no longer reads UDP has told the server so, or is about to.
TcpOnlyTold ==
    \A c \in Clients : LET s == session[c] IN
        state[c] = "connected" /\ "tcp" \in from[c] /\ ended[s] = {}
          => tcpOnly[s] \/ "TCP_ONLY" \in ToSet(outbox[c]) \cup ToSet(toServer[s])

\* An attempt to connect ends, whatever the server does and whenever the connection is
\* cut, unless the server or the network stops for ever within a packet's header.
AttemptsEnd ==
    HeadersComplete => \A c \in Clients : phase[c] # "none" ~> phase[c] = "none"

\* ArClientBase.cpp:202, of the timeout: "This value controls how long the client will
\* give to connect".  An attempt ends in any case.
AttemptsTimeOut == \A c \in Clients : phase[c] # "none" ~> phase[c] = "none"

\* A server that runs does not keep sessions whose clients have gone, once it has served
\* the slow and idle commands they left.
SessionsEnd ==
    ServerRuns /\ DeferredServed =>
        \A s \in Sessions : "toServer" \in ended[s] ~> sstate[s] = "deleted"

\* ArClientBase.cpp:302, of the clear() before an attempt: "the no connection state is
\* gotten to by a normal disconnect, and won't have had its data cleared".  A session's
\* first packet is the introduction, not what is left of the last one.
SessionStartsClean ==
    \A s \in Sessions : sstate[s] = "sentIntro" /\ toServer[s] # <<>> =>
        Head(toServer[s]) = "INTRODUCTION"
=============================================================================
