------------------------------ MODULE PacketStream ------------------------------
(***************************************************************************)
(* Packets over one TCP stream, byte by byte: ArNetPacketSenderTcp and         *)
(* ArNetPacketReceiverTcp.  A socket takes and gives as many bytes as it likes, *)
(* so a packet is written and read in any number of pieces; the receiver finds  *)
(* the packets' bounds by two sync bytes, a length and a checksum.            *)
(*                                                                         *)
(* One end is a client's.  When a connection has ended the client may connect   *)
(* again with the same sender and receiver, halfway through a packet or not;    *)
(* the server's are new each time.                                          *)
(***************************************************************************)
EXTENDS Naturals, SequencesExt

CONSTANTS
    Payloads,        \* the data of the packets, in the order they are sent
    MaxLength,       \* ArNetPacket::MAX_LENGTH
    Capacity,        \* how many bytes the connection holds
    BackupTimeout,   \* myBackupTimeout
    MaxReconnects    \* bound: how often the client connects again

Packets == DOMAIN Payloads
Bytes == 0 .. 255

ASSUME DataAssumption == Payloads \in Seq(Seq(Bytes))

ASSUME StreamAssumption ==
    /\ Len(Payloads) < 65536  \* told apart by two bytes
    /\ MaxLength \in Nat /\ MaxLength <= 32000 /\ Capacity \in Nat \ {0}
    /\ BackupTimeout \in Nat \ {0} /\ MaxReconnects \in Nat

VARIABLES
    clientEnd,    \* which end is the client's, and lives on: "sender" or "receiver"
    sent,         \* how many packets were given to sendPacket
    list,         \* myPacketList
    current,      \* myPacket of the sender, 0 for NULL
    alreadySent,  \* myAlreadySent
    sinceGood,    \* time since myLastGoodSend, up to BackupTimeout
    wire,         \* bytes on their way
    closed,       \* the sender's end has closed the connection
    state,        \* myState of the receiver
    readLength,   \* myReadLength
    readBuff,     \* the first myReadCount bytes of myReadBuff
    reading,      \* the receiver is in readData()
    dead,         \* its program has stopped without closing the connection
    got,          \* history: packets handed to the callback, 0 for one never sent
    next,         \* history: the packet that is to arrive next, or the first after it
    ragged,       \* history: this connection began within a packet
    reconnects    \* how often the client has connected again

senderVars == <<sent, list, current, alreadySent, sinceGood, closed>>
receiverVars == <<state, readLength, readBuff, reading, dead, got>>
connectionVars == <<clientEnd, ragged, reconnects>>
vars == <<senderVars, receiverVars, connectionVars, wire, next>>

States == {"SYNC1", "SYNC2", "LENGTH1", "LENGTH2", "ACQUIRE_DATA"}

----------------------------------------------------------------------------
(* ArNetPacket: what a packet looks like on the wire *)

Sync1 == 15
Sync2 == 12
Lo(n) == n % 256
Hi(n) == (n \div 256) % 256
Header == 6
Footer == 2

\* The bits of 16 in which a and b differ.
Xor(a, b) == FoldLeft(LAMBDA x, i : x + 2^i * ((a \div 2^i + b \div 2^i) % 2), 0,
                      [i \in 1 .. 16 |-> i - 1])

\* calcCheckSum: 16-bit words from the fourth byte on are added, the byte after the
\* last is xored; with an odd number of bytes one more is left out.
CheckSum(buf) ==
    LET words == (Len(buf) - 4) \div 2
        Word(i) == 256 * buf[2 * i + 2] + buf[2 * i + 3]
        Add(sum, i) == (sum + Word(i)) % 65536
    IN Xor(FoldLeft(Add, 0, [i \in 1 .. words |-> i]), buf[2 * words + 4])

Finalized(buf) == buf \o <<Hi(CheckSum(buf)), Lo(CheckSum(buf))>>

\* finalizePacket, with the packet's number for its command.
Packet == [p \in Packets |->
    LET length == Header + Len(Payloads[p]) + Footer
    IN Finalized(<<Sync1, Sync2, Lo(length), Hi(length), Lo(p), Hi(p)>> \o Payloads[p])]

\* setupPacket lets pass what is not longer than MAX_LENGTH without its footer, ...
ASSUME PayloadAssumption == \A p \in Packets : Len(Packet[p]) - Footer <= MaxLength

\* ... and sendData drops what is longer with it.
TooLong == {p \in Packets : Len(Packet[p]) > MaxLength}

----------------------------------------------------------------------------
Init ==
    /\ clientEnd \in {"sender", "receiver"}
    /\ sent = 0 /\ list = <<>> /\ current = 0 /\ alreadySent = 0 /\ sinceGood = 0
    /\ wire = <<>> /\ closed = FALSE
    /\ state = "SYNC1" /\ readLength = 0 /\ readBuff = <<>> /\ reading = FALSE
    /\ dead = FALSE /\ got = <<>> /\ next = 1 /\ ragged = FALSE /\ reconnects = 0

----------------------------------------------------------------------------
(* Sender: ArNetPacketSenderTcp *)

SendPacket ==
    /\ sent + 1 \in Packets
    /\ sent' = sent + 1 /\ list' = Append(list, sent + 1)
    /\ UNCHANGED <<current, alreadySent, sinceGood, closed, receiverVars, connectionVars,
                   wire, next>>

HasData == list # <<>> \/ current # 0

Full == Len(wire) = Capacity

\* Fault: the packet taken from the list stays there.
WriteAgain ==
    /\ ~closed /\ HasData
    /\ LET p == IF current = 0 THEN Head(list) ELSE current
           done == IF current = 0 THEN 0 ELSE alreadySent
           left == Len(Packet[p]) - done
       IN /\ p \notin TooLong
          /\ \E n \in 0 .. left :
               /\ Len(wire) + n <= Capacity /\ (n = 0 => Full)
               /\ wire' = wire \o SubSeq(Packet[p], done + 1, done + n)
               /\ current' = IF n = left THEN 0 ELSE p
               /\ alreadySent' = done + n
               /\ sinceGood' = IF n = 0 THEN sinceGood ELSE 0
               /\ closed' = (n = 0 /\ sinceGood = BackupTimeout)
    /\ UNCHANGED <<sent, list, receiverVars, connectionVars, next>>

\* Fault: the time counts from the last call that had nothing to send.
WriteWithoutClock ==
    /\ ~closed /\ HasData
    /\ LET p == IF current = 0 THEN Head(list) ELSE current
           done == IF current = 0 THEN 0 ELSE alreadySent
           left == Len(Packet[p]) - done
       IN /\ p \notin TooLong
          /\ \E n \in 0 .. left :
               /\ Len(wire) + n <= Capacity /\ (n = 0 => Full)
               /\ wire' = wire \o SubSeq(Packet[p], done + 1, done + n)
               /\ current' = IF n = left THEN 0 ELSE p
               /\ alreadySent' = done + n
               /\ closed' = (n = 0 /\ sinceGood = BackupTimeout)
          /\ list' = IF current = 0 THEN Tail(list) ELSE list
    /\ UNCHANGED <<sent, sinceGood, receiverVars, connectionVars, next>>

\* sendData, one write of its loop: the socket takes some of what is left, or nothing.
\* If it has taken nothing for too long the owner closes it.
Write ==
    /\ ~closed /\ HasData
    /\ LET p == IF current = 0 THEN Head(list) ELSE current
           done == IF current = 0 THEN 0 ELSE alreadySent
           left == Len(Packet[p]) - done
       IN /\ p \notin TooLong
          /\ \E n \in 0 .. left :
               /\ Len(wire) + n <= Capacity /\ (n = 0 => Full)
               /\ wire' = wire \o SubSeq(Packet[p], done + 1, done + n)
               /\ current' = IF n = left THEN 0 ELSE p
               /\ alreadySent' = done + n
               /\ sinceGood' = IF n = 0 THEN sinceGood ELSE 0
               /\ closed' = (n = 0 /\ sinceGood = BackupTimeout)
          /\ list' = IF current = 0 THEN Tail(list) ELSE list
    /\ UNCHANGED <<sent, receiverVars, connectionVars, next>>

\* sendData: a packet that turns out too long is deleted.
DropTooLong ==
    /\ ~closed /\ current = 0 /\ list # <<>> /\ Head(list) \in TooLong
    /\ list' = Tail(list)
    /\ UNCHANGED <<sent, current, alreadySent, sinceGood, closed, receiverVars, connectionVars,
                   wire, next>>

\* Fault: any call of sendData counts as a good send.
AnyCallIsGood ==
    /\ ~closed /\ sinceGood' = 0
    /\ UNCHANGED <<sent, list, current, alreadySent, closed, receiverVars, connectionVars,
                   wire, next>>

\* sendData has nothing to send, which counts as a good send.
NothingToSend ==
    /\ ~closed /\ ~HasData /\ sinceGood' = 0
    /\ UNCHANGED <<sent, list, current, alreadySent, closed, receiverVars, connectionVars,
                   wire, next>>

\* In the time that matters here a receiver that lives has read what is there.
TimePasses ==
    /\ ~closed /\ (wire = <<>> \/ dead) /\ sinceGood < BackupTimeout /\ sinceGood' = sinceGood + 1
    /\ UNCHANGED <<sent, list, current, alreadySent, closed, receiverVars, connectionVars,
                   wire, next>>

----------------------------------------------------------------------------
(* Receiver: ArNetPacketReceiverTcp *)

\* readData is called by the loop of whoever owns the connection.
BeginRead ==
    /\ ~dead /\ ~reading /\ reading' = TRUE
    /\ UNCHANGED <<senderVars, state, readLength, readBuff, dead, got, connectionVars, wire, next>>

\* readData ends when nothing is there, between packets and within a body; within a
\* header readPacket goes on trying.
EndRead ==
    /\ ~dead /\ reading /\ wire = <<>> /\ (closed \/ state \in {"SYNC1", "ACQUIRE_DATA"})
    /\ reading' = FALSE
    /\ UNCHANGED <<senderVars, state, readLength, readBuff, dead, got, connectionVars, wire, next>>

Taken(n) == wire' = SubSeq(wire, n + 1, Len(wire))

\* Fault: any length is taken for a packet's.
ReadByteUnchecked ==
    /\ ~dead /\ reading /\ wire # <<>> /\ state # "ACQUIRE_DATA" /\ Taken(1)
    /\ LET c == Head(wire)
           length == readLength + 256 * c
       IN \/ /\ state = "SYNC1" /\ state' = IF c = Sync1 THEN "SYNC2" ELSE "SYNC1"
             /\ UNCHANGED readLength
          \/ /\ state = "SYNC2" /\ state' = IF c = Sync2 THEN "LENGTH1" ELSE "SYNC1"
             /\ UNCHANGED readLength
          \/ state = "LENGTH1" /\ state' = "LENGTH2" /\ readLength' = c
          \/ /\ state = "LENGTH2" /\ readLength' = length
             /\ state' = "ACQUIRE_DATA"
    /\ readBuff' = <<>>
    /\ UNCHANGED <<senderVars, reading, dead, got, connectionVars, next>>

\* readPacket in a header: one byte.  What is not a packet's beginning is skipped.
ReadByte ==
    /\ ~dead /\ reading /\ wire # <<>> /\ state # "ACQUIRE_DATA" /\ Taken(1)
    /\ LET c == Head(wire)
           length == readLength + 256 * c
       IN \/ /\ state = "SYNC1" /\ state' = IF c = Sync1 THEN "SYNC2" ELSE "SYNC1"
             /\ UNCHANGED readLength
          \/ /\ state = "SYNC2" /\ state' = IF c = Sync2 THEN "LENGTH1" ELSE "SYNC1"
             /\ UNCHANGED readLength
          \/ state = "LENGTH1" /\ state' = "LENGTH2" /\ readLength' = c
          \/ /\ state = "LENGTH2" /\ readLength' = length
             /\ state' = IF length \in Header + Footer .. MaxLength THEN "ACQUIRE_DATA"
                         ELSE "SYNC1"
    /\ readBuff' = <<>>
    /\ UNCHANGED <<senderVars, reading, dead, got, connectionVars, next>>

\* The packet whose bytes these are, if one was sent.
Identified(buf) == IF \E p \in 1 .. sent : Packet[p] = buf
                   THEN CHOOSE p \in 1 .. sent : Packet[p] = buf ELSE 0

\* A packet is handed to the callback.
Invoked(buf) ==
    /\ got' = Append(got, Identified(buf))
    /\ next' = IF ragged THEN next ELSE Identified(buf) + 1

\* Fault: the body is only taken as a whole.
ReadBodyAtOnce ==
    /\ ~dead /\ reading /\ state = "ACQUIRE_DATA" /\ Len(wire) >= readLength - 4
    /\ LET body == SubSeq(wire, 1, readLength - 4)
           buf == <<Sync1, Sync2, Lo(readLength), Hi(readLength)>> \o body
       IN Invoked(buf)
    /\ Taken(readLength - 4) /\ readBuff' = <<>> /\ state' = "SYNC1"
    /\ UNCHANGED <<senderVars, readLength, reading, dead, connectionVars>>

\* readPacket in the body: as much as is there.  A complete packet whose checksum is
\* right goes to the callback.
ReadBody ==
    /\ ~dead /\ reading /\ wire # <<>> /\ state = "ACQUIRE_DATA"
    /\ \E n \in 1 .. Len(wire) :
         LET body == readBuff \o SubSeq(wire, 1, n)
             buf == <<Sync1, Sync2, Lo(readLength), Hi(readLength)>> \o body
         IN /\ Len(buf) <= readLength /\ Taken(n) /\ readBuff' = body
            /\ state' = IF Len(buf) = readLength THEN "SYNC1" ELSE state
            /\ \/ /\ Len(buf) = readLength /\ buf = Finalized(SubSeq(buf, 1, readLength - 2))
                  /\ Invoked(buf)
               \/ /\ ~(Len(buf) = readLength /\ buf = Finalized(SubSeq(buf, 1, readLength - 2)))
                  /\ UNCHANGED <<got, next>>
    /\ UNCHANGED <<senderVars, readLength, reading, dead, connectionVars>>

ReceiverDies ==
    /\ ~dead /\ dead' = TRUE
    /\ UNCHANGED <<senderVars, state, readLength, readBuff, reading, got, connectionVars, wire,
                   next>>

----------------------------------------------------------------------------
(* The connection ends, and the client connects again. *)

Reconnect ==
    /\ reconnects < MaxReconnects /\ reconnects' = reconnects + 1
    /\ wire' = <<>> /\ closed' = FALSE /\ reading' = FALSE
    /\ \/ /\ clientEnd = "sender"
          /\ state' = "SYNC1" /\ readLength' = 0 /\ readBuff' = <<>>
          /\ ragged' = (current # 0 /\ alreadySent > 0)
          /\ next' = IF current # 0 THEN current ELSE IF list # <<>> THEN Head(list) ELSE sent + 1
          /\ sinceGood' \in sinceGood .. BackupTimeout
          /\ UNCHANGED <<list, current, alreadySent>>
       \/ /\ clientEnd = "receiver" /\ ~dead
          /\ list' = <<>> /\ current' = 0 /\ alreadySent' = 0 /\ sinceGood' = 0
          /\ ragged' = (state # "SYNC1") /\ next' = sent + 1
          /\ UNCHANGED <<state, readLength, readBuff>>
    /\ dead' = FALSE /\ UNCHANGED <<clientEnd, sent, got>>

----------------------------------------------------------------------------
SendData == Write \/ DropTooLong \/ NothingToSend
ReadData == BeginRead \/ ReadByte \/ ReadBody

Next == SendPacket \/ SendData \/ TimePasses \/ ReadData \/ EndRead \/ ReceiverDies \/ Reconnect

Spec == Init /\ [][Next]_vars

\* The receiver's owner calls readData again and again; the sender may have stopped.
ReaderSpec == Spec /\ WF_vars(BeginRead) /\ WF_vars(ReadByte) /\ WF_vars(ReadBody)
                   /\ WF_vars(EndRead)

\* The sender's owner calls sendData again and again too, and time goes on.
FairSpec == ReaderSpec /\ WF_vars(SendData) /\ WF_vars(TimePasses)

----------------------------------------------------------------------------
(* Properties *)

\* Types; in particular what is read of a body fits its length, and that the limit.
TypeOK ==
    /\ clientEnd \in {"sender", "receiver"} /\ ragged \in BOOLEAN
    /\ sent \in 0 .. Len(Payloads) /\ list \in Seq(1 .. sent)
    /\ current \in 0 .. sent /\ alreadySent \in 0 .. MaxLength
    /\ sinceGood \in 0 .. BackupTimeout /\ Len(wire) <= Capacity
    /\ closed \in BOOLEAN /\ reading \in BOOLEAN /\ dead \in BOOLEAN
    /\ state \in States
    /\ state = "ACQUIRE_DATA" => /\ readLength \in Header + Footer .. MaxLength
                                 /\ Len(readBuff) < readLength - 4
    /\ got \in Seq(0 .. sent) /\ reconnects \in 0 .. MaxReconnects

\* sendData's timeout ends a connection only if nobody reads at its other end.
BackedUpMeansDead == closed => dead

\* However the packets are cut into pieces, on a connection that begins between packets
\* they arrive in order, once each and none is missing, and after what came before.  On
\* one that begins within a packet, bytes of its data may look like packets.
Channel == INSTANCE PacketChannel
ImplementsChannel == Channel!Spec

\* Until the connection breaks off or the receiver dies, what is sent arrives.
EverythingArrives ==
    \A p \in Packets \ TooLong :
        sent >= p ~> \/ p \in ToSet(got) \/ reconnects > 0 \/ dead

\* A connection whose other end is dead does not stay open when it has backed up.
BackedUpCloses ==
    dead /\ Full /\ (current # 0 \/ ~(ToSet(list) \subseteq TooLong)) ~> closed \/ ~dead

\* What a connection that begins within a packet may break: the receiver takes bytes of a
\* packet's data for a packet, if their checksum is right.
NothingInvented == 0 \notin ToSet(got)

\* ArNetPacketReceiverTcp.cpp:88: readData "reads in the available data in the TCP port",
\* and returns to the loop that serves all the other clients.
ReadReturns == reading ~> ~reading \/ dead
=============================================================================
