-------------------------- MODULE PacketStream_proofs --------------------------
(***************************************************************************)
(* Machine-checked proofs about PacketStream, for packets of any number,      *)
(* length and content, a connection of any capacity and any timeout.          *)
(*                                                                         *)
(* On a connection that began between packets the receiver stays in step with *)
(* the sender, byte by byte, however the stream is cut: so the packets it      *)
(* hands on are those that were sent, in order, once each.  On a connection    *)
(* that began within a packet bytes that look like a packet may be taken for   *)
(* one; the next connection that does not goes on where the sender is.        *)
(***************************************************************************)
EXTENDS PacketStream, SequenceTheorems, WellFoundedInduction, TLAPS

----------------------------------------------------------------------------
(* Packets *)

\* A set of numbers with zero and the successor of each of its members is all.
LEMMA AllNumbers ==
    ASSUME NEW T \in SUBSET Nat, 0 \in T, \A n \in T : n + 1 \in T
    PROVE  \A n \in Nat : n \in T
<1> DEFINE U == Nat \ T
<1>1. CASE U # {}
  <2>1. PICK n \in U : \A m \in U : ~ (<<m, n>> \in OpToRel(<, Nat))
    BY <1>1, NatLessThanWellFounded, WFMin
  <2>2. \A m \in U : ~ (m < n)
    BY <2>1 DEF OpToRel
  <2>3. n # 0 /\ n \in Nat
    BY <2>1
  <2>4. n - 1 \in Nat /\ n - 1 < n
    BY <2>3
  <2>5. n - 1 \in T
    BY <2>2, <2>4
  <2>6. (n - 1) + 1 = n
    BY <2>3
  <2> QED BY <2>1, <2>5, <2>6
<1> QED BY <1>1

\* What the assumption on the constants says of their sizes.
LEMMA Limits ==
    /\ Packets = 1 .. Len(Payloads) /\ Packets \subseteq Nat
    /\ \A p \in Packets : Payloads[p] \in Seq(Bytes)
    /\ Len(Payloads) \in Nat /\ Len(Payloads) < 65536
    /\ MaxLength \in Nat /\ MaxLength <= 32000
    /\ Capacity \in Nat /\ Capacity > 0
    /\ BackupTimeout \in Nat /\ BackupTimeout > 0 /\ MaxReconnects \in Nat
<1>1. Packets = 1 .. Len(Payloads) /\ Len(Payloads) \in Nat /\ Len(Payloads) < 65536
  <2>1. Payloads \in Seq(Seq(Bytes))
    BY DataAssumption
  <2>2. Len(Payloads) < 65536
    BY StreamAssumption
  <2> QED BY <2>1, <2>2, LenProperties DEF Packets
<1>2. MaxLength \in Nat /\ MaxLength <= 32000
  BY StreamAssumption
<1>3. /\ Capacity \in Nat /\ Capacity > 0
      /\ BackupTimeout \in Nat /\ BackupTimeout > 0 /\ MaxReconnects \in Nat
  BY StreamAssumption
<1>4. Packets \subseteq Nat
  BY <1>1
<1>5. ASSUME NEW p \in Packets PROVE Payloads[p] \in Seq(Bytes)
  <2>1. Payloads \in Seq(Seq(Bytes))
    BY DataAssumption
  <2> QED BY <1>1, <2>1, ElementOfSeq
<1> QED BY <1>1, <1>2, <1>3, <1>4, <1>5

\* What may be on the wire.
AnyByte == UNION {{Packet[p][i] : i \in DOMAIN Packet[p]} : p \in Packets}

\* The parts of a packet.
LEMMA PacketParts ==
    ASSUME NEW p \in Packets
    PROVE  LET b == Packet[p]
           IN /\ b \in Seq(AnyByte)
              /\ Len(b) = Header + Len(Payloads[p]) + Footer /\ Len(b) \in Nat /\ Len(b) >= 8
              /\ b[1] = Sync1 /\ b[2] = Sync2
              /\ b[3] = Lo(Len(b)) /\ b[4] = Hi(Len(b))
              /\ b[5] = Lo(p) /\ b[6] = Hi(p)
              /\ Finalized(SubSeq(b, 1, Len(b) - 2)) = b
<1> DEFINE d == Payloads[p]
           length == Header + Len(d) + Footer
           h == <<Sync1, Sync2, Lo(length), Hi(length), Lo(p), Hi(p)>>
           s == h \o d
           f == <<Hi(CheckSum(s)), Lo(CheckSum(s))>>
           b == Packet[p]
           S == Bytes \cup {h[1], h[2], h[3], h[4], h[5], h[6], f[1], f[2]}
<1>1. d \in Seq(Bytes) /\ Len(d) \in Nat
  <2>1. d \in Seq(Bytes)
    BY Limits
  <2> QED BY <2>1, LenProperties
<1>2. b = s \o f
  BY DEF Packet, Finalized
<1>3. d \in Seq(S)
  BY <1>1
<1>4. h \in Seq(S) /\ Len(h) = 6 /\ h[1] = Sync1 /\ h[2] = Sync2 /\ h[3] = Lo(length)
      /\ h[4] = Hi(length) /\ h[5] = Lo(p) /\ h[6] = Hi(p)
  OBVIOUS
<1>5. f \in Seq(S) /\ Len(f) = 2
  OBVIOUS
<1>6. length = Len(d) + 8
  BY <1>1 DEF Header, Footer
<1>7. Finalized(s) = s \o f
  BY DEF Finalized
<1> HIDE DEF S, h, f, d, length
<1>8. s \in Seq(S) /\ Len(s) = 6 + Len(d) /\ \A i \in 1 .. 6 : s[i] = h[i]
  <2>1. /\ s \in Seq(S) /\ Len(s) = Len(h) + Len(d)
        /\ \A i \in 1 .. Len(h) + Len(d) : s[i] = IF i <= Len(h) THEN h[i] ELSE d[i - Len(h)]
    BY <1>3, <1>4, ConcatProperties
  <2> HIDE DEF s
  <2> QED BY <1>1, <1>4, <2>1
<1> HIDE DEF s
<1>9. s \o f \in Seq(S) /\ Len(s \o f) = Len(s) + 2 /\ \A i \in 1 .. Len(s) : (s \o f)[i] = s[i]
  <2> DEFINE c == s \o f
  <2>1. /\ c \in Seq(S) /\ Len(c) = Len(s) + Len(f)
        /\ \A i \in 1 .. Len(s) + Len(f) : c[i] = IF i <= Len(s) THEN s[i] ELSE f[i - Len(s)]
    <3>1. s \in Seq(S) /\ f \in Seq(S)
      BY <1>5, <1>8
    <3> QED BY <3>1, ConcatProperties
  <2> HIDE DEF c
  <2>2. Len(s) \in Nat
    BY <1>8
  <2>3. Len(c) = Len(s) + 2 /\ \A i \in 1 .. Len(s) : c[i] = s[i]
    BY <1>5, <2>1, <2>2
  <2> QED BY <2>1, <2>3 DEF c
<1>10. /\ b \in Seq(S) /\ Len(b) = length
       /\ \A i \in 1 .. 6 : b[i] = h[i]
  BY <1>1, <1>2, <1>6, <1>8, <1>9
<1>11. SubSeq(b, 1, Len(b) - 2) = s
  <2>1. Len(b) - 2 = Len(s) /\ Len(s) \in Nat
    BY <1>1, <1>2, <1>8, <1>9
  <2>2. SubSeq(s \o f, 1, Len(s)) = s
    BY <1>5, <1>8, ConcatSimplifications, SubSeqOfConcat1, SubSeqFull
  <2> QED BY <1>2, <2>1, <2>2
<1>12. b \in Seq(AnyByte)
  <2>1. b \in Seq(S) /\ \A i \in 1 .. Len(b) : b[i] \in AnyByte
    BY <1>10 DEF AnyByte
  <2> HIDE DEF b
  <2> QED BY <2>1
<1>13. b[1] = h[1] /\ b[2] = h[2] /\ b[3] = h[3] /\ b[4] = h[4] /\ b[5] = h[5] /\ b[6] = h[6]
  BY <1>10
<1>14. Finalized(SubSeq(b, 1, Len(b) - 2)) = b
  BY <1>2, <1>7, <1>11
<1>15. Len(b) = Header + Len(d) + Footer /\ Len(b) \in Nat /\ Len(b) >= 8
  <2>1. Len(b) = length
    BY <1>10
  <2>2. length = Header + Len(d) + Footer
    BY DEF length
  <2>3. Len(d) \in Nat
    BY <1>1
  <2> HIDE DEF b
  <2> QED BY <1>6, <2>1, <2>2, <2>3
<1>16. b[3] = Lo(Len(b)) /\ b[4] = Hi(Len(b))
  BY <1>4, <1>10, <1>13
<1> HIDE DEF b
<1> QED BY <1>4, <1>12, <1>13, <1>14, <1>15, <1>16 DEF b, d

\* A number of 16 bits is known by its two bytes.
LEMMA TwoBytes ==
    ASSUME NEW a \in Nat, NEW b \in Nat, a < 65536, b < 65536, Lo(a) = Lo(b), Hi(a) = Hi(b)
    PROVE  a = b
BY DEF Lo, Hi

\* Their numbers tell packets apart.
LEMMA PacketsDiffer ==
    ASSUME NEW p \in Packets, sent \in Nat, sent <= Len(Payloads), p <= sent
    PROVE  Identified(Packet[p]) = p
<1>1. ASSUME NEW q \in Packets, Packet[q] = Packet[p] PROVE q = p
  <2>1. Packet[p][5] = Lo(p) /\ Packet[p][6] = Hi(p)
    BY PacketParts
  <2>2. Packet[q][5] = Lo(q) /\ Packet[q][6] = Hi(q)
    BY PacketParts
  <2>3. Len(Payloads) \in Nat /\ Len(Payloads) < 65536 /\ Packets = 1 .. Len(Payloads)
    BY Limits
  <2>4. p \in Nat /\ q \in Nat /\ p <= Len(Payloads) /\ q <= Len(Payloads)
    BY <2>3
  <2>5. p < 65536 /\ q < 65536
    BY <2>3, <2>4
  <2> QED BY <1>1, <2>1, <2>2, <2>4, <2>5, TwoBytes
<1>2. 1 .. sent \subseteq Packets /\ p \in 1 .. sent
  BY Limits
<1> QED BY <1>1, <1>2 DEF Identified

\* What is handed on was sent, or is marked as what was not.
LEMMA IdentifiedSent ==
    ASSUME NEW buf, sent \in Nat PROVE Identified(buf) \in 0 .. sent
<1>1. CASE \E p \in 1 .. sent : Packet[p] = buf
  BY <1>1 DEF Identified
<1>2. CASE ~ \E p \in 1 .. sent : Packet[p] = buf
  BY <1>2 DEF Identified
<1> QED BY <1>1, <1>2

\* The length's two bytes.
LEMMA LengthFits ==
    ASSUME NEW p \in Packets \ TooLong
    PROVE  /\ Len(Packet[p]) \in Header + Footer .. MaxLength
           /\ Lo(Len(Packet[p])) + 256 * Hi(Len(Packet[p])) = Len(Packet[p])
<1> DEFINE n == Len(Packet[p])
<1>1. n \in Nat /\ n >= 8 /\ n <= 32000 /\ n <= MaxLength
  <2>1. n \in Nat /\ n >= 8
    BY PacketParts
  <2>2. n <= MaxLength
    <3>1. MaxLength \in Nat /\ ~(n > MaxLength)
      BY Limits DEF TooLong
    <3> QED BY <2>1, <3>1
  <2>3. MaxLength \in Nat /\ MaxLength <= 32000
    BY Limits
  <2> HIDE DEF n
  <2> QED BY <2>1, <2>2, <2>3
<1> HIDE DEF n
<1>2. Lo(n) + 256 * Hi(n) = n
  <2>1. n \in Nat /\ n < 65536
    BY <1>1, SMTT(30)
  <2>2. (n \div 256) % 256 = n \div 256
    BY <2>1
  <2>3. n = 256 * (n \div 256) + (n % 256)
    BY <2>1
  <2>4. Hi(n) = n \div 256 /\ Lo(n) = n % 256
    BY <2>2 DEF Lo, Hi
  <2>5. n \div 256 \in Nat /\ n % 256 \in Nat
    BY <2>1
  <2> QED BY <2>3, <2>4, <2>5
<1>3. n \in Header + Footer .. MaxLength
  BY <1>1, Limits DEF Header, Footer
<1> QED BY <1>2, <1>3 DEF n

----------------------------------------------------------------------------
(* The invariant *)

\* Packets that are carried, and numbers between which none is.
Carried == Packets \ TooLong
Between(a, b) == a <= b /\ \A q \in a .. (b - 1) : q \in TooLong

\* The packet whose bytes are next to be sent, or a later one.
First == IF current # 0 THEN current ELSE (sent - Len(list)) + 1

\* The sender's packets are numbered without a gap.
Numbered ==
    /\ sent \in Nat /\ sent <= Len(Payloads)
    /\ list \in Seq(Nat) /\ Len(list) <= sent
    /\ \A i \in 1 .. Len(list) : list[i] = (sent - Len(list)) + i
    /\ current \in Nat /\ alreadySent \in Nat /\ alreadySent <= MaxLength
    /\ current # 0 => /\ current = sent - Len(list) /\ current \in Carried
                      /\ alreadySent < Len(Packet[current])

\* The timeout runs only where nobody reads.
Idling ==
    /\ sinceGood \in 0 .. BackupTimeout /\ closed \in BOOLEAN /\ dead \in BOOLEAN
    /\ sinceGood # 0 => wire = <<>> \/ dead
    /\ closed => dead

\* What is read of a body fits its length.
Receiving ==
    /\ state \in States /\ reading \in BOOLEAN /\ readBuff \in Seq(AnyByte)
    /\ state = "ACQUIRE_DATA" => /\ readLength \in Header + Footer .. MaxLength
                                 /\ Len(readBuff) < readLength - 4

Piped ==
    /\ wire \in Seq(AnyByte) /\ Len(wire) <= Capacity
    /\ clientEnd \in {"sender", "receiver"} /\ ragged \in BOOLEAN
    /\ next \in Nat /\ reconnects \in 0 .. MaxReconnects

\* A place in the stream is a packet's number and how many of its bytes are past; at
\* zero it may be a later packet that follows.  At is the place after k bytes of p.
At(q, l, p, k) == IF k = Len(Packet[p]) THEN q = p + 1 /\ l = 0 ELSE q = p /\ l = k

\* The places between the bytes w, given by num and off: no packet is after sent, they
\* only go on, a packet that has begun is gone through, and the bytes are its bytes.
Within(num, off, w) ==
    \A i \in 0 .. Len(w) :
        off[i] > 0 => num[i] \in Carried /\ num[i] <= sent /\ off[i] < Len(Packet[num[i]])
Rising(num, w) ==
    \A i, j \in 0 .. Len(w) : i <= j => num[i] <= num[j]
Runs(num, off, w) ==
    \A i, j \in 0 .. Len(w) :
        i <= j /\ off[i] > 0 /\ off[i] + (j - i) <= Len(Packet[num[i]])
            => At(num[j], off[j], num[i], off[i] + (j - i))
Carries(num, off, w) ==
    \A i \in 1 .. Len(w) :
        IF off[i - 1] > 0 THEN w[i] = Packet[num[i - 1]][off[i - 1] + 1]
        ELSE off[i] = 1 /\ Between(num[i - 1], num[i]) /\ w[i] = Sync1

Path(num, off, w) ==
    /\ num \in [0 .. Len(w) -> Nat] /\ off \in [0 .. Len(w) -> Nat]
    /\ Within(num, off, w) /\ Rising(num, w) /\ Runs(num, off, w) /\ Carries(num, off, w)

\* The bytes w are what is between the places p, k and q, l.
Connects(w, p, k, q, l) ==
    \E num, off \in [0 .. Len(w) -> Nat] :
        /\ Path(num, off, w) /\ num[0] = p /\ off[0] = k
        /\ num[Len(w)] = q /\ off[Len(w)] = l

\* The receiver has read up to k bytes of p.
Reads(p, k) ==
    /\ state = "SYNC1" => p = next /\ k = 0
    /\ state # "SYNC1" => p \in Carried /\ Between(next, p) /\ k > 0
    /\ state = "SYNC2" => k = 1
    /\ state = "LENGTH1" => k = 2
    /\ state = "LENGTH2" => k = 3 /\ readLength = Lo(Len(Packet[p]))
    /\ state = "ACQUIRE_DATA" =>
         /\ k = 4 + Len(readBuff) /\ readLength = Len(Packet[p])
         /\ \A i \in 1 .. Len(readBuff) : readBuff[i] = Packet[p][4 + i]

\* The sender has written up to k bytes of p.
Writes(p, k) ==
    IF current # 0 /\ alreadySent > 0 THEN p = current /\ k = alreadySent
    ELSE k = 0 /\ Between(p, First)

\* Receiver and sender agree on what the bytes between them are.
InSync ==
    ~ragged => \E num, off \in [0 .. Len(wire) -> Nat] :
                   /\ Path(num, off, wire) /\ Reads(num[0], off[0])
                   /\ Writes(num[Len(wire)], off[Len(wire)])

Types == Numbered /\ Idling /\ Receiving /\ Piped
Inv == Types /\ InSync

----------------------------------------------------------------------------
(* Places *)

\* Bytes that are read are gone; the others keep their places.
LEMMA PathRead ==
    ASSUME NEW w \in Seq(AnyByte), NEW num, NEW off, Path(num, off, w),
           NEW n \in 0 .. Len(w)
    PROVE  Connects(SubSeq(w, n + 1, Len(w)), num[n], off[n], num[Len(w)], off[Len(w)])
<1> DEFINE v == SubSeq(w, n + 1, Len(w))
           m == Len(w) - n
           a == [i \in 0 .. m |-> num[i + n]]
           b == [i \in 0 .. m |-> off[i + n]]
<1>1. Len(w) \in Nat /\ n \in Nat /\ n <= Len(w) /\ m \in Nat
  OBVIOUS
<1>2. v \in Seq(AnyByte) /\ Len(v) = m /\ \A i \in 1 .. m : v[i] = w[n + i]
  <2>1. n + 1 \in 1 .. Len(w) + 1 /\ Len(w) \in (n + 1) - 1 .. Len(w)
    BY <1>1
  <2>2. v \in Seq(AnyByte) /\ Len(v) = (IF n + 1 <= Len(w) THEN Len(w) - (n + 1) + 1 ELSE 0)
        /\ \A i \in 1 .. Len(w) - (n + 1) + 1 : v[i] = w[(n + 1) + i - 1]
    BY <2>1, SubSeqProperties
  <2> HIDE DEF v
  <2> QED BY <1>1, <2>2
<1> HIDE DEF v, m
<1>3. \A i \in 0 .. m : i + n \in 0 .. Len(w) /\ a[i] = num[i + n] /\ b[i] = off[i + n]
  BY <1>1 DEF m
<1>4. a \in [0 .. m -> Nat] /\ b \in [0 .. m -> Nat]
  BY <1>3 DEF Path
<1>5. Within(a, b, v)
  BY <1>2, <1>3 DEF Path, Within
<1>6. Rising(a, v)
  <2> SUFFICES ASSUME NEW i \in 0 .. m, NEW j \in 0 .. m, i <= j PROVE a[i] <= a[j]
    BY <1>2 DEF Rising
  <2> QED BY <1>1, <1>3, SMTT(30) DEF Path, Rising
<1>7. Runs(a, b, v)
  <2> SUFFICES ASSUME NEW i \in 0 .. m, NEW j \in 0 .. m, i <= j, b[i] > 0,
                      b[i] + (j - i) <= Len(Packet[a[i]])
               PROVE  At(a[j], b[j], a[i], b[i] + (j - i))
    BY <1>2 DEF Runs
  <2>1. (j + n) - (i + n) = j - i /\ i + n <= j + n
    BY <1>1
  <2> HIDE DEF a, b
  <2> QED BY <1>3, <2>1 DEF Path, Runs
<1>8. Carries(a, b, v)
  <2> SUFFICES ASSUME NEW i \in 1 .. m
               PROVE  IF b[i - 1] > 0 THEN v[i] = Packet[a[i - 1]][b[i - 1] + 1]
                      ELSE b[i] = 1 /\ Between(a[i - 1], a[i]) /\ v[i] = Sync1
    BY <1>2 DEF Carries
  <2>1. i - 1 \in 0 .. m /\ i \in 0 .. m /\ n + i \in 1 .. Len(w) /\ (n + i) - 1 = (i - 1) + n
        /\ n + i = i + n
    BY <1>1 DEF m
  <2> HIDE DEF a, b
  <2> QED BY <1>2, <1>3, <2>1 DEF Path, Carries
<1>9. a[0] = num[n] /\ b[0] = off[n] /\ a[m] = num[Len(w)] /\ b[m] = off[Len(w)]
  BY <1>1, <1>3 DEF m
<1> HIDE DEF a, b
<1>10. Path(a, b, v)
  BY <1>2, <1>4, <1>5, <1>6, <1>7, <1>8 DEF Path
<1>11. Connects(v, num[n], off[n], num[Len(w)], off[Len(w)])
  BY <1>2, <1>4, <1>9, <1>10 DEF Connects
<1> QED BY <1>11 DEF v

\* Bytes that are written go behind the others, from the place where these end.
LEMMA PathWritten ==
    ASSUME sent \in Nat, NEW w \in Seq(AnyByte), NEW num, NEW off, Path(num, off, w),
           NEW p \in Carried, p <= sent,
           NEW done \in Nat, NEW n \in Nat, n >= 1, done + n <= Len(Packet[p]),
           IF done > 0 THEN num[Len(w)] = p /\ off[Len(w)] = done
                       ELSE off[Len(w)] = 0 /\ Between(num[Len(w)], p)
    PROVE  LET v == w \o SubSeq(Packet[p], done + 1, done + n)
           IN \E q, k : At(q, k, p, done + n) /\ Connects(v, num[0], off[0], q, k)
<1> DEFINE s == SubSeq(Packet[p], done + 1, done + n)
           v == w \o s
           l == Len(w)
           L == Len(Packet[p])
           a == [i \in 0 .. l + n |-> IF i <= l THEN num[i]
                                     ELSE IF done + (i - l) = L THEN p + 1 ELSE p]
           b == [i \in 0 .. l + n |-> IF i <= l THEN off[i]
                                     ELSE IF done + (i - l) = L THEN 0 ELSE done + (i - l)]
<1>1. l \in Nat /\ L \in Nat /\ L >= 8 /\ Packet[p] \in Seq(AnyByte) /\ p \in Nat
      /\ Packet[p][1] = Sync1
  BY PacketParts, Limits DEF Carried
<1>2. s \in Seq(AnyByte) /\ Len(s) = n /\ \A i \in 1 .. n : s[i] = Packet[p][done + i]
  <2>1. done + 1 \in 1 .. L + 1 /\ done + n \in (done + 1) - 1 .. L
    BY <1>1
  <2>2. s \in Seq(AnyByte)
        /\ Len(s) = (IF done + 1 <= done + n THEN (done + n) - (done + 1) + 1 ELSE 0)
        /\ \A i \in 1 .. (done + n) - (done + 1) + 1 : s[i] = Packet[p][(done + 1) + i - 1]
    BY <1>1, <2>1, SubSeqProperties
  <2> HIDE DEF s
  <2> QED BY <1>1, <2>2
<1> HIDE DEF s
<1>3. /\ v \in Seq(AnyByte) /\ Len(v) = l + n /\ \A i \in 1 .. l : v[i] = w[i]
      /\ \A i \in l + 1 .. l + n : v[i] = Packet[p][done + (i - l)]
  <2>1. /\ v \in Seq(AnyByte) /\ Len(v) = Len(w) + Len(s)
        /\ \A i \in 1 .. Len(w) + Len(s) : v[i] = IF i <= Len(w) THEN w[i] ELSE s[i - Len(w)]
    <3>1. s \in Seq(AnyByte)
      BY <1>2
    <3> HIDE DEF a, b, L
    <3> QED BY <3>1, ConcatProperties
  <2> HIDE DEF v, a, b, l, L
  <2>2. l = Len(w) /\ Len(s) = n
    BY <1>2 DEF l
  <2>3. v \in Seq(AnyByte) /\ Len(v) = l + n
    BY <2>1, <2>2
  <2>4. ASSUME NEW i \in 1 .. l PROVE v[i] = w[i]
    <3>1. i \in 1 .. l + n /\ i <= l
      BY <1>1
    <3> QED BY <2>1, <2>2, <3>1
  <2>5. ASSUME NEW i \in l + 1 .. l + n PROVE v[i] = Packet[p][done + (i - l)]
    <3>1. i \in 1 .. l + n /\ ~(i <= l) /\ i - l \in 1 .. n
      BY <1>1
    <3>2. v[i] = s[i - l]
      BY <2>1, <2>2, <3>1
    <3> QED BY <1>2, <3>1, <3>2
  <2> QED BY <2>3, <2>4, <2>5
<1> HIDE DEF v, l, L
<1>4. /\ \A i \in 0 .. l : i \in 0 .. l + n /\ a[i] = num[i] /\ b[i] = off[i]
      /\ \A i \in l + 1 .. l + n : /\ i \in 0 .. l + n
                                  /\ At(a[i], b[i], p, done + (i - l))
                                  /\ p <= a[i] /\ (b[i] > 0 => a[i] = p /\ b[i] < L)
  <2>1. ASSUME NEW i \in 0 .. l PROVE i \in 0 .. l + n /\ a[i] = num[i] /\ b[i] = off[i]
    BY <1>1
  <2>2. ASSUME NEW i \in l + 1 .. l + n
        PROVE  /\ i \in 0 .. l + n /\ At(a[i], b[i], p, done + (i - l))
               /\ p <= a[i] /\ (b[i] > 0 => a[i] = p /\ b[i] < L)
    <3>1. i \in 0 .. l + n /\ ~(i <= l) /\ done + (i - l) \in Nat /\ done + (i - l) <= L
      BY <1>1 DEF L
    <3>2. /\ a[i] = IF done + (i - l) = L THEN p + 1 ELSE p
          /\ b[i] = IF done + (i - l) = L THEN 0 ELSE done + (i - l)
      BY <3>1
    <3> HIDE DEF a, b
    <3>3. At(a[i], b[i], p, done + (i - l))
      BY <3>2 DEF At, L
    <3> QED BY <1>1, <3>1, <3>2, <3>3
  <2> QED BY <2>1, <2>2
<1>5. a \in [0 .. l + n -> Nat] /\ b \in [0 .. l + n -> Nat]
  BY <1>1 DEF Path, l
<1>6. \A i \in 0 .. l + n : i \in 0 .. l \/ i \in l + 1 .. l + n
  BY <1>1
<1>7. \A i \in 0 .. l : num[i] \in Nat /\ off[i] \in Nat
  BY DEF Path, l
<1>8. num[l] <= p
  BY <1>1, <1>7 DEF Between, l
<1> HIDE DEF a, b
<1>9. Within(a, b, v)
  <2>1. Within(num, off, w)
    BY DEF Path
  <2> SUFFICES ASSUME NEW i \in 0 .. l + n, b[i] > 0
               PROVE  a[i] \in Carried /\ a[i] <= sent /\ b[i] < Len(Packet[a[i]])
    BY <1>3 DEF Within
  <2> QED BY <1>4, <1>6, <2>1 DEF Within, l, L
<1>10. Rising(a, v)
  <2>1. Rising(num, w)
    BY DEF Path
  <2> SUFFICES ASSUME NEW i \in 0 .. l + n, NEW j \in 0 .. l + n, i <= j PROVE a[i] <= a[j]
    BY <1>3 DEF Rising
  <2>2. CASE j \in 0 .. l
    <3>1. i \in 0 .. l
      BY <1>1, <2>2
    <3> QED BY <1>4, <2>1, <2>2, <3>1 DEF Rising, l
  <2>3. CASE i \in 0 .. l /\ j \in l + 1 .. l + n
    <3>1. num[i] <= num[l] /\ num[l] <= p /\ p <= a[j] /\ a[i] = num[i]
      BY <1>1, <1>4, <1>8, <2>1, <2>3 DEF Rising, l
    <3>2. num[i] \in Nat /\ num[l] \in Nat /\ a[j] \in Nat
      <4>1. l \in 0 .. l
        BY <1>1
      <4> QED BY <1>5, <1>7, <2>3, <4>1
    <3> QED BY <1>1, <3>1, <3>2
  <2>4. CASE i \in l + 1 .. l + n /\ j \in l + 1 .. l + n
    <3>1. done + (i - l) <= done + (j - l) /\ done + (j - l) <= L
      BY <1>1, <2>4 DEF L
    <3> QED BY <1>1, <1>4, <2>4, <3>1, SMTT(30) DEF At, L
  <2>5. j \in 0 .. l \/ (i \in 0 .. l /\ j \in l + 1 .. l + n)
        \/ (i \in l + 1 .. l + n /\ j \in l + 1 .. l + n)
    BY <1>6
  <2> QED BY <2>2, <2>3, <2>4, <2>5
<1>11. Runs(a, b, v)
  <2>1. Runs(num, off, w) /\ Within(num, off, w)
    BY DEF Path
  <2> SUFFICES ASSUME NEW i \in 0 .. l + n, NEW j \in 0 .. l + n, i <= j, b[i] > 0,
                      b[i] + (j - i) <= Len(Packet[a[i]])
               PROVE  At(a[j], b[j], a[i], b[i] + (j - i))
    BY <1>3 DEF Runs
  <2>2. CASE j \in 0 .. l
    <3>1. i \in 0 .. l
      BY <1>1, <2>2
    <3> QED BY <1>4, <2>1, <2>2, <3>1 DEF Runs, l
  <2>3. CASE i \in 0 .. l /\ j \in l + 1 .. l + n
    <3>1. /\ a[i] = num[i] /\ b[i] = off[i] /\ off[i] \in Nat /\ l \in 0 .. l /\ i <= l
          /\ i \in Nat /\ j \in Nat
      <4>1. l \in 0 .. l /\ i <= l /\ i \in Nat /\ j \in Nat
        BY <1>1, <2>3
      <4> QED BY <1>4, <1>7, <2>3, <4>1
    <3>2. num[i] \in Packets /\ Len(Packet[num[i]]) \in Nat
      BY <2>1, <2>3, <3>1, PacketParts DEF Within, Carried, l
    <3>3. off[i] + (l - i) < off[i] + (j - i)
      BY <1>1, <2>3, <3>1
    <3>4. off[i] + (l - i) <= Len(Packet[num[i]]) /\ off[i] + (l - i) # Len(Packet[num[i]])
      <4>1. /\ l \in Nat /\ i \in Nat /\ j \in Nat /\ off[i] \in Nat
            /\ Len(Packet[num[i]]) \in Nat
        BY <1>1, <3>1, <3>2
      <4>2. off[i] + (j - i) <= Len(Packet[num[i]])
        BY <3>1
      <4> QED BY <3>3, <4>1, <4>2
    <3>5. num[l] = num[i] /\ off[l] = off[i] + (l - i)
      <4>1. i \in 0 .. Len(w) /\ l \in 0 .. Len(w) /\ off[i] > 0
        BY <2>3, <3>1 DEF l
      <4>2. At(num[l], off[l], num[i], off[i] + (l - i))
        BY <2>1, <3>1, <3>4, <4>1 DEF Runs
      <4> QED BY <3>4, <4>2 DEF At
    <3>6. off[l] > 0
      BY <1>1, <2>3, <3>1, <3>5
    <3>7. num[l] = p /\ off[l] = done
      BY <3>6 DEF l
    <3>8. done + (j - l) = off[i] + (j - i)
      <4>1. done = off[i] + (l - i)
        BY <3>5, <3>7
      <4> QED BY <1>1, <3>1, <4>1
    <3> QED BY <1>4, <2>3, <3>1, <3>5, <3>7, <3>8
  <2>4. CASE i \in l + 1 .. l + n /\ j \in l + 1 .. l + n
    <3>1. a[i] = p /\ b[i] = done + (i - l)
      BY <1>1, <1>4, <2>4 DEF At
    <3>2. b[i] + (j - i) = done + (j - l)
      BY <1>1, <2>4, <3>1
    <3> QED BY <1>4, <2>4, <3>1, <3>2
  <2>5. j \in 0 .. l \/ (i \in 0 .. l /\ j \in l + 1 .. l + n)
        \/ (i \in l + 1 .. l + n /\ j \in l + 1 .. l + n)
    BY <1>6
  <2> QED BY <2>2, <2>3, <2>4, <2>5
<1>12. Carries(a, b, v)
  <2>1. Carries(num, off, w)
    BY DEF Path
  <2> SUFFICES ASSUME NEW i \in 1 .. l + n
               PROVE  IF b[i - 1] > 0 THEN v[i] = Packet[a[i - 1]][b[i - 1] + 1]
                      ELSE b[i] = 1 /\ Between(a[i - 1], a[i]) /\ v[i] = Sync1
    BY <1>3 DEF Carries
  <2>2. CASE i \in 1 .. l
    <3>1. i \in 0 .. l /\ i - 1 \in 0 .. l
      BY <1>1, <2>2
    <3> QED BY <1>3, <1>4, <2>1, <2>2, <3>1 DEF Carries, l
  <2>3. CASE i = l + 1
    <3>1. l + 1 \in l + 1 .. l + n /\ l \in 0 .. l /\ i - 1 = l /\ done + (i - l) = done + 1
      BY <1>1, <2>3, SMTT(30)
    <3>2. v[i] = Packet[p][done + 1] /\ At(a[i], b[i], p, done + 1) /\ a[i - 1] = num[l]
          /\ b[i - 1] = off[l]
      BY <1>3, <1>4, <2>3, <3>1
    <3>3. CASE done > 0
      BY <3>2, <3>3 DEF l
    <3>4. CASE done = 0
      <4>1. off[l] = 0 /\ Between(num[l], p)
        BY <3>4 DEF l
      <4>2. done + 1 = 1 /\ L # 1
        BY <1>1, <3>4
      <4>3. a[i] = p /\ b[i] = 1 /\ v[i] = Sync1
        <5>1. a[i] = p /\ b[i] = 1
          <6>1. At(a[i], b[i], p, 1) /\ Len(Packet[p]) # 1
            BY <3>2, <4>2 DEF L
          <6> QED BY <6>1 DEF At
        <5>2. v[i] = Packet[p][1]
          BY <3>2, <4>2
        <5> QED BY <1>1, <5>1, <5>2
      <4> QED BY <3>2, <4>1, <4>3
    <3> QED BY <3>3, <3>4
  <2>4. CASE i \in l + 2 .. l + n
    <3>1. /\ i \in l + 1 .. l + n /\ i - 1 \in l + 1 .. l + n
          /\ done + ((i - 1) - l) < L /\ (done + ((i - 1) - l)) + 1 = done + (i - l)
          /\ done + ((i - 1) - l) > 0
      <4>1. i \in Nat /\ i >= l + 2 /\ i <= l + n /\ done + n <= L
        BY <1>1, <2>4 DEF L
      <4>2. i \in l + 1 .. l + n /\ i - 1 \in l + 1 .. l + n
        BY <1>1, <4>1
      <4> DEFINE x == (i - 1) - l
      <4>3. x \in Nat /\ x >= 1 /\ x < n /\ i - l = x + 1
        BY <1>1, <4>1
      <4> HIDE DEF x
      <4>4. done + x < L /\ (done + x) + 1 = done + (i - l) /\ done + x > 0
        BY <1>1, <4>1, <4>3
      <4> QED BY <4>2, <4>4 DEF x
    <3>2. a[i - 1] = p /\ b[i - 1] = done + ((i - 1) - l)
      BY <1>1, <1>4, <3>1 DEF At, L
    <3> QED BY <1>3, <3>1, <3>2
  <2>5. i \in 1 .. l \/ i = l + 1 \/ i \in l + 2 .. l + n
    BY <1>1
  <2> QED BY <2>2, <2>3, <2>4, <2>5
<1>13. Path(a, b, v)
  BY <1>3, <1>5, <1>9, <1>10, <1>11, <1>12 DEF Path
<1>14. a[0] = num[0] /\ b[0] = off[0] /\ At(a[l + n], b[l + n], p, done + n)
  <2>1. 0 \in 0 .. l /\ l + n \in l + 1 .. l + n /\ done + ((l + n) - l) = done + n
    BY <1>1
  <2> QED BY <1>4, <2>1
<1>15. Connects(v, num[0], off[0], a[l + n], b[l + n])
  BY <1>3, <1>5, <1>13, <1>14 DEF Connects
<1> QED BY <1>14, <1>15 DEF v, s

----------------------------------------------------------------------------
(* Types *)

\* What the sender's list holds first, and what is left of it.
LEMMA ListParts ==
    ASSUME Numbered, list # <<>>
    PROVE  /\ Head(list) = (sent - Len(list)) + 1 /\ Head(list) \in Packets /\ Head(list) <= sent
           /\ Tail(list) \in Seq(Nat) /\ Len(Tail(list)) = Len(list) - 1 /\ Len(list) \in Nat \ {0}
           /\ \A i \in 1 .. Len(Tail(list)) : Tail(list)[i] = list[i + 1]
<1>1. list \in Seq(Nat) /\ list # <<>> /\ Len(list) <= sent /\ sent \in Nat /\ sent <= Len(Payloads)
      /\ \A i \in 1 .. Len(list) : list[i] = (sent - Len(list)) + i
  BY DEF Numbered
<1>2. Len(list) \in Nat /\ Len(list) # 0
  BY <1>1, EmptySeq
<1>3. Head(list) = list[1] /\ 1 \in 1 .. Len(list)
  BY <1>1, <1>2
<1>4. Head(list) = (sent - Len(list)) + 1
  BY <1>1, <1>3
<1>5. Head(list) \in Packets /\ Head(list) <= sent
  BY <1>1, <1>2, <1>4, Limits
<1>6. Tail(list) \in Seq(Nat) /\ Len(Tail(list)) = Len(list) - 1
      /\ \A i \in 1 .. Len(Tail(list)) : Tail(list)[i] = list[i + 1]
  BY <1>1, HeadTailProperties
<1> QED BY <1>2, <1>4, <1>5, <1>6

\* One write: n bytes of packet p, from the byte after done on.
Writing(p, done, n) ==
    /\ p = First /\ p <= sent /\ done = IF current = 0 THEN 0 ELSE alreadySent
    /\ done < Len(Packet[p]) /\ done + n <= Len(Packet[p])
    /\ current = 0 => list # <<>> /\ list' = Tail(list)
    /\ current # 0 => list' = list
    /\ Len(wire) + n <= Capacity /\ (n = 0 => Full)
    /\ wire' = wire \o SubSeq(Packet[p], done + 1, done + n)
    /\ current' = IF done + n = Len(Packet[p]) THEN 0 ELSE p
    /\ alreadySent' = done + n
    /\ sinceGood' = IF n = 0 THEN sinceGood ELSE 0
    /\ closed' = (n = 0 /\ sinceGood = BackupTimeout)

LEMMA WriteIsWriting ==
    ASSUME Numbered, Write
    PROVE  \E p \in Carried : \E done, n \in Nat : Writing(p, done, n)
<1> DEFINE p == IF current = 0 THEN Head(list) ELSE current
           done == IF current = 0 THEN 0 ELSE alreadySent
           left == Len(Packet[p]) - done
<1>1. PICK n \in 0 .. left :
        /\ Len(wire) + n <= Capacity /\ (n = 0 => Full)
        /\ wire' = wire \o SubSeq(Packet[p], done + 1, done + n)
        /\ current' = IF n = left THEN 0 ELSE p
        /\ alreadySent' = done + n
        /\ sinceGood' = IF n = 0 THEN sinceGood ELSE 0
        /\ closed' = (n = 0 /\ sinceGood = BackupTimeout)
  BY DEF Write
<1>2. p \notin TooLong /\ (list # <<>> \/ current # 0)
      /\ list' = IF current = 0 THEN Tail(list) ELSE list
  BY DEF Write, HasData
<1>3. p \in Packets /\ p = First /\ p <= sent /\ done \in Nat
  <2>1. CASE current = 0
    BY <1>2, <2>1, ListParts DEF First
  <2>2. CASE current # 0
    BY <2>2 DEF First, Numbered, Carried
  <2> QED BY <2>1, <2>2
<1>4. p \in Carried
  BY <1>2, <1>3 DEF Carried
<1>5. Len(Packet[p]) \in Nat /\ Len(Packet[p]) >= 8
  BY <1>3, PacketParts
<1>6. done < Len(Packet[p])
  <2>1. CASE current = 0
    BY <1>5, <2>1
  <2>2. CASE current # 0
    BY <2>2 DEF Numbered
  <2> QED BY <2>1, <2>2
<1>7. current = 0 => list # <<>> /\ list' = Tail(list)
  BY <1>2
<1>8. current # 0 => list' = list
  BY <1>2
<1> HIDE DEF p
<1>9. n \in Nat /\ done + n <= Len(Packet[p]) /\ (n = left <=> done + n = Len(Packet[p]))
  BY <1>1, <1>3, <1>5, <1>6
<1>10. Writing(p, done, n)
  BY <1>1, <1>3, <1>6, <1>7, <1>8, <1>9 DEF Writing
<1> QED BY <1>3, <1>4, <1>9, <1>10

\* What a write appends.
LEMMA WritingAppends ==
    ASSUME Types, NEW p \in Carried, NEW done \in Nat, NEW n \in Nat, Writing(p, done, n)
    PROVE  /\ wire' \in Seq(AnyByte) /\ Len(wire') = Len(wire) + n
           /\ n = 0 => wire' = wire
<1> DEFINE s == SubSeq(Packet[p], done + 1, done + n)
           L == Len(Packet[p])
<1>1. L \in Nat /\ Packet[p] \in Seq(AnyByte) /\ done + n <= L
  BY PacketParts DEF Carried, Writing
<1>2. s \in Seq(AnyByte) /\ Len(s) = n
  <2>1. done + 1 \in 1 .. L + 1 /\ done + n \in (done + 1) - 1 .. L
    BY <1>1
  <2>2. s \in Seq(AnyByte)
        /\ Len(s) = (IF done + 1 <= done + n THEN (done + n) - (done + 1) + 1 ELSE 0)
    BY <1>1, <2>1, SubSeqProperties
  <2> HIDE DEF s
  <2> QED BY <2>2
<1>3. wire \in Seq(AnyByte) /\ wire' = wire \o s
  BY DEF Types, Piped, Writing
<1> HIDE DEF s
<1>4. s \in Seq(AnyByte) /\ wire \in Seq(AnyByte)
  BY <1>2, <1>3
<1>5. wire \o s \in Seq(AnyByte) /\ Len(wire \o s) = Len(wire) + Len(s)
  BY <1>4, ConcatProperties
<1>6. ASSUME n = 0 PROVE wire' = wire
  <2>1. s = <<>>
    BY <1>2, <1>4, <1>6, EmptySeq
  <2> QED BY <1>3, <1>4, <2>1, ConcatEmptySeq
<1> QED BY <1>2, <1>3, <1>5, <1>6

LEMMA TakenParts ==
    ASSUME Piped, NEW n \in 0 .. Len(wire), Taken(n)
    PROVE  wire' \in Seq(AnyByte) /\ Len(wire') = Len(wire) - n
<1>1. wire \in Seq(AnyByte) /\ Len(wire) \in Nat
  BY DEF Piped
<1>2. n + 1 \in 1 .. Len(wire) + 1 /\ Len(wire) \in (n + 1) - 1 .. Len(wire)
  BY <1>1
<1> DEFINE v == SubSeq(wire, n + 1, Len(wire))
<1>3. v \in Seq(AnyByte)
      /\ Len(v) = (IF n + 1 <= Len(wire) THEN Len(wire) - (n + 1) + 1 ELSE 0)
  BY <1>1, <1>2, SubSeqProperties
<1> HIDE DEF v
<1>4. v \in Seq(AnyByte) /\ Len(v) = Len(wire) - n
  BY <1>1, <1>3
<1> QED BY <1>4 DEF v, Taken

LEMMA TypesInit == Init => Types
<1> SUFFICES ASSUME Init PROVE Types
  OBVIOUS
<1>1. Numbered
  <2>1. <<>> \in Seq(Nat) /\ Len(<<>>) = 0
    OBVIOUS
  <2>2. Len(Payloads) \in Nat /\ MaxLength \in Nat
    BY Limits
  <2> QED BY <2>1, <2>2 DEF Init, Numbered
<1>2. Idling
  <2>1. closed \in BOOLEAN /\ dead \in BOOLEAN /\ ~closed
    BY DEF Init
  <2>2. sinceGood = 0 /\ sinceGood \in 0 .. BackupTimeout
    BY Limits DEF Init
  <2> QED BY <2>1, <2>2 DEF Idling
<1>3. Receiving
  <2>1. <<>> \in Seq(AnyByte)
    OBVIOUS
  <2> QED BY <2>1 DEF Init, Receiving, States
<1>4. Piped
  <2>1. <<>> \in Seq(AnyByte) /\ Len(<<>>) = 0
    OBVIOUS
  <2>2. 0 <= Capacity /\ MaxReconnects \in Nat
    BY Limits
  <2>3. ragged \in BOOLEAN
    BY DEF Init
  <2>4. wire = <<>> /\ next = 1 /\ reconnects = 0 /\ clientEnd \in {"sender", "receiver"}
    BY DEF Init
  <2>5. next \in Nat /\ reconnects \in 0 .. MaxReconnects
    BY <2>2, <2>4
  <2> QED BY <2>1, <2>2, <2>3, <2>4, <2>5 DEF Piped
<1> QED BY <1>1, <1>2, <1>3, <1>4 DEF Types

LEMMA NumberedStep == Types /\ [Next]_vars => Numbered'
<1> SUFFICES ASSUME Types, [Next]_vars PROVE Numbered'
  OBVIOUS
<1> USE DEF Types
<1>1. CASE SendPacket
  <2>1. /\ sent' = sent + 1 /\ list' = Append(list, sent + 1) /\ sent + 1 \in Packets
        /\ current' = current /\ alreadySent' = alreadySent
    BY <1>1 DEF SendPacket
  <2>2. sent \in Nat /\ list \in Seq(Nat) /\ Len(list) <= sent /\ Len(list) \in Nat
        /\ \A i \in 1 .. Len(list) : list[i] = (sent - Len(list)) + i
    BY DEF Numbered
  <2>3. /\ Append(list, sent + 1) \in Seq(Nat) /\ Len(Append(list, sent + 1)) = Len(list) + 1
        /\ \A i \in 1 .. Len(list) : Append(list, sent + 1)[i] = list[i]
        /\ Append(list, sent + 1)[Len(list) + 1] = sent + 1
    <3>1. sent + 1 \in Nat
      BY <2>2
    <3> QED BY <2>2, <3>1, AppendProperties
  <2>4. sent' \in Nat /\ sent' <= Len(Payloads)
    BY <2>1, <2>2, Limits
  <2>5. list' \in Seq(Nat) /\ Len(list') = Len(list) + 1 /\ sent' - Len(list') = sent - Len(list)
    BY <2>1, <2>2, <2>3
  <2>6. \A i \in 1 .. Len(list') : list'[i] = (sent' - Len(list')) + i
    <3> SUFFICES ASSUME NEW i \in 1 .. Len(list) + 1 PROVE list'[i] = (sent - Len(list)) + i
      BY <2>5
    <3>1. CASE i = Len(list) + 1
      BY <2>1, <2>2, <2>3, <3>1
    <3>2. CASE i \in 1 .. Len(list)
      BY <2>1, <2>2, <2>3, <3>2
    <3>3. i = Len(list) + 1 \/ i \in 1 .. Len(list)
      BY <2>2
    <3> QED BY <3>1, <3>2, <3>3
  <2>7. Len(list') <= sent'
    BY <2>1, <2>2, <2>5
  <2> QED BY <2>1, <2>4, <2>5, <2>6, <2>7 DEF Numbered
<1>2. CASE Write
  <2>1. PICK p \in Carried, done \in Nat, n \in Nat : Writing(p, done, n)
    BY <1>2, WriteIsWriting
  <2>2. sent' = sent /\ sent \in Nat /\ sent <= Len(Payloads)
    BY <1>2 DEF Write, Numbered
  <2>3. Len(Packet[p]) \in Nat /\ Len(Packet[p]) <= MaxLength /\ MaxLength \in Nat
    BY LengthFits, PacketParts, Limits DEF Carried
  <2>4. alreadySent' \in Nat /\ alreadySent' <= MaxLength
    BY <2>1, <2>3 DEF Writing
  <2>5. /\ list' \in Seq(Nat) /\ Len(list') <= sent /\ p = sent - Len(list')
        /\ \A i \in 1 .. Len(list') : list'[i] = (sent - Len(list')) + i
    <3>1. CASE current = 0
      <4>1. list # <<>> /\ list' = Tail(list) /\ p = (sent - Len(list)) + 1
        BY <2>1, <3>1 DEF Writing, First
      <4>2. /\ list' \in Seq(Nat) /\ Len(list') = Len(list) - 1 /\ Len(list) \in Nat \ {0}
            /\ \A i \in 1 .. Len(list') : list'[i] = list[i + 1]
        BY <4>1, ListParts
      <4>3. /\ Len(list) <= sent
            /\ \A i \in 1 .. Len(list) : list[i] = (sent - Len(list)) + i
        BY DEF Numbered
      <4>4. p = sent - Len(list') /\ Len(list') <= sent
        BY <2>2, <4>1, <4>2, <4>3
      <4>5. ASSUME NEW i \in 1 .. Len(list') PROVE list'[i] = (sent - Len(list')) + i
        <5>1. i + 1 \in 1 .. Len(list) /\ (sent - Len(list)) + (i + 1) = (sent - Len(list')) + i
          BY <2>2, <4>2
        <5> QED BY <4>2, <4>3, <5>1
      <4> QED BY <4>2, <4>4, <4>5
    <3>2. CASE current # 0
      BY <2>1, <3>2 DEF Writing, First, Numbered
    <3> QED BY <3>1, <3>2
  <2>6. current' \in Nat
    <3>1. p \in Nat
      BY Limits DEF Carried
    <3>2. current' = 0 \/ current' = p
      BY <2>1 DEF Writing
    <3> QED BY <3>1, <3>2
  <2>7. ASSUME current' # 0
        PROVE  /\ current' = sent - Len(list') /\ current' \in Carried
               /\ alreadySent' < Len(Packet[current'])
    <3>1. current' = p /\ done + n # Len(Packet[p]) /\ done + n <= Len(Packet[p])
          /\ alreadySent' = done + n
      BY <2>1, <2>7 DEF Writing
    <3>2. done + n < Len(Packet[p])
      BY <2>3, <3>1
    <3> QED BY <2>5, <3>1, <3>2
  <2> QED BY <2>2, <2>4, <2>5, <2>6, <2>7 DEF Numbered
<1>3. CASE DropTooLong
  <2>1. /\ list # <<>> /\ list' = Tail(list) /\ current = 0 /\ current' = current
        /\ alreadySent' = alreadySent /\ sent' = sent
    BY <1>3 DEF DropTooLong
  <2>2. /\ list' \in Seq(Nat) /\ Len(list') = Len(list) - 1 /\ Len(list) \in Nat \ {0}
        /\ \A i \in 1 .. Len(list') : list'[i] = list[i + 1]
    BY <2>1, ListParts
  <2>3. /\ sent \in Nat /\ sent <= Len(Payloads) /\ Len(list) <= sent
        /\ \A i \in 1 .. Len(list) : list[i] = (sent - Len(list)) + i
    BY DEF Numbered
  <2>4. ASSUME NEW i \in 1 .. Len(list') PROVE list'[i] = (sent - Len(list')) + i
    <3>1. i + 1 \in 1 .. Len(list) /\ (sent - Len(list)) + (i + 1) = (sent - Len(list')) + i
      BY <2>2, <2>3
    <3> QED BY <2>2, <2>3, <3>1
  <2>5. Len(list') <= sent
    BY <2>2, <2>3
  <2> QED BY <2>1, <2>2, <2>3, <2>4, <2>5 DEF Numbered
<1>4. CASE Reconnect
  <2>1. CASE clientEnd = "sender" /\ UNCHANGED <<list, current, alreadySent>>
    BY <1>4, <2>1 DEF Reconnect, Numbered
  <2>2. CASE list' = <<>> /\ current' = 0 /\ alreadySent' = 0
    <3>1. <<>> \in Seq(Nat) /\ Len(<<>>) = 0
      OBVIOUS
    <3> QED BY <1>4, <2>2, <3>1, Limits DEF Reconnect, Numbered
  <2> QED BY <1>4, <2>1, <2>2 DEF Reconnect
<1>5. CASE UNCHANGED <<sent, list, current, alreadySent>>
  BY <1>5 DEF Numbered
<1>6. ASSUME NothingToSend \/ TimePasses \/ ReadData \/ EndRead \/ ReceiverDies \/ UNCHANGED vars
      PROVE  UNCHANGED <<sent, list, current, alreadySent>>
  BY <1>6 DEF NothingToSend, TimePasses, ReadData, BeginRead, ReadByte, ReadBody, EndRead,
              ReceiverDies, vars, senderVars
<1> QED BY <1>1, <1>2, <1>3, <1>4, <1>5, <1>6 DEF Next, SendData

LEMMA IdlingStep == Types /\ [Next]_vars => Idling'
<1> SUFFICES ASSUME Types, [Next]_vars PROVE Idling'
  OBVIOUS
<1>0. /\ sinceGood \in 0 .. BackupTimeout /\ closed \in BOOLEAN /\ dead \in BOOLEAN
      /\ (sinceGood # 0 => wire = <<>> \/ dead) /\ (closed => dead)
  BY DEF Types, Idling
<1>a. wire \in Seq(AnyByte) /\ BackupTimeout \in Nat \ {0} /\ Capacity \in Nat \ {0}
  BY Limits DEF Types, Piped
<1>1. CASE Write
  <2>1. PICK p \in Carried, done \in Nat, n \in Nat : Writing(p, done, n)
    BY <1>1, WriteIsWriting DEF Types
  <2>2. dead' = dead
    BY <1>1 DEF Write, receiverVars
  <2>3. CASE n = 0
    <3>1. wire' = wire /\ sinceGood' = sinceGood /\ Full
          /\ closed' = (sinceGood = BackupTimeout)
      BY <2>1, <2>3, WritingAppends DEF Writing
    <3>2. wire # <<>>
      BY <1>a, <3>1 DEF Full
    <3>3. closed' \in BOOLEAN
      BY <3>1
    <3>4. sinceGood = BackupTimeout => dead
      BY <1>0, <1>a, <3>2
    <3> QED BY <1>0, <2>2, <3>1, <3>3, <3>4 DEF Idling
  <2>4. CASE n # 0
    <3>1. sinceGood' = 0 /\ closed' = FALSE
      BY <2>1, <2>4 DEF Writing
    <3>2. 0 \in 0 .. BackupTimeout
      BY <1>a
    <3>3. closed' \in BOOLEAN /\ ~closed'
      BY <3>1
    <3> QED BY <1>0, <2>2, <3>1, <3>2, <3>3 DEF Idling
  <2> QED BY <2>3, <2>4
<1>2. CASE NothingToSend
  <2>1. sinceGood' = 0 /\ closed' = closed /\ dead' = dead /\ 0 \in 0 .. BackupTimeout
    BY <1>2, <1>a DEF NothingToSend, receiverVars
  <2> QED BY <1>0, <2>1 DEF Idling
<1>3. CASE TimePasses
  <2>1. (wire = <<>> \/ dead) /\ wire' = wire /\ closed' = closed /\ dead' = dead
        /\ sinceGood' = sinceGood + 1 /\ sinceGood < BackupTimeout
    BY <1>3 DEF TimePasses, receiverVars
  <2>2. sinceGood' \in 0 .. BackupTimeout
    BY <1>0, <1>a, <2>1
  <2> QED BY <1>0, <2>1, <2>2 DEF Idling
<1>4. CASE ReadByte \/ ReadBody
  <2>1. ~dead /\ wire # <<>> /\ dead' = dead /\ sinceGood' = sinceGood /\ closed' = closed
    BY <1>4 DEF ReadByte, ReadBody, senderVars
  <2>2. sinceGood = 0 /\ ~closed
    BY <1>0, <2>1
  <2> QED BY <1>0, <2>1, <2>2 DEF Idling
<1>5. CASE ReceiverDies
  <2>1. dead' = TRUE /\ sinceGood' = sinceGood /\ closed' = closed
    BY <1>5 DEF ReceiverDies, senderVars
  <2>2. dead' /\ dead' \in BOOLEAN
    BY <2>1
  <2> QED BY <1>0, <2>1, <2>2 DEF Idling
<1>6. CASE Reconnect
  <2>1. wire' = <<>> /\ closed' = FALSE /\ dead' = FALSE
    BY <1>6 DEF Reconnect
  <2>2. sinceGood' \in 0 .. BackupTimeout
    BY <1>0, <1>6, <1>a DEF Reconnect
  <2>3. closed' \in BOOLEAN /\ dead' \in BOOLEAN /\ ~closed'
    BY <2>1
  <2> QED BY <2>1, <2>2, <2>3 DEF Idling
<1>7. CASE UNCHANGED <<sinceGood, closed, dead, wire>>
  BY <1>0, <1>7 DEF Idling
<1>8. ASSUME SendPacket \/ DropTooLong \/ BeginRead \/ EndRead \/ UNCHANGED vars
      PROVE  UNCHANGED <<sinceGood, closed, dead, wire>>
  BY <1>8 DEF SendPacket, DropTooLong, BeginRead, EndRead, vars, senderVars, receiverVars
<1> QED BY <1>1, <1>2, <1>3, <1>4, <1>5, <1>6, <1>7, <1>8 DEF Next, SendData, ReadData

\* What readPacket has of a body after n more bytes, and of the packet with its head.
Body(n) == readBuff \o SubSeq(wire, 1, n)
Buf(n) == <<Sync1, Sync2, Lo(readLength), Hi(readLength)>> \o Body(n)

LEMMA BodyParts ==
    ASSUME Types, NEW n \in 1 .. Len(wire)
    PROVE  /\ Body(n) \in Seq(AnyByte) /\ Len(Body(n)) = Len(readBuff) + n
           /\ Len(Body(n)) \in Nat /\ Len(readBuff) \in Nat
           /\ \A i \in 1 .. Len(readBuff) : Body(n)[i] = readBuff[i]
           /\ \A i \in 1 .. n : Body(n)[Len(readBuff) + i] = wire[i]
<1> DEFINE s == SubSeq(wire, 1, n)
           c == readBuff \o s
<1>1. wire \in Seq(AnyByte) /\ Len(wire) \in Nat
  BY DEF Types, Piped
<1>2. 1 \in 1 .. Len(wire) + 1 /\ n \in 1 - 1 .. Len(wire) /\ n \in Nat /\ n >= 1
  BY <1>1
<1>3. s \in Seq(AnyByte) /\ Len(s) = n /\ \A i \in 1 .. n : s[i] = wire[i]
  <2>1. s \in Seq(AnyByte) /\ Len(s) = (IF 1 <= n THEN n - 1 + 1 ELSE 0)
        /\ \A i \in 1 .. n - 1 + 1 : s[i] = wire[1 + i - 1]
    BY <1>1, <1>2, SubSeqProperties
  <2> HIDE DEF s
  <2> QED BY <1>2, <2>1
<1>4. readBuff \in Seq(AnyByte) /\ Len(readBuff) \in Nat
  BY DEF Types, Receiving
<1> HIDE DEF s
<1>5. s \in Seq(AnyByte) /\ readBuff \in Seq(AnyByte)
  BY <1>3, <1>4
<1>6. /\ c \in Seq(AnyByte) /\ Len(c) = Len(readBuff) + Len(s)
      /\ \A i \in 1 .. Len(readBuff) + Len(s) :
           c[i] = IF i <= Len(readBuff) THEN readBuff[i] ELSE s[i - Len(readBuff)]
  BY <1>5, ConcatProperties
<1>7. c = Body(n)
  BY DEF Body, s
<1> HIDE DEF c
<1> DEFINE m == Len(readBuff)
<1>8. Len(c) = m + n /\ Len(c) \in Nat
  BY <1>2, <1>3, <1>4, <1>6
<1>9. ASSUME NEW i \in 1 .. m PROVE c[i] = readBuff[i]
  <2>1. i \in 1 .. m + Len(s) /\ i <= m
    BY <1>2, <1>3, <1>4
  <2> QED BY <1>6, <2>1
<1>10. ASSUME NEW i \in 1 .. n PROVE c[m + i] = wire[i]
  <2>1. m + i \in 1 .. m + Len(s) /\ ~(m + i <= m) /\ (m + i) - m = i
    BY <1>2, <1>3, <1>4
  <2>2. c[m + i] = s[i]
    BY <1>6, <2>1
  <2> QED BY <1>3, <2>2
<1> QED BY <1>4, <1>6, <1>7, <1>8, <1>9, <1>10

LEMMA BufParts ==
    ASSUME Types, NEW n \in 1 .. Len(wire)
    PROVE  /\ Len(Buf(n)) = 4 + Len(Body(n))
           /\ Buf(n)[1] = Sync1 /\ Buf(n)[2] = Sync2
           /\ Buf(n)[3] = Lo(readLength) /\ Buf(n)[4] = Hi(readLength)
           /\ \A i \in 1 .. Len(Body(n)) : Buf(n)[4 + i] = Body(n)[i]
           /\ Buf(n) \in Seq(AnyByte \cup {Sync1, Sync2, Lo(readLength), Hi(readLength)})
<1> DEFINE h == <<Sync1, Sync2, Lo(readLength), Hi(readLength)>>
           S == AnyByte \cup {Sync1, Sync2, Lo(readLength), Hi(readLength)}
           c == h \o Body(n)
<1>1. h \in Seq(S) /\ Len(h) = 4 /\ h[1] = Sync1 /\ h[2] = Sync2
      /\ h[3] = Lo(readLength) /\ h[4] = Hi(readLength)
  OBVIOUS
<1>2. Body(n) \in Seq(S) /\ Len(Body(n)) \in Nat
  BY BodyParts
<1> HIDE DEF h, S
<1>3. h \in Seq(S) /\ Body(n) \in Seq(S)
  BY <1>1, <1>2
<1>4. /\ c \in Seq(S) /\ Len(c) = Len(h) + Len(Body(n))
      /\ \A i \in 1 .. Len(h) + Len(Body(n)) :
           c[i] = IF i <= Len(h) THEN h[i] ELSE Body(n)[i - Len(h)]
  BY <1>3, ConcatProperties
<1>5. c = Buf(n)
  BY DEF Buf, h
<1> HIDE DEF c
<1> DEFINE m == Len(Body(n))
<1>6. c[1] = h[1] /\ c[2] = h[2] /\ c[3] = h[3] /\ c[4] = h[4] /\ Len(c) = 4 + m
  BY <1>1, <1>2, <1>4
<1>7. ASSUME NEW i \in 1 .. m PROVE c[4 + i] = Body(n)[i]
  <2>1. 4 + i \in 1 .. Len(h) + m /\ ~(4 + i <= Len(h)) /\ (4 + i) - Len(h) = i
    BY <1>1, <1>2
  <2> QED BY <1>4, <2>1
<1> QED BY <1>1, <1>4, <1>5, <1>6, <1>7 DEF S

LEMMA ReceivingStep == Types /\ [Next]_vars => Receiving'
<1> SUFFICES ASSUME Types, [Next]_vars PROVE Receiving'
  OBVIOUS
<1>0. /\ state \in States /\ reading \in BOOLEAN /\ readBuff \in Seq(AnyByte)
      /\ state = "ACQUIRE_DATA" => /\ readLength \in Header + Footer .. MaxLength
                                   /\ Len(readBuff) < readLength - 4
      /\ <<>> \in Seq(AnyByte) /\ Len(<<>>) = 0 /\ MaxLength \in Nat
  <2>1. MaxLength \in Nat
    BY Limits
  <2>2. <<>> \in Seq(AnyByte) /\ Len(<<>>) = 0
    OBVIOUS
  <2> QED BY <2>1, <2>2 DEF Types, Receiving
<1>1. CASE ReadByte
  <2>1. reading' = reading /\ readBuff' = <<>>
    BY <1>1 DEF ReadByte
  <2>2. state' \in States
    BY <1>1 DEF ReadByte, States
  <2>3. state' = "ACQUIRE_DATA" => readLength' \in Header + Footer .. MaxLength
    BY <1>1 DEF ReadByte
  <2>4. state' = "ACQUIRE_DATA" => Len(readBuff') < readLength' - 4
    BY <1>0, <2>1, <2>3 DEF Header, Footer
  <2> QED BY <1>0, <2>1, <2>2, <2>3, <2>4 DEF Receiving
<1>2. CASE ReadBody
  <2>0. state = "ACQUIRE_DATA" /\ reading' = reading /\ readLength' = readLength
    BY <1>2 DEF ReadBody
  <2>1. PICK n \in 1 .. Len(wire) :
          /\ Len(Buf(n)) <= readLength /\ readBuff' = Body(n)
          /\ state' = IF Len(Buf(n)) = readLength THEN "SYNC1" ELSE state
    BY <1>2 DEF ReadBody, Buf, Body
  <2>2. Body(n) \in Seq(AnyByte) /\ Len(Buf(n)) = 4 + Len(Body(n)) /\ Len(Body(n)) \in Nat
    BY BodyParts, BufParts
  <2>3. state' \in States
    BY <1>0, <2>1 DEF States
  <2>4. state' = "ACQUIRE_DATA" => Len(Body(n)) < readLength - 4
    <3>1. ASSUME state' = "ACQUIRE_DATA" PROVE Len(Buf(n)) # readLength
      BY <2>1, <3>1
    <3>2. readLength \in Nat
      BY <1>0, <2>0 DEF Header, Footer
    <3> QED BY <2>1, <2>2, <3>1, <3>2
  <2> QED BY <1>0, <2>0, <2>1, <2>2, <2>3, <2>4 DEF Receiving
<1>3. CASE BeginRead \/ EndRead
  <2>1. reading' \in BOOLEAN /\ UNCHANGED <<state, readLength, readBuff>>
    BY <1>3 DEF BeginRead, EndRead
  <2> QED BY <1>0, <2>1 DEF Receiving
<1>4. CASE Reconnect
  <2>1. reading' = FALSE
    BY <1>4 DEF Reconnect
  <2>2. reading' \in BOOLEAN
    BY <2>1
  <2>3. \/ state' = "SYNC1" /\ readBuff' = <<>>
        \/ UNCHANGED <<state, readLength, readBuff>>
    BY <1>4 DEF Reconnect
  <2> QED BY <1>0, <2>2, <2>3 DEF Receiving, States
<1>5. CASE UNCHANGED <<state, readLength, readBuff, reading>>
  BY <1>0, <1>5 DEF Receiving
<1>6. ASSUME SendPacket \/ SendData \/ TimePasses \/ ReceiverDies \/ UNCHANGED vars
      PROVE  UNCHANGED <<state, readLength, readBuff, reading>>
  BY <1>6 DEF SendPacket, SendData, Write, DropTooLong, NothingToSend, TimePasses, ReceiverDies,
              vars, receiverVars
<1> QED BY <1>1, <1>2, <1>3, <1>4, <1>5, <1>6 DEF Next, ReadData

LEMMA PipedStep == Types /\ [Next]_vars => Piped'
<1> SUFFICES ASSUME Types, [Next]_vars PROVE Piped'
  OBVIOUS
<1>0. /\ wire \in Seq(AnyByte) /\ Len(wire) <= Capacity /\ Len(wire) \in Nat
      /\ clientEnd \in {"sender", "receiver"} /\ ragged \in BOOLEAN
      /\ next \in Nat /\ reconnects \in 0 .. MaxReconnects
      /\ Capacity \in Nat /\ MaxReconnects \in Nat
  BY Limits DEF Types, Piped
<1>1. CASE Write
  <2>1. PICK p \in Carried, done \in Nat, n \in Nat : Writing(p, done, n)
    BY <1>1, WriteIsWriting DEF Types
  <2>2. wire' \in Seq(AnyByte) /\ Len(wire') = Len(wire) + n /\ Len(wire) + n <= Capacity
    BY <2>1, WritingAppends DEF Writing
  <2>3. UNCHANGED <<clientEnd, ragged, reconnects, next>>
    BY <1>1 DEF Write, connectionVars
  <2> QED BY <1>0, <2>2, <2>3 DEF Piped
<1>2. CASE ReadByte
  <2>1. UNCHANGED <<clientEnd, ragged, reconnects, next>> /\ wire # <<>> /\ Taken(1)
    BY <1>2 DEF ReadByte, connectionVars
  <2>2. 1 \in 0 .. Len(wire)
    BY <1>0, <2>1, EmptySeq
  <2>3. wire' \in Seq(AnyByte) /\ Len(wire') = Len(wire) - 1
    BY <2>1, <2>2, TakenParts DEF Types
  <2> QED BY <1>0, <2>1, <2>2, <2>3 DEF Piped
<1>3. CASE ReadBody
  <2>1. PICK n \in 1 .. Len(wire) : Taken(n)
    BY <1>3 DEF ReadBody
  <2>2. n \in 0 .. Len(wire)
    BY <1>0
  <2>3. wire' \in Seq(AnyByte) /\ Len(wire') = Len(wire) - n
    BY <2>1, <2>2, TakenParts DEF Types
  <2>4. UNCHANGED <<clientEnd, ragged, reconnects>>
    BY <1>3 DEF ReadBody, connectionVars
  <2>5. next' = next \/ \E buf : next' = Identified(buf) + 1
    BY <1>3 DEF ReadBody, Invoked
  <2>6. \A buf : Identified(buf) \in Nat
    BY IdentifiedSent DEF Types, Numbered
  <2>7. next' \in Nat
    BY <1>0, <2>5, <2>6
  <2>8. Len(wire') <= Capacity
    BY <1>0, <2>2, <2>3
  <2> QED BY <1>0, <2>3, <2>4, <2>7, <2>8 DEF Piped
<1>4. CASE Reconnect
  <2>1. reconnects < MaxReconnects /\ reconnects' = reconnects + 1 /\ wire' = <<>>
        /\ clientEnd' = clientEnd
    BY <1>4 DEF Reconnect
  <2>2. ragged' \in BOOLEAN
    BY <1>4 DEF Reconnect
  <2>3. next' \in Nat
    <3>1. current \in Nat /\ sent \in Nat
      BY DEF Types, Numbered
    <3>2. list # <<>> => Head(list) \in Nat
      BY ListParts, Limits DEF Types
    <3>3. next' = sent + 1 \/ (next' = current) \/ (list # <<>> /\ next' = Head(list))
      BY <1>4 DEF Reconnect
    <3> QED BY <3>1, <3>2, <3>3
  <2>4. <<>> \in Seq(AnyByte) /\ Len(<<>>) = 0
    OBVIOUS
  <2>5. reconnects' \in 0 .. MaxReconnects /\ Len(wire') <= Capacity
    BY <1>0, <2>1, <2>4
  <2> QED BY <1>0, <2>1, <2>2, <2>3, <2>4, <2>5 DEF Piped
<1>5. CASE UNCHANGED <<wire, clientEnd, ragged, reconnects, next>>
  BY <1>0, <1>5 DEF Piped
<1>6. ASSUME SendPacket \/ DropTooLong \/ NothingToSend \/ TimePasses \/ BeginRead \/ EndRead
             \/ ReceiverDies \/ UNCHANGED vars
      PROVE  UNCHANGED <<wire, clientEnd, ragged, reconnects, next>>
  BY <1>6 DEF SendPacket, DropTooLong, NothingToSend, TimePasses, BeginRead, EndRead,
              ReceiverDies, vars, connectionVars
<1> QED BY <1>1, <1>2, <1>3, <1>4, <1>5, <1>6 DEF Next, SendData, ReadData

LEMMA TypesStep == Types /\ [Next]_vars => Types'
BY NumberedStep, IdlingStep, ReceivingStep, PipedStep DEF Types

\* A connection is closed for its backlog only if its other end is dead: while the
\* receiver lives, time does not pass over bytes that wait.
THEOREM PatienceEndsOnlyTheDead == Spec => []BackedUpMeansDead
<1>1. Types => BackedUpMeansDead
  BY DEF Types, Idling, BackedUpMeansDead
<1> QED BY <1>1, TypesInit, TypesStep, PTL DEF Spec

\* What is read of a packet's body fits the length that was read, and that the buffer
\* (readData's test of the length), even where a connection begins within a packet and
\* the receiver takes data for a header.
THEOREM ReceiverKeepsToItsBuffer == Spec => []Receiving
<1>1. Types => Receiving
  BY DEF Types
<1>2. Spec => []Types
  BY TypesInit, TypesStep, PTL DEF Spec
<1> QED BY <1>1, <1>2, PTL

----------------------------------------------------------------------------
(* Receiver and sender stay in step *)

LEMMA Joined ==
    ASSUME NEW a \in Nat, NEW b \in Nat, NEW c \in Nat, Between(a, b), Between(b, c)
    PROVE  Between(a, c)
BY DEF Between

LEMMA Alone == ASSUME NEW a \in Nat PROVE Between(a, a)
BY DEF Between

LEMMA FirstNumber == Numbered => First \in Nat /\ First <= sent + 1
<1> SUFFICES ASSUME Numbered PROVE First \in Nat /\ First <= sent + 1
  OBVIOUS
<1>1. sent \in Nat /\ Len(list) \in Nat /\ Len(list) <= sent /\ current \in Nat
      /\ (current # 0 => current = sent - Len(list))
  BY DEF Numbered
<1> QED BY <1>1 DEF First

LEMMA FirstNumberNext == Numbered' => First' \in Nat /\ First' <= sent' + 1
<1> SUFFICES ASSUME Numbered' PROVE First' \in Nat /\ First' <= sent' + 1
  OBVIOUS
<1>1. sent' \in Nat /\ Len(list') \in Nat /\ Len(list') <= sent' /\ current' \in Nat
      /\ (current' # 0 => current' = sent' - Len(list'))
  BY DEF Numbered
<1> QED BY <1>1 DEF First

\* An empty connection is one place.
LEMMA EmptyPath ==
    ASSUME NEW q \in Nat
    PROVE  Connects(<<>>, q, 0, q, 0)
<1> DEFINE num == [i \in 0 .. Len(<<>>) |-> q]
           off == [i \in 0 .. Len(<<>>) |-> 0]
<1>1. Len(<<>>) = 0 /\ 0 .. 0 = {0} /\ 1 .. 0 = {}
  OBVIOUS
<1>2. num \in [0 .. Len(<<>>) -> Nat] /\ off \in [0 .. Len(<<>>) -> Nat]
  OBVIOUS
<1>3. \A i \in 0 .. Len(<<>>) : num[i] = q /\ off[i] = 0
  OBVIOUS
<1>4. num[0] = q /\ off[0] = 0 /\ num[Len(<<>>)] = q /\ off[Len(<<>>)] = 0
  BY <1>1, <1>3
<1> HIDE DEF num, off
<1>5. Within(num, off, <<>>) /\ Rising(num, <<>>) /\ Runs(num, off, <<>>)
  BY <1>3 DEF Within, Rising, Runs
<1>6. Carries(num, off, <<>>)
  BY <1>1 DEF Carries
<1>7. Path(num, off, <<>>)
  BY <1>2, <1>5, <1>6 DEF Path
<1> QED BY <1>2, <1>4, <1>7 DEF Connects

LEMMA SyncInit == Init => InSync
<1> SUFFICES ASSUME Init PROVE InSync
  OBVIOUS
<1>1. wire = <<>> /\ state = "SYNC1" /\ next = 1 /\ current = 0 /\ list = <<>> /\ sent = 0
  BY DEF Init
<1>2. PICK num, off \in [0 .. Len(<<>>) -> Nat] :
        Path(num, off, <<>>) /\ num[0] = 1 /\ off[0] = 0 /\ num[Len(<<>>)] = 1
        /\ off[Len(<<>>)] = 0
  <2>1. Connects(<<>>, 1, 0, 1, 0)
    BY EmptyPath
  <2> QED BY <2>1 DEF Connects
<1>3. Reads(num[0], off[0])
  BY <1>1, <1>2 DEF Reads
<1>4. First = 1
  <2>1. Len(<<>>) = 0
    OBVIOUS
  <2> QED BY <1>1, <2>1 DEF First
<1>5. Writes(num[Len(wire)], off[Len(wire)])
  BY <1>1, <1>2, <1>4, Alone DEF Writes
<1> QED BY <1>1, <1>2, <1>3, <1>5 DEF InSync

\* A step that neither writes nor reads, and passes at most what is not carried.
LEMMA SyncSame ==
    ASSUME InSync, Types, Types', sent <= sent', First <= First', Between(First, First'),
           UNCHANGED <<wire, next, ragged, state, readLength, readBuff, current, alreadySent>>
    PROVE  InSync'
<1> SUFFICES ASSUME ~ragged
             PROVE  \E num, off \in [0 .. Len(wire') -> Nat] :
                       /\ Path(num, off, wire)' /\ Reads(num[0], off[0])'
                       /\ Writes(num[Len(wire)], off[Len(wire)])'
  BY DEF InSync
<1>1. PICK num, off \in [0 .. Len(wire) -> Nat] :
        /\ Path(num, off, wire) /\ Reads(num[0], off[0])
        /\ Writes(num[Len(wire)], off[Len(wire)])
  BY DEF InSync
<1>2. wire' = wire /\ sent \in Nat /\ sent' \in Nat
  BY DEF Types, Numbered
<1>3. Within(num, off, wire)'
  <2>1. Within(num, off, wire)
    BY <1>1 DEF Path
  <2>2. \A i \in 0 .. Len(wire) : num[i] \in Nat
    BY <1>1
  <2> QED BY <1>2, <2>1, <2>2 DEF Within
<1>4. Path(num, off, wire)'
  <2>1. Rising(num, wire)' /\ Runs(num, off, wire)' /\ Carries(num, off, wire)'
    BY <1>1, <1>2 DEF Path, Rising, Runs, Carries
  <2> QED BY <1>1, <1>2, <1>3, <2>1 DEF Path
<1>5. Reads(num[0], off[0])'
  BY <1>1 DEF Reads
<1>6. Writes(num[Len(wire)], off[Len(wire)])'
  <2>1. First \in Nat /\ First' \in Nat
    BY FirstNumber, FirstNumberNext DEF Types
  <2>2. Len(wire) \in 0 .. Len(wire) /\ num[Len(wire)] \in Nat
    <3>1. Len(wire) \in Nat
      BY DEF Types, Piped
    <3>2. Len(wire) \in 0 .. Len(wire)
      BY <3>1
    <3> QED BY <1>1, <3>2
  <2>3. Between(num[Len(wire)], First) => Between(num[Len(wire)], First')
    BY <2>1, <2>2, Joined
  <2> QED BY <1>1, <1>2, <2>3 DEF Writes
<1> QED BY <1>1, <1>2, <1>4, <1>5, <1>6

\* Where the sender's list goes with a write.
LEMMA WritingGoesOn ==
    ASSUME Types, NEW p \in Carried, NEW done \in Nat, NEW n \in Nat, Writing(p, done, n)
    PROVE  p \in Nat /\ p # 0 /\ p = First /\ p = sent - Len(list')
<1>1. p \in Nat /\ p # 0 /\ p = First
  <2>1. p \in 1 .. Len(Payloads) /\ Len(Payloads) \in Nat
    BY Limits DEF Carried
  <2>2. p = First
    BY DEF Writing
  <2> QED BY <2>1, <2>2
<1>2. sent \in Nat /\ Len(list) \in Nat /\ Len(list) <= sent
  BY DEF Types, Numbered
<1>3. CASE current = 0
  <2>1. list # <<>> /\ list' = Tail(list) /\ p = (sent - Len(list)) + 1
    BY <1>3 DEF Writing, First
  <2>2. Len(list') = Len(list) - 1
    BY <2>1, ListParts DEF Types
  <2>3. p = sent - Len(list')
    BY <1>2, <2>1, <2>2
  <2> QED BY <1>1, <2>3
<1>4. CASE current # 0
  BY <1>1, <1>4 DEF Writing, First, Types, Numbered
<1> QED BY <1>3, <1>4

LEMMA SyncWrite ==
    ASSUME InSync, Types, Types', Write PROVE InSync'
<1> SUFFICES ASSUME ~ragged
             PROVE  \E num, off \in [0 .. Len(wire') -> Nat] :
                       /\ Path(num, off, wire)' /\ Reads(num[0], off[0])'
                       /\ Writes(num[Len(wire)], off[Len(wire)])'
  BY DEF InSync, Write, connectionVars
<1>1. PICK num, off \in [0 .. Len(wire) -> Nat] :
        /\ Path(num, off, wire) /\ Reads(num[0], off[0])
        /\ Writes(num[Len(wire)], off[Len(wire)])
  BY DEF InSync
<1>2. PICK p \in Carried, done \in Nat, n \in Nat : Writing(p, done, n)
  BY WriteIsWriting DEF Types
<1>3. UNCHANGED <<sent, next, state, readLength, readBuff>>
  BY DEF Write, receiverVars
<1>4. p \in Nat /\ p # 0 /\ p = First /\ p = sent - Len(list') /\ sent \in Nat
  BY <1>2, WritingGoesOn DEF Types, Numbered
<1>5. \A q, l : Reads(q, l) => Reads(q, l)'
  BY <1>3 DEF Reads
<1>6. /\ done < Len(Packet[p]) /\ done + n <= Len(Packet[p]) /\ p <= sent
      /\ done = IF current = 0 THEN 0 ELSE alreadySent
      /\ current' = IF done + n = Len(Packet[p]) THEN 0 ELSE p
      /\ alreadySent' = done + n /\ alreadySent \in Nat
  BY <1>2 DEF Writing, Types, Numbered
<1>7. IF done > 0 THEN num[Len(wire)] = p /\ off[Len(wire)] = done
      ELSE off[Len(wire)] = 0 /\ Between(num[Len(wire)], p)
  <2>1. CASE done > 0
    <3>1. current # 0 /\ alreadySent > 0 /\ done = alreadySent
      BY <1>6, <2>1
    <3>2. p = current
      BY <1>4, <3>1 DEF First
    <3> QED BY <1>1, <2>1, <3>1, <3>2 DEF Writes
  <2>2. CASE ~(done > 0)
    <3>1. ~(current # 0 /\ alreadySent > 0)
      BY <1>6, <2>2
    <3> QED BY <1>1, <1>4, <2>2, <3>1 DEF Writes
  <2> QED BY <2>1, <2>2
<1>8. CASE n = 0
  <2>1. wire' = wire
    BY <1>2, <1>8, WritingAppends
  <2>2. current' = p /\ alreadySent' = done
    BY <1>6, <1>8
  <2>3. Writes(num[Len(wire)], off[Len(wire)])'
    <3>1. First' = p
      BY <1>4, <2>2 DEF First
    <3> QED BY <1>4, <1>7, <2>1, <2>2, <3>1 DEF Writes
  <2>4. Path(num, off, wire)'
    BY <1>1, <1>3, <2>1 DEF Path, Within, Rising, Runs, Carries
  <2> QED BY <1>1, <1>5, <2>1, <2>3, <2>4
<1>9. CASE n # 0
  <2>1. wire \in Seq(AnyByte) /\ wire' = wire \o SubSeq(Packet[p], done + 1, done + n) /\ n >= 1
    BY <1>2, <1>9 DEF Types, Piped, Writing
  <2>2. PICK a, b \in [0 .. Len(wire') -> Nat] :
          /\ Path(a, b, wire') /\ a[0] = num[0] /\ b[0] = off[0]
          /\ At(a[Len(wire')], b[Len(wire')], p, done + n)
    <3>1. Path(num, off, wire) /\ p <= sent /\ done + n <= Len(Packet[p])
      BY <1>1, <1>6
    <3>2. sent \in Nat /\ wire \in Seq(AnyByte) /\ n >= 1
      BY <1>4, <2>1
    <3>3. \E q, k : At(q, k, p, done + n) /\ Connects(wire', num[0], off[0], q, k)
      BY <1>7, <2>1, <3>1, <3>2, PathWritten
    <3> QED BY <3>3 DEF Connects
  <2>3. Path(a, b, wire)'
    BY <1>3, <2>2 DEF Path, Within, Rising, Runs, Carries
  <2>4. Writes(a[Len(wire)], b[Len(wire)])'
    <3>1. CASE done + n = Len(Packet[p])
      <4>1. current' = 0 /\ a[Len(wire')] = p + 1 /\ b[Len(wire')] = 0
        BY <1>6, <2>2, <3>1 DEF At
      <4>2. First' = p + 1
        BY <1>3, <1>4, <4>1 DEF First
      <4>3. Between(p + 1, p + 1)
        BY <1>4, Alone
      <4> QED BY <4>1, <4>2, <4>3 DEF Writes
    <3>2. CASE done + n # Len(Packet[p])
      <4>1. current' = p /\ alreadySent' = done + n /\ a[Len(wire')] = p /\ b[Len(wire')] = done + n
        BY <1>6, <2>2, <3>2 DEF At
      <4>2. done + n > 0
        BY <2>1
      <4> QED BY <1>4, <4>1, <4>2 DEF Writes
    <3> QED BY <3>1, <3>2
  <2> QED BY <1>1, <1>5, <2>2, <2>3, <2>4
<1> QED BY <1>8, <1>9

\* Within a packet the bytes read are that packet's.
LEMMA ReadOn ==
    ASSUME Piped, NEW num \in [0 .. Len(wire) -> Nat], NEW off \in [0 .. Len(wire) -> Nat],
           Path(num, off, wire), NEW n \in 1 .. Len(wire),
           off[0] > 0, off[0] + n <= Len(Packet[num[0]])
    PROVE  /\ num[0] \in Carried /\ num[0] <= sent
           /\ At(num[n], off[n], num[0], off[0] + n)
           /\ \A i \in 1 .. n : wire[i] = Packet[num[0]][off[0] + i]
<1>1. Len(wire) \in Nat /\ 0 \in 0 .. Len(wire) /\ n \in 0 .. Len(wire) /\ n - 0 = n /\ 0 <= n
  BY DEF Piped
<1>2. num[0] \in Carried /\ num[0] <= sent /\ off[0] \in Nat
  <2>1. Within(num, off, wire) /\ off[0] \in Nat
    BY <1>1 DEF Path
  <2> QED BY <1>1, <2>1 DEF Within
<1>3. At(num[n], off[n], num[0], off[0] + n)
  BY <1>1 DEF Path, Runs
<1>4. Len(Packet[num[0]]) \in Nat
  BY <1>2, PacketParts DEF Carried
<1>5. ASSUME NEW i \in 1 .. n PROVE wire[i] = Packet[num[0]][off[0] + i]
  <2>1. /\ i \in 1 .. Len(wire) /\ i - 1 \in 0 .. Len(wire) /\ 0 <= i - 1 /\ (i - 1) - 0 = i - 1
        /\ (off[0] + (i - 1)) + 1 = off[0] + i /\ off[0] + (i - 1) > 0
    BY <1>1, <1>2
  <2>2. off[0] + (i - 1) < Len(Packet[num[0]])
    BY <1>1, <1>2, <1>4
  <2>3. off[0] + (i - 1) <= Len(Packet[num[0]]) /\ off[0] + (i - 1) # Len(Packet[num[0]])
    BY <1>2, <1>4, <2>1, <2>2
  <2>4. At(num[i - 1], off[i - 1], num[0], off[0] + (i - 1))
    BY <1>1, <2>1, <2>3 DEF Path, Runs
  <2>5. num[i - 1] = num[0] /\ off[i - 1] = off[0] + (i - 1)
    BY <2>3, <2>4 DEF At
  <2>6. wire[i] = Packet[num[i - 1]][off[i - 1] + 1]
    BY <2>1, <2>5 DEF Path, Carries
  <2> QED BY <2>1, <2>5, <2>6
<1> QED BY <1>2, <1>3, <1>5

\* What has been read takes the receiver to another place.
LEMMA SyncRead ==
    ASSUME Types, NEW num \in [0 .. Len(wire) -> Nat], NEW off \in [0 .. Len(wire) -> Nat],
           Path(num, off, wire), Writes(num[Len(wire)], off[Len(wire)]),
           NEW n \in 1 .. Len(wire), Taken(n), Reads(num[n], off[n])',
           UNCHANGED <<sent, list, current, alreadySent>>
    PROVE  InSync'
<1>1. wire \in Seq(AnyByte) /\ n \in 0 .. Len(wire)
  BY DEF Types, Piped
<1>2. Connects(SubSeq(wire, n + 1, Len(wire)), num[n], off[n], num[Len(wire)], off[Len(wire)])
  BY <1>1, PathRead
<1>3. Connects(wire', num[n], off[n], num[Len(wire)], off[Len(wire)])
  BY <1>2 DEF Taken
<1>4. PICK a, b \in [0 .. Len(wire') -> Nat] :
         /\ Path(a, b, wire') /\ a[0] = num[n] /\ b[0] = off[n]
         /\ a[Len(wire')] = num[Len(wire)] /\ b[Len(wire')] = off[Len(wire)]
  BY <1>3 DEF Connects
<1>5. Path(a, b, wire)'
  BY <1>4 DEF Path, Within, Rising, Runs, Carries
<1>6. Writes(a[Len(wire)], b[Len(wire)])'
  BY <1>4 DEF Writes, First
<1>7. Reads(a[0], b[0])'
  BY <1>4
<1> QED BY <1>4, <1>5, <1>6, <1>7 DEF InSync

LEMMA SyncReadByte ==
    ASSUME InSync, Types, ReadByte PROVE InSync'
<1> SUFFICES ASSUME ~ragged PROVE InSync'
  BY DEF InSync, ReadByte, connectionVars
<1>1. PICK num, off \in [0 .. Len(wire) -> Nat] :
        /\ Path(num, off, wire) /\ Reads(num[0], off[0])
        /\ Writes(num[Len(wire)], off[Len(wire)])
  BY DEF InSync
<1>2. /\ wire # <<>> /\ state # "ACQUIRE_DATA" /\ Taken(1) /\ readBuff' = <<>> /\ next' = next
      /\ UNCHANGED <<sent, list, current, alreadySent>>
  BY DEF ReadByte, senderVars
<1>3. Len(wire) \in Nat /\ 1 \in 1 .. Len(wire) /\ 0 \in 0 .. Len(wire) /\ 1 \in 0 .. Len(wire)
      /\ Head(wire) = wire[1]
  <2>1. wire \in Seq(AnyByte) /\ Len(wire) \in Nat /\ Len(wire) # 0
    BY <1>2, EmptySeq DEF Types, Piped
  <2> QED BY <1>2, <2>1
<1>4. Len(<<>>) = 0 /\ 1 .. 0 = {}
  OBVIOUS
<1>5. state \in States
  BY DEF Types, Receiving
<1> DEFINE p == num[0]
<1>6. CASE state = "SYNC1"
  <2>1. p = next /\ off[0] = 0
    BY <1>1, <1>6 DEF Reads
  <2>2. off[1] = 1 /\ Between(num[0], num[1]) /\ wire[1] = Sync1
    <3>1. 1 - 1 = 0 /\ ~(off[0] > 0)
      BY <2>1
    <3> QED BY <1>1, <1>3, <3>1 DEF Path, Carries
  <2>3. num[1] \in Carried
    <3>1. off[1] > 0
      BY <2>2
    <3> QED BY <1>1, <1>3, <3>1 DEF Path, Within
  <2>4. state' = "SYNC2"
    BY <1>3, <1>6, <2>2 DEF ReadByte
  <2>5. Reads(num[1], off[1])'
    BY <1>2, <2>1, <2>2, <2>3, <2>4 DEF Reads
  <2> QED BY <1>1, <1>2, <1>3, <2>5, SyncRead
<1>7. CASE state # "SYNC1"
  <2>1. p \in Carried /\ Between(next, p) /\ off[0] \in {1, 2, 3}
    BY <1>1, <1>2, <1>5, <1>7 DEF Reads, States
  <2>2. /\ Len(Packet[p]) \in Nat /\ Len(Packet[p]) >= 8 /\ Packet[p][2] = Sync2
        /\ Packet[p][3] = Lo(Len(Packet[p])) /\ Packet[p][4] = Hi(Len(Packet[p]))
    BY <2>1, PacketParts DEF Carried
  <2>3. off[0] > 0 /\ off[0] + 1 <= Len(Packet[num[0]]) /\ off[0] + 1 # Len(Packet[num[0]])
    BY <2>1, <2>2
  <2>4. At(num[1], off[1], p, off[0] + 1) /\ \A i \in 1 .. 1 : wire[i] = Packet[p][off[0] + i]
    BY <1>1, <1>3, <2>3, ReadOn DEF Types
  <2>5. num[1] = p /\ off[1] = off[0] + 1 /\ Head(wire) = Packet[p][off[0] + 1]
    <3>1. 1 \in 1 .. 1
      OBVIOUS
    <3> QED BY <1>3, <2>3, <2>4, <3>1 DEF At
  <2>6. CASE state = "SYNC2"
    <3>1. off[0] = 1
      BY <1>1, <2>6 DEF Reads
    <3>2. off[1] = 2 /\ Head(wire) = Sync2
      BY <2>2, <2>5, <3>1
    <3>3. state' = "LENGTH1"
      BY <2>6, <3>2 DEF ReadByte
    <3>4. Reads(num[1], off[1])'
      BY <1>2, <2>1, <2>5, <3>2, <3>3 DEF Reads
    <3> QED BY <1>1, <1>2, <1>3, <3>4, SyncRead
  <2>7. CASE state = "LENGTH1"
    <3>1. off[0] = 2
      BY <1>1, <2>7 DEF Reads
    <3>2. off[1] = 3 /\ Head(wire) = Lo(Len(Packet[p]))
      BY <2>2, <2>5, <3>1
    <3>3. state' = "LENGTH2" /\ readLength' = Lo(Len(Packet[p]))
      BY <2>7, <3>2 DEF ReadByte
    <3>4. Reads(num[1], off[1])'
      BY <1>2, <2>1, <2>5, <3>2, <3>3 DEF Reads
    <3> QED BY <1>1, <1>2, <1>3, <3>4, SyncRead
  <2>8. CASE state = "LENGTH2"
    <3>1. off[0] = 3 /\ readLength = Lo(Len(Packet[p]))
      BY <1>1, <2>8 DEF Reads
    <3>2. off[1] = 4 /\ Head(wire) = Hi(Len(Packet[p]))
      BY <2>2, <2>5, <3>1
    <3>3. readLength + 256 * Head(wire) = Len(Packet[p])
          /\ Len(Packet[p]) \in Header + Footer .. MaxLength
      BY <2>1, <3>1, <3>2, LengthFits DEF Carried
    <3>4. state' = "ACQUIRE_DATA" /\ readLength' = Len(Packet[p])
      BY <2>8, <3>3 DEF ReadByte
    <3>5. Len(readBuff') = 0 /\ 1 .. Len(readBuff') = {}
      BY <1>2, <1>4
    <3>6. Reads(num[1], off[1])'
      BY <1>2, <2>1, <2>5, <3>2, <3>4, <3>5 DEF Reads
    <3> QED BY <1>1, <1>2, <1>3, <3>6, SyncRead
  <2> QED BY <1>2, <1>5, <1>7, <2>6, <2>7, <2>8 DEF States
<1> QED BY <1>6, <1>7

\* Two sequences that agree are the same, whatever their elements.
LEMMA SameSeq ==
    ASSUME NEW S, NEW R, NEW a \in Seq(S), NEW b \in Seq(R),
           Len(a) = Len(b), \A i \in 1 .. Len(a) : a[i] = b[i]
    PROVE  a = b
<1>1. a \in Seq(S \cup R) /\ b \in Seq(S \cup R)
  OBVIOUS
<1> DEFINE T == S \cup R
<1> HIDE DEF T
<1>2. a \in Seq(T) /\ b \in Seq(T)
  BY <1>1 DEF T
<1> QED BY <1>2, SeqEqual

\* What is read of a body is the packet's, and with the last byte it is the packet.
LEMMA BodyIsPacket ==
    ASSUME Types, state = "ACQUIRE_DATA",
           NEW num \in [0 .. Len(wire) -> Nat], NEW off \in [0 .. Len(wire) -> Nat],
           Path(num, off, wire), Reads(num[0], off[0]), NEW n \in 1 .. Len(wire),
           Len(Buf(n)) <= readLength
    PROVE  LET p == num[0]
           IN /\ p \in Carried /\ p <= sent /\ Between(next, p) /\ readLength = Len(Packet[p])
              /\ At(num[n], off[n], p, 4 + Len(Body(n)))
              /\ \A i \in 1 .. Len(Body(n)) : Body(n)[i] = Packet[p][4 + i]
              /\ Len(Buf(n)) = readLength => Buf(n) = Packet[p]
<1> DEFINE p == num[0]
           m == Len(readBuff)
<1>1. /\ off[0] = 4 + m /\ readLength = Len(Packet[p]) /\ Between(next, p) /\ p \in Carried
      /\ \A i \in 1 .. m : readBuff[i] = Packet[p][4 + i]
  BY DEF Reads
<1>2. /\ Body(n) \in Seq(AnyByte) /\ Len(Body(n)) = m + n /\ m \in Nat /\ n \in Nat
      /\ \A i \in 1 .. m : Body(n)[i] = readBuff[i]
      /\ \A i \in 1 .. n : Body(n)[m + i] = wire[i]
  <2>1. n \in Nat
    BY DEF Types, Piped
  <2> QED BY <2>1, BodyParts
<1>3. /\ Len(Buf(n)) = 4 + (m + n)
      /\ Buf(n)[1] = Sync1 /\ Buf(n)[2] = Sync2
      /\ Buf(n)[3] = Lo(readLength) /\ Buf(n)[4] = Hi(readLength)
      /\ \A i \in 1 .. m + n : Buf(n)[4 + i] = Body(n)[i]
      /\ Buf(n) \in Seq(AnyByte \cup {Sync1, Sync2, Lo(readLength), Hi(readLength)})
  BY <1>2, BufParts
<1>4. off[0] > 0 /\ off[0] + n <= Len(Packet[num[0]])
  BY <1>1, <1>2, <1>3
<1>5. /\ p <= sent /\ At(num[n], off[n], p, off[0] + n)
      /\ \A i \in 1 .. n : wire[i] = Packet[p][off[0] + i]
  BY <1>4, ReadOn DEF Types
<1> HIDE DEF p, m
<1>6. off[0] + n = 4 + Len(Body(n))
  BY <1>1, <1>2
<1>7. ASSUME NEW i \in 1 .. m + n PROVE Body(n)[i] = Packet[p][4 + i]
  <2>1. CASE i \in 1 .. m
    BY <1>1, <1>2, <2>1
  <2>2. CASE i - m \in 1 .. n
    <3>1. m + (i - m) = i /\ off[0] + (i - m) = 4 + i
      BY <1>1, <1>2
    <3>2. Body(n)[m + (i - m)] = wire[i - m] /\ wire[i - m] = Packet[p][off[0] + (i - m)]
      BY <1>2, <1>5, <2>2
    <3> QED BY <3>1, <3>2
  <2>3. i \in 1 .. m \/ i - m \in 1 .. n
    BY <1>2
  <2> QED BY <2>1, <2>2, <2>3
<1>8. ASSUME Len(Buf(n)) = readLength PROVE Buf(n) = Packet[p]
  <2>1. /\ Packet[p] \in Seq(AnyByte) /\ Packet[p][1] = Sync1 /\ Packet[p][2] = Sync2
        /\ Packet[p][3] = Lo(readLength) /\ Packet[p][4] = Hi(readLength)
        /\ Len(Buf(n)) = Len(Packet[p])
    BY <1>1, <1>8, PacketParts DEF Carried
  <2>2. ASSUME NEW i \in 1 .. 4 + (m + n) PROVE Buf(n)[i] = Packet[p][i]
    <3>1. CASE i \in {1, 2, 3, 4}
      BY <1>3, <2>1, <3>1
    <3>2. CASE i - 4 \in 1 .. m + n
      <4>1. 4 + (i - 4) = i
        BY <1>2
      <4>2. Buf(n)[4 + (i - 4)] = Body(n)[i - 4] /\ Body(n)[i - 4] = Packet[p][4 + (i - 4)]
        BY <1>3, <1>7, <3>2
      <4> QED BY <4>1, <4>2
    <3>3. i \in {1, 2, 3, 4} \/ i - 4 \in 1 .. m + n
      BY <1>2
    <3> QED BY <3>1, <3>2, <3>3
  <2> QED BY <1>3, <2>1, <2>2, SameSeq
<1> QED BY <1>1, <1>2, <1>5, <1>6, <1>7, <1>8 DEF p

\* On a connection that began between packets the receiver hands on what was sent,
\* and no packet that is carried in between is missing.
LEMMA ReadBodyReads ==
    ASSUME Types, ReadBody, ~ragged,
           NEW num \in [0 .. Len(wire) -> Nat], NEW off \in [0 .. Len(wire) -> Nat],
           Path(num, off, wire), Reads(num[0], off[0])
    PROVE  /\ \E n \in 1 .. Len(wire) : Taken(n) /\ Reads(num[n], off[n])'
           /\ \/ UNCHANGED <<got, next>>
              \/ \E p \in Carried : /\ p <= sent /\ Between(next, p)
                                   /\ got' = Append(got, p) /\ next' = p + 1
<1>1. state = "ACQUIRE_DATA" /\ readLength' = readLength
  BY DEF ReadBody
<1>2. PICK n \in 1 .. Len(wire) :
        /\ Len(Buf(n)) <= readLength /\ Taken(n) /\ readBuff' = Body(n)
        /\ state' = IF Len(Buf(n)) = readLength THEN "SYNC1" ELSE state
        /\ \/ /\ Len(Buf(n)) = readLength
              /\ Buf(n) = Finalized(SubSeq(Buf(n), 1, readLength - 2))
              /\ got' = Append(got, Identified(Buf(n))) /\ next' = Identified(Buf(n)) + 1
           \/ /\ ~(/\ Len(Buf(n)) = readLength
                  /\ Buf(n) = Finalized(SubSeq(Buf(n), 1, readLength - 2)))
              /\ UNCHANGED <<got, next>>
  BY DEF ReadBody, Buf, Body, Invoked
<1> DEFINE p == num[0]
<1>3. /\ p \in Carried /\ p <= sent /\ Between(next, p) /\ readLength = Len(Packet[p])
      /\ At(num[n], off[n], p, 4 + Len(Body(n)))
      /\ \A i \in 1 .. Len(Body(n)) : Body(n)[i] = Packet[p][4 + i]
      /\ Len(Buf(n)) = readLength => Buf(n) = Packet[p]
  BY <1>1, <1>2, BodyIsPacket
<1>4. Len(Buf(n)) = 4 + Len(Body(n)) /\ Len(Body(n)) \in Nat
  BY BodyParts, BufParts
<1> HIDE DEF p
<1>5. CASE Len(Buf(n)) = readLength
  <2>1. Buf(n) = Packet[p] /\ p \in Packets
    BY <1>3, <1>5 DEF Carried
  <2>2. Finalized(SubSeq(Packet[p], 1, readLength - 2)) = Packet[p]
    BY <1>3, <2>1, PacketParts
  <2>3. Identified(Buf(n)) = p
    BY <1>3, <2>1, PacketsDiffer DEF Types, Numbered
  <2>4. got' = Append(got, p) /\ next' = p + 1
    BY <1>2, <1>5, <2>1, <2>2, <2>3
  <2>5. state' = "SYNC1"
    BY <1>2, <1>5
  <2>6. num[n] = p + 1 /\ off[n] = 0
    BY <1>3, <1>4, <1>5 DEF At
  <2>7. Reads(num[n], off[n])'
    BY <2>4, <2>5, <2>6 DEF Reads
  <2> QED BY <1>2, <1>3, <2>4, <2>7
<1>6. CASE Len(Buf(n)) # readLength
  <2>1. state' = "ACQUIRE_DATA" /\ UNCHANGED <<got, next>>
    BY <1>1, <1>2, <1>6
  <2>2. num[n] = p /\ off[n] = 4 + Len(Body(n))
    BY <1>3, <1>4, <1>6 DEF At
  <2>3. off[n] > 0
    BY <1>4, <2>2
  <2>4. Reads(num[n], off[n])'
    BY <1>1, <1>2, <1>3, <2>1, <2>2, <2>3 DEF Reads
  <2> QED BY <1>2, <2>1, <2>4
<1> QED BY <1>5, <1>6

LEMMA SyncReadBody ==
    ASSUME InSync, Types, ReadBody PROVE InSync'
<1> SUFFICES ASSUME ~ragged PROVE InSync'
  BY DEF InSync, ReadBody, connectionVars
<1>1. PICK num, off \in [0 .. Len(wire) -> Nat] :
        /\ Path(num, off, wire) /\ Reads(num[0], off[0])
        /\ Writes(num[Len(wire)], off[Len(wire)])
  BY DEF InSync
<1>2. PICK n \in 1 .. Len(wire) : Taken(n) /\ Reads(num[n], off[n])'
  BY <1>1, ReadBodyReads
<1>3. UNCHANGED <<sent, list, current, alreadySent>>
  BY DEF ReadBody, senderVars
<1> QED BY <1>1, <1>2, <1>3, SyncRead

\* A new connection begins with the sender's next packet.
LEMMA ReconnectNext ==
    ASSUME Types, Reconnect PROVE next' = First' /\ (next' = First \/ next' = sent + 1)
<1>1. sent' = sent /\ sent \in Nat /\ Len(<<>>) = 0
  BY DEF Reconnect, Types, Numbered
<1>2. CASE /\ next' = IF current # 0 THEN current
                       ELSE IF list # <<>> THEN Head(list) ELSE sent + 1
           /\ UNCHANGED <<list, current>>
  <2>1. First' = First /\ First \in Nat
    BY <1>1, <1>2, FirstNumber DEF First, Types
  <2>2. list # <<>> => Head(list) = (sent - Len(list)) + 1
    BY ListParts DEF Types
  <2>3. CASE current # 0
    BY <1>2, <2>1, <2>3 DEF First
  <2>4. CASE current = 0 /\ list # <<>>
    BY <1>2, <2>1, <2>2, <2>4 DEF First
  <2>5. CASE current = 0 /\ list = <<>>
    BY <1>1, <1>2, <2>1, <2>5 DEF First
  <2> QED BY <2>3, <2>4, <2>5
<1>3. CASE list' = <<>> /\ current' = 0 /\ next' = sent + 1
  BY <1>1, <1>3 DEF First
<1> QED BY <1>2, <1>3 DEF Reconnect

LEMMA SyncReconnect ==
    ASSUME Types, Reconnect PROVE InSync'
<1> SUFFICES ASSUME ~ragged' PROVE InSync'
  BY DEF InSync
<1>1. wire' = <<>> /\ sent' = sent /\ sent \in Nat
  BY DEF Reconnect, Types, Numbered
<1>2. state' = "SYNC1" /\ ~(current' # 0 /\ alreadySent' > 0) /\ next' = First' /\ next' \in Nat
  <2>1. next' = First' /\ next' \in Nat
    BY <1>1, ReconnectNext, FirstNumber DEF Types
  <2>2. state' = "SYNC1" /\ ~(current' # 0 /\ alreadySent' > 0)
    BY DEF Reconnect
  <2> QED BY <2>1, <2>2
<1>3. Connects(<<>>, next', 0, next', 0)
  BY <1>2, EmptyPath
<1>4. PICK num, off \in [0 .. Len(wire') -> Nat] :
        /\ Path(num, off, wire') /\ num[0] = next' /\ off[0] = 0
        /\ num[Len(wire')] = next' /\ off[Len(wire')] = 0
  BY <1>1, <1>3 DEF Connects
<1>5. Path(num, off, wire)'
  BY <1>1, <1>4 DEF Path, Within, Rising, Runs, Carries
<1>6. Reads(num[0], off[0])'
  BY <1>2, <1>4 DEF Reads
<1>7. Writes(num[Len(wire)], off[Len(wire)])'
  BY <1>2, <1>4, Alone DEF Writes
<1> QED BY <1>4, <1>5, <1>6, <1>7 DEF InSync

\* Where the sender is moves on, over packets that are not carried, unless it writes.
LEMMA FirstMoves ==
    ASSUME Types, [Next]_vars, ~Write, ~Reconnect
    PROVE  Between(First, First') /\ First <= First' /\ sent <= sent'
<1>1. First \in Nat /\ sent \in Nat
  BY FirstNumber DEF Types, Numbered
<1>2. CASE SendPacket
  <2>1. sent' = sent + 1 /\ list' = Append(list, sent + 1) /\ current' = current
    BY <1>2 DEF SendPacket
  <2>2. First' = First
    <3>1. list \in Seq(Nat) /\ sent + 1 \in Nat /\ Len(list) \in Nat
      BY <1>1 DEF Types, Numbered
    <3>2. Len(list') = Len(list) + 1
      BY <2>1, <3>1, AppendProperties
    <3>3. (sent' - Len(list')) + 1 = (sent - Len(list)) + 1
      BY <1>1, <2>1, <3>1, <3>2
    <3> QED BY <2>1, <3>3 DEF First
  <2> QED BY <1>1, <2>1, <2>2, Alone
<1>3. CASE DropTooLong
  <2>1. /\ current = 0 /\ list # <<>> /\ Head(list) \in TooLong /\ list' = Tail(list)
        /\ sent' = sent /\ current' = current
    BY <1>3 DEF DropTooLong
  <2>2. /\ Head(list) = (sent - Len(list)) + 1 /\ Len(list') = Len(list) - 1
        /\ Len(list) \in Nat /\ Len(list) <= sent
    BY <2>1, ListParts DEF Types, Numbered
  <2>3. First = Head(list) /\ First' = (sent - (Len(list) - 1)) + 1
    BY <2>1, <2>2 DEF First
  <2>4. First' = First + 1 /\ First \in TooLong
    BY <1>1, <2>1, <2>2, <2>3
  <2> QED BY <1>1, <2>1, <2>4 DEF Between
<1>4. CASE UNCHANGED <<sent, list, current>>
  <2>1. First' = First
    BY <1>4 DEF First
  <2> QED BY <1>1, <1>4, <2>1, Alone
<1>5. ASSUME NothingToSend \/ TimePasses \/ ReadData \/ EndRead \/ ReceiverDies \/ UNCHANGED vars
      PROVE  UNCHANGED <<sent, list, current>>
  BY <1>5 DEF NothingToSend, TimePasses, ReadData, BeginRead, ReadByte, ReadBody, EndRead,
              ReceiverDies, vars, senderVars
<1> QED BY <1>2, <1>3, <1>4, <1>5 DEF Next, SendData

LEMMA SyncStep == Inv /\ [Next]_vars => InSync'
<1> SUFFICES ASSUME Inv, [Next]_vars PROVE InSync'
  OBVIOUS
<1>0. InSync /\ Types /\ Types'
  BY TypesStep DEF Inv
<1>2. CASE /\ Between(First, First') /\ First <= First' /\ sent <= sent'
           /\ UNCHANGED <<wire, next, ragged, state, readLength, readBuff, current, alreadySent>>
  BY <1>0, <1>2, SyncSame
<1>3. CASE Write
  BY <1>0, <1>3, SyncWrite
<1>5. CASE ReadByte
  BY <1>0, <1>5, SyncReadByte
<1>6. CASE ReadBody
  BY <1>0, <1>6, SyncReadBody
<1>7. CASE Reconnect
  BY <1>0, <1>7, SyncReconnect
<1>8. ASSUME SendPacket \/ DropTooLong \/ NothingToSend \/ TimePasses \/ BeginRead \/ EndRead
             \/ ReceiverDies \/ UNCHANGED vars
      PROVE  UNCHANGED <<wire, next, ragged, state, readLength, readBuff, current, alreadySent>>
  BY <1>8 DEF SendPacket, DropTooLong, NothingToSend, TimePasses, BeginRead, EndRead, ReceiverDies,
              vars, senderVars, receiverVars, connectionVars
<1> QED BY <1>0, <1>2, <1>3, <1>5, <1>6, <1>7, <1>8, FirstMoves DEF Next, SendData, ReadData

LEMMA InvHolds == Spec => []Inv
<1>1. Init => Inv
  BY TypesInit, SyncInit DEF Inv
<1>2. Inv /\ [Next]_vars => Inv'
  BY TypesStep, SyncStep DEF Inv
<1> QED BY <1>1, <1>2, PTL DEF Spec

----------------------------------------------------------------------------
(* The channel *)

LEMMA ChannelInit == Init => Channel!Init
BY DEF Init, Channel!Init

\* What the receiver waits for is no later than what the sender has next: the path leads
\* there, and where there is none, the connection began there.
NotAhead == next <= First

LEMMA SyncNotAhead == Inv /\ ~ragged => NotAhead
<1> SUFFICES ASSUME Inv, ~ragged PROVE next <= First
  BY DEF NotAhead
<1>1. PICK num, off \in [0 .. Len(wire) -> Nat] :
        /\ Path(num, off, wire) /\ Reads(num[0], off[0])
        /\ Writes(num[Len(wire)], off[Len(wire)])
  BY DEF Inv, InSync
<1>2. Len(wire) \in Nat /\ next \in Nat /\ First \in Nat
  BY FirstNumber DEF Inv, Types, Piped
<1>3. 0 \in 0 .. Len(wire) /\ Len(wire) \in 0 .. Len(wire) /\ 0 <= Len(wire)
  BY <1>2
<1>4. num[0] <= num[Len(wire)]
  BY <1>1, <1>3 DEF Path, Rising
<1>5. next <= num[0]
  BY <1>1, <1>2 DEF Reads, Between
<1>6. num[Len(wire)] <= First
  BY <1>1, <1>2, <1>3 DEF Writes, First, Between
<1>7. num[0] \in Nat /\ num[Len(wire)] \in Nat
  BY <1>3
<1> QED BY <1>2, <1>4, <1>5, <1>6, <1>7

LEMMA NotAheadStep == Inv /\ NotAhead /\ [Next]_vars => (ragged => NotAhead)'
<1> SUFFICES ASSUME Inv, NotAhead, [Next]_vars, ragged' PROVE next' <= First'
  BY DEF NotAhead
<1>1. Types /\ Types' /\ next \in Nat /\ First \in Nat /\ First' \in Nat
  BY TypesStep, FirstNumber, FirstNumberNext DEF Inv, Types, Piped
<1>2. CASE Reconnect
  BY <1>1, <1>2, ReconnectNext
<1>3. CASE ~Reconnect
  <2>1. next' = next
    BY <1>3 DEF Next, SendPacket, SendData, Write, DropTooLong, NothingToSend, TimePasses, ReadData,
                BeginRead, ReadByte, ReadBody, Invoked, EndRead, ReceiverDies, vars, connectionVars
  <2>2. First <= First'
    <3>1. CASE Write
      <4>1. PICK p \in Carried, done \in Nat, n \in Nat : Writing(p, done, n)
        BY <1>1, <3>1, WriteIsWriting DEF Types
      <4>2. p \in Nat /\ p # 0 /\ p = First /\ p = sent - Len(list')
        BY <1>1, <4>1, WritingGoesOn
      <4>3. sent' = sent /\ (current' = 0 \/ current' = p)
        BY <3>1, <4>1 DEF Write, Writing
      <4> QED BY <4>2, <4>3 DEF First
    <3> QED BY <1>1, <1>3, <3>1, FirstMoves
  <2> QED BY <1>1, <2>1, <2>2 DEF NotAhead
<1> QED BY <1>2, <1>3

LEMMA NotAheadHolds == Spec => [](Inv /\ NotAhead)
<1>1. Init => NotAhead
  <2>1. Init => Numbered
    BY TypesInit DEF Types
  <2> QED BY <2>1 DEF Init, NotAhead, First
<1> QED BY <1>1, SyncNotAhead, NotAheadStep, InvHolds, PTL DEF Spec

\* Every step is the channel's.
LEMMA ChannelStep == Inv /\ NotAhead /\ [Next]_vars => [Channel!Next]_(Channel!vars)
<1> SUFFICES ASSUME Inv, NotAhead, [Next]_vars PROVE [Channel!Next]_(Channel!vars)
  OBVIOUS
<1> USE DEF Channel!Next, Channel!vars
<1>1. CASE SendPacket
  <2>1. Channel!Send
    BY <1>1 DEF SendPacket, Channel!Send, receiverVars, connectionVars
  <2> QED BY <2>1
<1>2. CASE ReadBody /\ ~ragged
  <2>1. PICK num, off \in [0 .. Len(wire) -> Nat] :
          /\ Path(num, off, wire) /\ Reads(num[0], off[0])
          /\ Writes(num[Len(wire)], off[Len(wire)])
    BY <1>2 DEF Inv, InSync
  <2>2. UNCHANGED <<sent, ragged>>
    BY <1>2 DEF ReadBody, senderVars, connectionVars
  <2>3. \/ UNCHANGED <<got, next>>
        \/ \E p \in Carried : /\ p <= sent /\ Between(next, p)
                             /\ got' = Append(got, p) /\ next' = p + 1
    BY <1>2, <2>1, ReadBodyReads DEF Inv
  <2>4. ASSUME NEW p \in Carried, p <= sent, Between(next, p), got' = Append(got, p), next' = p + 1
        PROVE  Channel!Deliver
    <3>1. next \in Nat /\ sent \in Nat
      BY DEF Inv, Types, Piped, Numbered
    <3>2. p \in Nat /\ p \notin TooLong
      BY Limits DEF Carried
    <3>3. p \in next .. sent /\ next .. (p - 1) \subseteq TooLong
      BY <2>4, <3>1, <3>2 DEF Between
    <3> QED BY <1>2, <2>2, <2>4, <3>2, <3>3 DEF Channel!Deliver
  <2> QED BY <2>2, <2>3, <2>4
<1>5. CASE ReadBody /\ ragged
  <2>1. UNCHANGED <<sent, ragged, next>>
    BY <1>5 DEF ReadBody, Invoked, senderVars, connectionVars
  <2>2. got' = got \/ \E buf : got' = Append(got, Identified(buf))
    BY <1>5 DEF ReadBody, Invoked
  <2>3. \A buf : Identified(buf) \in 0 .. sent
    BY IdentifiedSent DEF Inv, Types, Numbered
  <2> QED BY <1>5, <2>1, <2>2, <2>3 DEF Channel!Stray
<1>3. CASE Reconnect
  <2>1. UNCHANGED <<sent, got>>
    BY <1>3 DEF Reconnect
  <2>2. ragged' \in BOOLEAN
    BY <1>3 DEF Reconnect
  <2>3. next' \in next .. sent + 1
    <3>1. next \in Nat /\ sent \in Nat /\ First \in Nat /\ First <= sent + 1 /\ next <= First
      BY FirstNumber DEF NotAhead, Inv, Types, Piped, Numbered
    <3>2. next' = First \/ next' = sent + 1
      BY <1>3, ReconnectNext DEF Inv
    <3> QED BY <3>1, <3>2
  <2>4. Channel!Reconnect
    BY <2>1, <2>2, <2>3 DEF Channel!Reconnect
  <2> QED BY <2>4
<1>4. CASE SendData \/ TimePasses \/ BeginRead \/ ReadByte \/ EndRead \/ ReceiverDies \/ UNCHANGED vars
  <2>1. UNCHANGED <<sent, next, ragged, got>>
    BY <1>4 DEF SendData, Write, DropTooLong, NothingToSend, TimePasses, BeginRead, ReadByte, EndRead,
                ReceiverDies, vars, senderVars, receiverVars, connectionVars
  <2> QED BY <2>1
<1> QED BY <1>1, <1>2, <1>3, <1>4, <1>5 DEF Next, ReadData

\* However the stream is cut into pieces it is a channel of packets (ImplementsChannel):
\* what is handed on from a connection that began between packets is the next packet that
\* was sent and is carried, and no connection begins before what such a one has handed on.
THEOREM StreamIsChannel == Spec => ImplementsChannel
BY ChannelInit, ChannelStep, NotAheadHolds, PTL DEF Spec, ImplementsChannel, Channel!Spec

\* A sequence whose elements are all in a set.
LEMMA SeqInto ==
    ASSUME NEW S, NEW T, NEW a \in Seq(S), \A i \in 1 .. Len(a) : a[i] \in T
    PROVE  a \in Seq(T)
OBVIOUS

LEMMA GotInit == Init => got \in Seq(0 .. sent)
<1>1. <<>> \in Seq(0 .. sent)
  OBVIOUS
<1> QED BY <1>1 DEF Init

LEMMA GotStep == Inv /\ got \in Seq(0 .. sent) /\ [Next]_vars => (got \in Seq(0 .. sent))'
<1> SUFFICES ASSUME Inv, got \in Seq(0 .. sent), [Next]_vars PROVE got' \in Seq(0 .. sent')
  OBVIOUS
<1>1. sent \in Nat
  BY DEF Inv, Types, Numbered
<1>2. CASE ReadBody
  <2>1. got' = got \/ \E buf : got' = Append(got, Identified(buf))
    BY <1>2 DEF ReadBody, Invoked
  <2>2. ASSUME NEW buf PROVE Append(got, Identified(buf)) \in Seq(0 .. sent)
    BY <1>1, IdentifiedSent, AppendProperties
  <2>3. sent' = sent
    BY <1>2 DEF ReadBody, senderVars
  <2> QED BY <2>1, <2>2, <2>3
<1>3. CASE ~ReadBody
  <2>1. got' = got
    BY <1>3 DEF Next, SendPacket, SendData, Write, DropTooLong, NothingToSend, TimePasses, ReadData,
                BeginRead, ReadByte, EndRead, ReceiverDies, Reconnect, vars, receiverVars
  <2>2. sent' = sent \/ sent' = sent + 1
    BY <1>3 DEF Next, SendPacket, SendData, Write, DropTooLong, NothingToSend, TimePasses, ReadData,
                BeginRead, ReadByte, EndRead, ReceiverDies, Reconnect, vars, senderVars
  <2>3. 0 .. sent \subseteq 0 .. sent'
    BY <1>1, <2>2
  <2>4. \A i \in 1 .. Len(got) : got[i] \in 0 .. sent'
    BY <2>3, ElementOfSeq
  <2> QED BY <2>1, <2>4, SeqInto
<1> QED BY <1>2, <1>3

LEMMA InvTypes == Inv /\ got \in Seq(0 .. sent) => TypeOK
<1> SUFFICES ASSUME Inv, got \in Seq(0 .. sent) PROVE TypeOK
  OBVIOUS
<1> USE DEF Inv, Types
<1>1. /\ clientEnd \in {"sender", "receiver"} /\ ragged \in BOOLEAN
      /\ Len(wire) <= Capacity /\ reconnects \in 0 .. MaxReconnects
  BY DEF Piped
<1>2. /\ sinceGood \in 0 .. BackupTimeout /\ closed \in BOOLEAN /\ dead \in BOOLEAN
  BY DEF Idling
<1>3. /\ state \in States /\ reading \in BOOLEAN
      /\ state = "ACQUIRE_DATA" => /\ readLength \in Header + Footer .. MaxLength
                                   /\ Len(readBuff) < readLength - 4
  BY DEF Receiving
<1>4. /\ sent \in 0 .. Len(Payloads) /\ current \in 0 .. sent /\ alreadySent \in 0 .. MaxLength
  <2>1. /\ sent \in Nat /\ sent <= Len(Payloads) /\ current \in Nat /\ alreadySent \in Nat
        /\ alreadySent <= MaxLength /\ Len(list) \in Nat /\ Len(list) <= sent
        /\ (current # 0 => current = sent - Len(list))
    BY DEF Numbered
  <2>2. MaxLength \in Nat /\ Len(Payloads) \in Nat
    BY Limits
  <2> QED BY <2>1, <2>2
<1>5. list \in Seq(1 .. sent)
  <2>1. /\ sent \in Nat /\ list \in Seq(Nat) /\ Len(list) <= sent /\ Len(list) \in Nat
        /\ \A i \in 1 .. Len(list) : list[i] = (sent - Len(list)) + i
    BY DEF Numbered
  <2>2. \A i \in 1 .. Len(list) : list[i] \in 1 .. sent
    BY <2>1
  <2> QED BY <2>1, <2>2, SeqInto
<1> QED BY <1>1, <1>2, <1>3, <1>4, <1>5 DEF TypeOK

\* What is read of a packet fits its length and the receiver's buffer, whatever bytes are
\* left of a connection that broke off (TypeOK).
THEOREM StreamIsTyped == Spec => []TypeOK
<1>1. Spec => [](got \in Seq(0 .. sent))
  BY GotInit, GotStep, InvHolds, PTL DEF Spec
<1> QED BY <1>1, InvTypes, InvHolds, PTL

============================================================================
