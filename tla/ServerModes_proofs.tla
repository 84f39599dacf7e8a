-------------------------- MODULE ServerModes_proofs --------------------------
(***************************************************************************)
(* Machine-checked proofs about ServerModes: its invariants and what its     *)
(* steps never do, for every set of modes, with or without a default mode.   *)
(***************************************************************************)
EXTENDS ServerModes, SequenceTheorems, TLAPS

----------------------------------------------------------------------------
(* The list of requests *)

Distinct(s) == \A i, j \in 1 .. Len(s) : s[i] = s[j] => i = j
Avoids(s, S) == \A i \in 1 .. Len(s) : s[i] \notin S

\* What erasing one position does to the positions of a list.
LEMMA RemoveAtElements ==
    ASSUME NEW S, NEW s \in Seq(S), NEW i \in 1 .. Len(s)
    PROVE  /\ RemoveAt(s, i) \in Seq(S)
           /\ Len(RemoveAt(s, i)) = Len(s) - 1
           /\ \A k \in 1 .. Len(s) - 1 :
                RemoveAt(s, i)[k] = IF k < i THEN s[k] ELSE s[k + 1]
<1> DEFINE a == SubSeq(s, 1, i - 1)
           b == SubSeq(s, i + 1, Len(s))
<1>1. /\ a \in Seq(S) /\ Len(a) = i - 1
      /\ \A k \in 1 .. i - 1 : a[k] = s[k]
  OBVIOUS
<1>2. /\ b \in Seq(S) /\ Len(b) = Len(s) - i
      /\ \A k \in 1 .. Len(s) - i : b[k] = s[k + i]
  OBVIOUS
<1>3. /\ a \o b \in Seq(S)
      /\ Len(a \o b) = Len(a) + Len(b)
      /\ \A k \in 1 .. Len(a) + Len(b) :
           (a \o b)[k] = IF k <= Len(a) THEN a[k] ELSE b[k - Len(a)]
  <2> HIDE DEF a, b
  <2> QED BY <1>1, <1>2, ConcatProperties
<1>4. RemoveAt(s, i) = a \o b
  BY DEF RemoveAt
<1> HIDE DEF a, b
<1>5. ASSUME NEW k \in 1 .. Len(s) - 1
      PROVE  (a \o b)[k] = IF k < i THEN s[k] ELSE s[k + 1]
  <2>1. CASE k < i
    BY <2>1, <1>1, <1>2, <1>3
  <2>2. CASE k >= i
    <3>1. (a \o b)[k] = b[k - (i - 1)] /\ k - (i - 1) \in 1 .. Len(s) - i
      BY <2>2, <1>1, <1>2, <1>3
    <3>2. (k - (i - 1)) + i = k + 1
      OBVIOUS
    <3> QED BY <2>2, <3>1, <3>2, <1>2
  <2>3. k < i \/ k >= i
    OBVIOUS
  <2> QED BY <2>1, <2>2, <2>3
<1>6. Len(a \o b) = Len(s) - 1
  BY <1>1, <1>2, <1>3
<1> QED BY <1>3, <1>4, <1>5, <1>6

\* Without erases m from a list of distinct modes and keeps the rest.
LEMMA WithoutProperties ==
    ASSUME NEW s \in Seq(Modes), Distinct(s), NEW m
    PROVE  /\ Without(s, m) \in Seq(Modes)
           /\ Distinct(Without(s, m))
           /\ Avoids(Without(s, m), {m})
           /\ \A T : Avoids(s, T) => Avoids(Without(s, m), T)
<1>1. CASE ~ \E i \in 1 .. Len(s) : s[i] = m
  BY <1>1 DEF Without, Avoids
<1>2. CASE \E i \in 1 .. Len(s) : s[i] = m
  <2> DEFINE i == CHOOSE i \in 1 .. Len(s) : s[i] = m
             w == RemoveAt(s, i)
  <2>1. i \in 1 .. Len(s) /\ s[i] = m
    BY <1>2
  <2>2. Without(s, m) = w
    BY <1>2 DEF Without
  <2> HIDE DEF i
  <2>3. /\ w \in Seq(Modes) /\ Len(w) = Len(s) - 1
        /\ \A k \in 1 .. Len(s) - 1 : w[k] = IF k < i THEN s[k] ELSE s[k + 1]
    BY <2>1, RemoveAtElements
  <2> HIDE DEF w
  <2>4. Distinct(w)
    BY <2>1, <2>3 DEF Distinct
  <2>5. Avoids(w, {m})
    BY <2>1, <2>3 DEF Distinct, Avoids
  <2>6. \A T : Avoids(s, T) => Avoids(w, T)
    BY <2>1, <2>3 DEF Avoids
  <2> QED BY <2>2, <2>3, <2>4, <2>5, <2>6
<1> QED BY <1>1, <1>2

\* A mode pushed to the front is there once, and brings nobody else in.
LEMMA PushedProperties ==
    ASSUME NEW s \in Seq(Modes), Distinct(s), NEW m \in Modes
    PROVE  /\ Pushed(s, m) \in Seq(Modes)
           /\ Distinct(Pushed(s, m))
           /\ \A T : Avoids(s, T) /\ m \notin T => Avoids(Pushed(s, m), T)
<1> DEFINE w == Without(s, m)
           p == Pushed(s, m)
<1>1. /\ w \in Seq(Modes) /\ Distinct(w) /\ Avoids(w, {m})
      /\ \A T : Avoids(s, T) => Avoids(w, T)
  BY WithoutProperties
<1>2. p = <<m>> \o w
  BY DEF Pushed
<1> HIDE DEF w, p
<1>3. /\ p \in Seq(Modes) /\ Len(p) = Len(w) + 1
      /\ \A k \in 1 .. Len(w) + 1 : p[k] = IF k = 1 THEN m ELSE w[k - 1]
  BY <1>1, <1>2
<1>4. /\ Len(w) \in Nat
      /\ \A k \in 1 .. Len(p) :
           \/ k = 1 /\ p[k] = m
           \/ k - 1 \in 1 .. Len(w) /\ p[k] = w[k - 1] /\ p[k] # m
  BY <1>1, <1>3 DEF Avoids
<1>5. Distinct(p)
  <2> SUFFICES ASSUME NEW i \in 1 .. Len(p), NEW j \in 1 .. Len(p),
                      p[i] = p[j]
               PROVE  i = j
    BY DEF Distinct
  <2>1. CASE i = 1 \/ j = 1
    BY <2>1, <1>4
  <2>2. CASE i # 1 /\ j # 1
    <3>1. /\ i - 1 \in 1 .. Len(w) /\ j - 1 \in 1 .. Len(w)
          /\ w[i - 1] = w[j - 1]
      BY <2>2, <1>4
    <3>2. i - 1 = j - 1
      BY <3>1, <1>1 DEF Distinct
    <3> QED BY <3>2
  <2> QED BY <2>1, <2>2
<1>6. ASSUME NEW T, Avoids(s, T), m \notin T
      PROVE  Avoids(p, T)
  <2>1. Avoids(w, T)
    BY <1>1, <1>6
  <2> QED BY <2>1, <1>4, <1>6 DEF Avoids
<1> QED BY <1>3, <1>5, <1>6 DEF p

\* The elements of a sequence are what it has at its positions.
LEMMA InToSet ==
    ASSUME NEW S, NEW s \in Seq(S)
    PROVE  \A x : x \in ToSet(s) <=> \E i \in 1 .. Len(s) : s[i] = x
<1>1. DOMAIN s = 1 .. Len(s)
  OBVIOUS
<1> QED BY <1>1 DEF ToSet

\* Erasing a mode loses no other, and pushing one loses none.
LEMMA NobodyElseLost ==
    ASSUME NEW s \in Seq(Modes), NEW m \in Modes
    PROVE  /\ ToSet(s) \ {m} \subseteq ToSet(Without(s, m))
           /\ ToSet(s) \subseteq ToSet(Pushed(s, m))
<1> DEFINE w == Without(s, m)
<1>1. /\ w \in Seq(Modes)
      /\ \A i \in 1 .. Len(s) : s[i] # m => \E k \in 1 .. Len(w) : w[k] = s[i]
  <2>1. CASE ~ \E i \in 1 .. Len(s) : s[i] = m
    BY <2>1 DEF Without
  <2>2. CASE \E i \in 1 .. Len(s) : s[i] = m
    <3> DEFINE j == CHOOSE i \in 1 .. Len(s) : s[i] = m
    <3>1. j \in 1 .. Len(s) /\ s[j] = m
      BY <2>2
    <3>2. w = RemoveAt(s, j)
      BY <2>2 DEF Without
    <3> HIDE DEF j, w
    <3>3. /\ w \in Seq(Modes) /\ Len(w) = Len(s) - 1
          /\ \A k \in 1 .. Len(s) - 1 : w[k] = IF k < j THEN s[k] ELSE s[k + 1]
      BY <3>1, <3>2, RemoveAtElements
    <3>4. ASSUME NEW i \in 1 .. Len(s), s[i] # m
          PROVE  \E k \in 1 .. Len(w) : w[k] = s[i]
      <4>1. CASE i < j
        <5>1. i \in 1 .. Len(w) /\ w[i] = s[i]
          BY <3>1, <3>3, <4>1
        <5> QED BY <5>1
      <4>2. CASE i > j
        <5>1. i - 1 \in 1 .. Len(w) /\ ~(i - 1 < j) /\ (i - 1) + 1 = i
          BY <3>1, <3>3, <4>2
        <5>2. w[i - 1] = s[i]
          BY <3>3, <5>1
        <5> QED BY <5>1, <5>2
      <4> QED BY <3>1, <3>4, <4>1, <4>2
    <3> QED BY <3>3, <3>4
  <2> QED BY <2>1, <2>2
<1> DEFINE p == <<m>> \o w
<1>2. Pushed(s, m) = p
  BY DEF Pushed
<1>3. \A i \in 1 .. Len(s) : s[i] # m => s[i] \in ToSet(w)
  BY <1>1, InToSet
<1> HIDE DEF w
<1>4. /\ p \in Seq(Modes) /\ Len(p) = Len(w) + 1 /\ p[1] = m
      /\ \A k \in 1 .. Len(w) : p[k + 1] = w[k] /\ k + 1 \in 1 .. Len(p)
      /\ 1 \in 1 .. Len(p)
  BY <1>1
<1> HIDE DEF p
<1>5. m \in ToSet(p)
  BY <1>4, InToSet
<1>6. ASSUME NEW x \in ToSet(w)
      PROVE  x \in ToSet(p)
  <2>1. PICK k \in 1 .. Len(w) : w[k] = x
    BY <1>1, InToSet
  <2>2. p[k + 1] = x /\ k + 1 \in 1 .. Len(p)
    BY <1>4, <2>1
  <2> QED BY <1>4, <2>2, InToSet
<1>7. \A x \in ToSet(s) : x # m => x \in ToSet(w)
  BY <1>3, InToSet
<1> QED BY <1>2, <1>5, <1>6, <1>7 DEF w

----------------------------------------------------------------------------
(* The inductive invariant: no conjunct is inductive without the others.     *)
(* QueueSound needs NobodyWaitsForVacantRobot when a vacant robot is taken,  *)
(* ClientsInformed needs LockHasHolder, OneModeInControl needs QueueSound.   *)

Inv ==
    /\ TypeOK
    /\ OneModeInControl
    /\ LockHasHolder
    /\ QueueSound
    /\ NobodyWaitsForVacantRobot
    /\ ClientsInformed

\* QueueSound in the terms of the list lemmas.
LEMMA QueueSoundMeans ==
    ASSUME requested \in Seq(Modes)
    PROVE  QueueSound <=> Distinct(requested) /\ Avoids(requested, {Idle, activeMode})
BY DEF QueueSound, Distinct, Avoids

\* The same of the next state.
LEMMA QueueSoundPrimeMeans ==
    ASSUME requested' \in Seq(Modes), Distinct(requested'),
           Avoids(requested', {Idle, activeMode'})
    PROVE  QueueSound'
BY DEF QueueSound, Distinct, Avoids

\* Whoever becomes active holds the robot alone, unlocked and announced.
LEMMA BecomeActiveKeeps ==
    ASSUME Inv, NEW m \in Modes, BecomeActive(m)
    PROVE  /\ activeMode' \in Modes /\ lastActiveMode' \in Modes \cup {NoMode}
           /\ locked' = FALSE /\ willUnlock' = FALSE
           /\ isActive' \in [Modes -> BOOLEAN]
           /\ running' \in SUBSET Modes /\ started' \in SUBSET Modes
           /\ broadcast' \in [mode : Modes \cup {NoMode},
                              locked : BOOLEAN, willUnlock : BOOLEAN]
           /\ OneModeInControl' /\ LockHasHolder'
           /\ NobodyWaitsForVacantRobot' /\ ClientsInformed'
<1> USE ModesAssumption
<1>1. /\ activeMode' = m /\ lastActiveMode' = NoMode
      /\ running' = {m} /\ started' = {m}
  BY DEF BecomeActive
<1>2. locked' = FALSE /\ willUnlock' = FALSE
  BY DEF BecomeActive, LockAfterRelease, WillUnlockAfterRelease,
         Inv, TypeOK, LockHasHolder
<1>3. broadcast' = Info(m, FALSE, FALSE)
  <2>1. LockAfterRelease = FALSE /\ WillUnlockAfterRelease = FALSE
    BY DEF LockAfterRelease, WillUnlockAfterRelease, Inv, TypeOK, LockHasHolder
  <2> QED BY <2>1 DEF BecomeActive
<1>4. isActive' = [n \in Modes |-> n = m \/ (n # activeMode /\ isActive[n])]
  BY DEF BecomeActive
<1>5. \A n \in Modes : isActive'[n] <=> n = m
  BY <1>4 DEF Inv, OneModeInControl
<1>6. isActive' \in [Modes -> BOOLEAN]
  BY <1>4 DEF Inv, TypeOK
<1>7. OneModeInControl'
  BY <1>1, <1>5 DEF OneModeInControl
<1>8. LockHasHolder' /\ NobodyWaitsForVacantRobot'
  BY <1>1, <1>2 DEF LockHasHolder, NobodyWaitsForVacantRobot
<1>9. ClientsInformed'
  BY <1>1, <1>2, <1>3 DEF ClientsInformed, Info
<1> QED BY <1>1, <1>2, <1>3, <1>6, <1>7, <1>8, <1>9 DEF Info

\* What a deactivation leaves in the list is still a list of waiting modes.
LEMMA AfterHandoverKeeps ==
    ASSUME Inv, NEW next \in Modes
    PROVE  /\ AfterHandover(next) \in Seq(Modes)
           /\ Distinct(AfterHandover(next))
           /\ Avoids(AfterHandover(next), {Idle, next})
<1>1. requested \in Seq(Modes) /\ Distinct(requested) /\ Avoids(requested, {Idle})
  BY QueueSoundMeans DEF Inv, TypeOK, Avoids
<1>2. CASE activeMode = NoMode
  <2>1. AfterHandover(next) = <<>>
    BY <1>2 DEF AfterHandover, Inv, NobodyWaitsForVacantRobot
  <2> QED BY <2>1 DEF Distinct, Avoids
<1>3. CASE activeMode # NoMode
  <2>1. AfterHandover(next) = Without(requested, next)
    BY <1>3 DEF AfterHandover
  <2>2. Avoids(Without(requested, next), {Idle})
        /\ Avoids(Without(requested, next), {next})
    BY <1>1, WithoutProperties
  <2>3. Avoids(Without(requested, next), {Idle, next})
    BY <2>2 DEF Avoids
  <2> QED BY <1>1, <2>1, <2>3, WithoutProperties
<1> QED BY <1>2, <1>3

----------------------------------------------------------------------------
(* Each way an activation or a deactivation can end keeps the invariant *)

\* An activation that returns at once, or is dropped for idle, keeps it.
LEMMA NothingHappensKeeps ==
    ASSUME Inv, NothingHappens, idlePending' \in BOOLEAN, UNCHANGED defaultMode
    PROVE  Inv'
BY DEF Inv, NothingHappens, arbiterVars, TypeOK, OneModeInControl, LockHasHolder,
       QueueSound, NobodyWaitsForVacantRobot, ClientsInformed

\* A mode refused because of the lock only joins the list.
LEMMA RefusedByLockKeeps ==
    ASSUME Inv, NEW m \in Modes \ {Idle}, RefusedByLock(m),
           idlePending' \in BOOLEAN, UNCHANGED defaultMode
    PROVE  Inv'
<1> USE ModesAssumption
<1>1. requested \in Seq(Modes) /\ Distinct(requested)
      /\ Avoids(requested, {Idle, activeMode})
  BY QueueSoundMeans DEF Inv, TypeOK
<1>2. activeMode # NoMode /\ m # activeMode
  BY DEF RefusedByLock, LockedOut
<1>3. requested' = Pushed(requested, m)
  BY DEF RefusedByLock
<1>4. requested' \in Seq(Modes) /\ Distinct(requested')
      /\ Avoids(requested', {Idle, activeMode})
  BY <1>1, <1>2, <1>3, PushedProperties
<1>5. QueueSound'
  BY <1>4, QueueSoundPrimeMeans DEF RefusedByLock
<1>6. TypeOK'
  BY <1>4 DEF RefusedByLock, Inv, TypeOK
<1> QED BY <1>2, <1>5, <1>6 DEF RefusedByLock, Inv, OneModeInControl,
           LockHasHolder, NobodyWaitsForVacantRobot, ClientsInformed

\* The idle mode takes the robot and the mode that was asked for waits.
LEMMA IdleTakesOverKeeps ==
    ASSUME Inv, NEW m \in Modes \ {Idle}, IdleTakesOver(m),
           idlePending' \in BOOLEAN, UNCHANGED defaultMode
    PROVE  Inv'
<1> USE ModesAssumption
<1>1. BecomeActive(Idle) /\ activeMode' = Idle
  BY DEF IdleTakesOver, BecomeActive
<1>2. requested' = Pushed(AfterHandover(Idle), m)
  BY DEF IdleTakesOver
<1>3. requested' \in Seq(Modes) /\ Distinct(requested')
      /\ Avoids(requested', {Idle, activeMode'})
  BY <1>1, <1>2, AfterHandoverKeeps, PushedProperties
<1>4. QueueSound'
  BY <1>3, QueueSoundPrimeMeans
<1>5. interrupted' \in Modes \cup {NoMode} /\ denied' \in SUBSET Modes
  BY DEF IdleTakesOver, Inv, TypeOK
<1> QED BY <1>1, <1>3, <1>4, <1>5, BecomeActiveKeeps DEF Inv, TypeOK

\* The mode that was asked for takes the robot.
LEMMA GrantedKeeps ==
    ASSUME Inv, NEW m \in Modes, Granted(m), idlePending' \in BOOLEAN, UNCHANGED defaultMode
    PROVE  Inv'
<1>1. BecomeActive(m) /\ activeMode' = m
  BY DEF Granted, BecomeActive
<1>2. requested' = AfterHandover(m)
  BY DEF Granted
<1>3. requested' \in Seq(Modes) /\ Distinct(requested')
      /\ Avoids(requested', {Idle, activeMode'})
  BY <1>1, <1>2, AfterHandoverKeeps
<1>4. QueueSound'
  BY <1>3, QueueSoundPrimeMeans
<1>5. interrupted' \in Modes \cup {NoMode} /\ denied' \in SUBSET Modes
  BY DEF Granted, Inv, TypeOK
<1> QED BY <1>1, <1>3, <1>4, <1>5, BecomeActiveKeeps DEF Inv, TypeOK

\* An activation that no lock stands against, however it ends.
LEMMA UnblockedKeeps ==
    ASSUME Inv, NEW m \in Modes \ {Idle}, Unblocked(m), idlePending' \in BOOLEAN, UNCHANGED defaultMode
    PROVE  Inv'
BY NothingHappensKeeps, IdleTakesOverKeeps, GrantedKeeps
   DEF Unblocked, DroppedByIdle

\* m.activate(), however it ends.
LEMMA ActivateKeeps ==
    ASSUME Inv, NEW m \in Modes \ {Idle}, Activate(m), idlePending' \in BOOLEAN, UNCHANGED defaultMode
    PROVE  Inv'
BY NothingHappensKeeps, RefusedByLockKeeps, UnblockedKeeps
   DEF Activate, AlreadyActive

\* Whichever mode follows the one that leaves, or none.
LEMMA LeaveKeeps ==
    ASSUME Inv, activeMode \in Modes, NEW pending \in BOOLEAN, Leave(pending),
           idlePending' \in BOOLEAN, UNCHANGED defaultMode
    PROVE  Inv'
<1> USE ModesAssumption
<1>1. requested \in Seq(Modes) /\ Distinct(requested) /\ Avoids(requested, {Idle})
  BY QueueSoundMeans DEF Inv, TypeOK, Avoids
<1>2. Candidate # NoMode => Candidate \in Modes \ {Idle}
  BY <1>1 DEF Candidate, Avoids, Inv, TypeOK
<1>3. CASE NobodyFollows
  <2>1. requested = <<>>
    <3>1. requested # <<>> => Head(requested) \in Modes
      BY <1>1
    <3> QED BY <1>3, <3>1 DEF NobodyFollows, Candidate
  <2>2. activeMode' = NoMode /\ requested' = <<>>
    BY <1>3, <2>1 DEF NobodyFollows
  <2>3. locked' = FALSE /\ willUnlock' = FALSE
    BY <1>3 DEF NobodyFollows, LockAfterRelease, WillUnlockAfterRelease,
                Inv, TypeOK, LockHasHolder
  <2>4. TypeOK'
    BY <1>3, <2>2, <2>3 DEF NobodyFollows, Inv, TypeOK, Info
  <2>5. OneModeInControl'
    BY <1>3, <2>2 DEF NobodyFollows, Inv, TypeOK, OneModeInControl
  <2>6. QueueSound'
    BY <2>2 DEF QueueSound
  <2> QED BY <2>2, <2>3, <2>4, <2>5, <2>6
          DEF Inv, LockHasHolder, NobodyWaitsForVacantRobot, ClientsInformed
<1>4. CASE IdleFollows
  <2>1. BecomeActive(Idle) /\ activeMode' = Idle
    BY <1>4 DEF IdleFollows, BecomeActive
  <2>2. requested' = Pushed(requested, Candidate) /\ Candidate \in Modes \ {Idle}
    BY <1>2, <1>4 DEF IdleFollows
  <2>3. requested' \in Seq(Modes) /\ Distinct(requested')
        /\ Avoids(requested', {Idle})
    BY <1>1, <2>2, PushedProperties
  <2>4. QueueSound'
    BY <2>1, <2>3, QueueSoundPrimeMeans DEF Avoids
  <2>5. interrupted' \in Modes \cup {NoMode} /\ denied' \in SUBSET Modes
    BY <1>4 DEF IdleFollows, Inv, TypeOK
  <2> QED BY <2>1, <2>3, <2>4, <2>5, BecomeActiveKeeps DEF Inv, TypeOK
<1>5. CASE CandidateFollows
  <2>1. BecomeActive(Candidate) /\ Candidate \in Modes /\ activeMode' = Candidate
    BY <1>2, <1>5 DEF CandidateFollows, BecomeActive
  <2>2. requested' = <<>> /\ requested' \in Seq(Modes) /\ QueueSound'
    BY <1>5 DEF CandidateFollows, QueueSound
  <2>3. interrupted' \in Modes \cup {NoMode}
    BY <1>5 DEF CandidateFollows, Inv, TypeOK
  <2>4. denied' \in SUBSET Modes
    <3>1. requested # <<>> => Tail(requested) \in Seq(Modes)
      BY <1>1
    <3>2. \A q \in Seq(Modes) : ToSet(q) \in SUBSET Modes
      BY DEF ToSet
    <3> QED BY <1>5, <3>1, <3>2 DEF CandidateFollows
  <2> QED BY <2>1, <2>2, <2>3, <2>4, BecomeActiveKeeps DEF Inv, TypeOK
<1> QED BY <1>3, <1>4, <1>5 DEF Leave

----------------------------------------------------------------------------
(* The invariant of the specification *)

\* Before the first operation no mode is active and none waits.
LEMMA InitEstablishes == Init => Inv
<1> SUFFICES ASSUME Init
             PROVE  Inv
  OBVIOUS
<1> USE ModesAssumption
<1>1. TypeOK
  <2>1. isActive \in [Modes -> BOOLEAN]
    BY DEF Init
  <2>2. requested \in Seq(Modes)
    BY DEF Init
  <2>3. broadcast \in [mode : Modes \cup {NoMode},
                       locked : BOOLEAN, willUnlock : BOOLEAN]
    BY DEF Init, Info
  <2> QED BY <2>1, <2>2, <2>3 DEF Init, TypeOK
<1>2. OneModeInControl
  BY DEF Init, OneModeInControl
<1>3. QueueSound /\ NobodyWaitsForVacantRobot /\ ClientsInformed
  BY DEF Init, QueueSound, NobodyWaitsForVacantRobot, ClientsInformed
<1>4. LockHasHolder
  BY DEF Init, LockHasHolder
<1> QED BY <1>1, <1>2, <1>3, <1>4 DEF Inv

\* lockMode and unlockMode of the mode in control.
LEMMA LockingKeeps ==
    ASSUME Inv, NEW m \in Modes \ {Idle},
           UnlockMode(m) \/ \E will \in BOOLEAN : LockMode(m, will)
    PROVE  Inv'
<1> USE ModesAssumption
<1>1. CASE UnlockMode(m)
  BY <1>1 DEF UnlockMode, Inv, TypeOK, OneModeInControl, LockHasHolder,
     QueueSound, NobodyWaitsForVacantRobot, ClientsInformed, Info
<1>2. ASSUME NEW will \in BOOLEAN, LockMode(m, will)
      PROVE  Inv'
  BY <1>2 DEF LockMode, Inv, TypeOK, OneModeInControl, LockHasHolder,
     QueueSound, NobodyWaitsForVacantRobot, ClientsInformed, Info
<1> QED BY <1>1, <1>2

\* Every operation keeps the invariant: one step of the proof for each.
LEMMA NextKeeps == Inv /\ [Next]_vars => Inv'
<1> SUFFICES ASSUME Inv, [Next]_vars
             PROVE  Inv'
  OBVIOUS
<1> USE ModesAssumption
<1>0. idlePending \in BOOLEAN
  BY DEF Inv, TypeOK
<1>1. ASSUME NEW m \in Modes \ {Idle}, Request(m)
      PROVE  Inv'
  BY <1>0, <1>1, ActivateKeeps DEF Request
<1>2. ASSUME NEW m \in Modes \ {Idle}, Finish(m)
      PROVE  Inv'
  BY <1>0, <1>2, LeaveKeeps DEF Finish
<1>3. ASSUME NEW m \in Modes \ {Idle},
             UnlockMode(m) \/ \E will \in BOOLEAN : LockMode(m, will)
      PROVE  Inv'
  BY <1>3, LockingKeeps
<1>4. ASSUME NEW m \in Joystick, JoystickOverride(m)
      PROVE  Inv'
  BY <1>0, <1>4, UnblockedKeeps DEF JoystickOverride
<1>5. CASE IdleUserTask
  <2>1. PICK pending \in BOOLEAN : /\ Leave(pending) /\ idlePending' = pending
                                  /\ UNCHANGED defaultMode
    BY <1>5 DEF IdleUserTask
  <2>2. activeMode \in Modes
    BY <1>5 DEF IdleUserTask
  <2> QED BY <2>1, <2>2, LeaveKeeps
<1>6. CASE DefaultUserTask
  <2>1. defaultMode \in Modes \ {Idle}
    BY <1>6 DEF DefaultUserTask, Inv, TypeOK
  <2> QED BY <1>0, <1>6, <2>1, ActivateKeeps DEF DefaultUserTask
<1>7. CASE IdleWorkChanges
  BY <1>0, <1>7 DEF IdleWorkChanges, arbiterVars, callbackVars, Inv, TypeOK,
     OneModeInControl, LockHasHolder, QueueSound, NobodyWaitsForVacantRobot,
     ClientsInformed
<1>8. ASSUME NEW m \in Defaults, AddAsDefaultMode(m)
      PROVE  Inv'
  BY <1>8 DEF AddAsDefaultMode, arbiterVars, callbackVars, Inv, TypeOK,
     OneModeInControl, LockHasHolder, QueueSound, NobodyWaitsForVacantRobot,
     ClientsInformed
<1>9. CASE UNCHANGED vars
  BY <1>9 DEF vars, arbiterVars, callbackVars, Inv, TypeOK, OneModeInControl,
     LockHasHolder, QueueSound, NobodyWaitsForVacantRobot, ClientsInformed
<1> QED BY <1>1, <1>2, <1>3, <1>4, <1>5, <1>6, <1>7, <1>8, <1>9 DEF Next, ModeUserTask

\* The inductive invariant holds in every reachable state.
THEOREM InvHolds == Spec => []Inv
<1> QED BY InitEstablishes, NextKeeps, PTL DEF Spec

\* Every variable of the arbitration keeps its type.
THEOREM TypeCorrect == Spec => []TypeOK
<1>1. Inv => TypeOK
  BY DEF Inv
<1> QED BY <1>1, InvHolds, PTL

\* At most one mode is active, it is the one the mode pointer names, and only
\* its actions run on the robot.
THEOREM ModeExclusion == Spec => []OneModeInControl
<1>1. Inv => OneModeInControl
  BY DEF Inv
<1> QED BY <1>1, InvHolds, PTL

\* A lock is always held by a mode in control that is not the idle mode.
THEOREM LockOwnership == Spec => []LockHasHolder
<1>1. Inv => LockHasHolder
  BY DEF Inv
<1> QED BY <1>1, InvHolds, PTL

\* The list of requested modes never holds a mode twice, nor idle, nor the
\* mode in control.
THEOREM QueueWellFormed == Spec => []QueueSound
<1>1. Inv => QueueSound
  BY DEF Inv
<1> QED BY <1>1, InvHolds, PTL

\* No mode waits for a robot that nobody holds.
THEOREM VacantRobotHasNoQueue == Spec => []NobodyWaitsForVacantRobot
<1>1. Inv => NobodyWaitsForVacantRobot
  BY DEF Inv
<1> QED BY <1>1, InvHolds, PTL

\* What clients were told last about the mode and its lock is what holds.
THEOREM ClientsKnowTheMode == Spec => []ClientsInformed
<1>1. Inv => ClientsInformed
  BY DEF Inv
<1> QED BY <1>1, InvHolds, PTL

----------------------------------------------------------------------------
(* Action properties *)

\* A mode locked in loses the robot or its lock only by what it does or is asked to do
\* itself, or to the joystick: never to another mode's request, to idle processing or
\* to the default mode.
THEOREM LocksHold == Spec => LockedInUntilItEnds
<1> DEFINE Lost == activeMode' # activeMode \/ ~locked'
           Own == \/ Finish(activeMode) \/ UnlockMode(activeMode) \/ Request(activeMode)
                  \/ \E m \in Joystick : JoystickOverride(m)
<1>1. ASSUME Inv, Next, locked, Lost
      PROVE  Own
  <2> USE <1>1
  <2>1. activeMode \in Modes \ {Idle, NoMode}
    BY DEF Inv, TypeOK, LockHasHolder
  <2>2. ASSUME NEW m \in Modes \ {Idle}, Request(m), m # activeMode
        PROVE  FALSE
    <3>1. LockedOut(m)
      BY <2>1, <2>2 DEF LockedOut
    <3>2. AlreadyActive(m) \/ RefusedByLock(m)
      BY <2>2, <3>1 DEF Request, Activate
    <3> QED BY <3>2 DEF AlreadyActive, NothingHappens, arbiterVars, RefusedByLock
  <2>3. ASSUME NEW m \in Modes \ {Idle}, Request(m) \/ Finish(m) \/ UnlockMode(m)
        PROVE  Own
    BY <2>2, <2>3 DEF Finish, UnlockMode
  <2>4. ASSUME NEW m, NEW will, LockMode(m, will) \/ AddAsDefaultMode(m) \/ IdleWorkChanges
        PROVE  FALSE
    BY <2>4 DEF LockMode, AddAsDefaultMode, IdleWorkChanges, arbiterVars
  <2>5. ~ModeUserTask
    BY <2>1 DEF ModeUserTask, IdleUserTask, DefaultUserTask
  <2> HIDE DEF Lost
  <2> QED BY <2>3, <2>4, <2>5 DEF Next
<1>2. Inv /\ [Next]_vars => [locked /\ Lost => Own]_vars
  BY <1>1
<1> QED BY <1>2, InvHolds, PTL DEF Spec, LockedInUntilItEnds

\* Whoever gains the robot is the idle mode exactly when idle processing is
\* pending at that moment.
THEOREM IdleGateHolds == Spec => IdleGate
<1> DEFINE Gate == activeMode' \notin {activeMode, NoMode}
                     => (activeMode' = Idle <=> idlePending')
<1>1. ASSUME Inv, Next
      PROVE  Gate
  <2> USE <1>1, ModesAssumption
  <2>1. \A m \in Modes : Granted(m) => activeMode' = m
    BY DEF Granted, BecomeActive
  <2>2. ASSUME NEW m \in Modes \ {Idle}, Unblocked(m), UNCHANGED idlePending
        PROVE  Gate
    <3>1. CASE DroppedByIdle(m)
      BY <3>1 DEF DroppedByIdle, NothingHappens, arbiterVars
    <3>2. CASE IdleTakesOver(m)
      BY <2>2, <3>2 DEF IdleTakesOver, BecomeActive, Inv, TypeOK
    <3>3. CASE Granted(m)
      BY <2>1, <2>2, <3>3 DEF Granted, Inv, TypeOK
    <3> QED BY <2>2, <3>1, <3>2, <3>3 DEF Unblocked
  <2>3. ASSUME NEW m \in Modes \ {Idle}, Activate(m), UNCHANGED idlePending
        PROVE  Gate
    BY <2>2, <2>3 DEF Activate, AlreadyActive, NothingHappens, arbiterVars,
       RefusedByLock
  <2>4. ASSUME NEW pending \in BOOLEAN, Leave(pending), idlePending' = pending
        PROVE  Gate
    <3>1. requested # <<>> => Head(requested) # Idle
      BY DEF Inv, TypeOK, QueueSound
    <3>2. Candidate # Idle
      BY <3>1 DEF Candidate, Inv, TypeOK
    <3>3. CASE NobodyFollows
      BY <3>3 DEF NobodyFollows
    <3>4. CASE pending /\ IdleFollows
      BY <2>4, <3>4 DEF IdleFollows, BecomeActive
    <3>5. CASE ~pending /\ CandidateFollows
      BY <2>4, <3>2, <3>5 DEF CandidateFollows, BecomeActive
    <3> QED BY <2>4, <3>3, <3>4, <3>5 DEF Leave
  <2>5. ASSUME NEW m \in Modes \ {Idle}, Request(m)
        PROVE  Gate
    BY <2>3, <2>5 DEF Request
  <2>6. ASSUME NEW m \in Modes \ {Idle}, Finish(m)
        PROVE  Gate
    BY <2>4, <2>6 DEF Finish, Inv, TypeOK
  <2>7. ASSUME NEW m \in Joystick, JoystickOverride(m)
        PROVE  Gate
    BY <2>2, <2>7 DEF JoystickOverride
  <2>8. CASE IdleUserTask
    BY <2>4, <2>8 DEF IdleUserTask
  <2>9. CASE DefaultUserTask
    BY <2>3, <2>9 DEF DefaultUserTask, Inv, TypeOK
  <2>10. ASSUME NEW m \in Modes \ {Idle},
                UnlockMode(m) \/ \E will \in BOOLEAN : LockMode(m, will)
         PROVE  Gate
    BY <2>10 DEF UnlockMode, LockMode
  <2>11. CASE IdleWorkChanges
    BY <2>11 DEF IdleWorkChanges, arbiterVars
  <2>12. ASSUME NEW m \in Defaults, AddAsDefaultMode(m)
         PROVE  Gate
    BY <2>12 DEF AddAsDefaultMode, arbiterVars
  <2> HIDE DEF Gate
  <2> QED BY <2>5, <2>6, <2>7, <2>8, <2>9, <2>10, <2>11, <2>12 DEF Next, ModeUserTask
<1>2. Inv /\ [Next]_vars => [Gate]_vars
  BY <1>1
<1> QED BY <1>2, InvHolds, PTL DEF Spec, IdleGate

\* A mode that waits leaves the list only by being activated or by being told that it
\* was denied, whatever operation takes the robot or gives it up.
THEOREM WaitersGetAnAnswer == Spec => WaitersAnswered
<1> DEFINE Kept == ToSet(requested) \subseteq ToSet(requested') \cup started' \cup denied'
<1>1. ASSUME Inv, Next
      PROVE  Kept
  <2> USE <1>1, ModesAssumption
  <2>0. requested \in Seq(Modes)
    BY DEF Inv, TypeOK
  <2>1. requested' = requested => Kept
    OBVIOUS
  <2>2. ASSUME NEW m \in Modes, requested' = Pushed(requested, m)
        PROVE  Kept
    BY <2>0, <2>2, NobodyElseLost
  <2>3. Idle \notin ToSet(requested)
    BY <2>0, InToSet DEF Inv, QueueSound
  <2>4. ToSet(AfterHandover(Idle)) = ToSet(requested) /\ AfterHandover(Idle) \in Seq(Modes)
    <3>1. CASE activeMode = NoMode
      BY <2>0, <3>1 DEF AfterHandover
    <3>2. CASE activeMode # NoMode
      <4>1. AfterHandover(Idle) = requested
        BY <2>0, <2>3, <3>2, InToSet DEF AfterHandover, Without
      <4> QED BY <2>0, <4>1
    <3> QED BY <3>1, <3>2
  <2>5. ASSUME NEW m \in Modes, Unblocked(m)
        PROVE  Kept
    <3>1. CASE DroppedByIdle(m)
      BY <2>1, <3>1 DEF DroppedByIdle, NothingHappens, arbiterVars
    <3>2. CASE IdleTakesOver(m)
      BY <2>4, <3>2, NobodyElseLost DEF IdleTakesOver
    <3>3. CASE Granted(m)
      <4>1. started' = {m} /\ requested' = AfterHandover(m)
        BY <3>3 DEF Granted, BecomeActive
      <4>2. ToSet(requested) \ {m} \subseteq ToSet(AfterHandover(m))
        BY <2>0, NobodyElseLost DEF AfterHandover
      <4> QED BY <4>1, <4>2
    <3> QED BY <2>5, <3>1, <3>2, <3>3 DEF Unblocked
  <2>6. ASSUME NEW m \in Modes, Activate(m)
        PROVE  Kept
    <3>1. CASE AlreadyActive(m)
      BY <2>1, <3>1 DEF AlreadyActive, NothingHappens, arbiterVars
    <3>2. CASE RefusedByLock(m)
      BY <2>2, <3>2 DEF RefusedByLock
    <3> QED BY <2>5, <2>6, <3>1, <3>2 DEF Activate
  <2>7. ASSUME NEW pending, Leave(pending)
        PROVE  Kept
    <3>1. CASE NobodyFollows
      BY <2>1, <3>1 DEF NobodyFollows
    <3>2. requested # <<>> => Candidate \in Modes
      BY <2>0 DEF Candidate
    <3>3. CASE IdleFollows
      <4>1. Candidate \in Modes
        BY <3>3 DEF IdleFollows, Candidate, Inv, TypeOK
      <4> QED BY <2>2, <3>3, <4>1 DEF IdleFollows
    <3>4. CASE CandidateFollows
      <4>1. CASE requested = <<>>
        <5>1. 1 .. Len(requested) = {}
          BY <4>1
        <5> QED BY <2>0, <5>1, InToSet
      <4>2. CASE requested # <<>>
        <5>1. started' = {Head(requested)} /\ denied' = ToSet(Tail(requested))
          BY <3>4, <4>2 DEF CandidateFollows, Candidate, BecomeActive
        <5>2. \A i \in 1 .. Len(requested) :
                \/ requested[i] = Head(requested)
                \/ i - 1 \in 1 .. Len(Tail(requested)) /\ Tail(requested)[i - 1] = requested[i]
          BY <2>0, <4>2
        <5>3. Tail(requested) \in Seq(Modes)
          BY <2>0, <4>2
        <5>4. ASSUME NEW x \in ToSet(requested), x # Head(requested)
              PROVE  x \in ToSet(Tail(requested))
          <6>1. PICK i \in 1 .. Len(requested) : requested[i] = x
            BY <2>0, InToSet
          <6> QED BY <5>2, <5>3, <5>4, <6>1, InToSet
        <5> QED BY <5>1, <5>4
      <4> QED BY <4>1, <4>2
    <3> QED BY <2>7, <3>1, <3>3, <3>4 DEF Leave
  <2>8. ASSUME NEW m \in Modes \ {Idle}, Request(m) \/ Finish(m) \/ UnlockMode(m)
        PROVE  Kept
    BY <2>1, <2>6, <2>7, <2>8 DEF Request, Finish, UnlockMode
  <2>9. ASSUME NEW m \in Joystick, JoystickOverride(m)
        PROVE  Kept
    BY <2>5, <2>9 DEF JoystickOverride
  <2>10. CASE IdleUserTask
    BY <2>7, <2>10 DEF IdleUserTask
  <2>11. CASE DefaultUserTask
    BY <2>6, <2>11 DEF DefaultUserTask, Inv, TypeOK
  <2>12. ASSUME NEW m, NEW will, LockMode(m, will) \/ AddAsDefaultMode(m) \/ IdleWorkChanges
         PROVE  Kept
    BY <2>1, <2>12 DEF LockMode, AddAsDefaultMode, IdleWorkChanges, arbiterVars
  <2> HIDE DEF Kept
  <2> QED BY <2>8, <2>9, <2>10, <2>11, <2>12 DEF Next, ModeUserTask
<1>2. Inv /\ [Next]_vars =>
        [\A m \in ToSet(requested) : m \in ToSet(requested') \cup started' \cup denied']_vars
  BY <1>1
<1> QED BY <1>2, InvHolds, PTL DEF Spec, WaitersAnswered

\* When the idle mode gives the robot back, the latest request it held back gets it, and
\* no older one stays behind to surface later.
THEOREM LatestRequestWins == Spec => LatestRequestFollowsIdle
<1>1. ASSUME Inv, IdleUserTask, activeMode' # Idle, requested # <<>>
      PROVE  activeMode' = Head(requested) /\ requested' = <<>>
  <2>1. PICK pending \in BOOLEAN : Leave(pending)
    BY <1>1 DEF IdleUserTask
  <2>2. Candidate = Head(requested) /\ Head(requested) \in Modes
    BY <1>1 DEF Candidate, Inv, TypeOK
  <2>3. CASE NobodyFollows
    BY <2>2, <2>3, ModesAssumption DEF NobodyFollows
  <2>4. CASE IdleFollows
    BY <1>1, <2>4 DEF IdleFollows, BecomeActive
  <2>5. CASE CandidateFollows
    BY <2>2, <2>5 DEF CandidateFollows, BecomeActive
  <2> QED BY <2>1, <2>3, <2>4, <2>5 DEF Leave
<1>2. Inv /\ [Next]_vars =>
        [IdleUserTask /\ activeMode' # Idle /\ requested # <<>>
           => activeMode' = Head(requested) /\ requested' = <<>>]_vars
  BY <1>1
<1> QED BY <1>2, InvHolds, PTL DEF Spec, LatestRequestFollowsIdle
=============================================================================
