--------------------------- MODULE ServerLocks_proofs ---------------------------
(***************************************************************************)
(* Machine-checked proofs about ServerLocks, for any number of further       *)
(* threads.                                                                *)
(*                                                                         *)
(* The mutexes have ranks, and a thread that waits for a mutex holds only     *)
(* ones of a lower rank, but for the network thread that serves UDP.  The     *)
(* plans are followed from any point on by what the thread would hold before  *)
(* each of their steps (Fits), so that the inductive invariant needs to say   *)
(* only that what each thread holds fits the rest of its plan.               *)
(***************************************************************************)
EXTENDS ServerLocks, SequenceTheorems, TLAPS

Kinds == {"lock", "unlock", "try", "work", "exit", "close", "die"}
Steps == [do : Kinds, mutex : Mutexes, skip : Nat]

\* How often a thread holds each mutex.
Holding == [Mutexes -> Nat]
Zero == [m \in Mutexes |-> 0]
More(x, m) == [x EXCEPT ![m] = @ + 1]
Less(x, m) == [x EXCEPT ![m] = @ - 1]

Rank(m) ==
    CASE m = "processing" -> 1
      [] m = "robot" -> 2
      [] m = "exitCallbacks" -> 3
      [] m = "clients" -> 4
      [] m \in {"data", "addList", "removeSet"} -> 5

\* Whoever holds x holds nothing of m's rank or above.
Below(x, m) == \A k \in Mutexes : x[k] > 0 => Rank(k) < Rank(m)

\* None of the mutexes of the last rank.
Open(x) == x["data"] = 0 /\ x["addList"] = 0 /\ x["removeSet"] = 0

\* A thread t that holds x may wait for m, where e is the thread that exits.
Allowed(t, e, x, m) ==
    /\ m = "processing" => t = "slow"
    /\ m = "exitCallbacks" => t = e
    /\ \/ m = "exitCallbacks"
       \/ x[m] > 0
       \/ Below(x, m)
       \/ t = "net" /\ m = "robot" /\ x["clients"] > 0

\* A step of t takes what it holds from x to y.
StepFits(t, e, a, x, y) ==
    \/ a.do = "lock" /\ Allowed(t, e, x, a.mutex) /\ y = More(x, a.mutex)
    \/ a.do = "unlock" /\ x[a.mutex] > 0 /\ y = Less(x, a.mutex)
    \/ a.do = "try" /\ a.mutex # "exitCallbacks" /\ y = More(x, a.mutex)
    \/ a.do = "work" /\ y = x /\ \A k \in Mutexes \ {"processing"} : x[k] = 0
    \/ a.do = "exit" /\ y = x /\ Open(x)
    \/ a.do = "close" /\ y = x
    \/ a.do = "die"

\* h is what t holds before each step of s, and after the last.
Trail(t, e, s, h) ==
    \A i \in 1 .. Len(s) :
        /\ StepFits(t, e, s[i], h[i], h[i + 1])
        /\ s[i].do = "try" => i + s[i].skip + 1 <= Len(s) + 1 /\ h[i + s[i].skip + 1] = h[i]

\* The steps s may be taken by t when it holds x, and leave it with y.
Fits(t, e, s, x, y) ==
    \E h \in [1 .. Len(s) + 1 -> Holding] :
        h[1] = x /\ h[Len(s) + 1] = y /\ Trail(t, e, s, h)

----------------------------------------------------------------------------
(* Plans and their pieces *)

LEMMA Ranks ==
    /\ \A m \in Mutexes : Rank(m) \in 1 .. 5
    /\ Rank("processing") = 1 /\ Rank("robot") = 2 /\ Rank("exitCallbacks") = 3
    /\ Rank("clients") = 4 /\ Rank("data") = 5 /\ Rank("addList") = 5
    /\ Rank("removeSet") = 5
BY DEF Rank, Mutexes

LEMMA HoldingMoves ==
    ASSUME NEW x \in Holding, NEW m \in Mutexes
    PROVE  /\ More(x, m) \in Holding
           /\ More(x, m)[m] > 0
           /\ Less(More(x, m), m) = x
<1>1. More(x, m) \in Holding /\ More(x, m)[m] = x[m] + 1 /\ x[m] \in Nat
  BY DEF Holding, More
<1>2. Less(More(x, m), m) = x
  <2>1. Less(More(x, m), m) \in [Mutexes -> Int]
    BY <1>1 DEF Holding, Less
  <2>2. ASSUME NEW k \in Mutexes
        PROVE  Less(More(x, m), m)[k] = x[k]
    <3>1. CASE k = m
      BY <1>1, <3>1 DEF Holding, Less
    <3>2. CASE k # m
      BY <1>1, <3>2 DEF Holding, Less, More
    <3> QED
      BY <3>1, <3>2
  <2>3. x \in [Mutexes -> Int]
    BY DEF Holding
  <2> QED
    BY <2>1, <2>2, <2>3
<1> QED
  BY <1>1, <1>2

LEMMA FitsNothing ==
    ASSUME NEW t, NEW e, NEW x \in Holding
    PROVE  Fits(t, e, <<>>, x, x)
<1> DEFINE h == [i \in 1 .. 1 |-> x]
<1>1. Len(<<>>) = 0
  OBVIOUS
<1>2. h \in [1 .. 1 -> Holding] /\ h[1] = x
  OBVIOUS
<1>3. Trail(t, e, <<>>, h)
  BY <1>1 DEF Trail
<1> HIDE DEF h
<1> QED
  BY <1>1, <1>2, <1>3 DEF Fits

\* Nothing is left to do only for who holds what it is to end with.
LEMMA FitsEnd ==
    ASSUME NEW t, NEW e, NEW x, NEW y, Fits(t, e, <<>>, x, y)
    PROVE  x = y
BY DEF Fits

LEMMA FitsOne ==
    ASSUME NEW t, NEW e, NEW a \in Steps, NEW x \in Holding, NEW y \in Holding,
           StepFits(t, e, a, x, y), a.do # "try"
    PROVE  Fits(t, e, <<a>>, x, y)
<1> DEFINE h == [i \in 1 .. 2 |-> IF i = 1 THEN x ELSE y]
<1>1. Len(<<a>>) = 1 /\ <<a>>[1] = a
  OBVIOUS
<1>2. h \in [1 .. 2 -> Holding] /\ h[1] = x /\ h[2] = y
  OBVIOUS
<1> HIDE DEF h
<1>3. ASSUME NEW i \in 1 .. Len(<<a>>)
      PROVE  /\ StepFits(t, e, <<a>>[i], h[i], h[i + 1])
             /\ <<a>>[i].do # "try"
  <2>1. i = 1
    BY <1>1
  <2>2. i + 1 = 2
    BY <2>1
  <2> QED
    BY <1>1, <1>2, <2>1, <2>2
<1>4. Trail(t, e, <<a>>, h)
  BY <1>3 DEF Trail
<1> QED
  BY <1>1, <1>2, <1>4 DEF Fits

LEMMA FitsConcat ==
    ASSUME NEW t, NEW e, NEW r \in Seq(Steps), NEW s \in Seq(Steps),
           NEW x, NEW y, NEW z, Fits(t, e, r, x, y), Fits(t, e, s, y, z)
    PROVE  Fits(t, e, r \o s, x, z)
<1>1. PICK f \in [1 .. Len(r) + 1 -> Holding] :
        f[1] = x /\ f[Len(r) + 1] = y /\ Trail(t, e, r, f)
  BY DEF Fits
<1>2. PICK g \in [1 .. Len(s) + 1 -> Holding] :
        g[1] = y /\ g[Len(s) + 1] = z /\ Trail(t, e, s, g)
  BY DEF Fits
<1> DEFINE n == Len(r)
           k == Len(s)
           h == [i \in 1 .. n + k + 1 |-> IF i <= n THEN f[i] ELSE g[i - n]]
<1>3. n \in Nat /\ k \in Nat
  OBVIOUS
<1>4. /\ Len(r \o s) = n + k
      /\ \A i \in 1 .. n + k : (r \o s)[i] = IF i <= n THEN r[i] ELSE s[i - n]
  BY ConcatProperties
<1> HIDE DEF n, k
<1>5. h \in [1 .. n + k + 1 -> Holding]
  BY <1>3 DEF n, k
<1>6. \A i \in 1 .. n + 1 : h[i] = f[i]
  BY <1>1, <1>2, <1>3 DEF n, k
<1>7. \A i \in 1 .. k + 1 : h[n + i] = g[i]
  BY <1>3
<1> HIDE DEF h
<1>8. ASSUME NEW i \in 1 .. n + k
      PROVE  /\ StepFits(t, e, (r \o s)[i], h[i], h[i + 1])
             /\ (r \o s)[i].do = "try" =>
                  /\ i + (r \o s)[i].skip + 1 <= n + k + 1
                  /\ h[i + (r \o s)[i].skip + 1] = h[i]
  <2>1. i \in Nat /\ i >= 1 /\ i <= n + k
    BY <1>3
  <2>2. CASE i <= n
    <3>1. i \in 1 .. n /\ i \in 1 .. n + 1 /\ i + 1 \in 1 .. n + 1 /\ (r \o s)[i] = r[i]
      BY <1>3, <1>4, <2>1, <2>2, SMTT(30)
    <3>2. r[i].skip \in Nat
      <4>1. r[i] \in Steps
        BY <3>1, ElementOfSeq DEF n
      <4> QED
        BY <4>1 DEF Steps
    <3>3. StepFits(t, e, r[i], f[i], f[i + 1])
      BY <1>1, <3>1 DEF Trail, n
    <3>4. r[i].do = "try" => i + r[i].skip + 1 <= n + 1 /\ f[i + r[i].skip + 1] = f[i]
      BY <1>1, <3>1 DEF Trail, n
    <3> DEFINE q == r[i].skip
    <3>5. q \in Nat /\ (r[i].do = "try" => i + q + 1 <= n + 1)
      BY <3>2, <3>4
    <3> HIDE DEF q
    <3>6. i + q + 1 <= n + 1 => i + q + 1 \in 1 .. n + 1 /\ i + q + 1 <= n + k + 1
      BY <2>1, <3>5, <1>3
    <3> QED
      BY <1>6, <3>1, <3>3, <3>4, <3>5, <3>6 DEF q
  <2>3. CASE i > n
    <3> DEFINE j == i - n
    <3>10. j \in 1 .. k /\ j \in 1 .. k + 1 /\ j + 1 \in 1 .. k + 1
      BY <1>3, <2>1, <2>3
    <3>11. (r \o s)[i] = s[j]
      BY <1>3, <1>4, <2>1, <2>3
    <3>1. j \in 1 .. k /\ j \in 1 .. k + 1 /\ j + 1 \in 1 .. k + 1 /\ (r \o s)[i] = s[j]
      BY <3>10, <3>11
    <3>2. i = n + j /\ i + 1 = n + (j + 1)
      BY <1>3, <2>1
    <3> HIDE DEF j
    <3>3. s[j].skip \in Nat
      <4>1. s[j] \in Steps
        BY <3>1, ElementOfSeq DEF k
      <4> QED
        BY <4>1 DEF Steps
    <3>4. StepFits(t, e, s[j], g[j], g[j + 1])
      BY <1>2, <3>1 DEF Trail, k
    <3>5. s[j].do = "try" => j + s[j].skip + 1 <= k + 1 /\ g[j + s[j].skip + 1] = g[j]
      BY <1>2, <3>1 DEF Trail, k
    <3>6. s[j].do = "try" =>
            /\ j + s[j].skip + 1 \in 1 .. k + 1
            /\ i + s[j].skip + 1 = n + (j + s[j].skip + 1)
            /\ i + s[j].skip + 1 <= n + k + 1
      <4>1. j \in Nat /\ j >= 1
        BY <3>1, <1>3
      <4> DEFINE q == s[j].skip
      <4>2. q \in Nat /\ (s[j].do = "try" => j + q + 1 <= k + 1)
        BY <3>3, <3>5
      <4> HIDE DEF q
      <4>3. i + q + 1 = n + (j + q + 1)
        BY <3>2, <4>1, <4>2, <1>3
      <4>4. j + q + 1 <= k + 1 => j + q + 1 \in 1 .. k + 1 /\ n + (j + q + 1) <= n + k + 1
        BY <4>1, <4>2, <1>3
      <4> QED
        BY <4>2, <4>3, <4>4 DEF q
    <3>7. h[i] = g[j] /\ h[i + 1] = g[j + 1]
      BY <1>7, <3>1, <3>2
    <3>8. s[j].do = "try" => h[i + s[j].skip + 1] = g[j + s[j].skip + 1]
      BY <1>7, <3>6
    <3>9. StepFits(t, e, (r \o s)[i], h[i], h[i + 1])
      BY <3>1, <3>4, <3>7, Zenon
    <3>12. ASSUME s[j].do = "try"
           PROVE  i + s[j].skip + 1 <= n + k + 1 /\ h[i + s[j].skip + 1] = h[i]
      BY <3>5, <3>6, <3>7, <3>8, <3>12, Zenon
    <3>13. (r \o s)[i].do = "try" =>
             /\ i + (r \o s)[i].skip + 1 <= n + k + 1
             /\ h[i + (r \o s)[i].skip + 1] = h[i]
      BY <3>1, <3>12
    <3> QED
      BY <3>9, <3>13
  <2> QED
    <3>1. i <= n \/ i > n
      BY <1>3, <2>1
    <3> QED
      BY <2>2, <2>3, <3>1, Zenon
<1>9. Trail(t, e, r \o s, h)
  BY <1>4, <1>8 DEF Trail
<1>10. h[1] = x /\ h[n + k + 1] = z
  <2>1. 1 \in 1 .. n + 1 /\ k + 1 \in 1 .. k + 1 /\ n + k + 1 = n + (k + 1)
    BY <1>3
  <2> QED
    BY <1>1, <1>2, <1>6, <1>7, <2>1 DEF k
<1> QED
  BY <1>4, <1>5, <1>9, <1>10 DEF Fits

\* What is left of a plan fits, wherever it is taken up.
LEMMA FitsRest ==
    ASSUME NEW t, NEW e, NEW s \in Seq(Steps), NEW y,
           NEW h \in [1 .. Len(s) + 1 -> Holding], h[Len(s) + 1] = y,
           Trail(t, e, s, h), NEW k \in Nat, k >= 1, k <= Len(s) + 1
    PROVE  /\ SubSeq(s, k, Len(s)) \in Seq(Steps)
           /\ Fits(t, e, SubSeq(s, k, Len(s)), h[k], y)
<1> DEFINE n == Len(s)
           m == n - k + 1
           r == SubSeq(s, k, n)
           g == [i \in 1 .. m + 1 |-> h[k + i - 1]]
<1>1. n \in Nat /\ m \in Nat
  BY DEF n
<1>2. \A i \in k .. n : s[i] \in Steps
  BY ElementOfSeq DEF n
<1>3. r \in Seq(Steps) /\ Len(r) = m /\ \A i \in 1 .. m : r[i] = s[k + i - 1]
  <2>1. /\ r \in Seq(Steps)
        /\ Len(r) = IF k <= n THEN n - k + 1 ELSE 0
        /\ \A i \in 1 .. n - k + 1 : r[i] = s[k + i - 1]
    BY <1>1, <1>2, SubSeqProperties DEF n
  <2> QED
    BY <1>1, <2>1 DEF n
<1> HIDE DEF n, r
<1>4. g \in [1 .. m + 1 -> Holding]
  BY <1>1 DEF n
<1>5. \A i \in 1 .. m + 1 : g[i] = h[k + i - 1]
  OBVIOUS
<1>6. n = k + m - 1
  BY <1>1
<1> HIDE DEF m, g
<1>7. ASSUME NEW i \in 1 .. m
      PROVE  /\ StepFits(t, e, r[i], g[i], g[i + 1])
             /\ r[i].do = "try" => i + r[i].skip + 1 <= m + 1 /\ g[i + r[i].skip + 1] = g[i]
  <2> DEFINE j == k + i - 1
             q == s[j].skip
  <2>1. i \in Nat /\ i >= 1 /\ i <= m
    BY <1>1
  <2>2. j \in 1 .. n /\ j + 1 = k + (i + 1) - 1 /\ i \in 1 .. m + 1 /\ i + 1 \in 1 .. m + 1
    BY <1>1, <1>6, <2>1
  <2>3. r[i] = s[j] /\ g[i] = h[j] /\ g[i + 1] = h[j + 1]
    <3>1. r[i] = s[j]
      BY <1>3
    <3>2. g[i] = h[j]
      BY <1>5, <2>2
    <3>3. g[i + 1] = h[k + (i + 1) - 1]
      BY <1>5, <2>2
    <3>4. g[i + 1] = h[j + 1]
      BY <2>2, <3>3
    <3> QED
      BY <3>1, <3>2, <3>4
  <2>4. /\ StepFits(t, e, s[j], h[j], h[j + 1])
        /\ s[j].do = "try" => j + q + 1 <= n + 1 /\ h[j + q + 1] = h[j]
    BY <2>2 DEF Trail, n
  <2>5. q \in Nat
    <3>1. s[j] \in Steps
      BY <2>2, ElementOfSeq DEF n
    <3> QED
      BY <3>1 DEF Steps
  <2> HIDE DEF q
  <2>6. j + q + 1 = k + (i + q + 1) - 1
    BY <1>1, <2>1, <2>5
  <2>7. j + q + 1 <= n + 1 => i + q + 1 \in 1 .. m + 1 /\ i + q + 1 <= m + 1
    BY <1>1, <1>6, <2>1, <2>5
  <2> HIDE DEF j
  <2>8. s[j].do = "try" => i + q + 1 <= m + 1 /\ g[i + q + 1] = g[i]
    <3>1. s[j].do = "try" => g[i + q + 1] = h[j + q + 1]
      BY <1>5, <2>4, <2>6, <2>7
    <3> QED
      BY <2>3, <2>4, <2>7, <3>1
  <2> QED
    BY <2>3, <2>4, <2>8 DEF q
<1>8. Trail(t, e, r, g)
  BY <1>3, <1>7 DEF Trail
<1>9. g[1] = h[k] /\ g[m + 1] = y
  <2>1. 1 \in 1 .. m + 1 /\ m + 1 \in 1 .. m + 1 /\ k + 1 - 1 = k /\ k + (m + 1) - 1 = n + 1
    BY <1>1, <1>6
  <2> QED
    BY <1>5, <2>1 DEF n
<1> QED
  BY <1>3, <1>4, <1>8, <1>9 DEF Fits, r, n

\* The first step fits, and after it the rest, or what a failed try jumps to.
LEMMA FitsStep ==
    ASSUME NEW t, NEW e, NEW s \in Seq(Steps), NEW x, NEW z, s # <<>>, Fits(t, e, s, x, z)
    PROVE  /\ Head(s) \in Steps /\ x \in Holding
           /\ Tail(s) \in Seq(Steps)
           /\ \E y \in Holding : StepFits(t, e, Head(s), x, y) /\ Fits(t, e, Tail(s), y, z)
           /\ Head(s).do = "try" =>
                /\ SubSeq(s, Head(s).skip + 2, Len(s)) \in Seq(Steps)
                /\ Fits(t, e, SubSeq(s, Head(s).skip + 2, Len(s)), x, z)
<1>1. PICK h \in [1 .. Len(s) + 1 -> Holding] :
        h[1] = x /\ h[Len(s) + 1] = z /\ Trail(t, e, s, h)
  BY DEF Fits
<1>2. Len(s) \in Nat /\ Len(s) >= 1 /\ Head(s) = s[1] /\ s[1] \in Steps
  <2>1. Len(s) # 0
    BY EmptySeq
  <2>2. Len(s) \in Nat
    OBVIOUS
  <2>3. s[1] \in Steps
    BY <2>1, <2>2, ElementOfSeq
  <2> QED
    BY <2>1, <2>2, <2>3
<1>3. s[1].skip \in Nat
  BY <1>2 DEF Steps
<1>4. h[1] \in Holding /\ h[2] \in Holding
  BY <1>1, <1>2
<1>5. /\ StepFits(t, e, s[1], h[1], h[2])
      /\ s[1].do = "try" => 1 + s[1].skip + 1 <= Len(s) + 1 /\ h[1 + s[1].skip + 1] = h[1]
  <2>1. 1 \in 1 .. Len(s) /\ 1 + 1 = 2
    BY <1>2
  <2> QED
    BY <1>1, <2>1 DEF Trail
<1>6. Tail(s) \in Seq(Steps) /\ Fits(t, e, Tail(s), h[2], z)
  <2>1. Tail(s) = SubSeq(s, 2, Len(s))
    BY TailIsSubSeq
  <2>2. 2 \in Nat /\ 2 >= 1 /\ 2 <= Len(s) + 1
    BY <1>2
  <2> QED
    BY <1>1, <2>1, <2>2, FitsRest
<1>7. ASSUME s[1].do = "try"
      PROVE  /\ SubSeq(s, s[1].skip + 2, Len(s)) \in Seq(Steps)
             /\ Fits(t, e, SubSeq(s, s[1].skip + 2, Len(s)), x, z)
  <2> DEFINE k == s[1].skip + 2
  <2>1. k \in Nat /\ k >= 1 /\ k = 1 + s[1].skip + 1
    BY <1>3
  <2>2. k <= Len(s) + 1 /\ h[k] = x
    BY <1>1, <1>5, <1>7, <2>1
  <2> HIDE DEF k
  <2>3. SubSeq(s, k, Len(s)) \in Seq(Steps) /\ Fits(t, e, SubSeq(s, k, Len(s)), h[k], z)
    BY <1>1, <2>1, <2>2, FitsRest
  <2> QED
    BY <2>2, <2>3 DEF k
<1> QED
  BY <1>1, <1>2, <1>4, <1>5, <1>6, <1>7

LEMMA StepsTyped ==
    ASSUME NEW m \in Mutexes
    PROVE  /\ LockStep(m) \in Steps /\ UnlockStep(m) \in Steps
           /\ \A n \in Nat : Step("try", m, n) \in Steps
           /\ Work \in Steps /\ Exit \in Steps /\ Close \in Steps /\ Die \in Steps
BY DEF LockStep, UnlockStep, Step, Work, Exit, Close, Die, Steps, Kinds, Mutexes

\* A mutex that may be waited for, held over what fits while it is held.
LEMMA FitsHold ==
    ASSUME NEW t, NEW e, NEW m \in Mutexes, NEW x \in Holding, Allowed(t, e, x, m),
           NEW s \in Seq(Steps), Fits(t, e, s, More(x, m), More(x, m))
    PROVE  Hold(m, s) \in Seq(Steps) /\ Fits(t, e, Hold(m, s), x, x)
<1> DEFINE a == LockStep(m)
           b == UnlockStep(m)
<1>1. a \in Steps /\ b \in Steps
  BY StepsTyped
<1>2. /\ More(x, m) \in Holding /\ More(x, m)[m] > 0 /\ Less(More(x, m), m) = x
  BY HoldingMoves
<1>3. Fits(t, e, <<a>>, x, More(x, m))
  <2>1. StepFits(t, e, a, x, More(x, m)) /\ a.do # "try"
    BY DEF StepFits, LockStep, Step
  <2> QED
    BY <1>1, <1>2, <2>1, FitsOne
<1>4. Fits(t, e, <<b>>, More(x, m), x)
  <2>1. StepFits(t, e, b, More(x, m), x) /\ b.do # "try"
    BY <1>2 DEF StepFits, UnlockStep, Step
  <2> QED
    BY <1>1, <1>2, <2>1, FitsOne
<1>5. <<a>> \in Seq(Steps) /\ <<b>> \in Seq(Steps)
  BY <1>1
<1>6. <<a>> \o s \in Seq(Steps)
  BY <1>5, ConcatProperties
<1>7. Fits(t, e, <<a>> \o s, x, More(x, m))
  BY <1>3, <1>5, FitsConcat
<1>8. (<<a>> \o s) \o <<b>> \in Seq(Steps)
  BY <1>5, <1>6, ConcatProperties
<1>9. Fits(t, e, (<<a>> \o s) \o <<b>>, x, x)
  BY <1>4, <1>5, <1>6, <1>7, FitsConcat
<1> QED
  BY <1>8, <1>9 DEF Hold

\* A mutex that is tried, held over what fits while it is held; a failed try
\* goes past its unlocking.
LEMMA FitsTryHold ==
    ASSUME NEW t, NEW e, NEW m \in Mutexes, m # "exitCallbacks", NEW x \in Holding,
           NEW s \in Seq(Steps), Fits(t, e, s, More(x, m), More(x, m))
    PROVE  TryHold(m, s) \in Seq(Steps) /\ Fits(t, e, TryHold(m, s), x, x)
<1> DEFINE a == Step("try", m, Len(s) + 1)
           b == UnlockStep(m)
           r == s \o <<b>>
           n == Len(s)
<1>1. a \in Steps /\ b \in Steps /\ n \in Nat /\ a.skip = n + 1 /\ a.do = "try" /\ a.mutex = m
  BY StepsTyped DEF Step
<1>2. /\ More(x, m) \in Holding /\ More(x, m)[m] > 0 /\ Less(More(x, m), m) = x
  BY HoldingMoves
<1>3. <<a>> \in Seq(Steps) /\ <<b>> \in Seq(Steps) /\ Len(<<b>>) = 1
  BY <1>1
<1>4. Fits(t, e, <<b>>, More(x, m), x)
  <2>1. StepFits(t, e, b, More(x, m), x) /\ b.do # "try"
    BY <1>2 DEF StepFits, UnlockStep, Step
  <2> QED
    BY <1>1, <1>2, <2>1, FitsOne
<1>5. r \in Seq(Steps) /\ Len(r) = n + 1
  BY <1>3, ConcatProperties
<1>6. Fits(t, e, r, More(x, m), x)
  BY <1>3, <1>4, FitsConcat
<1>7. PICK f \in [1 .. Len(r) + 1 -> Holding] :
        f[1] = More(x, m) /\ f[Len(r) + 1] = x /\ Trail(t, e, r, f)
  BY <1>6 DEF Fits
<1>8. TryHold(m, s) = <<a>> \o r
  BY <1>3, ConcatAssociative DEF TryHold
<1> DEFINE u == <<a>> \o r
           h == [i \in 1 .. n + 3 |-> IF i = 1 THEN x ELSE f[i - 1]]
<1>9. /\ u \in Seq(Steps) /\ Len(u) = n + 2
      /\ u[1] = a /\ \A i \in 1 .. n + 1 : u[i + 1] = r[i]
  <2>1. /\ u \in Seq(Steps) /\ Len(u) = Len(<<a>>) + Len(r)
        /\ \A i \in 1 .. Len(<<a>>) + Len(r) :
             u[i] = IF i <= Len(<<a>>) THEN <<a>>[i] ELSE r[i - Len(<<a>>)]
    BY <1>3, <1>5, ConcatProperties
  <2>2. Len(<<a>>) = 1 /\ <<a>>[1] = a
    OBVIOUS
  <2> HIDE DEF u, a, r, n
  <2>3. Len(<<a>>) + Len(r) = n + 2
    BY <1>1, <1>5, <2>2
  <2>4. \A i \in 1 .. n + 2 : u[i] = IF i <= 1 THEN <<a>>[i] ELSE r[i - 1]
    BY <2>1, <2>2, <2>3
  <2>5. u[1] = a
    BY <1>1, <2>2, <2>4
  <2>6. ASSUME NEW i \in 1 .. n + 1
        PROVE  u[i + 1] = r[i]
    <3>1. i + 1 \in 1 .. n + 2 /\ ~(i + 1 <= 1) /\ i + 1 - 1 = i
      BY <1>1
    <3> QED
      BY <2>4, <3>1
  <2> QED
    BY <2>1, <2>3, <2>5, <2>6
<1> HIDE DEF a, b, r, n, u
<1>10. h \in [1 .. n + 3 -> Holding]
  BY <1>1, <1>5, <1>7
<1>11. h[1] = x /\ \A i \in 1 .. n + 2 : h[i + 1] = f[i]
  BY <1>1
<1> HIDE DEF h
<1>12. ASSUME NEW i \in 1 .. n + 2
       PROVE  /\ StepFits(t, e, u[i], h[i], h[i + 1])
              /\ u[i].do = "try" => i + u[i].skip + 1 <= n + 3 /\ h[i + u[i].skip + 1] = h[i]
  <2>1. CASE i = 1
    <3>1. h[2] = f[1] /\ h[n + 3] = f[n + 2]
      <4>1. 1 \in 1 .. n + 2 /\ n + 2 \in 1 .. n + 2 /\ 1 + 1 = 2 /\ (n + 2) + 1 = n + 3
        BY <1>1
      <4> QED
        BY <1>11, <4>1
    <3>2. h[2] = More(x, m) /\ h[n + 3] = x
      BY <1>1, <1>5, <1>7, <3>1
    <3>3. StepFits(t, e, a, x, More(x, m))
      BY <1>1 DEF StepFits
    <3>4. 1 + (n + 1) + 1 = n + 3 /\ 1 + 1 = 2
      BY <1>1
    <3> QED
      BY <1>1, <1>9, <1>11, <2>1, <3>2, <3>3, <3>4
  <2>2. CASE i # 1
    <3> DEFINE j == i - 1
               q == r[j].skip
    <3>1. j \in Nat /\ j \in 1 .. n + 1 /\ j \in 1 .. n + 2 /\ j + 1 \in 1 .. n + 2
          /\ i = j + 1
      BY <1>1, <2>2
    <3> HIDE DEF j
    <3>2. u[i] = r[j] /\ h[i] = f[j] /\ h[i + 1] = f[j + 1]
      BY <1>9, <1>11, <3>1
    <3>3. /\ StepFits(t, e, r[j], f[j], f[j + 1])
          /\ r[j].do = "try" => j + q + 1 <= n + 2 /\ f[j + q + 1] = f[j]
      <4>1. n + 1 + 1 = n + 2
        BY <1>1
      <4> QED
        BY <1>5, <1>7, <3>1, <4>1 DEF Trail
    <3>4. q \in Nat
      <4>1. r[j] \in Steps
        BY <1>5, <3>1, ElementOfSeq
      <4> QED
        BY <4>1 DEF Steps
    <3> HIDE DEF q
    <3>5. /\ i + q + 1 = (j + q + 1) + 1
          /\ j + q + 1 <= n + 2 => j + q + 1 \in 1 .. n + 2 /\ i + q + 1 <= n + 3
      BY <1>1, <3>1, <3>4
    <3>6. r[j].do = "try" => i + q + 1 <= n + 3 /\ h[i + q + 1] = h[i]
      <4>1. r[j].do = "try" => h[i + q + 1] = f[j + q + 1]
        BY <1>11, <3>3, <3>5
      <4> QED
        BY <3>2, <3>3, <3>5, <4>1
    <3>7. StepFits(t, e, u[i], h[i], h[i + 1])
      BY <3>2, <3>3
    <3> QED
      BY <3>2, <3>6, <3>7 DEF q
  <2> QED
    BY <2>1, <2>2
<1>13. Trail(t, e, u, h) /\ h[Len(u) + 1] = x
  <2>1. n + 2 + 1 = n + 3 /\ n + 1 + 1 = n + 2 /\ n + 2 \in 1 .. n + 2
    BY <1>1
  <2>2. h[n + 3] = x
    BY <1>5, <1>7, <1>11, <2>1
  <2> QED
    BY <1>9, <1>12, <2>1, <2>2 DEF Trail
<1>14. Fits(t, e, u, x, x)
  <2>1. Len(u) + 1 = n + 3
    BY <1>1, <1>9
  <2> QED
    BY <1>10, <1>11, <1>13, <2>1 DEF Fits
<1> QED
  BY <1>8, <1>9, <1>14 DEF u

\* That another thread exits changes nothing for t.
LEMMA FitsWhoeverExits ==
    ASSUME NEW t, NEW e, t # e, NEW f, NEW s, NEW x, NEW y, Fits(t, e, s, x, y)
    PROVE  Fits(t, f, s, x, y)
<1>1. PICK h \in [1 .. Len(s) + 1 -> Holding] :
        h[1] = x /\ h[Len(s) + 1] = y /\ Trail(t, e, s, h)
  BY DEF Fits
<1>2. \A u, v, a : StepFits(t, e, a, u, v) => StepFits(t, f, a, u, v)
  BY DEF StepFits, Allowed
<1>3. Trail(t, f, s, h)
  BY <1>1, <1>2 DEF Trail
<1> QED
  BY <1>1, <1>3 DEF Fits

----------------------------------------------------------------------------
(* The plans of the threads *)

\* A mutex may be waited for by who holds nothing.
LEMMA ZeroAllows ==
    ASSUME NEW t, NEW e, NEW m \in Mutexes, m = "processing" => t = "slow",
           m # "exitCallbacks"
    PROVE  Zero \in Holding /\ Open(Zero) /\ Allowed(t, e, Zero, m)
BY DEF Zero, Holding, Open, Allowed, Below, Mutexes

\* Who holds none of the mutexes of the last rank may wait for one of them.
LEMMA OpenAllows ==
    ASSUME NEW t, NEW e, NEW x \in Holding, Open(x), NEW m \in {"data", "addList", "removeSet"}
    PROVE  Allowed(t, e, x, m)
<1>1. Rank(m) = 5
  BY DEF Rank
<1>2. ASSUME NEW k \in Mutexes, x[k] > 0
      PROVE  Rank(k) < 5
  <2>1. k \in {"robot", "clients", "processing", "exitCallbacks"}
    BY <1>2 DEF Open, Mutexes
  <2> QED
    BY <2>1, Ranks DEF Mutexes
<1> QED
  BY <1>1, <1>2 DEF Allowed, Below

\* And for the clients' list.
LEMMA OpenAllowsClients ==
    ASSUME NEW t, NEW e, NEW x \in Holding, Open(x)
    PROVE  Allowed(t, e, x, "clients")
<1>1. CASE x["clients"] > 0
  BY <1>1 DEF Allowed
<1>2. CASE ~(x["clients"] > 0)
  <2>1. ASSUME NEW k \in Mutexes, x[k] > 0
        PROVE  Rank(k) < Rank("clients")
    <3>1. k \in {"robot", "processing", "exitCallbacks"}
      BY <1>2, <2>1 DEF Open, Mutexes
    <3> QED
      BY <3>1, Ranks
  <2> QED
    BY <2>1 DEF Allowed, Below
<1> QED
  BY <1>1, <1>2

LEMMA OpenStays ==
    ASSUME NEW x \in Holding, Open(x), NEW m \in Mutexes \ {"data", "addList", "removeSet"}
    PROVE  Open(More(x, m))
BY DEF Holding, Open, More, Mutexes

LEMMA EmptyFits ==
    ASSUME NEW t, NEW e, NEW x \in Holding
    PROVE  <<>> \in Seq(Steps) /\ Fits(t, e, <<>>, x, x)
BY FitsNothing

\* A short look at a list.
LEMMA LookFits ==
    ASSUME NEW t, NEW e, NEW x \in Holding, NEW m \in Mutexes, Allowed(t, e, x, m)
    PROVE  Hold(m, <<>>) \in Seq(Steps) /\ Fits(t, e, Hold(m, <<>>), x, x)
<1>1. More(x, m) \in Holding
  BY HoldingMoves
<1>2. <<>> \in Seq(Steps) /\ Fits(t, e, <<>>, More(x, m), More(x, m))
  BY <1>1, EmptyFits
<1> QED
  BY <1>2, FitsHold

LEMMA BroadcastFits ==
    ASSUME NEW t, NEW e, NEW x \in Holding, Open(x)
    PROVE  Broadcast \in Seq(Steps) /\ Fits(t, e, Broadcast, x, x)
<1>1. "data" \in Mutexes /\ "clients" \in Mutexes
  BY DEF Mutexes
<1>2. Hold("data", <<>>) \in Seq(Steps) /\ Fits(t, e, Hold("data", <<>>), x, x)
  BY <1>1, OpenAllows, LookFits
<1>3. Hold("clients", <<>>) \in Seq(Steps) /\ Fits(t, e, Hold("clients", <<>>), x, x)
  BY <1>1, OpenAllowsClients, LookFits
<1>4. Hold("data", <<>>) \o Hold("clients", <<>>) \in Seq(Steps)
  BY <1>2, <1>3, ConcatProperties
<1> QED
  BY <1>2, <1>3, <1>4, FitsConcat DEF Broadcast

LEMMA MarkFits ==
    ASSUME NEW t, NEW e, NEW x \in Holding, Open(x)
    PROVE  MarkForRemoval \in Seq(Steps) /\ Fits(t, e, MarkForRemoval, x, x)
BY OpenAllows, LookFits DEF MarkForRemoval, Mutexes

LEMMA ExitFits ==
    ASSUME NEW t, NEW e, NEW x \in Holding, Open(x)
    PROVE  <<Exit>> \in Seq(Steps) /\ Fits(t, e, <<Exit>>, x, x)
<1>1. Exit \in Steps /\ Exit.do = "exit"
  BY DEF Exit, Step, Steps, Kinds, Mutexes
<1>2. StepFits(t, e, Exit, x, x) /\ Exit.do # "try"
  BY <1>1 DEF StepFits
<1> QED
  BY <1>1, <1>2, FitsOne

\* What a thread may do with the robot locked.
LEMMA RobotPlanFits ==
    ASSUME NEW t, NEW e, NEW x \in Holding, Open(x), Allowed(t, e, x, "robot"),
           NEW p \in RobotPlans
    PROVE  p \in Seq(Steps) /\ Fits(t, e, p, x, x)
<1> DEFINE y == More(x, "robot")
<1>1. "robot" \in Mutexes
  BY DEF Mutexes
<1>2. y \in Holding /\ Open(y)
  BY <1>1, HoldingMoves, OpenStays
<1> HIDE DEF y
<1>3. /\ <<>> \in Seq(Steps) /\ Fits(t, e, <<>>, y, y)
      /\ Broadcast \in Seq(Steps) /\ Fits(t, e, Broadcast, y, y)
      /\ <<Exit>> \in Seq(Steps) /\ Fits(t, e, <<Exit>>, y, y)
  BY <1>2, EmptyFits, BroadcastFits, ExitFits
<1>4. \A s \in Seq(Steps) : Fits(t, e, s, y, y) =>
        Hold("robot", s) \in Seq(Steps) /\ Fits(t, e, Hold("robot", s), x, x)
  BY <1>1, FitsHold DEF y
<1> QED
  BY <1>3, <1>4 DEF RobotPlans

LEMMA CommandFits ==
    ASSUME NEW t, NEW e, NEW x \in Holding, Open(x), Allowed(t, e, x, "robot"),
           NEW c \in Commands
    PROVE  c \in Seq(Steps) /\ Fits(t, e, c, x, x)
<1>1. c = <<>> \/ c = Broadcast \/ c \in RobotPlans
  BY DEF Commands, RobotPlans
<1> QED
  BY <1>1, EmptyFits, BroadcastFits, RobotPlanFits

\* What takes clients in or out: the slow/idle thread's mutex is tried only.
LEMMA TriedListFits ==
    ASSUME NEW e, NEW m \in {"addList", "removeSet"}
    PROVE  LET p == TryHold("processing", Hold("clients", Hold(m, <<>>))) IN
             p \in Seq(Steps) /\ Fits("net", e, p, Zero, Zero)
<1> DEFINE x == More(Zero, "processing")
           y == More(x, "clients")
<1>1. m \in Mutexes /\ "processing" \in Mutexes /\ "clients" \in Mutexes
  BY DEF Mutexes
<1>2. Zero \in Holding /\ Open(Zero)
  BY DEF Zero, Holding, Open, Mutexes
<1>3. x \in Holding /\ Open(x)
  BY <1>1, <1>2, HoldingMoves, OpenStays
<1> HIDE DEF x
<1>4. y \in Holding /\ Open(y)
  BY <1>1, <1>3, HoldingMoves, OpenStays
<1> HIDE DEF y
<1>5. Hold(m, <<>>) \in Seq(Steps) /\ Fits("net", e, Hold(m, <<>>), y, y)
  BY <1>1, <1>4, OpenAllows, LookFits
<1>6. /\ Hold("clients", Hold(m, <<>>)) \in Seq(Steps)
      /\ Fits("net", e, Hold("clients", Hold(m, <<>>)), x, x)
  BY <1>1, <1>3, <1>5, OpenAllowsClients, FitsHold DEF y
<1> QED
  BY <1>1, <1>2, <1>6, FitsTryHold DEF x

\* A section of loopOnce fits the network thread that holds nothing.
LEMMA SectionFits ==
    ASSUME NEW e, NEW i \in 1 .. 8, NEW p \in SectionPlans(Sections[i])
    PROVE  p \in Seq(Steps) /\ Fits("net", e, p, Zero, Zero)
<1> DEFINE s == Sections[i]
           y == More(Zero, "clients")
<1>1. /\ Zero \in Holding /\ Open(Zero) /\ Allowed("net", e, Zero, "robot")
      /\ Allowed("net", e, Zero, "clients")
  BY ZeroAllows DEF Mutexes
<1>2. "clients" \in Mutexes /\ "data" \in Mutexes /\ "addList" \in Mutexes
  BY DEF Mutexes
<1>3. <<>> \in Seq(Steps) /\ Fits("net", e, <<>>, Zero, Zero)
  BY <1>1, EmptyFits
<1>4. \A c \in Commands : c \in Seq(Steps) /\ Fits("net", e, c, Zero, Zero)
  BY <1>1, CommandFits
<1>5. \A m \in {"data", "addList"} :
        Hold(m, <<>>) \in Seq(Steps) /\ Fits("net", e, Hold(m, <<>>), Zero, Zero)
  BY <1>1, <1>2, OpenAllows, LookFits
<1>6. CASE s = "opened"
  BY <1>5, <1>6 DEF SectionPlans
<1>7. CASE s = "accept"
  <2>1. Hold("clients", <<>>) \in Seq(Steps) /\ Fits("net", e, Hold("clients", <<>>), Zero, Zero)
    BY <1>1, <1>2, LookFits
  <2>2. Hold("addList", <<>>) \in Seq(Steps) /\ Fits("net", e, Hold("addList", <<>>), Zero, Zero)
    BY <1>5
  <2> DEFINE q == Hold("clients", <<>>) \o Hold("addList", <<>>)
  <2>3. q \in Seq(Steps)
    BY <2>1, <2>2, ConcatProperties
  <2>4. Fits("net", e, q, Zero, Zero)
    BY <2>1, <2>2, FitsConcat
  <2>5. p = <<>> \/ p = q
    BY <1>7 DEF SectionPlans
  <2> QED
    BY <1>3, <2>3, <2>4, <2>5
<1>8. CASE s = "udp"
  <2>1. y \in Holding /\ Open(y) /\ y["clients"] > 0
    BY <1>1, <1>2, HoldingMoves, OpenStays
  <2>2. Allowed("net", e, y, "robot")
    BY <2>1 DEF Allowed
  <2>3. \A c \in Commands : c \in Seq(Steps) /\ Fits("net", e, c, y, y)
    BY <2>1, <2>2, CommandFits
  <2>4. \A c \in Commands : /\ Hold("clients", c) \in Seq(Steps)
                            /\ Fits("net", e, Hold("clients", c), Zero, Zero)
    BY <1>1, <1>2, <2>3, FitsHold
  <2>5. p = <<>> \/ \E c \in Commands : p = Hold("clients", c)
    BY <1>8 DEF SectionPlans
  <2> QED
    BY <1>3, <2>4, <2>5
<1>9. CASE s = "add"
  <2>1. p = AddClients
    BY <1>9 DEF SectionPlans
  <2> QED
    BY <2>1, TriedListFits DEF AddClients
<1>10. CASE s = "idle"
  <2>1. p = <<>> \/ p = Broadcast
    BY <1>10 DEF SectionPlans
  <2> QED
    BY <1>1, <1>3, <2>1, BroadcastFits
<1>11. CASE s = "tcp"
  <2>1. p \in Commands \/ p = MarkForRemoval
    BY <1>11 DEF SectionPlans
  <2> QED
    BY <1>1, <1>4, <2>1, MarkFits
<1>12. CASE s = "remove"
  <2>1. p = RemoveClients
    BY <1>12 DEF SectionPlans
  <2> QED
    BY <2>1, TriedListFits DEF RemoveClients
<1>13. CASE s = "requests"
  <2>1. p \in Commands
    BY <1>13 DEF SectionPlans
  <2> QED
    BY <1>4, <2>1
<1> QED
  <2>1. s \in {"opened", "accept", "udp", "add", "idle", "tcp", "remove", "requests"}
    BY DEF Sections
  <2> QED
    BY <1>6, <1>7, <1>8, <1>9, <1>10, <1>11, <1>12, <1>13, <2>1

\* A cycle of the robot fits its thread.
LEMMA CycleFits ==
    ASSUME NEW e, NEW p \in RobotPlans
    PROVE  p \in Seq(Steps) /\ Fits("robot", e, p, Zero, Zero)
BY ZeroAllows, RobotPlanFits DEF Mutexes

\* A client of slowIdleCallback fits the slow/idle thread.
LEMMA SlowFits ==
    ASSUME NEW e, NEW p \in SlowPlans
    PROVE  p \in Seq(Steps) /\ Fits("slow", e, p, Zero, Zero)
<1> DEFINE y == More(Zero, "processing")
<1>1. "processing" \in Mutexes
  BY DEF Mutexes
<1>2. Zero \in Holding /\ Open(Zero) /\ Allowed("slow", e, Zero, "processing")
  BY <1>1, ZeroAllows
<1>3. y \in Holding /\ Open(y) /\ \A k \in Mutexes \ {"processing"} : y[k] = 0
  BY <1>1, <1>2, HoldingMoves, OpenStays DEF More, Zero
<1> HIDE DEF y
<1>4. <<Work>> \in Seq(Steps) /\ Fits("slow", e, <<Work>>, y, y)
  <2>1. Work \in Steps /\ Work.do = "work"
    BY DEF Work, Step, Steps, Kinds, Mutexes
  <2>2. StepFits("slow", e, Work, y, y) /\ Work.do # "try"
    BY <1>3, <2>1 DEF StepFits
  <2> QED
    BY <1>3, <2>1, <2>2, FitsOne
<1>5. Broadcast \in Seq(Steps) /\ Fits("slow", e, Broadcast, y, y)
  BY <1>3, BroadcastFits
<1>6. MarkForRemoval \in Seq(Steps) /\ Fits("slow", e, MarkForRemoval, y, y)
  BY <1>3, MarkFits
<1>7. <<Work>> \o Broadcast \in Seq(Steps)
  BY <1>4, <1>5, ConcatProperties
<1>8. Fits("slow", e, <<Work>> \o Broadcast, y, y)
  BY <1>4, <1>5, FitsConcat
<1>9. \A s \in Seq(Steps) : Fits("slow", e, s, y, y) =>
        Hold("processing", s) \in Seq(Steps) /\ Fits("slow", e, Hold("processing", s), Zero, Zero)
  BY <1>1, <1>2, FitsHold DEF y
<1> QED
  BY <1>4, <1>6, <1>7, <1>8, <1>9 DEF SlowPlans

\* What the program's other threads do fits any of them.
LEMMA AppFits ==
    ASSUME NEW t, NEW e, NEW p \in AppPlans
    PROVE  p \in Seq(Steps) /\ Fits(t, e, p, Zero, Zero)
<1> DEFINE y == More(Zero, "clients")
<1>1. "clients" \in Mutexes /\ "robot" \in Mutexes
  BY DEF Mutexes
<1>2. /\ Zero \in Holding /\ Open(Zero)
      /\ Allowed(t, e, Zero, "clients") /\ Allowed(t, e, Zero, "robot")
  BY <1>1, ZeroAllows
<1>3. y \in Holding /\ Open(y)
  BY <1>1, <1>2, HoldingMoves, OpenStays
<1> HIDE DEF y
<1>4. MarkForRemoval \in Seq(Steps) /\ Fits(t, e, MarkForRemoval, y, y)
  BY <1>3, MarkFits
<1>5. /\ Hold("clients", MarkForRemoval) \in Seq(Steps)
      /\ Fits(t, e, Hold("clients", MarkForRemoval), Zero, Zero)
  BY <1>1, <1>2, <1>4, FitsHold DEF y
<1>6. Hold("robot", <<>>) \in Seq(Steps) /\ Fits(t, e, Hold("robot", <<>>), Zero, Zero)
  BY <1>1, <1>2, LookFits
<1>7. Broadcast \in Seq(Steps) /\ Fits(t, e, Broadcast, Zero, Zero)
  BY <1>2, BroadcastFits
<1>8. <<Exit>> \in Seq(Steps) /\ Fits(t, e, <<Exit>>, Zero, Zero)
  BY <1>2, ExitFits
<1>9. \/ p = Hold("clients", MarkForRemoval) \/ p = Hold("robot", <<>>)
      \/ p = Broadcast \/ p = <<Exit>>
  BY DEF AppPlans
<1> QED
  BY <1>5, <1>6, <1>7, <1>8, <1>9

\* Aria::exit fits whoever holds none of the mutexes of the last rank; what
\* the program's end leaves locked does not matter.
LEMMA ExitPlanFits ==
    ASSUME NEW t, NEW x \in Holding, Open(x)
    PROVE  ExitPlan \in Seq(Steps) /\ Fits(t, t, ExitPlan, x, Zero)
<1> DEFINE y == More(x, "exitCallbacks")
           z == More(y, "clients")
<1>1. "clients" \in Mutexes /\ "exitCallbacks" \in Mutexes /\ "data" \in Mutexes
  BY DEF Mutexes
<1>2. y \in Holding /\ Open(y)
  BY <1>1, HoldingMoves, OpenStays
<1> HIDE DEF y
<1>3. z \in Holding
  BY <1>1, <1>2, HoldingMoves
<1> HIDE DEF z
<1>4. <<Close>> \in Seq(Steps) /\ Fits(t, t, <<Close>>, z, z)
  <2>1. Close \in Steps /\ Close.do = "close"
    BY DEF Close, Step, Steps, Kinds, Mutexes
  <2>2. StepFits(t, t, Close, z, z) /\ Close.do # "try"
    BY <2>1 DEF StepFits
  <2> QED
    BY <1>3, <2>1, <2>2, FitsOne
<1>5. /\ Hold("clients", <<Close>>) \in Seq(Steps)
      /\ Fits(t, t, Hold("clients", <<Close>>), y, y)
  BY <1>1, <1>2, <1>4, OpenAllowsClients, FitsHold DEF z
<1>6. Hold("data", <<>>) \in Seq(Steps) /\ Fits(t, t, Hold("data", <<>>), y, y)
  BY <1>1, <1>2, OpenAllows, LookFits
<1> DEFINE b == Hold("clients", <<Close>>) \o Hold("data", <<>>)
           p == Hold("exitCallbacks", b)
<1>7. b \in Seq(Steps)
  BY <1>5, <1>6, ConcatProperties
<1>8. Fits(t, t, b, y, y)
  BY <1>5, <1>6, FitsConcat
<1> HIDE DEF b
<1>9. Allowed(t, t, x, "exitCallbacks")
  BY DEF Allowed
<1>10. p \in Seq(Steps) /\ Fits(t, t, p, x, x)
  BY <1>1, <1>7, <1>8, <1>9, FitsHold DEF y
<1> HIDE DEF p
<1>11. <<Die>> \in Seq(Steps) /\ Fits(t, t, <<Die>>, x, Zero)
  <2>1. Die \in Steps /\ Die.do = "die" /\ Zero \in Holding
    BY DEF Die, Step, Steps, Kinds, Mutexes, Zero, Holding
  <2>2. StepFits(t, t, Die, x, Zero) /\ Die.do # "try"
    BY <2>1 DEF StepFits
  <2> QED
    BY <2>1, <2>2, FitsOne
<1>12. p \o <<Die>> \in Seq(Steps)
  BY <1>10, <1>11, ConcatProperties
<1>13. Fits(t, t, p \o <<Die>>, x, Zero)
  BY <1>10, <1>11, FitsConcat
<1>14. ExitPlan = p \o <<Die>>
  BY DEF ExitPlan, p, b
<1> QED
  BY <1>12, <1>13, <1>14

----------------------------------------------------------------------------
(* The inductive invariant *)

\* How often t holds each mutex.
HeldBy(t) == [m \in Mutexes |-> IF owner[m] = t THEN depth[m] ELSE 0]

Types ==
    /\ owner \in [Mutexes -> Threads \cup {NoThread}]
    /\ depth \in [Mutexes -> Nat]
    /\ plan \in [Threads -> Seq(Steps)]
    /\ section \in 1 .. 8
    /\ exiting \in Threads \cup {NoThread}

\* Mutexes are free when they were unlocked as often as locked; only the thread
\* that exits has the exit callbacks'.
MutexesSound ==
    /\ \A m \in Mutexes : owner[m] = NoThread <=> depth[m] = 0
    /\ owner["exitCallbacks"] \in {NoThread, exiting}

\* Every thread can go through the rest of its plan with what it holds, and
\* ends it with nothing.
PlansFit == \A t \in Threads : Fits(t, exiting, plan[t], HeldBy(t), Zero)

Inv == Types /\ MutexesSound /\ PlansFit

LEMMA InitFits == Init => Inv
<1> SUFFICES ASSUME Init PROVE Inv
  OBVIOUS
<1> USE DEF Init
<1>1. Types
  BY EmptySeq DEF Types
<1>2. MutexesSound
  BY DEF MutexesSound, Mutexes
<1>3. ASSUME NEW t \in Threads
      PROVE  Fits(t, exiting, plan[t], HeldBy(t), Zero)
  <2>1. HeldBy(t) = Zero
    BY LocksAssumption DEF HeldBy, Zero
  <2>2. plan[t] = <<>>
    OBVIOUS
  <2>3. Zero \in Holding
    BY DEF Zero, Holding
  <2> QED
    BY <2>1, <2>2, <2>3, FitsNothing
<1> QED
  BY <1>1, <1>2, <1>3 DEF Inv, PlansFit

\* A thread goes on with s, and what it holds then fits.
LEMMA GoesOn ==
    ASSUME Inv, NEW t \in Threads, NEW s \in Seq(Steps), NEW y,
           exiting' = exiting, plan' = [plan EXCEPT ![t] = s],
           HeldBy(t)' = y, Fits(t, exiting, s, y, Zero),
           \A u \in Threads \ {t} : HeldBy(u)' = HeldBy(u)
    PROVE  PlansFit'
<1>1. plan \in [Threads -> Seq(Steps)]
  BY DEF Inv, Types
<1>2. ASSUME NEW u \in Threads
      PROVE  Fits(u, exiting', plan'[u], HeldBy(u)', Zero)
  <2>1. CASE u = t
    <3>1. plan'[u] = s /\ HeldBy(u)' = y
      BY <1>1, <2>1
    <3> QED
      BY <2>1, <3>1
  <2>2. CASE u # t
    <3>1. plan'[u] = plan[u] /\ HeldBy(u)' = HeldBy(u)
      BY <1>1, <2>2
    <3>2. Fits(u, exiting, plan[u], HeldBy(u), Zero)
      BY DEF Inv, PlansFit
    <3> QED
      BY <3>1, <3>2
  <2> QED
    BY <2>1, <2>2
<1> QED
  BY <1>2 DEF PlansFit

\* Nothing changes hands, and the thread goes on with s.
LEMMA GoesOnHolding ==
    ASSUME Inv, NEW t \in Threads, NEW s \in Seq(Steps),
           UNCHANGED <<owner, depth, exiting>>, section' \in 1 .. 8,
           plan' = [plan EXCEPT ![t] = s], Fits(t, exiting, s, HeldBy(t), Zero)
    PROVE  Inv'
<1>1. Types'
  BY DEF Inv, Types
<1>2. MutexesSound'
  BY DEF Inv, MutexesSound
<1>3. \A u \in Threads : HeldBy(u)' = HeldBy(u)
  BY DEF HeldBy
<1>4. PlansFit'
  BY <1>3, GoesOn
<1> QED
  BY <1>1, <1>2, <1>4 DEF Inv

LEMMA BeginKeeps ==
    ASSUME Inv, NEW t \in Threads, NEW plans, Begin(t, plans),
           UNCHANGED <<owner, depth, exiting>>, section' \in 1 .. 8,
           \A p \in plans : p \in Seq(Steps) /\ Fits(t, exiting, p, Zero, Zero)
    PROVE  Inv'
<1>1. plan[t] = <<>>
  BY DEF Begin
<1>2. PICK p \in plans : plan' = [plan EXCEPT ![t] = p]
  BY DEF Begin
<1>3. HeldBy(t) = Zero
  <2>1. Fits(t, exiting, <<>>, HeldBy(t), Zero)
    BY <1>1 DEF Inv, PlansFit
  <2> QED
    BY <2>1, FitsEnd
<1> QED
  BY <1>2, <1>3, GoesOnHolding

\* What the invariant says of a thread's next step.
LEMMA StepAhead ==
    ASSUME Inv, NEW t \in Threads, plan[t] # <<>>
    PROVE  LET s == plan[t]
               x == HeldBy(t) IN
           /\ s \in Seq(Steps) /\ Head(s) \in Steps /\ x \in Holding
           /\ Tail(s) \in Seq(Steps)
           /\ \E y \in Holding :
                StepFits(t, exiting, Head(s), x, y) /\ Fits(t, exiting, Tail(s), y, Zero)
           /\ Head(s).do = "try" =>
                /\ SubSeq(s, Head(s).skip + 2, Len(s)) \in Seq(Steps)
                /\ Fits(t, exiting, SubSeq(s, Head(s).skip + 2, Len(s)), x, Zero)
<1>1. plan[t] \in Seq(Steps) /\ Fits(t, exiting, plan[t], HeldBy(t), Zero)
  BY DEF Inv, Types, PlansFit
<1> QED
  BY <1>1, FitsStep

\* A thread takes a mutex.
LEMMA AcquireHolds ==
    ASSUME Inv, NEW t \in Threads, NEW m \in Mutexes, Free(t, m), Acquire(t, m)
    PROVE  /\ HeldBy(t)' = More(HeldBy(t), m)
           /\ \A u \in Threads \ {t} : HeldBy(u)' = HeldBy(u)
           /\ owner' \in [Mutexes -> Threads \cup {NoThread}]
           /\ depth' \in [Mutexes -> Nat]
           /\ \A k \in Mutexes : owner'[k] = NoThread <=> depth'[k] = 0
<1>1. /\ owner \in [Mutexes -> Threads \cup {NoThread}] /\ depth \in [Mutexes -> Nat]
      /\ \A k \in Mutexes : owner[k] = NoThread <=> depth[k] = 0
      /\ NoThread \notin Threads
  BY LocksAssumption DEF Inv, Types, MutexesSound
<1>2. owner[m] = NoThread \/ owner[m] = t
  BY DEF Free
<1>3. /\ owner'[m] = t /\ depth'[m] = depth[m] + 1
      /\ \A k \in Mutexes \ {m} : owner'[k] = owner[k] /\ depth'[k] = depth[k]
  BY <1>1 DEF Acquire
<1>4. owner' \in [Mutexes -> Threads \cup {NoThread}] /\ depth' \in [Mutexes -> Nat]
  BY <1>1 DEF Acquire
<1>5. HeldBy(t)' = More(HeldBy(t), m)
  <2>1. HeldBy(t)[m] = depth[m]
    BY <1>1, <1>2 DEF HeldBy
  <2>2. HeldBy(t)'[m] = HeldBy(t)[m] + 1
    BY <1>3, <2>1 DEF HeldBy
  <2>3. \A k \in Mutexes \ {m} : HeldBy(t)'[k] = HeldBy(t)[k]
    BY <1>3 DEF HeldBy
  <2>4. HeldBy(t)' = [k \in Mutexes |-> HeldBy(t)'[k]]
    BY DEF HeldBy
  <2>5. More(HeldBy(t), m) =
          [k \in Mutexes |-> IF k = m THEN HeldBy(t)[k] + 1 ELSE HeldBy(t)[k]]
    BY DEF HeldBy, More
  <2> QED
    BY <2>2, <2>3, <2>4, <2>5
<1>6. ASSUME NEW u \in Threads \ {t}
      PROVE  HeldBy(u)' = HeldBy(u)
  <2>1. owner[m] # u /\ owner'[m] # u
    BY <1>1, <1>2, <1>3
  <2> QED
    BY <1>3, <2>1 DEF HeldBy
<1>7. \A k \in Mutexes : owner'[k] = NoThread <=> depth'[k] = 0
  BY <1>1, <1>3
<1> QED
  BY <1>4, <1>5, <1>6, <1>7

\* A mutex is taken by a lock or a try.
LEMMA TakingKeeps ==
    ASSUME Inv, NEW t \in Threads, plan[t] # <<>>,
           Doing(t, "lock") \/ Doing(t, "try"),
           Free(t, Wanted(t)), Acquire(t, Wanted(t)), Continue(t),
           UNCHANGED <<section, opened, exiting>>
    PROVE  Inv'
<1> DEFINE s == plan[t]
           m == Wanted(t)
           x == HeldBy(t)
<1>1. /\ Head(s) \in Steps /\ Tail(s) \in Seq(Steps) /\ m = Head(s).mutex
      /\ Head(s).do = "lock" \/ Head(s).do = "try"
  BY StepAhead DEF Doing, Wanted
<1>2. m \in Mutexes
  BY <1>1 DEF Steps
<1>3. PICK y \in Holding :
        StepFits(t, exiting, Head(s), x, y) /\ Fits(t, exiting, Tail(s), y, Zero)
  BY StepAhead
<1>4. y = More(x, m) /\ (m = "exitCallbacks" => t = exiting)
  BY <1>1, <1>3 DEF StepFits, Allowed
<1>5. plan' = [plan EXCEPT ![t] = Tail(s)]
  BY DEF Continue
<1>6. /\ HeldBy(t)' = More(x, m)
      /\ \A u \in Threads \ {t} : HeldBy(u)' = HeldBy(u)
      /\ owner' \in [Mutexes -> Threads \cup {NoThread}]
      /\ depth' \in [Mutexes -> Nat]
      /\ \A k \in Mutexes : owner'[k] = NoThread <=> depth'[k] = 0
  BY <1>2, AcquireHolds
<1>7. plan' \in [Threads -> Seq(Steps)]
  BY <1>1, <1>5 DEF Inv, Types
<1>8. owner'["exitCallbacks"] \in {NoThread, exiting'}
  <2>1. owner["exitCallbacks"] \in {NoThread, exiting} /\ owner \in [Mutexes -> Threads \cup {NoThread}]
    BY DEF Inv, MutexesSound, Types
  <2>2. "exitCallbacks" \in Mutexes
    BY DEF Mutexes
  <2>3. owner'["exitCallbacks"] = IF m = "exitCallbacks" THEN t ELSE owner["exitCallbacks"]
    BY <2>1, <2>2 DEF Acquire
  <2> QED
    BY <1>4, <2>1, <2>3
<1>9. PlansFit'
  <2>1. HeldBy(t)' = y
    BY <1>4, <1>6
  <2> QED
    BY <1>1, <1>3, <1>5, <1>6, <2>1, GoesOn
<1>10. Types'
  BY <1>6, <1>7 DEF Inv, Types
<1>11. MutexesSound'
  BY <1>6, <1>8 DEF MutexesSound
<1> QED
  BY <1>9, <1>10, <1>11 DEF Inv

\* A thread lets go of a mutex.
LEMMA UnlockKeeps ==
    ASSUME Inv, NEW t \in Threads, Unlock(t)
    PROVE  Inv'
<1> DEFINE s == plan[t]
           m == Wanted(t)
           x == HeldBy(t)
<1>1. plan[t] # <<>> /\ Head(s).do = "unlock" /\ m = Head(s).mutex /\ owner[m] = t
  BY DEF Unlock, Doing, Wanted
<1>2. Head(s) \in Steps /\ Tail(s) \in Seq(Steps) /\ m \in Mutexes
  <2>1. Head(s) \in Steps /\ Tail(s) \in Seq(Steps)
    BY <1>1, StepAhead
  <2> QED
    BY <1>1, <2>1 DEF Steps
<1>3. PICK y \in Holding :
        StepFits(t, exiting, Head(s), x, y) /\ Fits(t, exiting, Tail(s), y, Zero)
  BY <1>1, StepAhead
<1>4. y = Less(x, m) /\ x[m] > 0
  BY <1>1, <1>3 DEF StepFits
<1>5. /\ owner \in [Mutexes -> Threads \cup {NoThread}] /\ depth \in [Mutexes -> Nat]
      /\ \A k \in Mutexes : owner[k] = NoThread <=> depth[k] = 0
      /\ owner["exitCallbacks"] \in {NoThread, exiting}
      /\ NoThread \notin Threads
  BY LocksAssumption DEF Inv, Types, MutexesSound
<1>6. x[m] = depth[m]
  BY <1>1, <1>2 DEF HeldBy
<1>7. /\ depth'[m] = depth[m] - 1 /\ depth'[m] \in Nat
      /\ owner'[m] = IF depth'[m] = 0 THEN NoThread ELSE t
      /\ \A k \in Mutexes \ {m} : owner'[k] = owner[k] /\ depth'[k] = depth[k]
  <2>1. depth' = [depth EXCEPT ![m] = @ - 1]
    BY DEF Unlock
  <2>2. owner' = [owner EXCEPT ![m] = IF depth'[m] = 0 THEN NoThread ELSE t]
    BY DEF Unlock
  <2>3. depth'[m] = depth[m] - 1
    BY <1>2, <1>5, <2>1
  <2>4. depth[m] \in Nat /\ depth[m] > 0
    BY <1>2, <1>4, <1>5, <1>6
  <2> QED
    BY <1>2, <1>5, <2>1, <2>2, <2>3, <2>4
<1>8. /\ owner' \in [Mutexes -> Threads \cup {NoThread}] /\ depth' \in [Mutexes -> Nat]
      /\ \A k \in Mutexes : owner'[k] = NoThread <=> depth'[k] = 0
  <2>1. owner' = [k \in Mutexes |-> owner'[k]] /\ depth' = [k \in Mutexes |-> depth'[k]]
    BY <1>5 DEF Unlock
  <2>2. \A k \in Mutexes : owner'[k] \in Threads \cup {NoThread} /\ depth'[k] \in Nat
    BY <1>5, <1>7
  <2>3. \A k \in Mutexes : owner'[k] = NoThread <=> depth'[k] = 0
    BY <1>5, <1>7
  <2> QED
    BY <2>1, <2>2, <2>3
<1>9. HeldBy(t)' = Less(x, m)
  <2>1. HeldBy(t)'[m] = x[m] - 1
    BY <1>2, <1>5, <1>6, <1>7 DEF HeldBy
  <2>2. \A k \in Mutexes \ {m} : HeldBy(t)'[k] = x[k]
    BY <1>7 DEF HeldBy
  <2>3. HeldBy(t)' = [k \in Mutexes |-> HeldBy(t)'[k]]
    BY DEF HeldBy
  <2>4. Less(x, m) = [k \in Mutexes |-> IF k = m THEN x[k] - 1 ELSE x[k]]
    BY DEF HeldBy, Less
  <2> QED
    BY <2>1, <2>2, <2>3, <2>4
<1>10. ASSUME NEW u \in Threads \ {t}
       PROVE  HeldBy(u)' = HeldBy(u)
  <2>1. owner[m] # u /\ owner'[m] # u
    BY <1>1, <1>5, <1>7
  <2> QED
    BY <1>7, <2>1 DEF HeldBy
<1>11. plan' = [plan EXCEPT ![t] = Tail(s)] /\ UNCHANGED <<section, exiting>>
  BY DEF Unlock, Continue
<1>12. PlansFit'
  <2>1. HeldBy(t)' = y
    BY <1>4, <1>9
  <2> QED
    BY <1>2, <1>3, <1>10, <1>11, <2>1, GoesOn
<1>13. Types'
  <2>1. plan' \in [Threads -> Seq(Steps)]
    BY <1>2, <1>11 DEF Inv, Types
  <2> QED
    BY <1>8, <1>11, <2>1 DEF Inv, Types
<1>14. MutexesSound'
  <2>1. "exitCallbacks" \in Mutexes
    BY DEF Mutexes
  <2>2. owner'["exitCallbacks"] \in {NoThread, owner["exitCallbacks"]}
    BY <1>1, <1>2, <1>7, <2>1
  <2>3. owner'["exitCallbacks"] \in {NoThread, exiting'}
    BY <1>5, <1>11, <2>2
  <2> QED
    BY <1>8, <2>3 DEF MutexesSound
<1> QED
  BY <1>12, <1>13, <1>14 DEF Inv

\* A try that fails goes past what it guards.
LEMMA FailedTryKeeps ==
    ASSUME Inv, NEW t \in Threads, Doing(t, "try"),
           plan' = [plan EXCEPT ![t] = SubSeq(@, Head(@).skip + 2, Len(@))],
           UNCHANGED <<owner, depth, section, opened, exiting>>
    PROVE  Inv'
<1> DEFINE s == plan[t]
           r == SubSeq(s, Head(s).skip + 2, Len(s))
<1>1. s # <<>> /\ Head(s).do = "try"
  BY DEF Doing
<1>2. r \in Seq(Steps) /\ Fits(t, exiting, r, HeldBy(t), Zero)
  BY <1>1, StepAhead
<1>3. plan' = [plan EXCEPT ![t] = r]
  OBVIOUS
<1>4. section' \in 1 .. 8
  BY DEF Inv, Types
<1> QED
  BY <1>2, <1>3, <1>4, GoesOnHolding

\* A step that moves no mutex.
LEMMA HoldingKeeps ==
    ASSUME Inv, NEW t \in Threads, Continue(t),
           Doing(t, "work") \/ Doing(t, "close") \/ Doing(t, "exit"),
           UNCHANGED <<owner, depth, section, exiting>>
    PROVE  Inv'
<1> DEFINE s == plan[t]
<1>1. s # <<>> /\ Head(s).do \in {"work", "close", "exit"}
  BY DEF Doing
<1>2. PICK y \in Holding :
        StepFits(t, exiting, Head(s), HeldBy(t), y) /\ Fits(t, exiting, Tail(s), y, Zero)
  BY <1>1, StepAhead
<1>3. y = HeldBy(t)
  BY <1>1, <1>2 DEF StepFits
<1>4. Tail(s) \in Seq(Steps) /\ plan' = [plan EXCEPT ![t] = Tail(s)]
  BY <1>1, StepAhead DEF Continue
<1>5. section' \in 1 .. 8
  BY DEF Inv, Types
<1> QED
  BY <1>2, <1>3, <1>4, <1>5, GoesOnHolding

LEMMA AriaExitKeeps ==
    ASSUME Inv, NEW t \in Threads, AriaExit(t)
    PROVE  Inv'
<1> DEFINE s == plan[t]
<1>1. s # <<>> /\ Head(s).do = "exit" /\ UNCHANGED <<owner, depth, section, opened>>
  BY DEF AriaExit, Doing
<1>2. CASE exiting # NoThread /\ Continue(t) /\ UNCHANGED exiting
  BY <1>1, <1>2, HoldingKeeps DEF AriaExit
<1>3. CASE exiting = NoThread /\ exiting' = t /\ plan' = [plan EXCEPT ![t] = ExitPlan]
  <2>1. HeldBy(t) \in Holding /\ Open(HeldBy(t))
    <3>1. HeldBy(t) \in Holding /\ Head(s) \in Steps
      BY <1>1, StepAhead
    <3>2. PICK y \in Holding : StepFits(t, exiting, Head(s), HeldBy(t), y)
      BY <1>1, StepAhead
    <3>3. Open(HeldBy(t))
      BY <1>1, <3>2 DEF StepFits
    <3> QED
      BY <3>1, <3>3
  <2>2. ExitPlan \in Seq(Steps) /\ Fits(t, t, ExitPlan, HeldBy(t), Zero)
    BY <2>1, ExitPlanFits
  <2>3. \A u \in Threads : HeldBy(u)' = HeldBy(u)
    BY <1>1 DEF HeldBy
  <2>4. ASSUME NEW u \in Threads
        PROVE  Fits(u, exiting', plan'[u], HeldBy(u)', Zero)
    <3>1. CASE u = t
      <4>1. plan'[u] = ExitPlan
        BY <1>3, <3>1 DEF Inv, Types
      <4>2. HeldBy(u)' = HeldBy(u) /\ exiting' = t
        BY <1>3, <2>3
      <4> QED
        BY <2>2, <3>1, <4>1, <4>2
    <3>2. CASE u # t
      <4>1. plan'[u] = plan[u]
        BY <1>3, <3>2 DEF Inv, Types
      <4>2. u # exiting /\ Fits(u, exiting, plan[u], HeldBy(u), Zero)
        BY <1>3, LocksAssumption DEF Inv, PlansFit
      <4>3. Fits(u, exiting', plan[u], HeldBy(u), Zero)
        BY <4>2, FitsWhoeverExits
      <4>4. HeldBy(u)' = HeldBy(u)
        BY <2>3
      <4> QED
        BY <4>1, <4>3, <4>4
    <3> QED
      BY <3>1, <3>2
  <2>5. Types'
    BY <1>1, <1>3, <2>2 DEF Inv, Types
  <2>6. MutexesSound'
    BY <1>1, <1>3 DEF Inv, MutexesSound
  <2> QED
    BY <2>4, <2>5, <2>6 DEF Inv, PlansFit
<1> QED
  BY <1>2, <1>3 DEF AriaExit

LEMMA NextFits == Inv /\ [Next]_vars => Inv'
<1> SUFFICES ASSUME Inv, [Next]_vars PROVE Inv'
  OBVIOUS
<1>1. "net" \in Threads /\ "robot" \in Threads /\ "slow" \in Threads /\ AppThreads \subseteq Threads
  BY DEF Threads
<1>2. section \in 1 .. 8 /\ Len(Sections) = 8
  BY DEF Inv, Types, Sections
<1>3. CASE NetBegin
  <2>1. UNCHANGED <<owner, depth, exiting>> /\ section' \in 1 .. 8
    BY <1>2, <1>3 DEF NetBegin
  <2>2. Begin("net", SectionPlans(Sections[section]))
    BY <1>3 DEF NetBegin
  <2>3. \A p \in SectionPlans(Sections[section]) :
          p \in Seq(Steps) /\ Fits("net", exiting, p, Zero, Zero)
    BY <1>2, SectionFits
  <2> QED
    BY <1>1, <2>1, <2>2, <2>3, BeginKeeps
<1>4. CASE OtherBegin
  <2>1. UNCHANGED <<owner, depth, exiting>> /\ section' \in 1 .. 8
    BY <1>2, <1>4 DEF OtherBegin
  <2>2. CASE Begin("robot", RobotPlans)
    <3>1. \A p \in RobotPlans : p \in Seq(Steps) /\ Fits("robot", exiting, p, Zero, Zero)
      BY CycleFits
    <3> QED
      BY <1>1, <2>1, <2>2, <3>1, BeginKeeps
  <2>3. CASE Begin("slow", SlowPlans)
    <3>1. \A p \in SlowPlans : p \in Seq(Steps) /\ Fits("slow", exiting, p, Zero, Zero)
      BY SlowFits
    <3> QED
      BY <1>1, <2>1, <2>3, <3>1, BeginKeeps
  <2>4. ASSUME NEW t \in AppThreads, Begin(t, AppPlans)
        PROVE  Inv'
    <3>1. \A p \in AppPlans : p \in Seq(Steps) /\ Fits(t, exiting, p, Zero, Zero)
      BY AppFits
    <3> QED
      BY <1>1, <2>1, <2>4, <3>1, BeginKeeps
  <2> QED
    BY <1>4, <2>2, <2>3, <2>4 DEF OtherBegin
<1>5. ASSUME NEW t \in Threads, LockMutex(t)
      PROVE  Inv'
  BY <1>5, TakingKeeps DEF LockMutex, Doing
<1>6. ASSUME NEW t \in Threads, TryLock(t)
      PROVE  Inv'
  <2>1. CASE Free(t, Wanted(t)) /\ Acquire(t, Wanted(t)) /\ Continue(t)
    BY <1>6, <2>1, TakingKeeps DEF TryLock, Doing
  <2>2. CASE /\ plan' = [plan EXCEPT ![t] = SubSeq(@, Head(@).skip + 2, Len(@))]
             /\ UNCHANGED <<owner, depth>>
    BY <1>6, <2>2, FailedTryKeeps DEF TryLock
  <2> QED
    BY <1>6, <2>1, <2>2 DEF TryLock
<1>7. ASSUME NEW t \in Threads, WorkDone(t) \/ CloseServer(t)
      PROVE  Inv'
  BY <1>7, HoldingKeeps DEF WorkDone, CloseServer
<1>8. CASE UNCHANGED vars
  <2>1. UNCHANGED <<owner, depth, plan, section, exiting>>
    BY <1>8 DEF vars
  <2>2. \A u \in Threads : HeldBy(u)' = HeldBy(u)
    BY <2>1 DEF HeldBy
  <2> QED
    BY <2>1, <2>2 DEF Inv, Types, MutexesSound, PlansFit
<1> QED
  BY <1>3, <1>4, <1>5, <1>6, <1>7, <1>8, UnlockKeeps, AriaExitKeeps DEF Next

LEMMA InvHolds == Spec => []Inv
BY InitFits, NextFits, PTL DEF Spec

----------------------------------------------------------------------------
(* Who waits for whom *)

\* A thread that waits holds only mutexes of a lower rank than the one it
\* waits for, unless it serves a command that came by UDP; and nobody but the
\* slow/idle thread waits for the mutex of its work.
LEMMA WaitersHoldLess ==
    ASSUME Inv, NEW t \in Threads, Blocked(t)
    PROVE  /\ Wanted(t) \in Mutexes
           /\ Blocker(t) \in Threads \ {t}
           /\ Wanted(t) = "processing" => t = "slow"
           /\ \/ \A k \in Mutexes : owner[k] = t => Rank(k) < Rank(Wanted(t))
              \/ t = "net" /\ ServingUdp
<1> DEFINE m == Wanted(t)
           x == HeldBy(t)
<1>1. plan[t] # <<>> /\ Head(plan[t]).do = "lock" /\ m = Head(plan[t]).mutex
      /\ owner[m] \notin {NoThread, t}
  BY DEF Blocked, Doing, Wanted, Free
<1>2. m \in Mutexes
  <2>1. Head(plan[t]) \in Steps
    BY <1>1, StepAhead
  <2> QED
    BY <1>1, <2>1 DEF Steps
<1>3. Allowed(t, exiting, x, m)
  <2>1. PICK y \in Holding : StepFits(t, exiting, Head(plan[t]), x, y)
    BY <1>1, StepAhead
  <2> QED
    BY <1>1, <2>1 DEF StepFits
<1>4. /\ owner \in [Mutexes -> Threads \cup {NoThread}] /\ depth \in [Mutexes -> Nat]
      /\ \A k \in Mutexes : owner[k] = NoThread <=> depth[k] = 0
      /\ owner["exitCallbacks"] \in {NoThread, exiting} /\ NoThread \notin Threads
  BY LocksAssumption DEF Inv, Types, MutexesSound
<1>5. \A k \in Mutexes : owner[k] = t <=> x[k] > 0
  BY <1>4 DEF HeldBy
<1>6. m # "exitCallbacks"
  BY <1>1, <1>3, <1>4 DEF Allowed
<1>7. ~(x[m] > 0)
  BY <1>1, <1>2, <1>5
<1>8. Below(x, m) \/ (t = "net" /\ m = "robot" /\ x["clients"] > 0)
  BY <1>3, <1>6, <1>7 DEF Allowed
<1>9. CASE Below(x, m)
  <2>1. \A k \in Mutexes : owner[k] = t => Rank(k) < Rank(m)
    BY <1>5, <1>9 DEF Below
  <2> QED
    BY <1>1, <1>2, <1>3, <1>4, <2>1 DEF Allowed, Blocker
<1>10. CASE t = "net" /\ m = "robot" /\ x["clients"] > 0
  <2>1. owner["clients"] = "net"
    BY <1>5, <1>10 DEF Mutexes
  <2> QED
    BY <1>1, <1>2, <1>3, <1>4, <1>10, <2>1 DEF Allowed, Blocker, ServingUdp
<1> QED
  BY <1>8, <1>9, <1>10

\* A circle of waiting threads would have to climb through the ranks for ever.
LEMMA CircleServesUdp ==
    ASSUME Inv, NEW S \in SUBSET Threads, Circular(S)
    PROVE  "net" \in S /\ ServingUdp
<1> SUFFICES ASSUME ~("net" \in S /\ ServingUdp) PROVE FALSE
  OBVIOUS
<1> DEFINE R(t) == Rank(Wanted(t))
<1>1. ASSUME NEW t \in S
      PROVE  /\ R(t) \in 1 .. 5 /\ Blocker(t) \in S
             /\ R(t) < R(Blocker(t))
  <2> DEFINE u == Blocker(t)
  <2>1. u \in S /\ Blocked(t) /\ Blocked(u)
    BY DEF Circular
  <2>2. Wanted(t) \in Mutexes /\ owner[Wanted(t)] = u
    BY <2>1, WaitersHoldLess DEF Blocker
  <2>3. \A k \in Mutexes : owner[k] = u => Rank(k) < R(u)
    BY <2>1, WaitersHoldLess
  <2>4. R(t) < R(u)
    BY <2>2, <2>3
  <2> QED
    BY <2>1, <2>2, <2>4, Ranks
<1> HIDE DEF R
<1>2. \A t \in S : R(t) <= 4
  BY <1>1
<1>3. \A t \in S : R(t) <= 3
  BY <1>1, <1>2
<1>4. \A t \in S : R(t) <= 2
  BY <1>1, <1>3
<1>5. \A t \in S : R(t) <= 1
  BY <1>1, <1>4
<1>6. \A t \in S : FALSE
  BY <1>1, <1>5
<1> QED
  BY <1>6 DEF Circular

\* While the slow/idle thread works it holds only the mutex of its work.
LEMMA WorkIsHarmless ==
    ASSUME Inv, Doing("slow", "work"), NEW t \in Threads, WaitsFor(t, "slow")
    PROVE  FALSE
<1>1. "slow" \in Threads /\ plan["slow"] # <<>> /\ Head(plan["slow"]).do = "work"
  BY DEF Doing, Threads
<1>2. \A k \in Mutexes \ {"processing"} : HeldBy("slow")[k] = 0
  <2>1. PICK y \in Holding : StepFits("slow", exiting, Head(plan["slow"]), HeldBy("slow"), y)
    BY <1>1, StepAhead
  <2> QED
    BY <1>1, <2>1 DEF StepFits
<1>3. PICK S \in SUBSET Threads :
        /\ "slow" \notin S /\ \A s \in S : Blocked(s)
        /\ \E s \in S : Blocker(s) = "slow"
  BY DEF WaitsFor
<1>4. PICK s \in S : Blocker(s) = "slow"
  BY <1>3
<1>5. /\ Wanted(s) \in Mutexes /\ owner[Wanted(s)] = "slow"
      /\ Wanted(s) = "processing" => s = "slow"
  BY <1>3, <1>4, WaitersHoldLess DEF Blocker
<1>6. Wanted(s) # "processing"
  BY <1>3, <1>5
<1>7. HeldBy("slow")[Wanted(s)] = depth[Wanted(s)] /\ depth[Wanted(s)] # 0
  BY <1>1, <1>5, LocksAssumption DEF HeldBy, Inv, MutexesSound
<1> QED
  BY <1>2, <1>5, <1>6, <1>7

----------------------------------------------------------------------------
(* Theorems *)

\* The only way for threads to wait for each other for ever is a command that
\* arrives by UDP and locks the robot with the client list locked
\* (ArServerBase::processUdpPacket), while the robot's thread broadcasts.
THEOREM NoOtherCircle == Spec => []CircularWaitNeedsUdp
<1>1. Inv => CircularWaitNeedsUdp
  BY CircleServesUdp DEF CircularWaitNeedsUdp
<1> QED
  BY <1>1, InvHolds, PTL

\* A slow command under way (ArServerBase::slowIdleCallback) holds up no other
\* thread, directly or through threads that wait for one another.
THEOREM SlowWorkIsApart == Spec => []SlowWorkStallsNobody
<1>1. Inv => SlowWorkStallsNobody
  BY WorkIsHarmless DEF SlowWorkStallsNobody
<1> QED
  BY <1>1, InvHolds, PTL

=============================================================================
