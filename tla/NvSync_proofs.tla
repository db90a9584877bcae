---------------------------- MODULE NvSync_proofs ----------------------------
(***************************************************************************)
(* Proofs about the synchronisation protocol, for any requests, partitions *)
(* and packet sizes and any number of lost, repeated and abandoned         *)
(* packets.                                                                *)
(*                                                                         *)
(* The stream of a request is a recursive definition.  What it computes is *)
(* shown by induction on the number of ranges; an induction is stated for  *)
(* the set of numbers with the property at hand (Induction).               *)
(***************************************************************************)
EXTENDS NvSync, WellFoundedInduction, TLAPS

-----------------------------------------------------------------------------
(* The stream of a request                                                 *)

\* Induction: a set that contains 0 and with each number the next one is Nat.
LEMMA Induction ==
    ASSUME NEW S \in SUBSET Nat, 0 \in S, \A n \in S : n + 1 \in S
    PROVE  S = Nat
<1> DEFINE R == OpToRel(<, Nat)
           T == Nat \ S
<1>1. IsWellFoundedOn(R, Nat)
  BY NatLessThanWellFounded, Zenon
<1>2. ASSUME NEW x \in Nat, NEW y \in Nat, y < x
      PROVE  <<y, x>> \in R
  <2> DEFINE Less == {ss \in Nat \X Nat : ss[1] < ss[2]}
  <2>1. R = Less
    BY Zenon DEF OpToRel
  <2>2. <<y, x>> \in Less
    BY <1>2
  <2> HIDE DEF R, Less
  <2> QED
    BY <2>1, <2>2
<1> HIDE DEF R
<1> SUFFICES ASSUME T # {} PROVE FALSE
  OBVIOUS
<1>3. PICK x \in T : \A y \in T : ~(<<y, x>> \in R)
  BY <1>1, WFMin
<1>4. x \in Nat /\ x # 0 /\ x - 1 \in Nat /\ x - 1 < x
  BY <1>3
<1>5. x - 1 \in S
  BY <1>2, <1>3, <1>4
<1>6. (x - 1) + 1 \in S
  BY <1>5
<1> QED
  BY <1>3, <1>4, <1>6

\* A member of a sequence.
LEMMA Member ==
    ASSUME NEW T, NEW s \in Seq(T)
    PROVE  Len(s) \in Nat /\ \A i \in 1 .. Len(s) : s[i] \in T
OBVIOUS

\* The fields of a request.
LEMMA Fields ==
    ASSUME NEW r \in Requests
    PROVE  /\ r.part \in Nat /\ Len(r.ranges) \in Nat
           /\ \A i \in 1 .. Len(r.ranges) :
                /\ r.ranges[i].start \in Nat /\ r.ranges[i].count \in Nat
                /\ r.ranges[i].data \in Seq(Nat) /\ Len(r.ranges[i].data) \in Nat
                /\ Len(r.ranges[i].data) = r.ranges[i].count * SectWords
<1> DEFINE Dirty == [start : Nat, count : Nat, data : Seq(Nat)]
<1>1. r.part \in Nat /\ r.ranges \in Seq(Dirty)
  BY RequestsAssumption
<1>2. ASSUME NEW i \in 1 .. Len(r.ranges)
      PROVE  /\ r.ranges[i].start \in Nat /\ r.ranges[i].count \in Nat
             /\ r.ranges[i].data \in Seq(Nat) /\ Len(r.ranges[i].data) \in Nat
  <2> HIDE DEF Dirty
  <2>1. r.ranges[i] \in Dirty
    BY <1>1, Member, Zenon
  <2> USE DEF Dirty
  <2>2. r.ranges[i].data \in Seq(Nat) /\ r.ranges[i].start \in Nat /\ r.ranges[i].count \in Nat
    BY <2>1
  <2> QED
    BY <2>2
<1>3. Len(r.ranges) \in Nat
  BY <1>1
<1> QED
  BY <1>1, <1>2, <1>3, RequestsAssumption

\* Two sequences joined: the length and the words.
LEMMA Joined ==
    ASSUME NEW s \in Seq(Nat), NEW t \in Seq(Nat)
    PROVE  /\ s \o t \in Seq(Nat) /\ Len(s) \in Nat /\ Len(t) \in Nat
           /\ Len(s \o t) = Len(s) + Len(t)
           /\ \A k \in 1 .. Len(s) : (s \o t)[k] = s[k]
           /\ \A k \in 1 .. Len(t) : (s \o t)[Len(s) + k] = t[k]
OBVIOUS

\* The i-th range in the stream.
LEMMA AnnouncedSeq ==
    ASSUME NEW r \in Requests, NEW i \in 1 .. Len(r.ranges)
    PROVE  /\ Announced(r, i) \in Seq(Nat)
           /\ Len(Announced(r, i)) = 5 + Len(r.ranges[i].data)
           /\ Announced(r, i)[1] = BODY /\ Announced(r, i)[2] = i /\ Announced(r, i)[3] = r.part
           /\ Announced(r, i)[4] = r.ranges[i].start /\ Announced(r, i)[5] = r.ranges[i].count
           /\ \A k \in 1 .. Len(r.ranges[i].data) : Announced(r, i)[5 + k] = r.ranges[i].data[k]
<1> DEFINE x == r.ranges[i].start
           y == r.ranges[i].count
           b == Token(r, BODY, i, x, y)
           d == r.ranges[i].data
<1>1. /\ b \in Seq(Nat) /\ Len(b) = 5
      /\ b[1] = BODY /\ b[2] = i /\ b[3] = r.part /\ b[4] = x /\ b[5] = y
  <2>1. i \in Nat /\ BODY \in Nat /\ r.part \in Nat
    BY Fields DEF BODY
  <2>2. x \in Nat /\ y \in Nat
    BY Fields, Zenon
  <2> HIDE DEF x, y
  <2> QED BY <2>1, <2>2 DEF Token
<1>2. d \in Seq(Nat)
  BY Fields
<1>3. Announced(r, i) = b \o d
  BY DEF Announced
<1> HIDE DEF b, d
<1>4. /\ b \o d \in Seq(Nat) /\ Len(b \o d) = 5 + Len(d)
      /\ \A k \in 1 .. 5 : (b \o d)[k] = b[k]
      /\ \A k \in 1 .. Len(d) : (b \o d)[5 + k] = d[k]
  <2>1. /\ b \o d \in Seq(Nat) /\ Len(b \o d) = Len(b) + Len(d)
        /\ \A k \in 1 .. Len(b) : (b \o d)[k] = b[k]
        /\ \A k \in 1 .. Len(d) : (b \o d)[Len(b) + k] = d[k]
    BY <1>1, <1>2, Joined, Zenon
  <2>2. Len(b) = 5
    BY <1>1
  <2> QED BY <2>1, <2>2, Zenon
<1> DEFINE a == Announced(r, i)
<1>5. /\ a \in Seq(Nat) /\ Len(a) = 5 + Len(d)
      /\ \A k \in 1 .. 5 : a[k] = b[k]
      /\ \A k \in 1 .. Len(d) : a[5 + k] = d[k]
  BY <1>3, <1>4, Zenon
<1> HIDE DEF a
<1>6. a[1] = b[1] /\ a[2] = b[2] /\ a[3] = b[3] /\ a[4] = b[4] /\ a[5] = b[5]
  BY <1>5
<1> QED
  BY <1>1, <1>5, <1>6, Zenon DEF a, d

\* UpTo satisfies its recursive equation.
LEMMA UpToDef ==
    ASSUME NEW r \in Requests
    PROVE  UpTo(r) = [i \in 0 .. Len(r.ranges) |->
                        IF i = 0 THEN Token(r, HEAD, 0, SectWords, Pad)
                        ELSE UpTo(r)[i - 1] \o Announced(r, i)]
<1> DEFINE H == Token(r, HEAD, 0, SectWords, Pad)
           IsUpTo(u, n) == u = [i \in 0 .. n |-> IF i = 0 THEN H ELSE u[i - 1] \o Announced(r, i)]
           S == {n \in Nat : \E u : IsUpTo(u, n)}
<1>1. 0 \in S
  <2> DEFINE u == [i \in 0 .. 0 |-> H]
  <2>1. IsUpTo(u, 0)
    OBVIOUS
  <2> QED
    BY <2>1
<1>2. ASSUME NEW n \in S PROVE n + 1 \in S
  <2>1. PICK u : IsUpTo(u, n)
    BY <1>2
  <2> DEFINE w == [i \in 0 .. n + 1 |-> IF i = n + 1 THEN u[n] \o Announced(r, n + 1) ELSE u[i]]
  <2>2. n \in Nat
    BY <1>2
  <2>3. \A i \in 0 .. n : w[i] = u[i]
    BY <2>2
  <2>4. \A i \in 0 .. n : u[i] = IF i = 0 THEN H ELSE u[i - 1] \o Announced(r, i)
    <3> HIDE DEF H
    <3> QED BY <2>1
  <2>5. ASSUME NEW i \in 0 .. n + 1
        PROVE  w[i] = IF i = 0 THEN H ELSE w[i - 1] \o Announced(r, i)
    <3> HIDE DEF H
    <3>1. CASE i = n + 1
      <4>1. i # 0 /\ i - 1 = n
        BY <2>2, <3>1
      <4>3. w[i] = u[n] \o Announced(r, i)
        BY <3>1, Zenon
      <4>2. w[i - 1] = u[n]
        BY <2>2, <2>3, <4>1
      <4> QED BY <4>1, <4>2, <4>3, Zenon
    <3>2. CASE i # n + 1
      <4>1. i \in 0 .. n /\ w[i] = u[i]
        BY <2>2, <3>2
      <4>2. CASE i = 0
        BY <2>4, <4>1, <4>2
      <4>3. CASE i # 0
        <5>1. i - 1 \in 0 .. n
          BY <2>2, <4>1, <4>3
        <5> HIDE DEF w
        <5>2. w[i - 1] = u[i - 1]
          BY <2>3, <5>1
        <5> QED BY <2>4, <4>1, <4>3, <5>2
      <4> QED BY <4>2, <4>3
    <3> QED BY <3>1, <3>2
  <2>6. IsUpTo(w, n + 1)
    <3> DEFINE W == [i \in 0 .. n + 1 |-> IF i = 0 THEN H ELSE w[i - 1] \o Announced(r, i)]
    <3>1. \A i \in 0 .. n + 1 : w[i] = W[i]
      BY <2>5
    <3>2. w = [i \in 0 .. n + 1 |-> w[i]] /\ W = [i \in 0 .. n + 1 |-> W[i]]
      OBVIOUS
    <3> HIDE DEF w, W
    <3>3. w = W
      BY <3>1, <3>2
    <3> QED BY <3>3 DEF W
  <2>7. n + 1 \in Nat
    BY <2>2
  <2> HIDE DEF IsUpTo
  <2> QED
    BY <2>6, <2>7
<1>3. S = Nat
  <2> HIDE DEF IsUpTo
  <2>1. S \in SUBSET Nat
    OBVIOUS
  <2> HIDE DEF S
  <2> QED BY <1>1, <1>2, <2>1, Induction
<1>4. \E u : IsUpTo(u, Len(r.ranges))
  <2> HIDE DEF IsUpTo
  <2> QED BY <1>3, Fields
<1> QED
  BY <1>4, Zenon DEF UpTo

\* The head and its first i ranges, one range after the other.
LEMMA UpToSteps ==
    ASSUME NEW r \in Requests
    PROVE  /\ UpTo(r)[0] = Token(r, HEAD, 0, SectWords, Pad)
           /\ \A i \in 1 .. Len(r.ranges) : UpTo(r)[i] = UpTo(r)[i - 1] \o Announced(r, i)
           /\ \A i \in 0 .. Len(r.ranges) : UpTo(r)[i] \in Seq(Nat)
<1> DEFINE H == Token(r, HEAD, 0, SectWords, Pad)
           n == Len(r.ranges)
           u == UpTo(r)
<1>1. n \in Nat
  BY Fields
<1>2. u = [i \in 0 .. n |-> IF i = 0 THEN H ELSE u[i - 1] \o Announced(r, i)]
  BY UpToDef, Zenon
<1>3. H \in Seq(Nat)
  BY SizesAssumption, Fields DEF Token, HEAD, Pad
<1>4. \A i \in 1 .. n : Announced(r, i) \in Seq(Nat)
  BY AnnouncedSeq, Zenon
<1> HIDE DEF H, u, n
<1>5. u[0] = H /\ \A i \in 1 .. n : u[i] = u[i - 1] \o Announced(r, i)
  <2>1. \A i \in 0 .. n : u[i] = IF i = 0 THEN H ELSE u[i - 1] \o Announced(r, i)
    BY <1>2
  <2>2. 0 \in 0 .. n /\ \A i \in 1 .. n : i \in 0 .. n /\ i # 0
    BY <1>1
  <2> QED BY <2>1, <2>2, Zenon
<1>6. \A i \in 0 .. n : u[i] \in Seq(Nat)
  <2> DEFINE S == {i \in Nat : i <= n => u[i] \in Seq(Nat)}
  <2>1. 0 \in S
    BY <1>3, <1>5
  <2>2. ASSUME NEW i \in S PROVE i + 1 \in S
    <3>1. i \in Nat /\ i + 1 \in Nat /\ (i <= n => u[i] \in Seq(Nat))
      BY <2>2
    <3>2. ASSUME i + 1 <= n PROVE u[i + 1] \in Seq(Nat)
      <4>1. i + 1 \in 1 .. n /\ i <= n /\ (i + 1) - 1 = i
        BY <1>1, <3>1, <3>2
      <4>2. u[i + 1] = u[i] \o Announced(r, i + 1)
        BY <1>5, <4>1
      <4>3. u[i] \in Seq(Nat) /\ Announced(r, i + 1) \in Seq(Nat)
        BY <1>4, <3>1, <4>1
      <4> QED BY <4>2, <4>3, Joined
    <3> QED BY <3>1, <3>2
  <2>3. S = Nat
    <3>1. S \in SUBSET Nat
      OBVIOUS
    <3> HIDE DEF S
    <3> QED BY <2>1, <2>2, <3>1, Induction
  <2> QED BY <1>1, <2>3
<1> QED
  BY <1>5, <1>6 DEF H, u, n

\* What is built first stays a prefix of what is built later.
LEMMA Prefix ==
    ASSUME NEW r \in Requests, NEW i \in 0 .. Len(r.ranges), NEW j \in 0 .. Len(r.ranges), i <= j
    PROVE  /\ Len(UpTo(r)[i]) <= Len(UpTo(r)[j])
           /\ \A k \in 1 .. Len(UpTo(r)[i]) : UpTo(r)[j][k] = UpTo(r)[i][k]
<1> DEFINE n == Len(r.ranges)
           u == UpTo(r)
           Extends(d) == /\ Len(u[i]) <= Len(u[i + d])
                         /\ \A k \in 1 .. Len(u[i]) : u[i + d][k] = u[i][k]
           S == {d \in Nat : i + d <= n => Extends(d)}
<1>1. n \in Nat /\ i \in Nat /\ j \in Nat /\ i <= n /\ j <= n
  BY Fields
<1>2. /\ \A m \in 1 .. n : u[m] = u[m - 1] \o Announced(r, m) /\ Announced(r, m) \in Seq(Nat)
      /\ \A m \in 0 .. n : u[m] \in Seq(Nat)
  BY UpToSteps, AnnouncedSeq, Zenon
<1> HIDE DEF n, u
<1>3. 0 \in S
  <2>1. i + 0 = i /\ u[i] \in Seq(Nat)
    BY <1>1, <1>2
  <2>2. Len(u[i]) \in Nat
    BY <2>1
  <2>3. Len(u[i]) <= Len(u[i])
    BY <2>2
  <2>4. Extends(0)
    BY <2>1, <2>3
  <2> HIDE DEF Extends
  <2> QED BY <2>4
<1>4. ASSUME NEW d \in S PROVE d + 1 \in S
  <2>1. d \in Nat /\ d + 1 \in Nat /\ (i + d <= n => Extends(d))
    BY <1>4
  <2>2. ASSUME i + (d + 1) <= n PROVE Extends(d + 1)
    <3> DEFINE m == i + (d + 1)
    <3>1. m \in 1 .. n /\ m - 1 = i + d /\ i + d \in 0 .. n /\ i + d <= n
      BY <1>1, <2>1, <2>2
    <3>2. /\ Len(u[i]) <= Len(u[i + d])
          /\ \A k \in 1 .. Len(u[i]) : u[i + d][k] = u[i][k]
      BY <2>1, <3>1
    <3>3. u[m] = u[i + d] \o Announced(r, m) /\ u[i + d] \in Seq(Nat) /\ Announced(r, m) \in Seq(Nat)
      BY <1>2, <3>1
    <3>4. Len(u[i]) \in Nat
      BY <1>1, <1>2
    <3> DEFINE a == Announced(r, m)
               v == u[i + d]
               w == u[m]
    <3> HIDE DEF m, a, v, w
    <3>5. /\ Len(w) = Len(v) + Len(a) /\ Len(v) \in Nat /\ Len(a) \in Nat
          /\ \A k \in 1 .. Len(v) : w[k] = v[k]
      <4>1. w = v \o a /\ v \in Seq(Nat) /\ a \in Seq(Nat)
        BY <3>3, Zenon DEF a, v, w
      <4> QED BY <4>1
    <3>7. Len(u[i]) <= Len(v) /\ \A k \in 1 .. Len(u[i]) : v[k] = u[i][k]
      BY <3>2 DEF v
    <3>6. Len(u[i]) <= Len(w) /\ \A k \in 1 .. Len(u[i]) : w[k] = u[i][k]
      BY <3>4, <3>5, <3>7
    <3> QED BY <3>6 DEF m, w
  <2> HIDE DEF Extends
  <2> QED BY <2>1, <2>2
<1>5. S = Nat
  <2>1. S \in SUBSET Nat
    OBVIOUS
  <2> HIDE DEF S
  <2> QED BY <1>3, <1>4, <2>1, Induction
<1>6. j - i \in Nat /\ i + (j - i) = j
  BY <1>1
<1>7. Extends(j - i)
  <2> HIDE DEF Extends
  <2> QED BY <1>1, <1>5, <1>6
<1> QED
  BY <1>6, <1>7 DEF u

\* The places of the items in the stream.
LEMMA StreamShape ==
    ASSUME NEW r \in Requests
    PROVE  LET n == Len(r.ranges)
               end == RangeEnd[r]
           IN  /\ Stream[r] \in Seq(Nat) /\ Len(Stream[r]) = end[n] + 5
               /\ end[0] = 5
               /\ \A i \in 0 .. n : end[i] \in Nat
               /\ \A i \in 1 .. n : end[i] = end[i - 1] + 5 + Len(r.ranges[i].data)
               /\ \A i, j \in 0 .. n : i <= j => end[i] <= end[j]
<1> DEFINE n == Len(r.ranges)
           end == RangeEnd[r]
           u == UpTo(r)
           T == Token(r, TAIL, n + 1, Pad, Pad)
<1>1. n \in Nat
  BY Fields
<1>2. \A i \in 0 .. n : end[i] = Len(u[i])
  BY Zenon DEF RangeEnd
<1>3. Stream[r] = u[n] \o T
  BY Zenon DEF Stream
<1>4. T \in Seq(Nat) /\ Len(T) = 5
  BY <1>1, Fields DEF Token, TAIL, Pad
<1>5. u[0] \in Seq(Nat) /\ Len(u[0]) = 5
  <2>1. u[0] = Token(r, HEAD, 0, SectWords, Pad)
    BY UpToSteps, Zenon
  <2>2. Token(r, HEAD, 0, SectWords, Pad) \in Seq(Nat) /\ Len(Token(r, HEAD, 0, SectWords, Pad)) = 5
    BY SizesAssumption, Fields DEF Token, HEAD, Pad
  <2> QED BY <2>1, <2>2
<1>6. \A i \in 0 .. n : u[i] \in Seq(Nat)
  BY UpToSteps, Zenon
<1>7. ASSUME NEW i \in 1 .. n PROVE Len(u[i]) = Len(u[i - 1]) + 5 + Len(r.ranges[i].data)
  <2> DEFINE a == Announced(r, i)
             v == u[i - 1]
  <2>1. u[i] = v \o a
    BY UpToSteps, Zenon
  <2>2. i - 1 \in 0 .. n
    BY <1>1
  <2>3. v \in Seq(Nat)
    BY <1>6, <2>2, Zenon
  <2>4. a \in Seq(Nat) /\ Len(a) = 5 + Len(r.ranges[i].data)
    BY AnnouncedSeq, Zenon
  <2>5. Len(r.ranges[i].data) \in Nat
    BY Fields, Zenon
  <2> HIDE DEF a, v
  <2>6. Len(v \o a) = Len(v) + Len(a) /\ Len(v) \in Nat
    BY <2>3, <2>4, Joined, Zenon
  <2>7. \A x, y \in Nat : x + (5 + y) = x + 5 + y
    OBVIOUS
  <2> QED BY <2>1, <2>4, <2>5, <2>6, <2>7, Zenon DEF v
<1>8. \A i, j \in 0 .. n : i <= j => Len(u[i]) <= Len(u[j])
  BY Prefix, Zenon
<1> HIDE DEF n, end, u, T
<1>9. Stream[r] \in Seq(Nat) /\ Len(Stream[r]) = end[n] + 5
  <2>1. n \in 0 .. n
    BY <1>1
  <2>2. u[n] \in Seq(Nat) /\ end[n] = Len(u[n])
    BY <1>2, <1>6, <2>1
  <2> DEFINE v == u[n]
  <2> HIDE DEF v
  <2>3. v \o T \in Seq(Nat) /\ Len(v \o T) = Len(v) + 5
    <3>1. v \in Seq(Nat)
      BY <2>2 DEF v
    <3>2. v \o T \in Seq(Nat) /\ Len(v \o T) = Len(v) + Len(T)
      BY <1>4, <3>1, Joined, Zenon
    <3> QED BY <1>4, <3>2, Zenon
  <2> QED BY <1>3, <2>2, <2>3, Zenon DEF v
<1>10. end[0] = 5
  <2>1. 0 \in 0 .. n
    BY <1>1
  <2> QED BY <1>2, <1>5, <2>1, Zenon
<1>11. \A i \in 0 .. n : end[i] \in Nat
  BY <1>2, <1>6
<1>12. \A i \in 1 .. n : end[i] = end[i - 1] + 5 + Len(r.ranges[i].data)
  <2> TAKE i \in 1 .. n
  <2>1. i \in 0 .. n /\ i - 1 \in 0 .. n
    BY <1>1
  <2>2. end[i] = Len(u[i]) /\ end[i - 1] = Len(u[i - 1])
    BY <1>2, <2>1
  <2> QED BY <1>7, <2>2
<1>13. \A i, j \in 0 .. n : i <= j => end[i] <= end[j]
  BY <1>2, <1>8
<1> QED
  BY <1>9, <1>10, <1>11, <1>12, <1>13 DEF n, end

\* The words of the items.
LEMMA StreamWords ==
    ASSUME NEW r \in Requests
    PROVE  LET n == Len(r.ranges)
               end == RangeEnd[r]
               s == Stream[r]
           IN  /\ s[1] = HEAD /\ s[2] = 0 /\ s[3] = r.part
               /\ \A i \in 1 .. n :
                    /\ s[end[i - 1] + 1] = BODY /\ s[end[i - 1] + 2] = i
                    /\ s[end[i - 1] + 4] = r.ranges[i].start /\ s[end[i - 1] + 5] = r.ranges[i].count
                    /\ \A k \in 1 .. Len(r.ranges[i].data) :
                         s[end[i - 1] + 5 + k] = r.ranges[i].data[k]
               /\ s[end[n] + 1] = TAIL /\ s[end[n] + 2] = n + 1
<1> DEFINE n == Len(r.ranges)
           end == RangeEnd[r]
           s == Stream[r]
           u == UpTo(r)
           T == Token(r, TAIL, n + 1, Pad, Pad)
<1>1. n \in Nat
  BY Fields
<1>2. \A i \in 0 .. n : end[i] = Len(u[i])
  BY Zenon DEF RangeEnd
<1>3. s = u[n] \o T
  BY Zenon DEF Stream
<1>4. T \in Seq(Nat) /\ Len(T) = 5 /\ T[1] = TAIL /\ T[2] = n + 1
  BY <1>1, Fields DEF Token, TAIL, Pad
<1>5. \A i \in 0 .. n : u[i] \in Seq(Nat)
  BY UpToSteps, Zenon
<1>6. n \in 0 .. n /\ u[n] \in Seq(Nat) /\ end[n] = Len(u[n]) /\ Len(u[n]) \in Nat
  <2> HIDE DEF n, u, end
  <2>1. n \in 0 .. n
    BY <1>1
  <2>2. u[n] \in Seq(Nat) /\ end[n] = Len(u[n])
    BY <1>2, <1>5, <2>1, Zenon
  <2> QED BY <2>1, <2>2
<1>7. /\ \A k \in 1 .. end[n] : s[k] = u[n][k]
      /\ \A k \in 1 .. 5 : s[end[n] + k] = T[k]
  <2> DEFINE v == u[n]
  <2> HIDE DEF v, T, n, end, s
  <2>1. s = v \o T /\ v \in Seq(Nat) /\ end[n] = Len(v)
    BY <1>3, <1>6 DEF v
  <2>2. (\A k \in 1 .. Len(v) : s[k] = v[k]) /\ \A k \in 1 .. 5 : s[Len(v) + k] = T[k]
    BY <1>4, <2>1, Joined, ZenonT(40)
  <2> QED BY <2>1, <2>2 DEF v
<1>8. ASSUME NEW i \in 0 .. n PROVE \A k \in 1 .. Len(u[i]) : s[k] = u[i][k]
  <2>1. i <= n
    BY <1>1
  <2>2. Len(u[i]) <= Len(u[n]) /\ \A k \in 1 .. Len(u[i]) : u[n][k] = u[i][k]
    BY <1>6, <2>1, Prefix, Zenon
  <2> HIDE DEF u, n, s, end
  <2>3. Len(u[i]) \in Nat
    BY <1>5, Member, Zenon
  <2>4. \A k \in 1 .. Len(u[i]) : k \in 1 .. end[n]
    BY <1>6, <2>2, <2>3
  <2> QED BY <1>7, <2>2, <2>4, Zenon
<1>9. s[1] = HEAD /\ s[2] = 0 /\ s[3] = r.part
  <2> DEFINE H == Token(r, HEAD, 0, SectWords, Pad)
  <2>1. u[0] = H
    BY UpToSteps, Zenon
  <2>2. Len(H) = 5 /\ H[1] = HEAD /\ H[2] = 0 /\ H[3] = r.part
    BY SizesAssumption, Fields DEF Token, HEAD, Pad
  <2> HIDE DEF H, u, s, n
  <2>3. \A k \in 1 .. 5 : s[k] = H[k]
    <3>1. 0 \in 0 .. n
      BY <1>1
    <3> QED BY <1>8, <2>1, <2>2, <3>1, Zenon
  <2> QED BY <2>2, <2>3
<1>10. ASSUME NEW i \in 1 .. n
       PROVE  /\ s[end[i - 1] + 1] = BODY /\ s[end[i - 1] + 2] = i
              /\ s[end[i - 1] + 4] = r.ranges[i].start /\ s[end[i - 1] + 5] = r.ranges[i].count
              /\ \A k \in 1 .. Len(r.ranges[i].data) : s[end[i - 1] + 5 + k] = r.ranges[i].data[k]
  <2> DEFINE a == Announced(r, i)
             v == u[i - 1]
             w == u[i]
             e == end[i - 1]
             d == r.ranges[i].data
  <2>1. i \in 0 .. n /\ i - 1 \in 0 .. n
    BY <1>1
  <2>2. v \in Seq(Nat) /\ e = Len(v)
    BY <1>2, <1>5, <2>1, Zenon
  <2>3. w = v \o a
    BY UpToSteps, Zenon
  <2>4. /\ a \in Seq(Nat) /\ Len(a) = 5 + Len(d)
        /\ a[1] = BODY /\ a[2] = i
        /\ a[4] = r.ranges[i].start /\ a[5] = r.ranges[i].count
        /\ \A k \in 1 .. Len(d) : a[5 + k] = d[k]
    BY AnnouncedSeq, ZenonT(40)
  <2>5. Len(d) \in Nat
    BY Fields, Zenon
  <2>6. \A k \in 1 .. Len(w) : s[k] = w[k]
    BY <1>8, <2>1, Zenon
  <2> HIDE DEF a, v, w, e, d, s, end, n
  <2>7. \A k \in 1 .. Len(a) : s[e + k] = a[k]
    <3>1. /\ Len(w) = Len(v) + Len(a) /\ Len(v) \in Nat /\ Len(a) \in Nat
          /\ \A k \in 1 .. Len(a) : w[Len(v) + k] = a[k]
      BY <2>2, <2>3, <2>4, Joined, Zenon
    <3>2. \A k \in 1 .. Len(a) : Len(v) + k \in 1 .. Len(w)
      BY <3>1
    <3> QED BY <2>2, <2>6, <3>1, <3>2, Zenon
  <2>8. s[e + 1] = a[1] /\ s[e + 2] = a[2] /\ s[e + 4] = a[4] /\ s[e + 5] = a[5]
    BY <2>4, <2>5, <2>7
  <2>9. \A k \in 1 .. Len(d) : s[e + 5 + k] = d[k]
    <3> TAKE k \in 1 .. Len(d)
    <3>1. 5 + k \in 1 .. Len(a) /\ e + (5 + k) = e + 5 + k
      BY <2>2, <2>4, <2>5
    <3> QED BY <2>4, <2>7, <3>1
  <2> QED BY <2>4, <2>8, <2>9 DEF e, d
<1>11. s[end[n] + 1] = TAIL /\ s[end[n] + 2] = n + 1
  <2> HIDE DEF s, n, end, T
  <2> QED BY <1>4, <1>7
<1> QED
  BY <1>9, <1>10, <1>11

\* A packet that does not end inside a token: a token that begins in it is whole.
LEMMA TokensWhole ==
    ASSUME NEW r \in Requests, NEW m \in 1 .. Len(Stream[r]), CutKind[r][m] # "token"
    PROVE  m >= 5 /\ \A i \in 0 .. Len(r.ranges) : m <= RangeEnd[r][i] \/ m >= RangeEnd[r][i] + 5
<1> DEFINE n == Len(r.ranges)
           end == RangeEnd[r]
<1>1. n \in Nat
  BY Fields
<1>2. /\ Len(Stream[r]) = end[n] + 5 /\ end[0] = 5
      /\ \A i \in 0 .. n : end[i] \in Nat
      /\ \A i \in 1 .. n : end[i] = end[i - 1] + 5 + Len(r.ranges[i].data)
      /\ \A i, j \in 0 .. n : i <= j => end[i] <= end[j]
  BY StreamShape, Zenon
<1>3. \/ \E i \in 1 .. n : end[i - 1] + 5 < m /\ m < end[i]
      \/ \E i \in 0 .. n : m = end[i]
      \/ m = Len(Stream[r])
      \/ \E i \in 1 .. n : m = end[i - 1] + 5
  <2>1. CutKind[r][m] = IF \E i \in 1 .. n : DataStart(r, i) < m /\ m < end[i] THEN "data"
                        ELSE IF \/ m \in {end[i] : i \in 0 .. n} \cup {Len(Stream[r])}
                                \/ \E i \in 1 .. n : m = DataStart(r, i) THEN "item"
                        ELSE "token"
    BY Zenon DEF CutKind
  <2>2. \A i \in 1 .. n : DataStart(r, i) = end[i - 1] + 5
    BY DEF DataStart, TokenWords
  <2> HIDE DEF n, end
  <2>3. \/ \E i \in 1 .. n : DataStart(r, i) < m /\ m < end[i]
        \/ m \in {end[i] : i \in 0 .. n} \cup {Len(Stream[r])}
        \/ \E i \in 1 .. n : m = DataStart(r, i)
    BY <2>1
  <2> QED BY <2>2, <2>3
<1>4. \A i \in 1 .. n : Len(r.ranges[i].data) \in Nat
  BY Fields, Zenon
<1> HIDE DEF n, end
<1>5. ASSUME NEW i \in 0 .. n PROVE end[i] >= 5 /\ end[i] + 5 <= end[n] + 5
  BY <1>1, <1>2
<1>6. ASSUME NEW i \in 0 .. n, NEW j \in 1 .. n, end[j - 1] + 5 <= m, m <= end[j]
      PROVE  m <= end[i] \/ m >= end[i] + 5
  <2>1. CASE j <= i
    BY <1>1, <1>2, <1>6, <2>1, SMTT(30)
  <2>2. CASE i <= j - 1
    <3>1. end[i] <= end[j - 1] /\ end[i] \in Nat /\ end[j - 1] \in Nat
      BY <1>1, <1>2, <2>2
    <3> QED BY <1>6, <3>1
  <2> QED BY <1>1, <2>1, <2>2
<1>7. CASE \E i \in 1 .. n : end[i - 1] + 5 <= m /\ m <= end[i]
  <2>1. PICK j \in 1 .. n : end[j - 1] + 5 <= m /\ m <= end[j]
    BY <1>7
  <2>2. end[j - 1] >= 5 /\ end[j - 1] \in Nat
    <3>1. j - 1 \in 0 .. n
      BY <1>1
    <3> QED BY <1>2, <1>5, <3>1
  <2> QED BY <1>6, <2>1, <2>2 DEF n, end
<1>8. CASE \E i \in 0 .. n : m = end[i]
  <2>1. PICK j \in 0 .. n : m = end[j]
    BY <1>8
  <2>2. ASSUME NEW i \in 0 .. n PROVE m <= end[i] \/ m >= end[i] + 5
    <3>1. CASE j <= i
      BY <1>2, <2>1, <3>1
    <3>2. CASE i < j
      <4>1. j \in 1 .. n /\ j - 1 \in 0 .. n /\ i <= j - 1
        BY <1>1, <3>2
      <4>2. end[j] = end[j - 1] + 5 + Len(r.ranges[j].data) /\ Len(r.ranges[j].data) \in Nat
        BY <1>2, <1>4, <4>1
      <4>3. end[i] <= end[j - 1] /\ end[i] \in Nat /\ end[j - 1] \in Nat
        BY <1>2, <4>1
      <4>4. \A x, y, z \in Nat : x <= y => y + 5 + z >= x + 5
        OBVIOUS
      <4>5. end[j] >= end[i] + 5
        BY <4>2, <4>3, <4>4, Zenon
      <4> QED BY <2>1, <4>5
    <3> QED BY <1>1, <3>1, <3>2
  <2> QED BY <1>5, <2>1, <2>2 DEF n, end
<1>9. CASE m = Len(Stream[r])
  <2>1. end[n] \in Nat /\ \A i \in 0 .. n : end[i] \in Nat
    BY <1>1, <1>2
  <2> QED BY <1>1, <1>2, <1>5, <1>9, <2>1 DEF n, end
<1>10. CASE \E i \in 1 .. n : m = end[i - 1] + 5
  <2>1. PICK j \in 1 .. n : m = end[j - 1] + 5
    BY <1>10
  <2>2. /\ end[j] = end[j - 1] + 5 + Len(r.ranges[j].data) /\ Len(r.ranges[j].data) \in Nat
        /\ end[j - 1] \in Nat
    <3>1. j - 1 \in 0 .. n
      BY <1>1
    <3> QED BY <1>2, <1>4, <3>1
  <2> QED BY <1>7, <2>1, <2>2, SMTT(30)
<1>11. CASE \E i \in 1 .. n : end[i - 1] + 5 < m /\ m < end[i]
  <2>1. PICK j \in 1 .. n : end[j - 1] + 5 < m /\ m < end[j]
    BY <1>11
  <2>2. end[j - 1] \in Nat /\ end[j] \in Nat
    <3>1. j - 1 \in 0 .. n /\ j \in 0 .. n
      BY <1>1
    <3> QED BY <1>2, <3>1
  <2>3. m \in Nat
    OBVIOUS
  <2> QED BY <1>7, <2>1, <2>2, <2>3
<1> QED
  BY <1>3, <1>8, <1>9, <1>10, <1>11

-----------------------------------------------------------------------------
(* Types                                                                   *)

Packets == {None} \cup [grp : 0 .. MaxGroup, sub : Nat, words : Seq(Nat)]

CpType ==
    /\ reqOf \in Seq(Requests) /\ Len(reqOf) <= MaxGroup + 1
    /\ sent \in Nat /\ nextSub \in Nat
    /\ lastSent \in Packets /\ wire \in Packets

DaemonType ==
    /\ packet \in Packets
    /\ rsp \in [grp : -1 .. MaxGroup, sub : Nat, val : {-1, 0, 1}]
    /\ idxGrp \in -1 .. MaxGroup /\ idxSub \in Nat
    /\ buf \in Seq(Nat) /\ (buf # <<>> => syncBusy)
    /\ syncBusy => idxGrp >= 0

ParserType ==
    /\ syncState \in 0 .. 2 /\ syncBusy \in BOOLEAN /\ syncReqFrame \in Nat
    /\ syncState # 0 => syncBusy /\ part \in PartIds
    /\ start \in Nat /\ len \in Nat

StagesType ==
    /\ chan \in [PartIds -> [Words -> Nat]]
    /\ bak \in [PartIds -> [Words -> Nat]]
    /\ done \subseteq 0 .. MaxGroup

TypeInv == CpType /\ DaemonType /\ ParserType /\ StagesType

\* A piece of a sequence.
LEMMA Piece ==
    ASSUME NEW s \in Seq(Nat), NEW a \in Nat, NEW b \in Nat, a + b <= Len(s)
    PROVE  /\ SubSeq(s, a + 1, a + b) \in Seq(Nat) /\ Len(SubSeq(s, a + 1, a + b)) = b
           /\ \A k \in 1 .. b : SubSeq(s, a + 1, a + b)[k] = s[a + k]
OBVIOUS

\* What is left of the packet after n words.
LEMMA Rest ==
    ASSUME buf \in Seq(Nat), NEW n \in 0 .. Len(buf)
    PROVE  /\ RestOf(n) \in Seq(Nat) /\ Len(RestOf(n)) = Len(buf) - n
           /\ \A k \in 1 .. Len(buf) - n : RestOf(n)[k] = buf[n + k]
<1> DEFINE m == Len(buf) - n
<1>1. m \in Nat /\ n \in Nat /\ n + m = Len(buf) /\ n + m <= Len(buf)
  OBVIOUS
<1> HIDE DEF m
<1>2. /\ SubSeq(buf, n + 1, n + m) \in Seq(Nat) /\ Len(SubSeq(buf, n + 1, n + m)) = m
      /\ \A k \in 1 .. m : SubSeq(buf, n + 1, n + m)[k] = buf[n + k]
  BY <1>1, Piece, Zenon
<1>3. RestOf(n) = SubSeq(buf, n + 1, n + m)
  BY <1>1 DEF RestOf
<1> QED
  BY <1>2, <1>3, Zenon DEF m

\* The lesser of two numbers.
LEMMA MinOfTwo ==
    ASSUME NEW x \in Nat, NEW y \in Nat
    PROVE  Min({x, y}) = IF x <= y THEN x ELSE y
BY DEF Min

\* The current request of the CP.
LEMMA CurrentRequest ==
    ASSUME CpType, grp >= 0
    PROVE  grp \in 0 .. MaxGroup /\ reqOf[grp + 1] \in Requests
BY SizesAssumption DEF CpType, grp

\* The response to the packet read last.
LEMMA ResponseType ==
    ASSUME packet \in Packets, NEW v \in {0, 1}, Response(v)
    PROVE  rsp' \in [grp : -1 .. MaxGroup, sub : Nat, val : {-1, 0, 1}]
<1>1. packet.grp \in -1 .. MaxGroup /\ packet.sub \in Nat
  BY SizesAssumption DEF Packets, None
<1> QED
  BY <1>1 DEF Response

\* A given up request leaves well-formed stages.
LEMMA RestoreType ==
    ASSUME ParserType, StagesType, RestoreOnFail
    PROVE  chan' \in [PartIds -> [Words -> Nat]]
BY DEF ParserType, StagesType, RestoreOnFail

\* The daemon starts with empty packets and all stages equal.
LEMMA TypeInitial == Init => TypeInv
<1> SUFFICES ASSUME Init PROVE TypeInv
  OBVIOUS
<1> USE SizesAssumption DEF Init
<1>1. CpType
  BY DEF CpType, Packets
<1>2. DaemonType
  BY DEF DaemonType, Packets, SyncIdle
<1>3. ParserType
  <2>1. /\ syncState = 0 /\ syncReqFrame = 0 /\ start = 0 /\ len = 0
        /\ syncBusy = FALSE
    BY Zenon DEF SyncIdle
  <2>2. syncBusy \in BOOLEAN
    BY <2>1, Zenon
  <2>3. syncState \in 0 .. 2 /\ syncReqFrame \in Nat /\ start \in Nat /\ len \in Nat
    BY <2>1
  <2> QED
    BY <2>1, <2>2, <2>3, Zenon DEF ParserType
<1>4. StagesType
  BY DEF StagesType
<1> QED
  BY <1>1, <1>2, <1>3, <1>4 DEF TypeInv

\* A packet is taken, whatever its numbers.
LEMMA TypeTake ==
    ASSUME TypeInv, NEW p \in Packets, p # None, Take(p), UNCHANGED cp,
           wire' \in Packets
    PROVE  TypeInv'
<1> USE SizesAssumption
<1>1. p.grp \in 0 .. MaxGroup /\ p.sub \in Nat /\ p.words \in Seq(Nat)
  BY DEF Packets
<1>2. packet' = p
  BY DEF Take
<1>3. CpType'
  BY DEF TypeInv, CpType, cp
<1>4. CASE Classify(p) = "skip"
  <2>1. UNCHANGED <<rsp, idxGrp, idxSub, buf, sync, stages>>
    BY <1>4 DEF Take
  <2> QED
    BY <1>2, <1>3, <2>1 DEF TypeInv, DaemonType, ParserType, StagesType, sync, stages
<1>5. CASE Classify(p) = "continue" /\ ~syncBusy
  <2>1. idxSub' = idxSub + 1 /\ Refuse(p) /\ UNCHANGED <<idxGrp, buf, sync, stages>>
    BY <1>5 DEF Take
  <2>2. rsp' \in [grp : -1 .. MaxGroup, sub : Nat, val : {-1, 0, 1}]
    BY <1>1, <2>1 DEF Refuse
  <2> QED
    BY <1>2, <1>3, <2>1, <2>2 DEF TypeInv, DaemonType, ParserType, StagesType, sync, stages
<1>6. CASE Classify(p) = "continue" /\ syncBusy
  <2>1. idxSub' = idxSub + 1 /\ buf' = p.words /\ UNCHANGED <<rsp, idxGrp, sync, stages>>
    BY <1>6 DEF Take
  <2> QED
    BY <1>1, <1>2, <1>3, <1>6, <2>1 DEF TypeInv, DaemonType, ParserType, StagesType, sync, stages
<1>7. CASE Classify(p) = "start"
  <2>1. /\ idxGrp' = p.grp /\ idxSub' = 0 /\ buf' = p.words /\ syncBusy' = TRUE
        /\ UNCHANGED <<rsp, bak, done>>
        /\ IF syncBusy
             THEN /\ RestoreOnFail /\ syncState' = 0 /\ syncReqFrame' = 0
                  /\ part' = -1 /\ start' = 0 /\ len' = 0
             ELSE UNCHANGED <<chan, syncState, syncReqFrame, part, start, len>>
    BY <1>7 DEF Take
  <2>2. DaemonType'
    BY <1>1, <1>2, <2>1 DEF TypeInv, DaemonType
  <2>3. ParserType'
    BY <2>1 DEF TypeInv, ParserType
  <2>4. StagesType'
    BY <2>1, RestoreType DEF TypeInv, StagesType
  <2> QED
    BY <1>3, <2>2, <2>3, <2>4 DEF TypeInv
<1> QED
  BY <1>4, <1>5, <1>6, <1>7 DEF Classify

\* Every step keeps the types.
LEMMA TypeStep == TypeInv /\ [Next]_vars => TypeInv'
<1> SUFFICES ASSUME TypeInv, [Next]_vars PROVE TypeInv'
  OBVIOUS
<1>1. CpType /\ DaemonType /\ ParserType /\ StagesType
  BY DEF TypeInv
<1> USE SizesAssumption
<1>2. ASSUME NEW r \in Requests, NewRequest(r) PROVE TypeInv'
  <2>1. CpType'
    BY <1>1, <1>2 DEF NewRequest, CpType, grp
  <2>2. UNCHANGED <<rsp, packet, idxGrp, idxSub, buf, sync, stages>>
    BY <1>2 DEF NewRequest
  <2> QED
    BY <1>1, <2>1, <2>2 DEF TypeInv, DaemonType, ParserType, StagesType, sync, stages
<1>3. ASSUME NEW n \in 1 .. PacketWords, SendNext(n) PROVE TypeInv'
  <2> DEFINE s == Stream[reqOf[grp + 1]]
             w == SubSeq(s, sent + 1, sent + n)
  <2>1. grp \in 0 .. MaxGroup /\ reqOf[grp + 1] \in Requests
    BY <1>1, <1>3, CurrentRequest DEF SendNext
  <2>2. s \in Seq(Nat) /\ Len(s) \in Nat
    <3>1. s \in Seq(Nat)
      BY <2>1, StreamShape, Zenon
    <3> HIDE DEF s
    <3> QED BY <3>1
  <2>3. n <= Len(s) - sent
    BY <1>3 DEF SendNext
  <2>4. sent \in Nat /\ nextSub \in Nat /\ n \in Nat
    BY <1>1 DEF CpType
  <2>5. w \in Seq(Nat)
    <3> HIDE DEF s
    <3> QED BY <2>2, <2>3, <2>4, Piece
  <2>6. wire' = [grp |-> grp, sub |-> nextSub, words |-> w]
    BY <1>3, Zenon DEF SendNext
  <2> HIDE DEF w, s
  <2>7. wire' \in Packets
    <3> DEFINE g == grp
    <3> HIDE DEF g
    <3>1. g \in 0 .. MaxGroup
      BY <2>1 DEF g
    <3>2. wire' = [grp |-> g, sub |-> nextSub, words |-> w]
      BY <2>6 DEF g
    <3> QED BY <2>4, <2>5, <3>1, <3>2 DEF Packets
  <2>8. /\ lastSent' = wire' /\ sent' = sent + n /\ nextSub' = nextSub + 1 /\ reqOf' = reqOf
        /\ UNCHANGED <<rsp, packet, idxGrp, idxSub, buf, sync, stages>>
    BY <1>3, Zenon DEF SendNext
  <2>9. CpType'
    BY <1>1, <2>4, <2>7, <2>8 DEF CpType
  <2> QED
    BY <1>1, <2>8, <2>9 DEF TypeInv, DaemonType, ParserType, StagesType, sync, stages
<1>4. CASE Resend \/ Lose
  <2>1. wire' \in Packets /\ UNCHANGED <<cp, rsp, packet, idxGrp, idxSub, buf, sync, stages>>
    BY <1>1, <1>4 DEF Resend, Lose, CpType, Packets
  <2> QED
    BY <1>1, <2>1 DEF TypeInv, CpType, DaemonType, ParserType, StagesType, cp, sync, stages
<1>5. CASE GetPacket
  <2>1. wire \in Packets /\ wire # None /\ Take(wire) /\ wire' = None /\ UNCHANGED cp
    BY <1>1, <1>5 DEF GetPacket, CpType
  <2> QED BY <2>1, TypeTake DEF Packets
<1>6. CASE ReadError
  <2>1. packet \in Packets /\ packet # None /\ Take(packet) /\ wire' \in Packets /\ UNCHANGED cp
    BY <1>1, <1>6 DEF ReadError, CpType, DaemonType
  <2> QED BY <2>1, TypeTake
<1>7. ASSUME RestoreOnFail, SyncInit, UNCHANGED <<bak, done>>
      PROVE  ParserType' /\ StagesType' /\ syncBusy' = FALSE
  <2>1. StagesType'
    BY <1>1, <1>7, RestoreType DEF StagesType
  <2>2. /\ syncState' = 0 /\ syncReqFrame' = 0 /\ start' = 0 /\ len' = 0 /\ syncBusy' = FALSE
    BY <1>7, Zenon DEF SyncInit
  <2>3. syncBusy' \in BOOLEAN
    BY <2>2, Zenon
  <2>4. syncState' \in 0 .. 2 /\ syncReqFrame' \in Nat /\ start' \in Nat /\ len' \in Nat
    BY <2>2
  <2> QED
    BY <2>1, <2>2, <2>3, <2>4, Zenon DEF ParserType
<1>8. CASE ChannelFails
  <2>1. /\ ParserType' /\ StagesType' /\ syncBusy' = FALSE /\ buf = <<>>
        /\ UNCHANGED <<cp, rsp, buf>> /\ idxGrp' = -1 /\ idxSub' = 0 /\ wire' = None
        /\ packet' \in {packet, None}
    BY <1>7, <1>8, Zenon DEF ChannelFails
  <2> QED
    BY <1>1, <2>1 DEF TypeInv, CpType, DaemonType, cp, Packets
<1>9. ASSUME UNCHANGED <<cp, wire, packet, idxGrp, idxSub>>,
             Fail \/ TokenMissing
      PROVE  TypeInv'
  <2>1. CpType'
    BY <1>1, <1>9 DEF CpType, cp
  <2>2. rsp' \in [grp : -1 .. MaxGroup, sub : Nat, val : {-1, 0, 1}]
    BY <1>1, <1>9, ResponseType DEF Fail, TokenMissing, DaemonType
  <2>3. CASE Fail
    <3>1. ParserType' /\ StagesType' /\ syncBusy' = FALSE
      BY <1>7, <2>3 DEF Fail
    <3> QED BY <1>1, <1>9, <2>1, <2>2, <2>3, <3>1 DEF TypeInv, DaemonType, Fail
  <2>4. CASE TokenMissing
    BY <1>1, <1>9, <2>1, <2>2, <2>4
       DEF TypeInv, DaemonType, ParserType, StagesType, sync, stages, TokenMissing
  <2> QED BY <1>9, <2>3, <2>4
<1>10. ASSUME Len(buf) >= TokenWords
       PROVE  /\ RestOf(TokenWords) \in Seq(Nat)
              /\ buf[2] \in Nat /\ buf[4] * SectWords \in Nat /\ buf[5] * SectWords \in Nat
  <2>1. buf \in Seq(Nat) /\ TokenWords \in 0 .. Len(buf)
    BY <1>1, <1>10 DEF DaemonType, TokenWords
  <2>2. buf[2] \in Nat /\ buf[4] \in Nat /\ buf[5] \in Nat
    BY <1>10, <2>1 DEF TokenWords
  <2>3. \A x, y \in Nat : x * y \in Nat
    OBVIOUS
  <2>4. buf[4] * SectWords \in Nat /\ buf[5] * SectWords \in Nat
    BY <2>2, <2>3
  <2>5. RestOf(TokenWords) \in Seq(Nat)
    BY <2>1, Rest, Zenon
  <2> QED BY <2>2, <2>4, <2>5
<1>11. CASE GetHead
  <2>1. UNCHANGED <<cp, wire, packet, idxGrp, idxSub>>
    BY <1>11 DEF GetHead
  <2>2. CASE Fail \/ TokenMissing
    BY <1>9, <2>1, <2>2
  <2>3. CASE /\ Len(buf) >= TokenWords /\ KnownHead
             /\ syncReqFrame' = buf[2] /\ part' = buf[3] /\ syncState' = 1
             /\ buf' = RestOf(TokenWords)
             /\ UNCHANGED <<rsp, syncBusy, start, len, stages>>
    <3>1. CpType'
      BY <1>1, <2>1 DEF CpType, cp
    <3>3. syncBusy
      BY <1>1, <1>11 DEF DaemonType, GetHead
    <3>2. DaemonType'
      BY <1>1, <1>10, <2>1, <2>3, <3>3 DEF DaemonType
    <3>4. ParserType'
      BY <1>1, <1>10, <2>3, <3>3 DEF ParserType, KnownHead
    <3> QED BY <1>1, <2>3, <3>1, <3>2, <3>4 DEF TypeInv, StagesType, stages
  <2> QED BY <1>11, <2>2, <2>3 DEF GetHead
<1>12. CASE GetBody
  <2>1. UNCHANGED <<cp, wire, packet, idxGrp, idxSub>>
    BY <1>12 DEF GetBody
  <2>2. CASE Fail \/ TokenMissing
    BY <1>9, <2>1, <2>2
  <2>3. CpType'
    BY <1>1, <2>1 DEF CpType, cp
  <2>4. CASE /\ Len(buf) >= TokenWords
             /\ syncReqFrame' = NextFrame /\ start' = buf[4] * SectWords /\ len' = buf[5] * SectWords
             /\ syncState' = 2 /\ buf' = RestOf(TokenWords)
             /\ UNCHANGED <<rsp, syncBusy, part, stages>>
    <3>3. syncState = 1 /\ buf # <<>>
      BY <1>12 DEF GetBody
    <3>2. DaemonType'
      BY <1>1, <1>10, <2>1, <2>4, <3>3 DEF DaemonType
    <3>4. ParserType'
      BY <1>1, <1>10, <2>4, <3>3 DEF ParserType, NextFrame
    <3> QED BY <1>1, <2>3, <2>4, <3>2, <3>4 DEF TypeInv, StagesType, stages
  <2>5. CASE /\ bak' = [bak EXCEPT ![part] = chan[part]] /\ done' = done \cup {idxGrp}
             /\ SyncInit /\ Response(1) /\ buf' = <<>> /\ UNCHANGED chan
    <3>1. syncState = 1 /\ part \in PartIds /\ idxGrp \in 0 .. MaxGroup
      BY <1>1, <1>12 DEF GetBody, ParserType, DaemonType
    <3>2. StagesType'
      BY <1>1, <2>5, <3>1 DEF StagesType
    <3>3. rsp' \in [grp : -1 .. MaxGroup, sub : Nat, val : {-1, 0, 1}]
      BY <1>1, <2>5, ResponseType DEF DaemonType
    <3>4. /\ syncState' = 0 /\ syncReqFrame' = 0 /\ start' = 0 /\ len' = 0 /\ syncBusy' = FALSE
      BY <2>5, Zenon DEF SyncInit
    <3>5. syncBusy' \in BOOLEAN
      BY <3>4, Zenon
    <3>6. syncState' \in 0 .. 2 /\ syncReqFrame' \in Nat /\ start' \in Nat /\ len' \in Nat
      BY <3>4
    <3>7. ParserType'
      BY <3>4, <3>5, <3>6, Zenon DEF ParserType
    <3>8. DaemonType'
      BY <1>1, <2>1, <2>5, <3>3, <3>4 DEF DaemonType
    <3> QED BY <2>3, <3>2, <3>7, <3>8 DEF TypeInv
  <2> QED BY <1>12, <2>2, <2>4, <2>5 DEF GetBody
<1>13. CASE GetData
  <2> DEFINE n == Min({len, Len(buf)})
  <2>1. len \in Nat /\ start \in Nat /\ Len(buf) \in Nat /\ buf \in Seq(Nat)
    BY <1>1 DEF ParserType, DaemonType
  <2>2. n \in 0 .. Len(buf) /\ n <= len
    BY <2>1, MinOfTwo
  <2>3. /\ UNCHANGED <<cp, wire, packet, idxGrp, idxSub, syncBusy, syncReqFrame, part, bak, done>>
        /\ syncState = 2 /\ buf # <<>>
        /\ start' = start + n /\ len' = len - n /\ buf' = RestOf(n)
        /\ chan' = [chan EXCEPT ![part] =
             [a \in Words |-> IF a - start \in 0 .. n - 1 THEN buf[a - start + 1] ELSE @[a]]]
    BY <1>13, Zenon DEF GetData
  <2>4. /\ (syncState' = 1 /\ UNCHANGED rsp) \/ (Response(1) /\ UNCHANGED syncState)
    BY <1>13, Zenon DEF GetData
  <2> HIDE DEF n
  <2>5. part \in PartIds
    BY <1>1, <2>3 DEF ParserType
  <2>6. StagesType'
    <3> DEFINE c == [a \in Words |-> IF a - start \in 0 .. n - 1 THEN buf[a - start + 1]
                                                                 ELSE chan[part][a]]
    <3>1. \A a \in Words : a \in Int /\ (a - start \in 0 .. n - 1 => a - start + 1 \in 1 .. Len(buf))
      BY <2>1, <2>2 DEF Words
    <3>2. chan[part] \in [Words -> Nat]
      BY <1>1, <2>5 DEF StagesType
    <3>3. c \in [Words -> Nat]
      BY <2>1, <3>1, <3>2
    <3>4. chan' = [chan EXCEPT ![part] = c]
      BY <2>3
    <3> HIDE DEF c
    <3> QED BY <1>1, <2>3, <3>3, <3>4 DEF StagesType
  <2>7. rsp' \in [grp : -1 .. MaxGroup, sub : Nat, val : {-1, 0, 1}]
    BY <1>1, <2>4, ResponseType DEF DaemonType
  <2>8. buf' \in Seq(Nat)
    BY <2>1, <2>2, <2>3, Rest
  <2>9. start' \in Nat /\ len' \in Nat
    BY <2>1, <2>2, <2>3
  <2>10. CpType'
    BY <1>1, <2>3 DEF CpType, cp
  <2>11. DaemonType'
    BY <1>1, <2>3, <2>7, <2>8 DEF DaemonType
  <2>12. syncState' \in 1 .. 2
    BY <2>3, <2>4
  <2>13. ParserType'
    BY <1>1, <2>3, <2>5, <2>9, <2>12 DEF ParserType
  <2> QED BY <2>6, <2>10, <2>11, <2>13 DEF TypeInv
<1>14. CASE UNCHANGED vars
  BY <1>1, <1>14 DEF TypeInv, CpType, DaemonType, ParserType, StagesType, vars, cp, sync, stages
<1> QED
  BY <1>2, <1>3, <1>4, <1>5, <1>6, <1>8, <1>11, <1>12, <1>13, <1>14 DEF Next, Cp

\* The variables of the protocol keep their types whatever the CP sends and wherever it
\* cuts its packets: in particular the parser writes only inside a known partition.
THEOREM TypeCorrect == Spec => []TypeOK
<1>1. TypeInv => TypeOK
  <2> SUFFICES ASSUME TypeInv PROVE TypeOK
    OBVIOUS
  <2>1. wire.sub \in Nat /\ wire.words \in Seq(Nat)
    <3>1. \A p \in [grp : 0 .. MaxGroup, sub : Nat, words : Seq(Nat)] : p.sub \in Nat /\ p.words \in Seq(Nat)
      BY Zenon
    <3>2. None.sub \in Nat /\ None.words \in Seq(Nat)
      BY DEF None
    <3> QED BY <3>1, <3>2, Zenon DEF TypeInv, CpType, Packets
  <2> QED
    BY <2>1 DEF TypeInv, DaemonType, ParserType, StagesType, TypeOK
<1> QED
  BY <1>1, TypeInitial, TypeStep, PTL DEF Spec

-----------------------------------------------------------------------------
(* Between requests                                                        *)

\* Taking a packet commits nothing.
LEMMA TakeKeepsBackup ==
    ASSUME NEW p, Take(p)
    PROVE  bak' = bak /\ done' = done
<1>1. CASE Classify(p) = "skip"
  BY <1>1 DEF Take, stages
<1>2. CASE Classify(p) = "continue" /\ ~syncBusy
  BY <1>2 DEF Take, stages
<1>3. CASE Classify(p) = "continue" /\ syncBusy
  BY <1>3 DEF Take, stages
<1>4. CASE Classify(p) = "start"
  BY <1>4 DEF Take
<1> QED
  BY <1>1, <1>2, <1>3, <1>4 DEF Classify

\* fromChannel and backup differ at most in the partition of the request in progress.
OnlyPart == \A p \in PartIds : syncState = 0 \/ p # part => chan[p] = bak[p]

\* _syncReset undoes what a request that is given up has written.
LEMMA RestoreEven ==
    ASSUME TypeInv, OnlyPart, RestoreOnFail
    PROVE  \A p \in PartIds : chan'[p] = bak[p]
<1>1. chan \in [PartIds -> [Words -> Nat]]
  BY DEF TypeInv, StagesType
<1>2. CASE syncState = 0
  BY <1>2 DEF OnlyPart, RestoreOnFail
<1>3. CASE syncState # 0
  <2>1. chan' = [chan EXCEPT ![part] = bak[part]] /\ part \in PartIds
    BY <1>3 DEF RestoreOnFail, TypeInv, ParserType
  <2>2. \A p \in PartIds : p # part => chan[p] = bak[p]
    BY DEF OnlyPart
  <2> QED BY <1>1, <2>1, <2>2
<1> QED
  BY <1>2, <1>3

\* Every step keeps the other partitions, and each end of a request makes its own even.
LEMMA OnlyPartStep ==
    ASSUME TypeInv, OnlyPart, [Next]_vars
    PROVE  OnlyPart'
<1>1. /\ chan \in [PartIds -> [Words -> Nat]] /\ bak \in [PartIds -> [Words -> Nat]]
      /\ syncState # 0 => part \in PartIds
  BY DEF TypeInv, StagesType, ParserType
<1>2. ASSUME RestoreOnFail, UNCHANGED bak PROVE OnlyPart'
  BY <1>2, RestoreEven DEF OnlyPart
<1>3. ASSUME UNCHANGED <<syncState, part, chan, bak>> PROVE OnlyPart'
  BY <1>3 DEF OnlyPart
<1>4. CASE Cp \/ Resend \/ Lose
  BY <1>3, <1>4 DEF Cp, NewRequest, SendNext, Resend, Lose, sync, stages
<1>5. ASSUME NEW q, Take(q) PROVE OnlyPart'
  <2>1. bak' = bak
    BY <1>5, TakeKeepsBackup
  <2>2. CASE Classify(q) = "skip"
    BY <1>3, <1>5, <2>2 DEF Take, sync, stages
  <2>3. CASE Classify(q) = "continue" /\ ~syncBusy
    BY <1>3, <1>5, <2>3 DEF Take, sync, stages
  <2>4. CASE Classify(q) = "continue" /\ syncBusy
    BY <1>3, <1>5, <2>4 DEF Take, sync, stages
  <2>5. CASE Classify(q) = "start"
    <3>1. CASE syncBusy
      BY <1>2, <1>5, <2>1, <2>5, <3>1 DEF Take
    <3>2. CASE ~syncBusy
      <4>1. UNCHANGED <<chan, syncState, part>>
        BY <1>5, <2>5, <3>2 DEF Take
      <4> QED BY <1>3, <2>1, <4>1
    <3> QED BY <3>1, <3>2
  <2> QED BY <2>2, <2>3, <2>4, <2>5 DEF Classify
<1>6. CASE GetPacket \/ ReadError
  BY <1>5, <1>6 DEF GetPacket, ReadError
<1>7. CASE ChannelFails
  BY <1>2, <1>7 DEF ChannelFails
<1>8. CASE Fail
  BY <1>2, <1>8 DEF Fail
<1>9. CASE TokenMissing
  BY <1>3, <1>9 DEF TokenMissing, sync, stages
<1>10. CASE GetHead
  <2>1. CASE UNCHANGED stages
    <3>1. chan' = chan /\ bak' = bak /\ syncState = 0
      BY <1>10, <2>1 DEF GetHead, stages
    <3> QED BY <3>1 DEF OnlyPart
  <2> QED BY <1>8, <1>9, <1>10, <2>1, Zenon DEF GetHead
<1>11. CASE GetBody
  <2>1. syncState = 1 /\ part \in PartIds
    BY <1>1, <1>11 DEF GetBody
  <2>2. CASE syncState' = 2 /\ UNCHANGED <<part, stages>>
    BY <2>1, <2>2 DEF OnlyPart, stages
  <2>3. CASE bak' = [bak EXCEPT ![part] = chan[part]] /\ UNCHANGED chan
    <3>1. \A p \in PartIds : p # part => chan[p] = bak[p]
      BY DEF OnlyPart
    <3>2. \A p \in PartIds : chan'[p] = bak'[p]
      BY <1>1, <2>1, <2>3, <3>1
    <3> QED BY <3>2 DEF OnlyPart
  <2> QED BY <1>8, <1>9, <1>11, <2>2, <2>3, Zenon DEF GetBody
<1>12. CASE GetData
  <2> DEFINE n == Min({len, Len(buf)})
             w == [a \in Words |-> IF a - start \in 0 .. n - 1 THEN buf[a - start + 1] ELSE chan[part][a]]
  <2>1. chan' = [chan EXCEPT ![part] = w] /\ UNCHANGED <<part, bak>> /\ syncState = 2
    BY <1>12, Zenon DEF GetData
  <2>2. syncState' # 0
    BY <1>12, <2>1 DEF GetData
  <2> HIDE DEF w
  <2> QED BY <1>1, <2>1, <2>2 DEF OnlyPart
<1>13. CASE UNCHANGED vars
  BY <1>3, <1>13 DEF vars, sync, stages
<1> QED
  BY <1>4, <1>6, <1>7, <1>10, <1>11, <1>12, <1>13 DEF Next

\* Between requests fromChannel is the backup, wherever the CP cuts its packets: what a
\* request that failed or was abandoned has written is undone before the next one.
BetweenRequests == syncState = 0 => chan = bak

\* BetweenRequests always holds, without a hypothesis on the CP.
THEOREM EvenBetweenRequests == Spec => []BetweenRequests
<1>1. Init => OnlyPart
  BY DEF Init, OnlyPart
<1>2. TypeInv /\ OnlyPart => BetweenRequests
  <2> SUFFICES ASSUME TypeInv, OnlyPart, syncState = 0 PROVE chan = bak
    BY DEF BetweenRequests
  <2>1. chan \in [PartIds -> [Words -> Nat]] /\ bak \in [PartIds -> [Words -> Nat]]
    BY DEF TypeInv, StagesType
  <2>2. \A p \in PartIds : chan[p] = bak[p]
    BY DEF OnlyPart
  <2> QED BY <2>1, <2>2
<1>3. TypeInv /\ OnlyPart /\ [Next]_vars => OnlyPart'
  BY OnlyPartStep
<1> QED
  BY <1>1, <1>2, <1>3, TypeInitial, TypeStep, PTL DEF Spec

-----------------------------------------------------------------------------
(* What is written                                                         *)

DataLen(r, i) == Len(r.ranges[i].data)
Base(r, i) == r.ranges[i].start * SectWords

\* Range i has written address a, when the ranges before f and m words of f are written.
Hit(r, f, m, a, i) == \/ i < f /\ a - Base(r, i) \in 0 .. DataLen(r, i) - 1
                      \/ i = f /\ a - Base(r, i) \in 0 .. m - 1

\* v is then the word at address a of a partition that held c before the request.
Latest(r, f, m, c, a, v) ==
    \/ v = c[a] /\ \A i \in 1 .. Len(r.ranges) : ~Hit(r, f, m, a, i)
    \/ \E i \in 1 .. Len(r.ranges) :
         /\ Hit(r, f, m, a, i) /\ v = r.ranges[i].data[a - Base(r, i) + 1]
         /\ \A j \in 1 .. Len(r.ranges) : Hit(r, f, m, a, j) => j <= i

Written(r, f, m, c, d) == \A a \in Words : Latest(r, f, m, c, a, d[a])

\* Where a range begins, and how long it is.
LEMMA RangeFields ==
    ASSUME NEW r \in Requests
    PROVE  /\ Len(r.ranges) \in Nat
           /\ \A i \in 1 .. Len(r.ranges) : Base(r, i) \in Nat /\ DataLen(r, i) \in Nat
<1>1. \A x, y \in Nat : x * y \in Nat
  OBVIOUS
<1>2. SectWords \in Nat
  BY SizesAssumption
<1> QED
  BY <1>1, <1>2, Fields, Zenon DEF Base, DataLen

\* Before the first range nothing is written.
LEMMA WrittenNone ==
    ASSUME NEW r \in Requests, NEW c
    PROVE  Written(r, 1, 0, c, c)
<1>1. ASSUME NEW a \in Words, NEW i \in 1 .. Len(r.ranges) PROVE ~Hit(r, 1, 0, a, i)
  <2>1. i \in Nat /\ i >= 1
    BY RangeFields
  <2>2. ~(i < 1) /\ 0 .. 0 - 1 = {}
    BY <2>1
  <2> QED BY <2>2 DEF Hit
<1> QED
  BY <1>1, Zenon DEF Written, Latest

\* k more words of range f.
LEMMA WrittenMore ==
    ASSUME NEW r \in Requests, NEW f \in 1 .. Len(r.ranges), NEW m \in Nat, NEW k \in Nat,
           m + k <= DataLen(r, f), NEW c, NEW d, Written(r, f, m, c, d),
           NEW b, \A j \in 1 .. k : b[j] = r.ranges[f].data[m + j],
           NEW from, from = Base(r, f) + m,
           NEW w, \A a \in Words : w[a] = IF a - from \in 0 .. k - 1 THEN b[a - from + 1] ELSE d[a]
    PROVE  Written(r, f, m + k, c, w)
<1> DEFINE n == Len(r.ranges)
           data == r.ranges[f].data
<1>1. n \in Nat /\ \A i \in 1 .. n : Base(r, i) \in Nat /\ DataLen(r, i) \in Nat
  BY RangeFields
<1> SUFFICES ASSUME NEW a \in Words PROVE Latest(r, f, m + k, c, a, w[a])
  BY Zenon DEF Written
<1>2. a \in Int
  BY DEF Words
<1>3. w[a] = IF a - from \in 0 .. k - 1 THEN b[a - from + 1] ELSE d[a]
  BY Zenon
<1>4. Latest(r, f, m, c, a, d[a])
  BY Zenon DEF Written
<1>5. f \in 1 .. n /\ f \in Nat /\ Base(r, f) \in Nat
  BY <1>1
<1>6. ASSUME NEW i \in 1 .. n, i # f PROVE Hit(r, f, m + k, a, i) <=> Hit(r, f, m, a, i)
  BY <1>6 DEF Hit
<1>7. CASE a - from \in 0 .. k - 1
  <2>1. a - Base(r, f) \in 0 .. (m + k) - 1
    <3> DEFINE x == Base(r, f)
    <3>1. x \in Nat /\ from = x + m
      BY <1>5
    <3> HIDE DEF x
    <3>2. a - x \in 0 .. (m + k) - 1
      BY <1>2, <1>7, <3>1
    <3> QED BY <3>2 DEF x
  <2>2. Hit(r, f, m + k, a, f)
    BY <2>1 DEF Hit
  <2>3. w[a] = data[a - Base(r, f) + 1]
    <3> DEFINE x == Base(r, f)
               y == a - from + 1
    <3>1. x \in Nat /\ from = x + m
      BY <1>5
    <3>2. y \in 1 .. k /\ m + y = a - x + 1
      <4> HIDE DEF x
      <4>1. from \in Int /\ x \in Int
        BY <3>1
      <4>2. a - from + 1 \in 1 .. k
        BY <1>2, <1>7, <4>1
      <4>3. m + (a - from + 1) = a - x + 1
        BY <1>2, <3>1, <4>1
      <4> QED BY <4>2, <4>3
    <3>3. w[a] = b[y]
      BY <1>3, <1>7, Zenon
    <3> HIDE DEF x, y, data
    <3>4. b[y] = data[m + y]
      BY <3>2, Zenon DEF data
    <3>5. w[a] = data[a - x + 1]
      BY <3>2, <3>3, <3>4, Zenon
    <3> QED BY <3>5 DEF x
  <2>4. ASSUME NEW j \in 1 .. n, Hit(r, f, m + k, a, j) PROVE j <= f
    <3>1. j \in Nat /\ (j < f \/ j = f)
      BY <1>1, <2>4 DEF Hit
    <3> QED BY <1>5, <3>1
  <2> QED BY <1>5, <2>2, <2>3, <2>4, Zenon DEF Latest
<1>8. CASE a - from \notin 0 .. k - 1
  <2>1. w[a] = d[a]
    BY <1>3, <1>8, Zenon
  <2>2. Hit(r, f, m + k, a, f) <=> Hit(r, f, m, a, f)
    <3> DEFINE x == Base(r, f)
    <3>1. x \in Nat /\ from = x + m
      BY <1>5
    <3> HIDE DEF x
    <3>2. a - x \in 0 .. (m + k) - 1 <=> a - x \in 0 .. m - 1
      BY <1>2, <1>8, <3>1
    <3>3. ~(f < f)
      BY <1>5
    <3>4. a - Base(r, f) \in 0 .. (m + k) - 1 <=> a - Base(r, f) \in 0 .. m - 1
      BY <3>2 DEF x
    <3> QED BY <3>3, <3>4, Zenon DEF Hit
  <2>3. \A i \in 1 .. n : Hit(r, f, m + k, a, i) <=> Hit(r, f, m, a, i)
    BY <1>6, <2>2, Zenon
  <2> QED BY <1>4, <2>1, <2>3, Zenon DEF Latest
<1> QED
  BY <1>7, <1>8

\* A whole range is written: the next one begins.
LEMMA WrittenRange ==
    ASSUME NEW r \in Requests, NEW f \in 1 .. Len(r.ranges), NEW c, NEW d,
           Written(r, f, DataLen(r, f), c, d)
    PROVE  Written(r, f + 1, 0, c, d)
<1> DEFINE n == Len(r.ranges)
<1>1. n \in Nat
  BY RangeFields
<1>2. ASSUME NEW a \in Words, NEW i \in 1 .. n
      PROVE  Hit(r, f + 1, 0, a, i) <=> Hit(r, f, DataLen(r, f), a, i)
  <2>1. i \in Nat /\ f \in Nat /\ (i < f + 1 <=> i < f \/ i = f) /\ 0 .. 0 - 1 = {}
    BY <1>1
  <2> QED BY <2>1 DEF Hit
<1>3. ASSUME NEW a \in Words PROVE Latest(r, f + 1, 0, c, a, d[a])
  <2>1. Latest(r, f, DataLen(r, f), c, a, d[a])
    BY Zenon DEF Written
  <2> QED BY <1>2, <2>1, Zenon DEF Latest
<1> QED
  BY <1>3, Zenon DEF Written

\* The greatest element of a set.
LEMMA MaxOf ==
    ASSUME NEW S \in SUBSET Nat, NEW x \in S, \A y \in S : y <= x
    PROVE  Max(S) = x
<1>1. ASSUME NEW z \in S, \A y \in S : y <= z PROVE z = x
  BY <1>1
<1>2. \A y \in S : x >= y
  OBVIOUS
<1>3. PICK z \in S : z = Max(S) /\ \A y \in S : z >= y
  BY <1>2 DEF Max
<1> QED
  BY <1>1, <1>3

\* All ranges are written: the request is applied.
LEMMA WrittenAll ==
    ASSUME NEW r \in Requests, NEW c, NEW d \in [Words -> Nat],
           Written(r, Len(r.ranges) + 1, 0, c, d)
    PROVE  d = Apply(r, c)
<1> DEFINE n == Len(r.ranges)
           hit(a) == {i \in 1 .. n : a - r.ranges[i].start * SectWords \in 0 .. Len(r.ranges[i].data) - 1}
           new == Apply(r, c)
<1>1. n \in Nat
  BY RangeFields
<1>2. ASSUME NEW a \in Words, NEW i \in 1 .. n
      PROVE  i \in hit(a) <=> Hit(r, n + 1, 0, a, i)
  <2>1. i < n + 1 /\ i # n + 1
    BY <1>1
  <2>2. i \in hit(a) <=> a - Base(r, i) \in 0 .. DataLen(r, i) - 1
    BY Zenon DEF Base, DataLen
  <2> HIDE DEF n, hit
  <2> QED BY <2>1, <2>2, Zenon DEF Hit
<1>3. ASSUME NEW a \in Words PROVE d[a] = new[a]
  <2>1. new[a] = IF hit(a) = {} THEN c[a]
                 ELSE r.ranges[Max(hit(a))].data[a - r.ranges[Max(hit(a))].start * SectWords + 1]
    BY Zenon DEF Apply
  <2>2. Latest(r, n + 1, 0, c, a, d[a])
    BY Zenon DEF Written
  <2>3. hit(a) \in SUBSET (1 .. n) /\ hit(a) \in SUBSET Nat
    BY <1>1
  <2> HIDE DEF hit, new
  <2>4. CASE d[a] = c[a] /\ \A i \in 1 .. n : ~Hit(r, n + 1, 0, a, i)
    <3>1. hit(a) = {}
      BY <1>2, <2>3, <2>4, Zenon
    <3> QED BY <2>1, <2>4, <3>1, Zenon
  <2>5. CASE \E i \in 1 .. n :
                /\ Hit(r, n + 1, 0, a, i) /\ d[a] = r.ranges[i].data[a - Base(r, i) + 1]
                /\ \A j \in 1 .. n : Hit(r, n + 1, 0, a, j) => j <= i
    <3>1. PICK i \in 1 .. n :
                /\ Hit(r, n + 1, 0, a, i) /\ d[a] = r.ranges[i].data[a - Base(r, i) + 1]
                /\ \A j \in 1 .. n : Hit(r, n + 1, 0, a, j) => j <= i
      BY <2>5, Zenon
    <3>2. i \in hit(a) /\ \A j \in hit(a) : j <= i
      BY <1>2, <2>3, <3>1, Zenon
    <3>3. Max(hit(a)) = i
      BY <2>3, <3>2, MaxOf, Zenon
    <3>4. hit(a) # {}
      BY <3>2, Zenon
    <3> QED BY <2>1, <3>1, <3>3, <3>4, Zenon DEF Base
  <2> QED BY <2>2, <2>4, <2>5, Zenon DEF Latest
<1>4. new = [a \in Words |-> new[a]] /\ d = [a \in Words |-> d[a]]
  BY Zenon DEF Apply
<1> HIDE DEF new
<1>5. d = new
  BY <1>3, <1>4, Zenon
<1> QED
  BY <1>5 DEF new

-----------------------------------------------------------------------------
(* Where the CP, the daemon and the parser are in the stream.  Where the   *)
(* packets of a group begin is up to the CP: e[g][s] is the number of      *)
(* words of group g before its packet s.                                   *)

\* The CP ends no packet inside a token: the analyzer would drop the words of the token
\* that the packet holds.
NoTokenCut == "token" \notin CutKinds

Layouts == [Nat -> [Nat -> Nat]]

\* No token of the request lies across the end of its first m words.
Whole(r, m) ==
    m >= 5 /\ \A i \in 0 .. Len(r.ranges) : m <= RangeEnd[r][i] \/ m >= RangeEnd[r][i] + 5

\* With the requests rq and ns packets of the last one sent, group g has a packet s.
Numbered(rq, ns, g, s) == g \in 0 .. Len(rq) - 1 /\ (g = Len(rq) - 1 => s < ns)

\* A packet that the CP has sent: its words are those of its place in the stream.
Genuine(e, rq, ns, q) ==
    /\ Numbered(rq, ns, q.grp, q.sub)
    /\ Len(q.words) > 0
    /\ e[q.grp][q.sub + 1] = e[q.grp][q.sub] + Len(q.words)
    /\ e[q.grp][q.sub + 1] <= Len(Stream[rq[q.grp + 1]])
    /\ \A k \in 1 .. Len(q.words) : q.words[k] = Stream[rq[q.grp + 1]][e[q.grp][q.sub] + k]
    /\ Whole(rq[q.grp + 1], e[q.grp][q.sub + 1])

CpInv(e) ==
    /\ \A g \in Nat : e[g][0] = 0
    /\ grp >= 0 => sent = e[grp][nextSub] /\ sent <= Len(Stream[reqOf[grp + 1]])
    /\ wire # None => Genuine(e, reqOf, nextSub, wire)
    /\ packet # None => Genuine(e, reqOf, nextSub, packet)
    /\ lastSent # None => /\ Genuine(e, reqOf, nextSub, lastSent)
                          /\ lastSent.grp = grp => nextSub = lastSent.sub + 1

\* The daemon never runs ahead of the CP, and buf is the rest of the packet it is at.
DaemonInv ==
    /\ idxGrp >= 0 => Numbered(reqOf, nextSub, idxGrp, idxSub)
    /\ buf # <<>> => packet # None /\ packet.grp = idxGrp /\ packet.sub = idxSub

\* The parser has the words b of request r up to its first top words in hand and is at
\* the item that its state names.
ParserAt(r, top, b, state, f, p, from, n) ==
    /\ \A k \in 1 .. Len(b) : b[k] = Stream[r][top - Len(b) + k]
    /\ state = 0 => top - Len(b) = 0 /\ b # <<>>
    /\ state = 1 => f \in 0 .. Len(r.ranges) /\ top - Len(b) = RangeEnd[r][f]
    /\ state = 2 => /\ f \in 1 .. Len(r.ranges)
                    /\ top - Len(b) + n = RangeEnd[r][f]
                    /\ n <= DataLen(r, f) /\ from + n = Base(r, f) + DataLen(r, f)
    /\ state # 0 => p = r.part

Current == reqOf[idxGrp + 1]      \* the request in progress

ParserInv(e) ==
    syncBusy => ParserAt(Current, e[idxGrp][idxSub + 1], buf, syncState, syncReqFrame,
                         part, start, len)

\* fromChannel is the backup with what was consumed of the request applied to it.
StagesInv ==
    /\ syncState = 0 => chan = bak
    /\ syncState # 0 => \A p \in PartIds : p # part => chan[p] = bak[p]
    /\ syncState = 1 => Written(Current, syncReqFrame + 1, 0, bak[part], chan[part])
    /\ syncState = 2 => Written(Current, syncReqFrame, DataLen(Current, syncReqFrame) - len,
                                bak[part], chan[part])

\* A packet with response 1 was not the last of its group, or the group is committed.
RspInv(e) ==
    rsp.val = 1 =>
      /\ Numbered(reqOf, nextSub, rsp.grp, rsp.sub)
      /\ rsp.grp \in done \/ e[rsp.grp][rsp.sub + 1] < Len(Stream[reqOf[rsp.grp + 1]])

Content(e) == CpInv(e) /\ DaemonInv /\ ParserInv(e) /\ StagesInv /\ RspInv(e)

\* A packet stays genuine while its group and its place in the group do not change.
LEMMA GenuineKept ==
    ASSUME NEW e, NEW e2, NEW rq, NEW rq2, NEW ns, NEW ns2, NEW q,
           Genuine(e, rq, ns, q), Numbered(rq2, ns2, q.grp, q.sub),
           rq2[q.grp + 1] = rq[q.grp + 1],
           e2[q.grp][q.sub] = e[q.grp][q.sub], e2[q.grp][q.sub + 1] = e[q.grp][q.sub + 1]
    PROVE  Genuine(e2, rq2, ns2, q)
BY Zenon DEF Genuine

\* The fields of a packet.
LEMMA PacketFields ==
    ASSUME NEW q \in Packets, q # None
    PROVE  q.grp \in 0 .. MaxGroup /\ q.grp \in Nat /\ q.sub \in Nat /\ q.words \in Seq(Nat)
<1>1. q.grp \in 0 .. MaxGroup /\ q.sub \in Nat /\ q.words \in Seq(Nat)
  BY Zenon DEF Packets
<1> QED
  BY <1>1, SizesAssumption

\* A started group keeps its request when a new one begins.
LEMMA Earlier ==
    ASSUME NEW rq \in Seq(Requests), NEW r \in Requests, NEW ns, NEW g, NEW s, Numbered(rq, ns, g, s)
    PROVE  /\ g \in Nat /\ Numbered(Append(rq, r), 0, g, s)
           /\ Append(rq, r)[g + 1] = rq[g + 1] /\ rq[g + 1] \in Requests
<1>1. Len(rq) \in Nat /\ Len(Append(rq, r)) = Len(rq) + 1
  OBVIOUS
<1>2. g \in 0 .. Len(rq) - 1
  BY DEF Numbered
<1>3. g \in Nat /\ g + 1 \in 1 .. Len(rq)
  BY <1>1, <1>2
<1>4. g \in 0 .. (Len(rq) + 1) - 1 /\ g # (Len(rq) + 1) - 1
  BY <1>1, <1>2
<1>5. Append(rq, r)[g + 1] = rq[g + 1] /\ rq[g + 1] \in Requests
  BY <1>3
<1> QED
  BY <1>1, <1>3, <1>4, <1>5 DEF Numbered

\* At the beginning nothing is sent.
LEMMA ContentInitial ==
    ASSUME Init
    PROVE  \E e \in Layouts : Content(e)
<1> DEFINE e == [g \in Nat |-> [s \in Nat |-> 0]]
<1>1. e \in Layouts /\ \A g \in Nat : e[g][0] = 0
  BY DEF Layouts
<1> HIDE DEF e
<1>2. /\ reqOf = <<>> /\ lastSent = None /\ wire = None /\ packet = None /\ idxGrp = -1
      /\ buf = <<>> /\ rsp.val = -1 /\ syncState = 0 /\ syncBusy = FALSE /\ chan = bak
  BY DEF Init, SyncIdle
<1>3. ~(grp >= 0)
  BY <1>2 DEF grp
<1>4. CpInv(e)
  BY <1>1, <1>2, <1>3, Zenon DEF CpInv
<1>5. DaemonInv
  BY <1>2 DEF DaemonInv
<1>6. ParserInv(e)
  BY <1>2, Zenon DEF ParserInv
<1>7. StagesInv
  BY <1>2 DEF StagesInv
<1>8. RspInv(e)
  BY <1>2 DEF RspInv
<1> QED
  BY <1>1, <1>4, <1>5, <1>6, <1>7, <1>8 DEF Content

\* A new request in a new group.
LEMMA ContentNewRequest ==
    ASSUME TypeInv, NEW e \in Layouts, Content(e), NEW r \in Requests, NewRequest(r)
    PROVE  Content(e)'
<1>1. CpInv(e) /\ DaemonInv /\ ParserInv(e) /\ StagesInv /\ RspInv(e)
  BY DEF Content
<1>2. /\ reqOf' = Append(reqOf, r) /\ sent' = 0 /\ nextSub' = 0
      /\ lastSent' = lastSent /\ wire' = wire /\ packet' = packet /\ rsp' = rsp
      /\ idxGrp' = idxGrp /\ idxSub' = idxSub /\ buf' = buf
      /\ syncState' = syncState /\ syncBusy' = syncBusy /\ syncReqFrame' = syncReqFrame
      /\ part' = part /\ start' = start /\ len' = len
      /\ chan' = chan /\ bak' = bak /\ done' = done
  BY Zenon DEF NewRequest, sync, stages
<1>3. reqOf \in Seq(Requests) /\ Len(reqOf) \in Nat /\ Len(reqOf') = Len(reqOf) + 1
      /\ reqOf'[Len(reqOf) + 1] = r
  BY <1>2 DEF TypeInv, CpType
<1>4. ASSUME NEW q \in Packets, q # None, Genuine(e, reqOf, nextSub, q)
      PROVE  Genuine(e, reqOf', nextSub', q) /\ q.grp < Len(reqOf)
  <2>1. Numbered(reqOf, nextSub, q.grp, q.sub)
    BY <1>4, Zenon DEF Genuine
  <2>2. Numbered(reqOf', nextSub', q.grp, q.sub) /\ reqOf'[q.grp + 1] = reqOf[q.grp + 1]
    BY <1>2, <1>3, <2>1, Earlier, Zenon
  <2>3. Genuine(e, reqOf', nextSub', q)
    BY <1>4, <2>2, GenuineKept, Zenon
  <2>4. q.grp < Len(reqOf)
    BY <1>3, <2>1 DEF Numbered
  <2> QED BY <2>3, <2>4
<1>5. CpInv(e)'
  <2>1. wire \in Packets /\ packet \in Packets /\ lastSent \in Packets
    BY DEF TypeInv, CpType, DaemonType
  <2>2. \A g \in Nat : e[g][0] = 0
    BY <1>1 DEF CpInv
  <2>3. grp' = Len(reqOf) /\ Len(reqOf) \in Nat
    BY <1>3 DEF grp
  <2>4. e[grp'][0] = 0
    BY <2>2, <2>3
  <2>5. Stream[r] \in Seq(Nat)
    BY StreamShape, Zenon
  <2>6. 0 <= Len(Stream[r])
    BY <2>5
  <2>7. sent' = e[grp'][nextSub'] /\ sent' <= Len(Stream[reqOf'[grp' + 1]])
    BY <1>2, <1>3, <2>3, <2>4, <2>6, Zenon
  <2>8. wire # None => Genuine(e, reqOf', nextSub', wire)
    BY <1>1, <1>4, <2>1, Zenon DEF CpInv
  <2>9. packet # None => Genuine(e, reqOf', nextSub', packet)
    BY <1>1, <1>4, <2>1, Zenon DEF CpInv
  <2>10. lastSent # None => Genuine(e, reqOf', nextSub', lastSent) /\ lastSent.grp < Len(reqOf)
    BY <1>1, <1>4, <2>1, Zenon DEF CpInv
  <2>11. lastSent # None => lastSent.grp # grp'
    <3>1. lastSent # None => lastSent.grp \in Nat
      BY <2>1, PacketFields, Zenon
    <3> QED BY <2>3, <2>10, <3>1
  <2> QED BY <1>2, <2>2, <2>7, <2>8, <2>9, <2>10, <2>11, Zenon DEF CpInv
<1>6. idxGrp >= 0 => /\ Numbered(reqOf', nextSub', idxGrp, idxSub)
                     /\ reqOf'[idxGrp + 1] = reqOf[idxGrp + 1]
  BY <1>1, <1>2, <1>3, Earlier, Zenon DEF DaemonInv
<1>7. DaemonInv'
  BY <1>1, <1>2, <1>6, Zenon DEF DaemonInv
<1>8. syncBusy => Current' = Current
  <2>1. syncBusy => idxGrp >= 0
    BY DEF TypeInv, DaemonType
  <2> QED BY <1>2, <1>6, <2>1, Zenon DEF Current
<1>9. ParserInv(e)'
  BY <1>1, <1>2, <1>8, Zenon DEF ParserInv
<1>10. StagesInv'
  <2>1. syncState # 0 => Current' = Current
    BY <1>8 DEF TypeInv, ParserType
  <2>2. syncState = 1 \/ syncState = 2 => syncState # 0
    OBVIOUS
  <2> QED BY <1>1, <1>2, <2>1, <2>2, Zenon DEF StagesInv
<1>11. RspInv(e)'
  <2>1. rsp.val = 1 => /\ Numbered(reqOf', nextSub', rsp.grp, rsp.sub)
                       /\ reqOf'[rsp.grp + 1] = reqOf[rsp.grp + 1]
    BY <1>1, <1>2, <1>3, Earlier, Zenon DEF RspInv
  <2> QED BY <1>1, <1>2, <2>1, Zenon DEF RspInv
<1> QED
  BY <1>5, <1>7, <1>9, <1>10, <1>11 DEF Content

\* The next packet of the current group.
LEMMA ContentSendNext ==
    ASSUME NoTokenCut, TypeInv, NEW e \in Layouts, Content(e), NEW n \in 1 .. PacketWords, SendNext(n)
    PROVE  \E e2 \in Layouts : Content(e2)'
<1> DEFINE r == reqOf[grp + 1]
           w == SubSeq(Stream[r], sent + 1, sent + n)
<1>1. CpInv(e) /\ DaemonInv /\ ParserInv(e) /\ StagesInv /\ RspInv(e)
  BY DEF Content
<1>2. /\ grp >= 0 /\ n <= Len(Stream[r]) - sent
      /\ sent + n = Len(Stream[r]) \/ CutKind[r][sent + n] \in CutKinds
      /\ wire' = [grp |-> grp, sub |-> nextSub, words |-> w]
      /\ lastSent' = wire' /\ sent' = sent + n /\ nextSub' = nextSub + 1
      /\ reqOf' = reqOf /\ packet' = packet /\ rsp' = rsp
      /\ idxGrp' = idxGrp /\ idxSub' = idxSub /\ buf' = buf
      /\ syncState' = syncState /\ syncBusy' = syncBusy /\ syncReqFrame' = syncReqFrame
      /\ part' = part /\ start' = start /\ len' = len
      /\ chan' = chan /\ bak' = bak /\ done' = done
  <2>1. CutKinds \ {"item"} \subseteq CutKinds
    OBVIOUS
  <2> QED BY <2>1, Zenon DEF SendNext, sync, stages
<1>3. r \in Requests /\ grp \in Nat /\ grp' = grp /\ grp = Len(reqOf) - 1 /\ Len(reqOf) \in Nat
  <2>1. CpType
    BY DEF TypeInv
  <2>2. grp \in 0 .. MaxGroup /\ r \in Requests
    BY <1>2, <2>1, CurrentRequest
  <2>3. grp \in Nat
    BY <2>2, SizesAssumption
  <2>4. grp' = grp /\ grp = Len(reqOf) - 1
    BY <1>2, Zenon DEF grp
  <2>5. Len(reqOf) \in Nat
    BY <2>1 DEF CpType
  <2> QED BY <2>2, <2>3, <2>4, <2>5
<1>4. sent \in Nat /\ nextSub \in Nat /\ n \in Nat /\ n >= 1
  BY SizesAssumption DEF TypeInv, CpType
<1>5. Stream[r] \in Seq(Nat) /\ Len(Stream[r]) \in Nat
  <2>1. Stream[r] \in Seq(Nat)
    BY <1>3, StreamShape, Zenon
  <2> HIDE DEF r
  <2> QED BY <2>1
<1>6. sent + n <= Len(Stream[r]) /\ sent + n \in 1 .. Len(Stream[r])
  <2> HIDE DEF r
  <2> QED BY <1>2, <1>4, <1>5
<1>7. Whole(r, sent + n)
  <2>1. CASE sent + n = Len(Stream[r])
    <3> DEFINE end == RangeEnd[r]
               m == Len(r.ranges)
    <3>1. /\ Len(Stream[r]) = end[m] + 5 /\ m \in Nat
          /\ \A i \in 0 .. m : end[i] \in Nat
          /\ \A i, j \in 0 .. m : i <= j => end[i] <= end[j]
      BY <1>3, StreamShape, Fields, Zenon
    <3> HIDE DEF end, m, r
    <3>2. m \in 0 .. m /\ \A i \in 0 .. m : i <= m
      BY <3>1
    <3>3. end[m] \in Nat /\ \A i \in 0 .. m : end[i] <= end[m] /\ end[i] \in Nat
      BY <3>1, <3>2, Zenon
    <3>4. \A x, y \in Nat : x <= y => y + 5 >= x + 5
      OBVIOUS
    <3>5. end[m] + 5 >= 5 /\ \A i \in 0 .. m : end[m] + 5 >= end[i] + 5
      BY <3>3, <3>4
    <3> QED BY <2>1, <3>1, <3>5, Zenon DEF Whole, end, m
  <2>2. CASE CutKind[r][sent + n] \in CutKinds
    <3>1. CutKind[r][sent + n] # "token"
      BY <2>2 DEF NoTokenCut
    <3>2. /\ sent + n >= 5
          /\ \A i \in 0 .. Len(r.ranges) : sent + n <= RangeEnd[r][i] \/ sent + n >= RangeEnd[r][i] + 5
      BY <1>3, <1>6, <3>1, TokensWhole, Zenon
    <3> QED BY <3>2, Zenon DEF Whole
  <2> QED BY <1>2, <2>1, <2>2
<1>8. w \in Seq(Nat) /\ Len(w) = n /\ \A k \in 1 .. n : w[k] = Stream[r][sent + k]
  <2> HIDE DEF r
  <2> QED BY <1>4, <1>5, <1>6, Piece
<1> HIDE DEF w, r
<1>9. PICK e2 \in Layouts :
        /\ e2[grp][nextSub + 1] = sent + n
        /\ \A g, i \in Nat : g # grp \/ i # nextSub + 1 => e2[g][i] = e[g][i]
  <2> DEFINE g0 == grp
             i0 == nextSub + 1
             v == sent + n
             d == [e EXCEPT ![g0][i0] = v]
  <2>1. g0 \in Nat
    BY <1>3, Zenon
  <2>2. i0 \in Nat /\ v \in Nat
    BY <1>4
  <2> HIDE DEF g0, i0, v
  <2>3. /\ d \in Layouts /\ d[g0][i0] = v
        /\ \A g, i \in Nat : g # g0 \/ i # i0 => d[g][i] = e[g][i]
    BY <2>1, <2>2 DEF Layouts
  <2> HIDE DEF d
  <2> QED BY <2>3 DEF g0, i0, v
<1>10. ASSUME NEW g, NEW i \in Nat, Numbered(reqOf, nextSub, g, i)
       PROVE  /\ Numbered(reqOf', nextSub', g, i)
              /\ e2[g][i] = e[g][i] /\ e2[g][i + 1] = e[g][i + 1]
  <2>1. g \in Nat /\ (g = grp => i < nextSub)
    BY <1>3, <1>10 DEF Numbered
  <2>2. (g # grp \/ i # nextSub + 1) /\ (g # grp \/ i + 1 # nextSub + 1) /\ i + 1 \in Nat
    BY <1>4, <2>1
  <2>3. e2[g][i] = e[g][i] /\ e2[g][i + 1] = e[g][i + 1]
    BY <1>9, <2>1, <2>2, Zenon
  <2>4. i < nextSub => i < nextSub + 1
    BY <1>4
  <2> QED BY <1>2, <1>10, <2>3, <2>4, Zenon DEF Numbered
<1>11. ASSUME NEW q \in Packets, q # None, Genuine(e, reqOf, nextSub, q)
       PROVE  Genuine(e2, reqOf', nextSub', q)
  <2>1. q.sub \in Nat
    BY <1>11, PacketFields, Zenon
  <2>2. Numbered(reqOf, nextSub, q.grp, q.sub)
    BY <1>11, Zenon DEF Genuine
  <2> QED BY <1>2, <1>10, <1>11, <2>1, <2>2, GenuineKept, Zenon
<1>12. CpInv(e2)'
  <2>1. packet \in Packets
    BY DEF TypeInv, DaemonType
  <2>2. \A g \in Nat : e2[g][0] = 0
    <3>1. \A g \in Nat : e[g][0] = 0
      BY <1>1 DEF CpInv
    <3>2. 0 # nextSub + 1 /\ 0 \in Nat
      BY <1>4
    <3> QED BY <1>9, <3>1, <3>2, Zenon
  <2>3. packet # None => Genuine(e2, reqOf', nextSub', packet)
    BY <1>1, <1>11, <2>1, Zenon DEF CpInv
  <2> DEFINE p == wire'
  <2>4. p.grp = grp /\ p.sub = nextSub /\ p.words = w
    BY <1>2
  <2> HIDE DEF p
  <2>5. sent = e[grp][nextSub]
    BY <1>1, <1>2 DEF CpInv
  <2>6. e2[grp][nextSub] = sent
    <3>1. nextSub # nextSub + 1
      BY <1>4
    <3> QED BY <1>3, <1>4, <1>9, <2>5, <3>1, Zenon
  <2>7. Numbered(reqOf', nextSub', p.grp, p.sub)
    <3>1. grp \in 0 .. Len(reqOf) - 1 /\ nextSub < nextSub + 1
      BY <1>3, <1>4
    <3> QED BY <1>2, <2>4, <3>1, Zenon DEF Numbered
  <2>8. Genuine(e2, reqOf', nextSub', p)
    <3>1. Len(p.words) > 0 /\ Len(p.words) = n
      BY <1>4, <1>8, <2>4
    <3>2. reqOf'[p.grp + 1] = r
      BY <1>2, <2>4, Zenon DEF r
    <3> QED BY <1>6, <1>7, <1>8, <1>9, <2>4, <2>6, <2>7, <3>1, <3>2, Zenon DEF Genuine
  <2>9. sent' = e2[grp'][nextSub'] /\ sent' <= Len(Stream[reqOf'[grp' + 1]])
    BY <1>2, <1>3, <1>6, <1>9, Zenon DEF r
  <2>10. wire' # None => Genuine(e2, reqOf', nextSub', wire')
    BY <2>8 DEF p
  <2>11. lastSent' # None => /\ Genuine(e2, reqOf', nextSub', lastSent')
                             /\ lastSent'.grp = grp' => nextSub' = lastSent'.sub + 1
    BY <1>2, <2>4, <2>8, Zenon DEF p
  <2> QED BY <1>2, <2>2, <2>3, <2>9, <2>10, <2>11, Zenon DEF CpInv
<1>13. idxGrp >= 0 => /\ Numbered(reqOf', nextSub', idxGrp, idxSub)
                      /\ e2[idxGrp][idxSub + 1] = e[idxGrp][idxSub + 1]
  <2>1. idxSub \in Nat
    BY DEF TypeInv, DaemonType
  <2> QED BY <1>1, <1>10, <2>1, Zenon DEF DaemonInv
<1>14. DaemonInv'
  BY <1>1, <1>2, <1>13, Zenon DEF DaemonInv
<1>15. Current' = Current
  BY <1>2, Zenon DEF Current
<1>16. ParserInv(e2)'
  <2>1. syncBusy => idxGrp >= 0
    BY DEF TypeInv, DaemonType
  <2> QED BY <1>1, <1>2, <1>13, <1>15, <2>1, Zenon DEF ParserInv
<1>17. StagesInv'
  BY <1>1, <1>2, <1>15, Zenon DEF StagesInv
<1>18. RspInv(e2)'
  <2>1. rsp.sub \in Nat
    BY DEF TypeInv, DaemonType
  <2> QED BY <1>1, <1>2, <1>10, <2>1, Zenon DEF RspInv
<1>19. Content(e2)'
  BY <1>12, <1>14, <1>16, <1>17, <1>18 DEF Content
<1> QED
  BY <1>9, <1>19

\* A request that is given up: fromChannel is the backup again.
LEMMA Restored ==
    ASSUME TypeInv, StagesInv, RestoreOnFail
    PROVE  chan' = bak
<1>1. chan \in [PartIds -> [Words -> Nat]] /\ bak \in [PartIds -> [Words -> Nat]]
  BY DEF TypeInv, StagesType
<1>2. CASE syncState = 0
  BY <1>2, Zenon DEF StagesInv, RestoreOnFail
<1>3. CASE syncState # 0
  <2>1. chan' = [chan EXCEPT ![part] = bak[part]] /\ \A p \in PartIds : p # part => chan[p] = bak[p]
    BY <1>3, Zenon DEF StagesInv, RestoreOnFail
  <2>2. part \in PartIds
    BY <1>3 DEF TypeInv, ParserType
  <2> QED BY <1>1, <2>1, <2>2
<1> QED
  BY <1>2, <1>3

\* The CP's part of the invariant, when the CP does nothing.
LEMMA CpIdle ==
    ASSUME NEW e, CpInv(e), UNCHANGED <<reqOf, sent, nextSub, lastSent>>,
           wire' # None => wire' = wire \/ wire' = lastSent,
           packet' # None => packet' = packet \/ packet' = wire
    PROVE  CpInv(e)'
<1>1. reqOf' = reqOf /\ sent' = sent /\ nextSub' = nextSub /\ lastSent' = lastSent
  OBVIOUS
<1>2. grp' = grp
  BY <1>1, Zenon DEF grp
<1>3. wire' # None => Genuine(e, reqOf, nextSub, wire')
  BY DEF CpInv
<1>4. packet' # None => Genuine(e, reqOf, nextSub, packet')
  BY DEF CpInv
<1> QED
  BY <1>1, <1>2, <1>3, <1>4, Zenon DEF CpInv

\* A packet is taken: it is skipped, refused, goes on where the parser waits, or starts
\* its group with all stages equal.
LEMMA ContentTake ==
    ASSUME TypeInv, NEW e \in Layouts, Content(e), NEW p \in Packets, p # None,
           Genuine(e, reqOf, nextSub, p), Take(p), CpInv(e)', UNCHANGED <<reqOf, nextSub>>
    PROVE  Content(e)'
<1>1. CpInv(e) /\ DaemonInv /\ ParserInv(e) /\ StagesInv /\ RspInv(e)
  BY DEF Content
<1>2. reqOf' = reqOf /\ nextSub' = nextSub /\ packet' = p /\ buf = <<>>
  BY DEF Take
<1>3. p.grp \in Nat /\ p.sub \in Nat /\ p.words \in Seq(Nat) /\ Len(p.words) \in Nat
  BY PacketFields
<1>4. /\ Numbered(reqOf, nextSub, p.grp, p.sub) /\ Len(p.words) > 0
      /\ e[p.grp][p.sub + 1] = e[p.grp][p.sub] + Len(p.words)
      /\ \A k \in 1 .. Len(p.words) : p.words[k] = Stream[reqOf[p.grp + 1]][e[p.grp][p.sub] + k]
  BY Zenon DEF Genuine
<1>5. e[p.grp][p.sub] \in Nat /\ e[p.grp][p.sub + 1] \in Nat
  <2>1. \A g, i \in Nat : e[g][i] \in Nat
    BY DEF Layouts
  <2>2. p.sub + 1 \in Nat
    BY <1>3
  <2> QED BY <1>3, <2>1, <2>2, Zenon
<1>6. e[p.grp][p.sub + 1] - Len(p.words) = e[p.grp][p.sub]
  BY <1>3, <1>4, <1>5
<1>7. p.words # <<>>
  BY <1>3, <1>4
<1>8. CASE Classify(p) = "skip"
  <2>1. /\ rsp' = rsp /\ idxGrp' = idxGrp /\ idxSub' = idxSub /\ buf' = buf
        /\ syncState' = syncState /\ syncBusy' = syncBusy /\ syncReqFrame' = syncReqFrame
        /\ part' = part /\ start' = start /\ len' = len
        /\ chan' = chan /\ bak' = bak /\ done' = done
    <3>1. UNCHANGED <<rsp, idxGrp, idxSub, buf, sync, stages>>
      BY <1>8 DEF Take
    <3> QED BY <3>1 DEF sync, stages
  <2>2. Current' = Current
    BY <1>2, <2>1, Zenon DEF Current
  <2>3. DaemonInv'
    BY <1>1, <1>2, <2>1, Zenon DEF DaemonInv
  <2>4. ParserInv(e)'
    BY <1>1, <2>1, <2>2, Zenon DEF ParserInv
  <2>5. StagesInv'
    BY <1>1, <2>1, <2>2, Zenon DEF StagesInv
  <2>6. RspInv(e)'
    BY <1>1, <1>2, <2>1, Zenon DEF RspInv
  <2> QED BY <2>3, <2>4, <2>5, <2>6 DEF Content
<1>9. CASE Classify(p) = "continue" /\ ~syncBusy
  <2>1. /\ idxSub' = idxSub + 1 /\ Refuse(p) /\ idxGrp' = idxGrp /\ buf' = buf
        /\ syncState' = syncState /\ syncBusy' = syncBusy
        /\ chan' = chan /\ bak' = bak
    <3>1. idxSub' = idxSub + 1 /\ Refuse(p) /\ UNCHANGED <<idxGrp, buf, sync, stages>>
      BY <1>9 DEF Take
    <3> QED BY <3>1 DEF sync, stages
  <2>2. idxGrp = p.grp /\ p.sub = idxSub + 1
    BY <1>9 DEF Classify
  <2>3. DaemonInv'
    BY <1>2, <1>4, <2>1, <2>2, Zenon DEF DaemonInv
  <2>4. ParserInv(e)'
    BY <1>9, <2>1, Zenon DEF ParserInv
  <2>5. StagesInv'
    <3>1. syncState = 0
      BY <1>9 DEF TypeInv, ParserType
    <3>2. syncState' = 0 /\ chan' = bak'
      BY <1>1, <2>1, <3>1, Zenon DEF StagesInv
    <3> QED BY <3>2 DEF StagesInv
  <2>6. RspInv(e)'
    BY <2>1 DEF RspInv, Refuse
  <2> QED BY <2>3, <2>4, <2>5, <2>6 DEF Content
<1>10. CASE Classify(p) = "continue" /\ syncBusy
  <2>1. /\ idxSub' = idxSub + 1 /\ buf' = p.words /\ rsp' = rsp /\ idxGrp' = idxGrp
        /\ syncState' = syncState /\ syncBusy' = syncBusy /\ syncReqFrame' = syncReqFrame
        /\ part' = part /\ start' = start /\ len' = len
        /\ chan' = chan /\ bak' = bak /\ done' = done
    <3>1. idxSub' = idxSub + 1 /\ buf' = p.words /\ UNCHANGED <<rsp, idxGrp, sync, stages>>
      BY <1>10 DEF Take
    <3> QED BY <3>1 DEF sync, stages
  <2>2. idxGrp = p.grp /\ p.sub = idxSub + 1
    BY <1>10 DEF Classify
  <2>3. Current' = Current /\ Current = reqOf[p.grp + 1]
    BY <1>2, <2>1, <2>2, Zenon DEF Current
  <2>4. DaemonInv'
    BY <1>2, <1>4, <2>1, <2>2, Zenon DEF DaemonInv
  <2>5. ParserAt(Current, e[p.grp][p.sub], buf, syncState, syncReqFrame, part, start, len)
    BY <1>1, <1>10, <2>2, Zenon DEF ParserInv
  <2>6. ParserAt(Current, e[p.grp][p.sub + 1], p.words, syncState, syncReqFrame, part, start, len)
    <3> DEFINE r == Current
               top == e[p.grp][p.sub]
               next == e[p.grp][p.sub + 1]
    <3>1. top \in Nat /\ top - Len(buf) = top
      BY <1>2, <1>5
    <3>2. next - Len(p.words) = top /\ \A k \in 1 .. Len(p.words) : p.words[k] = Stream[r][top + k]
      BY <1>4, <1>6, <2>3, Zenon
    <3>3. syncState # 0
      BY <1>2, <2>5 DEF ParserAt
    <3> HIDE DEF r, top, next
    <3>4. ParserAt(r, top, buf, syncState, syncReqFrame, part, start, len)
      BY <2>5 DEF r, top
    <3>5. ParserAt(r, next, p.words, syncState, syncReqFrame, part, start, len)
      BY <3>1, <3>2, <3>3, <3>4, Zenon DEF ParserAt
    <3> QED BY <3>5 DEF r, next
  <2>7. ParserInv(e)'
    BY <2>1, <2>2, <2>3, <2>6, Zenon DEF ParserInv
  <2>8. StagesInv'
    BY <1>1, <2>1, <2>3, Zenon DEF StagesInv
  <2>9. RspInv(e)'
    BY <1>1, <1>2, <2>1, Zenon DEF RspInv
  <2> QED BY <2>4, <2>7, <2>8, <2>9 DEF Content
<1>11. CASE Classify(p) = "start"
  <2>1. /\ idxGrp' = p.grp /\ idxSub' = 0 /\ buf' = p.words /\ syncBusy' = TRUE
        /\ rsp' = rsp /\ bak' = bak /\ done' = done
        /\ IF syncBusy
             THEN /\ RestoreOnFail /\ syncState' = 0 /\ syncReqFrame' = 0
                  /\ part' = -1 /\ start' = 0 /\ len' = 0
             ELSE UNCHANGED <<chan, syncState, syncReqFrame, part, start, len>>
    BY <1>11 DEF Take
  <2>2. p.sub = 0
    BY <1>11 DEF Classify
  <2>3. syncState' = 0 /\ chan' = bak'
    <3>1. CASE syncBusy
      BY <1>1, <2>1, <3>1, Restored, Zenon
    <3>2. CASE ~syncBusy
      <4>1. syncState = 0
        BY <3>2 DEF TypeInv, ParserType
      <4> QED BY <1>1, <2>1, <3>2, <4>1 DEF StagesInv
    <3> QED BY <3>1, <3>2
  <2>4. DaemonInv'
    BY <1>2, <1>4, <2>1, <2>2, Zenon DEF DaemonInv
  <2>5. ParserInv(e)'
    <3> DEFINE r == reqOf[p.grp + 1]
               top == e[p.grp][p.sub + 1]
    <3>1. Current' = r /\ e[idxGrp'][idxSub' + 1] = top
      BY <1>2, <2>1, <2>2, Zenon DEF Current
    <3>2. e[p.grp][p.sub] = 0
      BY <1>1, <1>3, <2>2, Zenon DEF CpInv
    <3>3. top - Len(p.words) = 0 /\ \A k \in 1 .. Len(p.words) : p.words[k] = Stream[r][0 + k]
      BY <1>4, <1>6, <3>2, Zenon
    <3> HIDE DEF r, top
    <3>4. \A f, q, a, b : ParserAt(r, top, p.words, 0, f, q, a, b)
      <4>1. 0 # 1 /\ 0 # 2
        OBVIOUS
      <4> QED BY <1>7, <3>3, <4>1, Zenon DEF ParserAt
    <3> QED BY <2>1, <2>3, <3>1, <3>4, Zenon DEF ParserInv
  <2>6. StagesInv'
    BY <2>3 DEF StagesInv
  <2>7. RspInv(e)'
    BY <1>1, <1>2, <2>1, Zenon DEF RspInv
  <2> QED BY <2>4, <2>5, <2>6, <2>7 DEF Content
<1> QED
  BY <1>8, <1>9, <1>10, <1>11 DEF Classify

\* A request is given up: with a negative response, or because the channel fails.
LEMMA ContentFail ==
    ASSUME TypeInv, NEW e \in Layouts, Content(e), CpInv(e)', UNCHANGED <<reqOf, nextSub, bak, done>>,
           RestoreOnFail, SyncInit, buf' = <<>>,
           rsp' = rsp \/ rsp'.val = 0,
           idxGrp' = -1 \/ UNCHANGED <<idxGrp, idxSub>>
    PROVE  Content(e)'
<1>1. CpInv(e) /\ DaemonInv /\ ParserInv(e) /\ StagesInv /\ RspInv(e)
  BY DEF Content
<1>2. reqOf' = reqOf /\ nextSub' = nextSub /\ bak' = bak /\ done' = done
  OBVIOUS
<1>3. chan' = bak' /\ syncState' = 0 /\ syncBusy' = FALSE
  BY <1>1, <1>2, Restored, Zenon DEF SyncInit
<1>4. DaemonInv'
  BY <1>1, <1>2 DEF DaemonInv
<1>5. ParserInv(e)'
  BY <1>3, Zenon DEF ParserInv
<1>6. StagesInv'
  BY <1>3 DEF StagesInv
<1>7. RspInv(e)'
  <2>1. CASE rsp' = rsp
    BY <1>1, <1>2, <2>1, Zenon DEF RspInv
  <2>2. CASE rsp'.val = 0
    BY <2>2 DEF RspInv
  <2> QED BY <2>1, <2>2
<1> QED
  BY <1>4, <1>5, <1>6, <1>7 DEF Content

\* Where the parser is while it has words in hand.
LEMMA Located ==
    ASSUME TypeInv, NEW e \in Layouts, Content(e), buf # <<>>
    PROVE  /\ Current \in Requests /\ Whole(Current, e[idxGrp][idxSub + 1])
           /\ e[idxGrp][idxSub + 1] \in Nat /\ e[idxGrp][idxSub + 1] <= Len(Stream[Current])
           /\ Numbered(reqOf, nextSub, idxGrp, idxSub) /\ idxGrp = packet.grp /\ idxSub = packet.sub
           /\ ParserAt(Current, e[idxGrp][idxSub + 1], buf, syncState, syncReqFrame,
                       part, start, len)
<1>1. packet # None /\ packet.grp = idxGrp /\ packet.sub = idxSub
  BY DEF Content, DaemonInv
<1>2. Genuine(e, reqOf, nextSub, packet)
  BY <1>1, Zenon DEF Content, CpInv
<1>3. packet \in Packets /\ syncBusy /\ reqOf \in Seq(Requests)
  BY DEF TypeInv, DaemonType, CpType
<1>4. idxGrp \in Nat /\ idxSub \in Nat
  BY <1>1, <1>3, PacketFields
<1>5. /\ Numbered(reqOf, nextSub, idxGrp, idxSub)
      /\ e[idxGrp][idxSub + 1] <= Len(Stream[Current]) /\ Whole(Current, e[idxGrp][idxSub + 1])
  BY <1>1, <1>2, Zenon DEF Genuine, Current
<1>6. Current \in Requests
  BY <1>3, <1>4, <1>5 DEF Numbered, Current
<1>7. e[idxGrp][idxSub + 1] \in Nat
  BY <1>4 DEF Layouts
<1>8. ParserAt(Current, e[idxGrp][idxSub + 1], buf, syncState, syncReqFrame, part, start, len)
  BY <1>3, Zenon DEF Content, ParserInv
<1> QED
  BY <1>1, <1>5, <1>6, <1>7, <1>8, Zenon

\* A parser that expects a token finds it whole in the packet.
LEMMA TokenPresent ==
    ASSUME TypeInv, NEW e \in Layouts, Content(e), buf # <<>>, syncState \in {0, 1}
    PROVE  Len(buf) >= TokenWords
<1> DEFINE r == Current
           top == e[idxGrp][idxSub + 1]
<1>1. /\ r \in Requests /\ Whole(r, top) /\ top \in Nat
      /\ ParserAt(r, top, buf, syncState, syncReqFrame, part, start, len)
  BY Located, Zenon
<1>2. buf \in Seq(Nat) /\ Len(buf) \in Nat /\ Len(buf) # 0
  BY DEF TypeInv, DaemonType
<1> HIDE DEF r, top
<1>3. CASE syncState = 0
  <2>1. top - Len(buf) = 0 /\ top >= 5
    BY <1>1, <1>3, Zenon DEF ParserAt, Whole
  <2> QED BY <1>1, <1>2, <2>1 DEF TokenWords
<1>4. CASE syncState = 1
  <2> DEFINE f == syncReqFrame
             x == RangeEnd[r][f]
  <2>1. f \in 0 .. Len(r.ranges) /\ top - Len(buf) = x
    BY <1>1, <1>4, Zenon DEF ParserAt
  <2>2. top <= x \/ top >= x + 5
    BY <1>1, <2>1, Zenon DEF Whole
  <2>3. x \in Nat
    BY <1>1, <2>1, StreamShape, Zenon
  <2> HIDE DEF f, x
  <2> QED BY <1>1, <1>2, <2>1, <2>2, <2>3 DEF TokenWords
<1> QED
  BY <1>3, <1>4

\* The head of a request.
LEMMA ContentGetHead ==
    ASSUME TypeInv, NEW e \in Layouts, Content(e), GetHead
    PROVE  Content(e)'
<1>1. CpInv(e) /\ DaemonInv /\ ParserInv(e) /\ StagesInv /\ RspInv(e)
  BY DEF Content
<1>2. /\ buf # <<>> /\ syncState = 0
      /\ reqOf' = reqOf /\ sent' = sent /\ nextSub' = nextSub /\ lastSent' = lastSent
      /\ wire' = wire /\ packet' = packet /\ idxGrp' = idxGrp /\ idxSub' = idxSub
  BY Zenon DEF GetHead, cp
<1>3. CpInv(e)'
  BY <1>1, <1>2, CpIdle
<1>4. CASE TokenMissing
  <2>1. buf \in Seq(Nat) /\ Len(buf) \in Nat
    BY DEF TypeInv, DaemonType
  <2>2. Len(buf) >= TokenWords
    BY <1>2, TokenPresent
  <2> QED BY <1>4, <2>1, <2>2 DEF TokenMissing, TokenWords
<1>5. CASE Fail
  <2>1. rsp'.val = 0
    BY <1>5 DEF Fail, Response
  <2> QED BY <1>2, <1>3, <1>5, <2>1, ContentFail DEF Fail
<1>6. CASE /\ Len(buf) >= TokenWords /\ KnownHead
           /\ syncReqFrame' = buf[2] /\ part' = buf[3] /\ syncState' = 1
           /\ buf' = RestOf(TokenWords)
           /\ UNCHANGED <<rsp, syncBusy, start, len, stages>>
  <2> DEFINE r == Current
             top == e[idxGrp][idxSub + 1]
             s == Stream[r]
  <2>1. /\ r \in Requests /\ top \in Nat
        /\ ParserAt(r, top, buf, 0, syncReqFrame, part, start, len)
        /\ Numbered(reqOf, nextSub, idxGrp, idxSub) /\ idxGrp = packet.grp /\ idxSub = packet.sub
    BY <1>2, Located, Zenon
  <2>2. Current' = r /\ e[idxGrp'][idxSub' + 1] = top
    BY <1>2, Zenon DEF Current
  <2>3. /\ rsp' = rsp /\ syncBusy' = syncBusy /\ start' = start /\ len' = len
        /\ chan' = chan /\ bak' = bak /\ done' = done
    BY <1>6 DEF stages
  <2>4. s[2] = 0 /\ s[3] = r.part /\ RangeEnd[r][0] = 5 /\ Len(r.ranges) \in Nat
    BY <2>1, StreamWords, StreamShape, Fields, Zenon
  <2>5. buf \in Seq(Nat) /\ Len(buf) \in Nat /\ Len(buf) >= 5
    BY <1>6 DEF TypeInv, DaemonType, TokenWords
  <2> HIDE DEF r, top, s
  <2>6. top - Len(buf) = 0 /\ \A k \in 1 .. Len(buf) : buf[k] = s[0 + k]
    BY <2>1, Zenon DEF ParserAt, s
  <2>7. buf[2] = 0 /\ buf[3] = r.part
    BY <2>4, <2>5, <2>6
  <2>8. /\ Len(buf') = Len(buf) - 5
        /\ \A k \in 1 .. Len(buf) - 5 : buf'[k] = buf[5 + k]
    <3>1. 5 \in 0 .. Len(buf)
      BY <2>5
    <3> QED BY <1>6, <2>5, <3>1, Rest, Zenon DEF TokenWords
  <2>9. ParserAt(r, top, buf', 1, 0, r.part, start, len)
    <3>1. top - Len(buf') = 5
      BY <2>1, <2>5, <2>6, <2>8
    <3>2. \A k \in 1 .. Len(buf') : buf'[k] = s[5 + k]
      BY <2>5, <2>6, <2>8
    <3>3. 0 \in 0 .. Len(r.ranges) /\ 1 # 0 /\ 1 # 2
      BY <2>4
    <3> QED BY <2>4, <3>1, <3>2, <3>3, Zenon DEF ParserAt, s
  <2>10. ParserInv(e)'
    BY <1>6, <2>2, <2>3, <2>7, <2>9, Zenon DEF ParserInv
  <2>11. DaemonInv'
    BY <1>1, <1>2, Zenon DEF DaemonInv
  <2>12. StagesInv'
    <3>1. chan' = bak'
      BY <1>1, <1>2, <2>3, Zenon DEF StagesInv
    <3>2. Written(r, 1, 0, bak'[part'], chan'[part'])
      BY <2>1, <3>1, WrittenNone, Zenon
    <3>3. syncReqFrame' + 1 = 1
      BY <1>6, <2>7
    <3>4. syncState' # 0 /\ syncState' # 2
      BY <1>6
    <3> QED BY <2>2, <3>1, <3>2, <3>3, <3>4, Zenon DEF StagesInv
  <2>13. RspInv(e)'
    BY <1>1, <1>2, <2>3, Zenon DEF RspInv
  <2> QED BY <1>3, <2>10, <2>11, <2>12, <2>13 DEF Content
<1> QED
  BY <1>4, <1>5, <1>6 DEF GetHead

\* A range is announced.
LEMMA ContentRange ==
    ASSUME TypeInv, NEW e \in Layouts, Content(e), buf # <<>>, syncState = 1,
           Len(buf) >= TokenWords, buf[1] = BODY
    PROVE  LET r == Current
               top == e[idxGrp][idxSub + 1]
               f == NextFrame
           IN  /\ f \in 1 .. Len(r.ranges)
               /\ buf[4] * SectWords = Base(r, f) /\ buf[5] * SectWords = DataLen(r, f)
               /\ ParserAt(r, top, RestOf(TokenWords), 2, f, part, Base(r, f), DataLen(r, f))
<1> DEFINE r == Current
           top == e[idxGrp][idxSub + 1]
           s == Stream[r]
           f == NextFrame
           n == Len(r.ranges)
           end == RangeEnd[r]
           b == RestOf(TokenWords)
<1>1. /\ r \in Requests /\ top \in Nat
      /\ ParserAt(r, top, buf, 1, syncReqFrame, part, start, len)
  BY Located, Zenon
<1>2. buf \in Seq(Nat) /\ Len(buf) \in Nat /\ Len(buf) >= 5
  BY DEF TypeInv, DaemonType, TokenWords
<1>3. n \in Nat /\ \A i \in 1 .. n : /\ Len(r.ranges[i].data) \in Nat
                                     /\ Len(r.ranges[i].data) = r.ranges[i].count * SectWords
  BY <1>1, Fields, Zenon
<1>4. /\ \A i \in 0 .. n : end[i] \in Nat
      /\ \A i \in 1 .. n : end[i] = end[i - 1] + 5 + Len(r.ranges[i].data)
  BY <1>1, StreamShape, Zenon
<1>5. /\ s[end[n] + 1] = TAIL
      /\ \A i \in 1 .. n : s[end[i - 1] + 4] = r.ranges[i].start /\ s[end[i - 1] + 5] = r.ranges[i].count
  BY <1>1, StreamWords, Zenon
<1>6. /\ Len(b) = Len(buf) - 5
      /\ \A k \in 1 .. Len(buf) - 5 : b[k] = buf[5 + k]
  <2>1. 5 \in 0 .. Len(buf)
    BY <1>2
  <2> QED BY <1>2, <2>1, Rest, Zenon DEF TokenWords
<1> HIDE DEF r, top, s, n, end, b
<1>7. /\ syncReqFrame \in 0 .. n /\ top - Len(buf) = end[syncReqFrame] /\ part = r.part
      /\ \A k \in 1 .. Len(buf) : buf[k] = s[top - Len(buf) + k]
  <2>1. 1 # 0
    OBVIOUS
  <2> QED BY <1>1, <2>1, Zenon DEF ParserAt, s, n, end
<1> DEFINE g == syncReqFrame
           x == end[g]
<1> HIDE DEF f
<1>8. x \in Nat /\ g \in Nat /\ g <= n
  BY <1>3, <1>4, <1>7
<1>9. buf[1] = s[x + 1] /\ buf[4] = s[x + 4] /\ buf[5] = s[x + 5]
  BY <1>2, <1>7, SMTT(30)
<1>10. f \in 1 .. n /\ f - 1 = g
  <2>1. g # n
    BY <1>5, <1>9 DEF BODY, TAIL
  <2> QED BY <1>3, <1>8, <2>1 DEF f, NextFrame
<1>11. /\ end[f] = x + 5 + DataLen(r, f) /\ DataLen(r, f) \in Nat /\ Base(r, f) \in Nat
       /\ DataLen(r, f) = r.ranges[f].count * SectWords
  <2>1. end[f] = x + 5 + DataLen(r, f)
    BY <1>4, <1>10 DEF DataLen
  <2>2. DataLen(r, f) \in Nat /\ Base(r, f) \in Nat
    BY <1>1, <1>10, RangeFields, Zenon DEF n
  <2> QED BY <1>3, <1>10, <2>1, <2>2, Zenon DEF DataLen
<1>12. buf[4] * SectWords = Base(r, f) /\ buf[5] * SectWords = DataLen(r, f)
  <2>1. buf[4] = r.ranges[f].start /\ buf[5] = r.ranges[f].count
    BY <1>5, <1>9, <1>10
  <2> QED BY <1>11, <2>1, Zenon DEF Base
<1>13. ParserAt(r, top, b, 2, f, part, Base(r, f), DataLen(r, f))
  <2> DEFINE d == DataLen(r, f)
  <2> HIDE DEF d
  <2>1. top - Len(b) = x + 5
    BY <1>1, <1>2, <1>6, <1>7, <1>8
  <2>2. \A k \in 1 .. Len(b) : b[k] = s[top - Len(b) + k]
    <3> TAKE k \in 1 .. Len(b)
    <3>1. k \in 1 .. Len(buf) - 5 /\ 5 + k \in 1 .. Len(buf)
      BY <1>2, <1>6
    <3>2. b[k] = s[top - Len(buf) + (5 + k)]
      BY <1>6, <1>7, <3>1
    <3>3. top - Len(buf) + (5 + k) = top - Len(b) + k
      BY <1>1, <1>2, <1>6
    <3> QED BY <3>2, <3>3
  <2>3. top - Len(b) + d = end[f] /\ d <= d
    <3>1. end[f] = x + 5 + d /\ d \in Nat
      BY <1>11 DEF d
    <3> QED BY <1>8, <2>1, <3>1
  <2>4. 2 # 0 /\ 2 # 1
    OBVIOUS
  <2> QED BY <1>7, <1>10, <2>2, <2>3, <2>4, Zenon DEF ParserAt, d, s, n, end
<1> QED
  BY <1>10, <1>12, <1>13, Zenon DEF r, top, b, n, f

\* The tail comes after the last range: fromChannel holds the whole request.
LEMMA ContentTail ==
    ASSUME TypeInv, NEW e \in Layouts, Content(e), buf # <<>>, syncState = 1,
           Len(buf) >= TokenWords, buf[1] = TAIL
    PROVE  /\ part = Current.part /\ part \in PartIds
           /\ chan = [bak EXCEPT ![part] = Apply(Current, bak[part])]
<1> DEFINE r == Current
           top == e[idxGrp][idxSub + 1]
           s == Stream[r]
           n == Len(r.ranges)
           end == RangeEnd[r]
           g == syncReqFrame
<1>1. /\ r \in Requests /\ top \in Nat
      /\ ParserAt(r, top, buf, 1, g, part, start, len)
  BY Located, Zenon
<1>2. buf \in Seq(Nat) /\ Len(buf) \in Nat /\ Len(buf) >= 5
  BY DEF TypeInv, DaemonType, TokenWords
<1>3. n \in Nat /\ \A i \in 1 .. n : s[end[i - 1] + 1] = BODY
  BY <1>1, StreamWords, Fields, Zenon
<1> HIDE DEF r, top, s, n, end
<1>4. /\ g \in 0 .. n /\ top - Len(buf) = end[g] /\ part = r.part
      /\ \A k \in 1 .. Len(buf) : buf[k] = s[top - Len(buf) + k]
  <2>1. 1 # 0
    OBVIOUS
  <2> QED BY <1>1, <2>1, Zenon DEF ParserAt, s, n, end
<1>5. g = n
  <2>1. buf[1] = s[end[g] + 1]
    BY <1>2, <1>4
  <2>2. ASSUME g # n PROVE FALSE
    <3>1. g + 1 \in 1 .. n /\ (g + 1) - 1 = g
      BY <1>3, <1>4, <2>2
    <3>2. s[end[g] + 1] = BODY
      BY <1>3, <3>1
    <3> QED BY <2>1, <3>2 DEF BODY, TAIL
  <2> QED BY <2>2
<1>6. part \in PartIds
  BY DEF TypeInv, ParserType
<1>7. chan \in [PartIds -> [Words -> Nat]] /\ bak \in [PartIds -> [Words -> Nat]]
  BY DEF TypeInv, StagesType
<1>8. chan[part] = Apply(r, bak[part])
  <2>1. Written(r, n + 1, 0, bak[part], chan[part])
    BY <1>5, Zenon DEF Content, StagesInv, r
  <2>2. chan[part] \in [Words -> Nat]
    BY <1>6, <1>7
  <2> QED BY <1>1, <2>1, <2>2, WrittenAll, Zenon DEF n
<1>9. \A p \in PartIds : p # part => chan[p] = bak[p]
  BY DEF Content, StagesInv
<1>10. chan = [bak EXCEPT ![part] = Apply(r, bak[part])]
  <2> DEFINE v == Apply(r, bak[part])
  <2>1. chan[part] = v
    BY <1>8
  <2> HIDE DEF v
  <2>2. chan = [bak EXCEPT ![part] = v]
    BY <1>6, <1>7, <1>9, <2>1
  <2> QED BY <2>2 DEF v
<1> QED
  BY <1>4, <1>6, <1>10 DEF r

\* A body, a tail, or neither.
LEMMA ContentGetBody ==
    ASSUME TypeInv, NEW e \in Layouts, Content(e), GetBody
    PROVE  Content(e)'
<1>1. CpInv(e) /\ DaemonInv /\ ParserInv(e) /\ StagesInv /\ RspInv(e)
  BY DEF Content
<1>2. /\ buf # <<>> /\ syncState = 1
      /\ reqOf' = reqOf /\ sent' = sent /\ nextSub' = nextSub /\ lastSent' = lastSent
      /\ wire' = wire /\ packet' = packet /\ idxGrp' = idxGrp /\ idxSub' = idxSub
  BY Zenon DEF GetBody, cp
<1>3. CpInv(e)'
  BY <1>1, <1>2, CpIdle
<1>4. CASE TokenMissing
  <2>1. buf \in Seq(Nat) /\ Len(buf) \in Nat
    BY DEF TypeInv, DaemonType
  <2>2. Len(buf) >= TokenWords
    BY <1>2, TokenPresent
  <2> QED BY <1>4, <2>1, <2>2 DEF TokenMissing, TokenWords
<1>5. CASE Fail
  <2>1. rsp'.val = 0
    BY <1>5 DEF Fail, Response
  <2> QED BY <1>2, <1>3, <1>5, <2>1, ContentFail DEF Fail
<1>6. CASE /\ Len(buf) >= TokenWords /\ buf[1] = BODY
           /\ syncReqFrame' = NextFrame /\ start' = buf[4] * SectWords /\ len' = buf[5] * SectWords
           /\ syncState' = 2 /\ buf' = RestOf(TokenWords)
           /\ UNCHANGED <<rsp, syncBusy, part, stages>>
  <2> DEFINE r == Current
             top == e[idxGrp][idxSub + 1]
             f == NextFrame
  <2>1. /\ f \in 1 .. Len(r.ranges)
        /\ buf[4] * SectWords = Base(r, f) /\ buf[5] * SectWords = DataLen(r, f)
        /\ ParserAt(r, top, RestOf(TokenWords), 2, f, part, Base(r, f), DataLen(r, f))
    BY <1>2, <1>6, ContentRange, Zenon
  <2>2. Current' = r /\ e[idxGrp'][idxSub' + 1] = top
    BY <1>2, Zenon DEF Current
  <2>3. /\ rsp' = rsp /\ syncBusy' = syncBusy /\ part' = part
        /\ chan' = chan /\ bak' = bak /\ done' = done
    BY <1>6 DEF stages
  <2>4. r \in Requests
    BY <1>2, Located, Zenon
  <2> HIDE DEF r, top, f
  <2>5. ParserInv(e)'
    BY <1>6, <2>1, <2>2, <2>3, Zenon DEF ParserInv, f
  <2>6. DaemonInv'
    BY <1>1, <1>2, Zenon DEF DaemonInv
  <2>7. StagesInv'
    <3>1. Written(r, f, 0, bak'[part'], chan'[part'])
      BY <1>1, <1>2, <2>3, Zenon DEF StagesInv, NextFrame, r, f
    <3>2. DataLen(r, f) - DataLen(r, f) = 0
      <4>1. DataLen(r, f) \in Nat
        BY <2>1, <2>4, RangeFields, Zenon
      <4> QED BY <4>1
    <3>3. len' = DataLen(r, f) /\ syncReqFrame' = f
      BY <1>6, <2>1, Zenon DEF f
    <3>4. syncState' = 2 /\ syncState' # 0 /\ syncState' # 1
      BY <1>6
    <3>5. syncState # 0
      BY <1>2
    <3> QED BY <1>1, <2>2, <2>3, <3>1, <3>2, <3>3, <3>4, <3>5, Zenon DEF StagesInv
  <2>8. RspInv(e)'
    BY <1>1, <1>2, <2>3, Zenon DEF RspInv
  <2> QED BY <1>3, <2>5, <2>6, <2>7, <2>8 DEF Content
<1>7. CASE /\ Len(buf) >= TokenWords /\ buf[1] = TAIL
           /\ bak' = [bak EXCEPT ![part] = chan[part]] /\ done' = done \cup {idxGrp}
           /\ SyncInit /\ Response(1) /\ buf' = <<>> /\ UNCHANGED chan
  <2>1. chan = [bak EXCEPT ![part] = Apply(Current, bak[part])] /\ part \in PartIds
    BY <1>2, <1>7, ContentTail, Zenon
  <2>2. bak' = chan
    <3> DEFINE v == Apply(Current, bak[part])
    <3>1. bak \in [PartIds -> [Words -> Nat]]
      BY DEF TypeInv, StagesType
    <3>2. chan = [bak EXCEPT ![part] = v] /\ bak' = [bak EXCEPT ![part] = chan[part]]
      BY <1>7, <2>1
    <3> HIDE DEF v
    <3>3. chan[part] = v
      BY <2>1, <3>1, <3>2
    <3> QED BY <3>2, <3>3
  <2>3. syncState' = 0 /\ syncBusy' = FALSE /\ chan' = bak'
    BY <1>7, <2>2, Zenon DEF SyncInit
  <2>4. ParserInv(e)'
    BY <2>3, Zenon DEF ParserInv
  <2>5. DaemonInv'
    BY <1>1, <1>2, <1>7, Zenon DEF DaemonInv
  <2>6. StagesInv'
    BY <2>3 DEF StagesInv
  <2>7. RspInv(e)'
    <3>1. Numbered(reqOf, nextSub, idxGrp, idxSub) /\ idxGrp = packet.grp /\ idxSub = packet.sub
      BY <1>2, Located, Zenon
    <3>2. rsp'.grp = idxGrp /\ rsp'.sub = idxSub
      BY <1>7, <3>1 DEF Response
    <3>3. rsp'.grp \in done'
      BY <1>7, <3>2
    <3> QED BY <1>2, <3>1, <3>2, <3>3, Zenon DEF RspInv
  <2> QED BY <1>3, <2>4, <2>5, <2>6, <2>7 DEF Content
<1> QED
  BY <1>4, <1>5, <1>6, <1>7 DEF GetBody

\* The words of a range that the packet holds are written to their place.
LEMMA ContentGetData ==
    ASSUME TypeInv, NEW e \in Layouts, Content(e), GetData
    PROVE  Content(e)'
<1> DEFINE r == Current
           top == e[idxGrp][idxSub + 1]
           s == Stream[r]
           end == RangeEnd[r]
           f == syncReqFrame
           n == Min({len, Len(buf)})
           size == DataLen(r, f)
           base == Base(r, f)
           m == size - len
           data == r.ranges[f].data
<1>1. CpInv(e) /\ DaemonInv /\ ParserInv(e) /\ StagesInv /\ RspInv(e)
  BY DEF Content
<1>2. /\ buf # <<>> /\ syncState = 2
      /\ reqOf' = reqOf /\ sent' = sent /\ nextSub' = nextSub /\ lastSent' = lastSent
      /\ wire' = wire /\ packet' = packet /\ idxGrp' = idxGrp /\ idxSub' = idxSub
      /\ syncBusy' = syncBusy /\ syncReqFrame' = syncReqFrame /\ part' = part
      /\ bak' = bak /\ done' = done
      /\ start' = start + n /\ len' = len - n /\ buf' = RestOf(n)
      /\ chan' = [chan EXCEPT ![part] =
           [a \in Words |-> IF a - start \in 0 .. n - 1 THEN buf[a - start + 1] ELSE @[a]]]
      /\ IF len <= Len(buf)
           THEN syncState' = 1 /\ UNCHANGED rsp
           ELSE Response(1) /\ UNCHANGED syncState
  BY Zenon DEF GetData, cp
<1>3. CpInv(e)'
  BY <1>1, <1>2, CpIdle
<1>4. /\ r \in Requests /\ top \in Nat /\ top <= Len(s)
      /\ ParserAt(r, top, buf, 2, f, part, start, len)
      /\ Numbered(reqOf, nextSub, idxGrp, idxSub) /\ idxGrp = packet.grp /\ idxSub = packet.sub
  BY <1>2, Located, Zenon
<1>5. Current' = r /\ e[idxGrp'][idxSub' + 1] = top
  BY <1>2, Zenon DEF Current
<1>6. /\ buf \in Seq(Nat) /\ Len(buf) \in Nat /\ len \in Nat /\ start \in Nat
      /\ part \in PartIds
  BY <1>2 DEF TypeInv, DaemonType, ParserType
<1>7. n = IF len <= Len(buf) THEN len ELSE Len(buf)
  BY <1>6, MinOfTwo, Zenon
<1> HIDE DEF n
<1>8. n \in Nat /\ n \in 0 .. Len(buf) /\ n <= len /\ n <= Len(buf)
  BY <1>6, <1>7
<1>9. /\ f \in 1 .. Len(r.ranges) /\ top - Len(buf) + len = end[f]
      /\ len <= size /\ start + len = base + size /\ part = r.part
      /\ \A k \in 1 .. Len(buf) : buf[k] = s[top - Len(buf) + k]
  <2>1. 2 # 0
    OBVIOUS
  <2> QED BY <1>4, <2>1, Zenon DEF ParserAt
<1>10. size \in Nat /\ base \in Nat
  BY <1>4, <1>9, RangeFields, Zenon
<1>11. /\ end[f - 1] \in Nat /\ end[f] = end[f - 1] + 5 + size /\ end[f] + 5 <= Len(s)
       /\ \A k \in 1 .. size : s[end[f - 1] + 5 + k] = data[k]
  <2>1. Len(r.ranges) \in Nat
    BY <1>4, Fields
  <2>2. f - 1 \in 0 .. Len(r.ranges) /\ f \in 0 .. Len(r.ranges) /\ f <= Len(r.ranges)
        /\ Len(r.ranges) \in 0 .. Len(r.ranges)
    BY <1>9, <2>1
  <2>3. /\ end[f - 1] \in Nat /\ end[f] \in Nat /\ end[Len(r.ranges)] \in Nat
        /\ end[f] <= end[Len(r.ranges)] /\ Len(s) = end[Len(r.ranges)] + 5
    BY <1>4, <2>2, StreamShape, Zenon
  <2>4. end[f] = end[f - 1] + 5 + size
    BY <1>4, <1>9, StreamShape, Zenon DEF DataLen
  <2>5. \A k \in 1 .. size : s[end[f - 1] + 5 + k] = data[k]
    BY <1>4, <1>9, StreamWords, Zenon DEF DataLen
  <2>6. end[f] + 5 <= Len(s)
    <3> HIDE DEF end, s, f, r
    <3> QED BY <2>3
  <2> QED BY <2>3, <2>4, <2>5, <2>6
<1> HIDE DEF r, top, s, end, size, base, data
<1>12. m \in Nat /\ m + n <= size /\ start = base + m /\ m + n = size - (len - n)
  BY <1>6, <1>8, <1>9, <1>10
<1>13. top - Len(buf) = end[f - 1] + 5 + m
  <2> DEFINE x == end[f - 1]
             y == end[f]
  <2>1. x \in Nat /\ y = x + 5 + size /\ top - Len(buf) + len = y
    BY <1>9, <1>11
  <2> HIDE DEF x, y
  <2>2. top - Len(buf) = x + 5 + m
    BY <1>4, <1>6, <1>10, <2>1
  <2> QED BY <2>2 DEF x
<1> HIDE DEF m
<1>14. \A j \in 1 .. n : buf[j] = data[m + j]
  <2> TAKE j \in 1 .. n
  <2> DEFINE x == end[f - 1]
  <2>0. x \in Nat
    BY <1>11
  <2>1. j \in 1 .. Len(buf) /\ m + j \in 1 .. size
    BY <1>6, <1>8, <1>10, <1>12
  <2>2. buf[j] = s[top - Len(buf) + j] /\ s[x + 5 + (m + j)] = data[m + j]
    BY <1>9, <1>11, <2>1
  <2>3. top - Len(buf) + j = x + 5 + (m + j)
    <3> HIDE DEF x
    <3>1. top - Len(buf) = x + 5 + m
      BY <1>13 DEF x
    <3> QED BY <1>12, <2>0, <2>1, <3>1
  <2> HIDE DEF x
  <2> QED BY <2>2, <2>3, Zenon
<1>15. Written(r, f, m + n, bak'[part], chan'[part])
  <2> DEFINE d == chan[part]
             w == [a \in Words |-> IF a - start \in 0 .. n - 1 THEN buf[a - start + 1] ELSE d[a]]
  <2>1. Written(r, f, m, bak[part], d)
    BY <1>1, <1>2, Zenon DEF StagesInv, m, size, r
  <2>2. Written(r, f, m + n, bak[part], w)
    <3> HIDE DEF d
    <3>1. f \in 1 .. Len(r.ranges) /\ m + n <= DataLen(r, f) /\ start = Base(r, f) + m
      BY <1>9, <1>12 DEF size, base
    <3>2. \A j \in 1 .. n : buf[j] = r.ranges[f].data[m + j]
      BY <1>14 DEF data
    <3>3. \A a \in Words : w[a] = IF a - start \in 0 .. n - 1 THEN buf[a - start + 1] ELSE d[a]
      BY Zenon
    <3> HIDE DEF w
    <3>4. r \in Requests /\ m \in Nat /\ n \in Nat
      BY <1>4, <1>8, <1>12
    <3> HIDE DEF f
    <3> QED BY <2>1, <3>1, <3>2, <3>3, <3>4, WrittenMore, ZenonT(40)
  <2>3. chan' = [chan EXCEPT ![part] = w]
    BY <1>2, Zenon
  <2>4. chan \in [PartIds -> [Words -> Nat]]
    BY DEF TypeInv, StagesType
  <2> HIDE DEF d, w
  <2>5. chan'[part] = w
    BY <1>6, <2>3, <2>4
  <2> QED BY <1>2, <2>2, <2>5, Zenon
<1>16. \A p \in PartIds : p # part => chan'[p] = bak'[p]
  <2> DEFINE w == [a \in Words |-> IF a - start \in 0 .. n - 1 THEN buf[a - start + 1] ELSE chan[part][a]]
  <2>1. chan' = [chan EXCEPT ![part] = w]
    BY <1>2, Zenon
  <2>2. chan \in [PartIds -> [Words -> Nat]]
    BY DEF TypeInv, StagesType
  <2>3. \A p \in PartIds : p # part => chan[p] = bak[p]
    BY <1>1, <1>2 DEF StagesInv
  <2> HIDE DEF w
  <2> QED BY <1>2, <2>1, <2>2, <2>3
<1>17. /\ Len(buf') = Len(buf) - n /\ \A k \in 1 .. Len(buf) - n : buf'[k] = buf[n + k]
  BY <1>2, <1>6, <1>8, Rest, Zenon
<1>18. \A k \in 1 .. Len(buf') : buf'[k] = s[top - Len(buf') + k]
  <2> TAKE k \in 1 .. Len(buf')
  <2>1. k \in 1 .. Len(buf) - n /\ n + k \in 1 .. Len(buf)
    BY <1>6, <1>8, <1>17
  <2>2. buf'[k] = s[top - Len(buf) + (n + k)]
    BY <1>9, <1>17, <2>1
  <2>3. top - Len(buf) + (n + k) = top - Len(buf') + k
    BY <1>4, <1>6, <1>8, <1>17, <2>1, SMTT(30)
  <2> QED BY <2>2, <2>3
<1>19. top - Len(buf') + len' = end[f] /\ len' <= size /\ start' + len' = base + size
  <2>1. len' = len - n /\ start' = start + n
    BY <1>2, Zenon
  <2>2. top - Len(buf') = top - Len(buf) + n
    BY <1>4, <1>6, <1>8, <1>17
  <2>3. len - n <= size /\ (start + n) + (len - n) = base + size
    BY <1>6, <1>8, <1>9, <1>10
  <2>4. (top - Len(buf) + n) + (len - n) = top - Len(buf) + len
    BY <1>4, <1>6, <1>8
  <2> QED BY <1>9, <2>1, <2>2, <2>3, <2>4, Zenon
<1>20. DaemonInv'
  BY <1>1, <1>2, Zenon DEF DaemonInv
<1>21. CASE len <= Len(buf)
  <2>1. syncState' = 1 /\ rsp' = rsp /\ len' = 0 /\ m + n = size
    <3>1. syncState' = 1 /\ rsp' = rsp /\ len' = len - n /\ n = len
      BY <1>2, <1>7, <1>21, Zenon
    <3> QED BY <1>6, <1>10, <1>12, <3>1
  <2>2. ParserAt(r, top, buf', 1, f, part, start', len')
    <3>1. top - Len(buf') = end[f]
      BY <1>4, <1>6, <1>8, <1>17, <1>19, <2>1
    <3>2. f \in 0 .. Len(r.ranges) /\ 1 # 0 /\ 1 # 2
      BY <1>9
    <3> QED BY <1>9, <1>18, <3>1, <3>2, Zenon DEF ParserAt, s, end
  <2>3. ParserInv(e)'
    BY <1>2, <1>5, <2>1, <2>2, Zenon DEF ParserInv
  <2>4. Written(r, f + 1, 0, bak'[part], chan'[part])
    <3>1. Written(r, f, DataLen(r, f), bak'[part], chan'[part])
      BY <1>15, <2>1, Zenon DEF size
    <3> QED BY <1>4, <1>9, <3>1, WrittenRange, Zenon
  <2>5. StagesInv'
    <3>1. syncState' # 0 /\ syncState' # 2
      BY <2>1
    <3> QED BY <1>2, <1>5, <1>16, <2>4, <3>1, Zenon DEF StagesInv
  <2>6. RspInv(e)'
    BY <1>1, <1>2, <2>1, Zenon DEF RspInv
  <2> QED BY <1>3, <1>20, <2>3, <2>5, <2>6 DEF Content
<1>22. CASE ~(len <= Len(buf))
  <2>1. syncState' = 2 /\ Response(1) /\ len > Len(buf)
    BY <1>2, <1>6, <1>22
  <2>2. ParserAt(r, top, buf', 2, f, part, start', len')
    <3>1. 2 # 0 /\ 2 # 1
      OBVIOUS
    <3> QED BY <1>9, <1>18, <1>19, <3>1, Zenon DEF ParserAt, s, end, size, base
  <2>3. ParserInv(e)'
    BY <1>2, <1>5, <2>1, <2>2, Zenon DEF ParserInv
  <2>4. StagesInv'
    <3>1. syncState' # 0 /\ syncState' # 1
      BY <2>1
    <3>2. m + n = DataLen(r, f) - len'
      BY <1>2, <1>12, Zenon DEF size
    <3> QED BY <1>2, <1>5, <1>15, <1>16, <3>1, <3>2, Zenon DEF StagesInv
  <2>5. RspInv(e)'
    <3>1. rsp'.grp = idxGrp /\ rsp'.sub = idxSub
      BY <1>4, <2>1 DEF Response
    <3>2. top < Len(s)
      <4> DEFINE y == end[f]
      <4>1. top - Len(buf) + len = y /\ y + 5 <= Len(s) /\ Len(s) \in Int
        <5>1. Stream[r] \in Seq(Nat)
          BY <1>4, StreamShape, Zenon
        <5>2. Len(s) \in Int
          BY <5>1 DEF s
        <5> QED BY <1>9, <1>11, <5>2
      <4> HIDE DEF y
      <4> QED BY <1>4, <1>6, <2>1, <4>1
    <3> QED BY <1>2, <1>4, <3>1, <3>2, Zenon DEF RspInv, top, s, r, Current
  <2> QED BY <1>3, <1>20, <2>3, <2>4, <2>5 DEF Content
<1> QED
  BY <1>21, <1>22

\* The packets of every group are at some places of its stream, and the daemon, the
\* parser and the stages are where these places say.
ContentInv == \E e \in Layouts : Content(e)

\* Every step keeps the content.
LEMMA ContentStep ==
    ASSUME NoTokenCut, TypeInv, ContentInv, [Next]_vars
    PROVE  ContentInv'
<1>1. PICK e \in Layouts : Content(e)
  BY DEF ContentInv
<1>2. CpInv(e) /\ DaemonInv /\ ParserInv(e) /\ StagesInv /\ RspInv(e)
  BY <1>1 DEF Content
<1>3. wire \in Packets /\ packet \in Packets
  BY DEF TypeInv, CpType, DaemonType
<1> SUFFICES ASSUME ~\E e2 \in Layouts : Content(e2)' PROVE Content(e)'
  BY DEF ContentInv
<1>4. ASSUME NEW r \in Requests, NewRequest(r) PROVE Content(e)'
  BY <1>1, <1>4, ContentNewRequest
<1>5. ASSUME NEW n \in 1 .. PacketWords, SendNext(n) PROVE FALSE
  BY <1>1, <1>5, ContentSendNext
<1>6. ASSUME \/ /\ UNCHANGED cp /\ wire' \in {None, wire, lastSent}
                /\ UNCHANGED <<rsp, packet, idxGrp, idxSub, buf, sync, stages>>
      PROVE  Content(e)'
  <2>1. /\ reqOf' = reqOf /\ sent' = sent /\ nextSub' = nextSub /\ lastSent' = lastSent
        /\ packet' = packet /\ idxGrp' = idxGrp /\ idxSub' = idxSub /\ buf' = buf /\ rsp' = rsp
        /\ syncState' = syncState /\ syncBusy' = syncBusy /\ syncReqFrame' = syncReqFrame
        /\ part' = part /\ start' = start /\ len' = len
        /\ chan' = chan /\ bak' = bak /\ done' = done
    BY <1>6 DEF cp, sync, stages
  <2>2. CpInv(e)'
    BY <1>2, <1>6, <2>1, CpIdle
  <2>3. Current' = Current
    BY <2>1, Zenon DEF Current
  <2>4. DaemonInv'
    BY <1>2, <2>1, Zenon DEF DaemonInv
  <2>5. ParserInv(e)'
    BY <1>2, <2>1, <2>3, Zenon DEF ParserInv
  <2>6. StagesInv'
    BY <1>2, <2>1, <2>3, Zenon DEF StagesInv
  <2>7. RspInv(e)'
    BY <1>2, <2>1, Zenon DEF RspInv
  <2> QED BY <2>2, <2>4, <2>5, <2>6, <2>7 DEF Content
<1>7. CASE Resend \/ Lose
  BY <1>6, <1>7 DEF Resend, Lose
<1>8. CASE GetPacket
  <2>1. /\ wire # None /\ Take(wire) /\ wire' = None /\ packet' = wire
        /\ UNCHANGED <<reqOf, sent, nextSub, lastSent>>
    BY <1>8 DEF GetPacket, Take, cp
  <2>2. CpInv(e)'
    BY <1>2, <2>1, CpIdle
  <2>3. Genuine(e, reqOf, nextSub, wire)
    BY <1>2, <2>1, Zenon DEF CpInv
  <2> QED BY <1>1, <1>3, <2>1, <2>2, <2>3, ContentTake
<1>9. CASE ReadError
  <2>1. /\ packet # None /\ Take(packet) /\ wire' = wire /\ packet' = packet
        /\ UNCHANGED <<reqOf, sent, nextSub, lastSent>>
    BY <1>9 DEF ReadError, Take, cp
  <2>2. CpInv(e)'
    BY <1>2, <2>1, CpIdle
  <2>3. Genuine(e, reqOf, nextSub, packet)
    BY <1>2, <2>1, Zenon DEF CpInv
  <2> QED BY <1>1, <1>3, <2>1, <2>2, <2>3, ContentTake
<1>10. CASE ChannelFails
  <2>1. /\ RestoreOnFail /\ SyncInit /\ buf' = <<>> /\ rsp' = rsp /\ idxGrp' = -1
        /\ wire' = None /\ packet' \in {packet, None}
        /\ UNCHANGED <<reqOf, sent, nextSub, lastSent, bak, done>>
    BY <1>10 DEF ChannelFails, cp
  <2>2. CpInv(e)'
    BY <1>2, <2>1, CpIdle
  <2> QED BY <1>1, <2>1, <2>2, ContentFail
<1>11. CASE GetHead
  BY <1>1, <1>11, ContentGetHead
<1>12. CASE GetBody
  BY <1>1, <1>12, ContentGetBody
<1>13. CASE GetData
  BY <1>1, <1>13, ContentGetData
<1>14. CASE UNCHANGED vars
  BY <1>6, <1>14 DEF vars
<1> QED
  BY <1>4, <1>5, <1>7, <1>8, <1>9, <1>10, <1>11, <1>12, <1>13, <1>14 DEF Next, Cp

\* If no packet ends inside a token, then whatever packets are lost, repeated, read twice
\* or abandoned and whenever the channel breaks, what has been consumed of the request in
\* progress is what fromChannel differs from backup by.
THEOREM ContentCorrect ==
    ASSUME NoTokenCut
    PROVE  Spec => [](TypeInv /\ ContentInv)
<1>1. Init => TypeInv /\ ContentInv
  BY TypeInitial, ContentInitial DEF ContentInv
<1>2. TypeInv /\ ContentInv /\ [Next]_vars => (TypeInv /\ ContentInv)'
  BY TypeStep, ContentStep
<1> QED
  BY <1>1, <1>2, PTL DEF Spec

\* The tail commits what the request says: backup changes only by applying a whole
\* request of the CP (_syncGetBody's TAIL case and its backupData).
THEOREM CommitsAreWhole ==
    ASSUME NoTokenCut
    PROVE  Spec => CommitIsWhole
<1> DEFINE A == bak' # bak \/ done' # done =>
                  LET r == reqOf[idxGrp + 1]
                  IN  bak' = [bak EXCEPT ![r.part] = Apply(r, @)]
<1>1. TypeInv /\ ContentInv /\ [Next]_vars => [A]_vars
  <2> SUFFICES ASSUME TypeInv, ContentInv, Next, bak' # bak \/ done' # done
               PROVE  bak' = [bak EXCEPT ![Current.part] = Apply(Current, bak[Current.part])]
    BY DEF Current, vars
  <2>1. PICK e \in Layouts : Content(e)
    BY DEF ContentInv
  <2>2. GetBody
    <3>1. ~(GetPacket \/ ReadError)
      BY TakeKeepsBackup DEF GetPacket, ReadError
    <3>2. ~(Resend \/ Lose \/ ChannelFails \/ GetData)
      BY Zenon DEF Resend, Lose, ChannelFails, GetData, stages
    <3>3. ~GetHead
      BY Zenon DEF GetHead, Fail, TokenMissing, stages
    <3>4. ~Cp
      BY Zenon DEF Cp, NewRequest, SendNext, stages
    <3> QED BY <3>1, <3>2, <3>3, <3>4 DEF Next
  <2>3. /\ buf # <<>> /\ syncState = 1 /\ Len(buf) >= TokenWords /\ buf[1] = TAIL
        /\ bak' = [bak EXCEPT ![part] = chan[part]]
    BY <2>2, Zenon DEF GetBody, Fail, TokenMissing, stages
  <2>4. /\ part = Current.part /\ part \in PartIds
        /\ chan = [bak EXCEPT ![part] = Apply(Current, bak[part])]
    BY <2>1, <2>3, ContentTail, Zenon
  <2> DEFINE v == Apply(Current, bak[part])
  <2>5. bak \in [PartIds -> [Words -> Nat]]
    BY DEF TypeInv, StagesType
  <2>6. chan[part] = v
    <3>1. chan = [bak EXCEPT ![part] = v]
      BY <2>4
    <3> HIDE DEF v
    <3> QED BY <2>4, <2>5, <3>1
  <2> QED BY <2>3, <2>4, <2>6, Zenon
<1>2. Spec => [](TypeInv /\ ContentInv)
  BY ContentCorrect
<1>3. Spec => [][A]_vars
  <2> HIDE DEF A
  <2> QED BY <1>1, <1>2, PTL DEF Spec
<1> QED
  BY <1>3 DEF CommitIsWhole

\* The CP may drop a request when its last packet is answered with 1: the daemon has
\* committed it (_syncGetBody and _syncGetData send the responses).
THEOREM LastAckIsCommit ==
    ASSUME NoTokenCut
    PROVE  Spec => []LastAckMeansCommitted
<1>1. TypeInv /\ ContentInv => LastAckMeansCommitted
  <2> SUFFICES ASSUME TypeInv, ContentInv, NEW g \in 0 .. grp,
                      rsp.grp = g, rsp.val = 1, lastSent.grp = g, rsp.sub = lastSent.sub,
                      sent = Len(Stream[reqOf[g + 1]]), grp = g
               PROVE  g \in done
    BY Zenon DEF LastAckMeansCommitted
  <2>1. PICK e \in Layouts : Content(e)
    BY DEF ContentInv
  <2>2. g \in Nat
    <3>1. grp \in Int
      BY DEF TypeInv, CpType, grp
    <3> QED BY <3>1
  <2>3. lastSent # None
    BY <2>2 DEF None
  <2>4. nextSub = lastSent.sub + 1
    BY <2>1, <2>3, Zenon DEF Content, CpInv
  <2>5. sent = e[g][rsp.sub + 1]
    <3>1. grp >= 0
      BY <2>2
    <3> QED BY <2>1, <2>4, <3>1, Zenon DEF Content, CpInv
  <2>6. g \in done \/ e[g][rsp.sub + 1] < Len(Stream[reqOf[g + 1]])
    BY <2>1, Zenon DEF Content, RspInv
  <2>7. sent \in Nat
    BY DEF TypeInv, CpType
  <2> QED BY <2>5, <2>6, <2>7
<1>2. Spec => [](TypeInv /\ ContentInv)
  BY ContentCorrect
<1> QED
  BY <1>1, <1>2, PTL
=============================================================================
