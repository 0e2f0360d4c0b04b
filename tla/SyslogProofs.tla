---------------------------- MODULE SyslogProofs ----------------------------
(***************************************************************************)
(* The syslog listeners (module Syslog): every datagram received is stored *)
(* once, the cap on connections holds, and what a connection stores does   *)
(* not depend on how its bytes were cut into reads.  For any devices,      *)
(* streams, reads, batch size and cap, any number of datagrams, and        *)
(* flushes that fail.  What the framer gives is taken from module          *)
(* FramerProofs.                                                           *)
(***************************************************************************)
EXTENDS Syslog, FramerProofs, FiniteSetTheorems

Bytestring == Seq(STRING)

\* What a buffer holds: framed messages and datagrams.
Items == Bytestring \cup (Peers \X Nat)

Sources == Conns \cup Peers

-----------------------------------------------------------------------------
(* Recursion.                                                              *)

\* A definition by recursion over P: the value at p is base[p] when p is in
\* final, and otherwise made by comb[p] from the value at next[p], which is of
\* lower rank.
Recurs(P, R, K, rank, final, base, next, comb) ==
  /\ K \in Nat /\ rank \in [P -> 0 .. K] /\ R # {}
  /\ base \in [P -> R] /\ next \in [P -> P] /\ comb \in [P -> [R -> R]]
  /\ \A p \in P : p \notin final => rank[next[p]] < rank[p]

Obeys(F, P, final, base, next, comb) ==
  \A p \in P : F[p] = IF p \in final THEN base[p] ELSE comb[p][F[next[p]]]

\* A function that is defined by recursion along next exists, and has its
\* values where its steps have them, when next always leads to a lower rank.
LEMMA Recursion ==
  ASSUME NEW P, NEW R, NEW K, NEW rank, NEW final, NEW base, NEW next,
         NEW comb, Recurs(P, R, K, rank, final, base, next, comb)
  PROVE  \E F \in [P -> R] : Obeys(F, P, final, base, next, comb)
<1>0. /\ K \in Nat /\ rank \in [P -> 0 .. K] /\ R # {}
      /\ base \in [P -> R] /\ next \in [P -> P] /\ comb \in [P -> [R -> R]]
      /\ \A p \in P : p \notin final => rank[next[p]] < rank[p]
  BY DEF Recurs
<1> DEFINE Step(F, p) == IF p \in final THEN base[p] ELSE comb[p][F[next[p]]]
           Sol(F, k) == \A p \in P : rank[p] < k => F[p] = Step(F, p)
           T == {k \in Nat : \E F \in [P -> R] : Sol(F, k)}
<1>1. 0 \in T
  <2>1. PICK r \in R : TRUE
    BY <1>0
  <2>2. [p \in P |-> r] \in [P -> R] /\ Sol([p \in P |-> r], 0)
    BY <1>0
  <2> QED
    BY <2>2
<1>2. ASSUME NEW k \in Nat, k < K + 1, k \in T PROVE k + 1 \in T
  <2>1. PICK F \in [P -> R] : Sol(F, k)
    BY <1>2
  <2> DEFINE G == [p \in P |-> IF rank[p] = k THEN Step(F, p) ELSE F[p]]
  <2>2. \A p \in P : Step(F, p) \in R
    BY <1>0
  <2>3. G \in [P -> R] /\ \A p \in P :
          G[p] = IF rank[p] = k THEN Step(F, p) ELSE F[p]
    BY <2>2
  <2> HIDE DEF G
  <2>4. \A p \in P : rank[p] < k + 1 => Step(G, p) = Step(F, p)
    <3> SUFFICES ASSUME NEW p \in P, rank[p] < k + 1
                 PROVE  Step(G, p) = Step(F, p)
      OBVIOUS
    <3>1. CASE p \in final
      BY <3>1
    <3>2. CASE p \notin final
      <4>1. next[p] \in P /\ rank[next[p]] # k
        BY <1>0, <3>2
      <4> QED
        BY <2>3, <4>1, <3>2
    <3> QED
      BY <3>1, <3>2
  <2> HIDE DEF Step
  <2>5. \A p \in P : rank[p] < k + 1 => G[p] = Step(G, p)
    <3> SUFFICES ASSUME NEW p \in P, rank[p] < k + 1
                 PROVE  G[p] = Step(F, p)
      BY <2>4
    <3>1. CASE rank[p] = k
      BY <3>1, <2>3
    <3>2. CASE rank[p] # k
      <4>0. rank[p] \in Int
        BY <1>0
      <4>1. rank[p] < k
        BY <3>2, <4>0
      <4>2. F[p] = Step(F, p)
        BY <2>1, <4>1
      <4> QED
        BY <2>3, <3>2, <4>2
    <3> QED
      BY <3>1, <3>2
  <2>6. k + 1 \in Nat /\ Sol(G, k + 1)
    BY <2>5
  <2> HIDE DEF Sol
  <2> QED
    BY <2>3, <2>6
<1>3. \A k \in Nat : k < K + 1 /\ k \in T => k + 1 \in T
  BY <1>2
<1> HIDE DEF T
<1>4. K + 1 \in T
  <2>1. \A k \in Nat : k <= K + 1 => k \in T
    <3>1. K + 1 \in Nat
      BY <1>0
    <3> QED
      BY <1>1, <1>3, <3>1, Induction
  <2> QED
    BY <1>0, <2>1
<1>5. PICK F \in [P -> R] : Sol(F, K + 1)
  BY <1>4 DEF T
<1>6. \A p \in P : rank[p] < K + 1
  BY <1>0
<1> HIDE DEF Step
<1>7. \A p \in P : F[p] = Step(F, p)
  BY <1>5, <1>6
<1> QED
  BY <1>5, <1>7 DEF Step, Obeys

\* A number has a value.
LEMMA ValueType ==
  ASSUME NEW s \in Bytestring, IsNumber(s)
  PROVE  Value(s) \in Nat
<1> DEFINE N == Len(s)
           P == 0 .. N
           Step(F, i) == IF i = 0 THEN 0 ELSE 10 * F[i - 1] + Digit[s[i]]
           L == CHOOSE F : F = [i \in P |-> Step(F, i)]
           rank == [i \in P |-> i]
           base == [i \in P |-> 0]
           next == [i \in P |-> IF i = 0 THEN 0 ELSE i - 1]
           comb == [i \in P |-> [v \in Nat |->
                     IF i = 0 THEN 0 ELSE 10 * v + Digit[s[i]]]]
<1>1. N \in Nat /\ \A i \in 1 .. N : Digit[s[i]] \in Nat
  <2>1. \A i \in 1 .. N : s[i] \in DOMAIN Digit
    BY LenProperties DEF IsNumber
  <2>2. \A d \in DOMAIN Digit : Digit[d] \in Nat
    BY DEF Digit
  <2> QED
    BY <2>1, <2>2
<1> HIDE DEF N
<1>2. Recurs(P, Nat, N, rank, {0}, base, next, comb)
  <2>1. \A i \in P : [v \in Nat |-> IF i = 0 THEN 0 ELSE 10 * v + Digit[s[i]]]
                       \in [Nat -> Nat]
    BY <1>1
  <2>2. /\ rank \in [P -> 0 .. N] /\ base \in [P -> Nat]
        /\ comb \in [P -> [Nat -> Nat]] /\ Nat # {}
    BY <1>1, <2>1
  <2>3. next \in [P -> P]
    BY <1>1
  <2>4. \A p \in P : p # 0 => next[p] = p - 1 /\ p - 1 \in P /\ p - 1 < p
    BY <1>1
  <2>5. \A p \in P : rank[p] = p
    OBVIOUS
  <2> HIDE DEF rank, next, base, comb
  <2>6. \A p \in P : p \notin {0} => rank[next[p]] < rank[p]
    <3> SUFFICES ASSUME NEW p \in P, p # 0 PROVE rank[next[p]] < rank[p]
      OBVIOUS
    <3>1. next[p] = p - 1 /\ p - 1 \in P /\ p - 1 < p
      BY <2>4
    <3> QED
      BY <2>5, <3>1
  <2> QED
    BY <1>1, <2>2, <2>3, <2>6 DEF Recurs
<1>3. \A i \in P, v \in Nat : i # 0 => comb[i][v] = 10 * v + Digit[s[i]]
  OBVIOUS
<1>4. \A i \in P : base[i] = 0 /\ (i # 0 => next[i] = i - 1 /\ i - 1 \in P)
  BY <1>1
<1> HIDE DEF rank, base, next, comb
<1>5. PICK F \in [P -> Nat] : Obeys(F, P, {0}, base, next, comb)
  BY <1>2, Recursion
<1>6. \A p \in P : F[p] = Step(F, p)
  <2> SUFFICES ASSUME NEW p \in P PROVE F[p] = Step(F, p)
    OBVIOUS
  <2>1. CASE p = 0
    BY <1>4, <1>5, <2>1 DEF Obeys
  <2>2. CASE p # 0
    <3>1. F[p] = comb[p][F[p - 1]] /\ F[p - 1] \in Nat
      BY <1>4, <1>5, <2>2 DEF Obeys
    <3> QED
      BY <1>3, <2>2, <3>1
  <2> QED
    BY <2>1, <2>2
<1> HIDE DEF Step
<1>7. F = [i \in P |-> Step(F, i)]
  BY <1>5, <1>6
<1>8. L = [i \in P |-> Step(L, i)]
  BY <1>7, Zenon
<1>9. Value(s) = L[N]
  BY Zenon DEF Value, L, Step, N
<1> HIDE DEF L
<1>10. \A i \in P : L[i] = Step(L, i)
  BY <1>8
<1>11. 0 \in {i \in Nat : L[i] \in Nat}
  BY <1>1, <1>10 DEF Step
<1>13. \A i \in Nat : i < N /\ i \in {j \in Nat : L[j] \in Nat}
         => i + 1 \in {j \in Nat : L[j] \in Nat}
  <2> SUFFICES ASSUME NEW i \in Nat, i < N, L[i] \in Nat
               PROVE  L[i + 1] \in Nat
    OBVIOUS
  <2>1. i + 1 \in P /\ i + 1 # 0 /\ i + 1 - 1 = i /\ i + 1 \in 1 .. N
    BY <1>1
  <2>2. L[i + 1] = 10 * L[i] + Digit[s[i + 1]]
    BY <1>10, <2>1 DEF Step
  <2> QED
    BY <1>1, <2>1, <2>2
<1>12. \A i \in Nat : i <= N => i \in {j \in Nat : L[j] \in Nat}
  BY <1>1, <1>11, <1>13, Induction
<1> QED
  BY <1>1, <1>9, <1>12

-----------------------------------------------------------------------------
(* Pieces of a sequence.                                                   *)

\* What is behind the first i and in front of the last ones.
Slice(w, i, j) == SubSeq(w, i + 1, j)

LEMMA SliceIs ==
  ASSUME NEW S, NEW w \in Seq(S), NEW j \in 0 .. Len(w), NEW i \in 0 .. j
  PROVE  /\ Slice(w, i, j) \in Seq(S) /\ Len(Slice(w, i, j)) = j - i
         /\ \A k \in 1 .. j - i : Slice(w, i, j)[k] = w[i + k]
<1>1. /\ Len(w) \in Nat /\ i \in Nat /\ j \in Nat /\ i <= j /\ j <= Len(w)
      /\ \A k \in i + 1 .. j : w[k] \in S
  BY LenProperties, ElementOfSeq
<1>2. /\ SubSeq(w, i + 1, j) \in Seq(S)
      /\ Len(SubSeq(w, i + 1, j)) = IF i + 1 <= j THEN j - (i + 1) + 1 ELSE 0
      /\ \A k \in 1 .. j - (i + 1) + 1 :
           SubSeq(w, i + 1, j)[k] = w[i + 1 + k - 1]
  BY <1>1, SubSeqProperties
<1>3. \A k \in 1 .. j - i : k \in 1 .. j - (i + 1) + 1 /\ i + 1 + k - 1 = i + k
  BY <1>1
<1> QED
  BY <1>1, <1>2, <1>3 DEF Slice

LEMMA SliceOfSlice ==
  ASSUME NEW S, NEW w \in Seq(S), NEW j \in 0 .. Len(w), NEW i \in 0 .. j,
         NEW l \in 0 .. j - i, NEW k \in 0 .. l
  PROVE  Slice(Slice(w, i, j), k, l) = Slice(w, i + k, i + l)
<1>1. /\ Len(w) \in Nat /\ i + l \in 0 .. Len(w) /\ i + k \in 0 .. i + l
      /\ i \in Nat /\ j \in Nat /\ k \in Nat /\ l \in Nat
      /\ (i + l) - (i + k) = l - k
  BY LenProperties
<1>2. PICK u : u = Slice(w, i, j)
  OBVIOUS
<1>3. /\ u \in Seq(S) /\ Len(u) = j - i
      /\ \A n \in 1 .. j - i : u[n] = w[i + n]
  BY <1>2, SliceIs
<1>4. /\ Slice(u, k, l) \in Seq(S) /\ Len(Slice(u, k, l)) = l - k
      /\ \A n \in 1 .. l - k : Slice(u, k, l)[n] = u[k + n]
  <2>1. l \in 0 .. Len(u)
    BY <1>3
  <2> QED
    BY <1>3, <2>1, SliceIs
<1>5. /\ Slice(w, i + k, i + l) \in Seq(S)
      /\ Len(Slice(w, i + k, i + l)) = l - k
      /\ \A n \in 1 .. l - k : Slice(w, i + k, i + l)[n] = w[(i + k) + n]
  <2>1. PICK x, y : x = i + k /\ y = i + l
    OBVIOUS
  <2>2. y \in 0 .. Len(w) /\ x \in 0 .. y /\ y - x = l - k
    BY <1>1, <2>1
  <2>3. /\ Slice(w, x, y) \in Seq(S) /\ Len(Slice(w, x, y)) = y - x
        /\ \A n \in 1 .. y - x : Slice(w, x, y)[n] = w[x + n]
    BY <2>2, SliceIs
  <2> QED
    BY <2>1, <2>2, <2>3
<1>6. \A n \in 1 .. l - k : u[k + n] = w[(i + k) + n]
  <2> SUFFICES ASSUME NEW n \in 1 .. l - k PROVE u[k + n] = w[(i + k) + n]
    OBVIOUS
  <2>1. k + n \in 1 .. j - i /\ i + (k + n) = (i + k) + n
    BY <1>1
  <2> QED
    BY <1>3, <2>1
<1>7. \A n \in 1 .. l - k : Slice(u, k, l)[n] = Slice(w, i + k, i + l)[n]
  BY <1>4, <1>5, <1>6
<1>8. Slice(u, k, l) = Slice(w, i + k, i + l)
  BY <1>4, <1>5, <1>7, SeqEqual
<1> QED
  BY <1>2, <1>8

\* Two pieces side by side are one.
LEMMA SliceJoin ==
  ASSUME NEW S, NEW w \in Seq(S), NEW k \in 0 .. Len(w), NEW j \in 0 .. k,
         NEW i \in 0 .. j
  PROVE  Slice(w, i, j) \o Slice(w, j, k) = Slice(w, i, k)
<1>1. /\ i + 1 \in 1 .. Len(w) + 1 /\ j \in (i + 1) - 1 .. Len(w)
      /\ k \in j .. Len(w)
  BY LenProperties
<1> QED
  BY <1>1, ConcatAdjacentSubSeq DEF Slice

-----------------------------------------------------------------------------
(* One message.                                                            *)

\* The spaces that may end a count, the bytes in front of the first of them,
\* and the end of the message they count.
Spaces(r) == {i \in 1 .. MaxDigits + 1 : i <= Len(r) /\ r[i] = " "}

Header(r) == SubSeq(r, 1, Min(Spaces(r)) - 1)

Length(r) == Min(Spaces(r)) + Value(Header(r))

\* A whole message is there.
Ready(r) ==
  Spaces(r) # {} /\ IsNumber(Header(r)) /\ ~(Len(r) < Length(r))

LEMMA SpaceIs ==
  ASSUME NEW r \in Bytestring, Spaces(r) # {}
  PROVE  /\ Min(Spaces(r)) \in 1 .. Len(r) /\ r[Min(Spaces(r))] = " "
         /\ Min(Spaces(r)) \in Spaces(r)
         /\ \A i \in Spaces(r) : Min(Spaces(r)) <= i
         /\ Header(r) \in Bytestring
<1>1. Len(r) \in Nat /\ MaxDigits \in Nat /\ Spaces(r) \subseteq Nat
  <2>1. Len(r) \in Nat
    BY LenProperties DEF Bytestring
  <2>2. MaxDigits \in Nat
    BY SyslogAssumption
  <2>3. Spaces(r) \subseteq Nat
    <3>1. \A i \in Spaces(r) : i \in 1 .. MaxDigits + 1
      BY Zenon DEF Spaces
    <3> QED
      BY <2>2, <3>1
  <2> QED
    BY <2>1, <2>2, <2>3
<1>2. /\ Min(Spaces(r)) \in Spaces(r)
      /\ \A i \in Spaces(r) : Min(Spaces(r)) <= i
  <2> HIDE DEF Min
  <2> QED
    BY <1>1, MinIs
<1> HIDE DEF Min
<1>3. Min(Spaces(r)) \in 1 .. Len(r) /\ r[Min(Spaces(r))] = " "
  <2>1. PICK m : m = Min(Spaces(r))
    OBVIOUS
  <2>2. m \in 1 .. MaxDigits + 1 /\ m <= Len(r)
    BY <1>2, <2>1, Zenon DEF Spaces
  <2>3. r[m] = " "
    BY <1>2, <2>1, Zenon DEF Spaces
  <2>4. m \in 1 .. Len(r)
    BY <1>1, <2>2
  <2> QED
    BY <2>1, <2>3, <2>4, Zenon
<1>4. Header(r) \in Bytestring
  <2>1. Min(Spaces(r)) - 1 \in 0 .. Len(r) /\ 0 \in 0 .. Min(Spaces(r)) - 1
    <3>1. PICK m : m = Min(Spaces(r))
      OBVIOUS
    <3>2. m \in 1 .. Len(r)
      BY <1>3, <3>1
    <3> QED
      BY <1>1, <3>1, <3>2
  <2>2. Slice(r, 0, Min(Spaces(r)) - 1) \in Bytestring
    BY <2>1, SliceIs DEF Bytestring
  <2> QED
    BY <2>2 DEF Slice, Header
<1> QED
  BY <1>2, <1>3, <1>4

\* A whole message ends within the bytes, behind its count.
LEMMA ReadyIs ==
  ASSUME NEW r \in Bytestring, Ready(r)
  PROVE  /\ Length(r) \in 1 .. Len(r) /\ Min(Spaces(r)) \in 1 .. Length(r)
         /\ SubSeq(r, Min(Spaces(r)) + 1, Length(r)) \in Bytestring
<1>1. Min(Spaces(r)) \in 1 .. Len(r) /\ Header(r) \in Bytestring
  BY SpaceIs DEF Ready
<1>2. Value(Header(r)) \in Nat
  BY <1>1, ValueType DEF Ready
<1>3. Len(r) \in Nat
  BY LenProperties DEF Bytestring
<1> HIDE DEF Min
<1>4. Length(r) \in 1 .. Len(r) /\ Min(Spaces(r)) \in 1 .. Length(r)
  BY <1>1, <1>2, <1>3 DEF Ready, Length
<1>5. Slice(r, Min(Spaces(r)), Length(r)) \in Bytestring
  BY <1>3, <1>4, SliceIs DEF Bytestring
<1> QED
  BY <1>4, <1>5 DEF Slice

-----------------------------------------------------------------------------
(* What is taken of a buffer.                                              *)

Rest(b, p) == SubSeq(b, p + 1, Len(b))

\* The end of the walk at p.
TakeLast(b, p) ==
  LET r == Rest(b, p) IN
  IF Spaces(r) # {} /\ ~IsNumber(Header(r))
  THEN [events |-> Frames(r, FALSE), used |-> p + Framed(r, FALSE)]
  ELSE [events |-> << >>, used |-> p]

\* The walk at p, when F is the walk from behind it.
TakeStep(F, b, p) ==
  LET r == Rest(b, p) IN
  IF Ready(r)
  THEN [events |-> <<SubSeq(r, Min(Spaces(r)) + 1, Length(r))>>
                     \o F[p + Length(r)].events,
        used |-> F[p + Length(r)].used]
  ELSE TakeLast(b, p)

\* What may be taken of b.
Taken(b) == [events : Seq(Bytestring), used : 0 .. Len(b)]

LEMMA RestType ==
  ASSUME NEW b \in Bytestring, NEW p \in 0 .. Len(b)
  PROVE  Rest(b, p) \in Bytestring /\ Len(Rest(b, p)) = Len(b) - p
BY RestIs DEF Rest, Bytestring

LEMMA TakeLastType ==
  ASSUME NEW b \in Bytestring, NEW p \in 0 .. Len(b)
  PROVE  TakeLast(b, p) \in Taken(b)
<1>1. PICK r : r = Rest(b, p)
  OBVIOUS
<1>2. r \in Bytestring /\ Len(r) = Len(b) - p /\ Len(b) \in Nat
  BY <1>1, RestType, LenProperties DEF Bytestring
<1>3. PICK e, k : e = Frames(r, FALSE) /\ k = Framed(r, FALSE)
  OBVIOUS
<1>4. e \in Seq(Bytestring) /\ k \in 0 .. Len(r)
  <2>1. FALSE \in BOOLEAN
    OBVIOUS
  <2> QED
    BY <1>2, <1>3, <2>1, FramesLossless, Zenon DEF Bytestring
<1>5. << >> \in Seq(Bytestring) /\ p + k \in 0 .. Len(b)
  BY <1>2, <1>4, EmptySeq
<1>6. CASE Spaces(r) # {} /\ ~IsNumber(Header(r))
  <2>1. TakeLast(b, p) = [events |-> e, used |-> p + k]
    BY <1>1, <1>3, <1>6, Zenon DEF TakeLast
  <2> QED
    BY <2>1, <1>4, <1>5 DEF Taken
<1>7. CASE ~(Spaces(r) # {} /\ ~IsNumber(Header(r)))
  <2>1. TakeLast(b, p) = [events |-> << >>, used |-> p]
    BY <1>1, <1>7, Zenon DEF TakeLast
  <2> QED
    BY <2>1, <1>5 DEF Taken
<1> QED
  BY <1>6, <1>7

\* take_octet_counted is a walk from the first byte.
LEMMA TakeWalks ==
  ASSUME NEW b \in Bytestring
  PROVE  \E F : /\ TakeOctetCounted(b) = F[0] /\ F[0] \in Taken(b)
                /\ \A p \in 0 .. Len(b) : F[p] = TakeStep(F, b, p)
<1> DEFINE N == Len(b)
           P == 0 .. N
           R == Taken(b)
           Body(F, pos) ==
             LET rest == SubSeq(b, pos + 1, Len(b))
                 spaces == {i \in 1 .. MaxDigits + 1 :
                              i <= Len(rest) /\ rest[i] = " "}
                 sp == Min(spaces)
                 end == sp + Value(SubSeq(rest, 1, sp - 1))
                 more == F[pos + end]
             IN  IF spaces = {} THEN [events |-> << >>, used |-> pos]
                 ELSE IF ~IsNumber(SubSeq(rest, 1, sp - 1))
                 THEN [events |-> Frames(rest, FALSE),
                       used |-> pos + Framed(rest, FALSE)]
                 ELSE IF Len(rest) < end THEN [events |-> << >>, used |-> pos]
                 ELSE [events |-> <<SubSeq(rest, sp + 1, end)>> \o more.events,
                       used |-> more.used]
           L == CHOOSE F : F = [p \in 0 .. Len(b) |-> Body(F, p)]
           Ahead(p) == p + Length(Rest(b, p))
           Message(p) == SubSeq(Rest(b, p), Min(Spaces(Rest(b, p))) + 1,
                                Length(Rest(b, p)))
           final == {p \in P : ~Ready(Rest(b, p))}
           rank == [p \in P |-> N - p]
           base == [p \in P |-> TakeLast(b, p)]
           next == [p \in P |-> IF p \in final THEN p ELSE Ahead(p)]
           comb == [p \in P |-> [r \in R |->
                     IF p \in final THEN r
                     ELSE [events |-> <<Message(p)>> \o r.events,
                           used |-> r.used]]]
<1>1. N \in Nat
  BY LenProperties DEF Bytestring
<1>2. \A F, p : Body(F, p) = TakeStep(F, b, p)
  BY ZenonT(30) DEF TakeStep, TakeLast, Ready, Length, Header, Spaces, Rest
<1> HIDE DEF Body
<1>3. TakeOctetCounted(b) = L[0]
  BY Zenon DEF TakeOctetCounted, L, Body
<1> HIDE DEF L
<1>4. /\ \A p \in P : p \notin final => /\ Length(Rest(b, p)) \in 1 .. N - p
                                        /\ Message(p) \in Bytestring
      /\ \A p \in P : p + 0 = p /\ N - p \in 0 .. N
  <2> SUFFICES ASSUME NEW p \in P
               PROVE  /\ p \notin final => /\ Length(Rest(b, p)) \in 1 .. N - p
                                          /\ Message(p) \in Bytestring
                      /\ p + 0 = p /\ N - p \in 0 .. N
    OBVIOUS
  <2>1. Rest(b, p) \in Bytestring /\ Len(Rest(b, p)) = N - p
    BY RestType
  <2>2. CASE p \in final
    BY <1>1, <2>2
  <2>3. CASE p \notin final
    <3>1. Ready(Rest(b, p))
      BY <2>3
    <3>2. /\ Length(Rest(b, p)) \in 1 .. Len(Rest(b, p))
          /\ Message(p) \in Bytestring
      BY <2>1, <3>1, ReadyIs
    <3> QED
      BY <1>1, <2>1, <3>2
  <2> QED
    BY <2>2, <2>3
<1> HIDE DEF Message
<1>5. \A p \in P : p \notin final => Ahead(p) \in P /\ N - Ahead(p) < N - p
  BY <1>1, <1>4
<1> HIDE DEF Ahead
<1>6. \A p \in P, r \in R : p \notin final =>
        [events |-> <<Message(p)>> \o r.events, used |-> r.used] \in R
  <2> SUFFICES ASSUME NEW p \in P, NEW r \in R, p \notin final
               PROVE  <<Message(p)>> \o r.events \in Seq(Bytestring)
    BY DEF Taken
  <2>1. <<Message(p)>> \in Seq(Bytestring) /\ r.events \in Seq(Bytestring)
    BY <1>4 DEF Taken
  <2> QED
    BY <2>1, ConcatProperties
<1>7. \A p \in P : TakeLast(b, p) \in R
  BY TakeLastType
<1>8. Recurs(P, R, N, rank, final, base, next, comb)
  <2>1. rank \in [P -> 0 .. N] /\ base \in [P -> R]
    BY <1>4, <1>7
  <2>2. next \in [P -> P]
    BY <1>5
  <2>3. comb \in [P -> [R -> R]]
    BY <1>6
  <2>4. R # {}
    BY <1>1, <1>7
  <2>5. \A p \in P : p \notin final => rank[next[p]] < rank[p]
    BY <1>5
  <2> QED
    BY <1>1, <2>1, <2>2, <2>3, <2>4, <2>5 DEF Recurs
<1>9. PICK F \in [P -> R] : Obeys(F, P, final, base, next, comb)
  BY <1>8, Recursion
\* A function obeys this recursion when it is a walk.
<1>10. /\ \A p \in P : p \in final => base[p] = TakeLast(b, p)
       /\ \A p \in P : p \notin final => next[p] = Ahead(p) /\ Ahead(p) \in P
  BY <1>5
<1>20. \A p \in P : \A r \in R : p \notin final =>
         comb[p][r] = [events |-> <<Message(p)>> \o r.events, used |-> r.used]
  OBVIOUS
<1>11. \A p \in P : p \in final <=> ~Ready(Rest(b, p))
  OBVIOUS
<1>13. \A G, p : Ready(Rest(b, p)) =>
         TakeStep(G, b, p) = [events |-> <<Message(p)>> \o G[Ahead(p)].events,
                              used |-> G[Ahead(p)].used]
  BY Zenon DEF TakeStep, Message, Ahead
<1>12. \A G, p : ~Ready(Rest(b, p)) => TakeStep(G, b, p) = TakeLast(b, p)
  BY Zenon DEF TakeStep
<1> HIDE DEF rank, base, next, comb, final
<1>14. \A p \in P : F[p] = TakeStep(F, b, p)
  <2> SUFFICES ASSUME NEW p \in P PROVE F[p] = TakeStep(F, b, p)
    OBVIOUS
  <2>1. CASE p \in final
    <3>1. F[p] = base[p] /\ base[p] = TakeLast(b, p)
      BY <1>9, <1>10, <2>1 DEF Obeys
    <3>2. TakeStep(F, b, p) = TakeLast(b, p)
      BY <1>11, <1>12, <2>1
    <3> QED
      BY <3>1, <3>2
  <2>2. CASE p \notin final
    <3>1. next[p] = Ahead(p) /\ F[Ahead(p)] \in R
      BY <1>9, <1>10, <2>2
    <3>2. F[p] = comb[p][F[Ahead(p)]]
      BY <1>9, <2>2, <3>1 DEF Obeys
    <3>3. F[p] = [events |-> <<Message(p)>> \o F[Ahead(p)].events,
                  used |-> F[Ahead(p)].used]
      <4>1. \A r \in R : comb[p][r] =
              [events |-> <<Message(p)>> \o r.events, used |-> r.used]
        BY <1>20, <2>2
      <4> QED
        BY <4>1, <3>1, <3>2
    <3> QED
      BY <1>11, <1>13, <2>2, <3>3, Zenon
  <2> QED
    BY <2>1, <2>2
<1>15. F = [p \in 0 .. Len(b) |-> Body(F, p)]
  BY <1>2, <1>9, <1>14
<1>16. L = [p \in 0 .. Len(b) |-> Body(L, p)]
  BY <1>15, Zenon DEF L
<1>17. \A p \in P : L[p] = TakeStep(L, b, p)
  BY <1>2, <1>16
\* All that obey have their values in R.
<1>18. \A p \in P : L[p] \in R
  <2> DEFINE T == {k \in Nat : \A p \in P : N - p = k => L[p] \in R}
  <2>1. ASSUME NEW n \in Nat, \A m \in Nat : m < n => m \in T PROVE n \in T
    <3> SUFFICES ASSUME NEW p \in P, N - p = n PROVE L[p] \in R
      OBVIOUS
    <3>1. CASE p \in final
      BY <1>7, <1>11, <1>12, <1>17, <3>1
    <3>2. CASE p \notin final
      <4>1. /\ Ahead(p) \in P /\ N - Ahead(p) \in Nat /\ N - Ahead(p) < n
        BY <1>1, <1>5, <3>2
      <4>2. L[Ahead(p)] \in R
        BY <2>1, <4>1
      <4>3. L[p] = [events |-> <<Message(p)>> \o L[Ahead(p)].events,
                    used |-> L[Ahead(p)].used]
        BY <1>11, <1>13, <1>17, <3>2
      <4> QED
        BY <1>6, <3>2, <4>2, <4>3
    <3> QED
      BY <3>1, <3>2
  <2> HIDE DEF T
  <2>2. \A n \in Nat : n \in T
    BY <2>1, StrongInduction
  <2> QED
    BY <1>1, <2>2 DEF T
<1>19. 0 \in P
  BY <1>1
<1> QED
  BY <1>3, <1>17, <1>18, <1>19

-----------------------------------------------------------------------------
(* Counted messages.                                                       *)

LEMMA NoSpaceIsDigit == " " \notin DOMAIN Digit
BY DEF Digit

\* The bytes of a number are digits.
LEMMA NumberHasDigits ==
  ASSUME NEW r \in Bytestring, NEW h \in 0 .. Len(r),
         IsNumber(SubSeq(r, 1, h))
  PROVE  \A i \in 1 .. h : r[i] \in DOMAIN Digit
<1>1. h \in 0 .. Len(r) /\ 0 \in 0 .. h /\ h \in Nat
  BY LenProperties DEF Bytestring
<1>2. /\ SubSeq(r, 1, h) \in Bytestring /\ Len(SubSeq(r, 1, h)) = h
      /\ \A i \in 1 .. h : SubSeq(r, 1, h)[i] = r[i]
  <2>1. /\ Slice(r, 0, h) \in Bytestring /\ Len(Slice(r, 0, h)) = h - 0
        /\ \A i \in 1 .. h - 0 : Slice(r, 0, h)[i] = r[0 + i]
    BY <1>1, SliceIs DEF Bytestring
  <2>2. Slice(r, 0, h) = SubSeq(r, 1, h)
    BY DEF Slice
  <2>3. h - 0 = h /\ \A i \in 1 .. h : 0 + i = i
    BY <1>1
  <2>4. \A i \in 1 .. h : Slice(r, 0, h)[i] = r[i]
    BY <2>1, <2>3
  <2> QED
    BY <2>1, <2>2, <2>3, <2>4, Zenon
<1>3. \A i \in 1 .. h : SubSeq(r, 1, h)[i] \in DOMAIN Digit
  BY <1>2, LenProperties DEF IsNumber, Bytestring
<1> QED
  BY <1>2, <1>3

SpaceAt(r, i) == r[i] = " "

\* A number and a space are a count.
LEMMA HeaderIs ==
  ASSUME NEW r \in Bytestring, NEW h \in 1 .. MaxDigits, h < Len(r),
         IsNumber(SubSeq(r, 1, h)), SpaceAt(r, h + 1)
  PROVE  /\ Spaces(r) # {} /\ Min(Spaces(r)) = h + 1
         /\ Header(r) = SubSeq(r, 1, h)
         /\ Length(r) = h + 1 + Value(SubSeq(r, 1, h))
<1>1. Len(r) \in Nat /\ MaxDigits \in Nat /\ h \in Nat
  BY LenProperties, SyslogAssumption DEF Bytestring
<1>2. \A i \in 1 .. h : r[i] \in DOMAIN Digit
  <2>1. h \in 0 .. Len(r)
    BY <1>1
  <2> QED
    BY <2>1, NumberHasDigits
<1>3. h + 1 \in Spaces(r)
  <2>1. h + 1 \in 1 .. MaxDigits + 1 /\ h + 1 <= Len(r)
    BY <1>1
  <2> QED
    BY <2>1, Zenon DEF Spaces, SpaceAt
<1>4. \A i \in Spaces(r) : i \in 1 .. MaxDigits + 1 /\ r[i] \notin DOMAIN Digit
  <2>1. \A i \in Spaces(r) : i \in 1 .. MaxDigits + 1 /\ r[i] = " "
    BY Zenon DEF Spaces
  <2> QED
    BY <2>1, NoSpaceIsDigit, Zenon
<1>5. \A i \in Spaces(r) : h + 1 <= i
  BY <1>1, <1>2, <1>4
<1>6. Spaces(r) # {}
  BY <1>3
<1>7. Min(Spaces(r)) = h + 1
  <2>1. PICK m : m = Min(Spaces(r))
    OBVIOUS
  <2>2. m \in Spaces(r) /\ \A i \in Spaces(r) : m <= i
    BY <1>6, <2>1, SpaceIs, Zenon
  <2>3. m <= h + 1 /\ h + 1 <= m /\ m \in Int
    BY <1>3, <1>4, <1>5, <2>2
  <2>4. m = h + 1
    BY <1>1, <2>3
  <2> QED
    BY <2>1, <2>4
<1> HIDE DEF Min
<1>8. (h + 1) - 1 = h
  BY <1>1
<1>9. Header(r) = SubSeq(r, 1, h)
  BY <1>7, <1>8 DEF Header
<1>10. Length(r) = h + 1 + Value(SubSeq(r, 1, h))
  BY <1>7, <1>9 DEF Length
<1> QED
  BY <1>6, <1>7, <1>9, <1>10

\* Of the beginning of a message nothing is taken.
LEMMA UnfinishedWaits ==
  ASSUME NEW r \in Bytestring, Unfinished(r)
  PROVE  ~Ready(r) /\ ~(Spaces(r) # {} /\ ~IsNumber(Header(r)))
<1>1. CASE \A i \in DOMAIN r : r[i] \in DOMAIN Digit
  <2>1. \A i \in Spaces(r) : i \in 1 .. MaxDigits + 1 /\ i <= Len(r)
    BY Zenon DEF Spaces
  <2>2. \A i \in Spaces(r) : r[i] = " "
    BY Zenon DEF Spaces
  <2>3. \A i \in Spaces(r) : i \in DOMAIN r
    <3>1. MaxDigits \in Nat /\ Len(r) \in Nat /\ DOMAIN r = 1 .. Len(r)
      BY LenProperties, SyslogAssumption DEF Bytestring
    <3> QED
      BY <2>1, <3>1
  <2>4. Spaces(r) = {}
    BY <1>1, <2>2, <2>3, NoSpaceIsDigit, Zenon
  <2> QED
    BY <2>4 DEF Ready
<1>2. CASE \E h \in 1 .. MaxDigits :
             /\ h < Len(r) /\ IsNumber(SubSeq(r, 1, h)) /\ r[h + 1] = " "
             /\ Len(r) < h + 1 + Value(SubSeq(r, 1, h))
  <2>1. PICK h \in 1 .. MaxDigits :
             /\ h < Len(r) /\ IsNumber(SubSeq(r, 1, h)) /\ r[h + 1] = " "
             /\ Len(r) < h + 1 + Value(SubSeq(r, 1, h))
    BY <1>2, Zenon
  <2>2. /\ Header(r) = SubSeq(r, 1, h)
        /\ Length(r) = h + 1 + Value(SubSeq(r, 1, h))
    BY <2>1, HeaderIs, Zenon DEF SpaceAt
  <2> QED
    BY <2>1, <2>2, Zenon DEF Ready
<1> QED
  BY <1>1, <1>2, Zenon DEF Unfinished

\* The beginning of the beginning of a message is one.
LEMMA UnfinishedFront ==
  ASSUME NEW r \in Bytestring, Unfinished(r), NEW n \in 0 .. Len(r)
  PROVE  Unfinished(Slice(r, 0, n))
<1>1. PICK u : u = Slice(r, 0, n)
  OBVIOUS
<1>2. Len(r) \in Nat /\ n \in Nat /\ n <= Len(r) /\ 0 \in 0 .. n
  BY LenProperties DEF Bytestring
<1>3. u \in Bytestring /\ Len(u) = n /\ \A i \in 1 .. n : u[i] = r[i]
  <2>1. /\ u \in Bytestring /\ Len(u) = n - 0
        /\ \A i \in 1 .. n - 0 : u[i] = r[0 + i]
    BY <1>1, <1>2, SliceIs DEF Bytestring
  <2> QED
    BY <1>2, <2>1
<1>4. DOMAIN u = 1 .. n /\ DOMAIN r = 1 .. Len(r)
  BY <1>3, LenProperties DEF Bytestring
<1>5. CASE \A i \in DOMAIN r : r[i] \in DOMAIN Digit
  <2>1. \A i \in DOMAIN u : u[i] \in DOMAIN Digit
    BY <1>2, <1>3, <1>4, <1>5
  <2> QED
    BY <1>1, <2>1, Zenon DEF Unfinished
<1>6. CASE \E h \in 1 .. MaxDigits :
             /\ h < Len(r) /\ IsNumber(SubSeq(r, 1, h)) /\ r[h + 1] = " "
             /\ Len(r) < h + 1 + Value(SubSeq(r, 1, h))
  <2>1. PICK h \in 1 .. MaxDigits :
             /\ h < Len(r) /\ IsNumber(SubSeq(r, 1, h)) /\ SpaceAt(r, h + 1)
             /\ Len(r) < h + 1 + Value(SubSeq(r, 1, h))
    BY <1>6, Zenon DEF SpaceAt
  <2>2. h \in Nat /\ h \in 1 .. Len(r) /\ MaxDigits \in Nat
    BY <1>2, <2>1, SyslogAssumption
  <2>3. Value(SubSeq(r, 1, h)) \in Nat
    <3>1. h \in 0 .. Len(r) /\ 0 \in 0 .. h
      BY <2>2
    <3>2. Slice(r, 0, h) \in Bytestring
      BY <3>1, SliceIs DEF Bytestring
    <3>3. SubSeq(r, 1, h) \in Bytestring
      BY <3>2 DEF Slice
    <3> QED
      BY <2>1, <3>3, ValueType
  <2>4. CASE n <= h
    <3>1. n \in 0 .. h /\ 0 \in 0 .. n /\ h \in 0 .. Len(r) /\ 0 \in 0 .. h
      BY <1>2, <2>2, <2>4
    <3>2. \A i \in 1 .. h : r[i] \in DOMAIN Digit
      BY <2>1, <3>1, NumberHasDigits
    <3>3. \A i \in DOMAIN u : u[i] \in DOMAIN Digit
      BY <1>3, <1>4, <3>1, <3>2
    <3> QED
      BY <1>1, <3>3, Zenon DEF Unfinished
  <2>5. CASE ~(n <= h)
    <3>1. h < n /\ h + 1 \in 1 .. n /\ n < h + 1 + Value(SubSeq(r, 1, h))
      BY <1>2, <2>1, <2>2, <2>3, <2>5
    <3>2. SubSeq(u, 1, h) = SubSeq(r, 1, h)
      <4>1. /\ n \in 0 .. Len(r) /\ 0 \in 0 .. n /\ h \in 0 .. n - 0
            /\ 0 \in 0 .. h /\ 0 + 0 = 0 /\ 0 + h = h /\ 0 + 1 = 1
        BY <1>2, <2>2, <3>1
      <4>2. Slice(u, 0, h) = Slice(r, 0 + 0, 0 + h)
        BY <1>1, <4>1, SliceOfSlice DEF Bytestring
      <4> QED
        BY <4>1, <4>2 DEF Slice
    <3>3. SpaceAt(u, h + 1)
      BY <1>3, <2>1, <3>1 DEF SpaceAt
    <3>4. h < Len(u) /\ Len(u) < h + 1 + Value(SubSeq(u, 1, h))
      BY <1>3, <3>1, <3>2
    <3>5. IsNumber(SubSeq(u, 1, h))
      BY <2>1, <3>2
    <3> QED
      BY <1>1, <2>1, <3>3, <3>4, <3>5, Zenon DEF Unfinished, SpaceAt
  <2> QED
    BY <2>4, <2>5
<1> QED
  BY <1>5, <1>6, Zenon DEF Unfinished

\* The payload of the i-th message of s.
Payload(s, i) == SubSeq(s.bytes, s.from[i], s.to[i])

\* Where the messages of a labelled stream are.
LEMMA LabelsAre ==
  ASSUME NEW s \in Streams, s.octets
  PROVE  /\ s.bytes \in Bytestring /\ Len(s.bytes) \in Nat /\ Len(s.to) \in Nat
         /\ \A n \in 0 .. Len(s.to) : After(s, n) \in 0 .. Len(s.bytes)
         /\ \A n \in 1 .. Len(s.to) :
              /\ After(s, n) = s.to[n] /\ s.from[n] \in Nat
              /\ s.from[n] - 2 - After(s, n - 1) \in 1 .. MaxDigits
              /\ s.from[n] - 1 <= After(s, n)
              /\ IsNumber(Count(s, n)) /\ SpaceAt(s.bytes, s.from[n] - 1)
              /\ After(s, n) = s.from[n] - 1 + Value(Count(s, n))
<1>1. /\ s.bytes \in Bytestring /\ s.from \in Seq(Nat) /\ s.to \in Seq(Nat)
  BY SyslogAssumption DEF Stream, Bytestring
<1>2. /\ Len(s.bytes) \in Nat /\ Len(s.to) \in Nat /\ MaxDigits \in Nat
      /\ DOMAIN s.to = 1 .. Len(s.to)
  BY <1>1, LenProperties, SyslogAssumption DEF Bytestring
<1>3. Labelled(s)
  BY StreamsAreLabelled
<1>4. /\ Len(s.from) = Len(s.to)
      /\ \A i \in 1 .. Len(s.to) :
           /\ After(s, i - 1) + 2 < s.from[i]
           /\ s.from[i] <= After(s, i - 1) + 2 + MaxDigits
           /\ IsNumber(Count(s, i)) /\ SpaceAt(s.bytes, s.from[i] - 1)
           /\ s.to[i] = s.from[i] - 1 + Value(Count(s, i))
           /\ s.from[i] <= s.to[i] + 1 /\ s.to[i] <= Len(s.bytes)
  BY <1>2, <1>3, Zenon DEF Labelled, SpaceAt
<1>5. \A i \in 1 .. Len(s.to) : s.to[i] \in Nat /\ s.from[i] \in Nat
  BY <1>1, <1>2, <1>4, ElementOfSeq
<1>6. \A n \in 0 .. Len(s.to) : After(s, n) \in 0 .. Len(s.bytes)
  <2> SUFFICES ASSUME NEW n \in 0 .. Len(s.to)
               PROVE  After(s, n) \in 0 .. Len(s.bytes)
    OBVIOUS
  <2>1. CASE n = 0
    BY <1>2, <2>1 DEF After
  <2>2. CASE n # 0
    <3>1. n \in 1 .. Len(s.to)
      BY <1>2, <2>2
    <3>2. s.to[n] \in 0 .. Len(s.bytes)
      <4>1. s.to[n] \in Nat
        BY <1>5, <3>1
      <4>2. s.to[n] <= Len(s.bytes)
        BY <1>4, <3>1
      <4> QED
        BY <1>2, <4>1, <4>2
    <3> QED
      BY <2>2, <3>2 DEF After
  <2> QED
    BY <2>1, <2>2
<1>7. ASSUME NEW n \in 1 .. Len(s.to)
      PROVE  /\ After(s, n) = s.to[n] /\ s.from[n] \in Nat
             /\ s.from[n] - 2 - After(s, n - 1) \in 1 .. MaxDigits
             /\ s.from[n] - 1 <= After(s, n)
             /\ IsNumber(Count(s, n)) /\ SpaceAt(s.bytes, s.from[n] - 1)
             /\ After(s, n) = s.from[n] - 1 + Value(Count(s, n))
  <2>1. n \in Nat /\ n # 0 /\ n - 1 \in 0 .. Len(s.to)
    BY <1>2
  <2>2. After(s, n) = s.to[n] /\ s.from[n] \in Nat /\ s.to[n] \in Nat
    BY <1>5, <2>1 DEF After
  <2>3. After(s, n - 1) \in Nat /\ After(s, n - 1) <= Len(s.bytes)
    BY <1>6, <2>1
  <2>4. /\ After(s, n - 1) + 2 < s.from[n]
        /\ s.from[n] <= After(s, n - 1) + 2 + MaxDigits
        /\ s.to[n] = s.from[n] - 1 + Value(Count(s, n))
        /\ s.from[n] <= s.to[n] + 1 /\ s.to[n] <= Len(s.bytes)
        /\ IsNumber(Count(s, n)) /\ SpaceAt(s.bytes, s.from[n] - 1)
    BY <1>4
  <2>5. s.from[n] - 2 - After(s, n - 1) \in 1 .. MaxDigits
    BY <1>2, <2>2, <2>3, <2>4, SMTT(30)
  <2>7. s.from[n] - 1 <= After(s, n)
    BY <2>2, <2>4
  <2> QED
    BY <2>2, <2>4, <2>5, <2>7
<1> QED
  BY <1>1, <1>2, <1>6, <1>7

\* What lies behind n messages and in front of m: the next message in front,
\* or, when it is not whole, the beginning of one.
LEMMA MessageIs ==
  ASSUME NEW s \in Streams, s.octets, NEW n \in 1 .. Len(s.to),
         NEW m \in After(s, n - 1) .. Len(s.bytes),
         NEW r, r = Slice(s.bytes, After(s, n - 1), m)
  PROVE  /\ r \in Bytestring /\ Len(r) = m - After(s, n - 1)
         /\ After(s, n) <= m =>
              /\ Ready(r) /\ Length(r) = After(s, n) - After(s, n - 1)
              /\ SubSeq(r, Min(Spaces(r)) + 1, Length(r)) = Payload(s, n)
         /\ m < After(s, n) => Unfinished(r)
<1>1. PICK w, a, f, z, h :
        /\ w = s.bytes /\ a = After(s, n - 1) /\ f = s.from[n]
        /\ z = After(s, n) /\ h = s.from[n] - 2 - After(s, n - 1)
  OBVIOUS
<1>2. /\ w \in Bytestring /\ Len(w) \in Nat /\ Len(s.to) \in Nat
      /\ a \in 0 .. Len(w) /\ z \in 0 .. Len(w) /\ f \in Nat
      /\ h \in 1 .. MaxDigits /\ f - 1 <= z /\ z = s.to[n]
  <2>1. n - 1 \in 0 .. Len(s.to) /\ n \in 0 .. Len(s.to)
    BY LabelsAre
  <2> QED
    BY <1>1, <2>1, LabelsAre
<1>3. /\ IsNumber(Count(s, n)) /\ SpaceAt(w, f - 1)
      /\ z = f - 1 + Value(Count(s, n))
  BY <1>1, LabelsAre
<1>4. MaxDigits \in Nat
  BY SyslogAssumption
<1>5. m \in 0 .. Len(w) /\ a \in 0 .. m /\ h \in Nat /\ f = a + h + 2
  <2>1. m \in a .. Len(w) /\ h = f - 2 - a
    BY <1>1
  <2> QED
    BY <1>2, <1>4, <2>1
<1>6. r = Slice(w, a, m)
  BY <1>1
<1>7. /\ r \in Bytestring /\ Len(r) = m - a
      /\ \A k \in 1 .. m - a : r[k] = w[a + k]
  <2>1. /\ Slice(w, a, m) \in Bytestring /\ Len(Slice(w, a, m)) = m - a
        /\ \A k \in 1 .. m - a : Slice(w, a, m)[k] = w[a + k]
    BY <1>2, <1>5, SliceIs DEF Bytestring
  <2> QED
    BY <1>6, <2>1
<1>8. Count(s, n) = Slice(w, a, a + h)
  <2>1. f - 2 = a + h
    BY <1>5
  <2> QED
    BY <1>1, <2>1 DEF Count, Slice
<1>9. a + h \in 0 .. Len(w) /\ a \in 0 .. a + h /\ (a + h) - a = h
  BY <1>2, <1>5
<1>10. h <= m - a => SubSeq(r, 1, h) = Count(s, n)
  <2> SUFFICES ASSUME h <= m - a PROVE SubSeq(r, 1, h) = Count(s, n)
    OBVIOUS
  <2>1. h \in 0 .. m - a /\ 0 \in 0 .. h /\ a + 0 = a /\ 0 + 1 = 1
    BY <1>5
  <2>2. Slice(Slice(w, a, m), 0, h) = Slice(w, a + 0, a + h)
    BY <1>2, <1>5, <2>1, SliceOfSlice DEF Bytestring
  <2>3. Slice(r, 0, h) = SubSeq(r, 1, h)
    BY DEF Slice
  <2> QED
    BY <1>6, <1>8, <2>1, <2>2, <2>3
<1>11. h < m - a => SpaceAt(r, h + 1)
  <2> SUFFICES ASSUME h < m - a PROVE SpaceAt(r, h + 1)
    OBVIOUS
  <2>1. h + 1 \in 1 .. m - a /\ a + (h + 1) = f - 1
    BY <1>5
  <2>2. r[h + 1] = w[f - 1]
    BY <1>7, <2>1
  <2> QED
    BY <1>3, <2>2, Zenon DEF SpaceAt
<1>12. /\ Count(s, n) \in Bytestring /\ Len(Count(s, n)) = h
       /\ Value(Count(s, n)) \in Nat
  <2>1. Count(s, n) \in Bytestring /\ Len(Count(s, n)) = h
    BY <1>2, <1>8, <1>9, SliceIs DEF Bytestring
  <2> QED
    BY <1>3, <2>1, ValueType
<1>13. h < m - a => /\ Min(Spaces(r)) = h + 1 /\ Spaces(r) # {}
                    /\ Header(r) = Count(s, n) /\ Length(r) = z - a
  <2> SUFFICES ASSUME h < m - a
               PROVE  /\ Min(Spaces(r)) = h + 1 /\ Spaces(r) # {}
                      /\ Header(r) = Count(s, n) /\ Length(r) = z - a
    OBVIOUS
  <2>1. h < Len(r) /\ h <= m - a
    BY <1>5, <1>7
  <2>2. /\ Min(Spaces(r)) = h + 1 /\ Spaces(r) # {}
        /\ Header(r) = SubSeq(r, 1, h)
        /\ Length(r) = h + 1 + Value(SubSeq(r, 1, h))
    BY <1>2, <1>3, <1>7, <1>10, <1>11, <2>1, HeaderIs
  <2> HIDE DEF Min
  <2>3. h + 1 + Value(Count(s, n)) = z - a
    BY <1>2, <1>3, <1>5, <1>12
  <2> QED
    BY <1>10, <2>1, <2>2, <2>3
<1>14. CASE z <= m
  <2>1. h < m - a /\ z - a <= m - a /\ ~(m < z)
    BY <1>2, <1>5, <1>14, SMTT(30)
  <2>2. /\ Min(Spaces(r)) = h + 1 /\ Spaces(r) # {}
        /\ Header(r) = Count(s, n) /\ Length(r) = z - a
    BY <1>13, <2>1
  <2> HIDE DEF Min
  <2>3. ~(Len(r) < z - a)
    BY <1>2, <1>5, <1>7, <2>1, SMTT(30)
  <2>4. Ready(r)
    BY <1>3, <2>2, <2>3 DEF Ready
  <2>5. SubSeq(r, h + 1 + 1, z - a) = Payload(s, n)
    <3>1. h + 1 \in 0 .. z - a /\ z - a \in 0 .. m - a
      BY <1>2, <1>5, <2>1
    <3>2. Slice(Slice(w, a, m), h + 1, z - a)
            = Slice(w, a + (h + 1), a + (z - a))
      <4>1. PICK x, y : x = h + 1 /\ y = z - a
        OBVIOUS
      <4>2. w \in Seq(STRING) /\ m \in 0 .. Len(w) /\ a \in 0 .. m
        BY <1>2, <1>5 DEF Bytestring
      <4>3. Slice(Slice(w, a, m), x, y) = Slice(w, a + x, a + y)
        BY <3>1, <4>1, <4>2, SliceOfSlice
      <4> QED
        BY <4>1, <4>3
    <3>3. a + (h + 1) + 1 = f /\ a + (z - a) = z
      BY <1>2, <1>5, SMTT(30)
    <3>4. Slice(w, a + (h + 1), a + (z - a)) = SubSeq(w, f, z)
      BY <3>3 DEF Slice
    <3>5. SubSeq(r, h + 1 + 1, z - a) = SubSeq(w, f, z)
      BY <1>6, <3>2, <3>4 DEF Slice
    <3> QED
      BY <1>1, <1>2, <3>5 DEF Payload
  <2> QED
    BY <1>1, <1>7, <2>1, <2>2, <2>4, <2>5
<1>15. CASE m < z
  <2>1. ~(z <= m) /\ Len(r) < z - a
    BY <1>2, <1>5, <1>7, <1>15, SMTT(30)
  <2>2. CASE h < m - a
    <3>1. h < Len(r) /\ h <= m - a
      BY <1>5, <1>7, <2>2
    <3>2. z - a = h + 1 + Value(Count(s, n))
      BY <1>2, <1>3, <1>5, <1>12
    <3>3. /\ IsNumber(SubSeq(r, 1, h)) /\ SpaceAt(r, h + 1)
          /\ Len(r) < h + 1 + Value(SubSeq(r, 1, h))
      BY <1>3, <1>10, <1>11, <2>1, <2>2, <3>1, <3>2
    <3>4. Unfinished(r)
      BY <1>2, <3>1, <3>3, Zenon DEF Unfinished, SpaceAt
    <3> QED
      BY <1>1, <1>7, <2>1, <3>4
  <2>3. CASE ~(h < m - a)
    <3>1. \A k \in 1 .. h : Slice(w, a, a + h)[k] = w[a + k]
      <4>1. \A k \in 1 .. (a + h) - a : Slice(w, a, a + h)[k] = w[a + k]
        BY <1>2, <1>9, SliceIs DEF Bytestring
      <4> QED
        BY <1>9, <4>1
    <3>2. \A k \in 1 .. h : Count(s, n)[k] \in DOMAIN Digit
      <4>1. DOMAIN Count(s, n) = 1 .. h
        BY <1>12, LenProperties DEF Bytestring
      <4> QED
        BY <1>3, <4>1 DEF IsNumber
    <3>3. \A k \in 1 .. m - a : r[k] \in DOMAIN Digit
      <4> SUFFICES ASSUME NEW k \in 1 .. m - a PROVE r[k] \in DOMAIN Digit
        OBVIOUS
      <4>1. k \in 1 .. h
        BY <1>5, <2>3
      <4>2. r[k] = Count(s, n)[k]
        BY <1>7, <1>8, <3>1, <4>1
      <4> QED
        BY <3>2, <4>1, <4>2
    <3>4. DOMAIN r = 1 .. m - a
      BY <1>7, LenProperties DEF Bytestring
    <3>5. Unfinished(r)
      BY <3>3, <3>4, Zenon DEF Unfinished
    <3> QED
      BY <1>1, <1>7, <2>1, <3>5
  <2> QED
    BY <2>2, <2>3
<1> QED
  BY <1>2, <1>5, <1>14, <1>15

LEMMA PayloadType ==
  ASSUME NEW s \in Streams, s.octets, NEW n \in 1 .. Len(s.to)
  PROVE  Payload(s, n) \in Bytestring
<1>1. /\ s.bytes \in Bytestring /\ Len(s.bytes) \in Nat
      /\ n \in 0 .. Len(s.to)
  BY LabelsAre
<1>2. After(s, n) \in 0 .. Len(s.bytes)
  BY <1>1, LabelsAre
<1>3. n - 1 \in 0 .. Len(s.to)
  BY LabelsAre
<1>4. After(s, n - 1) \in 0 .. Len(s.bytes)
  BY <1>3, LabelsAre
<1>5. /\ After(s, n) = s.to[n] /\ s.from[n] \in Nat
      /\ s.from[n] - 2 - After(s, n - 1) \in 1 .. MaxDigits
      /\ s.from[n] - 1 <= After(s, n)
  BY LabelsAre
<1>6. MaxDigits \in Nat
  BY SyslogAssumption
<1>7. s.from[n] - 1 \in 0 .. After(s, n) /\ s.from[n] - 1 + 1 = s.from[n]
  <2>1. PICK f, a, z : f = s.from[n] /\ a = After(s, n - 1) /\ z = After(s, n)
    OBVIOUS
  <2>2. f - 1 \in 0 .. z /\ f - 1 + 1 = f
    <3>1. /\ z \in Nat /\ a \in Nat /\ f \in Nat /\ MaxDigits \in Nat
          /\ f - 2 - a \in 1 .. MaxDigits /\ f - 1 <= z
      BY <1>1, <1>2, <1>4, <1>5, <1>6, <2>1
    <3> QED
      BY <3>1
  <2> QED
    BY <2>1, <2>2
<1>8. Slice(s.bytes, s.from[n] - 1, After(s, n)) \in Bytestring
  BY <1>1, <1>2, <1>7, SliceIs DEF Bytestring
<1> QED
  BY <1>5, <1>7, <1>8 DEF Slice, Payload

\* Messages end one behind the other.
LEMMA AfterAscends ==
  ASSUME NEW s \in Streams, s.octets
  PROVE  /\ \A n \in 1 .. Len(s.to) : After(s, n - 1) < After(s, n)
         /\ \A n \in 0 .. Len(s.to) : \A k \in n .. Len(s.to) :
              After(s, n) <= After(s, k)
<1> DEFINE A(n) == After(s, n)
<1>1. Len(s.to) \in Nat /\ \A n \in 0 .. Len(s.to) : A(n) \in Nat
  BY LabelsAre
<1>2. ASSUME NEW n \in 1 .. Len(s.to) PROVE A(n - 1) < A(n)
  <2>1. /\ s.from[n] - 2 - A(n - 1) \in 1 .. MaxDigits
        /\ s.from[n] - 1 <= A(n) /\ s.from[n] \in Nat
    BY LabelsAre
  <2>2. A(n - 1) \in Nat /\ A(n) \in Nat /\ MaxDigits \in Nat
    <3>1. n - 1 \in 0 .. Len(s.to) /\ n \in 0 .. Len(s.to)
      BY <1>1
    <3> QED
      BY <1>1, <3>1, SyslogAssumption
  <2> HIDE DEF A
  <2> QED
    BY <2>1, <2>2
<1> HIDE DEF A
<1>3. ASSUME NEW n \in 0 .. Len(s.to)
      PROVE  \A k \in n .. Len(s.to) : A(n) <= A(k)
  <2> DEFINE T == {d \in Nat : n + d <= Len(s.to) => A(n) <= A(n + d)}
  <2>1. 0 \in T
    BY <1>1
  <2>2. ASSUME NEW d \in Nat, d < Len(s.to), d \in T PROVE d + 1 \in T
    <3> SUFFICES ASSUME n + (d + 1) <= Len(s.to) PROVE A(n) <= A(n + (d + 1))
      OBVIOUS
    <3>1. /\ n + d + 1 \in 1 .. Len(s.to) /\ (n + d + 1) - 1 = n + d
          /\ n + (d + 1) = n + d + 1 /\ n + d <= Len(s.to)
          /\ n + d \in 0 .. Len(s.to) /\ n + d + 1 \in 0 .. Len(s.to)
      BY <1>1
    <3>2. A(n + d) < A(n + d + 1) /\ A(n) <= A(n + d)
      BY <1>2, <2>2, <3>1
    <3> QED
      BY <1>1, <3>1, <3>2
  <2>3. \A d \in Nat : d < Len(s.to) /\ d \in T => d + 1 \in T
    BY <2>2
  <2> HIDE DEF T
  <2>4. \A d \in Nat : d <= Len(s.to) => d \in T
    BY <1>1, <2>1, <2>3, Induction
  <2> SUFFICES ASSUME NEW k \in n .. Len(s.to) PROVE A(n) <= A(k)
    OBVIOUS
  <2>5. k - n \in Nat /\ k - n <= Len(s.to) /\ n + (k - n) = k
    BY <1>1
  <2> QED
    BY <2>4, <2>5 DEF T
<1> QED
  BY <1>2, <1>3 DEF A

\* What follows the last whole message among the first m bytes is the
\* beginning of one.
LEMMA RestUnfinished ==
  ASSUME NEW s \in Streams, s.octets, NEW n \in 0 .. Len(s.to),
         NEW m \in After(s, n) .. Len(s.bytes),
         n < Len(s.to) => m < After(s, n + 1)
  PROVE  Unfinished(Slice(s.bytes, After(s, n), m))
<1>1. /\ s.bytes \in Bytestring /\ Len(s.bytes) \in Nat /\ Len(s.to) \in Nat
      /\ After(s, n) \in 0 .. Len(s.bytes)
  BY LabelsAre
<1>2. CASE n < Len(s.to)
  <2>1. n + 1 \in 1 .. Len(s.to) /\ (n + 1) - 1 = n
    BY <1>1, <1>2
  <2>2. m \in After(s, (n + 1) - 1) .. Len(s.bytes)
    BY <2>1
  <2>3. Unfinished(Slice(s.bytes, After(s, (n + 1) - 1), m))
    BY <1>2, <2>1, <2>2, MessageIs
  <2> QED
    BY <2>1, <2>3
<1>3. CASE ~(n < Len(s.to))
  <2>1. n = Len(s.to)
    BY <1>1, <1>3
  <2>2. PICK a, l, w : a = After(s, n) /\ l = Len(s.bytes) /\ w = s.bytes
    OBVIOUS
  <2>3. /\ l = Len(w) /\ w \in Bytestring /\ l \in Nat /\ a \in 0 .. l
        /\ m \in a .. l
    BY <1>1, <2>2
  <2>4. Unfinished(Slice(w, a, l))
    BY <2>1, <2>2, StreamsAreLabelled, Zenon DEF Labelled, Slice
  <2>5. /\ Slice(w, a, l) \in Bytestring /\ Len(Slice(w, a, l)) = l - a
    <3>1. l \in 0 .. Len(w) /\ a \in 0 .. l
      BY <2>3
    <3> QED
      BY <2>3, <3>1, SliceIs DEF Bytestring
  <2>6. /\ m - a \in 0 .. l - a /\ 0 \in 0 .. m - a /\ l \in 0 .. Len(w)
        /\ a + 0 = a /\ a + (m - a) = m
    BY <2>3
  <2>7. Slice(Slice(w, a, l), 0, m - a) = Slice(w, a + 0, a + (m - a))
    BY <2>3, <2>6, SliceOfSlice DEF Bytestring
  <2>8. Unfinished(Slice(Slice(w, a, l), 0, m - a))
    BY <2>4, <2>5, <2>6, UnfinishedFront
  <2> QED
    BY <2>2, <2>6, <2>7, <2>8
<1> QED
  BY <1>2, <1>3

\* The messages behind the first n and up to the k-th.
Messages(s, n, k) == [i \in 1 .. k - n |-> Payload(s, n + i)]

LEMMA MessagesAre ==
  ASSUME NEW s \in Streams, s.octets, NEW k \in 0 .. Len(s.to), NEW n \in 0 .. k
  PROVE  /\ Messages(s, n, k) \in Seq(Bytestring)
         /\ Len(Messages(s, n, k)) = k - n
         /\ \A i \in 1 .. k - n : Messages(s, n, k)[i] = Payload(s, n + i)
         /\ Messages(s, k, k) = << >>
<1>1. Len(s.to) \in Nat
  BY LabelsAre
<1>2. \A i \in 1 .. k - n : Payload(s, n + i) \in Bytestring
  <2> SUFFICES ASSUME NEW i \in 1 .. k - n
               PROVE  Payload(s, n + i) \in Bytestring
    OBVIOUS
  <2>1. n + i \in 1 .. Len(s.to)
    BY <1>1
  <2> QED
    BY <2>1, PayloadType
<1>3. k - n \in Nat /\ k - k = 0
  BY <1>1
<1> QED
  BY <1>2, <1>3 DEF Messages

LEMMA MessagesJoin ==
  ASSUME NEW s \in Streams, s.octets, NEW k \in 0 .. Len(s.to),
         NEW m \in 0 .. k, NEW n \in 0 .. m
  PROVE  Messages(s, n, m) \o Messages(s, m, k) = Messages(s, n, k)
<1>1. /\ Len(s.to) \in Nat /\ m \in 0 .. Len(s.to) /\ n \in 0 .. k
      /\ n \in Nat /\ m \in Nat /\ k \in Nat /\ n <= m /\ m <= k
  BY LabelsAre
<1>2. PICK u, v, w : /\ u = Messages(s, n, m) /\ v = Messages(s, m, k)
                     /\ w = Messages(s, n, k)
  OBVIOUS
<1>3. /\ u \in Seq(Bytestring) /\ Len(u) = m - n
      /\ \A i \in 1 .. m - n : u[i] = Payload(s, n + i)
  BY <1>1, <1>2, MessagesAre
<1>4. /\ v \in Seq(Bytestring) /\ Len(v) = k - m
      /\ \A i \in 1 .. k - m : v[i] = Payload(s, m + i)
  BY <1>1, <1>2, MessagesAre
<1>5. /\ w \in Seq(Bytestring) /\ Len(w) = k - n
      /\ \A i \in 1 .. k - n : w[i] = Payload(s, n + i)
  BY <1>1, <1>2, MessagesAre
<1>6. /\ u \o v \in Seq(Bytestring) /\ Len(u \o v) = Len(u) + Len(v)
      /\ \A i \in 1 .. Len(u) + Len(v) :
           (u \o v)[i] = IF i <= Len(u) THEN u[i] ELSE v[i - Len(u)]
  BY <1>3, <1>4, ConcatProperties
<1>7. Len(u \o v) = Len(w)
  BY <1>1, <1>3, <1>4, <1>5, <1>6
<1>8. \A i \in 1 .. Len(u \o v) : (u \o v)[i] = w[i]
  <2> SUFFICES ASSUME NEW i \in 1 .. Len(u \o v) PROVE (u \o v)[i] = w[i]
    OBVIOUS
  <2>1. i \in 1 .. k - n /\ i \in 1 .. Len(u) + Len(v) /\ i \in Nat
    BY <1>1, <1>5, <1>6, <1>7
  <2>2. CASE i <= Len(u)
    <3>1. i \in 1 .. m - n /\ (u \o v)[i] = u[i]
      BY <1>1, <1>3, <1>6, <2>1, <2>2
    <3> QED
      BY <1>3, <1>5, <2>1, <3>1
  <2>3. CASE ~(i <= Len(u))
    <3>1. /\ i - Len(u) \in 1 .. k - m /\ (u \o v)[i] = v[i - Len(u)]
          /\ m + (i - Len(u)) = n + i
      BY <1>1, <1>3, <1>6, <2>1, <2>3
    <3> QED
      BY <1>4, <1>5, <2>1, <3>1
  <2> QED
    BY <2>2, <2>3
<1>9. u \o v = w
  BY <1>5, <1>6, <1>7, <1>8, SeqEqual
<1> QED
  BY <1>2, <1>9

\* Of counted messages those that are whole are taken, each by itself
\* (take_octet_counted).
LEMMA CountedTaken ==
  ASSUME NEW s \in Streams, s.octets, NEW k \in 0 .. Len(s.to),
         NEW n \in 0 .. k, NEW m \in After(s, k) .. Len(s.bytes),
         k < Len(s.to) => m < After(s, k + 1),
         NEW b, b = Slice(s.bytes, After(s, n), m)
  PROVE  TakeOctetCounted(b) = [events |-> Messages(s, n, k),
                                used |-> After(s, k) - After(s, n)]
<1> DEFINE A(i) == After(s, i)
           w == s.bytes
           At(j) == A(j) - A(n)
           Found(F, j) == F[At(j)] = [events |-> Messages(s, j, k),
                                      used |-> At(k)]
<1>1. /\ w \in Bytestring /\ Len(w) \in Nat /\ Len(s.to) \in Nat
      /\ \A i \in 0 .. Len(s.to) : A(i) \in 0 .. Len(w)
      /\ \A i \in 0 .. Len(s.to) : \A j \in i .. Len(s.to) : A(i) <= A(j)
  BY LabelsAre, AfterAscends
<1> HIDE DEF w
<1>2. /\ m \in A(k) .. Len(w) /\ m \in Nat /\ A(n) \in Nat /\ A(k) \in Nat
      /\ \A j \in n .. k : /\ j \in 0 .. Len(s.to) /\ A(j) \in Nat
                           /\ A(n) <= A(j) /\ A(j) <= A(k) /\ A(k) <= m
  <2>1. m \in A(k) .. Len(w)
    BY DEF w
  <2>2. A(k) \in Nat /\ m \in Nat /\ A(k) <= m
    BY <1>1, <2>1
  <2>3. \A j \in n .. k : /\ j \in 0 .. Len(s.to) /\ n \in 0 .. Len(s.to)
                          /\ k \in j .. Len(s.to) /\ j \in n .. Len(s.to)
    BY <1>1
  <2>4. n \in n .. k
    OBVIOUS
  <2> HIDE DEF A
  <2> QED
    BY <1>1, <2>1, <2>2, <2>3, <2>4
<1>3. b \in Bytestring /\ Len(b) = m - A(n)
  <2>1. m \in 0 .. Len(w) /\ A(n) \in 0 .. m
    BY <1>1, <1>2
  <2> QED
    <3>1. PICK v, a : v = w /\ a = A(n)
      OBVIOUS
    <3>2. v \in Seq(STRING) /\ m \in 0 .. Len(v) /\ a \in 0 .. m
      BY <1>1, <2>1, <3>1 DEF Bytestring
    <3>3. Slice(v, a, m) \in Seq(STRING) /\ Len(Slice(v, a, m)) = m - a
      BY <3>2, SliceIs
    <3>4. b = Slice(v, a, m)
      BY <3>1 DEF w
    <3> QED
      BY <3>1, <3>3, <3>4 DEF Bytestring
<1>4. PICK F : /\ TakeOctetCounted(b) = F[0]
               /\ \A p \in 0 .. Len(b) : F[p] = TakeStep(F, b, p)
  BY <1>3, TakeWalks
<1>5. \A j \in n .. k : /\ At(j) \in 0 .. Len(b)
                        /\ Rest(b, At(j)) = Slice(w, A(j), m)
  <2> SUFFICES ASSUME NEW j \in n .. k
               PROVE  /\ At(j) \in 0 .. Len(b)
                      /\ Rest(b, At(j)) = Slice(w, A(j), m)
    OBVIOUS
  <2>1. PICK a, z : a = A(n) /\ z = A(j)
    OBVIOUS
  <2>2. /\ a \in 0 .. m /\ m \in 0 .. Len(w) /\ m - a \in 0 .. m - a
        /\ z - a \in 0 .. m - a /\ a + (z - a) = z /\ a + (m - a) = m
        /\ Len(b) = m - a
    BY <1>1, <1>2, <1>3, <2>1
  <2>3. b = Slice(w, a, m)
    BY <2>1 DEF w
  <2>4. Slice(Slice(w, a, m), z - a, m - a) = Slice(w, a + (z - a), a + (m - a))
    BY <1>1, <2>2, SliceOfSlice DEF Bytestring
  <2>5. Rest(b, z - a) = Slice(w, z, m)
    BY <2>2, <2>3, <2>4 DEF Rest, Slice
  <2> QED
    BY <2>1, <2>2, <2>5
<1> HIDE DEF A
<1>6. Found(F, k)
  <2>1. k \in n .. k
    OBVIOUS
  <2>2. Unfinished(Slice(w, A(k), m))
    BY <1>2, RestUnfinished DEF A, w
  <2>3. Rest(b, At(k)) \in Bytestring
    BY <1>3, <1>5, <2>1, RestType
  <2>4. TakeStep(F, b, At(k)) = TakeLast(b, At(k))
    BY <1>5, <2>1, <2>2, <2>3, UnfinishedWaits, Zenon DEF TakeStep
  <2>5. TakeLast(b, At(k)) = [events |-> << >>, used |-> At(k)]
    BY <1>5, <2>1, <2>2, <2>3, UnfinishedWaits, Zenon DEF TakeLast
  <2>6. F[At(k)] = [events |-> << >>, used |-> At(k)]
    BY <1>4, <1>5, <2>1, <2>4, <2>5
  <2>7. Messages(s, k, k) = << >>
    BY MessagesAre
  <2> QED
    BY <2>6, <2>7
<1>7. ASSUME NEW j \in n .. k, j < k, Found(F, j + 1) PROVE Found(F, j)
  <2>1. PICK r : r = Slice(w, A(j), m)
    OBVIOUS
  <2>2. /\ j + 1 \in 1 .. Len(s.to) /\ (j + 1) - 1 = j /\ j + 1 \in n .. k
        /\ j \in 0 .. j + 1 /\ j + 1 \in 0 .. k /\ j \in 0 .. Len(s.to)
    BY <1>1, <1>7
  <2>3. m \in A(j) .. Len(w) /\ A(j + 1) <= m
    <3>1. A(j) <= m /\ A(j) \in Nat /\ A(j + 1) <= m
      BY <1>2, <2>2
    <3> QED
      BY <1>1, <1>2, <3>1
  <2>4. /\ Ready(r) /\ Length(r) = A(j + 1) - A(j)
        /\ SubSeq(r, Min(Spaces(r)) + 1, Length(r)) = Payload(s, j + 1)
    <3>1. m \in After(s, (j + 1) - 1) .. Len(s.bytes)
      BY <2>2, <2>3 DEF A, w
    <3>2. r = Slice(s.bytes, After(s, (j + 1) - 1), m)
      BY <2>1, <2>2 DEF A, w
    <3>3. After(s, j + 1) <= m
      BY <2>3 DEF A
    <3> QED
      BY <2>2, <3>1, <3>2, <3>3, MessageIs DEF A
  <2>5. At(j) + Length(r) = At(j + 1)
    BY <1>2, <2>2, <2>4
  <2>6. Rest(b, At(j)) = r /\ F[At(j)] = TakeStep(F, b, At(j))
    BY <1>4, <1>5, <2>1
  <2>7. TakeStep(F, b, At(j))
          = [events |-> <<Payload(s, j + 1)>> \o F[At(j + 1)].events,
             used |-> F[At(j + 1)].used]
    BY <2>4, <2>5, <2>6, Zenon DEF TakeStep
  <2>8. F[At(j)] = [events |-> <<Payload(s, j + 1)>> \o Messages(s, j + 1, k),
                    used |-> At(k)]
    BY <1>7, <2>6, <2>7
  <2>9. Messages(s, j, j + 1) = <<Payload(s, j + 1)>>
    <3>1. (j + 1) - j = 1 /\ 1 .. 1 = {1}
      BY <2>2
    <3> QED
      BY <3>1 DEF Messages
  <2>10. Messages(s, j, j + 1) \o Messages(s, j + 1, k) = Messages(s, j, k)
    BY <2>2, MessagesJoin
  <2> QED
    BY <2>8, <2>9, <2>10
<1> DEFINE T == {d \in Nat : d <= k - n => Found(F, k - d)}
<1>8. 0 \in T
  BY <1>6
<1>9. ASSUME NEW d \in Nat, d < k - n, d \in T PROVE d + 1 \in T
  <2>1. /\ k - (d + 1) \in n .. k /\ k - (d + 1) < k /\ d <= k - n
        /\ k - (d + 1) + 1 = k - d
    BY <1>1, <1>9
  <2>2. Found(F, k - d)
    BY <1>9, <2>1
  <2> HIDE DEF Found
  <2>3. Found(F, k - (d + 1))
    BY <1>7, <2>1, <2>2
  <2> QED
    BY <2>3
<1>10. \A d \in Nat : d < k - n /\ d \in T => d + 1 \in T
  BY <1>9
<1> HIDE DEF T
<1>11. k - n \in Nat /\ k - n <= k - n /\ k - (k - n) = n
  BY <1>1
<1>12. \A d \in Nat : d <= k - n => d \in T
  BY <1>8, <1>10, <1>11, Induction
<1>13. Found(F, n)
  BY <1>11, <1>12 DEF T
<1>14. At(n) = 0 /\ At(k) = A(k) - A(n)
  BY <1>2
<1> QED
  BY <1>4, <1>13, <1>14 DEF A

-----------------------------------------------------------------------------
(* How many messages are whole.                                            *)

\* The messages that end within the first a bytes.
Whole(s, a) == Cardinality({i \in DOMAIN s.to : s.to[i] <= a})

LEMMA WholeIs ==
  ASSUME NEW s \in Streams, s.octets, NEW a \in 0 .. Len(s.bytes)
  PROVE  /\ Whole(s, a) \in 0 .. Len(s.to) /\ After(s, Whole(s, a)) <= a
         /\ Whole(s, a) < Len(s.to) => a < After(s, Whole(s, a) + 1)
<1> DEFINE L == Len(s.to)
           A(i) == After(s, i)
           T == {i \in 1 .. L : a < A(i)}
<1>1. /\ L \in Nat /\ a \in Nat /\ DOMAIN s.to = 1 .. L
      /\ \A i \in 0 .. L : A(i) \in Nat
      /\ \A i \in 0 .. L : \A j \in i .. L : A(i) <= A(j)
      /\ A(0) = 0 /\ \A i \in 1 .. L : A(i) = s.to[i]
  <2>1. DOMAIN s.to = 1 .. L
    BY SyslogAssumption, LenProperties DEF Stream
  <2> QED
    BY <2>1, LabelsAre, AfterAscends DEF After
<1> HIDE DEF A, L
<1>2. PICK k \in 0 .. L : A(k) <= a /\ (k < L => a < A(k + 1))
  <2>1. CASE T = {}
    <3>1. L \in 0 .. L /\ A(L) <= a
      <4>1. CASE L = 0
        BY <1>1, <4>1
      <4>2. CASE L # 0
        <5>1. L \in 1 .. L /\ L \in 0 .. L /\ A(L) \in Nat
          BY <1>1, <4>2
        <5> QED
          BY <1>1, <2>1, <5>1
      <4> QED
        BY <4>1, <4>2
    <3> QED
      BY <1>1, <3>1
  <2>2. CASE T # {}
    <3>1. T \subseteq Nat
      BY <1>1
    <3>2. PICK f : f \in T /\ \A i \in T : f <= i
      BY <2>2, <3>1, MinIs
    <3>3. /\ f \in 1 .. L /\ a < A(f) /\ f - 1 \in 0 .. L /\ (f - 1) + 1 = f
          /\ f - 1 \notin T
      BY <1>1, <3>2
    <3>4. A(f - 1) <= a
      <4>1. CASE f = 1
        BY <1>1, <4>1
      <4>2. CASE f # 1
        <5>1. f - 1 \in 1 .. L /\ A(f - 1) \in Nat
          BY <1>1, <3>3, <4>2
        <5> QED
          BY <1>1, <3>3, <5>1
      <4> QED
        BY <4>1, <4>2
    <3> QED
      BY <3>3, <3>4
  <2> QED
    BY <2>1, <2>2
<1>3. {i \in 1 .. L : s.to[i] <= a} = 1 .. k
  <2>1. ASSUME NEW i \in 1 .. L PROVE s.to[i] <= a <=> i <= k
    <3>1. /\ i \in 0 .. L /\ A(i) = s.to[i] /\ A(i) \in Nat /\ k \in Nat
          /\ A(k) \in Nat
      BY <1>1
    <3>2. CASE i <= k
      <4>1. k \in i .. L
        BY <1>1, <3>2
      <4> QED
        BY <1>1, <1>2, <3>1, <3>2, <4>1
    <3>3. CASE ~(i <= k)
      <4>1. k < L /\ k + 1 \in 0 .. L /\ i \in k + 1 .. L /\ A(k + 1) \in Nat
        BY <1>1, <3>3
      <4>2. A(k + 1) <= A(i)
        BY <1>1, <4>1
      <4> QED
        BY <1>1, <1>2, <3>1, <3>3, <4>1, <4>2
    <3> QED
      BY <3>2, <3>3
  <2> QED
    BY <1>1, <2>1
<1>4. Cardinality(1 .. k) = k
  <2>1. 1 \in Int /\ k \in Int /\ (IF 1 > k THEN 0 ELSE k - 1 + 1) = k
    BY <1>1
  <2> QED
    BY <2>1, FS_Interval
<1>5. Whole(s, a) = k
  BY <1>1, <1>3, <1>4 DEF Whole
<1> QED
  BY <1>2, <1>5 DEF A, L

\* With more bytes there are no fewer messages; without bytes there is none.
LEMMA WholeGrows ==
  ASSUME NEW s \in Streams, s.octets, NEW z \in 0 .. Len(s.bytes),
         NEW a \in 0 .. z
  PROVE  Whole(s, a) <= Whole(s, z) /\ Whole(s, 0) = 0
<1> DEFINE L == Len(s.to)
           A(i) == After(s, i)
<1>1. /\ L \in Nat /\ a \in Nat /\ z \in Nat /\ Len(s.bytes) \in Nat
      /\ a \in 0 .. Len(s.bytes) /\ 0 \in 0 .. Len(s.bytes)
      /\ \A i \in 0 .. L : A(i) \in Nat
      /\ \A i \in 0 .. L : \A j \in i .. L : A(i) <= A(j)
      /\ \A i \in 1 .. L : A(i - 1) < A(i)
  BY LabelsAre, AfterAscends
<1>2. PICK k, l, o : k = Whole(s, a) /\ l = Whole(s, z) /\ o = Whole(s, 0)
  OBVIOUS
<1>3. /\ k \in 0 .. L /\ A(k) <= a
      /\ l \in 0 .. L /\ (l < L => z < A(l + 1))
      /\ o \in 0 .. L /\ A(o) <= 0
  BY <1>1, <1>2, WholeIs
<1> HIDE DEF A, L
<1>4. k <= l
  <2> SUFFICES ASSUME ~(k <= l) PROVE FALSE
    OBVIOUS
  <2>1. l < L /\ l + 1 \in 0 .. L /\ k \in l + 1 .. L
    BY <1>1, <1>3
  <2>2. A(l + 1) <= A(k) /\ A(l + 1) \in Nat /\ A(k) \in Nat
    BY <1>1, <1>3, <2>1
  <2> QED
    BY <1>1, <1>3, <2>1, <2>2
<1>5. o = 0
  <2> SUFFICES ASSUME o # 0 PROVE FALSE
    OBVIOUS
  <2>1. o \in 1 .. L /\ o - 1 \in 0 .. L
    BY <1>1, <1>3
  <2>2. A(o - 1) < A(o) /\ A(o - 1) \in Nat /\ A(o) \in Nat
    BY <1>1, <1>3, <2>1
  <2> QED
    BY <1>3, <2>2
<1> QED
  BY <1>2, <1>4, <1>5

-----------------------------------------------------------------------------
(* The inductive invariant.                                                *)

\* The types, in full.
Typed ==
  /\ TypeOK
  /\ pending \in [Conns -> Bytestring]
  /\ pb \in [Sources -> Seq(Items)] /\ stored \in [Sources -> Seq(Items)]
  /\ \A c \in Conns : at[c] <= Len(stream[c].bytes)

\* The open connections can be counted, and the cap holds.
Capped == IsFiniteSet(Open) /\ ConnectionsCapped

\* Stored and buffered are what was received from p; a thread that is done
\* has nothing buffered.
GramsKept(p) ==
  /\ udp # "failed" =>
       stored[p] \o pb[p] = [i \in 1 .. grams[p] |-> Gram(p, i)]
  /\ udp = "done" => pb[p] = << >>

\* Nothing was read from c.
Fresh(c) ==
  /\ at[c] = 0 /\ mode[c] = "unknown" /\ pending[c] = << >>
  /\ pb[c] = << >> /\ stored[c] = << >>

\* c has not ended, or not begun.
Running(c) == conn[c] \in {"none", "open", "closed"}

\* A connection is undecided only while nothing was read.
Undecided(c) ==
  conn[c] = "none" \/ (Running(c) /\ mode[c] = "unknown") => Fresh(c)

\* Whatever comes behind d is framed as h, and then as what comes behind r.
FramedAs(d, h, r) ==
  \A x \in Bytestring : Frames(d \o x, TRUE) = h \o Frames(r \o x, TRUE)

\* Until a connection counts octets, what was read is framed as what is stored
\* and buffered and then what is withheld, whatever may still come.
LinesKept(c) ==
  /\ Running(c) /\ mode[c] # "octets" =>
       FramedAs(BytesRead(c), stored[c] \o pb[c], pending[c])
  /\ conn[c] = "done" /\ mode[c] = "lines" =>
       stored[c] = Frames(BytesRead(c), TRUE)

\* Until a connection is framed by lines: stored and buffered are the messages
\* read whole, and the rest is pending.
CountsKept(c) ==
  LET s == stream[c]
      n == Whole(s, at[c])
      rest == Slice(s.bytes, After(s, n), at[c])
  IN  s.octets =>
        /\ Running(c) /\ mode[c] # "lines" =>
             stored[c] \o pb[c] = Messages(s, 0, n) /\ pending[c] = rest
        /\ conn[c] = "done" /\ mode[c] = "octets" =>
             stored[c] = Messages(s, 0, n)
                         \o (IF rest = << >> THEN << >> ELSE <<rest>>)

ConnKept(c) == Undecided(c) /\ LinesKept(c) /\ CountsKept(c)

ListenersInv ==
  /\ Typed /\ Capped
  /\ \A p \in Peers : GramsKept(p)
  /\ \A c \in Conns : ConnKept(c)

-----------------------------------------------------------------------------
(* Handing over.                                                           *)

\* The state of every source other than s, and what is the same for all.
Others(s) ==
  /\ pb' \in [Sources -> Seq(Items)] /\ stored' \in [Sources -> Seq(Items)]
  /\ \A t \in Sources : t # s => pb'[t] = pb[t] /\ stored'[t] = stored[t]
  /\ \A t \in Sources : Len(pb'[t]) < FlushEvents
  /\ fails' \in 0 .. MaxFails

\* A buffer that is kept or handed over loses nothing (PeerBuf::push,
\* PeerBuf::flush).
LEMMA Handed ==
  ASSUME Typed, NEW s \in Sources, NEW events \in Seq(Items),
         Keep(s, events) \/ Flush(s, events)
  PROVE  /\ Others(s) /\ stop' = stop
         /\ stored'[s] \o pb'[s] = stored[s] \o events
<1>1. /\ pb \in [Sources -> Seq(Items)] /\ stored \in [Sources -> Seq(Items)]
      /\ fails \in 0 .. MaxFails /\ FlushEvents \in Nat \ {0}
      /\ \A t \in Sources : Len(pb[t]) < FlushEvents
  BY SyslogAssumption DEF Typed, TypeOK, Sources
<1>2. << >> \in Seq(Items) /\ Len(<< >>) = 0
  BY EmptySeq
<1>3. CASE Keep(s, events)
  BY <1>1, <1>3 DEF Keep, Others
<1>4. CASE Flush(s, events)
  <2>1. stored[s] \o events \in Seq(Items)
    BY <1>1, ConcatProperties
  <2>2. (stored[s] \o events) \o << >> = stored[s] \o events
    BY <2>1, ConcatEmptySeq
  <2> QED
    BY <1>1, <1>2, <1>4, <2>1, <2>2 DEF Flush, Others
<1> QED
  BY <1>3, <1>4

\* A flush that hands a buffer over empties it.
LEMMA Flushed ==
  ASSUME Typed, NEW s \in Sources, NEW events \in Seq(Items),
         Flush(s, events)
  PROVE  stored'[s] = stored[s] \o events /\ pb'[s] = << >>
BY DEF Flush, Typed

\* A flush that fails touches its own source only (flush_or_stop).
LEMMA NotHanded ==
  ASSUME Typed, NEW s \in Sources, NEW events \in Seq(Items),
         FlushFails(s, events)
  PROVE  Others(s)
<1>1. /\ pb \in [Sources -> Seq(Items)] /\ stored \in [Sources -> Seq(Items)]
      /\ fails \in 0 .. MaxFails /\ FlushEvents \in Nat \ {0}
      /\ \A t \in Sources : Len(pb[t]) < FlushEvents /\ MaxFails \in Nat
  BY SyslogAssumption DEF Typed, TypeOK, Sources
<1>2. << >> \in Seq(Items) /\ Len(<< >>) = 0
  BY EmptySeq
<1>3. PICK n \in 0 .. Len(events) :
        stored' = [stored EXCEPT ![s] = @ \o SubSeq(events, 1, n)]
  BY DEF FlushFails
<1>4. SubSeq(events, 1, n) \in Seq(Items)
  BY SubSeqProperties
<1>5. stored[s] \o SubSeq(events, 1, n) \in Seq(Items)
  BY <1>1, <1>4, ConcatProperties
<1>6. fails' = fails + 1 /\ fails < MaxFails /\ pb' = [pb EXCEPT ![s] = << >>]
  BY DEF FlushFails
<1> QED
  BY <1>1, <1>2, <1>3, <1>5, <1>6 DEF Others

-----------------------------------------------------------------------------
(* What a step leaves alone.                                               *)

LEMMA PeerUnchanged ==
  ASSUME NEW p \in Peers, GramsKept(p), udp' = udp, grams'[p] = grams[p],
         pb'[p] = pb[p], stored'[p] = stored[p]
  PROVE  GramsKept(p)'
BY DEF GramsKept

LEMMA ConnUnchanged ==
  ASSUME NEW c \in Conns, ConnKept(c), stream' = stream, at'[c] = at[c],
         conn'[c] = conn[c], mode'[c] = mode[c], pending'[c] = pending[c],
         pb'[c] = pb[c], stored'[c] = stored[c]
  PROVE  ConnKept(c)'
BY DEF ConnKept, Undecided, LinesKept, CountsKept, Fresh, Running, BytesRead

\* A connection that is over in a failure promises nothing more.
LEMMA ConnOver ==
  ASSUME NEW c \in Conns, conn'[c] \in {"failed", "refused"}
  PROVE  ConnKept(c)'
BY DEF ConnKept, Undecided, LinesKept, CountsKept, Running

\* A step of one source leaves the others as they were.
LEMMA SourceStep ==
  ASSUME ListenersInv, NEW s \in Sources, Others(s), stream' = stream,
         \A c \in Conns : c # s => /\ at'[c] = at[c] /\ conn'[c] = conn[c]
                                  /\ mode'[c] = mode[c]
                                  /\ pending'[c] = pending[c],
         s \in Conns => udp' = udp /\ grams' = grams
  PROVE  /\ \A c \in Conns : c # s => ConnKept(c)'
         /\ s \in Conns => \A p \in Peers : GramsKept(p)'
<1>1. \A t \in Sources : t # s => pb'[t] = pb[t] /\ stored'[t] = stored[t]
  BY DEF Others
<1>2. \A c \in Conns : c # s => ConnKept(c)'
  <2> SUFFICES ASSUME NEW c \in Conns, c # s PROVE ConnKept(c)'
    OBVIOUS
  <2>1. ConnKept(c) /\ pb'[c] = pb[c] /\ stored'[c] = stored[c]
    BY <1>1 DEF ListenersInv, Sources
  <2> QED
    BY <2>1, ConnUnchanged
<1>3. s \in Conns => \A p \in Peers : GramsKept(p)'
  <2> SUFFICES ASSUME s \in Conns, NEW p \in Peers PROVE GramsKept(p)'
    OBVIOUS
  <2>1. p # s
    BY SyslogAssumption
  <2>2. GramsKept(p) /\ pb'[p] = pb[p] /\ stored'[p] = stored[p]
    BY <1>1, <2>1 DEF ListenersInv, Sources
  <2> QED
    BY <2>2, PeerUnchanged
<1> QED
  BY <1>2, <1>3

\* A step that opens no connection keeps the cap.
LEMMA CapKept ==
  ASSUME Capped, \A c \in Conns :
           conn'[c] \in {"open", "closed"} => conn[c] \in {"open", "closed"}
  PROVE  Capped'
<1>1. Open' \subseteq Open
  BY DEF Open
<1>2. IsFiniteSet(Open') /\ Cardinality(Open') <= Cardinality(Open)
  BY <1>1, FS_Subset DEF Capped
<1>3. Cardinality(Open) \in Nat /\ Cardinality(Open') \in Nat
  BY <1>2, FS_CardinalityType DEF Capped
<1>4. MaxConns \in Nat
  BY SyslogAssumption
<1> QED
  BY <1>2, <1>3, <1>4 DEF Capped, ConnectionsCapped

-----------------------------------------------------------------------------
(* Initial states, and a connection that is accepted.                      *)

\* The bytes read, in one piece.
LEMMA ReadType ==
  ASSUME Typed, NEW c \in Conns
  PROVE  /\ stream[c] \in Streams /\ stream[c].bytes \in Bytestring
         /\ Len(stream[c].bytes) \in Nat /\ at[c] \in 0 .. Len(stream[c].bytes)
         /\ BytesRead(c) = Slice(stream[c].bytes, 0, at[c])
         /\ BytesRead(c) \in Bytestring
<1>1. stream[c] \in Streams /\ at[c] \in Nat /\ at[c] <= Len(stream[c].bytes)
  BY DEF Typed, TypeOK
<1>2. stream[c].bytes \in Bytestring
  BY <1>1, SyslogAssumption DEF Stream, Bytestring
<1>3. Len(stream[c].bytes) \in Nat
  BY <1>2, LenProperties DEF Bytestring
<1>4. at[c] \in 0 .. Len(stream[c].bytes) /\ 0 \in 0 .. at[c] /\ 0 + 1 = 1
  BY <1>1, <1>3
<1>5. BytesRead(c) = Slice(stream[c].bytes, 0, at[c])
  BY <1>4 DEF BytesRead, Slice
<1>6. Slice(stream[c].bytes, 0, at[c]) \in Bytestring
  BY <1>2, <1>4, SliceIs DEF Bytestring
<1> QED
  BY <1>1, <1>2, <1>3, <1>4, <1>5, <1>6

LEMMA FreshKept ==
  ASSUME Typed, NEW c \in Conns, Fresh(c), conn[c] = "none"
  PROVE  ConnKept(c)
<1>1. /\ at[c] = 0 /\ mode[c] = "unknown" /\ pending[c] = << >>
      /\ stored[c] = << >> /\ pb[c] = << >>
  BY DEF Fresh
<1>2. << >> \in Seq(Items) /\ << >> \o << >> = << >>
  BY EmptySeq, ConcatEmptySeq
<1>3. LinesKept(c)
  <2>1. BytesRead(c) = << >>
    BY <1>1, SubSeqEmpty DEF BytesRead
  <2> SUFFICES ASSUME NEW x \in Bytestring
               PROVE  Frames(BytesRead(c) \o x, TRUE)
                        = (stored[c] \o pb[c]) \o Frames(pending[c] \o x, TRUE)
    BY <1>1 DEF LinesKept, FramedAs
  <2>2. PICK e : e = Frames(<< >> \o x, TRUE)
    OBVIOUS
  <2>3. e \in Seq(Bytestring)
    <3>1. << >> \o x \in Seq(STRING) /\ TRUE \in BOOLEAN
      BY ConcatEmptySeq DEF Bytestring
    <3> QED
      BY <2>2, <3>1, FramesLossless, Zenon DEF Bytestring
  <2>4. << >> \o e = e
    BY <2>3, ConcatEmptySeq
  <2> QED
    BY <1>1, <1>2, <2>1, <2>2, <2>4, Zenon
<1>4. CountsKept(c)
  <2> SUFFICES ASSUME stream[c].octets
               PROVE  CountsKept(c)
    BY DEF CountsKept
  <2>1. PICK s : s = stream[c]
    OBVIOUS
  <2>2. s \in Streams /\ 0 \in 0 .. Len(s.bytes) /\ s.octets
    BY <1>1, <2>1, ReadType
  <2>3. Whole(s, at[c]) = 0
    BY <1>1, <2>2, WholeGrows
  <2>4. Messages(s, 0, 0) = << >>
    <3>1. 0 \in 0 .. Len(s.to) /\ 0 \in 0 .. 0
      BY <2>2, LabelsAre
    <3> QED
      BY <2>2, <3>1, MessagesAre
  <2>5. Slice(s.bytes, After(s, 0), 0) = << >>
    BY SubSeqEmpty DEF Slice, After
  <2> QED
    BY <1>1, <1>2, <2>1, <2>3, <2>4, <2>5 DEF CountsKept
<1> QED
  BY <1>3, <1>4 DEF ConnKept, Undecided

LEMMA InitSound == Init => ListenersInv
<1> SUFFICES ASSUME Init PROVE ListenersInv
  OBVIOUS
<1>1. << >> \in Seq(Items) /\ << >> \in Bytestring /\ Len(<< >>) = 0
  BY EmptySeq DEF Bytestring
<1>2. /\ {MaxConns, FlushEvents} \subseteq Nat \ {0}
      /\ MaxGrams \in Nat /\ MaxFails \in Nat
  BY SyslogAssumption
<1>3. \A s \in Streams : Len(s.bytes) \in Nat
  BY SyslogAssumption, LenProperties DEF Stream
<1>4. Typed
  <2>1. TypeOK
    <3>1. \A s \in Conns \cup Peers : Len(pb[s]) < FlushEvents
      BY <1>1, <1>2 DEF Init
    <3>2. stream \in [Conns -> Streams] /\ at \in [Conns -> Nat]
      BY DEF Init
    <3>4. 0 \in 0 .. MaxGrams /\ 0 \in 0 .. MaxFails
      BY <1>2
    <3>5. /\ grams \in [Peers -> 0 .. MaxGrams] /\ fails \in 0 .. MaxFails
          /\ stop \in BOOLEAN
      BY <3>4 DEF Init
    <3>3. /\ conn \in [Conns -> {"none", "open", "closed", "done", "failed",
                                 "refused"}]
          /\ mode \in [Conns -> {"unknown", "octets", "lines"}]
          /\ tcp \in {"up", "done"} /\ udp \in {"up", "done", "failed"}
      BY DEF Init
    <3> QED
      BY <3>1, <3>2, <3>3, <3>5 DEF TypeOK
  <2>2. /\ pending \in [Conns -> Bytestring]
        /\ pb \in [Sources -> Seq(Items)] /\ stored \in [Sources -> Seq(Items)]
    BY <1>1 DEF Init, Sources
  <2>3. \A c \in Conns : at[c] <= Len(stream[c].bytes)
    BY <1>3 DEF Init
  <2> QED
    BY <2>1, <2>2, <2>3 DEF Typed
<1>5. Capped
  <2>1. Open = {}
    BY DEF Init, Open
  <2> QED
    BY <1>2, <2>1, FS_EmptySet DEF Capped, ConnectionsCapped
<1>6. \A p \in Peers : GramsKept(p)
  <2> SUFFICES ASSUME NEW p \in Peers PROVE GramsKept(p)
    OBVIOUS
  <2>1. stored[p] = << >> /\ pb[p] = << >> /\ grams[p] = 0 /\ udp = "up"
    BY DEF Init
  <2>2. << >> \o << >> = << >>
    BY <1>1, ConcatEmptySeq
  <2>3. [i \in 1 .. 0 |-> Gram(p, i)] = << >>
    OBVIOUS
  <2> QED
    BY <2>1, <2>2, <2>3 DEF GramsKept
<1>7. \A c \in Conns : ConnKept(c)
  BY <1>4, FreshKept DEF Init, Fresh
<1> QED
  BY <1>4, <1>5, <1>6, <1>7 DEF ListenersInv

\* A connection is accepted while there is room, or refused (tcp_listener).
LEMMA AcceptSound ==
  ASSUME ListenersInv, NEW c \in Conns, Accept(c)
  PROVE  ListenersInv'
<1>1. /\ conn[c] = "none"
      /\ conn' = [conn EXCEPT ![c] = IF Cardinality(Open) >= MaxConns
                                     THEN "refused" ELSE "open"]
      /\ UNCHANGED <<stream, at, mode, pending, pb, tcp, udp, grams, stored,
                     stop, fails>>
  BY DEF Accept
<1>2. conn \in [Conns -> {"none", "open", "closed", "done", "failed",
                          "refused"}]
  BY DEF ListenersInv, Typed, TypeOK
<1>3. /\ conn'[c] \in {"refused", "open"}
      /\ \A d \in Conns : d # c => conn'[d] = conn[d]
  BY <1>1, <1>2
<1>4. Typed'
  BY <1>1, <1>2 DEF ListenersInv, Typed, TypeOK
<1>5. Capped'
  <2>1. CASE Cardinality(Open) >= MaxConns
    <3>1. conn'[c] = "refused"
      BY <1>1, <1>2, <2>1
    <3>2. \A d \in Conns : conn'[d] \in {"open", "closed"} =>
                             conn[d] \in {"open", "closed"}
      BY <1>3, <3>1
    <3> QED
      BY <3>2, CapKept DEF ListenersInv
  <2>2. CASE ~(Cardinality(Open) >= MaxConns)
    <3>1. conn'[c] = "open"
      BY <1>1, <1>2, <2>2
    <3>2. Open' = Open \cup {c}
      BY <1>3, <3>1 DEF Open
    <3>3. IsFiniteSet(Open)
      BY DEF ListenersInv, Capped
    <3>4. /\ IsFiniteSet(Open') /\ Cardinality(Open') <= Cardinality(Open) + 1
          /\ Cardinality(Open) \in Nat /\ Cardinality(Open') \in Nat
      BY <3>2, <3>3, FS_AddElement, FS_CardinalityType
    <3>5. MaxConns \in Nat
      BY SyslogAssumption
    <3> QED
      BY <2>2, <3>4, <3>5 DEF Capped, ConnectionsCapped
  <2> QED
    BY <2>1, <2>2
<1>6. \A p \in Peers : GramsKept(p)'
  BY <1>1, PeerUnchanged DEF ListenersInv
<1>7. \A d \in Conns : ConnKept(d)'
  <2> SUFFICES ASSUME NEW d \in Conns PROVE ConnKept(d)'
    OBVIOUS
  <2>1. ConnKept(d)
    BY DEF ListenersInv
  <2>2. CASE d # c
    BY <1>1, <1>3, <2>1, <2>2, ConnUnchanged
  <2>3. CASE d = c /\ conn'[c] = "refused"
    BY <2>3, ConnOver
  <2>4. CASE d = c /\ conn'[c] = "open"
    BY <1>1, <2>1, <2>4
       DEF ConnKept, Undecided, LinesKept, CountsKept, Fresh, Running, BytesRead
  <2> QED
    BY <1>3, <2>2, <2>3, <2>4
<1> QED
  BY <1>4, <1>5, <1>6, <1>7 DEF ListenersInv

-----------------------------------------------------------------------------
(* Datagrams.                                                              *)

\* The types after a step that reads no stream.
LEMMA TypedKept ==
  ASSUME Typed, NEW s \in Sources, Others(s), stream' = stream, at' = at,
         mode' = mode, pending' \in [Conns -> Bytestring],
         conn' \in [Conns -> {"none", "open", "closed", "done", "failed",
                              "refused"}],
         tcp' = tcp, udp' \in {"up", "done", "failed"},
         grams' \in [Peers -> 0 .. MaxGrams], stop' \in BOOLEAN
  PROVE  Typed'
BY DEF Typed, TypeOK, Others, Sources

\* A datagram is an event behind those buffered (udp_listener).
LEMMA ReceiveSound ==
  ASSUME ListenersInv, NEW p \in Peers, Receive(p)
  PROVE  ListenersInv'
<1> DEFINE events == Append(pb[p], Gram(p, grams[p] + 1))
<1>1. /\ udp = "up" /\ grams[p] < MaxGrams
      /\ grams' = [grams EXCEPT ![p] = @ + 1]
      /\ \/ (Keep(p, events) \/ Flush(p, events)) /\ udp' = udp
         \/ FlushFails(p, events) /\ stop' = TRUE /\ udp' = "failed"
      /\ UNCHANGED <<stream, at, conn, mode, pending, tcp>>
  BY DEF Receive
<1>2. /\ Typed /\ Capped /\ GramsKept(p) /\ p \in Sources
      /\ grams \in [Peers -> 0 .. MaxGrams] /\ MaxGrams \in Nat
      /\ pb[p] \in Seq(Items) /\ stored[p] \in Seq(Items) /\ stop \in BOOLEAN
  BY SyslogAssumption DEF ListenersInv, Typed, TypeOK, Sources
<1>3. PICK n, e : n = grams[p] /\ e = Gram(p, grams[p] + 1)
  OBVIOUS
<1>4. n \in Nat /\ e \in Items /\ grams'[p] = n + 1 /\ n + 1 \in 0 .. MaxGrams
  BY <1>1, <1>2, <1>3 DEF Items, Gram
<1>5. events \in Seq(Items) /\ events = pb[p] \o <<e>>
  BY <1>2, <1>3, <1>4, AppendProperties, AppendIsConcat
<1> HIDE DEF events
<1>6. Others(p) /\ stop' \in BOOLEAN
  BY <1>1, <1>2, <1>5, Handed, NotHanded
<1>7. Typed'
  <2>1. grams' \in [Peers -> 0 .. MaxGrams]
    BY <1>1, <1>2, <1>4
  <2>2. udp' \in {"up", "done", "failed"}
    BY <1>1
  <2> QED
    BY <1>1, <1>2, <1>6, <2>1, <2>2, TypedKept DEF Typed, TypeOK
<1>8. Capped'
  BY <1>1, <1>2, CapKept
<1>9. \A c \in Conns : ConnKept(c)'
  <2>1. \A c \in Conns : c # p
    BY SyslogAssumption
  <2>2. p \notin Conns
    BY SyslogAssumption
  <2> QED
    BY <1>1, <1>2, <1>6, <2>1, <2>2, SourceStep
<1>10. GramsKept(p)'
  <2>1. CASE udp' = "failed"
    BY <2>1 DEF GramsKept
  <2>2. CASE udp' # "failed"
    <3>1. stored'[p] \o pb'[p] = stored[p] \o events /\ udp' = "up"
      BY <1>1, <1>2, <1>5, <2>2, Handed
    <3>2. <<e>> \in Seq(Items)
      BY <1>4
    <3>3. stored[p] \o events = (stored[p] \o pb[p]) \o <<e>>
      <4>1. PICK x, y, z : x = stored[p] /\ y = pb[p] /\ z = <<e>>
        OBVIOUS
      <4>2. x \in Seq(Items) /\ y \in Seq(Items) /\ z \in Seq(Items)
        BY <1>2, <3>2, <4>1
      <4>3. (x \o y) \o z = x \o (y \o z)
        BY <4>2, ConcatAssociative
      <4> QED
        BY <1>5, <4>1, <4>3
    <3>4. stored[p] \o pb[p] = [i \in 1 .. n |-> Gram(p, i)]
      BY <1>1, <1>2, <1>3 DEF GramsKept
    <3>5. [i \in 1 .. n |-> Gram(p, i)] \o <<e>>
            = [i \in 1 .. n + 1 |-> Gram(p, i)]
      <4> DEFINE u == [i \in 1 .. n |-> Gram(p, i)]
                 w == [i \in 1 .. n + 1 |-> Gram(p, i)]
      <4>1. \A i \in 1 .. n + 1 : Gram(p, i) \in Items
        BY <1>4 DEF Gram, Items
      <4>2. /\ u \in Seq(Items) /\ Len(u) = n
            /\ \A i \in 1 .. n : u[i] = Gram(p, i)
        BY <1>4, <4>1
      <4>3. /\ w \in Seq(Items) /\ Len(w) = n + 1
            /\ \A i \in 1 .. n + 1 : w[i] = Gram(p, i)
        BY <1>4, <4>1
      <4> HIDE DEF u, w
      <4>4. /\ u \o <<e>> \in Seq(Items) /\ Len(u \o <<e>>) = n + 1
            /\ \A i \in 1 .. n + 1 :
                 (u \o <<e>>)[i] = IF i <= n THEN u[i] ELSE e
        BY <1>4, <3>2, <4>2
      <4>5. \A i \in 1 .. n + 1 : (u \o <<e>>)[i] = w[i]
        BY <1>3, <1>4, <4>2, <4>3, <4>4
      <4>6. u \o <<e>> = w
        BY <4>3, <4>4, <4>5, SeqEqual
      <4> QED
        BY <4>6 DEF u, w
    <3> QED
      BY <1>4, <3>1, <3>3, <3>4, <3>5 DEF GramsKept
  <2> QED
    BY <2>1, <2>2
<1>11. ASSUME NEW q \in Peers, q # p PROVE GramsKept(q)'
  <2>1. GramsKept(q) /\ q \in Sources
    BY DEF ListenersInv, Sources
  <2>2. grams'[q] = grams[q] /\ pb'[q] = pb[q] /\ stored'[q] = stored[q]
    BY <1>1, <1>2, <1>6, <1>11, <2>1 DEF Others
  <2>3. CASE udp' = udp
    BY <2>1, <2>2, <2>3, PeerUnchanged
  <2>4. CASE udp' = "failed"
    BY <2>4 DEF GramsKept
  <2> QED
    BY <1>1, <2>3, <2>4
<1> QED
  BY <1>7, <1>8, <1>9, <1>10, <1>11 DEF ListenersInv

\* The last sweep hands over what a peer has buffered (udp_listener).
LEMMA SweepSound ==
  ASSUME ListenersInv, NEW p \in Peers, Sweep(p)
  PROVE  ListenersInv'
<1>1. /\ udp = "up" /\ UNCHANGED <<stream, at, conn, mode, pending, tcp, grams>>
      /\ \/ Flush(p, pb[p]) /\ udp' = udp
         \/ FlushFails(p, pb[p]) /\ stop' = TRUE /\ udp' = "failed"
  BY DEF Sweep
<1>2. /\ Typed /\ Capped /\ GramsKept(p) /\ p \in Sources
      /\ grams \in [Peers -> 0 .. MaxGrams] /\ pb[p] \in Seq(Items)
      /\ stop \in BOOLEAN
  BY DEF ListenersInv, Typed, TypeOK, Sources
<1>3. Others(p) /\ stop' \in BOOLEAN
  BY <1>1, <1>2, Handed, NotHanded
<1>4. Typed'
  BY <1>1, <1>2, <1>3, TypedKept DEF Typed, TypeOK
<1>5. Capped'
  BY <1>1, <1>2, CapKept
<1>6. \A c \in Conns : ConnKept(c)'
  <2>1. \A c \in Conns : c # p
    BY SyslogAssumption
  <2>2. p \notin Conns
    BY SyslogAssumption
  <2> QED
    BY <1>1, <1>2, <1>3, <2>1, <2>2, SourceStep
<1>7. GramsKept(p)'
  <2>1. CASE udp' = "failed"
    BY <2>1 DEF GramsKept
  <2>2. CASE udp' # "failed"
    <3>1. stored'[p] \o pb'[p] = stored[p] \o pb[p] /\ udp' = "up"
      BY <1>1, <1>2, <2>2, Handed
    <3> QED
      BY <1>1, <1>2, <3>1 DEF GramsKept
  <2> QED
    BY <2>1, <2>2
<1>8. ASSUME NEW q \in Peers, q # p PROVE GramsKept(q)'
  <2>1. GramsKept(q) /\ q \in Sources
    BY DEF ListenersInv, Sources
  <2>2. grams'[q] = grams[q] /\ pb'[q] = pb[q] /\ stored'[q] = stored[q]
    BY <1>1, <1>3, <1>8, <2>1 DEF Others
  <2>3. CASE udp' = udp
    BY <2>1, <2>2, <2>3, PeerUnchanged
  <2>4. CASE udp' = "failed"
    BY <2>4 DEF GramsKept
  <2> QED
    BY <1>1, <2>3, <2>4
<1> QED
  BY <1>4, <1>5, <1>6, <1>7, <1>8 DEF ListenersInv

\* Stops and exits touch no event.
LEMMA EndsSound ==
  ASSUME ListenersInv, TcpExit \/ UdpExit \/ Stop \/ UNCHANGED vars
  PROVE  ListenersInv'
<1>1. /\ UNCHANGED <<stream, at, conn, mode, pending, pb, grams, stored, fails>>
      /\ tcp' \in {"up", "done"} /\ stop' \in BOOLEAN
      /\ udp' = udp \/ (udp = "up" /\ udp' = "done"
                        /\ \A p \in Peers : pb[p] = << >>)
  BY DEF TcpExit, UdpExit, Stop, vars, ListenersInv, Typed, TypeOK
<1>2. Typed'
  BY <1>1 DEF ListenersInv, Typed, TypeOK
<1>3. Capped'
  BY <1>1, CapKept DEF ListenersInv
<1>4. \A p \in Peers : GramsKept(p)'
  BY <1>1 DEF ListenersInv, GramsKept
<1>5. \A c \in Conns : ConnKept(c)'
  BY <1>1, ConnUnchanged DEF ListenersInv
<1> QED
  BY <1>2, <1>3, <1>4, <1>5 DEF ListenersInv

-----------------------------------------------------------------------------
(* Connections.                                                            *)

\* A step of one connection that opens none, and keeps what holds of it.
LEMMA ConnStepSound ==
  ASSUME ListenersInv, NEW c \in Conns, Others(c),
         UNCHANGED <<stream, tcp, udp, grams>>, stop' \in BOOLEAN,
         at' \in [Conns -> Nat], pending' \in [Conns -> Bytestring],
         mode' \in [Conns -> {"unknown", "octets", "lines"}],
         conn' \in [Conns -> {"none", "open", "closed", "done", "failed",
                              "refused"}],
         \A d \in Conns : d # c => /\ at'[d] = at[d] /\ conn'[d] = conn[d]
                                  /\ mode'[d] = mode[d]
                                  /\ pending'[d] = pending[d],
         at'[c] <= Len(stream[c].bytes),
         conn'[c] \in {"open", "closed"} => conn[c] \in {"open", "closed"},
         ConnKept(c)'
  PROVE  ListenersInv'
<1>1. c \in Sources
  BY DEF Sources
<1>2. Typed'
  <2>1. \A d \in Conns : at'[d] <= Len(stream'[d].bytes)
    BY DEF ListenersInv, Typed
  <2>2. TypeOK'
    BY DEF ListenersInv, Typed, TypeOK, Others, Sources
  <2> QED
    BY <2>1, <2>2 DEF Typed, Others
<1>3. Capped'
  BY CapKept DEF ListenersInv
<1>4. /\ \A d \in Conns : d # c => ConnKept(d)'
      /\ \A p \in Peers : GramsKept(p)'
  BY <1>1, SourceStep
<1> QED
  BY <1>2, <1>3, <1>4 DEF ListenersInv

\* What c has of events, and where it stands.
LEMMA ConnType ==
  ASSUME ListenersInv, NEW c \in Conns
  PROVE  /\ Typed /\ ConnKept(c) /\ c \in Sources
         /\ pb[c] \in Seq(Items) /\ stored[c] \in Seq(Items)
         /\ pending[c] \in Bytestring /\ stop \in BOOLEAN
         /\ mode[c] \in {"unknown", "octets", "lines"}
         /\ at \in [Conns -> Nat] /\ pending \in [Conns -> Bytestring]
         /\ mode \in [Conns -> {"unknown", "octets", "lines"}]
         /\ conn \in [Conns -> {"none", "open", "closed", "done", "failed",
                                "refused"}]
BY DEF ListenersInv, Typed, TypeOK, Sources

\* A turn without bytes keeps or hands over what is buffered.
LEMMA QuietKept ==
  ASSUME Typed, NEW c \in Conns, ConnKept(c), conn[c] = "open",
         Keep(c, pb[c]) \/ Flush(c, pb[c]), conn'[c] \in {"open", "closed"},
         UNCHANGED <<stream, at, mode, pending>>
  PROVE  ConnKept(c)'
<1>1. c \in Sources /\ pb[c] \in Seq(Items) /\ stored[c] \in Seq(Items)
  BY DEF Typed, Sources
<1>2. stored'[c] \o pb'[c] = stored[c] \o pb[c]
  BY <1>1, Handed
<1>3. Running(c) /\ Running(c)'
  BY DEF Running
<1>4. Undecided(c)'
  <2> SUFFICES ASSUME mode[c] = "unknown" PROVE Fresh(c)'
    BY DEF Undecided
  <2>1. Fresh(c)
    BY <1>3 DEF ConnKept, Undecided
  <2>2. stored'[c] = << >> /\ pb'[c] = << >>
    <3>1. CASE Keep(c, pb[c])
      BY <2>1, <3>1 DEF Fresh, Keep, Typed, Sources
    <3>2. CASE Flush(c, pb[c])
      <4>1. stored'[c] = stored[c] \o pb[c] /\ pb'[c] = << >>
        BY <1>1, <3>2, Flushed
      <4>2. << >> \o << >> = << >>
        BY <1>1, <2>1, ConcatEmptySeq DEF Fresh
      <4> QED
        BY <2>1, <4>1, <4>2 DEF Fresh
    <3> QED
      BY <3>1, <3>2
  <2> QED
    BY <2>1, <2>2 DEF Fresh
<1>5. LinesKept(c)'
  BY <1>2, <1>3 DEF ConnKept, LinesKept, BytesRead
<1>6. CountsKept(c)'
  BY <1>2, <1>3 DEF ConnKept, CountsKept
<1> QED
  BY <1>4, <1>5, <1>6 DEF ConnKept

\* A turn in which read times out (tcp_connection).
LEMMA TimeOutSound ==
  ASSUME ListenersInv, NEW c \in Conns, TimeOut(c)
  PROVE  ListenersInv'
<1>1. /\ conn[c] = "open"
      /\ UNCHANGED <<stream, at, mode, pending, tcp, udp, grams>>
      /\ \/ Flush(c, pb[c]) /\ conn' = conn
         \/ /\ FlushFails(c, pb[c]) /\ stop' = TRUE
            /\ conn' = [conn EXCEPT ![c] = "failed"]
  BY DEF TimeOut
<1>2. /\ Typed /\ ConnKept(c) /\ c \in Sources /\ pb[c] \in Seq(Items)
      /\ stop \in BOOLEAN
  BY ConnType
<1>3. Others(c) /\ stop' \in BOOLEAN
  BY <1>1, <1>2, Handed, NotHanded
<1>4. ConnKept(c)'
  <2>1. CASE Flush(c, pb[c]) /\ conn' = conn
    BY <1>1, <1>2, <2>1, QuietKept
  <2>2. CASE conn' = [conn EXCEPT ![c] = "failed"]
    BY <2>2, ConnType, ConnOver
  <2> QED
    BY <1>1, <2>1, <2>2
<1>5. at[c] <= Len(stream[c].bytes)
  BY <1>2, ReadType DEF Typed
<1> QED
  BY <1>1, <1>3, <1>4, <1>5, ConnType, ConnStepSound

\* A turn in which read finds the connection closed (tcp_connection).
LEMMA CloseSound ==
  ASSUME ListenersInv, NEW c \in Conns, Close(c)
  PROVE  ListenersInv'
<1>1. /\ conn[c] = "open"
      /\ UNCHANGED <<stream, at, mode, pending, tcp, udp, grams>>
      /\ \/ /\ Keep(c, pb[c]) \/ Flush(c, pb[c])
            /\ conn' = [conn EXCEPT ![c] = "closed"]
         \/ /\ FlushFails(c, pb[c]) /\ stop' = TRUE
            /\ conn' = [conn EXCEPT ![c] = "failed"]
  BY DEF Close
<1>2. /\ Typed /\ ConnKept(c) /\ c \in Sources /\ pb[c] \in Seq(Items)
      /\ stop \in BOOLEAN
  BY ConnType
<1>3. Others(c) /\ stop' \in BOOLEAN
  BY <1>1, <1>2, Handed, NotHanded
<1>4. ConnKept(c)'
  <2>1. CASE /\ Keep(c, pb[c]) \/ Flush(c, pb[c])
             /\ conn' = [conn EXCEPT ![c] = "closed"]
    <3>1. conn'[c] = "closed"
      BY <2>1, ConnType
    <3> QED
      BY <1>1, <1>2, <2>1, <3>1, QuietKept
  <2>2. CASE conn' = [conn EXCEPT ![c] = "failed"]
    BY <2>2, ConnType, ConnOver
  <2> QED
    BY <1>1, <2>1, <2>2
<1>5. at[c] <= Len(stream[c].bytes)
  BY <1>2, ReadType DEF Typed
<1> QED
  BY <1>1, <1>3, <1>4, <1>5, ConnType, ConnStepSound

\* No bytes make no event.
LEMMA NoFrames == Frames(<< >>, TRUE) = << >>
<1>1. << >> \in Seq(STRING) /\ Len(<< >>) = 0 /\ 1 .. 0 = {}
  BY EmptySeq
<1>2. Cuts(<< >>, 1, TRUE) = {}
  BY <1>1 DEF Cuts
<1>3. FirstCut(<< >>, 1, TRUE) = 0
  BY <1>2, Zenon DEF FirstCut
<1>4. TRUE \in BOOLEAN
  OBVIOUS
<1> QED
  BY <1>1, <1>3, <1>4, FramesUnfold, Zenon

\* What is left when a connection is over, however it is framed.
LEMMA LeftoverType ==
  ASSUME Typed, NEW c \in Conns
  PROVE  /\ Leftover(c) \in Seq(Items)
         /\ mode[c] # "octets" => Leftover(c) = Frames(pending[c], TRUE)
         /\ mode[c] = "octets" =>
              Leftover(c) = IF pending[c] = << >> THEN << >> ELSE <<pending[c]>>
<1>1. PICK r, e : r = pending[c] /\ e = Frames(pending[c], TRUE)
  OBVIOUS
<1>2. r \in Bytestring /\ e \in Seq(Bytestring)
  <2>1. r \in Bytestring /\ TRUE \in BOOLEAN
    BY <1>1 DEF Typed
  <2> QED
    BY <1>1, <2>1, FramesLossless, Zenon DEF Bytestring
<1>3. << >> \in Seq(Items) /\ <<r>> \in Seq(Items) /\ e \in Seq(Items)
  BY <1>2, EmptySeq DEF Items
<1>4. r = << >> => e = << >>
  BY <1>1, NoFrames
<1> QED
  BY <1>1, <1>3, <1>4, Zenon DEF Leftover

\* The last flush (tcp_connection).
LEMMA FinishSound ==
  ASSUME ListenersInv, NEW c \in Conns, Finish(c)
  PROVE  ListenersInv'
<1> DEFINE events == pb[c] \o Leftover(c)
<1>1. /\ conn[c] \in {"open", "closed"}
      /\ UNCHANGED <<stream, at, mode, tcp, udp, grams>>
      /\ pending' = [pending EXCEPT ![c] = << >>]
      /\ \/ Flush(c, events) /\ conn' = [conn EXCEPT ![c] = "done"]
         \/ FlushFails(c, events) /\ conn' = [conn EXCEPT ![c] = "failed"]
      /\ stop' = stop
  BY DEF Finish, Flush
<1>2. /\ Typed /\ ConnKept(c) /\ c \in Sources /\ pb[c] \in Seq(Items)
      /\ stored[c] \in Seq(Items) /\ Leftover(c) \in Seq(Items)
      /\ stop \in BOOLEAN
  BY ConnType, LeftoverType
<1>3. events \in Seq(Items)
  BY <1>2, ConcatProperties
<1>4. Others(c)
  BY <1>1, <1>2, <1>3, Handed, NotHanded
<1>5. ConnKept(c)'
  <2>1. CASE Flush(c, events) /\ conn' = [conn EXCEPT ![c] = "done"]
    <3>1. /\ conn'[c] = "done" /\ Running(c)
          /\ stored'[c] = (stored[c] \o pb[c]) \o Leftover(c)
      <4>1. stored'[c] = stored[c] \o events
        BY <1>2, <1>3, <2>1, Flushed
      <4>2. (stored[c] \o pb[c]) \o Leftover(c) = stored[c] \o events
        <5>1. PICK x, y, z : x = stored[c] /\ y = pb[c] /\ z = Leftover(c)
          OBVIOUS
        <5>2. x \in Seq(Items) /\ y \in Seq(Items) /\ z \in Seq(Items)
          BY <1>2, <5>1
        <5>3. (x \o y) \o z = x \o (y \o z)
          BY <5>2, ConcatAssociative
        <5> QED
          BY <5>1, <5>3
      <4>3. conn'[c] = "done"
        BY <2>1, ConnType
      <4> QED
        BY <1>1, <4>1, <4>2, <4>3 DEF Running
    <3>2. mode'[c] = mode[c] /\ at'[c] = at[c] /\ stream'[c] = stream[c]
      BY <1>1
    <3>3. ~Running(c)'
      BY <3>1 DEF Running
    <3>4. mode[c] = "lines" => stored'[c] = Frames(BytesRead(c), TRUE)
      <4> SUFFICES ASSUME mode[c] = "lines"
                   PROVE  stored'[c] = Frames(BytesRead(c), TRUE)
        OBVIOUS
      <4>1. BytesRead(c) \in Seq(STRING) /\ pending[c] \in Seq(STRING)
        BY <1>2, ReadType, ConnType DEF Bytestring
      <4>2. /\ BytesRead(c) \o << >> = BytesRead(c)
            /\ pending[c] \o << >> = pending[c]
        BY <4>1, ConcatEmptySeq
      <4>3. << >> \in Bytestring
        BY EmptySeq DEF Bytestring
      <4>4. Frames(BytesRead(c) \o << >>, TRUE)
              = (stored[c] \o pb[c]) \o Frames(pending[c] \o << >>, TRUE)
        BY <1>2, <3>1, <4>3 DEF ConnKept, LinesKept, FramedAs
      <4>5. Leftover(c) = Frames(pending[c], TRUE)
        BY <1>2, LeftoverType
      <4> QED
        BY <3>1, <4>2, <4>4, <4>5
    <3>5. LinesKept(c)'
      BY <3>1, <3>2, <3>3, <3>4 DEF LinesKept, BytesRead
    <3>6. CountsKept(c)'
      <4> SUFFICES ASSUME stream[c].octets, mode[c] = "octets"
                   PROVE  CountsKept(c)'
        BY <3>2, <3>3 DEF CountsKept
      <4>1. Leftover(c) = IF pending[c] = << >> THEN << >> ELSE <<pending[c]>>
        BY <1>2, LeftoverType
      <4>2. /\ stored[c] \o pb[c]
                 = Messages(stream[c], 0, Whole(stream[c], at[c]))
            /\ pending[c] = Slice(stream[c].bytes,
                              After(stream[c], Whole(stream[c], at[c])), at[c])
        BY <1>2, <3>1 DEF ConnKept, CountsKept
      <4> QED
        BY <3>1, <3>2, <3>3, <4>1, <4>2 DEF CountsKept
    <3>7. Undecided(c)'
      BY <3>1, <3>3 DEF Undecided
    <3> QED
      BY <3>5, <3>6, <3>7 DEF ConnKept
  <2>2. CASE conn' = [conn EXCEPT ![c] = "failed"]
    BY <2>2, ConnType, ConnOver
  <2> QED
    BY <1>1, <2>1, <2>2
<1>6. at[c] <= Len(stream[c].bytes)
  BY <1>2, ReadType DEF Typed
<1>7. pending' \in [Conns -> Bytestring]
  BY <1>1, ConnType, EmptySeq DEF Bytestring
<1>8. conn' \in [Conns -> {"none", "open", "closed", "done", "failed",
                           "refused"}]
  BY <1>1, ConnType
<1>9. /\ at' = at /\ mode' = mode /\ stop' \in BOOLEAN
      /\ conn'[c] \in {"done", "failed"}
      /\ \A d \in Conns : d # c => /\ at'[d] = at[d] /\ conn'[d] = conn[d]
                                  /\ mode'[d] = mode[d]
                                  /\ pending'[d] = pending[d]
  BY <1>1, <1>2, ConnType
<1> HIDE DEF events
<1> QED
  BY <1>1, <1>4, <1>5, <1>6, <1>7, <1>8, <1>9, ConnType, ConnStepSound

\* What one read takes of what is pending and of the new bytes.
LEMMA TookType ==
  ASSUME NEW b \in Bytestring
  PROVE  TakeOctetCounted(b) \in Taken(b) /\ TakeLines(b) \in Taken(b)
<1>1. TakeOctetCounted(b) \in Taken(b)
  BY TakeWalks
<1>2. PICK e, k : e = Frames(b, FALSE) /\ k = Framed(b, FALSE)
  OBVIOUS
<1>3. e \in Seq(Bytestring) /\ k \in 0 .. Len(b)
  <2>1. FALSE \in BOOLEAN
    OBVIOUS
  <2> QED
    BY <1>2, <2>1, FramesLossless, Zenon DEF Bytestring
<1>4. TakeLines(b) = [events |-> e, used |-> k]
  BY <1>2, Zenon DEF TakeLines
<1>5. TakeLines(b) \in Taken(b)
  BY <1>3, <1>4 DEF Taken
<1> QED
  BY <1>1, <1>5

\* Behind a read that is framed by lines, what may still come is framed as it
\* would have been.
LEMMA LinesRead ==
  ASSUME NEW d \in Bytestring, NEW r \in Bytestring, NEW new \in Bytestring,
         NEW h \in Seq(Items), NEW b, b = r \o new, FramedAs(d, h, r)
  PROVE  FramedAs(d \o new, h \o Frames(b, FALSE),
                  SubSeq(b, Framed(b, FALSE) + 1, Len(b)))
<1> SUFFICES ASSUME NEW x \in Bytestring
             PROVE  Frames((d \o new) \o x, TRUE)
                      = (h \o Frames(b, FALSE))
                        \o Frames(SubSeq(b, Framed(b, FALSE) + 1, Len(b)) \o x,
                                  TRUE)
  BY DEF FramedAs
<1>1. b \in Bytestring /\ new \o x \in Bytestring
  BY ConcatProperties DEF Bytestring
<1>2. (d \o new) \o x = d \o (new \o x) /\ r \o (new \o x) = b \o x
  <2>1. (d \o new) \o x = d \o (new \o x)
    BY ConcatAssociative DEF Bytestring
  <2>2. (r \o new) \o x = r \o (new \o x)
    BY ConcatAssociative DEF Bytestring
  <2> QED
    BY <2>1, <2>2
<1>3. Frames(d \o (new \o x), TRUE) = h \o Frames(b \o x, TRUE)
  BY <1>1, <1>2 DEF FramedAs
<1>4. PICK q : q = SubSeq(b, Framed(b, FALSE) + 1, Len(b)) \o x
  OBVIOUS
<1>5. TRUE \in BOOLEAN /\ FALSE \in BOOLEAN
  OBVIOUS
<1>6. Frames(b \o x, TRUE) = Frames(b, FALSE) \o Frames(q, TRUE)
  BY <1>1, <1>4, <1>5, FramesSplit, Zenon DEF Bytestring
<1>7. q \in Bytestring
  <2>1. Framed(b, FALSE) \in 0 .. Len(b)
    BY <1>1, <1>5, FramesLossless, Zenon DEF Bytestring
  <2>2. Rest(b, Framed(b, FALSE)) \in Bytestring
    BY <1>1, <2>1, RestType
  <2> QED
    BY <1>4, <2>2, ConcatProperties DEF Bytestring, Rest
<1>8. PICK y, z : y = Frames(b, FALSE) /\ z = Frames(q, TRUE)
  OBVIOUS
<1>9. y \in Seq(Bytestring) /\ z \in Seq(Bytestring)
  BY <1>1, <1>5, <1>7, <1>8, FramesLossless, Zenon DEF Bytestring
<1>10. y \in Seq(Items) /\ z \in Seq(Items)
  BY <1>9 DEF Items
<1>11. (h \o y) \o z = h \o (y \o z)
  BY <1>10, ConcatAssociative
<1> QED
  BY <1>2, <1>3, <1>4, <1>6, <1>8, <1>11

\* Behind a read that is framed by octet counting, what is taken are the
\* messages that are whole now and were not.
LEMMA CountsRead ==
  ASSUME NEW s \in Streams, s.octets, NEW z \in 0 .. Len(s.bytes),
         NEW a \in 0 .. z, NEW b,
         b = Slice(s.bytes, After(s, Whole(s, a)), a) \o Slice(s.bytes, a, z)
  PROVE  /\ Messages(s, 0, Whole(s, a)) \o TakeOctetCounted(b).events
              = Messages(s, 0, Whole(s, z))
         /\ SubSeq(b, TakeOctetCounted(b).used + 1, Len(b))
              = Slice(s.bytes, After(s, Whole(s, z)), z)
<1>1. PICK w, k, l, u, v : /\ w = s.bytes /\ k = Whole(s, a) /\ l = Whole(s, z)
                          /\ u = After(s, k) /\ v = After(s, l)
  OBVIOUS
<1>2. /\ w \in Bytestring /\ Len(w) \in Nat /\ Len(s.to) \in Nat
      /\ a \in 0 .. Len(w) /\ a \in Nat /\ z \in Nat
  BY <1>1, LabelsAre
<1>3. /\ k \in 0 .. Len(s.to) /\ u <= a /\ l \in 0 .. Len(s.to) /\ v <= z
      /\ l < Len(s.to) => z < After(s, l + 1)
      /\ k <= l
  BY <1>1, <1>2, WholeIs, WholeGrows
<1>4. k \in 0 .. l /\ 0 \in 0 .. k
  BY <1>2, <1>3
<1>5. u \in 0 .. Len(w) /\ v \in 0 .. Len(w) /\ u <= v
  <2>1. u \in 0 .. Len(w) /\ v \in 0 .. Len(w)
    BY <1>1, <1>3, LabelsAre
  <2>2. l \in k .. Len(s.to)
    BY <1>2, <1>3
  <2> QED
    BY <1>1, <1>3, <2>1, <2>2, AfterAscends
<1>6. b = Slice(w, u, z)
  <2>1. z \in 0 .. Len(w) /\ a \in 0 .. z /\ u \in 0 .. a
    BY <1>1, <1>2, <1>3, <1>5
  <2> QED
    BY <1>1, <1>2, <2>1, SliceJoin DEF Bytestring
<1>7. TakeOctetCounted(b) = [events |-> Messages(s, k, l), used |-> v - u]
  <2>1. z \in After(s, l) .. Len(s.bytes)
    BY <1>1, <1>2, <1>3, <1>5
  <2> QED
    BY <1>1, <1>3, <1>4, <1>6, <2>1, CountedTaken
<1>8. Messages(s, 0, k) \o Messages(s, k, l) = Messages(s, 0, l)
  BY <1>3, <1>4, MessagesJoin
<1>9. SubSeq(b, (v - u) + 1, Len(b)) = Slice(w, v, z)
  <2>1. z \in 0 .. Len(w) /\ u \in 0 .. z
    BY <1>1, <1>2, <1>3, <1>5
  <2>2. Len(b) = z - u
    <3>1. w \in Seq(STRING)
      BY <1>2 DEF Bytestring
    <3>2. Len(Slice(w, u, z)) = z - u
      BY <2>1, <3>1, SliceIs
    <3> QED
      BY <1>6, <3>2
  <2>3. z - u \in 0 .. z - u /\ v - u \in 0 .. z - u
    BY <1>2, <1>3, <1>5, <2>1
  <2>4. Slice(Slice(w, u, z), v - u, z - u) = Slice(w, u + (v - u), u + (z - u))
    BY <1>2, <2>1, <2>3, SliceOfSlice DEF Bytestring
  <2>5. u + (v - u) = v /\ u + (z - u) = z
    BY <1>2, <1>5
  <2>6. SubSeq(b, (v - u) + 1, Len(b)) = Slice(b, v - u, Len(b))
    BY DEF Slice
  <2> QED
    BY <1>6, <2>2, <2>4, <2>5, <2>6
<1>10. PICK t : t = TakeOctetCounted(b)
  OBVIOUS
<1>11. t.events = Messages(s, k, l) /\ t.used = v - u
  BY <1>7, <1>10
<1>12. /\ Messages(s, 0, k) \o t.events = Messages(s, 0, l)
       /\ SubSeq(b, t.used + 1, Len(b)) = Slice(w, v, z)
  BY <1>8, <1>9, <1>11
<1> QED
  BY <1>1, <1>10, <1>12, Zenon

\* What c has read, with n bytes more, that is not framed yet; how it is then
\* framed; and what is taken of it.
Buffer(c, n) ==
  pending[c] \o SubSeq(stream[c].bytes, at[c] + 1, at[c] + n)

Framing(c, n) ==
  IF mode[c] # "unknown" THEN mode[c]
  ELSE IF LooksOctetCounted(Buffer(c, n)) THEN "octets" ELSE "lines"

Took(c, n) ==
  IF Framing(c, n) = "octets" THEN TakeOctetCounted(Buffer(c, n))
  ELSE TakeLines(Buffer(c, n))

LEMMA ReadIs ==
  ASSUME NEW c \in Conns, NEW n \in 1 .. MaxRead, Read(c, n)
  PROVE  /\ conn[c] = "open" /\ at[c] + n <= Len(stream[c].bytes)
         /\ at' = [at EXCEPT ![c] = @ + n]
         /\ mode' = [mode EXCEPT ![c] = Framing(c, n)]
         /\ pending' = [pending EXCEPT
              ![c] = SubSeq(Buffer(c, n), Took(c, n).used + 1,
                            Len(Buffer(c, n)))]
         /\ \/ /\ \/ Keep(c, pb[c] \o Took(c, n).events)
                  \/ Flush(c, pb[c] \o Took(c, n).events)
               /\ conn' = conn
            \/ /\ FlushFails(c, pb[c] \o Took(c, n).events) /\ stop' = TRUE
               /\ conn' = [conn EXCEPT ![c] = "failed"]
         /\ UNCHANGED <<stream, tcp, udp, grams>>
BY Zenon DEF Read, Took, Framing, Buffer

\* The types of a read.
LEMMA ReadTypes ==
  ASSUME ListenersInv, NEW c \in Conns, NEW n \in 1 .. MaxRead, Read(c, n)
  PROVE  /\ at[c] \in 0 .. at[c] + n /\ at[c] + n \in 0 .. Len(stream[c].bytes)
         /\ Slice(stream[c].bytes, at[c], at[c] + n) \in Bytestring
         /\ Buffer(c, n) = pending[c]
                           \o Slice(stream[c].bytes, at[c], at[c] + n)
         /\ Buffer(c, n) \in Bytestring /\ Took(c, n) \in Taken(Buffer(c, n))
         /\ Took(c, n).events \in Seq(Items)
         /\ SubSeq(Buffer(c, n), Took(c, n).used + 1, Len(Buffer(c, n)))
              \in Bytestring
         /\ Framing(c, n) \in {"octets", "lines"}
<1>1. PICK w, a, b, t : /\ w = stream[c].bytes /\ a = at[c] /\ b = Buffer(c, n)
                        /\ t = Took(c, n)
  OBVIOUS
<1>2. /\ w \in Bytestring /\ Len(w) \in Nat /\ a \in 0 .. Len(w)
      /\ pending[c] \in Bytestring /\ n \in Nat /\ a + n <= Len(w)
  <2>1. MaxRead \in Nat
    BY SyslogAssumption
  <2>2. a + n <= Len(w)
    BY <1>1, ReadIs
  <2>3. w \in Bytestring /\ Len(w) \in Nat /\ a \in 0 .. Len(w)
    BY <1>1, ConnType, ReadType
  <2> QED
    BY <2>1, <2>2, <2>3, ConnType
<1>3. a \in 0 .. a + n /\ a + n \in 0 .. Len(w)
  BY <1>2
<1>4. Slice(w, a, a + n) \in Bytestring
  BY <1>2, <1>3, SliceIs DEF Bytestring
<1>5. b = pending[c] \o Slice(w, a, a + n)
  BY <1>1 DEF Buffer, Slice
<1>6. b \in Bytestring
  BY <1>2, <1>4, <1>5, ConcatProperties DEF Bytestring
<1>7. t \in Taken(b)
  <2>1. t = TakeOctetCounted(b) \/ t = TakeLines(b)
    BY <1>1, Zenon DEF Took
  <2> QED
    BY <1>6, <2>1, TookType
<1>8. t.events \in Seq(Bytestring) /\ t.used \in 0 .. Len(b)
  BY <1>7 DEF Taken
<1>9. t.events \in Seq(Items)
  BY <1>8 DEF Items
<1>10. SubSeq(b, t.used + 1, Len(b)) \in Bytestring
  BY <1>6, <1>8, RestType DEF Rest
<1>11. Framing(c, n) \in {"octets", "lines"}
  BY ConnType DEF Framing
<1> QED
  BY <1>1, <1>3, <1>4, <1>5, <1>6, <1>7, <1>9, <1>10, <1>11, Zenon

\* A turn in which read returns bytes (tcp_connection).
LEMMA ReadSound ==
  ASSUME ListenersInv, NEW c \in Conns, NEW n \in 1 .. MaxRead, Read(c, n)
  PROVE  ListenersInv'
<1>1. PICK s, a, z, b, t, m, events :
        /\ s = stream[c] /\ a = at[c] /\ z = at[c] + n /\ b = Buffer(c, n)
        /\ t = Took(c, n) /\ m = Framing(c, n) /\ events = pb[c] \o t.events
  OBVIOUS
<1>2. /\ conn[c] = "open" /\ z <= Len(s.bytes)
      /\ at' = [at EXCEPT ![c] = @ + n]
      /\ mode' = [mode EXCEPT ![c] = m]
      /\ pending' = [pending EXCEPT ![c] = SubSeq(b, t.used + 1, Len(b))]
      /\ \/ (Keep(c, events) \/ Flush(c, events)) /\ conn' = conn
         \/ /\ FlushFails(c, events) /\ stop' = TRUE
            /\ conn' = [conn EXCEPT ![c] = "failed"]
      /\ UNCHANGED <<stream, tcp, udp, grams>>
  BY <1>1, ReadIs, Zenon
<1>3. /\ Typed /\ ConnKept(c) /\ c \in Sources /\ pb[c] \in Seq(Items)
      /\ stored[c] \in Seq(Items) /\ stop \in BOOLEAN
      /\ pending[c] \in Bytestring /\ mode[c] \in {"unknown", "octets", "lines"}
      /\ s \in Streams /\ s.bytes \in Bytestring /\ Len(s.bytes) \in Nat
      /\ BytesRead(c) \in Bytestring /\ BytesRead(c) = Slice(s.bytes, 0, a)
  BY <1>1, ConnType, ReadType
<1>4. /\ a \in 0 .. z /\ z \in 0 .. Len(s.bytes)
      /\ Slice(s.bytes, a, z) \in Bytestring
      /\ b = pending[c] \o Slice(s.bytes, a, z)
      /\ b \in Bytestring /\ t.events \in Seq(Items)
      /\ SubSeq(b, t.used + 1, Len(b)) \in Bytestring
      /\ m \in {"octets", "lines"}
  BY <1>1, ReadTypes, Zenon
<1>5. events \in Seq(Items)
  BY <1>1, <1>3, <1>4, ConcatProperties
<1>6. Others(c) /\ stop' \in BOOLEAN
  BY <1>2, <1>3, <1>5, Handed, NotHanded
<1>7. /\ at'[c] = z /\ mode'[c] = m
      /\ pending'[c] = SubSeq(b, t.used + 1, Len(b)) /\ stream'[c] = s
  BY <1>1, <1>2, ConnType
<1>8. ConnKept(c)'
  <2>1. CASE (Keep(c, events) \/ Flush(c, events)) /\ conn' = conn
    <3>1. Running(c) /\ Running(c)' /\ conn'[c] = "open"
      BY <1>2, <2>1 DEF Running
    <3>2. PICK h : h = stored[c] \o pb[c]
      OBVIOUS
    <3>3. h \in Seq(Items)
      BY <1>3, <3>2, ConcatProperties
    <3>4. stored'[c] \o pb'[c] = h \o t.events
      <4>1. PICK x, y, v : x = stored[c] /\ y = pb[c] /\ v = t.events
        OBVIOUS
      <4>2. x \in Seq(Items) /\ y \in Seq(Items) /\ v \in Seq(Items)
        BY <1>3, <1>4, <4>1
      <4>3. (x \o y) \o v = x \o (y \o v)
        BY <4>2, ConcatAssociative
      <4>4. stored'[c] \o pb'[c] = stored[c] \o events
        BY <1>3, <1>5, <2>1, Handed
      <4> QED
        BY <1>1, <3>2, <4>1, <4>3, <4>4
    <3>5. Undecided(c)'
      BY <1>4, <1>7, <3>1 DEF Undecided
    <3>6. LinesKept(c)'
      <4> SUFFICES ASSUME m = "lines"
                   PROVE  FramedAs(BytesRead(c)', stored'[c] \o pb'[c],
                                   pending'[c])
        BY <1>4, <1>7, <3>1 DEF LinesKept
      <4>1. BytesRead(c)' = BytesRead(c) \o Slice(s.bytes, a, z)
        <5>1. a \in 0 .. z /\ 0 \in 0 .. a
          BY <1>4
        <5>2. Slice(s.bytes, 0, a) \o Slice(s.bytes, a, z)
                = Slice(s.bytes, 0, z)
          BY <1>3, <1>4, <5>1, SliceJoin DEF Bytestring
        <5>3. BytesRead(c)' = Slice(s.bytes, 0, z)
          BY <1>7 DEF BytesRead, Slice
        <5> QED
          BY <1>3, <5>2, <5>3
      <4>2. t.events = Frames(b, FALSE) /\ t.used = Framed(b, FALSE)
        <5>1. t = TakeLines(b)
          BY <1>1 DEF Took
        <5> QED
          BY <5>1 DEF TakeLines
      <4>3. FramedAs(BytesRead(c), h, pending[c])
        <5>1. mode[c] # "octets"
          BY <1>1 DEF Framing
        <5> QED
          BY <1>3, <3>1, <3>2, <5>1 DEF ConnKept, LinesKept
      <4>4. PICK d, r, new : /\ d = BytesRead(c) /\ r = pending[c]
                             /\ new = Slice(s.bytes, a, z)
        OBVIOUS
      <4>5. /\ d \in Bytestring /\ r \in Bytestring /\ new \in Bytestring
            /\ b = r \o new /\ FramedAs(d, h, r)
        BY <1>3, <1>4, <4>3, <4>4
      <4>6. FramedAs(d \o new, h \o Frames(b, FALSE),
                     SubSeq(b, Framed(b, FALSE) + 1, Len(b)))
        BY <3>3, <4>5, LinesRead
      <4> QED
        BY <1>7, <3>4, <4>1, <4>2, <4>4, <4>6
    <3>7. CountsKept(c)'
      <4> SUFFICES ASSUME s.octets, m = "octets"
                   PROVE  /\ stored'[c] \o pb'[c] = Messages(s, 0, Whole(s, z))
                          /\ pending'[c]
                               = Slice(s.bytes, After(s, Whole(s, z)), z)
        BY <1>4, <1>7, <3>1 DEF CountsKept
      <4>1. mode[c] # "lines"
        BY <1>1 DEF Framing
      <4>2. /\ h = Messages(s, 0, Whole(s, a))
            /\ pending[c] = Slice(s.bytes, After(s, Whole(s, a)), a)
        BY <1>1, <1>3, <3>1, <3>2, <4>1 DEF ConnKept, CountsKept
      <4>3. t = TakeOctetCounted(b)
        BY <1>1 DEF Took
      <4>4. b = Slice(s.bytes, After(s, Whole(s, a)), a) \o Slice(s.bytes, a, z)
        BY <1>4, <4>2
      <4>5. /\ Messages(s, 0, Whole(s, a)) \o t.events
                 = Messages(s, 0, Whole(s, z))
            /\ SubSeq(b, t.used + 1, Len(b))
                 = Slice(s.bytes, After(s, Whole(s, z)), z)
        BY <1>3, <1>4, <4>3, <4>4, CountsRead
      <4> QED
        BY <1>7, <3>4, <4>2, <4>5
    <3> QED
      BY <3>5, <3>6, <3>7 DEF ConnKept
  <2>2. CASE conn' = [conn EXCEPT ![c] = "failed"]
    BY <2>2, ConnType, ConnOver
  <2> QED
    BY <1>2, <2>1, <2>2
<1>9. /\ at' \in [Conns -> Nat]
      /\ mode' \in [Conns -> {"unknown", "octets", "lines"}]
  BY <1>1, <1>2, <1>4, ConnType
<1>10. pending' \in [Conns -> Bytestring]
  BY <1>2, <1>4, ConnType
<1>11. /\ conn' \in [Conns -> {"none", "open", "closed", "done", "failed",
                               "refused"}]
       /\ at'[c] <= Len(stream[c].bytes)
  BY <1>1, <1>2, <1>7, ConnType
<1>12. /\ conn'[c] \in {"open", "closed"} => conn[c] \in {"open", "closed"}
       /\ \A d \in Conns : d # c => /\ at'[d] = at[d] /\ conn'[d] = conn[d]
                                   /\ mode'[d] = mode[d]
                                   /\ pending'[d] = pending[d]
  BY <1>2, ConnType
<1> QED
  BY <1>2, <1>6, <1>8, <1>9, <1>10, <1>11, <1>12, ConnStepSound

-----------------------------------------------------------------------------
(* The theorems.                                                           *)

LEMMA ListenersStep == ListenersInv /\ [Next]_vars => ListenersInv'
<1> SUFFICES ASSUME ListenersInv, [Next]_vars PROVE ListenersInv'
  OBVIOUS
<1>1. CASE TcpExit \/ UdpExit \/ Stop \/ UNCHANGED vars
  BY <1>1, EndsSound
<1>2. ASSUME NEW p \in Peers, Receive(p) \/ Sweep(p) PROVE ListenersInv'
  BY <1>2, ReceiveSound, SweepSound
<1>3. ASSUME NEW c \in Conns, Accept(c) \/ Close(c) \/ TimeOut(c) \/ Finish(c)
      PROVE  ListenersInv'
  BY <1>3, AcceptSound, CloseSound, TimeOutSound, FinishSound
<1>4. ASSUME NEW c \in Conns, NEW n \in 1 .. MaxRead, Read(c, n)
      PROVE  ListenersInv'
  BY <1>4, ReadSound
<1> QED
  BY <1>1, <1>2, <1>3, <1>4 DEF Next, UdpStep, ConnStep

\* The types of the listeners' state hold; when the UDP thread is done, what
\* it stored of a peer is every datagram received, once and in order, and there
\* are never more connection threads than the cap.
THEOREM ListenersAreSound == Spec => []ListenersSound
<1>1. ListenersInv => ListenersSound
  <2> SUFFICES ASSUME ListenersInv PROVE ListenersSound
    OBVIOUS
  <2>1. TypeOK /\ ConnectionsCapped
    BY DEF ListenersInv, Typed, Capped
  <2>2. DatagramsStoredOnce
    <3> SUFFICES ASSUME udp = "done", NEW p \in Peers
                 PROVE  stored[p] = [i \in 1 .. grams[p] |-> Gram(p, i)]
      BY DEF DatagramsStoredOnce
    <3>1. GramsKept(p) /\ stored[p] \in Seq(Items)
      BY DEF ListenersInv, Typed, Sources
    <3>2. pb[p] = << >> /\ stored[p] \o << >> = stored[p]
      BY <3>1, ConcatEmptySeq DEF GramsKept
    <3> QED
      BY <3>1, <3>2 DEF GramsKept
  <2> QED
    BY <2>1, <2>2 DEF ListenersSound
<1> QED
  BY <1>1, InitSound, ListenersStep, PTL DEF Spec

\* What a connection has stored when it is over is what the framer makes of
\* all its bytes, or every message read whole and then the rest: no cut into
\* reads, no time-out and no batch changes it.
THEOREM StreamsAreFramedOnce == Spec => []StreamsFramedOnce
<1>1. ListenersInv => StreamsFramedOnce
  <2> SUFFICES ASSUME ListenersInv PROVE StreamsFramedOnce
    OBVIOUS
  <2>1. LinesFramedOnce
    BY DEF ListenersInv, ConnKept, LinesKept, LinesFramedOnce
  <2>2. OctetsFramedOnce
    <3> SUFFICES
          ASSUME NEW c \in Conns, conn[c] = "done", mode[c] = "octets",
                 stream[c].octets,
                 NEW n, n = Complete(c),
                 NEW rest, rest = SubSeq(BytesRead(c), After(stream[c], n) + 1,
                                         at[c])
          PROVE  stored[c] = Payloads(c, n)
                             \o (IF rest = << >> THEN << >> ELSE <<rest>>)
      BY DEF OctetsFramedOnce
    <3>1. PICK s, a : s = stream[c] /\ a = at[c]
      OBVIOUS
    <3>2. /\ s \in Streams /\ s.bytes \in Bytestring /\ Len(s.bytes) \in Nat
          /\ a \in 0 .. Len(s.bytes) /\ BytesRead(c) = Slice(s.bytes, 0, a)
      BY <3>1, ConnType, ReadType
    <3>3. n = Whole(s, a)
      BY <3>1 DEF Complete, Whole
    <3>4. After(s, n) <= a /\ After(s, n) \in Nat /\ n \in 0 .. Len(s.to)
      <4>1. n \in 0 .. Len(s.to) /\ After(s, n) <= a
        BY <3>1, <3>2, <3>3, WholeIs
      <4> QED
        BY <3>1, <3>2, <4>1, LabelsAre
    <3>5. Payloads(c, n) = Messages(s, 0, n)
      <4>1. n - 0 = n /\ \A i \in 1 .. n : 0 + i = i
        BY <3>2, <3>4, LabelsAre
      <4> QED
        BY <3>1, <4>1 DEF Payloads, Messages, Payload
    <3>6. rest = Slice(s.bytes, After(s, n), a)
      <4>1. a \in 0 .. a - 0 /\ After(s, n) \in 0 .. a /\ 0 \in 0 .. a
            /\ 0 + After(s, n) = After(s, n) /\ 0 + a = a
        BY <3>2, <3>4
      <4>2. Slice(Slice(s.bytes, 0, a), After(s, n), a)
              = Slice(s.bytes, 0 + After(s, n), 0 + a)
        BY <3>2, <4>1, SliceOfSlice DEF Bytestring
      <4> QED
        BY <3>1, <3>2, <4>1, <4>2 DEF Slice
    <3>7. CountsKept(c)
      BY DEF ListenersInv, ConnKept
    <3> QED
      BY <3>1, <3>3, <3>5, <3>6, <3>7 DEF CountsKept
  <2> QED
    BY <2>1, <2>2 DEF StreamsFramedOnce
<1> QED
  BY <1>1, InitSound, ListenersStep, PTL DEF Spec
=============================================================================
