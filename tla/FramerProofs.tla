---------------------------- MODULE FramerProofs ----------------------------
(***************************************************************************)
(* What module Framer computes, for every sequence of bytes: the events of *)
(* a buffer are the pieces between its cuts (CanEnd), they are the bytes   *)
(* in front of the last cut and lose none of them, an event that the next  *)
(* byte may still belong to is withheld, and framing a stream in two       *)
(* pieces gives the events of framing it at once.                          *)
(*                                                                         *)
(* Recursive functions are taken by their equations.  That the equations   *)
(* have a solution, and what it satisfies, is shown by induction over a    *)
(* set of numbers (Induction, StrongInduction), since the library's        *)
(* theorems take an operator.                                              *)
(***************************************************************************)
EXTENDS Framer, SequenceTheorems, WellFoundedInduction, NaturalsInduction,
        TLAPS

-----------------------------------------------------------------------------
(* Induction over a set.                                                   *)

\* A set that has a number whenever it has all smaller ones has every number.
LEMMA StrongInduction ==
  ASSUME NEW T, \A n \in Nat : (\A m \in Nat : m < n => m \in T) => n \in T
  PROVE  \A n \in Nat : n \in T
<1> DEFINE R == Nat \ T
<1> SUFFICES ASSUME R # {} PROVE FALSE
  OBVIOUS
<1>1. R \subseteq Nat
  OBVIOUS
<1> HIDE DEF R
<1>2. \E r \in R : \A q \in R : ~(<<q, r>> \in OpToRel(<, Nat))
  BY <1>1, NatLessThanWellFounded, WFMin, Zenon
<1>3. PICK r \in R : \A q \in R : ~(<<q, r>> \in OpToRel(<, Nat))
  BY <1>2
<1>4. \A q \in R : ~(q < r)
  BY <1>1, <1>3 DEF OpToRel
<1>5. r \in Nat /\ \A m \in Nat : m < r => m \notin R
  BY <1>1, <1>4
<1> QED
  BY <1>3, <1>5 DEF R

\* A set that has 0, and n + 1 whenever it has n, has the numbers up to N.
LEMMA Induction ==
  ASSUME NEW N \in Nat, NEW T, 0 \in T,
         \A n \in Nat : n < N /\ n \in T => n + 1 \in T
  PROVE  \A n \in Nat : n <= N => n \in T
<1> DEFINE U == {n \in Nat : n <= N => n \in T}
<1>1. ASSUME NEW n \in Nat, \A m \in Nat : m < n => m \in U
      PROVE  n \in U
  <2>1. CASE n = 0
    BY <2>1
  <2>2. CASE n # 0
    <3>1. n - 1 \in Nat /\ n - 1 < n /\ (n - 1) + 1 = n
      BY <2>2
    <3>2. n - 1 \in U
      BY <3>1, <1>1
    <3>3. n <= N => n - 1 < N /\ n - 1 <= N
      BY <3>1
    <3> QED
      BY <3>1, <3>2, <3>3
  <2> QED
    BY <2>1, <2>2
<1> HIDE DEF U
<1>2. \A n \in Nat : n \in U
  BY <1>1, StrongInduction
<1> QED
  BY <1>2 DEF U

\* A set of numbers has a smallest.
LEMMA MinIs ==
  ASSUME NEW T, T \subseteq Nat, T # {}
  PROVE  Min(T) \in T /\ \A n \in T : Min(T) <= n
<1>1. \E n \in T : \A m \in T : n <= m
  <2> SUFFICES ASSUME \A n \in T : \E m \in T : ~(n <= m) PROVE FALSE
    OBVIOUS
  <2> DEFINE U == Nat \ T
  <2>1. ASSUME NEW n \in Nat, \A m \in Nat : m < n => m \in U
        PROVE  n \in U
    BY <2>1
  <2> HIDE DEF U
  <2>2. \A n \in Nat : n \in U
    BY <2>1, StrongInduction
  <2> QED
    BY <2>2 DEF U
<1> QED
  BY <1>1 DEF Min

\* A set that has the empty sequence, and with s also s and one element more,
\* has every sequence.
LEMMA SeqInduction ==
  ASSUME NEW S, NEW T, << >> \in T,
         \A s \in Seq(S), e \in S : s \in T => Append(s, e) \in T
  PROVE  \A s \in Seq(S) : s \in T
<1> DEFINE U == {n \in Nat : \A s \in Seq(S) : Len(s) = n => s \in T}
<1>1. ASSUME NEW n \in Nat, \A m \in Nat : m < n => m \in U
      PROVE  n \in U
  <2> SUFFICES ASSUME NEW s \in Seq(S), Len(s) = n PROVE s \in T
    OBVIOUS
  <2>1. CASE s = << >>
    BY <2>1
  <2>2. CASE s # << >>
    <3>1. PICK t \in Seq(S), e \in S : s = Append(t, e)
      BY <2>2, SequenceEmptyOrAppend
    <3>2. Len(t) \in Nat /\ Len(t) < n
      BY <3>1, AppendProperties, LenProperties
    <3>3. t \in T
      BY <3>2, <1>1
    <3> QED
      BY <3>1, <3>3
  <2> QED
    BY <2>1, <2>2
<1> HIDE DEF U
<1>2. \A n \in Nat : n \in U
  BY <1>1, StrongInduction
<1> QED
  BY <1>2, LenProperties DEF U

-----------------------------------------------------------------------------
(* Flattening.                                                             *)

\* F joins the first i events of s, for every i.
Joins(F, s) ==
  F = [i \in 1 .. Len(s) |-> IF i = 1 THEN s[i] ELSE F[i - 1] \o s[i]]

\* Nothing joined is nothing.
LEMMA FlatEmpty == FlattenSeq(<< >>) = << >>
BY DEF FlattenSeq

\* The equations of FlattenSeq have a solution.
LEMMA JoinsExists ==
  ASSUME NEW S, NEW s \in Seq(Seq(S)), s # << >>
  PROVE  \E F \in [1 .. Len(s) -> Seq(S)] : Joins(F, s)
<1> DEFINE N == Len(s)
           Sol(F, k) == \A i \in 1 .. k :
                          F[i] = IF i = 1 THEN s[i] ELSE F[i - 1] \o s[i]
           T == {k \in Nat : \E F \in [1 .. N -> Seq(S)] : Sol(F, k)}
<1>1. N \in Nat \ {0} /\ \A i \in 1 .. N : s[i] \in Seq(S)
  BY EmptySeq, ElementOfSeq
<1>2. 0 \in T
  <2>1. [i \in 1 .. N |-> << >>] \in [1 .. N -> Seq(S)]
    BY EmptySeq
  <2> QED
    BY <2>1
<1> HIDE DEF N
<1>3. ASSUME NEW k \in Nat, k < N, k \in T
      PROVE  k + 1 \in T
  <2>1. PICK F \in [1 .. N -> Seq(S)] : Sol(F, k)
    BY <1>3
  <2> DEFINE v == IF k + 1 = 1 THEN s[k + 1] ELSE F[k] \o s[k + 1]
             G == [F EXCEPT ![k + 1] = v]
  <2>2. k + 1 \in 1 .. N /\ (k + 1 # 1 => k \in 1 .. N)
    BY <1>3, <1>1
  <2>3. v \in Seq(S)
    <3>1. CASE k + 1 = 1
      BY <3>1, <2>2, <1>1
    <3>2. CASE k + 1 # 1
      BY <3>2, <2>2, <1>1, ConcatProperties
    <3> QED
      BY <3>1, <3>2
  <2>4. G \in [1 .. N -> Seq(S)] /\ G[k + 1] = v
        /\ \A i \in 1 .. k : G[i] = F[i]
    <3>1. \A i \in 1 .. k : i \in 1 .. N /\ i # k + 1
      BY <2>2, <1>1
    <3> HIDE DEF v
    <3> QED
      BY <2>2, <2>3, <3>1
  <2> HIDE DEF G
  <2>5. Sol(G, k + 1)
    <3> TAKE i \in 1 .. k + 1
    <3>1. CASE i = k + 1
      <4>1. k + 1 # 1 => k \in 1 .. k
        OBVIOUS
      <4> QED
        BY <3>1, <4>1, <2>4
    <3>2. CASE i # k + 1
      <4>1. i \in 1 .. k /\ (i # 1 => i - 1 \in 1 .. k)
        BY <3>2
      <4> QED
        BY <4>1, <2>1, <2>4
    <3> QED
      BY <3>1, <3>2
  <2> HIDE DEF Sol
  <2>6. k + 1 \in Nat /\ \E H \in [1 .. N -> Seq(S)] : Sol(H, k + 1)
    BY <2>4, <2>5
  <2> QED
    BY <2>6
<1>4. \A k \in Nat : k < N /\ k \in T => k + 1 \in T
  BY <1>3
<1> HIDE DEF T
<1>7. \A k \in Nat : k <= N => k \in T
  BY <1>1, <1>2, <1>4, Induction
<1>8. N \in T
  BY <1>1, <1>7
<1>5. PICK F \in [1 .. N -> Seq(S)] : Sol(F, N)
  BY <1>8 DEF T
<1>6. F = [i \in 1 .. N |-> IF i = 1 THEN s[i] ELSE F[i - 1] \o s[i]]
  BY <1>5
<1> QED
  BY <1>6 DEF Joins, N

\* So FlattenSeq is the last value of a solution.
LEMMA FlatIs ==
  ASSUME NEW S, NEW s \in Seq(Seq(S)), s # << >>
  PROVE  \E F : Joins(F, s) /\ FlattenSeq(s) = F[Len(s)]
<1>1. \E F : Joins(F, s)
  BY JoinsExists
<1> DEFINE H == CHOOSE G : G = [i \in 1 .. Len(s) |->
                                 IF i = 1 THEN s[i] ELSE G[i - 1] \o s[i]]
<1>2. H = [i \in 1 .. Len(s) |-> IF i = 1 THEN s[i] ELSE H[i - 1] \o s[i]]
  BY <1>1, Zenon DEF Joins
<1>3. FlattenSeq(s) = H[Len(s)]
  <2>1. Len(s) # 0
    OBVIOUS
  <2> QED
    BY <2>1 DEF FlattenSeq
<1> HIDE DEF H
<1> QED
  BY <1>2, <1>3 DEF Joins

\* A value of a solution.
LEMMA JoinsAt ==
  ASSUME NEW s, NEW F, Joins(F, s), NEW i \in 1 .. Len(s)
  PROVE  F[i] = IF i = 1 THEN s[i] ELSE F[i - 1] \o s[i]
<1> DEFINE v(j) == IF j = 1 THEN s[j] ELSE F[j - 1] \o s[j]
<1>1. F = [j \in 1 .. Len(s) |-> v(j)]
  BY Zenon DEF Joins
<1> HIDE DEF v
<1>2. F[i] = v(i)
  BY <1>1, Zenon
<1> QED
  BY <1>2 DEF v

\* t begins with s.
Begins(t, s) == Len(s) <= Len(t) /\ \A i \in 1 .. Len(s) : t[i] = s[i]

\* Solutions for s and for a longer sequence agree where both are defined.
LEMMA JoinsAgree ==
  ASSUME NEW S, NEW s \in Seq(Seq(S)), NEW t \in Seq(Seq(S)),
         Begins(t, s), NEW F, NEW G, Joins(F, s), Joins(G, t)
  PROVE  \A i \in 1 .. Len(s) : F[i] = G[i]
<1> DEFINE T == {k \in Nat : k \in 1 .. Len(s) => F[k] = G[k]}
<1>1. 0 \in T
  OBVIOUS
<1>2. ASSUME NEW k \in Nat, k < Len(s), k \in T
      PROVE  k + 1 \in T
  <2>1. /\ k + 1 \in 1 .. Len(s) /\ k + 1 \in 1 .. Len(t)
        /\ (k + 1) - 1 = k /\ t[k + 1] = s[k + 1]
    <3>1. Len(s) \in Nat /\ Len(t) \in Nat /\ Len(s) <= Len(t)
      BY DEF Begins
    <3>2. k + 1 \in 1 .. Len(s) /\ k + 1 \in 1 .. Len(t) /\ (k + 1) - 1 = k
      BY <1>2, <3>1
    <3> QED
      BY <3>2 DEF Begins
  <2>2. F[k + 1] = IF k + 1 = 1 THEN s[k + 1] ELSE F[k] \o s[k + 1]
    BY <2>1, JoinsAt
  <2>3. G[k + 1] = IF k + 1 = 1 THEN t[k + 1] ELSE G[k] \o t[k + 1]
    BY <2>1, JoinsAt
  <2>4. k + 1 # 1 => F[k] = G[k]
    BY <1>2
  <2> QED
    BY <2>1, <2>2, <2>3, <2>4
<1> HIDE DEF T
<1>4. \A k \in Nat : k < Len(s) /\ k \in T => k + 1 \in T
  BY <1>2
<1>5. Len(s) \in Nat
  OBVIOUS
<1>3. \A k \in Nat : k <= Len(s) => k \in T
  BY <1>1, <1>4, <1>5, Induction
<1> QED
  BY <1>3 DEF T

\* One more event is joined at the end.
LEMMA FlatAppend ==
  ASSUME NEW S, NEW s \in Seq(Seq(S)), NEW e \in Seq(S)
  PROVE  FlattenSeq(Append(s, e)) = FlattenSeq(s) \o e
<1> DEFINE t == Append(s, e)
           n == Len(s)
<1>1. /\ t \in Seq(Seq(S)) /\ Len(t) = n + 1 /\ t # << >> /\ n \in Nat
      /\ t[n + 1] = e /\ \A i \in 1 .. n : t[i] = s[i]
  BY AppendProperties, LenProperties
<1> HIDE DEF t
<1>2. PICK G : Joins(G, t) /\ FlattenSeq(t) = G[n + 1]
  BY <1>1, FlatIs
<1>3. G[n + 1] = IF n + 1 = 1 THEN t[n + 1] ELSE G[n] \o t[n + 1]
  <2>1. n + 1 \in 1 .. Len(t) /\ (n + 1) - 1 = n
    BY <1>1
  <2> QED
    BY <1>2, <2>1, JoinsAt
<1>4. CASE s = << >>
  <2>1. n = 0
    BY <1>4
  <2>2. FlattenSeq(t) = e
    BY <2>1, <1>1, <1>2, <1>3
  <2> QED
    BY <2>2, <1>4, FlatEmpty, ConcatEmptySeq DEF t
<1>5. CASE s # << >>
  <2>1. n # 0 /\ n \in 1 .. n
    BY <1>5, <1>1, EmptySeq
  <2>2. PICK F : Joins(F, s) /\ FlattenSeq(s) = F[n]
    BY <1>5, FlatIs
  <2>3. Begins(t, s)
    BY <1>1 DEF Begins
  <2>4. \A i \in 1 .. Len(s) : F[i] = G[i]
    BY <1>1, <1>2, <2>2, <2>3, JoinsAgree
  <2> QED
    <3>1. /\ G[n + 1] = IF n + 1 = 1 THEN t[n + 1] ELSE G[n] \o t[n + 1]
          /\ n + 1 # 1 /\ t[n + 1] = e /\ FlattenSeq(t) = G[n + 1]
          /\ F[n] = G[n] /\ FlattenSeq(s) = F[n]
      BY <2>1, <2>2, <2>4, <1>1, <1>2, <1>3
    <3> HIDE DEF n
    <3>2. FlattenSeq(t) = FlattenSeq(s) \o e
      BY <3>1
    <3> QED
      BY <3>2 DEF t
<1> QED
  BY <1>4, <1>5

\* What is joined is a sequence of the same bytes.
LEMMA FlatType ==
  ASSUME NEW S, NEW s \in Seq(Seq(S))
  PROVE  FlattenSeq(s) \in Seq(S)
<1> DEFINE T == {t \in Seq(Seq(S)) : FlattenSeq(t) \in Seq(S)}
<1>1. << >> \in T
  <2>1. << >> \in Seq(Seq(S)) /\ << >> \in Seq(S)
    BY EmptySeq
  <2> QED
    BY <2>1, FlatEmpty
<1>2. ASSUME NEW t \in Seq(Seq(S)), NEW e \in Seq(S), t \in T
      PROVE  Append(t, e) \in T
  BY <1>2, FlatAppend, AppendProperties, ConcatProperties
<1> HIDE DEF T
<1>3. \A t \in Seq(Seq(S)) : t \in T
  BY <1>1, <1>2, SeqInduction
<1> QED
  BY <1>3 DEF T

\* Joining two sequences of events joins what they join.
LEMMA FlatConcat ==
  ASSUME NEW S, NEW s \in Seq(Seq(S)), NEW t \in Seq(Seq(S))
  PROVE  FlattenSeq(s \o t) = FlattenSeq(s) \o FlattenSeq(t)
<1> DEFINE T == {u \in Seq(Seq(S)) :
                   FlattenSeq(s \o u) = FlattenSeq(s) \o FlattenSeq(u)}
<1>1. << >> \in T
  BY FlatEmpty, FlatType, ConcatEmptySeq, EmptySeq
<1>2. ASSUME NEW u \in Seq(Seq(S)), NEW e \in Seq(S), u \in T
      PROVE  Append(u, e) \in T
  <2>1. /\ Append(u, e) \in Seq(Seq(S)) /\ s \o u \in Seq(Seq(S))
        /\ <<e>> \in Seq(Seq(S))
    OBVIOUS
  <2>2. s \o Append(u, e) = Append(s \o u, e)
    <3>1. s \o Append(u, e) = s \o (u \o <<e>>)
      BY AppendIsConcat
    <3>2. Append(s \o u, e) = (s \o u) \o <<e>>
      BY <2>1, AppendIsConcat
    <3> QED
      BY <2>1, <3>1, <3>2, ConcatAssociative
  <2>3. /\ FlattenSeq(s) \in Seq(S) /\ FlattenSeq(u) \in Seq(S)
        /\ FlattenSeq(s \o u) = FlattenSeq(s) \o FlattenSeq(u)
    BY <1>2, FlatType
  <2>4. FlattenSeq(Append(s \o u, e)) = FlattenSeq(s \o u) \o e
    BY <2>1, FlatAppend
  <2>5. FlattenSeq(Append(u, e)) = FlattenSeq(u) \o e
    BY FlatAppend
  <2>6. (FlattenSeq(s) \o FlattenSeq(u)) \o e
          = FlattenSeq(s) \o (FlattenSeq(u) \o e)
    BY <2>3, ConcatAssociative, SMTT(30)
  <2>7. FlattenSeq(s \o Append(u, e))
          = FlattenSeq(s) \o FlattenSeq(Append(u, e))
    BY <2>2, <2>3, <2>4, <2>5, <2>6, Zenon
  <2> QED
    BY <2>1, <2>7
<1> HIDE DEF T
<1>3. \A u \in Seq(Seq(S)) : u \in T
  BY <1>1, <1>2, SeqInduction
<1> QED
  BY <1>3 DEF T

\* One event joined is that event.
LEMMA FlatOne ==
  ASSUME NEW S, NEW e \in Seq(S)
  PROVE  <<e>> \in Seq(Seq(S)) /\ FlattenSeq(<<e>>) = e
<1>1. << >> \in Seq(Seq(S)) /\ Append(<< >>, e) = <<e>>
  OBVIOUS
<1>2. FlattenSeq(Append(<< >>, e)) = FlattenSeq(<< >>) \o e
  BY <1>1, FlatAppend
<1> QED
  BY <1>1, <1>2, FlatEmpty, ConcatEmptySeq, AppendProperties

-----------------------------------------------------------------------------
(* The end of an event.                                                    *)

\* An event can end behind byte e: the input does, or a line does and the next
\* byte begins no continuation.
CanEnd(b, e, eof) ==
  \/ e = Len(b) /\ eof
  \/ e < Len(b) /\ b[e] = "\n" /\ ~IsContinuation(b[e + 1])

Cuts(b, p, eof) == {e \in p .. Len(b) : CanEnd(b, e, eof)}

FirstCut(b, p, eof) ==
  IF Cuts(b, p, eof) = {} THEN 0 ELSE Min(Cuts(b, p, eof))

\* What makes a position the first cut at or behind p.
LEMMA FirstCutIs ==
  ASSUME NEW S, NEW b \in Seq(S), NEW eof \in BOOLEAN, NEW p \in Nat \ {0}
  PROVE  /\ FirstCut(b, p, eof) = 0 => \A e \in p .. Len(b) : ~CanEnd(b, e, eof)
         /\ FirstCut(b, p, eof) # 0 =>
              /\ FirstCut(b, p, eof) \in p .. Len(b)
              /\ CanEnd(b, FirstCut(b, p, eof), eof)
              /\ \A e \in p .. Len(b) :
                   CanEnd(b, e, eof) => FirstCut(b, p, eof) <= e
         /\ \A e \in p .. Len(b) :
              /\ CanEnd(b, e, eof)
              /\ \A x \in p .. Len(b) : CanEnd(b, x, eof) => e <= x
              => FirstCut(b, p, eof) = e
<1> DEFINE C == Cuts(b, p, eof)
           m == FirstCut(b, p, eof)
<1>1. \A e : e \in C <=> e \in p .. Len(b) /\ CanEnd(b, e, eof)
  BY DEF Cuts
<1>2. Len(b) \in Nat
  OBVIOUS
<1>3. C \subseteq Nat \ {0}
  BY <1>1, <1>2
<1> HIDE DEF C
<1>4. C # {} => m \in C /\ \A e \in C : m <= e
  BY <1>3, MinIs DEF FirstCut, C
<1>5. C = {} => m = 0
  BY DEF FirstCut, C
<1> HIDE DEF m
<1>6. m = 0 => \A e \in p .. Len(b) : ~CanEnd(b, e, eof)
  BY <1>1, <1>3, <1>4
<1>7. m # 0 => /\ m \in p .. Len(b) /\ CanEnd(b, m, eof)
               /\ \A e \in p .. Len(b) : CanEnd(b, e, eof) => m <= e
  BY <1>1, <1>4, <1>5
<1>8. ASSUME NEW e \in p .. Len(b), CanEnd(b, e, eof),
             \A x \in p .. Len(b) : CanEnd(b, x, eof) => e <= x
      PROVE  m = e
  <2>1. e \in C
    BY <1>8, <1>1
  <2>2. m \in C /\ m <= e
    BY <2>1, <1>4
  <2>3. e <= m
    BY <2>2, <1>1, <1>8
  <2> QED
    BY <2>1, <2>2, <2>3, <1>3
<1> QED
  BY <1>6, <1>7, <1>8 DEF m

\* LineEnd finds the line's last byte, and no event can end before it.
LEMMA LineEndIs ==
  ASSUME NEW S, NEW b \in Seq(S), NEW eof \in BOOLEAN, NEW p \in 1 .. Len(b)
  PROVE  LET l == LineEnd(b, p, eof) IN
         \/ /\ l = 0 /\ ~eof
            /\ \A i \in p .. Len(b) : b[i] # "\n"
         \/ /\ l \in p .. Len(b) /\ (b[l] = "\n" \/ (l = Len(b) /\ eof))
            /\ \A i \in p .. Len(b) : i < l => b[i] # "\n"
<1> DEFINE ends == {i \in p .. Len(b) : b[i] = "\n"}
<1>1. Len(b) \in Nat
  OBVIOUS
<1>2. CASE ends # {}
  <2>1. ends \subseteq Nat
    BY <1>1
  <2>2. LineEnd(b, p, eof) = Min(ends)
    BY <1>2 DEF LineEnd
  <2> HIDE DEF ends
  <2>3. Min(ends) \in ends /\ \A i \in ends : Min(ends) <= i
    BY <1>2, <2>1, MinIs
  <2>4. PICK l : l = LineEnd(b, p, eof)
    OBVIOUS
  <2>5. l \in ends /\ \A i \in ends : l <= i
    BY <2>2, <2>3, <2>4
  <2>6. l \in p .. Len(b) /\ b[l] = "\n"
    BY <2>5 DEF ends
  <2>7. \A i \in p .. Len(b) : i < l => b[i] # "\n"
    BY <2>5, <2>6, <1>1 DEF ends
  <2> QED
    BY <2>4, <2>6, <2>7
<1>3. CASE ends = {}
  <2>1. LineEnd(b, p, eof) = IF eof THEN Len(b) ELSE 0
    BY <1>3 DEF LineEnd
  <2>2. \A i \in p .. Len(b) : b[i] # "\n"
    BY <1>3
  <2>3. Len(b) \in p .. Len(b)
    BY <1>1
  <2> QED
    BY <2>1, <2>2, <2>3
<1> QED
  BY <1>2, <1>3

\* What EventEnd's Lines computes: the end of the event whose current line
\* ends with byte e.
LinesValue(b, e, eof) ==
  IF e = 0 THEN 0
  ELSE IF e = Len(b) THEN IF eof THEN e ELSE 0
  ELSE IF ~IsContinuation(b[e + 1]) THEN e
  ELSE FirstCut(b, e + 1, eof)

\* One line on, it is the first cut.
LEMMA LinesStep ==
  ASSUME NEW S, NEW b \in Seq(S), NEW eof \in BOOLEAN, NEW p \in 1 .. Len(b)
  PROVE  /\ LineEnd(b, p, eof) \in {0} \cup p .. Len(b)
         /\ LinesValue(b, LineEnd(b, p, eof), eof) = FirstCut(b, p, eof)
<1> DEFINE N == Len(b)
<1>1. N \in Nat /\ N = Len(b) /\ p \in Nat \ {0} /\ p <= N
  OBVIOUS
<1> HIDE DEF N
<1>2. PICK l : l = LineEnd(b, p, eof)
  OBVIOUS
<1>3. \/ l = 0 /\ ~eof /\ \A i \in p .. N : b[i] # "\n"
      \/ /\ l \in p .. N /\ (b[l] = "\n" \/ (l = N /\ eof))
         /\ \A i \in p .. N : i < l => b[i] # "\n"
  BY <1>1, <1>2, LineEndIs
<1>4. l # 0 => \A i \in p .. N : i < l => ~CanEnd(b, i, eof)
  BY <1>1, <1>3 DEF CanEnd
<1>5. CASE l = 0
  <2>1. \A i \in p .. N : ~CanEnd(b, i, eof)
    BY <1>1, <1>3, <1>5 DEF CanEnd
  <2>2. FirstCut(b, p, eof) = 0
    BY <2>1, <1>1, FirstCutIs
  <2> QED
    BY <2>2, <1>2, <1>5 DEF LinesValue
<1>6. CASE l # 0 /\ CanEnd(b, l, eof)
  <2>1. l \in p .. N /\ l # 0
    BY <1>3, <1>6
  <2>2. \A x \in p .. N : CanEnd(b, x, eof) => l <= x
    BY <1>4, <1>6, <2>1, <1>1
  <2>3. FirstCut(b, p, eof) = l
    BY <2>1, <2>2, <1>1, <1>6, FirstCutIs
  <2>4. LinesValue(b, l, eof) = l
    BY <2>1, <1>1, <1>6 DEF CanEnd, LinesValue
  <2> QED
    BY <2>1, <2>3, <2>4, <1>1, <1>2
<1>7. CASE l = N /\ l # 0 /\ ~CanEnd(b, l, eof)
  <2>1. ~eof
    BY <1>1, <1>7 DEF CanEnd
  <2>2. \A i \in p .. N : ~CanEnd(b, i, eof)
    BY <1>1, <1>4, <1>7
  <2>3. FirstCut(b, p, eof) = 0
    BY <2>2, <1>1, FirstCutIs
  <2>4. LinesValue(b, l, eof) = 0
    BY <2>1, <1>1, <1>7 DEF LinesValue
  <2> QED
    BY <2>3, <2>4, <1>1, <1>2, <1>3, <1>7
<1>8. CASE l # N /\ l # 0 /\ ~CanEnd(b, l, eof)
  <2>1. l \in p .. N /\ l < N /\ b[l] = "\n" /\ l + 1 \in Nat \ {0}
    BY <1>1, <1>3, <1>8
  <2>2. IsContinuation(b[l + 1])
    BY <2>1, <1>1, <1>8 DEF CanEnd
  <2>3. \A i \in p .. N : i <= l => ~CanEnd(b, i, eof)
    BY <1>1, <1>4, <1>8, <2>1
  <2>4. FirstCut(b, p, eof) = FirstCut(b, l + 1, eof)
    <3>1. CASE FirstCut(b, l + 1, eof) = 0
      <4>1. \A e \in l + 1 .. N : ~CanEnd(b, e, eof)
        BY <3>1, <2>1, <1>1, FirstCutIs
      <4>2. \A e \in p .. N : ~CanEnd(b, e, eof)
        BY <4>1, <2>1, <2>3, <1>1
      <4> QED
        BY <3>1, <4>2, <1>1, FirstCutIs
    <3>2. CASE FirstCut(b, l + 1, eof) # 0
      <4>1. PICK m : m = FirstCut(b, l + 1, eof)
        OBVIOUS
      <4>2. /\ m \in l + 1 .. N /\ CanEnd(b, m, eof)
            /\ \A e \in l + 1 .. N : CanEnd(b, e, eof) => m <= e
        BY <3>2, <4>1, <2>1, <1>1, FirstCutIs
      <4>3. \A e \in p .. N : CanEnd(b, e, eof) => m <= e
        BY <4>2, <2>1, <2>3, <1>1
      <4>4. m \in p .. N
        BY <4>2, <2>1, <1>1
      <4>5. FirstCut(b, p, eof) = m
        BY <4>2, <4>3, <4>4, <1>1, FirstCutIs
      <4> QED
        BY <4>1, <4>5
    <3> QED
      BY <3>1, <3>2
  <2>5. LinesValue(b, l, eof) = FirstCut(b, l + 1, eof)
    BY <2>1, <2>2, <1>1, <1>8 DEF LinesValue
  <2> QED
    BY <2>1, <2>4, <2>5, <1>1, <1>2
<1> QED
  BY <1>5, <1>6, <1>7, <1>8

\* EventEnd is the first position where the event can end.
LEMMA EventEndIs ==
  ASSUME NEW S, NEW b \in Seq(S), NEW eof \in BOOLEAN, NEW p \in 1 .. Len(b)
  PROVE  EventEnd(b, p, eof) = FirstCut(b, p, eof)
<1> DEFINE N == Len(b)
           Step(F, e) == IF e = 0 THEN 0
                         ELSE IF e = Len(b) THEN IF eof THEN e ELSE 0
                         ELSE IF ~IsContinuation(b[e + 1]) THEN e
                         ELSE F[LineEnd(b, e + 1, eof)]
           W == [e \in 0 .. N |-> LinesValue(b, e, eof)]
           L == CHOOSE F : F = [e \in 0 .. N |-> Step(F, e)]
<1>1. N \in Nat /\ N = Len(b)
  OBVIOUS
<1> HIDE DEF N
<1>2. \A e \in 0 .. N : W[e] = LinesValue(b, e, eof)
  OBVIOUS
<1>3. \A e \in 1 .. N - 1 :
        /\ LineEnd(b, e + 1, eof) \in {0} \cup e + 1 .. N
        /\ LinesValue(b, LineEnd(b, e + 1, eof), eof)
             = FirstCut(b, e + 1, eof)
  BY <1>1, LinesStep
<1> HIDE DEF W
<1>4. \A e \in 0 .. N : LinesValue(b, e, eof) = Step(W, e)
  <2> SUFFICES ASSUME NEW e \in 0 .. N
               PROVE  LinesValue(b, e, eof) = Step(W, e)
    OBVIOUS
  <2>1. CASE e = 0 \/ e = N \/ ~IsContinuation(b[e + 1])
    BY <2>1, <1>1 DEF LinesValue
  <2>2. CASE ~(e = 0 \/ e = N \/ ~IsContinuation(b[e + 1]))
    <3>1. e \in 1 .. N - 1
      BY <2>2, <1>1
    <3>2. LineEnd(b, e + 1, eof) \in 0 .. N
      BY <3>1, <1>3, <1>1
    <3>3. W[LineEnd(b, e + 1, eof)] = FirstCut(b, e + 1, eof)
      BY <3>1, <3>2, <1>2, <1>3
    <3>4. LinesValue(b, e, eof) = FirstCut(b, e + 1, eof)
      BY <2>2, <1>1 DEF LinesValue
    <3>5. Step(W, e) = W[LineEnd(b, e + 1, eof)]
      BY <2>2, <1>1
    <3> QED
      BY <3>3, <3>4, <3>5
  <2> QED
    BY <2>1, <2>2
<1> HIDE DEF Step
<1>5. W = [e \in 0 .. N |-> Step(W, e)]
  BY <1>4 DEF W
<1>6. L = [e \in 0 .. N |-> Step(L, e)]
  BY <1>5, Zenon
<1> HIDE DEF L
<1>7. \A e \in 0 .. N : L[e] = Step(L, e)
  BY <1>6
<1> DEFINE T == {k \in Nat : \A e \in 1 .. N : N - e = k => L[e] = W[e]}
<1>8. ASSUME NEW k \in Nat, \A m \in Nat : m < k => m \in T
      PROVE  k \in T
  <2> SUFFICES ASSUME NEW e \in 1 .. N, N - e = k
               PROVE  L[e] = W[e]
    OBVIOUS
  <2>1. e \in 0 .. N /\ L[e] = Step(L, e) /\ W[e] = Step(W, e)
    BY <1>1, <1>2, <1>4, <1>7
  <2>2. CASE e = N \/ ~IsContinuation(b[e + 1])
    BY <2>1, <2>2, <1>1 DEF Step
  <2>3. CASE ~(e = N \/ ~IsContinuation(b[e + 1]))
    <3>1. PICK l : l = LineEnd(b, e + 1, eof)
      OBVIOUS
    <3>2. e \in 1 .. N - 1
      BY <2>3, <1>1
    <3>3. l \in {0} \cup e + 1 .. N
      BY <3>1, <3>2, <1>3
    <3>4. L[l] = W[l]
      <4>1. CASE l = 0
        BY <4>1, <1>1, <1>2, <1>4, <1>7 DEF Step
      <4>2. CASE l # 0
        <5>1. l \in e + 1 .. N
          BY <4>2, <3>3
        <5>2. N - l \in Nat /\ N - l < k /\ l \in 1 .. N
          BY <5>1, <1>1
        <5>3. N - l \in T
          BY <5>2, <1>8
        <5> QED
          BY <5>2, <5>3
      <4> QED
        BY <4>1, <4>2
    <3>5. Step(L, e) = L[l] /\ Step(W, e) = W[l]
      BY <2>3, <3>1, <3>2, <1>1 DEF Step
    <3> QED
      BY <2>1, <3>4, <3>5
  <2> QED
    BY <2>2, <2>3
<1> HIDE DEF T
<1>9. \A k \in Nat : k \in T
  BY <1>8, StrongInduction
<1>10. \A e \in 0 .. N : L[e] = W[e]
  <2> SUFFICES ASSUME NEW e \in 0 .. N PROVE L[e] = W[e]
    OBVIOUS
  <2>1. CASE e = 0
    BY <2>1, <1>2, <1>4, <1>7 DEF Step
  <2>2. CASE e # 0
    <3>1. e \in 1 .. N /\ N - e \in Nat
      BY <2>2, <1>1
    <3> QED
      BY <3>1, <1>9 DEF T
  <2> QED
    BY <2>1, <2>2
<1>11. EventEnd(b, p, eof) = L[LineEnd(b, p, eof)]
  BY Zenon DEF EventEnd, L, Step, N
<1>12. /\ LineEnd(b, p, eof) \in 0 .. N
       /\ LinesValue(b, LineEnd(b, p, eof), eof) = FirstCut(b, p, eof)
  BY <1>1, LinesStep
<1> QED
  BY <1>2, <1>10, <1>11, <1>12
-----------------------------------------------------------------------------
(* The events of a buffer.                                                 *)

\* The bytes behind the first k.
IsRest(d, b, k) == d = SubSeq(b, k + 1, Len(b))

\* They are a sequence of bytes, each where it was.
LEMMA RestIs ==
  ASSUME NEW S, NEW b \in Seq(S), NEW k \in 0 .. Len(b)
  PROVE  /\ SubSeq(b, k + 1, Len(b)) \in Seq(S)
         /\ Len(SubSeq(b, k + 1, Len(b))) = Len(b) - k
         /\ \A i \in 1 .. Len(b) - k : SubSeq(b, k + 1, Len(b))[i] = b[k + i]
<1>1. Len(b) \in Nat /\ \A i \in k + 1 .. Len(b) : b[i] \in S
  BY ElementOfSeq
<1>2. /\ SubSeq(b, k + 1, Len(b)) \in Seq(S)
      /\ Len(SubSeq(b, k + 1, Len(b)))
           = IF k + 1 <= Len(b) THEN Len(b) - (k + 1) + 1 ELSE 0
      /\ \A i \in 1 .. Len(b) - (k + 1) + 1 :
           SubSeq(b, k + 1, Len(b))[i] = b[k + 1 + i - 1]
  BY <1>1, SubSeqProperties
<1>3. \A i \in 1 .. Len(b) - k :
        i \in 1 .. Len(b) - (k + 1) + 1 /\ k + 1 + i - 1 = k + i
  BY <1>1
<1> QED
  BY <1>1, <1>2, <1>3

\* Behind the first k bytes the cuts are where they were.
LEMMA CutsShift ==
  ASSUME NEW S, NEW b \in Seq(S), NEW eof \in BOOLEAN, NEW k \in 0 .. Len(b),
         NEW d, IsRest(d, b, k), NEW q \in 1 .. Len(d) + 1
  PROVE  /\ FirstCut(b, q + k, eof) = 0 => FirstCut(d, q, eof) = 0
         /\ FirstCut(b, q + k, eof) # 0 =>
              FirstCut(d, q, eof) = FirstCut(b, q + k, eof) - k
<1> DEFINE N == Len(b)
<1>1. /\ N \in Nat /\ N = Len(b) /\ k \in Nat /\ k <= N
      /\ d \in Seq(S) /\ Len(d) = N - k
      /\ \A i \in 1 .. N - k : d[i] = b[k + i]
  BY RestIs DEF IsRest
<1> HIDE DEF N
<1>2. q \in Nat \ {0} /\ q + k \in Nat \ {0} /\ q <= N - k + 1
  BY <1>1
<1>3. \A e \in 1 .. N - k : CanEnd(d, e, eof) <=> CanEnd(b, k + e, eof)
  <2> SUFFICES ASSUME NEW e \in 1 .. N - k
               PROVE  CanEnd(d, e, eof) <=> CanEnd(b, k + e, eof)
    OBVIOUS
  <2>1. (e = N - k <=> k + e = N) /\ (e < N - k <=> k + e < N)
    BY <1>1
  <2>2. d[e] = b[k + e]
    BY <1>1
  <2>3. e < N - k => d[e + 1] = b[k + e + 1]
    <3>1. e < N - k => e + 1 \in 1 .. N - k /\ k + (e + 1) = k + e + 1
      BY <1>1
    <3> QED
      BY <3>1, <1>1
  <2> QED
    BY <2>1, <2>2, <2>3, <1>1 DEF CanEnd
<1>4. CASE FirstCut(b, q + k, eof) = 0
  <2>1. \A e \in q + k .. N : ~CanEnd(b, e, eof)
    BY <1>1, <1>2, <1>4, FirstCutIs
  <2>2. \A e \in q .. Len(d) : ~CanEnd(d, e, eof)
    <3> SUFFICES ASSUME NEW e \in q .. Len(d) PROVE ~CanEnd(d, e, eof)
      OBVIOUS
    <3>1. e \in 1 .. N - k /\ k + e \in q + k .. N
      BY <1>1, <1>2
    <3> QED
      BY <3>1, <2>1, <1>3
  <2>3. FirstCut(d, q, eof) = 0
    BY <2>2, <1>1, <1>2, FirstCutIs
  <2> QED
    BY <2>3, <1>4
<1>5. CASE FirstCut(b, q + k, eof) # 0
  <2>1. PICK m : m = FirstCut(b, q + k, eof)
    OBVIOUS
  <2>2. /\ m \in q + k .. N /\ CanEnd(b, m, eof) /\ m # 0
        /\ \A e \in q + k .. N : CanEnd(b, e, eof) => m <= e
    BY <2>1, <1>1, <1>2, <1>5, FirstCutIs
  <2>3. m - k \in 1 .. N - k /\ k + (m - k) = m /\ m - k \in q .. Len(d)
    BY <2>2, <1>1, <1>2
  <2>4. CanEnd(d, m - k, eof)
    BY <2>2, <2>3, <1>3
  <2>5. \A e \in q .. Len(d) : CanEnd(d, e, eof) => m - k <= e
    <3> SUFFICES ASSUME NEW e \in q .. Len(d), CanEnd(d, e, eof)
                 PROVE  m - k <= e
      OBVIOUS
    <3>1. e \in 1 .. N - k /\ k + e \in q + k .. N
      BY <1>1, <1>2
    <3>2. m <= k + e
      BY <3>1, <2>2, <1>3
    <3> QED
      BY <3>1, <3>2, <2>2, <1>1, <1>2
  <2>6. FirstCut(d, q, eof) = m - k
    BY <2>3, <2>4, <2>5, <1>1, <1>2, FirstCutIs
  <2> QED
    BY <2>1, <2>2, <2>6
<1> QED
  BY <1>4, <1>5

\* The events from p on, given those from later positions.
FromStep(F, b, p, eof) ==
  IF FirstCut(b, p, eof) = 0 THEN << >>
  ELSE <<SubSeq(b, p, FirstCut(b, p, eof))>> \o F[FirstCut(b, p, eof) + 1]

\* F solves the equation of Frames' From.
IsFrom(F, b, eof) == \A p \in 1 .. Len(b) + 1 : F[p] = FromStep(F, b, p, eof)

\* Where the next event begins.
LEMMA NextStart ==
  ASSUME NEW S, NEW b \in Seq(S), NEW eof \in BOOLEAN,
         NEW p \in 1 .. Len(b) + 1, FirstCut(b, p, eof) # 0
  PROVE  /\ FirstCut(b, p, eof) \in p .. Len(b)
         /\ FirstCut(b, p, eof) + 1 \in p + 1 .. Len(b) + 1
         /\ SubSeq(b, p, FirstCut(b, p, eof)) \in Seq(S)
<1>1. Len(b) \in Nat /\ p \in Nat \ {0} /\ p \in Int
  OBVIOUS
<1>2. FirstCut(b, p, eof) \in p .. Len(b)
  BY <1>1, FirstCutIs
<1>3. \A m \in p .. Len(b) : m + 1 \in p + 1 .. Len(b) + 1
                             /\ SubSeq(b, p, m) \in Seq(S)
  <2> SUFFICES ASSUME NEW m \in p .. Len(b)
               PROVE  m + 1 \in p + 1 .. Len(b) + 1
                      /\ SubSeq(b, p, m) \in Seq(S)
    OBVIOUS
  <2>1. m \in Int /\ \A i \in p .. m : i \in 1 .. Len(b)
    BY <1>1
  <2>2. \A i \in p .. m : b[i] \in S
    BY <2>1, ElementOfSeq
  <2> QED
    BY <2>1, <2>2, <1>1, SubSeqProperties
<1> QED
  BY <1>2, <1>3

\* It has a solution, in sequences of events.
LEMMA FromExists ==
  ASSUME NEW S, NEW b \in Seq(S), NEW eof \in BOOLEAN
  PROVE  \E F \in [1 .. Len(b) + 1 -> Seq(Seq(S))] : IsFrom(F, b, eof)
<1> DEFINE N == Len(b)
           M == N + 1
           Sol(F, k) == \A p \in 1 .. M :
                          M - p < k => F[p] = FromStep(F, b, p, eof)
           T == {k \in Nat : \E F \in [1 .. M -> Seq(Seq(S))] : Sol(F, k)}
<1>1. N \in Nat /\ M \in Nat \ {0} /\ M = N + 1 /\ N = Len(b)
  OBVIOUS
<1> HIDE DEF N, M
<1>2. 0 \in T
  <2>1. [p \in 1 .. M |-> << >>] \in [1 .. M -> Seq(Seq(S))]
    BY EmptySeq
  <2>2. \A p \in 1 .. M : ~(M - p < 0)
    BY <1>1
  <2> QED
    BY <2>1, <2>2
<1>3. ASSUME NEW k \in Nat, k < M, k \in T
      PROVE  k + 1 \in T
  <2>1. PICK F \in [1 .. M -> Seq(Seq(S))] : Sol(F, k)
    BY <1>3
  <2>2. PICK r : r = M - k
    OBVIOUS
  <2>3. r \in 1 .. M /\ \A p \in 1 .. M :
          /\ M - p < k + 1 /\ p # r => M - p < k
          /\ M - p < k + 1 => r <= p
    BY <2>2, <1>1, <1>3
  <2> DEFINE G == [F EXCEPT ![r] = FromStep(F, b, r, eof)]
  <2>4. FromStep(F, b, r, eof) \in Seq(Seq(S))
    <3>1. CASE FirstCut(b, r, eof) = 0
      BY <3>1, EmptySeq DEF FromStep
    <3>2. CASE FirstCut(b, r, eof) # 0
      <4>1. PICK e : e = FirstCut(b, r, eof)
        OBVIOUS
      <4>2. e + 1 \in r + 1 .. M /\ SubSeq(b, r, e) \in Seq(S)
        BY <4>1, <3>2, <2>3, <1>1, NextStart
      <4>3. e + 1 \in 1 .. M
        BY <4>2, <2>3, <1>1
      <4>4. <<SubSeq(b, r, e)>> \in Seq(Seq(S)) /\ F[e + 1] \in Seq(Seq(S))
        BY <4>2, <4>3, FlatOne
      <4>5. <<SubSeq(b, r, e)>> \o F[e + 1] \in Seq(Seq(S))
        BY <4>4, ConcatProperties
      <4> QED
        BY <4>1, <4>5, <3>2 DEF FromStep
    <3> QED
      BY <3>1, <3>2
  <2>5. /\ G \in [1 .. M -> Seq(Seq(S))] /\ G[r] = FromStep(F, b, r, eof)
        /\ \A p \in 1 .. M : p # r => G[p] = F[p]
    BY <2>3, <2>4
  <2> HIDE DEF G
  <2>6. \A p \in 1 .. M : r <= p =>
          FromStep(G, b, p, eof) = FromStep(F, b, p, eof)
    <3> SUFFICES ASSUME NEW p \in 1 .. M, r <= p
                 PROVE  FromStep(G, b, p, eof) = FromStep(F, b, p, eof)
      OBVIOUS
    <3>1. CASE FirstCut(b, p, eof) = 0
      BY <3>1 DEF FromStep
    <3>2. CASE FirstCut(b, p, eof) # 0
      <4>1. FirstCut(b, p, eof) + 1 \in p + 1 .. M
        BY <3>2, <1>1, NextStart
      <4>2. FirstCut(b, p, eof) + 1 \in 1 .. M /\ FirstCut(b, p, eof) + 1 # r
        BY <4>1, <2>3, <1>1
      <4> QED
        BY <4>2, <2>5 DEF FromStep
    <3> QED
      BY <3>1, <3>2
  <2>7. Sol(G, k + 1)
    BY <2>1, <2>3, <2>5, <2>6
  <2> HIDE DEF Sol
  <2>8. k + 1 \in Nat /\ \E H \in [1 .. M -> Seq(Seq(S))] : Sol(H, k + 1)
    BY <2>5, <2>7
  <2> QED
    BY <2>8
<1>4. \A k \in Nat : k < M /\ k \in T => k + 1 \in T
  BY <1>3
<1> HIDE DEF T
<1>5. \A k \in Nat : k <= M => k \in T
  BY <1>1, <1>2, <1>4, Induction
<1>6. M \in T
  BY <1>1, <1>5
<1>7. PICK F \in [1 .. M -> Seq(Seq(S))] : Sol(F, M)
  BY <1>6 DEF T
<1>8. \A p \in 1 .. M : M - p < M
  BY <1>1
<1> QED
  BY <1>1, <1>7, <1>8 DEF IsFrom

\* What a solution says of the bytes behind the first k is the solution for
\* those bytes.
LEMMA FromAgree ==
  ASSUME NEW S, NEW b \in Seq(S), NEW eof \in BOOLEAN, NEW k \in 0 .. Len(b),
         NEW d, IsRest(d, b, k),
         NEW F, NEW G, IsFrom(F, b, eof), IsFrom(G, d, eof)
  PROVE  \A q \in 1 .. Len(d) + 1 : G[q] = F[q + k]
<1>5. \A q \in 1 .. Len(d) + 1 :
        /\ FirstCut(b, q + k, eof) = 0 => FirstCut(d, q, eof) = 0
        /\ FirstCut(b, q + k, eof) # 0 =>
             FirstCut(d, q, eof) = FirstCut(b, q + k, eof) - k
  <2> TAKE q \in 1 .. Len(d) + 1
  <2> QED
    BY CutsShift
<1> DEFINE N == Len(b)
           D == Len(d)
           T == {j \in Nat : \A q \in 1 .. D + 1 :
                               D + 1 - q = j => G[q] = F[q + k]}
<1>1. /\ N \in Nat /\ N = Len(b) /\ k \in Nat /\ k <= N
      /\ d \in Seq(S) /\ D = N - k /\ D \in Nat /\ D = Len(d)
      /\ \A i \in 1 .. N - k : d[i] = b[k + i]
  <2>1. Len(b) \in Nat /\ k \in Nat /\ k <= Len(b)
    OBVIOUS
  <2> QED
    BY <2>1, RestIs DEF IsRest
<1> HIDE DEF N, D
<1>2. ASSUME NEW j \in Nat, \A m \in Nat : m < j => m \in T
      PROVE  j \in T
  <2> SUFFICES ASSUME NEW q \in 1 .. D + 1, D + 1 - q = j
               PROVE  G[q] = F[q + k]
    OBVIOUS
  <2>1. q + k \in 1 .. N + 1 /\ q \in Nat /\ q \in 1 .. Len(d) + 1
    BY <1>1
  <2>2. /\ G[q] = FromStep(G, d, q, eof)
        /\ F[q + k] = FromStep(F, b, q + k, eof)
    BY <2>1, <1>1 DEF IsFrom
  <2>3. CASE FirstCut(b, q + k, eof) = 0
    <3>1. FirstCut(d, q, eof) = 0
      BY <2>1, <2>3, <1>5
    <3> QED
      BY <3>1, <2>2, <2>3 DEF FromStep
  <2>4. CASE FirstCut(b, q + k, eof) # 0
    <3>1. PICK m : m = FirstCut(b, q + k, eof)
      OBVIOUS
    <3>2. FirstCut(d, q, eof) = m - k
      BY <3>1, <2>1, <2>4, <1>5
    <3>3. m \in q + k .. N
      BY <3>1, <2>1, <2>4, <1>1, NextStart
    <3>4. /\ m - k + 1 \in 1 .. D + 1 /\ (m - k + 1) + k = m + 1
          /\ D + 1 - (m - k + 1) \in Nat /\ D + 1 - (m - k + 1) < j
          /\ m - k # 0 /\ m # 0
      BY <3>3, <2>1, <1>1
    <3>5. G[m - k + 1] = F[m + 1]
      BY <3>4, <1>2
    <3>6. SubSeq(d, q, m - k) = SubSeq(b, q + k, m)
      <4>1. /\ k + 1 \in 1 .. N /\ N \in 1 .. N
            /\ q \in 1 .. N - (k + 1) + 1 /\ m - k \in 1 .. N - (k + 1) + 1
            /\ (k + 1) + q - 1 = q + k /\ (k + 1) + (m - k) - 1 = m
        BY <3>3, <2>1, <1>1
      <4>2. SubSeq(SubSeq(b, k + 1, N), q, m - k)
              = SubSeq(b, (k + 1) + q - 1, (k + 1) + (m - k) - 1)
        BY <4>1, <1>1, SubSeqOfSubSeq, SMTT(30)
      <4> QED
        BY <4>1, <4>2, <1>1 DEF IsRest
    <3>7. G[q] = <<SubSeq(d, q, m - k)>> \o G[m - k + 1]
      BY <2>2, <3>2, <3>4 DEF FromStep
    <3>8. F[q + k] = <<SubSeq(b, q + k, m)>> \o F[m + 1]
      BY <2>2, <3>1, <3>4 DEF FromStep
    <3> QED
      BY <3>5, <3>6, <3>7, <3>8
  <2> QED
    BY <2>3, <2>4
<1> HIDE DEF T
<1>3. \A j \in Nat : j \in T
  BY <1>2, StrongInduction
<1>4. \A q \in 1 .. D + 1 : D + 1 - q \in Nat
  BY <1>1
<1> QED
  BY <1>1, <1>3, <1>4 DEF T
\* Frames is the first value of the solution.
LEMMA FramesIs ==
  ASSUME NEW S, NEW b \in Seq(S), NEW eof \in BOOLEAN
  PROVE  \E F : /\ IsFrom(F, b, eof)
                /\ Frames(b, eof) = F[1] /\ F[1] \in Seq(Seq(S))
<1> DEFINE Step(F, p) ==
             LET e == IF p > Len(b) THEN 0 ELSE EventEnd(b, p, eof) IN
             IF e = 0 THEN << >> ELSE <<SubSeq(b, p, e)>> \o F[e + 1]
           L == CHOOSE F : F = [p \in 1 .. Len(b) + 1 |-> Step(F, p)]
<1>1. Len(b) \in Nat /\ 1 \in 1 .. Len(b) + 1 /\ 0 \in 0 .. Len(b)
  OBVIOUS
<1>2. \A p \in 1 .. Len(b) + 1 :
        (IF p > Len(b) THEN 0 ELSE EventEnd(b, p, eof)) = FirstCut(b, p, eof)
  <2> SUFFICES ASSUME NEW p \in 1 .. Len(b) + 1
               PROVE  (IF p > Len(b) THEN 0 ELSE EventEnd(b, p, eof))
                        = FirstCut(b, p, eof)
    OBVIOUS
  <2>1. CASE p > Len(b)
    <3>1. \A e \in p .. Len(b) : FALSE
      BY <2>1, <1>1
    <3>2. FirstCut(b, p, eof) = 0
      BY <3>1 DEF FirstCut, Cuts
    <3> QED
      BY <2>1, <3>2
  <2>2. CASE ~(p > Len(b))
    <3>1. p \in 1 .. Len(b)
      BY <2>2, <1>1
    <3> QED
      BY <3>1, <2>2, EventEndIs
  <2> QED
    BY <2>1, <2>2
<1>3. \A F : \A p \in 1 .. Len(b) + 1 : Step(F, p) = FromStep(F, b, p, eof)
  BY <1>2 DEF FromStep
<1>4. PICK F \in [1 .. Len(b) + 1 -> Seq(Seq(S))] : IsFrom(F, b, eof)
  BY FromExists
<1> HIDE DEF Step
<1>5. F = [p \in 1 .. Len(b) + 1 |-> Step(F, p)]
  BY <1>3, <1>4 DEF IsFrom
<1>6. L = [p \in 1 .. Len(b) + 1 |-> Step(L, p)]
  BY <1>5, Zenon
<1>7. Frames(b, eof) = L[1]
  BY Zenon DEF Frames, L, Step
<1> HIDE DEF L
<1>8. IsFrom(L, b, eof)
  <2>1. \A p \in 1 .. Len(b) + 1 : L[p] = Step(L, p)
    BY <1>6
  <2> QED
    BY <2>1, <1>3 DEF IsFrom
<1>9. L[1] = F[1]
  <2>1. IsRest(b, b, 0)
    BY SubSeqFull DEF IsRest
  <2>2. \A q \in 1 .. Len(b) + 1 : L[q] = F[q + 0]
    BY <1>1, <1>4, <1>8, <2>1, FromAgree
  <2> QED
    BY <2>2, <1>1
<1>10. F[1] \in Seq(Seq(S))
  BY <1>1, <1>4
<1> QED
  BY <1>7, <1>8, <1>9, <1>10

\* The events of a buffer are the first one and those of the rest, or none.
LEMMA FramesUnfold ==
  ASSUME NEW S, NEW b \in Seq(S), NEW eof \in BOOLEAN
  PROVE  /\ Frames(b, eof) \in Seq(Seq(S))
         /\ FirstCut(b, 1, eof) = 0 => Frames(b, eof) = << >>
         /\ FirstCut(b, 1, eof) # 0 =>
              Frames(b, eof) =
                <<SubSeq(b, 1, FirstCut(b, 1, eof))>>
                \o Frames(SubSeq(b, FirstCut(b, 1, eof) + 1, Len(b)), eof)
<1>1. PICK F : /\ IsFrom(F, b, eof)
               /\ Frames(b, eof) = F[1] /\ F[1] \in Seq(Seq(S))
  BY FramesIs
<1>2. Len(b) \in Nat /\ 1 \in 1 .. Len(b) + 1
  OBVIOUS
<1>3. F[1] = FromStep(F, b, 1, eof)
  BY <1>1, <1>2 DEF IsFrom
<1>4. CASE FirstCut(b, 1, eof) = 0
  BY <1>1, <1>3, <1>4 DEF FromStep
<1>5. CASE FirstCut(b, 1, eof) # 0
  <2>1. PICK e : e = FirstCut(b, 1, eof)
    OBVIOUS
  <2>2. e \in 1 .. Len(b)
    BY <2>1, <1>2, <1>5, NextStart
  <2>3. PICK d : d = SubSeq(b, e + 1, Len(b))
    OBVIOUS
  <2>4. e \in 0 .. Len(b) /\ IsRest(d, b, e) /\ d \in Seq(S)
    BY <2>2, <2>3, RestIs DEF IsRest
  <2>5. PICK G : IsFrom(G, d, eof) /\ Frames(d, eof) = G[1]
    BY <2>4, FramesIs
  <2>6. \A q \in 1 .. Len(d) + 1 : G[q] = F[q + e]
    BY <1>1, <2>4, <2>5, FromAgree
  <2>7. 1 \in 1 .. Len(d) + 1 /\ 1 + e = e + 1
    BY <2>2, <2>4
  <2>8. F[1] = <<SubSeq(b, 1, e)>> \o F[e + 1]
    BY <1>3, <1>5, <2>1 DEF FromStep
  <2>9. F[e + 1] = Frames(d, eof)
    BY <2>5, <2>6, <2>7
  <2> QED
    BY <1>1, <1>5, <2>1, <2>3, <2>8, <2>9
<1> QED
  BY <1>4, <1>5

-----------------------------------------------------------------------------
(* What the events of a buffer are.                                        *)

\* Whether an event can end at a byte does not depend on what is before it.
LEMMA CanEndShift ==
  ASSUME NEW S, NEW b \in Seq(S), NEW eof \in BOOLEAN, NEW k \in 0 .. Len(b),
         NEW d, IsRest(d, b, k), NEW e \in 1 .. Len(b) - k
  PROVE  CanEnd(d, e, eof) <=> CanEnd(b, k + e, eof)
<1>1. /\ Len(b) \in Nat /\ k \in Nat /\ d \in Seq(S) /\ Len(d) = Len(b) - k
      /\ \A i \in 1 .. Len(b) - k : d[i] = b[k + i]
  BY RestIs DEF IsRest
<1>2. (e = Len(d) <=> k + e = Len(b)) /\ (e < Len(d) <=> k + e < Len(b))
  BY <1>1
<1>3. d[e] = b[k + e]
  BY <1>1
<1>4. e < Len(d) => d[e + 1] = b[k + e + 1]
  <2>1. e < Len(d) => e + 1 \in 1 .. Len(b) - k /\ k + (e + 1) = k + e + 1
    BY <1>1
  <2> QED
    BY <2>1, <1>1
<1> QED
  BY <1>2, <1>3, <1>4 DEF CanEnd

\* The events are the bytes in front of n, the last cut.
FramedAt(b, eof, n) ==
  /\ n \in 0 .. Len(b) /\ FlattenSeq(Frames(b, eof)) = SubSeq(b, 1, n)
  /\ n = 0 \/ CanEnd(b, n, eof)
  /\ \A e \in n + 1 .. Len(b) : ~CanEnd(b, e, eof)

\* One event more in front moves the last cut by its length.
LEMMA FramedAtStep ==
  ASSUME NEW S, NEW b \in Seq(S), NEW eof \in BOOLEAN,
         NEW e \in 1 .. Len(b), e = FirstCut(b, 1, eof),
         NEW d, IsRest(d, b, e), NEW n, FramedAt(d, eof, n)
  PROVE  FramedAt(b, eof, e + n)
<1> DEFINE N == Len(b)
<1>1. /\ N \in Nat /\ N = Len(b) /\ e \in Nat \ {0} /\ e <= N
      /\ e \in 0 .. Len(b) /\ d \in Seq(S) /\ Len(d) = N - e
      /\ n \in 0 .. N - e /\ n \in Nat
  <2>1. e \in 0 .. Len(b) /\ Len(b) \in Nat
    OBVIOUS
  <2>2. d \in Seq(S) /\ Len(d) = Len(b) - e
    BY <2>1, RestIs DEF IsRest
  <2>3. n \in 0 .. Len(d)
    BY DEF FramedAt
  <2> QED
    BY <2>1, <2>2, <2>3
<1> HIDE DEF N
<1>2. /\ Frames(d, eof) \in Seq(Seq(S)) /\ SubSeq(b, 1, e) \in Seq(S)
      /\ Frames(b, eof) = <<SubSeq(b, 1, e)>> \o Frames(d, eof)
  <2>1. 1 \in 1 .. Len(b) + 1 /\ FirstCut(b, 1, eof) # 0
    BY <1>1
  <2> QED
    BY <2>1, <1>1, FramesUnfold, NextStart DEF IsRest
<1>3. FlattenSeq(Frames(b, eof)) = SubSeq(b, 1, e) \o SubSeq(d, 1, n)
  <2>1. /\ <<SubSeq(b, 1, e)>> \in Seq(Seq(S))
        /\ FlattenSeq(<<SubSeq(b, 1, e)>>) = SubSeq(b, 1, e)
    BY <1>2, FlatOne
  <2>2. FlattenSeq(<<SubSeq(b, 1, e)>> \o Frames(d, eof))
          = FlattenSeq(<<SubSeq(b, 1, e)>>) \o FlattenSeq(Frames(d, eof))
    BY <2>1, <1>2, FlatConcat
  <2>3. FlattenSeq(Frames(d, eof)) = SubSeq(d, 1, n)
    BY DEF FramedAt
  <2> QED
    BY <1>2, <2>1, <2>2, <2>3
<1>4. SubSeq(d, 1, n) = SubSeq(b, e + 1, e + n)
  <2>1. CASE n = 0
    <3>1. SubSeq(d, 1, n) = << >> /\ SubSeq(b, e + 1, e + n) = << >>
      BY <2>1, <1>1, SubSeqEmpty
    <3> QED
      BY <3>1
  <2>2. CASE n # 0
    <3>1. /\ e + 1 \in 1 .. N /\ N \in 1 .. N
          /\ 1 \in 1 .. N - (e + 1) + 1 /\ n \in 1 .. N - (e + 1) + 1
          /\ (e + 1) + 1 - 1 = e + 1 /\ (e + 1) + n - 1 = e + n
      BY <2>2, <1>1
    <3>2. \A i, j \in 1 .. N : \A x, y \in 1 .. j - i + 1 :
            SubSeq(SubSeq(b, i, j), x, y) = SubSeq(b, i + x - 1, i + y - 1)
      BY <1>1, <1>2, SubSeqOfSubSeq
    <3>3. SubSeq(SubSeq(b, e + 1, N), 1, n)
            = SubSeq(b, (e + 1) + 1 - 1, (e + 1) + n - 1)
      BY <3>1, <3>2
    <3> QED
      BY <3>1, <3>3, <1>1 DEF IsRest
  <2> QED
    BY <2>1, <2>2
<1>5. SubSeq(b, 1, e) \o SubSeq(b, e + 1, e + n) = SubSeq(b, 1, e + n)
  <2>1. /\ 1 \in 1 .. Len(b) + 1 /\ e \in 1 - 1 .. Len(b)
        /\ e + n \in e .. Len(b)
    BY <1>1
  <2> QED
    BY <2>1, ConcatAdjacentSubSeq
<1>6. \A x \in 1 .. N - e : CanEnd(d, x, eof) <=> CanEnd(b, e + x, eof)
  BY <1>1, CanEndShift
<1>7. CanEnd(b, e + n, eof)
  <2>1. CASE n = 0
    <3>1. CanEnd(b, e, eof)
      BY <1>1, FirstCutIs
    <3> QED
      BY <3>1, <2>1, <1>1
  <2>2. CASE n # 0
    BY <2>2, <1>1, <1>6 DEF FramedAt
  <2> QED
    BY <2>1, <2>2
<1>8. \A x \in e + n + 1 .. N : ~CanEnd(b, x, eof)
  <2> SUFFICES ASSUME NEW x \in e + n + 1 .. N PROVE ~CanEnd(b, x, eof)
    OBVIOUS
  <2>1. /\ x - e \in n + 1 .. Len(d) /\ x - e \in 1 .. N - e
        /\ e + (x - e) = x
    BY <1>1
  <2>2. ~CanEnd(d, x - e, eof)
    BY <2>1 DEF FramedAt
  <2> QED
    BY <2>1, <2>2, <1>6
<1>9. e + n \in 0 .. N
  BY <1>1
<1> QED
  BY <1>1, <1>3, <1>4, <1>5, <1>7, <1>8, <1>9 DEF FramedAt

\* Whatever the buffer, its events are the bytes in front of its last cut.
LEMMA FramedAtExists ==
  ASSUME NEW S, NEW b \in Seq(S), NEW eof \in BOOLEAN
  PROVE  \E n \in 0 .. Len(b) : FramedAt(b, eof, n)
<1> DEFINE T == {k \in Nat : \A x \in Seq(S) :
                   Len(x) = k => \E n : FramedAt(x, eof, n)}
<1>1. ASSUME NEW k \in Nat, \A m \in Nat : m < k => m \in T
      PROVE  k \in T
  <2> SUFFICES ASSUME NEW x \in Seq(S), Len(x) = k
               PROVE  \E n : FramedAt(x, eof, n)
    OBVIOUS
  <2>1. CASE FirstCut(x, 1, eof) = 0
    <3>1. Frames(x, eof) = << >>
      BY <2>1, FramesUnfold
    <3>2. SubSeq(x, 1, 0) = << >>
      BY SubSeqEmpty
    <3>3. \A e \in 0 + 1 .. Len(x) : ~CanEnd(x, e, eof)
      BY <2>1, FirstCutIs
    <3>4. 0 \in 0 .. Len(x)
      OBVIOUS
    <3>5. FramedAt(x, eof, 0)
      BY <3>1, <3>2, <3>3, <3>4, FlatEmpty DEF FramedAt
    <3> QED
      BY <3>5
  <2>2. CASE FirstCut(x, 1, eof) # 0
    <3>1. PICK e : e = FirstCut(x, 1, eof)
      OBVIOUS
    <3>2. e \in 1 .. Len(x)
      BY <2>2, <3>1, FirstCutIs
    <3>3. PICK d : IsRest(d, x, e)
      BY DEF IsRest
    <3>4. /\ e \in 0 .. Len(x) /\ d \in Seq(S)
          /\ Len(d) \in Nat /\ Len(d) < k
      BY <3>2, <3>3, RestIs DEF IsRest
    <3>5. PICK n : FramedAt(d, eof, n)
      BY <3>4, <1>1
    <3>6. FramedAt(x, eof, e + n)
      BY <3>1, <3>2, <3>3, <3>5, FramedAtStep
    <3> QED
      BY <3>6
  <2> QED
    BY <2>1, <2>2
<1> HIDE DEF T
<1>2. \A k \in Nat : k \in T
  BY <1>1, StrongInduction
<1>3. PICK n : FramedAt(b, eof, n)
  BY <1>2 DEF T
<1> QED
  BY <1>3 DEF FramedAt
\* The events of a buffer lose no byte of it: joined, they are the bytes up to
\* the last position where an event can end.  At the end of the input that is
\* all of it; before, the byte behind them is there and begins no continuation,
\* so the next byte to arrive cannot belong to an event already cut off
\* (Framer::next, "lossless").
THEOREM FramesLossless ==
  ASSUME NEW S, NEW b \in Seq(S), NEW eof \in BOOLEAN
  PROVE  /\ Frames(b, eof) \in Seq(Seq(S)) /\ Framed(b, eof) \in 0 .. Len(b)
         /\ FlattenSeq(Frames(b, eof)) = SubSeq(b, 1, Framed(b, eof))
         /\ eof => Framed(b, eof) = Len(b)
         /\ ~eof /\ Framed(b, eof) # 0 =>
              /\ Framed(b, eof) < Len(b)
              /\ ~IsContinuation(b[Framed(b, eof) + 1])
         /\ \A e \in Framed(b, eof) + 1 .. Len(b) : ~CanEnd(b, e, eof)
<1>1. PICK n \in 0 .. Len(b) : FramedAt(b, eof, n)
  BY FramedAtExists
<1>2. Len(b) \in Nat /\ n \in Nat /\ n <= Len(b) /\ n \in Int /\ 1 \in Int
  OBVIOUS
<1>3. Len(SubSeq(b, 1, n)) = n
  <2>1. \A i \in 1 .. n : b[i] \in S
    BY <1>2, ElementOfSeq
  <2>2. Len(SubSeq(b, 1, n)) = IF 1 <= n THEN n - 1 + 1 ELSE 0
    BY <1>2, <2>1, SubSeqProperties
  <2> QED
    BY <1>2, <2>2
<1>4. Framed(b, eof) = n
  BY <1>1, <1>3 DEF Framed, FramedAt
<1>5. eof => n = Len(b)
  <2> SUFFICES ASSUME eof, n # Len(b) PROVE FALSE
    OBVIOUS
  <2>1. Len(b) \in n + 1 .. Len(b)
    BY <1>2
  <2>2. ~CanEnd(b, Len(b), eof)
    BY <2>1, <1>1 DEF FramedAt
  <2> QED
    BY <2>2 DEF CanEnd
<1>6. ~eof /\ n # 0 => n < Len(b) /\ ~IsContinuation(b[n + 1])
  BY <1>1 DEF FramedAt, CanEnd
<1> QED
  BY <1>1, <1>4, <1>5, <1>6, FramesUnfold DEF FramedAt

\* x is where one of the events ends.
IsEnd(events, x) ==
  \E i \in 1 .. Len(events) : x = Len(FlattenSeq(SubSeq(events, 1, i)))

\* With an event in front, the ends are its own and the others' moved by it.
LEMMA EndsCons ==
  ASSUME NEW S, NEW s \in Seq(S), NEW r \in Seq(Seq(S))
  PROVE  \A x : IsEnd(<<s>> \o r, x) <=>
                  x = Len(s) \/ \E y : IsEnd(r, y) /\ x = Len(s) + y
<1> DEFINE t == <<s>> \o r
           At(u, i) == Len(FlattenSeq(SubSeq(u, 1, i)))
<1>1. <<s>> \in Seq(Seq(S)) /\ FlattenSeq(<<s>>) = s /\ Len(<<s>>) = 1
  BY FlatOne
<1>2. /\ t \in Seq(Seq(S)) /\ Len(t) = 1 + Len(r)
      /\ Len(r) \in Nat /\ Len(s) \in Nat
  BY <1>1, ConcatProperties, LenProperties
<1>3. \A i \in 0 .. Len(r) :
        /\ SubSeq(r, 1, i) \in Seq(Seq(S))
        /\ SubSeq(t, 1, i + 1) = <<s>> \o SubSeq(r, 1, i)
  <2> SUFFICES ASSUME NEW i \in 0 .. Len(r)
               PROVE  /\ SubSeq(r, 1, i) \in Seq(Seq(S))
                      /\ SubSeq(t, 1, i + 1) = <<s>> \o SubSeq(r, 1, i)
    OBVIOUS
  <2>1. CASE i = 0
    <3>1. SubSeq(r, 1, i) = << >> /\ <<s>> \o << >> = <<s>>
      BY <2>1, <1>1, SubSeqEmpty, ConcatEmptySeq
    <3>2. 1 \in 1 .. Len(<<s>>)
      BY <1>1
    <3>3. SubSeq(t, 1, 1) = SubSeq(<<s>>, 1, 1)
      BY <3>2, <1>1, SubSeqOfConcat1
    <3>4. SubSeq(<<s>>, 1, 1) = <<s>>
      BY <1>1, SubSeqFull
    <3> QED
      BY <2>1, <3>1, <3>3, <3>4, EmptySeq
  <2>2. CASE i # 0
    <3>1. /\ i \in 1 .. Len(r) /\ 1 \in 1 .. Len(t) + 1
          /\ 1 \in 1 - 1 .. Len(t) /\ i + 1 \in 1 .. Len(t)
      BY <2>2, <1>2
    <3>2. SubSeq(t, 1, 1) \o SubSeq(t, 1 + 1, i + 1) = SubSeq(t, 1, i + 1)
      BY <3>1, <1>2, ConcatAdjacentSubSeq
    <3>3. SubSeq(t, 1, 1) = <<s>>
      <4>1. 1 \in 1 .. Len(<<s>>)
        BY <1>1
      <4>2. SubSeq(t, 1, 1) = SubSeq(<<s>>, 1, 1)
        BY <4>1, <1>1, SubSeqOfConcat1
      <4>3. SubSeq(<<s>>, 1, 1) = <<s>>
        BY <1>1, SubSeqFull
      <4> QED
        BY <4>2, <4>3
    <3>4. SubSeq(t, 2, i + 1) = SubSeq(r, 1, i)
      <4>1. /\ 2 \in Len(<<s>>) + 1 .. Len(<<s>>) + Len(r)
            /\ i + 1 \in Len(<<s>>) + 1 .. Len(<<s>>) + Len(r)
            /\ 2 - Len(<<s>>) = 1 /\ (i + 1) - Len(<<s>>) = i
        BY <3>1, <1>1, <1>2
      <4>2. SubSeq(t, 2, i + 1)
              = SubSeq(r, 2 - Len(<<s>>), (i + 1) - Len(<<s>>))
        BY <4>1, <1>1, SubSeqOfConcat2
      <4> QED
        BY <4>1, <4>2
    <3>5. SubSeq(r, 1, i) \in Seq(Seq(S))
      <4>1. i \in Int /\ 1 \in Int /\ \A j \in 1 .. i : j \in 1 .. Len(r)
        BY <3>1, <1>2
      <4>2. \A j \in 1 .. i : r[j] \in Seq(S)
        BY <4>1, ElementOfSeq
      <4> QED
        BY <4>1, <4>2, SubSeqProperties
    <3> QED
      BY <3>2, <3>3, <3>4, <3>5
  <2> QED
    BY <2>1, <2>2
<1> HIDE DEF t
<1>4. \A i \in 0 .. Len(r) : At(t, i + 1) = Len(s) + At(r, i)
  <2> SUFFICES ASSUME NEW i \in 0 .. Len(r)
               PROVE  At(t, i + 1) = Len(s) + At(r, i)
    OBVIOUS
  <2>1. FlattenSeq(<<s>> \o SubSeq(r, 1, i))
          = FlattenSeq(<<s>>) \o FlattenSeq(SubSeq(r, 1, i))
    BY <1>1, <1>3, FlatConcat
  <2>2. FlattenSeq(SubSeq(r, 1, i)) \in Seq(S)
    BY <1>3, FlatType
  <2>3. Len(s \o FlattenSeq(SubSeq(r, 1, i)))
          = Len(s) + Len(FlattenSeq(SubSeq(r, 1, i)))
    BY <2>2, ConcatProperties
  <2> QED
    BY <2>1, <2>3, <1>1, <1>3
<1>5. At(r, 0) = 0
  <2>1. SubSeq(r, 1, 0) = << >>
    BY SubSeqEmpty
  <2>2. Len(FlattenSeq(<< >>)) = 0
    BY FlatEmpty, EmptySeq
  <2> QED
    BY <2>1, <2>2
<1> HIDE DEF At
<1>6. \A x : IsEnd(t, x) <=> \E i \in 0 .. Len(r) : x = At(t, i + 1)
  <2>1. \A j \in 1 .. Len(t) : j - 1 \in 0 .. Len(r) /\ (j - 1) + 1 = j
    BY <1>2
  <2>2. \A i \in 0 .. Len(r) : i + 1 \in 1 .. Len(t)
    BY <1>2
  <2>3. \A x : IsEnd(t, x) <=> \E j \in 1 .. Len(t) : x = At(t, j)
    BY DEF IsEnd, At
  <2> QED
    BY <2>1, <2>2, <2>3
<1>7. \A y : IsEnd(r, y) <=> \E i \in 1 .. Len(r) : y = At(r, i)
  BY DEF IsEnd, At
<1>8. /\ 0 \in 0 .. Len(r)
      /\ \A i \in 0 .. Len(r) : i = 0 \/ i \in 1 .. Len(r)
      /\ \A j \in 1 .. Len(r) : j \in 0 .. Len(r)
  BY <1>2
<1> QED
  <2> SUFFICES ASSUME NEW x
               PROVE  IsEnd(t, x) <=>
                        x = Len(s) \/ \E y : IsEnd(r, y) /\ x = Len(s) + y
    BY DEF t
  <2>1. ASSUME IsEnd(t, x)
        PROVE  x = Len(s) \/ \E y : IsEnd(r, y) /\ x = Len(s) + y
    <3>1. PICK i \in 0 .. Len(r) : x = At(t, i + 1)
      BY <2>1, <1>6
    <3>2. x = Len(s) + At(r, i)
      BY <3>1, <1>4
    <3>3. CASE i = 0
      BY <3>2, <3>3, <1>2, <1>5
    <3>4. CASE i # 0
      <4>1. IsEnd(r, At(r, i))
        BY <3>4, <1>7
      <4> QED
        BY <3>2, <4>1
    <3> QED
      BY <3>3, <3>4
  <2>2. ASSUME x = Len(s) PROVE IsEnd(t, x)
    <3>1. 0 \in 0 .. Len(r)
      BY <1>2
    <3>2. x = At(t, 0 + 1)
      BY <3>1, <2>2, <1>2, <1>4, <1>5
    <3> QED
      BY <3>1, <3>2, <1>6
  <2>3. ASSUME NEW y, IsEnd(r, y), x = Len(s) + y PROVE IsEnd(t, x)
    <3>1. PICK i \in 1 .. Len(r) : y = At(r, i)
      BY <2>3, <1>7
    <3>2. i \in 0 .. Len(r)
      BY <1>2
    <3>3. x = At(t, i + 1)
      BY <3>1, <3>2, <2>3, <1>4
    <3> QED
      BY <3>2, <3>3, <1>6
  <2> QED
    BY <2>1, <2>2, <2>3

\* The events of a buffer are its pieces between the positions where an event
\* can end: every such position is the end of an event, and no other is, so
\* that an event is a line with exactly its continuation lines.
THEOREM FramesEndAtCuts ==
  ASSUME NEW S, NEW b \in Seq(S), NEW eof \in BOOLEAN
  PROVE  \A x : IsEnd(Frames(b, eof), x) <=> x \in Cuts(b, 1, eof)
<1> DEFINE T == {k \in Nat : \A u \in Seq(S) : Len(u) = k =>
                   \A x : IsEnd(Frames(u, eof), x) <=> x \in Cuts(u, 1, eof)}
<1>1. ASSUME NEW k \in Nat, \A m \in Nat : m < k => m \in T
      PROVE  k \in T
  <2> SUFFICES ASSUME NEW u \in Seq(S), Len(u) = k, NEW x
               PROVE  IsEnd(Frames(u, eof), x) <=> x \in Cuts(u, 1, eof)
    OBVIOUS
  <2>1. CASE FirstCut(u, 1, eof) = 0
    <3>1. Frames(u, eof) = << >>
      BY <2>1, FramesUnfold
    <3>2. \A e \in 1 .. Len(u) : ~CanEnd(u, e, eof)
      BY <2>1, FirstCutIs
    <3>3. x \notin Cuts(u, 1, eof)
      BY <3>2 DEF Cuts
    <3>4. ~IsEnd(<< >>, x)
      <4>1. Len(<< >>) = 0
        BY EmptySeq
      <4> QED
        BY <4>1 DEF IsEnd
    <3> QED
      BY <3>1, <3>3, <3>4
  <2>2. CASE FirstCut(u, 1, eof) # 0
    <3>1. PICK e : e = FirstCut(u, 1, eof)
      OBVIOUS
    <3>2. /\ e \in 1 .. Len(u) /\ CanEnd(u, e, eof)
          /\ \A y \in 1 .. Len(u) : CanEnd(u, y, eof) => e <= y
      BY <2>2, <3>1, FirstCutIs
    <3>3. PICK d : IsRest(d, u, e)
      BY DEF IsRest
    <3>4. /\ e \in 0 .. Len(u) /\ d \in Seq(S) /\ Len(d) = Len(u) - e
          /\ Len(d) \in Nat /\ Len(d) < k /\ e \in Nat
      BY <3>2, <3>3, RestIs DEF IsRest
    <3>5. \A y : IsEnd(Frames(d, eof), y) <=> y \in Cuts(d, 1, eof)
      BY <3>4, <1>1
    <3>6. /\ Frames(u, eof) = <<SubSeq(u, 1, e)>> \o Frames(d, eof)
          /\ Frames(d, eof) \in Seq(Seq(S))
      BY <2>2, <3>1, <3>3, <3>4, FramesUnfold DEF IsRest
    <3>7. SubSeq(u, 1, e) \in Seq(S) /\ Len(SubSeq(u, 1, e)) = e
      <4>1. e \in Int /\ 1 \in Int /\ 1 <= e
        BY <3>2
      <4>2. \A i \in 1 .. e : u[i] \in S
        BY <3>2, ElementOfSeq
      <4>3. /\ SubSeq(u, 1, e) \in Seq(S)
            /\ Len(SubSeq(u, 1, e)) = IF 1 <= e THEN e - 1 + 1 ELSE 0
        BY <4>1, <4>2, SubSeqProperties
      <4> QED
        BY <4>1, <4>3
    <3>8. IsEnd(Frames(u, eof), x) <=>
            x = e \/ \E y : IsEnd(Frames(d, eof), y) /\ x = e + y
      <4>1. \A z : IsEnd(<<SubSeq(u, 1, e)>> \o Frames(d, eof), z) <=>
                     \/ z = Len(SubSeq(u, 1, e))
                     \/ \E y : IsEnd(Frames(d, eof), y)
                              /\ z = Len(SubSeq(u, 1, e)) + y
        BY <3>6, <3>7, EndsCons, Zenon
      <4> QED
        BY <4>1, <3>6, <3>7
    <3>9. \A y \in 1 .. Len(u) - e : CanEnd(d, y, eof) <=> CanEnd(u, e + y, eof)
      BY <3>3, <3>4, CanEndShift
    <3>10. x \in Cuts(u, 1, eof) <=>
             x = e \/ \E y \in Cuts(d, 1, eof) : x = e + y
      <4>1. ASSUME x \in Cuts(u, 1, eof), x # e
            PROVE  \E y \in Cuts(d, 1, eof) : x = e + y
        <5>1. /\ x - e \in 1 .. Len(d) /\ x - e \in 1 .. Len(u) - e
              /\ e + (x - e) = x /\ CanEnd(u, x, eof)
          BY <4>1, <3>2, <3>4 DEF Cuts
        <5>2. x - e \in Cuts(d, 1, eof)
          BY <5>1, <3>9 DEF Cuts
        <5> QED
          BY <5>1, <5>2
      <4>2. e \in Cuts(u, 1, eof)
        BY <3>2 DEF Cuts
      <4>3. ASSUME NEW y \in Cuts(d, 1, eof)
            PROVE  e + y \in Cuts(u, 1, eof)
        <5>1. /\ y \in 1 .. Len(u) - e /\ CanEnd(d, y, eof)
              /\ e + y \in 1 .. Len(u)
          BY <3>2, <3>4 DEF Cuts
        <5> QED
          BY <5>1, <3>9 DEF Cuts
      <4> QED
        BY <4>1, <4>2, <4>3
    <3> QED
      BY <3>5, <3>8, <3>10
  <2> QED
    BY <2>1, <2>2
<1> HIDE DEF T
<1>2. \A k \in Nat : k \in T
  BY <1>1, StrongInduction
<1> QED
  BY <1>2, LenProperties DEF T
-----------------------------------------------------------------------------
(* Framing in pieces.                                                      *)

\* What is behind n bytes of what is behind e bytes.
LEMMA RestOfRest ==
  ASSUME NEW S, NEW b \in Seq(S), NEW e \in 0 .. Len(b),
         NEW d, IsRest(d, b, e), NEW n \in 0 .. Len(d), NEW w, IsRest(w, d, n)
  PROVE  IsRest(w, b, e + n)
<1>1. /\ Len(b) \in Nat /\ e \in Nat /\ d \in Seq(S) /\ Len(d) = Len(b) - e
      /\ \A i \in 1 .. Len(b) - e : d[i] = b[e + i]
  BY RestIs DEF IsRest
<1>2. /\ n \in Nat /\ w \in Seq(S) /\ Len(w) = Len(d) - n
      /\ \A i \in 1 .. Len(d) - n : w[i] = d[n + i]
  BY <1>1, RestIs DEF IsRest
<1>3. PICK v : IsRest(v, b, e + n)
  BY DEF IsRest
<1>4. /\ v \in Seq(S) /\ Len(v) = Len(b) - (e + n)
      /\ \A i \in 1 .. Len(b) - (e + n) : v[i] = b[(e + n) + i]
  <2>1. e + n \in 0 .. Len(b)
    BY <1>1, <1>2
  <2> QED
    BY <2>1, <1>3, RestIs DEF IsRest
<1>5. \A i \in 1 .. Len(w) : w[i] = v[i]
  <2> SUFFICES ASSUME NEW i \in 1 .. Len(w) PROVE w[i] = v[i]
    OBVIOUS
  <2>1. /\ i \in 1 .. Len(d) - n /\ n + i \in 1 .. Len(b) - e
        /\ i \in 1 .. Len(b) - (e + n) /\ e + (n + i) = (e + n) + i
    BY <1>1, <1>2
  <2> QED
    BY <2>1, <1>1, <1>2, <1>4
<1>6. Len(w) = Len(v)
  BY <1>1, <1>2, <1>4
<1>7. w = v
  BY <1>2, <1>4, <1>5, <1>6, SeqEqual
<1> QED
  BY <1>3, <1>7

\* What is behind e bytes of b and more.
LEMMA RestOfConcat ==
  ASSUME NEW S, NEW b \in Seq(S), NEW c \in Seq(S), NEW e \in 0 .. Len(b),
         NEW d, IsRest(d, b, e)
  PROVE  IsRest(d \o c, b \o c, e)
<1>1. /\ Len(b) \in Nat /\ Len(c) \in Nat /\ e \in Nat /\ e <= Len(b)
      /\ d \in Seq(S) /\ Len(d) = Len(b) - e
      /\ \A i \in 1 .. Len(b) - e : d[i] = b[e + i]
  BY RestIs, LenProperties DEF IsRest
<1>2. /\ b \o c \in Seq(S) /\ Len(b \o c) = Len(b) + Len(c)
      /\ \A i \in 1 .. Len(b) + Len(c) :
           (b \o c)[i] = IF i <= Len(b) THEN b[i] ELSE c[i - Len(b)]
  BY ConcatProperties
<1>3. /\ d \o c \in Seq(S) /\ Len(d \o c) = Len(d) + Len(c)
      /\ \A i \in 1 .. Len(d) + Len(c) :
           (d \o c)[i] = IF i <= Len(d) THEN d[i] ELSE c[i - Len(d)]
  BY <1>1, ConcatProperties
<1>4. PICK v : IsRest(v, b \o c, e)
  BY DEF IsRest
<1>5. /\ v \in Seq(S) /\ Len(v) = Len(b) + Len(c) - e
      /\ \A i \in 1 .. Len(b) + Len(c) - e : v[i] = (b \o c)[e + i]
  <2>1. e \in 0 .. Len(b \o c)
    BY <1>1, <1>2
  <2> QED
    BY <2>1, <1>2, <1>4, RestIs DEF IsRest
<1>6. \A i \in 1 .. Len(d \o c) : (d \o c)[i] = v[i]
  <2> SUFFICES ASSUME NEW i \in 1 .. Len(d \o c) PROVE (d \o c)[i] = v[i]
    OBVIOUS
  <2>1. /\ i \in 1 .. Len(d) + Len(c) /\ i \in 1 .. Len(b) + Len(c) - e
        /\ e + i \in 1 .. Len(b) + Len(c)
        /\ (i <= Len(d) <=> e + i <= Len(b))
        /\ (i <= Len(d) => i \in 1 .. Len(b) - e)
        /\ (e + i) - Len(b) = i - Len(d)
    BY <1>1, <1>3
  <2> QED
    BY <2>1, <1>1, <1>2, <1>3, <1>5
<1>7. Len(d \o c) = Len(v)
  BY <1>1, <1>3, <1>5
<1>8. d \o c = v
  BY <1>3, <1>5, <1>6, <1>7, SeqEqual
<1> QED
  BY <1>4, <1>8

\* Bytes still to come move no cut that is decided.
LEMMA FirstCutOfConcat ==
  ASSUME NEW S, NEW b \in Seq(S), NEW c \in Seq(S), NEW eof \in BOOLEAN,
         NEW more \in BOOLEAN, ~more, FirstCut(b, 1, more) # 0
  PROVE  FirstCut(b \o c, 1, eof) = FirstCut(b, 1, more)
<1>1. PICK e : e = FirstCut(b, 1, more)
  OBVIOUS
<1>2. /\ Len(b) \in Nat /\ e \in 1 .. Len(b) /\ CanEnd(b, e, more)
      /\ \A y \in 1 .. Len(b) : CanEnd(b, y, more) => e <= y
  BY <1>1, FirstCutIs
<1>3. e < Len(b)
  BY <1>2 DEF CanEnd
<1>4. /\ b \o c \in Seq(S) /\ Len(b \o c) = Len(b) + Len(c)
      /\ Len(c) \in Nat
      /\ \A i \in 1 .. Len(b) + Len(c) :
           (b \o c)[i] = IF i <= Len(b) THEN b[i] ELSE c[i - Len(b)]
  BY ConcatProperties, LenProperties
<1>5. \A x \in 1 .. Len(b) :
        x < Len(b) => (CanEnd(b \o c, x, eof) <=> CanEnd(b, x, more))
  <2> SUFFICES ASSUME NEW x \in 1 .. Len(b), x < Len(b)
               PROVE  CanEnd(b \o c, x, eof) <=> CanEnd(b, x, more)
    OBVIOUS
  <2>1. /\ x \in 1 .. Len(b) + Len(c) /\ x + 1 \in 1 .. Len(b) + Len(c)
        /\ x <= Len(b) /\ x + 1 <= Len(b)
        /\ x # Len(b \o c) /\ x < Len(b \o c) /\ x # Len(b)
    BY <1>2, <1>4
  <2>2. (b \o c)[x] = b[x] /\ (b \o c)[x + 1] = b[x + 1]
    BY <2>1, <1>4
  <2> QED
    BY <2>1, <2>2 DEF CanEnd
<1>6. CanEnd(b \o c, e, eof) /\ e \in 1 .. Len(b \o c)
  BY <1>2, <1>3, <1>4, <1>5
<1>7. \A x \in 1 .. Len(b \o c) : CanEnd(b \o c, x, eof) => e <= x
  <2> SUFFICES ASSUME NEW x \in 1 .. Len(b \o c), CanEnd(b \o c, x, eof), x < e
               PROVE  FALSE
    BY <1>2
  <2>1. x \in 1 .. Len(b) /\ x < Len(b)
    BY <1>2
  <2> QED
    BY <2>1, <1>2, <1>5
<1>8. FirstCut(b \o c, 1, eof) = e
  <2>1. \A t \in Seq(S) : \A x \in 1 .. Len(t) :
          /\ CanEnd(t, x, eof)
          /\ \A y \in 1 .. Len(t) : CanEnd(t, y, eof) => x <= y
          => FirstCut(t, 1, eof) = x
    BY FirstCutIs
  <2> QED
    BY <1>4, <1>6, <1>7, <2>1, Zenon
<1> QED
  BY <1>1, <1>8

\* Sequences of events in a row.
LEMMA EventsAssociative ==
  ASSUME NEW S, NEW x \in Seq(Seq(S)), NEW y \in Seq(Seq(S)),
         NEW z \in Seq(Seq(S))
  PROVE  x \o (y \o z) = (x \o y) \o z
BY ConcatAssociative, SMTT(30)

\* The theorem below, for a name of FALSE.
LEMMA FramesSplitAt ==
  ASSUME NEW S, NEW b \in Seq(S), NEW c \in Seq(S), NEW eof \in BOOLEAN,
         NEW more \in BOOLEAN, ~more
  PROVE  \A w : IsRest(w, b, Framed(b, more)) =>
           Frames(b \o c, eof) = Frames(b, more) \o Frames(w \o c, eof)
<1>3. \A x, y, z \in Seq(Seq(S)) : x \o (y \o z) = (x \o y) \o z
  BY EventsAssociative, SMTT(30)
<1> DEFINE T == {k \in Nat : \A u \in Seq(S) : Len(u) = k =>
                   \A w : IsRest(w, u, Framed(u, more)) =>
                     Frames(u \o c, eof) = Frames(u, more)
                                           \o Frames(w \o c, eof)}
<1>1. ASSUME NEW k \in Nat, \A m \in Nat : m < k => m \in T
      PROVE  k \in T
  <2> SUFFICES ASSUME NEW u \in Seq(S), Len(u) = k,
                      NEW w, IsRest(w, u, Framed(u, more))
               PROVE  Frames(u \o c, eof) = Frames(u, more)
                                            \o Frames(w \o c, eof)
    OBVIOUS
  <2>1. CASE FirstCut(u, 1, more) = 0
    <3>1. Frames(u, more) = << >>
      BY <2>1, FramesUnfold
    <3>2. Framed(u, more) = 0
      BY <3>1, FlatEmpty, EmptySeq DEF Framed
    <3>3. w = u
      <4>1. w = SubSeq(u, 0 + 1, Len(u)) /\ 0 + 1 = 1
        BY <3>2 DEF IsRest
      <4> QED
        BY <4>1, SubSeqFull
    <3>4. Frames(u \o c, eof) \in Seq(Seq(S))
      BY FramesUnfold, ConcatProperties
    <3> QED
      BY <3>1, <3>3, <3>4, ConcatEmptySeq
  <2>2. CASE FirstCut(u, 1, more) # 0
    <3>1. PICK e : e = FirstCut(u, 1, more)
      OBVIOUS
    <3>2. /\ e \in 1 .. Len(u) /\ e # 0 /\ FirstCut(u \o c, 1, eof) = e
          /\ u \o c \in Seq(S)
      BY <2>2, <3>1, FirstCutIs, FirstCutOfConcat, ConcatProperties
    <3>3. PICK d : IsRest(d, u, e)
      BY DEF IsRest
    <3>4. /\ e \in 0 .. Len(u) /\ d \in Seq(S) /\ Len(d) \in Nat /\ Len(d) < k
      BY <3>2, <3>3, RestIs DEF IsRest
    <3>5. PICK s : s = SubSeq(u, 1, e)
      OBVIOUS
    <3>6. s \in Seq(S) /\ Len(s) = e
      <4>1. e \in Int /\ 1 \in Int /\ 1 <= e
        BY <3>2
      <4>2. \A i \in 1 .. e : u[i] \in S
        BY <3>2, ElementOfSeq
      <4>3. /\ SubSeq(u, 1, e) \in Seq(S)
            /\ Len(SubSeq(u, 1, e)) = IF 1 <= e THEN e - 1 + 1 ELSE 0
        BY <4>1, <4>2, SubSeqProperties
      <4> QED
        BY <4>1, <4>3, <3>5
    <3>7. /\ Frames(u, more) = <<s>> \o Frames(d, more)
          /\ Frames(d, more) \in Seq(Seq(S))
      BY <2>2, <3>1, <3>3, <3>4, <3>5, FramesUnfold DEF IsRest
    <3>8. Frames(u \o c, eof) = <<s>> \o Frames(d \o c, eof)
      <4>1. SubSeq(u \o c, 1, e) = s
        <5>1. 1 \in 1 .. Len(u)
          BY <3>2
        <5> QED
          BY <5>1, <3>2, <3>5, SubSeqOfConcat1
      <4>2. IsRest(d \o c, u \o c, e)
        BY <3>3, <3>4, RestOfConcat
      <4> QED
        BY <4>1, <4>2, <3>2, FramesUnfold DEF IsRest
    <3>9. PICK n \in 0 .. Len(d) : n = Framed(d, more)
      BY <3>4, FramesLossless
    <3>10. Framed(u, more) = e + n
      <4>1. <<s>> \in Seq(Seq(S)) /\ FlattenSeq(<<s>>) = s
        BY <3>6, FlatOne
      <4>2. FlattenSeq(Frames(u, more)) = s \o FlattenSeq(Frames(d, more))
        BY <4>1, <3>7, FlatConcat
      <4>3. FlattenSeq(Frames(d, more)) \in Seq(S)
        BY <3>7, FlatType
      <4>4. Len(FlattenSeq(Frames(u, more)))
              = Len(s) + Len(FlattenSeq(Frames(d, more)))
        BY <4>2, <4>3, <3>6, ConcatProperties
      <4> QED
        BY <4>4, <3>6, <3>9 DEF Framed
    <3>11. PICK v : IsRest(v, d, n)
      BY DEF IsRest
    <3>12. v = w
      <4>1. IsRest(v, u, e + n)
        BY <3>3, <3>4, <3>9, <3>11, RestOfRest
      <4> QED
        BY <4>1, <3>10 DEF IsRest
    <3>13. Frames(d \o c, eof) = Frames(d, more) \o Frames(w \o c, eof)
      BY <3>4, <3>9, <3>11, <3>12, <1>1
    <3>14. <<s>> \o (Frames(d, more) \o Frames(w \o c, eof))
             = (<<s>> \o Frames(d, more)) \o Frames(w \o c, eof)
      <4>1. w \in Seq(S)
        <5>1. v \in Seq(S)
          BY <3>4, <3>11, RestIs DEF IsRest
        <5> QED
          BY <5>1, <3>12
      <4>2. <<s>> \in Seq(Seq(S)) /\ Frames(w \o c, eof) \in Seq(Seq(S))
        BY <4>1, <3>6, FlatOne, FramesUnfold, ConcatProperties
      <4> QED
        BY <4>2, <3>7, <1>3, Zenon
    <3> QED
      BY <3>7, <3>8, <3>13, <3>14
  <2> QED
    BY <2>1, <2>2
<1> HIDE DEF T
<1>2. \A k \in Nat : k \in T
  BY <1>1, StrongInduction
<1> QED
  BY <1>2, LenProperties DEF T

\* A stream may be framed as it comes: framing what has arrived, then the
\* withheld rest with what arrives later, gives the events of framing all of
\* it at once.  So where a read, a tick or a restart happens to fall changes
\* no event (poll_loop, the stream connection of the syslog listener).
THEOREM FramesSplit ==
  ASSUME NEW S, NEW b \in Seq(S), NEW c \in Seq(S), NEW eof \in BOOLEAN
  PROVE  Frames(b \o c, eof) =
           Frames(b, FALSE)
           \o Frames(SubSeq(b, Framed(b, FALSE) + 1, Len(b)) \o c, eof)
<1>1. \A more \in BOOLEAN : ~more =>
        \A w : IsRest(w, b, Framed(b, more)) =>
          Frames(b \o c, eof) = Frames(b, more) \o Frames(w \o c, eof)
  BY FramesSplitAt
<1>2. FALSE \in BOOLEAN /\ ~FALSE
  OBVIOUS
<1> QED
  BY <1>1, <1>2, Zenon DEF IsRest
=============================================================================
