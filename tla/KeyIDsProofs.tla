---------------------------- MODULE KeyIDsProofs ----------------------------
(***************************************************************************)
(* What the operators on key-ID templates return, for every template.      *)
(***************************************************************************)
EXTENDS KeyIDs, SequenceTheorems, WellFoundedInduction, TLAPS

----------------------------------------------------------------------------
(* Least elements and induction, about sets where the theorems of the      *)
(* library are about predicates.                                           *)

LEMMA LeastIsIn ==
    ASSUME NEW S \in SUBSET Nat, S # {}
    PROVE  Min(S) \in S /\ \A j \in S : Min(S) <= j
<1>1. PICK x \in S : \A y \in S : <<y, x>> \notin { ss \in Nat \X Nat : ss[1] < ss[2] }
  BY NatLessThanWellFounded, WFMin DEF OpToRel
<1>2. \A y \in S : x <= y
  <2>1. \A n, k \in Nat : <<k, n>> \notin { ss \in Nat \X Nat : ss[1] < ss[2] } => n <= k
    OBVIOUS
  <2> QED BY <1>1, <2>1
<1> QED BY <1>2 DEF Min

\* Every natural number is in S if 0 is and S is closed under successor.
LEMMA Induction ==
    ASSUME NEW S \in SUBSET Nat, 0 \in S, \A n \in S : n + 1 \in S
    PROVE  \A n \in Nat : n \in S
<1> SUFFICES ASSUME Nat \ S # {} PROVE FALSE
  OBVIOUS
<1> DEFINE m == Min(Nat \ S)
<1>1. m \in Nat \ S /\ \A j \in Nat \ S : m <= j
  BY LeastIsIn
<1> HIDE DEF m
<1>2. m - 1 \in Nat
  BY <1>1
<1>3. m - 1 \in S
  BY <1>1, <1>2
<1> QED BY <1>1, <1>3

----------------------------------------------------------------------------
(* Templates *)

\* Piece sequences over the characters of s.
PieceSet(Chars) == [isVar : BOOLEAN, text : Seq(Chars)]

\* A piece ends at or after its first character, within the template; a
\* character of its own is no empty text.
LEMMA PieceFacts ==
    ASSUME NEW Chars, NEW s \in Seq(Chars), NEW i \in 1..Len(s)
    PROVE  /\ PieceEnd(s, i) \in i..Len(s)
           /\ PieceAt(s, i) \in PieceSet(Chars)
           /\ ~PieceAt(s, i).isVar => PieceAt(s, i).text # <<>>
<1>1. Len(s) \in Nat /\ \A k \in 1..Len(s) : s[k] \in Chars
  BY LenProperties
<1>2. CASE Closers(s, i) = {}
  BY <1>1, <1>2 DEF PieceEnd, PieceAt, PieceSet
<1>3. CASE Closers(s, i) # {}
  <2> DEFINE j == Min(Closers(s, i))
  <2>1. j \in (i + 2)..Len(s)
    <3>1. \A k \in Closers(s, i) : k \in (i + 2)..Len(s)
      BY DEF Closers
    <3>2. Closers(s, i) \in SUBSET Nat
      BY <1>1, <3>1
    <3> QED BY <1>3, <3>1, <3>2, LeastIsIn
  <2> HIDE DEF j
  <2>2. SubSeq(s, i + 2, j - 1) \in Seq(Chars)
    BY <1>1, <2>1, SubSeqProperties
  <2> QED BY <1>1, <1>3, <2>1, <2>2 DEF PieceEnd, PieceAt, PieceSet, j
<1> QED BY <1>2, <1>3

\* The function that Pieces names exists: it is built from the template's end.
LEMMA PiecesUnfold ==
    ASSUME NEW Chars, NEW s \in Seq(Chars)
    PROVE  \E from :
              /\ from = [i \in 1..(Len(s) + 1) |->
                            IF i > Len(s) THEN <<>>
                            ELSE <<PieceAt(s, i)>> \o from[PieceEnd(s, i) + 1]]
              /\ Pieces(s) = from[1]
<1> DEFINE n == Len(s)
           Tail1(k) == (n + 1 - k)..(n + 1)
           Is(f, D) == f = [i \in D |-> IF i > n THEN <<>>
                                        ELSE <<PieceAt(s, i)>> \o f[PieceEnd(s, i) + 1]]
           S == { k \in Nat : k <= n => \E f : Is(f, Tail1(k)) }
<1>0. n \in Nat
  BY LenProperties
<1>1. 0 \in S
  <2> DEFINE f == [i \in Tail1(0) |-> <<>>]
  <2>1. Tail1(0) = {n + 1}
    BY <1>0
  <2>2. Is(f, Tail1(0))
    BY <1>0, <2>1
  <2> QED BY <2>2
<1>2. ASSUME NEW k \in S PROVE k + 1 \in S
  <2> SUFFICES ASSUME k + 1 <= n PROVE \E g : Is(g, Tail1(k + 1))
    OBVIOUS
  <2>1. PICK f : Is(f, Tail1(k))
    BY <1>0
  <2> DEFINE m == n - k
             g == [i \in Tail1(k + 1) |->
                      IF i = m THEN <<PieceAt(s, m)>> \o f[PieceEnd(s, m) + 1] ELSE f[i]]
  <2>2. m \in 1..n /\ Tail1(k) = (m + 1)..(n + 1) /\ Tail1(k + 1) = m..(n + 1)
    BY <1>0
  <2>3. \A i \in m..n : PieceEnd(s, i) + 1 \in (i + 1)..(n + 1)
    BY <1>0, <2>2, PieceFacts
  <2> HIDE DEF m, n
  <2>4. \A i \in (m + 1)..(n + 1) : g[i] = f[i]
    BY <1>0, <2>2
  <2>5. ASSUME NEW i \in m..(n + 1)
        PROVE  g[i] = IF i > n THEN <<>> ELSE <<PieceAt(s, i)>> \o g[PieceEnd(s, i) + 1]
    <3>1. CASE i = m
      <4>1. g[i] = <<PieceAt(s, i)>> \o f[PieceEnd(s, i) + 1]
        BY <2>2, <3>1
      <4>2. PieceEnd(s, i) + 1 \in (m + 1)..(n + 1)
        BY <2>2, <2>3, <3>1
      <4> QED BY <1>0, <2>2, <2>4, <3>1, <4>1, <4>2
    <3>2. CASE i # m
      <4>1. i \in (m + 1)..(n + 1)
        BY <1>0, <2>2, <3>2
      <4>2. f[i] = IF i > n THEN <<>> ELSE <<PieceAt(s, i)>> \o f[PieceEnd(s, i) + 1]
        BY <2>1, <2>2, <4>1
      <4>3. i <= n => PieceEnd(s, i) + 1 \in (m + 1)..(n + 1)
        BY <1>0, <2>2, <2>3, <4>1
      <4> QED BY <1>0, <2>2, <2>4, <4>1, <4>2, <4>3
    <3> QED BY <3>1, <3>2
  <2>6. Is(g, Tail1(k + 1))
    BY <2>2, <2>5
  <2> QED BY <2>6
<1>3. \E f : Is(f, 1..(n + 1))
  <2>1. n \in S
    BY <1>0, <1>1, <1>2, Induction
  <2> QED BY <1>0, <2>1
<1> DEFINE from == CHOOSE f : Is(f, 1..(n + 1))
<1>4. Is(from, 1..(n + 1))
  BY <1>3
<1>5. Pieces(s) = from[1]
  BY DEF Pieces
<1> QED BY <1>4, <1>5

\* The pieces of a template: at least one unless it is empty, and none of them
\* a literal without a text.
LEMMA PiecesFacts ==
    ASSUME NEW Chars, NEW s \in Seq(Chars)
    PROVE  /\ Pieces(s) \in Seq({ p \in PieceSet(Chars) : ~p.isVar => p.text # <<>> })
           /\ s # <<>> => Pieces(s) # <<>>
<1> DEFINE n == Len(s)
           Good == { p \in PieceSet(Chars) : ~p.isVar => p.text # <<>> }
<1>0. n \in Nat
  BY LenProperties
<1>1. PICK from :
         /\ from = [i \in 1..(n + 1) |->
                       IF i > n THEN <<>> ELSE <<PieceAt(s, i)>> \o from[PieceEnd(s, i) + 1]]
         /\ Pieces(s) = from[1]
  BY PiecesUnfold
<1> HIDE DEF n
<1> DEFINE S == { k \in Nat : \A i \in 1..(n + 1) : i >= n + 1 - k => from[i] \in Seq(Good) }
<1>2. /\ from[n + 1] = <<>>
      /\ \A i \in 1..n : from[i] = <<PieceAt(s, i)>> \o from[PieceEnd(s, i) + 1]
  <2> DEFINE at(i) == IF i > n THEN <<>> ELSE <<PieceAt(s, i)>> \o from[PieceEnd(s, i) + 1]
  <2>1. \A i \in 1..(n + 1) : from[i] = at(i)
    <3>1. from = [i \in 1..(n + 1) |-> at(i)]
      BY <1>1
    <3> HIDE DEF at
    <3> QED BY <3>1
  <2>2. n + 1 \in 1..(n + 1) /\ n + 1 > n /\ \A i \in 1..n : i \in 1..(n + 1) /\ ~(i > n)
    BY <1>0
  <2> QED BY <2>1, <2>2
<1>3. \A i \in 1..n : <<PieceAt(s, i)>> \in Seq(Good) /\ PieceEnd(s, i) + 1 \in (i + 1)..(n + 1)
  <2> TAKE i \in 1..n
  <2>1. PieceAt(s, i) \in Good /\ PieceEnd(s, i) \in i..n
    BY PieceFacts DEF n
  <2> HIDE DEF Good
  <2> QED BY <1>0, <2>1
<1> HIDE DEF Good
<1>4. 0 \in S
  <2>1. from[n + 1] \in Seq(Good)
    BY <1>2, EmptySeq
  <2>2. \A i \in 1..(n + 1) : i >= n + 1 - 0 => i = n + 1
    BY <1>0
  <2> QED BY <2>1, <2>2
<1>5. ASSUME NEW k \in S PROVE k + 1 \in S
  <2>1. ASSUME NEW i \in 1..(n + 1), i >= n + 1 - (k + 1) PROVE from[i] \in Seq(Good)
    <3>1. CASE i = n + 1
      BY <1>2, <3>1, EmptySeq
    <3>2. CASE i # n + 1
      <4>1. i \in 1..n
        BY <1>0, <3>2
      <4>2. PieceEnd(s, i) + 1 \in 1..(n + 1) /\ PieceEnd(s, i) + 1 >= n + 1 - k
        BY <1>0, <1>3, <2>1, <4>1
      <4>3. from[PieceEnd(s, i) + 1] \in Seq(Good)
        BY <4>2
      <4> QED BY <1>2, <1>3, <4>1, <4>3, ConcatProperties
    <3> QED BY <3>1, <3>2
  <2> QED BY <2>1
<1>6. \A i \in 1..(n + 1) : from[i] \in Seq(Good)
  <2>1. n \in S
    BY <1>0, <1>4, <1>5, Induction
  <2> QED BY <1>0, <2>1
<1>7. Pieces(s) \in Seq(Good)
  BY <1>0, <1>1, <1>6
<1>8. s # <<>> => Pieces(s) # <<>>
  <2> SUFFICES ASSUME s # <<>> PROVE Pieces(s) # <<>>
    OBVIOUS
  <2>1. 1 \in 1..n
    BY EmptySeq DEF n
  <2>2. from[PieceEnd(s, 1) + 1] \in Seq(Good) /\ <<PieceAt(s, 1)>> \in Seq(Good)
    BY <1>0, <1>3, <1>6, <2>1
  <2>3. <<PieceAt(s, 1)>> # <<>>
    OBVIOUS
  <2>4. <<PieceAt(s, 1)>> \o from[PieceEnd(s, 1) + 1] # <<>>
    BY <2>2, <2>3, ConcatEqualIffEmpty
  <2>5. Pieces(s) = from[1]
    BY <1>1
  <2> QED BY <1>2, <2>1, <2>4, <2>5
<1> QED BY <1>7, <1>8 DEF Good

\* A part of a sequence that starts with d and o and ends with c.
LEMMA Bracketed ==
    ASSUME NEW C, NEW s \in Seq(C), NEW i \in Nat, NEW j \in Nat,
           1 <= i, i + 2 <= j, j <= Len(s),
           NEW d, NEW o, NEW c, s[i] = d, s[i + 1] = o, s[j] = c
    PROVE  /\ <<d, o>> \o SubSeq(s, i + 2, j - 1) \o <<c>> = SubSeq(s, i, j)
           /\ DOMAIN SubSeq(s, i + 2, j - 1) = 1..(j - i - 2)
           /\ \A k \in 1..(j - i - 2) : SubSeq(s, i + 2, j - 1)[k] = s[i + 1 + k]
<1> DEFINE n == j - i - 2
           name == SubSeq(s, i + 2, j - 1)
           t == SubSeq(s, i, j)
           u == <<d, o>> \o name \o <<c>>
<1>1. n \in Nat /\ Len(s) \in Nat /\ \A k \in 1..Len(s) : s[k] \in C
  BY LenProperties
<1>2. name \in Seq(C) /\ Len(name) = n /\ \A k \in 1..n : name[k] = s[i + 1 + k]
  <2>1. i + 2 \in Int /\ j - 1 \in Int /\ \A k \in (i + 2)..(j - 1) : s[k] \in C
    BY <1>1
  <2>2. /\ name \in Seq(C)
        /\ Len(name) = IF i + 2 <= j - 1 THEN (j - 1) - (i + 2) + 1 ELSE 0
        /\ \A k \in 1..((j - 1) - (i + 2) + 1) : name[k] = s[(i + 2) + k - 1]
    BY <2>1, SubSeqProperties
  <2> HIDE DEF name
  <2> QED BY <2>2
<1>3. t \in Seq(C) /\ Len(t) = n + 3 /\ \A k \in 1..(n + 3) : t[k] = s[i + k - 1]
  <2>1. i \in Int /\ j \in Int /\ \A k \in i..j : s[k] \in C
    BY <1>1
  <2>2. /\ t \in Seq(C) /\ Len(t) = IF i <= j THEN j - i + 1 ELSE 0
        /\ \A k \in 1..(j - i + 1) : t[k] = s[i + k - 1]
    BY <2>1, SubSeqProperties
  <2> HIDE DEF t
  <2> QED BY <2>2
<1>4. d \in C /\ o \in C /\ c \in C
  BY <1>1
<1>5. DOMAIN name = 1..n
  <2> HIDE DEF name, n
  <2> QED BY <1>2, LenProperties
<1> HIDE DEF name, t
<1> DEFINE v == <<d, o>> \o name
<1>6. v \in Seq(C) /\ Len(v) = n + 2 /\ v[1] = d /\ v[2] = o /\ \A k \in 1..n : v[k + 2] = name[k]
  <2> DEFINE h == <<d, o>>
  <2>1. h \in Seq(C) /\ Len(h) = 2 /\ h[1] = d /\ h[2] = o
    BY <1>4
  <2> HIDE DEF h, n
  <2>2. /\ h \o name \in Seq(C) /\ Len(h \o name) = Len(h) + Len(name)
        /\ \A k \in 1..(Len(h) + Len(name)) :
              (h \o name)[k] = IF k <= Len(h) THEN h[k] ELSE name[k - Len(h)]
    BY <1>2, <2>1, ConcatProperties
  <2>3. h \o name = v
    BY DEF h
  <2> HIDE DEF v
  <2>4. \A k \in 1..n : k + 2 \in 1..(n + 2) /\ ~(k + 2 <= 2) /\ k + 2 - 2 = k
    BY <1>1
  <2> QED BY <1>1, <1>2, <2>1, <2>2, <2>3, <2>4
<1>7. u \in Seq(C) /\ Len(u) = n + 3 /\ \A k \in 1..(n + 3) : u[k] = t[k]
  <2> DEFINE e == <<c>>
  <2>1. e \in Seq(C) /\ Len(e) = 1 /\ e[1] = c
    BY <1>4
  <2>2. u = v \o e
    OBVIOUS
  <2>3. n \in Nat /\ i + (n + 3) - 1 = j /\ i + 1 - 1 = i /\ i + 2 - 1 = i + 1
    BY <1>1
  <2> HIDE DEF e, n, v, u
  <2>4. /\ u \in Seq(C) /\ Len(u) = n + 2 + 1
        /\ \A k \in 1..(n + 2 + 1) : u[k] = IF k <= n + 2 THEN v[k] ELSE e[k - (n + 2)]
    <3>1. /\ v \o e \in Seq(C) /\ Len(v \o e) = Len(v) + Len(e)
          /\ \A k \in 1..(Len(v) + Len(e)) :
                (v \o e)[k] = IF k <= Len(v) THEN v[k] ELSE e[k - Len(v)]
      BY <1>6, <2>1, ConcatProperties
    <3> QED BY <1>6, <2>1, <2>2, <3>1
  <2>5. ASSUME NEW k \in 1..(n + 3) PROVE u[k] = t[k]
    <3>1. CASE k = 1
      <4>1. u[1] = v[1] /\ t[1] = s[i]
        BY <1>3, <2>3, <2>4, <3>1
      <4> QED BY <1>6, <3>1, <4>1
    <3>2. CASE k = 2
      <4>1. u[2] = v[2] /\ t[2] = s[i + 1]
        BY <1>3, <2>3, <2>4, <3>2
      <4> QED BY <1>6, <3>2, <4>1
    <3>3. CASE k \in 3..(n + 2)
      <4>1. k - 2 \in 1..n /\ k - 2 + 2 = k /\ i + 1 + (k - 2) = i + k - 1
        BY <2>3, <3>3
      <4>2. u[k] = v[k] /\ t[k] = s[i + k - 1]
        BY <1>3, <2>3, <2>4, <3>3
      <4>3. v[k] = name[k - 2] /\ name[k - 2] = s[i + k - 1]
        BY <1>2, <1>6, <4>1
      <4> QED BY <4>2, <4>3
    <3>4. CASE k = n + 3
      <4>1. k \in 1..(n + 2 + 1) /\ ~(k <= n + 2) /\ k - (n + 2) = 1 /\ i + k - 1 = j
        BY <2>3, <3>4
      <4>2. u[k] = e[1]
        BY <2>4, <4>1
      <4>3. t[k] = s[j]
        BY <1>3, <4>1
      <4> QED BY <2>1, <4>2, <4>3
    <3> QED BY <2>3, <3>1, <3>2, <3>3, <3>4
  <2> QED BY <2>3, <2>4, <2>5
<1>8. u = t
  <2> HIDE DEF u
  <2> QED BY <1>3, <1>7, SeqEqual
<1> QED BY <1>2, <1>5, <1>8 DEF name, t

\* How a piece is written in a template.
Spelled(p) == IF p.isVar THEN <<"$", "{">> \o p.text \o <<"}">> ELSE p.text

\* What is found at i is what is written there, and the name of a variable has
\* no "}": it ends at the first one.
LEMMA PieceSpells ==
    ASSUME NEW Chars, NEW s \in Seq(Chars), NEW i \in 1..Len(s)
    PROVE  /\ Spelled(PieceAt(s, i)) = SubSeq(s, i, PieceEnd(s, i))
           /\ PieceAt(s, i).isVar => \A k \in DOMAIN PieceAt(s, i).text :
                                         PieceAt(s, i).text[k] # "}"
<1>1. Len(s) \in Nat /\ i \in Nat /\ 1 <= i /\ i <= Len(s) /\ s[i] \in Chars
  BY LenProperties
<1>2. CASE Closers(s, i) = {}
  <2>1. SubSeq(s, i, i) = <<s[i]>>
    <3> DEFINE t == SubSeq(s, i, i)
    <3>1. t \in Seq(Chars) /\ Len(t) = 1 /\ t[1] = s[i]
      <4>1. i \in Int /\ \A k \in i..i : s[k] \in Chars
        BY <1>1
      <4>2. /\ t \in Seq(Chars) /\ Len(t) = IF i <= i THEN i - i + 1 ELSE 0
            /\ \A k \in 1..(i - i + 1) : t[k] = s[i + k - 1]
        BY <4>1, SubSeqProperties
      <4> HIDE DEF t
      <4>3. i <= i /\ i - i + 1 = 1 /\ i + 1 - 1 = i /\ 1 \in 1..1
        BY <1>1
      <4> QED BY <4>2, <4>3
    <3> HIDE DEF t
    <3>2. t = <<s[i]>>
      BY <1>1, <3>1
    <3> QED BY <3>2 DEF t
  <2>2. PieceEnd(s, i) = i /\ ~PieceAt(s, i).isVar /\ PieceAt(s, i).text = <<s[i]>>
    BY <1>2 DEF PieceEnd, PieceAt
  <2> QED BY <2>1, <2>2, Zenon DEF Spelled
<1>3. CASE Closers(s, i) # {}
  <2> DEFINE j == Min(Closers(s, i))
             name == SubSeq(s, i + 2, j - 1)
  <2>1. \A k \in Closers(s, i) : k \in (i + 2)..Len(s)
    BY Zenon DEF Closers
  <2>2. j \in Closers(s, i) /\ \A k \in Closers(s, i) : j <= k
    <3>1. Closers(s, i) \in SUBSET Nat
      BY <1>1, <2>1
    <3> QED BY <1>3, <3>1, LeastIsIn
  <2>3. PieceEnd(s, i) = j /\ PieceAt(s, i).isVar /\ PieceAt(s, i).text = name
    BY <1>3 DEF PieceEnd, PieceAt
  <2> HIDE DEF j
  <2>4. s[i] = "$" /\ s[i + 1] = "{" /\ s[j] = "}"
    BY <2>2, Zenon DEF Closers
  <2>5. j \in Nat /\ i + 2 <= j /\ j <= Len(s)
    BY <1>1, <2>1, <2>2
  <2>6. /\ <<"$", "{">> \o name \o <<"}">> = SubSeq(s, i, j)
        /\ DOMAIN name = 1..(j - i - 2)
        /\ \A k \in 1..(j - i - 2) : name[k] = s[i + 1 + k]
    <3>1. i \in Nat /\ 1 <= i
      BY <1>1
    <3> HIDE DEF name
    <3>2. ASSUME NEW d, NEW o, NEW c, s[i] = d, s[i + 1] = o, s[j] = c
          PROVE  /\ <<d, o>> \o SubSeq(s, i + 2, j - 1) \o <<c>> = SubSeq(s, i, j)
                 /\ DOMAIN SubSeq(s, i + 2, j - 1) = 1..(j - i - 2)
                 /\ \A k \in 1..(j - i - 2) : SubSeq(s, i + 2, j - 1)[k] = s[i + 1 + k]
      BY <2>5, <3>1, <3>2, Bracketed
    <3> QED BY <2>4, <3>2, Zenon DEF name
  <2>7. ASSUME NEW k \in 1..(j - i - 2) PROVE name[k] # "}"
    <3>1. i + 1 + k \in (i + 2)..Len(s) /\ i + 1 + k \notin Closers(s, i)
      BY <1>1, <2>2, <2>5
    <3>2. s[i + 1 + k] # "}"
      BY <2>4, <3>1, Zenon DEF Closers
    <3> QED BY <2>6, <3>2, Zenon
  <2> HIDE DEF name
  <2> QED BY <2>3, <2>6, <2>7, Zenon DEF Spelled
<1> QED BY <1>2, <1>3, Zenon

\* The pieces q are those of s from i on, and start where `at` says.
StartAt(s, i, q, at) ==
    /\ at \in [1..(Len(q) + 1) -> 1..(Len(s) + 1)]
    /\ at[1] = i /\ at[Len(q) + 1] = Len(s) + 1
    /\ \A k \in 1..Len(q) : /\ at[k] \in 1..Len(s) /\ q[k] = PieceAt(s, at[k])
                            /\ at[k + 1] = PieceEnd(s, at[k]) + 1

\* One more piece in front.
LEMMA StartEarlier ==
    ASSUME NEW s, Len(s) \in Nat, NEW i \in 1..Len(s), NEW P, PieceAt(s, i) \in P,
           NEW q \in Seq(P), NEW at, StartAt(s, PieceEnd(s, i) + 1, q, at)
    PROVE  /\ <<PieceAt(s, i)>> \o q \in Seq(P)
           /\ \E bt : StartAt(s, i, <<PieceAt(s, i)>> \o q, bt)
<1> DEFINE h == <<PieceAt(s, i)>>
           r == h \o q
           m == Len(q)
           bt == [x \in 1..(m + 2) |-> IF x = 1 THEN i ELSE at[x - 1]]
<1>1. h \in Seq(P) /\ Len(h) = 1 /\ h[1] = PieceAt(s, i)
  OBVIOUS
<1>2. m \in Nat
  BY LenProperties
<1> HIDE DEF h
<1>3. /\ r \in Seq(P) /\ Len(r) = 1 + m
      /\ \A k \in 1..(1 + m) : r[k] = IF k <= 1 THEN h[k] ELSE q[k - 1]
  <2>1. /\ r \in Seq(P) /\ Len(r) = Len(h) + Len(q)
        /\ \A k \in 1..(Len(h) + Len(q)) : r[k] = IF k <= Len(h) THEN h[k] ELSE q[k - Len(h)]
    BY <1>1, ConcatProperties
  <2> HIDE DEF r
  <2> QED BY <1>1, <2>1
<1> HIDE DEF r, m
<1>4. /\ at \in [1..(m + 1) -> 1..(Len(s) + 1)]
      /\ at[1] = PieceEnd(s, i) + 1 /\ at[m + 1] = Len(s) + 1
      /\ \A k \in 1..m : /\ at[k] \in 1..Len(s) /\ q[k] = PieceAt(s, at[k])
                         /\ at[k + 1] = PieceEnd(s, at[k]) + 1
  BY DEF StartAt, m
<1>5. \A x \in 1..(m + 2) : x = 1 \/ (x # 1 /\ x - 1 \in 1..(m + 1))
  BY <1>2
<1>6. bt \in [1..(Len(r) + 1) -> 1..(Len(s) + 1)]
  <2>1. Len(r) + 1 = m + 2
    BY <1>2, <1>3
  <2>2. \A x \in 1..(m + 2) : (IF x = 1 THEN i ELSE at[x - 1]) \in 1..(Len(s) + 1)
    BY <1>4, <1>5
  <2> QED BY <2>1, <2>2
<1>7. bt[1] = i /\ \A x \in 1..(m + 1) : bt[x + 1] = at[x]
  BY <1>2
<1> HIDE DEF bt
<1>8. bt[Len(r) + 1] = Len(s) + 1
  BY <1>2, <1>3, <1>4, <1>7
<1>9. ASSUME NEW k \in 1..Len(r)
      PROVE  /\ bt[k] \in 1..Len(s) /\ r[k] = PieceAt(s, bt[k])
             /\ bt[k + 1] = PieceEnd(s, bt[k]) + 1
  <2>1. CASE k = 1
    <3>1. r[1] = PieceAt(s, i)
      BY <1>1, <1>2, <1>3
    <3>2. bt[1 + 1] = PieceEnd(s, i) + 1
      BY <1>2, <1>4, <1>7
    <3> QED BY <1>7, <2>1, <3>1, <3>2
  <2>2. CASE k # 1
    <3> DEFINE x == k - 1
    <3>1. x \in 1..m /\ x \in 1..(m + 1) /\ x + 1 \in 1..(m + 1) /\ x + 1 = k
          /\ x + 1 + 1 = k + 1 /\ k \in 1..(1 + m) /\ ~(k <= 1)
      BY <1>2, <1>3, <2>2
    <3>2. r[k] = q[x]
      BY <1>3, <3>1
    <3> HIDE DEF x
    <3>3. bt[k] = at[x] /\ bt[k + 1] = at[x + 1]
      BY <1>7, <3>1
    <3> QED BY <1>4, <3>1, <3>2, <3>3
  <2> QED BY <2>1, <2>2
<1>10. StartAt(s, i, r, bt)
  BY <1>6, <1>7, <1>8, <1>9 DEF StartAt
<1> QED BY <1>3, <1>10 DEF r, h

\* The pieces of a template start where the one before ended.
LEMMA PiecesStart ==
    ASSUME NEW Chars, NEW s \in Seq(Chars)
    PROVE  Pieces(s) \in Seq(PieceSet(Chars)) /\ \E at : StartAt(s, 1, Pieces(s), at)
<1> DEFINE n == Len(s)
           P == PieceSet(Chars)
<1>0. n \in Nat
  BY LenProperties
<1>1. PICK from :
         /\ from = [i \in 1..(n + 1) |->
                       IF i > n THEN <<>> ELSE <<PieceAt(s, i)>> \o from[PieceEnd(s, i) + 1]]
         /\ Pieces(s) = from[1]
  BY PiecesUnfold
<1> HIDE DEF n
<1>2. /\ from[n + 1] = <<>>
      /\ \A i \in 1..n : from[i] = <<PieceAt(s, i)>> \o from[PieceEnd(s, i) + 1]
  <2> DEFINE at(i) == IF i > n THEN <<>> ELSE <<PieceAt(s, i)>> \o from[PieceEnd(s, i) + 1]
  <2>1. \A i \in 1..(n + 1) : from[i] = at(i)
    <3>1. from = [i \in 1..(n + 1) |-> at(i)]
      BY <1>1
    <3> HIDE DEF at
    <3> QED BY <3>1
  <2>2. n + 1 \in 1..(n + 1) /\ n + 1 > n /\ \A i \in 1..n : i \in 1..(n + 1) /\ ~(i > n)
    BY <1>0
  <2> QED BY <2>1, <2>2
<1> DEFINE Good(i) == from[i] \in Seq(P) /\ \E at : StartAt(s, i, from[i], at)
           S == { k \in Nat : \A i \in 1..(n + 1) : i >= n + 1 - k => Good(i) }
<1>3. Good(n + 1)
  <2> DEFINE at == [x \in 1..1 |-> n + 1]
  <2>1. StartAt(s, n + 1, <<>>, at)
    <3>1. Len(<<>>) = 0 /\ Len(<<>>) + 1 = 1 /\ n + 1 \in 1..(n + 1) /\ 1..0 = {}
      BY <1>0
    <3> QED BY <3>1 DEF StartAt, n
  <2> QED BY <1>2, <2>1, EmptySeq
<1>4. ASSUME NEW i \in 1..n, Good(PieceEnd(s, i) + 1) PROVE Good(i)
  <2>1. PICK at : StartAt(s, PieceEnd(s, i) + 1, from[PieceEnd(s, i) + 1], at)
    BY <1>4
  <2>2. PieceAt(s, i) \in P
    BY PieceFacts DEF n
  <2> HIDE DEF P
  <2>3. /\ <<PieceAt(s, i)>> \o from[PieceEnd(s, i) + 1] \in Seq(P)
        /\ \E bt : StartAt(s, i, <<PieceAt(s, i)>> \o from[PieceEnd(s, i) + 1], bt)
    BY <1>0, <1>4, <2>1, <2>2, StartEarlier DEF n
  <2> QED BY <1>2, <2>3
<1>5. \A i \in 1..n : PieceEnd(s, i) + 1 \in (i + 1)..(n + 1)
  <2> TAKE i \in 1..n
  <2>1. PieceEnd(s, i) \in i..n
    BY PieceFacts DEF n
  <2> QED BY <1>0, <2>1
<1> HIDE DEF Good
<1>6. 0 \in S
  BY <1>0, <1>3
<1>7. ASSUME NEW k \in S PROVE k + 1 \in S
  <2>1. ASSUME NEW i \in 1..(n + 1), i >= n + 1 - (k + 1) PROVE Good(i)
    <3>1. CASE i = n + 1
      BY <1>3, <3>1
    <3>2. CASE i # n + 1
      <4>1. i \in 1..n
        BY <1>0, <3>2
      <4>2. PieceEnd(s, i) + 1 \in 1..(n + 1) /\ PieceEnd(s, i) + 1 >= n + 1 - k
        BY <1>0, <1>5, <2>1, <4>1
      <4>3. Good(PieceEnd(s, i) + 1)
        BY <4>2
      <4> QED BY <1>4, <4>1, <4>3
    <3> QED BY <3>1, <3>2
  <2> QED BY <2>1
<1>8. Good(1)
  <2>1. n \in S
    BY <1>0, <1>6, <1>7, Induction
  <2> QED BY <1>0, <2>1
<1> QED BY <1>1, <1>8 DEF Good

\* A template is its pieces, spelled one after the other from its first
\* character to its last: templateVarRe leaves nothing out and reads nothing
\* twice, a variable ends at the first "}" after it, and what stands outside
\* the variables opens none.
THEOREM TemplateIsItsPieces ==
    ASSUME NEW Chars, NEW s \in Seq(Chars)
    PROVE  \E at \in [1..(Len(Pieces(s)) + 1) -> 1..(Len(s) + 1)] :
              /\ at[1] = 1 /\ at[Len(Pieces(s)) + 1] = Len(s) + 1
              /\ \A k \in 1..Len(Pieces(s)) :
                    /\ at[k] < at[k + 1]
                    /\ Spelled(Pieces(s)[k]) = SubSeq(s, at[k], at[k + 1] - 1)
                    /\ Pieces(s)[k].isVar <=> Closers(s, at[k]) # {}
                    /\ Pieces(s)[k].isVar =>
                          \A c \in DOMAIN Pieces(s)[k].text : Pieces(s)[k].text[c] # "}"
<1> DEFINE q == Pieces(s)
<1>1. PICK at : StartAt(s, 1, q, at)
  BY PiecesStart
<1>2. /\ at \in [1..(Len(q) + 1) -> 1..(Len(s) + 1)]
      /\ at[1] = 1 /\ at[Len(q) + 1] = Len(s) + 1
      /\ \A k \in 1..Len(q) : /\ at[k] \in 1..Len(s) /\ q[k] = PieceAt(s, at[k])
                              /\ at[k + 1] = PieceEnd(s, at[k]) + 1
  BY <1>1 DEF StartAt
<1>3. Len(s) \in Nat /\ Len(q) \in Nat
  BY PiecesStart, LenProperties
<1> HIDE DEF q
<1>4. ASSUME NEW k \in 1..Len(q)
      PROVE  /\ at[k] < at[k + 1]
             /\ Spelled(q[k]) = SubSeq(s, at[k], at[k + 1] - 1)
             /\ q[k].isVar <=> Closers(s, at[k]) # {}
             /\ q[k].isVar => \A c \in DOMAIN q[k].text : q[k].text[c] # "}"
  <2>1. at[k] \in 1..Len(s)
    BY <1>2
  <2>2. PieceEnd(s, at[k]) \in at[k]..Len(s)
    BY <2>1, PieceFacts
  <2>3. at[k] < at[k + 1] /\ at[k + 1] - 1 = PieceEnd(s, at[k])
    <3>1. at[k + 1] = PieceEnd(s, at[k]) + 1
      BY <1>2
    <3> QED BY <1>3, <2>1, <2>2, <3>1
  <2>4. PieceAt(s, at[k]).isVar <=> Closers(s, at[k]) # {}
    BY DEF PieceAt
  <2>5. q[k] = PieceAt(s, at[k])
    BY <1>2
  <2>6. /\ Spelled(q[k]) = SubSeq(s, at[k], PieceEnd(s, at[k]))
        /\ q[k].isVar => \A c \in DOMAIN q[k].text : q[k].text[c] # "}"
    BY <2>1, <2>5, PieceSpells, Zenon
  <2> QED BY <2>3, <2>4, <2>5, <2>6, Zenon
<1> QED BY <1>2, <1>4, Zenon DEF q

----------------------------------------------------------------------------
(* Expansion *)

\* The function that FlattenSeq names exists.
LEMMA FlattenUnfold ==
    ASSUME NEW texts, Len(texts) \in Nat \ {0}
    PROVE  \E f : /\ f = [i \in 1..Len(texts) |->
                             IF i = 1 THEN texts[i] ELSE f[i - 1] \o texts[i]]
                  /\ FlattenSeq(texts) = f[Len(texts)]
<1> DEFINE n == Len(texts)
           Is(f, m) == f = [i \in 1..m |-> IF i = 1 THEN texts[i] ELSE f[i - 1] \o texts[i]]
           K == { k \in Nat : \E f : Is(f, k + 1) }
<1>1. 0 \in K
  <2> DEFINE f == [i \in 1..1 |-> texts[i]]
  <2>1. Is(f, 0 + 1)
    OBVIOUS
  <2> QED BY <2>1
<1>2. ASSUME NEW k \in K PROVE k + 1 \in K
  <2> SUFFICES \E g : Is(g, k + 1 + 1)
    <3> HIDE DEF Is
    <3> QED OBVIOUS
  <2>1. PICK f : Is(f, k + 1)
    OBVIOUS
  <2> DEFINE m == k + 1 + 1
             g == [i \in 1..m |-> IF i = m THEN f[k + 1] \o texts[m] ELSE f[i]]
  <2>2. m \in Nat /\ m - 1 = k + 1 /\ m > 1
    OBVIOUS
  <2>3. ASSUME NEW i \in 1..m
        PROVE  g[i] = IF i = 1 THEN texts[i] ELSE g[i - 1] \o texts[i]
    <3>1. CASE i = m
      <4>1. m \in 1..m /\ m - 1 \in 1..m /\ m - 1 # m
        BY <2>2
      <4>2. g[m] = f[m - 1] \o texts[m]
        BY <2>2, <4>1
      <4>3. g[m - 1] = f[m - 1]
        BY <4>1
      <4>4. i # 1
        BY <2>2, <3>1
      <4>5. g[m] = g[m - 1] \o texts[m]
        BY <4>2, <4>3
      <4> HIDE DEF g, m
      <4> QED BY <3>1, <4>4, <4>5
    <3>2. CASE i # m
      <4>1. i \in 1..(k + 1) /\ (i # 1 => i - 1 \in 1..(k + 1))
        BY <2>2, <3>2
      <4>2. f[i] = IF i = 1 THEN texts[i] ELSE f[i - 1] \o texts[i]
        BY <2>1, <4>1
      <4>3. g[i] = f[i] /\ (i # 1 => g[i - 1] = f[i - 1])
        BY <2>2, <4>1
      <4> QED BY <4>2, <4>3
    <3> QED BY <3>1, <3>2
  <2>4. Is(g, m)
    <3> HIDE DEF m
    <3> QED BY <2>3
  <2> QED BY <2>4
<1>3. \E f : Is(f, n)
  <2>1. n - 1 \in Nat /\ n - 1 + 1 = n
    OBVIOUS
  <2>2. n - 1 \in K
    <3>1. K \in SUBSET Nat
      OBVIOUS
    <3> HIDE DEF K, n
    <3> QED BY <1>1, <1>2, <2>1, <3>1, Induction
  <2> QED BY <2>1, <2>2
<1> DEFINE flatten == CHOOSE f : Is(f, n)
<1>4. Is(flatten, n)
  BY <1>3
<1>5. FlattenSeq(texts) = flatten[n]
  BY DEF FlattenSeq
<1> QED BY <1>4, <1>5

\* Texts that are not empty, one after the other, are not empty, and have no
\* other characters.
LEMMA Flattened ==
    ASSUME NEW S, NEW texts \in Seq(Seq(S)), texts # <<>>,
           \A i \in DOMAIN texts : texts[i] # <<>>
    PROVE  FlattenSeq(texts) \in Seq(S) /\ FlattenSeq(texts) # <<>>
<1> DEFINE n == Len(texts)
           Good == { t \in Seq(S) : t # <<>> }
<1>1. n \in Nat \ {0} /\ \A i \in 1..n : texts[i] \in Good
  <2>1. n \in Nat \ {0} /\ DOMAIN texts = 1..n
    BY EmptySeq, LenProperties
  <2>2. \A i \in 1..n : texts[i] \in Seq(S) /\ texts[i] # <<>>
    BY <2>1, ElementOfSeq
  <2> QED BY <2>1, <2>2
<1>2. PICK f : /\ f = [i \in 1..n |-> IF i = 1 THEN texts[i] ELSE f[i - 1] \o texts[i]]
               /\ FlattenSeq(texts) = f[n]
  BY <1>1, FlattenUnfold
<1> HIDE DEF n
<1>3. ASSUME NEW i \in 1..n
      PROVE  f[i] = (IF i = 1 THEN texts[i] ELSE f[i - 1] \o texts[i])
  BY <1>2
<1> DEFINE K == { k \in Nat : k + 1 <= n => f[k + 1] \in Good }
<1>4. 0 \in K
  BY <1>1, <1>3
<1>5. ASSUME NEW k \in K PROVE k + 1 \in K
  <2> SUFFICES ASSUME k + 1 + 1 <= n PROVE f[k + 1 + 1] \in Good
    OBVIOUS
  <2>1. k + 1 + 1 \in 1..n /\ k + 1 + 1 # 1 /\ k + 1 + 1 - 1 = k + 1 /\ k + 1 <= n
    BY <1>1
  <2>2. f[k + 1 + 1] = f[k + 1] \o texts[k + 1 + 1]
    <3> DEFINE i == k + 1 + 1
    <3>1. f[i] = f[i - 1] \o texts[i]
      <4>1. i \in 1..n /\ i # 1
        BY <2>1
      <4> HIDE DEF i
      <4> QED BY <1>3, <4>1
    <3>2. i - 1 = k + 1
      BY <2>1
    <3>3. f[i] = f[k + 1] \o texts[i]
      <4> HIDE DEF i
      <4> QED BY <3>1, <3>2
    <3> QED BY <3>3
  <2>3. f[k + 1] \in Good /\ texts[k + 1 + 1] \in Good
    BY <1>1, <2>1
  <2>4. \A t, u \in Good : t \o u \in Good
    BY ConcatProperties, ConcatEqualIffEmpty
  <2> HIDE DEF Good
  <2> QED BY <2>2, <2>3, <2>4
<1>6. f[n] \in Good
  <2>1. n - 1 \in Nat /\ n - 1 + 1 = n
    BY <1>1
  <2>2. n - 1 \in K
    <3>1. K \in SUBSET Nat
      OBVIOUS
    <3> HIDE DEF K
    <3> QED BY <1>4, <1>5, <2>1, <3>1, Induction
  <2> HIDE DEF Good
  <2> QED BY <2>1, <2>2
<1> QED BY <1>2, <1>6

\* The key ID of a template that was loaded, and of clean claims, is one that
\* the re-check accepts.
LEMMA ExpandedIsClean ==
    ASSUME NEW Chars, NEW tmpl \in Seq(Chars), tmpl # <<>>, TemplateOK(tmpl),
           NEW claims, \A name \in DOMAIN claims :
                          claims[name] = NonString \/ claims[name] \in Seq(Chars),
           ClaimsClean(tmpl, claims)
    PROVE  Expanded(tmpl, claims) # <<>> /\ Only(Expanded(tmpl, claims), KeyIDChars)
<1> DEFINE pieces == Pieces(tmpl)
           part(i) == IF pieces[i].isVar THEN claims[pieces[i].text] ELSE pieces[i].text
           parts == [i \in DOMAIN pieces |-> part(i)]
<1>1. \A t \in Seq(Chars) : Only(t, KeyIDChars) => t \in Seq(KeyIDChars)
  BY LenProperties DEF Only
<1>2. /\ DOMAIN pieces = 1..Len(pieces) /\ Len(pieces) \in Nat \ {0}
      /\ \A i \in DOMAIN pieces : /\ pieces[i].text \in Seq(Chars)
                                  /\ ~pieces[i].isVar => pieces[i].text # <<>>
  <2> DEFINE Good == { p \in PieceSet(Chars) : ~p.isVar => p.text # <<>> }
  <2>1. pieces \in Seq(Good) /\ pieces # <<>>
    BY PiecesFacts
  <2> HIDE DEF pieces, Good
  <2>2. DOMAIN pieces = 1..Len(pieces) /\ Len(pieces) \in Nat \ {0}
        /\ \A i \in DOMAIN pieces : pieces[i] \in Good
    BY <2>1, EmptySeq, LenProperties
  <2> QED BY <2>2 DEF Good, PieceSet
<1>3. ASSUME NEW i \in DOMAIN pieces PROVE part(i) \in Seq(KeyIDChars) /\ part(i) # <<>>
  <2>1. CASE pieces[i].isVar
    <3>1. Clean(claims, pieces[i].text)
      BY <2>1 DEF ClaimsClean
    <3> QED BY <1>1, <2>1, <3>1 DEF Clean
  <2>2. CASE ~pieces[i].isVar
    <3>1. LiteralOK(pieces[i].text)
      BY <2>2 DEF TemplateOK
    <3> QED BY <1>1, <1>2, <2>2, <3>1 DEF LiteralOK
  <2> QED BY <2>1, <2>2
<1>4. Expanded(tmpl, claims) = FlattenSeq(parts)
  BY DEF Expanded
<1> HIDE DEF pieces, part
<1>5. parts \in Seq(Seq(KeyIDChars)) /\ parts # <<>> /\ \A i \in DOMAIN parts : parts[i] # <<>>
  <2>1. parts \in [1..Len(pieces) -> Seq(KeyIDChars)] /\ DOMAIN parts # {}
    <3>1. DOMAIN parts = 1..Len(pieces) /\ \A i \in 1..Len(pieces) : parts[i] = part(i)
      BY <1>2
    <3>2. parts = [i \in 1..Len(pieces) |-> part(i)]
      BY <1>2
    <3>3. \A i \in 1..Len(pieces) : part(i) \in Seq(KeyIDChars)
      BY <1>2, <1>3
    <3>4. 1 \in 1..Len(pieces)
      BY <1>2
    <3> HIDE DEF parts
    <3> QED BY <3>1, <3>2, <3>3, <3>4
  <2>2. parts # <<>>
    BY <2>1
  <2> QED BY <1>2, <1>3, <2>1, <2>2
<1>6. Expanded(tmpl, claims) \in Seq(KeyIDChars) /\ Expanded(tmpl, claims) # <<>>
  <2> HIDE DEF parts
  <2> QED BY <1>4, <1>5, Flattened
<1> QED BY <1>6, LenProperties DEF Only
=============================================================================
