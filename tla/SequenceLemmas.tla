--------------------------- MODULE SequenceLemmas ---------------------------
(***************************************************************************)
(* Lemmas about sequences that the proofs of the pipeline, the clients     *)
(* and the sequencer need (what a selection and a concatenation of         *)
(* sequences contain, and in which order), quotients and remainders for    *)
(* the sequencer and the devices, and induction for all of them.           *)
(*                                                                         *)
(* They are proved by induction over numbers and over sequences.  The      *)
(* induction theorems of the library take an operator as a parameter; here *)
(* induction is stated for a SET of numbers (NatInduct) or of sequences    *)
(* (SeqInduct), from the least element of a set of numbers, which the      *)
(* library proves for any well-founded relation.  A recursive function is  *)
(* a CHOOSE, so RecursionExists shows that there is one to choose.         *)
(***************************************************************************)
EXTENDS Selection, SequencesExt, SequenceTheorems, WellFoundedInduction, TLAPS

-----------------------------------------------------------------------------
(* Induction and recursion.                                                *)

\* The order of the numbers, as a relation.
NatLess == OpToRel(<, Nat)

\* The relation is the order of the numbers.
LEMMA NatLessFact == \A x, y \in Nat : <<x, y>> \in NatLess <=> x < y
  BY DEF NatLess, OpToRel

\* A set of numbers that is not empty has a least one.
LEMMA NatMin ==
  ASSUME NEW T, T \subseteq Nat, T # {}
  PROVE \E x \in T : \A y \in T : x <= y
<1>1. IsWellFoundedOn(NatLess, Nat)
  BY NatLessThanWellFounded DEF NatLess
<1>2. PICK x \in T : \A y \in T : ~ (<<y, x>> \in NatLess)
  BY <1>1, WFMin
<1>3. ASSUME NEW y \in T PROVE x <= y
  <2>1. x \in Nat /\ y \in Nat
    OBVIOUS
  <2>2. ~ (<<y, x>> \in NatLess)
    BY <1>2
  <2>3. ~ (y < x)
    BY <2>1, <2>2, NatLessFact
  <2>4. QED
    BY <2>1, <2>3
<1>4. QED
  BY <1>3

\* A set that has 0, and the successor of each of its numbers, has them all.
LEMMA NatInduct ==
  ASSUME NEW S, 0 \in S, \A n \in Nat : n \in S => n + 1 \in S
  PROVE  \A n \in Nat : n \in S
<1> DEFINE T == Nat \ S
<1> SUFFICES ASSUME T # {} PROVE FALSE
  OBVIOUS
<1>1. PICK x \in T : \A y \in T : x <= y
  BY NatMin
<1>2. x # 0
  OBVIOUS
<1>3. x - 1 \in Nat /\ x - 1 < x
  BY <1>2
<1>4. x - 1 \in S
  BY <1>1, <1>3
<1>5. x - 1 + 1 \in S
  BY <1>3, <1>4
<1> QED
  BY <1>3, <1>5

\* f begins with `first` and goes on by the steps of G.
Recurs(f, S, n, first, G) ==
  /\ f \in [0 .. n -> S]
  /\ f[0] = first
  /\ \A i \in 1 .. n : f[i] = G[i][f[i - 1]]

\* There is a function that begins with `first` and follows G.
LEMMA RecursionExists ==
  ASSUME NEW S, NEW n \in Nat, NEW first \in S, NEW G \in [1 .. n -> [S -> S]]
  PROVE  \E f : Recurs(f, S, n, first, G)
<1> DEFINE Good(f, m) == f[0] = first /\ \A i \in 1 .. m : f[i] = G[i][f[i - 1]]
           P == {m \in Nat : m <= n => \E f \in [0 .. m -> S] : Good(f, m)}
<1>1. 0 \in P
  <2>1. [i \in 0 .. 0 |-> first] \in [0 .. 0 -> S]
    OBVIOUS
  <2>2. Good([i \in 0 .. 0 |-> first], 0)
    OBVIOUS
  <2>3. QED
    BY <2>1, <2>2
<1>2. ASSUME NEW m \in Nat, m \in P
      PROVE  m + 1 \in P
  <2>1. SUFFICES ASSUME m + 1 <= n
                 PROVE  \E f \in [0 .. m + 1 -> S] : Good(f, m + 1)
    OBVIOUS
  <2>2. PICK f \in [0 .. m -> S] : Good(f, m)
    BY <1>2, <2>1
  <2> DEFINE g == [i \in 0 .. m + 1 |-> IF i <= m THEN f[i] ELSE G[m + 1][f[m]]]
  <2>3. m + 1 \in 1 .. n /\ f[m] \in S
    BY <2>1
  <2>4. G[m + 1][f[m]] \in S
    BY <2>3
  <2>5. g \in [0 .. m + 1 -> S]
    BY <2>4
  <2>6. g[0] = first
    BY <2>2
  <2>7. ASSUME NEW i \in 1 .. m + 1
        PROVE  g[i] = G[i][g[i - 1]]
    <3>1. CASE i <= m
      BY <3>1, <2>2
    <3>2. CASE i = m + 1
      BY <3>2
    <3>3. QED
      BY <3>1, <3>2
  <2>8. Good(g, m + 1)
    BY <2>6, <2>7
  <2>9. QED
    BY <2>5, <2>8
<1>3. n \in P
  <2> HIDE DEF P
  <2>1. QED
    BY <1>1, <1>2, NatInduct
<1>4. QED
  BY <1>3 DEF Recurs

-----------------------------------------------------------------------------
(* Quotient and remainder.                                                 *)

\* Quotient and remainder.
LEMMA DivMod ==
  ASSUME NEW x \in Nat, NEW S \in Nat \ {0}
  PROVE  /\ x = (S * (x \div S)) + (x % S)
         /\ x % S \in 0 .. S - 1 /\ x \div S \in Nat
OBVIOUS

\* Quotient and remainder are determined.
LEMMA RemainderUnique ==
  ASSUME NEW S \in Nat \ {0}, NEW q \in Int, NEW p \in Int,
         NEW r \in 0 .. S - 1, NEW s \in 0 .. S - 1, (S * q) + r = (S * p) + s
  PROVE  q = p /\ r = s
<1>1. CASE q > p
  <2>1. S * (q - p) = s - r
    OBVIOUS
  <2>2. S * (q - p) >= S
    BY <1>1
  <2> QED
    BY <2>1, <2>2
<1>2. CASE q < p
  <2>1. S * (p - q) = r - s
    OBVIOUS
  <2>2. S * (p - q) >= S
    BY <1>2
  <2> QED
    BY <2>1, <2>2
<1>3. CASE q = p
  BY <1>3
<1> QED
  BY <1>1, <1>2, <1>3

LEMMA ZeroQuotient ==
  ASSUME NEW S \in Nat \ {0}
  PROVE  0 \div S = 0
<1>1. ASSUME NEW x \in Nat, x = 0 PROVE x \div S = 0
  <2> DEFINE q == x \div S
             r == x % S
  <2>1. x = (S * q) + r /\ r \in 0 .. S - 1 /\ q \in Int /\ x \in 0 .. S - 1 /\ x \in Int
    BY <1>1, DivMod
  <2> HIDE DEF q, r
  <2>2. (S * q) + r = (S * x) + x
    BY <1>1, <2>1
  <2>3. q = x
    BY <2>1, <2>2, RemainderUnique
  <2>4. QED
    BY <1>1, <2>3 DEF q
<1>2. QED
  BY <1>1

\* A step of one: the quotient grows where the remainder is 0.
LEMMA QuotientNext ==
  ASSUME NEW x \in Nat, NEW S \in Nat \ {0}
  PROVE  (x + 1) \div S = (x \div S) + (IF (x + 1) % S = 0 THEN 1 ELSE 0)
<1> DEFINE q == x \div S
           r == x % S
           y == x + 1
           p == y \div S
           t == y % S
<1>1. x = (S * q) + r /\ r \in 0 .. S - 1 /\ q \in Nat
  BY DivMod
<1>2. y \in Nat /\ y = (S * q) + (r + 1)
  BY <1>1
<1> HIDE DEF q, r, y
<1>3. y = (S * p) + t /\ t \in 0 .. S - 1 /\ p \in Nat
  BY <1>2, DivMod
<1> HIDE DEF p, t
<1>4. p = q + (IF t = 0 THEN 1 ELSE 0)
  <2>1. CASE r + 1 < S
    <3> DEFINE u == r + 1
    <3>1. u \in 0 .. S - 1 /\ p \in Int /\ q \in Int /\ u # 0
      BY <1>1, <1>3, <2>1
    <3>2. (S * p) + t = (S * q) + u
      BY <1>2, <1>3
    <3> HIDE DEF u
    <3>3. p = q /\ t = u
      BY <1>3, <3>1, <3>2, RemainderUnique
    <3>4. QED
      BY <3>1, <3>3
  <2>2. CASE r + 1 >= S
    <3> DEFINE u == q + 1
               z == 0
    <3>1. r + 1 = S /\ z \in 0 .. S - 1 /\ p \in Int /\ u \in Int
      BY <1>1, <1>3, <2>2
    <3>2. S * u = (S * q) + S
      BY <1>1
    <3>3. (S * p) + t = (S * u) + z
      BY <1>1, <1>2, <1>3, <3>1, <3>2
    <3> HIDE DEF u, z
    <3>4. p = u /\ t = z
      BY <1>3, <3>1, <3>3, RemainderUnique
    <3>5. QED
      BY <3>4 DEF u, z
  <2>3. QED
    BY <1>1, <2>1, <2>2
<1>5. QED
  BY <1>4 DEF p, q, t, y

-----------------------------------------------------------------------------
(* Selections.                                                             *)

\* The recursive function of Selection.tla satisfies its definition.
LEMMA SelectedUpToIs ==
  ASSUME NEW X, NEW s \in Seq(X), NEW T
  PROVE  /\ SelectedUpTo(s, T) \in [0 .. Len(s) -> Seq(X)]
         /\ SelectedUpTo(s, T)[0] = << >>
         /\ \A i \in 1 .. Len(s) :
              SelectedUpTo(s, T)[i] = IF s[i] \in T
                                      THEN Append(SelectedUpTo(s, T)[i - 1], s[i])
                                      ELSE SelectedUpTo(s, T)[i - 1]
<1> DEFINE G == [i \in 1 .. Len(s) |-> [r \in Seq(X) |->
                    IF s[i] \in T THEN Append(r, s[i]) ELSE r]]
           F(f) == [n \in 0 .. Len(s) |->
                      IF n = 0 THEN << >>
                      ELSE IF s[n] \in T THEN Append(f[n - 1], s[n]) ELSE f[n - 1]]
<1>1. G \in [1 .. Len(s) -> [Seq(X) -> Seq(X)]]
  OBVIOUS
<1>2. PICK f \in [0 .. Len(s) -> Seq(X)] :
        f[0] = << >> /\ \A i \in 1 .. Len(s) : f[i] = G[i][f[i - 1]]
  <2>1. << >> \in Seq(X) /\ Len(s) \in Nat
    OBVIOUS
  <2> HIDE DEF G
  <2>2. \E f : Recurs(f, Seq(X), Len(s), << >>, G)
    BY <1>1, <2>1, RecursionExists
  <2>3. QED
    BY <2>2 DEF Recurs
<1>3. f = F(f)
  <2>1. ASSUME NEW i \in 1 .. Len(s)
        PROVE  f[i] = IF s[i] \in T THEN Append(f[i - 1], s[i]) ELSE f[i - 1]
    <3>1. f[i] = G[i][f[i - 1]]
      BY <1>2
    <3>2. f[i - 1] \in Seq(X)
      OBVIOUS
    <3>3. QED
      BY <3>1, <3>2
  <2>2. DOMAIN f = 0 .. Len(s) /\ f = [n \in 0 .. Len(s) |-> f[n]]
    OBVIOUS
  <2>3. ASSUME NEW n \in 0 .. Len(s)
        PROVE  f[n] = IF n = 0 THEN << >>
                      ELSE IF s[n] \in T THEN Append(f[n - 1], s[n]) ELSE f[n - 1]
    <3>1. n = 0 \/ n \in 1 .. Len(s)
      OBVIOUS
    <3> HIDE DEF G
    <3>2. QED
      BY <1>2, <2>1, <3>1
  <2> HIDE DEF G
  <2>4. QED
    BY <2>2, <2>3
<1>4. SelectedUpTo(s, T) = F(SelectedUpTo(s, T))
  BY <1>3 DEF SelectedUpTo
<1> DEFINE g == SelectedUpTo(s, T)
           P == {i \in Nat : i <= Len(s) => g[i] \in Seq(X)}
<1>5. /\ DOMAIN g = 0 .. Len(s)
      /\ g[0] = << >>
      /\ \A i \in 1 .. Len(s) :
           g[i] = IF s[i] \in T THEN Append(g[i - 1], s[i]) ELSE g[i - 1]
  <2> HIDE DEF g
  <2>1. g = F(g)
    BY <1>4 DEF g
  <2>2. \A n \in 0 .. Len(s) :
          g[n] = IF n = 0 THEN << >>
                 ELSE IF s[n] \in T THEN Append(g[n - 1], s[n]) ELSE g[n - 1]
    BY <2>1
  <2>3. 0 \in 0 .. Len(s) /\ \A n \in 1 .. Len(s) : n \in 0 .. Len(s) /\ n # 0
    OBVIOUS
  <2>4. DOMAIN g = 0 .. Len(s)
    BY <2>1
  <2>5. g[0] = << >>
    BY <2>2, <2>3
  <2>6. QED
    BY <2>2, <2>3, <2>4, <2>5
<1>6. 0 \in P
  <2> HIDE DEF g
  <2>1. g[0] \in Seq(X)
    BY <1>5
  <2>2. QED
    BY <2>1
<1>7. ASSUME NEW i \in Nat, i \in P PROVE i + 1 \in P
  <2>1. SUFFICES ASSUME i + 1 <= Len(s) PROVE g[i + 1] \in Seq(X)
    OBVIOUS
  <2>2. i + 1 \in 1 .. Len(s) /\ s[i + 1] \in X /\ g[i] \in Seq(X)
    BY <1>7, <2>1
  <2> HIDE DEF g
  <2>3. g[i + 1] = IF s[i + 1] \in T THEN Append(g[i], s[i + 1]) ELSE g[i]
    BY <1>5, <2>2
  <2>4. QED
    BY <2>2, <2>3
<1>8. \A i \in Nat : i \in P
  <2> HIDE DEF P
  <2>1. QED
    BY <1>6, <1>7, NatInduct
<1>9. QED
  <2>1. \A i \in 0 .. Len(s) : g[i] \in Seq(X)
    BY <1>8
  <2> HIDE DEF g
  <2>2. g \in [0 .. Len(s) -> Seq(X)]
    <3>1. g = [i \in 0 .. Len(s) |-> g[i]]
      <4>1. g = F(g)
        BY <1>4 DEF g
      <4>2. QED
        BY <4>1
    <3>2. QED
      BY <2>1, <3>1
  <2>3. QED
    BY <1>5, <2>2 DEF g

\* The members of Append(s, x).
LEMMA AppendToSet ==
  ASSUME NEW X, NEW s \in Seq(X), NEW x \in X
  PROVE  ToSet(Append(s, x)) = ToSet(s) \cup {x}
<1>1. /\ Len(Append(s, x)) = Len(s) + 1 /\ Append(s, x)[Len(s) + 1] = x
      /\ \A i \in 1 .. Len(s) : Append(s, x)[i] = s[i]
      /\ DOMAIN Append(s, x) = 1 .. Len(s) + 1
  OBVIOUS
<1>2. ToSet(s) \cup {x} \subseteq ToSet(Append(s, x))
  BY <1>1 DEF ToSet
<1>3. ToSet(Append(s, x)) \subseteq ToSet(s) \cup {x}
  BY <1>1 DEF ToSet
<1>4. QED
  BY <1>2, <1>3

\* q consists of the members of s at the positions f, in increasing order.
Picks(f, q, s) ==
  /\ f \in [1 .. Len(q) -> 1 .. Len(s)]
  /\ \A i, j \in 1 .. Len(q) : i < j => f[i] < f[j]
  /\ \A i \in 1 .. Len(q) : q[i] = s[f[i]]

IsSubsequence(q, s) == \E f : Picks(f, q, s)

\* A set that has << >>, and each extension of its sequences, has them all.
LEMMA SeqInduct ==
  ASSUME NEW X, NEW P,
         << >> \in P,
         \A s \in Seq(X), x \in X : s \in P => Append(s, x) \in P
  PROVE  \A s \in Seq(X) : s \in P
<1> DEFINE Q == {n \in Nat : \A s \in Seq(X) : Len(s) = n => s \in P}
<1>1. 0 \in Q
  <2>1. \A s \in Seq(X) : Len(s) = 0 => s = << >>
    OBVIOUS
  <2>2. QED
    BY <2>1
<1>2. ASSUME NEW n \in Nat, n \in Q PROVE n + 1 \in Q
  <2>1. SUFFICES ASSUME NEW s \in Seq(X), Len(s) = n + 1 PROVE s \in P
    OBVIOUS
  <2> DEFINE t == SubSeq(s, 1, n)
  <2>2. t \in Seq(X) /\ Len(t) = n /\ s[n + 1] \in X
    BY <2>1
  <2>3. Append(t, s[n + 1]) = s
    BY <2>1
  <2>4. t \in P
    BY <1>2, <2>2
  <2> HIDE DEF t
  <2>5. QED
    BY <2>2, <2>3, <2>4
<1>3. \A n \in Nat : n \in Q
  <2> HIDE DEF Q
  <2>1. QED
    BY <1>1, <1>2, NatInduct
<1>4. QED
  <2>1. SUFFICES ASSUME NEW s \in Seq(X) PROVE s \in P
    OBVIOUS
  <2>2. Len(s) \in Q
    BY <1>3
  <2>3. QED
    BY <2>2

\* A selection of members of X is a sequence of members of X.
LEMMA SelectedTyped ==
  ASSUME NEW X, NEW s \in Seq(X), NEW T
  PROVE  Selected(s, T) \in Seq(X)
<1>1. Len(s) \in 0 .. Len(s)
  OBVIOUS
<1>2. QED
  BY <1>1, SelectedUpToIs DEF Selected

\* Nothing is selected of nothing.
LEMMA SelectedEmpty == \A T : Selected(<< >>, T) = << >>
<1>1. SUFFICES ASSUME NEW T PROVE SelectedUpTo(<< >>, T)[0] = << >>
  BY DEF Selected
<1> DEFINE s == << >>
<1>2. s \in Seq({})
  OBVIOUS
<1> HIDE DEF s
<1>3. SelectedUpTo(s, T)[0] = << >>
  BY <1>2, SelectedUpToIs
<1>4. QED
  BY <1>3 DEF s

\* A new last member is selected when it is in the set.
LEMMA SelectedAppend ==
  ASSUME NEW X, NEW s \in Seq(X), NEW x \in X, NEW T
  PROVE  Selected(Append(s, x), T) = IF x \in T THEN Append(Selected(s, T), x)
                                                ELSE Selected(s, T)
<1> DEFINE t == Append(s, x)
           P == {n \in Nat : n <= Len(s) => SelectedUpTo(t, T)[n] = SelectedUpTo(s, T)[n]}
<1>1. /\ t \in Seq(X) /\ Len(t) = Len(s) + 1 /\ t[Len(s) + 1] = x
      /\ \A i \in 1 .. Len(s) : t[i] = s[i]
  OBVIOUS
<1> HIDE DEF t
<1>2. 0 \in P
  BY <1>1, SelectedUpToIs
<1>3. ASSUME NEW n \in Nat, n \in P PROVE n + 1 \in P
  <2>1. SUFFICES ASSUME n + 1 <= Len(s)
                 PROVE  SelectedUpTo(t, T)[n + 1] = SelectedUpTo(s, T)[n + 1]
    OBVIOUS
  <2>2. n + 1 \in 1 .. Len(s) /\ n + 1 \in 1 .. Len(t) /\ (n + 1) - 1 = n
    BY <1>1, <2>1
  <2>3. SelectedUpTo(t, T)[n] = SelectedUpTo(s, T)[n]
    BY <1>3, <2>1
  <2>4. t[n + 1] = s[n + 1]
    BY <1>1, <2>2
  <2>5. QED
    BY <1>1, <2>2, <2>3, <2>4, SelectedUpToIs
<1>4. Len(s) \in P
  <2>1. Len(s) \in Nat
    OBVIOUS
  <2> HIDE DEF P
  <2>2. QED
    BY <1>2, <1>3, <2>1, NatInduct
<1>5. SelectedUpTo(t, T)[Len(s)] = Selected(s, T)
  BY <1>4 DEF Selected
<1>6. Len(t) \in 1 .. Len(t) /\ Len(t) - 1 = Len(s)
  BY <1>1
<1>7. Selected(t, T) = IF x \in T THEN Append(Selected(s, T), x) ELSE Selected(s, T)
  BY <1>1, <1>5, <1>6, SelectedUpToIs DEF Selected
<1>8. QED
  BY <1>7 DEF t

\* A selection of a concatenation is the concatenation of selections.
LEMMA SelectedConcat ==
  ASSUME NEW X, NEW s \in Seq(X), NEW T
  PROVE  \A t \in Seq(X) : Selected(s \o t, T) = Selected(s, T) \o Selected(t, T)
<1> DEFINE P == {t \in Seq(X) : Selected(s \o t, T) = Selected(s, T) \o Selected(t, T)}
<1>1. << >> \in P
  BY SelectedEmpty, SelectedTyped, ConcatEmptySeq
<1>2. ASSUME NEW t \in Seq(X), NEW x \in X, t \in P
      PROVE  Append(t, x) \in P
  <2> DEFINE u == s \o t
             v == Append(t, x)
  <2>1. u \in Seq(X) /\ v \in Seq(X) /\ s \o v = Append(u, x)
    OBVIOUS
  <2>2. Selected(u, T) = Selected(s, T) \o Selected(t, T)
    BY <1>2
  <2>3. Selected(v, T) = IF x \in T THEN Append(Selected(t, T), x) ELSE Selected(t, T)
    BY SelectedAppend
  <2> HIDE DEF u, v
  <2>4. Selected(Append(u, x), T) =
          IF x \in T THEN Append(Selected(u, T), x) ELSE Selected(u, T)
    BY <2>1, SelectedAppend
  <2>5. Selected(s, T) \in Seq(X) /\ Selected(t, T) \in Seq(X)
    BY SelectedTyped
  <2>6. Selected(s \o v, T) = Selected(s, T) \o Selected(v, T)
    <3>1. Append(Selected(s, T) \o Selected(t, T), x)
            = Selected(s, T) \o Append(Selected(t, T), x)
      <4> DEFINE a == Selected(s, T)
                 b == Selected(t, T)
      <4>1. a \in Seq(X) /\ b \in Seq(X)
        BY <2>5
      <4> HIDE DEF a, b, P
      <4>2. Append(a \o b, x) = a \o Append(b, x)
        <5>1. <<x>> \in Seq(X)
          OBVIOUS
        <5>2. Append(a \o b, x) = (a \o b) \o <<x>> /\ Append(b, x) = b \o <<x>>
          BY <4>1, AppendIsConcat
        <5>3. (a \o b) \o <<x>> = a \o (b \o <<x>>)
          BY <4>1, <5>1, ConcatAssociative
        <5>4. QED
          BY ONLY <5>2, <5>3
      <4>3. QED
        BY <4>2 DEF a, b
    <3>2. CASE x \in T
      BY <2>1, <2>2, <2>3, <2>4, <3>1, <3>2
    <3>3. CASE x \notin T
      BY <2>1, <2>2, <2>3, <2>4, <3>3
    <3>4. QED
      BY <3>2, <3>3
  <2>7. v \in P
    BY <2>1, <2>6
  <2>8. QED
    BY <2>7 DEF v
<1>3. \A t \in Seq(X) : t \in P
  <2> HIDE DEF P
  <2>1. QED
    BY <1>1, <1>2, SeqInduct
<1>4. QED
  BY <1>3

\* All members are selected, when all are in the set.
LEMMA SelectedAll ==
  ASSUME NEW T
  PROVE  \A s \in Seq(T) : Selected(s, T) = s
<1> DEFINE P == {s \in Seq(T) : Selected(s, T) = s}
<1>1. << >> \in P
  BY SelectedEmpty
<1>2. ASSUME NEW s \in Seq(T), NEW x \in T, s \in P PROVE Append(s, x) \in P
  <2>1. Append(s, x) \in Seq(T) /\ Selected(s, T) = s
    BY <1>2
  <2>2. Selected(Append(s, x), T) = Append(s, x)
    BY <2>1, SelectedAppend
  <2>3. QED
    BY <2>1, <2>2
<1>3. \A s \in Seq(T) : s \in P
  <2> HIDE DEF P
  <2>1. QED
    BY <1>1, <1>2, SeqInduct
<1>4. QED
  BY <1>3

\* Nothing is selected, when nothing is in the set.
LEMMA SelectedNone ==
  ASSUME NEW X, NEW T, X \cap T = {}
  PROVE  \A s \in Seq(X) : Selected(s, T) = << >>
<1> DEFINE P == {s \in Seq(X) : Selected(s, T) = << >>}
<1>1. << >> \in P
  BY SelectedEmpty
<1>2. ASSUME NEW s \in Seq(X), NEW x \in X, s \in P PROVE Append(s, x) \in P
  <2>1. Append(s, x) \in Seq(X) /\ Selected(s, T) = << >> /\ x \notin T
    BY <1>2
  <2>2. Selected(Append(s, x), T) = << >>
    BY <2>1, SelectedAppend
  <2>3. QED
    BY <2>1, <2>2
<1>3. \A s \in Seq(X) : s \in P
  <2> HIDE DEF P
  <2>1. QED
    BY <1>1, <1>2, SeqInduct
<1>4. QED
  BY <1>3

\* A selection contains the members that are in the set.
LEMMA SelectedRange ==
  ASSUME NEW X, NEW T
  PROVE  \A s \in Seq(X) : ToSet(Selected(s, T)) = ToSet(s) \cap T
<1> DEFINE P == {s \in Seq(X) : ToSet(Selected(s, T)) = ToSet(s) \cap T}
<1>1. << >> \in P
  BY SelectedEmpty DEF ToSet
<1>2. ASSUME NEW s \in Seq(X), NEW x \in X, s \in P
      PROVE  Append(s, x) \in P
  <2>1. Append(s, x) \in Seq(X) /\ Selected(s, T) \in Seq(X)
    BY SelectedTyped
  <2>2. \A r \in Seq(X) : ToSet(Append(r, x)) = ToSet(r) \cup {x}
    BY AppendToSet
  <2>3. Selected(Append(s, x), T) = IF x \in T THEN Append(Selected(s, T), x)
                                    ELSE Selected(s, T)
    BY SelectedAppend
  <2>4. ToSet(Selected(s, T)) = ToSet(s) \cap T
    BY <1>2
  <2>5. ToSet(Selected(Append(s, x), T)) = ToSet(Append(s, x)) \cap T
    <3>1. CASE x \in T
      BY <2>1, <2>2, <2>3, <2>4, <3>1
    <3>2. CASE x \notin T
      BY <2>1, <2>2, <2>3, <2>4, <3>2
    <3>3. QED
      BY <3>1, <3>2
  <2>6. QED
    BY <2>1, <2>5
<1>3. \A s \in Seq(X) : s \in P
  <2> HIDE DEF P
  <2>1. QED
    BY <1>1, <1>2, SeqInduct
<1>4. QED
  BY <1>3

\* A selection keeps the order.
LEMMA SelectedIsSubsequence ==
  ASSUME NEW X, NEW T
  PROVE  \A s \in Seq(X) : IsSubsequence(Selected(s, T), s)
<1> DEFINE P == {s \in Seq(X) : IsSubsequence(Selected(s, T), s)}
<1>1. << >> \in P
  <2>1. IsSubsequence(<< >>, << >>)
    <3> DEFINE f == [i \in 1 .. 0 |-> 1]
    <3>1. Picks(f, << >>, << >>)
      BY DEF Picks
    <3>2. QED
      BY <3>1 DEF IsSubsequence
  <2>2. QED
    BY <2>1, SelectedEmpty
<1>2. ASSUME NEW s \in Seq(X), NEW x \in X, s \in P
      PROVE  Append(s, x) \in P
  <2> DEFINE q == Selected(s, T)
             t == Append(s, x)
  <2>1. PICK f : Picks(f, q, s)
    BY <1>2 DEF IsSubsequence
  <2>2. /\ q \in Seq(X) /\ t \in Seq(X)
        /\ Len(t) = Len(s) + 1 /\ t[Len(s) + 1] = x
        /\ \A i \in 1 .. Len(s) : t[i] = s[i]
    BY SelectedTyped
  <2>3. Selected(t, T) = IF x \in T THEN Append(q, x) ELSE q
    BY SelectedAppend
  <2> HIDE DEF q, t
  <2>4. CASE x \in T
    <3> DEFINE g == [i \in 1 .. Len(q) + 1 |-> IF i <= Len(q) THEN f[i] ELSE Len(s) + 1]
               r == Append(q, x)
    <3>1. /\ Len(r) = Len(q) + 1 /\ r[Len(q) + 1] = x
          /\ \A i \in 1 .. Len(q) : r[i] = q[i]
      BY <2>2
    <3> HIDE DEF r
    <3>2. g \in [1 .. Len(r) -> 1 .. Len(t)]
      BY <2>1, <2>2, <3>1 DEF Picks
    <3>3. ASSUME NEW i \in 1 .. Len(r), NEW j \in 1 .. Len(r), i < j
          PROVE  g[i] < g[j]
      BY <2>1, <2>2, <3>1, <3>3 DEF Picks
    <3>4. ASSUME NEW i \in 1 .. Len(r)
          PROVE  r[i] = t[g[i]]
      <4>1. CASE i <= Len(q)
        <5>1. i \in 1 .. Len(q) /\ g[i] = f[i] /\ f[i] \in 1 .. Len(s)
          <6>1. i \in 1 .. Len(q)
            BY <2>2, <3>1, <4>1
          <6>2. f[i] \in 1 .. Len(s)
            BY <2>1, <6>1 DEF Picks
          <6>3. g[i] = f[i]
            BY <6>1
          <6>4. QED
            BY <6>1, <6>2, <6>3
        <5>2. r[i] = q[i] /\ q[i] = s[f[i]] /\ t[f[i]] = s[f[i]]
          BY <2>1, <2>2, <3>1, <5>1 DEF Picks
        <5>3. QED
          BY <5>1, <5>2
      <4>2. CASE i = Len(q) + 1
        BY <2>2, <3>1, <4>2
      <4>3. QED
        BY <2>2, <3>1, <4>1, <4>2
    <3> HIDE DEF g
    <3>5. Picks(g, r, t)
      BY <3>2, <3>3, <3>4 DEF Picks
    <3>6. QED
      BY <2>2, <2>3, <2>4, <3>5 DEF IsSubsequence, r, t
  <2>5. CASE x \notin T
    <3>1. \A i \in 1 .. Len(q) : f[i] \in 1 .. Len(s) /\ q[i] = s[f[i]]
      BY <2>1 DEF Picks
    <3>2. \A i \in 1 .. Len(q) : q[i] = t[f[i]]
      BY <2>2, <3>1
    <3>3. f \in [1 .. Len(q) -> 1 .. Len(t)]
      BY <2>1, <2>2, <3>1 DEF Picks
    <3>4. Picks(f, q, t)
      BY <2>1, <3>2, <3>3 DEF Picks
    <3>5. QED
      BY <2>2, <2>3, <2>5, <3>4 DEF IsSubsequence, t
  <2>6. QED
    BY <2>4, <2>5
<1>3. \A s \in Seq(X) : s \in P
  <2> HIDE DEF P
  <2>1. QED
    BY <1>1, <1>2, SeqInduct
<1>4. QED
  BY <1>3

-----------------------------------------------------------------------------
(* Joining sequences.                                                      *)

\* g[i] is the concatenation of the first i members of ss.
Joins(g, ss, X) ==
  /\ g \in [0 .. Len(ss) -> Seq(X)]
  /\ g[0] = << >>
  /\ \A i \in 1 .. Len(ss) : g[i] = g[i - 1] \o ss[i]

\* FlattenSeq joins the sequences one after the other.
LEMMA FlattenJoins ==
  ASSUME NEW X, NEW ss \in Seq(Seq(X))
  PROVE  \E g : Joins(g, ss, X) /\ FlattenSeq(ss) = g[Len(ss)]
<1> DEFINE G == [i \in 1 .. Len(ss) |-> [r \in Seq(X) |-> r \o ss[i]]]
           F(f) == [i \in 1 .. Len(ss) |-> IF i = 1 THEN ss[i] ELSE f[i - 1] \o ss[i]]
           flat == CHOOSE f : f = F(f)
<1>1. \A i \in 1 .. Len(ss) : ss[i] \in Seq(X)
  OBVIOUS
<1>2. PICK g \in [0 .. Len(ss) -> Seq(X)] :
        g[0] = << >> /\ \A i \in 1 .. Len(ss) : g[i] = g[i - 1] \o ss[i]
  <2>1. G \in [1 .. Len(ss) -> [Seq(X) -> Seq(X)]]
    BY <1>1
  <2>2. << >> \in Seq(X) /\ Len(ss) \in Nat
    OBVIOUS
  <2>3. \A i \in 1 .. Len(ss), r \in Seq(X) : G[i][r] = r \o ss[i]
    OBVIOUS
  <2> HIDE DEF G
  <2>4. PICK f : Recurs(f, Seq(X), Len(ss), << >>, G)
    BY <2>1, <2>2, RecursionExists
  <2>5. ASSUME NEW i \in 1 .. Len(ss) PROVE f[i - 1] \in Seq(X)
    <3>1. i - 1 \in 0 .. Len(ss)
      OBVIOUS
    <3>2. QED
      BY <2>4, <3>1 DEF Recurs
  <2>6. QED
    BY <2>3, <2>4, <2>5 DEF Recurs
<1>3. flat = F(flat)
  <2> DEFINE f == [i \in 1 .. Len(ss) |-> g[i]]
  <2>1. ASSUME NEW i \in 1 .. Len(ss)
        PROVE  g[i] = IF i = 1 THEN ss[i] ELSE f[i - 1] \o ss[i]
    <3>1. CASE i = 1
      <4>1. i - 1 = 0 /\ g[i] = g[i - 1] \o ss[i] /\ g[0] = << >>
        <5>1. i - 1 = 0
          BY <3>1
        <5>2. g[i] = g[i - 1] \o ss[i]
          BY <1>2
        <5>3. QED
          BY <1>2, <5>1, <5>2
      <4>2. g[i] = << >> \o ss[i]
        BY ONLY <4>1
      <4>3. << >> \o ss[i] = ss[i]
        BY <1>1, ConcatEmptySeq
      <4>4. QED
        BY <3>1, <4>2, <4>3
    <3>2. CASE i # 1
      <4>1. i - 1 \in 1 .. Len(ss)
        BY <3>2
      <4>2. f[i - 1] = g[i - 1]
        BY <4>1
      <4>3. QED
        BY <1>2, <3>2, <4>2
    <3>3. QED
      BY <3>1, <3>2
  <2>2. f = F(f)
    BY <2>1
  <2>3. QED
    BY <2>2
<1>4. FlattenSeq(ss) = IF Len(ss) = 0 THEN ss ELSE flat[Len(ss)]
  BY DEF FlattenSeq
<1>5. \A i \in 1 .. Len(ss) : flat[i] = IF i = 1 THEN ss[i] ELSE flat[i - 1] \o ss[i]
  <2> HIDE DEF flat
  <2>1. QED
    BY <1>3
<1> DEFINE P == {i \in Nat : 1 <= i /\ i <= Len(ss) => flat[i] = g[i]}
<1> HIDE DEF flat
<1>6. 0 \in P
  OBVIOUS
<1>7. ASSUME NEW i \in Nat, i \in P PROVE i + 1 \in P
  <2>1. SUFFICES ASSUME i + 1 <= Len(ss) PROVE flat[i + 1] = g[i + 1]
    OBVIOUS
  <2>2. i + 1 \in 1 .. Len(ss) /\ (i + 1) - 1 = i
    BY <2>1
  <2>3. g[i + 1] = g[i] \o ss[i + 1]
    BY <1>2, <2>2
  <2>4. CASE i = 0
    <3>1. flat[i + 1] = ss[i + 1]
      BY <1>5, <2>2, <2>4
    <3>2. g[i + 1] = << >> \o ss[i + 1]
      BY <1>2, <2>3, <2>4
    <3>3. QED
      BY <1>1, <2>2, <3>1, <3>2, ConcatEmptySeq
  <2>5. CASE i # 0
    <3>1. flat[i + 1] = flat[i] \o ss[i + 1]
      <4>1. i + 1 # 1
        BY <2>5
      <4>2. flat[i + 1] = flat[(i + 1) - 1] \o ss[i + 1]
        BY <1>5, <2>2, <4>1
      <4>3. QED
        BY ONLY <2>2, <4>2
    <3>2. flat[i] = g[i]
      BY <1>7, <2>1, <2>5
    <3>3. QED
      BY <2>3, <3>1, <3>2
  <2>6. QED
    BY <2>4, <2>5
<1>8. \A i \in Nat : i \in P
  <2> HIDE DEF P
  <2>1. QED
    BY <1>6, <1>7, NatInduct
<1>9. FlattenSeq(ss) = g[Len(ss)]
  <2>1. CASE Len(ss) = 0
    <3>1. ss = << >>
      BY <2>1
    <3>2. QED
      BY <1>2, <1>4, <2>1, <3>1
  <2>2. CASE Len(ss) # 0
    <3>1. Len(ss) \in P
      BY <1>8
    <3>2. flat[Len(ss)] = g[Len(ss)]
      BY <2>2, <3>1
    <3>3. QED
      BY <1>4, <2>2, <3>2
  <2>3. QED
    BY <2>1, <2>2
<1>10. QED
  BY <1>2, <1>9 DEF Joins

-----------------------------------------------------------------------------
(* Members and their order.                                                *)

\* x stands before y in s.
Before(s, x, y) == \E i, j \in DOMAIN s : i < j /\ s[i] = x /\ s[j] = y

\* The members of a concatenation.
LEMMA ToSetConcat ==
  ASSUME NEW X, NEW s \in Seq(X), NEW t \in Seq(X)
  PROVE  ToSet(s \o t) = ToSet(s) \cup ToSet(t)
<1>1. Range(s \o t) = Range(s) \cup Range(t)
  BY RangeConcatenation
<1>2. \A f : Range(f) = ToSet(f)
  BY DEF Range, ToSet
<1>3. QED
  BY ONLY <1>1, <1>2

\* The members of the shortest sequences.
LEMMA ToSetSingle == \A x : ToSet(<<x>>) = {x} /\ ToSet(<< >>) = {}
BY DEF ToSet

\* In the shortest sequences nothing comes before anything.
LEMMA BeforeNothing == \A x, y, z : ~ Before(<< >>, x, y) /\ ~ Before(<<z>>, x, y)
BY DEF Before

\* What stands before something is in the sequence, and so is the latter.
LEMMA BeforeIsIn == \A s, x, y : Before(s, x, y) => x \in ToSet(s) /\ y \in ToSet(s)
BY DEF Before, ToSet

\* What comes before what in a concatenation.
LEMMA BeforeConcat ==
  ASSUME NEW X, NEW s \in Seq(X), NEW t \in Seq(X), NEW x, NEW y
  PROVE  Before(s \o t, x, y) <=> \/ Before(s, x, y) \/ Before(t, x, y)
                                  \/ x \in ToSet(s) /\ y \in ToSet(t)
<1> DEFINE u == s \o t
<1>1. /\ DOMAIN u = 1 .. Len(s) + Len(t)
      /\ \A i \in 1 .. Len(s) : u[i] = s[i]
      /\ \A i \in 1 .. Len(t) : u[Len(s) + i] = t[i]
      /\ DOMAIN s = 1 .. Len(s) /\ DOMAIN t = 1 .. Len(t)
  OBVIOUS
<1> HIDE DEF u
<1>2. ASSUME Before(s, x, y) PROVE Before(u, x, y)
  BY <1>1, <1>2 DEF Before
<1>3. ASSUME Before(t, x, y) PROVE Before(u, x, y)
  <2>1. PICK i, j \in 1 .. Len(t) : i < j /\ t[i] = x /\ t[j] = y
    BY <1>1, <1>3 DEF Before
  <2>2. /\ Len(s) + i \in DOMAIN u /\ Len(s) + j \in DOMAIN u
        /\ Len(s) + i < Len(s) + j
    BY <1>1, <2>1
  <2>3. QED
    BY <1>1, <2>1, <2>2 DEF Before
<1>4. ASSUME x \in ToSet(s), y \in ToSet(t) PROVE Before(u, x, y)
  <2>1. PICK i \in 1 .. Len(s) : s[i] = x
    BY <1>1, <1>4 DEF ToSet
  <2>2. PICK j \in 1 .. Len(t) : t[j] = y
    BY <1>1, <1>4 DEF ToSet
  <2>3. i \in DOMAIN u /\ Len(s) + j \in DOMAIN u /\ i < Len(s) + j
    BY <1>1
  <2>4. QED
    BY <1>1, <2>1, <2>2, <2>3 DEF Before
<1>5. ASSUME Before(u, x, y)
      PROVE  \/ Before(s, x, y) \/ Before(t, x, y)
             \/ x \in ToSet(s) /\ y \in ToSet(t)
  <2>1. PICK i, j \in DOMAIN u : i < j /\ u[i] = x /\ u[j] = y
    BY <1>5 DEF Before
  <2>2. CASE j <= Len(s)
    <3>1. i \in DOMAIN s /\ j \in DOMAIN s /\ s[i] = x /\ s[j] = y
      BY <1>1, <2>1, <2>2
    <3>2. QED
      BY <2>1, <3>1 DEF Before
  <2>3. CASE i > Len(s)
    <3>1. /\ i - Len(s) \in DOMAIN t /\ j - Len(s) \in DOMAIN t
          /\ i - Len(s) < j - Len(s)
      BY <1>1, <2>1, <2>3
    <3>2. t[i - Len(s)] = x /\ t[j - Len(s)] = y
      BY <1>1, <2>1, <3>1
    <3>3. QED
      BY <3>1, <3>2 DEF Before
  <2>4. CASE i <= Len(s) /\ j > Len(s)
    <3>1. i \in DOMAIN s /\ s[i] = x /\ j - Len(s) \in DOMAIN t /\ t[j - Len(s)] = y
      BY <1>1, <2>1, <2>4
    <3>2. QED
      BY <3>1 DEF ToSet
  <2>5. QED
    BY <1>1, <2>1, <2>2, <2>3, <2>4
<1>6. QED
  BY <1>2, <1>3, <1>4, <1>5 DEF u

\* A sequence has no repetition when nothing stands before itself.
LEMMA InjectiveBefore ==
  ASSUME NEW X, NEW s \in Seq(X)
  PROVE  IsInjective(s) <=> \A x : ~ Before(s, x, x)
<1>1. DOMAIN s = 1 .. Len(s)
  OBVIOUS
<1>2. ASSUME IsInjective(s), NEW x, Before(s, x, x) PROVE FALSE
  BY <1>1, <1>2 DEF IsInjective, Before
<1>3. ASSUME \A x : ~ Before(s, x, x) PROVE IsInjective(s)
  <2>1. SUFFICES ASSUME NEW a \in DOMAIN s, NEW b \in DOMAIN s, s[a] = s[b], a # b
                 PROVE  FALSE
    BY DEF IsInjective
  <2>2. a < b \/ b < a
    BY <1>1, <2>1
  <2>3. Before(s, s[a], s[a])
    BY <2>1, <2>2 DEF Before
  <2>4. QED
    BY <1>3, <2>3
<1>4. QED
  BY <1>2, <1>3

\* A subsequence has the order of the sequence.
LEMMA BeforeInSubsequence ==
  ASSUME NEW q, NEW s, IsSubsequence(q, s), NEW x, NEW y, Before(q, x, y),
         DOMAIN q = 1 .. Len(q), DOMAIN s = 1 .. Len(s)
  PROVE  Before(s, x, y)
<1>1. PICK f : Picks(f, q, s)
  BY DEF IsSubsequence
<1>2. PICK i, j \in 1 .. Len(q) : i < j /\ q[i] = x /\ q[j] = y
  BY DEF Before
<1>3. f[i] \in DOMAIN s /\ f[j] \in DOMAIN s /\ f[i] < f[j] /\ s[f[i]] = x /\ s[f[j]] = y
  BY <1>1, <1>2 DEF Picks
<1>4. QED
  BY <1>3 DEF Before

\* x comes before y in the concatenation of the first n members of ss.
BeforeIn(ss, n, x, y) ==
  \/ \E k \in 1 .. n : Before(ss[k], x, y)
  \/ \E k, l \in 1 .. n : k < l /\ x \in ToSet(ss[k]) /\ y \in ToSet(ss[l])

\* The members and the order of a flattened sequence.
LEMMA FlattenProperties ==
  ASSUME NEW X, NEW ss \in Seq(Seq(X))
  PROVE  /\ FlattenSeq(ss) \in Seq(X)
         /\ \A x : x \in ToSet(FlattenSeq(ss)) <=>
                     \E k \in 1 .. Len(ss) : x \in ToSet(ss[k])
         /\ \A x, y : Before(FlattenSeq(ss), x, y) => BeforeIn(ss, Len(ss), x, y)
<1>1. PICK g : Joins(g, ss, X) /\ FlattenSeq(ss) = g[Len(ss)]
  BY FlattenJoins
<1>2. /\ \A i \in 0 .. Len(ss) : g[i] \in Seq(X)
      /\ g[0] = << >>
      /\ \A i \in 1 .. Len(ss) : g[i] = g[i - 1] \o ss[i] /\ ss[i] \in Seq(X)
  <2>1. \A i \in 1 .. Len(ss) : ss[i] \in Seq(X)
    OBVIOUS
  <2>2. \A i \in 0 .. Len(ss) : g[i] \in Seq(X)
    BY <1>1 DEF Joins
  <2>3. g[0] = << >> /\ \A i \in 1 .. Len(ss) : g[i] = g[i - 1] \o ss[i]
    BY <1>1 DEF Joins
  <2>4. QED
    BY ONLY <2>1, <2>2, <2>3
<1> DEFINE Same(i) == \A x : x \in ToSet(g[i]) <=> \E k \in 1 .. i : x \in ToSet(ss[k])
           Ordered(i) == \A x, y : Before(g[i], x, y) => BeforeIn(ss, i, x, y)
           P == {i \in Nat : i <= Len(ss) => Same(i) /\ Ordered(i)}
<1>3. 0 \in P
  <2>1. ToSet(g[0]) = {} /\ \A x, y : ~ Before(g[0], x, y)
    BY <1>2, ToSetSingle, BeforeNothing
  <2>2. 1 .. 0 = {}
    OBVIOUS
  <2>3. Same(0) /\ Ordered(0)
    BY ONLY <2>1, <2>2
  <2>4. QED
    BY <2>3
<1>4. ASSUME NEW i \in Nat, i \in P PROVE i + 1 \in P
  <2>1. SUFFICES ASSUME i + 1 <= Len(ss) PROVE Same(i + 1) /\ Ordered(i + 1)
    OBVIOUS
  <2>2. Same(i) /\ Ordered(i)
    BY <1>4, <2>1
  <2>3. i + 1 \in 1 .. Len(ss) /\ i \in 0 .. Len(ss) /\ (i + 1) - 1 = i
    BY <2>1
  <2> DEFINE s == g[i]
             t == ss[i + 1]
  <2>4. g[i + 1] = s \o t /\ s \in Seq(X) /\ t \in Seq(X)
    BY <1>2, <2>3
  <2>5. /\ ToSet(g[i + 1]) = ToSet(s) \cup ToSet(t)
        /\ \A x, y : Before(g[i + 1], x, y) =>
             \/ Before(s, x, y) \/ Before(t, x, y)
             \/ x \in ToSet(s) /\ y \in ToSet(t)
    <3> HIDE DEF s, t
    <3>1. QED
      BY <2>4, ToSetConcat, BeforeConcat
  <2>6. /\ 1 .. i + 1 = (1 .. i) \cup {i + 1} /\ i + 1 \in 1 .. i + 1
        /\ \A k \in 1 .. i : k < i + 1
    OBVIOUS
  <2>7. Same(i + 1)
    BY <2>2, <2>5, <2>6
  <2>8. Ordered(i + 1)
    BY <2>2, <2>5, <2>6 DEF BeforeIn
  <2>9. QED
    BY <2>7, <2>8
<1>5. Len(ss) \in P
  <2>1. Len(ss) \in Nat
    OBVIOUS
  <2> HIDE DEF P
  <2>2. QED
    BY <1>3, <1>4, <2>1, NatInduct
<1>6. QED
  BY <1>1, <1>2, <1>5

\* The order in Append(s, z).
LEMMA BeforeAppend ==
  ASSUME NEW X, NEW s \in Seq(X), NEW z \in X
  PROVE  \A x, y : Before(Append(s, z), x, y) <=>
                     Before(s, x, y) \/ (x \in ToSet(s) /\ y = z)
<1>1. Append(s, z) = s \o <<z>> /\ <<z>> \in Seq(X)
  BY AppendIsConcat
<1>2. SUFFICES ASSUME NEW x, NEW y
               PROVE  Before(s \o <<z>>, x, y) <=>
                        Before(s, x, y) \/ (x \in ToSet(s) /\ y = z)
  BY <1>1
<1>3. Before(s \o <<z>>, x, y) <=> \/ Before(s, x, y) \/ Before(<<z>>, x, y)
                                   \/ x \in ToSet(s) /\ y \in ToSet(<<z>>)
  BY <1>1, BeforeConcat
<1>4. QED
  BY ONLY <1>3, BeforeNothing, ToSetSingle

\* The first member comes before all the others.
LEMMA HeadAndTail ==
  ASSUME NEW X, NEW s \in Seq(X), s # << >>
  PROVE  /\ Head(s) \in X /\ Tail(s) \in Seq(X) /\ Len(Tail(s)) = Len(s) - 1
         /\ ToSet(s) = {Head(s)} \cup ToSet(Tail(s))
         /\ \A x, y : Before(s, x, y) <=>
                        Before(Tail(s), x, y) \/ (x = Head(s) /\ y \in ToSet(Tail(s)))
<1> DEFINE h == Head(s)
           t == Tail(s)
<1>1. h \in X /\ t \in Seq(X) /\ Len(t) = Len(s) - 1 /\ <<h>> \in Seq(X)
  OBVIOUS
<1>2. s = <<h>> \o t
  OBVIOUS
<1> HIDE DEF h, t
<1>3. ToSet(s) = {h} \cup ToSet(t)
  <2>1. ToSet(<<h>> \o t) = ToSet(<<h>>) \cup ToSet(t)
    BY <1>1, ToSetConcat
  <2>2. QED
    BY ONLY <1>2, <2>1, ToSetSingle
<1>4. ASSUME NEW x, NEW y
      PROVE  Before(s, x, y) <=> Before(t, x, y) \/ (x = h /\ y \in ToSet(t))
  <2>1. Before(<<h>> \o t, x, y) <=> \/ Before(<<h>>, x, y) \/ Before(t, x, y)
                                     \/ x \in ToSet(<<h>>) /\ y \in ToSet(t)
    BY <1>1, BeforeConcat
  <2>2. QED
    BY ONLY <1>2, <2>1, BeforeNothing, ToSetSingle
<1>5. QED
  BY <1>1, <1>3, <1>4 DEF h, t
=============================================================================
