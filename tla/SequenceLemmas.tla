--------------------------- MODULE SequenceLemmas ---------------------------
(***************************************************************************)
(* What FlattenSeq of the community modules gives: it is defined by a      *)
(* CHOOSE of the partial flattenings, which exist and are unique by        *)
(* induction on the length.  Induction is stated on a set (Induct), from   *)
(* the library's fact that every set of numbers has a least element.       *)
(***************************************************************************)
EXTENDS Integers, Sequences, SequencesExt, SequenceTheorems, WellFoundedInduction,
        TLAPS

\* A set that has 0 and with each number the next one has all of them.
LEMMA Induct ==
  ASSUME NEW S, 0 \in S, \A n \in Nat : n \in S => n + 1 \in S
  PROVE  Nat \subseteq S
<1> SUFFICES ASSUME Nat \ S # {} PROVE FALSE
  OBVIOUS
<1>1. PICK n \in Nat \ S : \A j \in Nat \ S : <<j, n>> \notin OpToRel(<, Nat)
  BY NatLessThanWellFounded, WFMin
<1>2. \A j \in Nat : j < n => j \in S
  BY <1>1 DEF OpToRel
<1>3. n \in Nat /\ n \notin S
  BY <1>1
<1>4. n # 0
  BY <1>3
<1>5. n - 1 \in Nat /\ n - 1 < n
  BY <1>3, <1>4, SMT
<1>6. n - 1 \in S
  BY <1>2, <1>5
<1>7. (n - 1) + 1 \in S
  BY <1>5, <1>6
<1>8. (n - 1) + 1 = n
  BY <1>3, SMT
<1> QED
  BY <1>3, <1>7, <1>8, Zenon

\* What a concatenation is made of.
LEMMA ToSetConcat ==
  ASSUME NEW T, NEW s \in Seq(T), NEW t \in Seq(T)
  PROVE  ToSet(s \o t) = ToSet(s) \cup ToSet(t)
<1>1. ToSet(s \o t) \subseteq ToSet(s) \cup ToSet(t)
  BY DEF ToSet
<1>2. ToSet(s) \subseteq ToSet(s \o t)
  BY DEF ToSet
<1>3. ToSet(t) \subseteq ToSet(s \o t)
  <2> SUFFICES ASSUME NEW i \in DOMAIN t PROVE t[i] \in ToSet(s \o t)
    BY DEF ToSet
  <2>1. Len(s) + i \in DOMAIN (s \o t) /\ (s \o t)[Len(s) + i] = t[i]
    OBVIOUS
  <2> QED BY <2>1, Zenon DEF ToSet
<1> QED BY <1>1, <1>2, <1>3

\* The partial flattenings of the first n of ss.
Joined(f, ss, n) ==
  f = [i \in 1 .. n |-> IF i = 1 THEN ss[1] ELSE f[i - 1] \o ss[i]]

\* A partial flattening is the one before it and one more element.
LEMMA JoinedAt ==
  ASSUME NEW f, NEW ss, NEW n \in Nat, Joined(f, ss, n), NEW i \in 1 .. n
  PROVE  f[i] = IF i = 1 THEN ss[1] ELSE f[i - 1] \o ss[i]
<1> DEFINE k == [j \in 1 .. n |-> IF j = 1 THEN ss[1] ELSE f[j - 1] \o ss[j]]
<1>1. f = k
  BY Zenon DEF Joined
<1>2. k[i] = IF i = 1 THEN ss[1] ELSE f[i - 1] \o ss[i]
  OBVIOUS
<1> HIDE DEF k
<1> QED BY <1>1, <1>2

\* The same past the first element.
LEMMA JoinedNext ==
  ASSUME NEW f, NEW ss, NEW n \in Nat, Joined(f, ss, n), NEW i \in 1 .. n, i # 1
  PROVE  f[i] = f[i - 1] \o ss[i]
BY JoinedAt

\* The partial flattenings exist, which the CHOOSE of FlattenSeq relies on.
LEMMA JoinedExists ==
  ASSUME NEW ss, NEW n \in Nat
  PROVE  \E f : Joined(f, ss, n)
<1> DEFINE S == {m \in Nat : \E f : Joined(f, ss, m)}
<1>1. 0 \in S
  <2>1. Joined([i \in {} |-> 0], ss, 0)
    BY DEF Joined
  <2> QED BY <2>1
<1>2. \A m \in Nat : m \in S => m + 1 \in S
  <2> SUFFICES ASSUME NEW m \in Nat, NEW f, Joined(f, ss, m)
               PROVE  \E g : Joined(g, ss, m + 1)
    OBVIOUS
  <2> DEFINE g == [i \in 1 .. m + 1 |->
                    IF i = 1 THEN ss[1]
                    ELSE IF i = m + 1 THEN f[m] \o ss[m + 1] ELSE f[i]]
  <2>1. ASSUME NEW i \in 1 .. m + 1, i # 1 PROVE g[i] = g[i - 1] \o ss[i]
    <3>0. m # 0 /\ i - 1 \in 1 .. m
      BY <2>1
    <3>1. f[1] = ss[1]
      BY <3>0, JoinedAt
    <3>2. g[i - 1] = f[i - 1]
      BY <3>0, <3>1
    <3>3. CASE i = m + 1
      <4>1. g[i] = f[m] \o ss[i]
        BY <2>1, <3>3
      <4>2. i - 1 = m
        BY <3>3
      <4> QED BY <3>2, <4>1, <4>2, Zenon
    <3>4. CASE i # m + 1
      <4>1. i \in 1 .. m
        BY <3>4
      <4>2. f[i] = f[i - 1] \o ss[i]
        BY <2>1, <4>1, JoinedNext, Zenon
      <4> QED BY <2>1, <3>2, <3>4, <4>2
    <3> QED BY <3>3, <3>4
  <2>2. g = [i \in 1 .. m + 1 |-> IF i = 1 THEN ss[1] ELSE g[i - 1] \o ss[i]]
    <3> DEFINE k == [i \in 1 .. m + 1 |-> IF i = 1 THEN ss[1] ELSE g[i - 1] \o ss[i]]
    <3>1. g[1] = ss[1] OBVIOUS
    <3>2. \A i \in 1 .. m + 1 : g[i] = k[i]
      <4> HIDE DEF g
      <4> QED BY <2>1, <3>1
    <3> QED BY <3>2
  <2> QED BY <2>2 DEF Joined
<1>3. Nat \subseteq S
  <2> HIDE DEF S
  <2> QED BY <1>1, <1>2, Induct
<1> QED BY <1>3

\* Partial flattenings of sequences that begin alike are the same.
LEMMA JoinedUnique ==
  ASSUME NEW ss, NEW tt, NEW f, NEW g, NEW n \in Nat, NEW m \in Nat, n <= m,
         Joined(f, ss, n), Joined(g, tt, m), \A i \in 1 .. n : ss[i] = tt[i]
  PROVE  \A i \in 1 .. n : f[i] = g[i]
<1> DEFINE S == {j \in Nat : j + 1 <= n => f[j + 1] = g[j + 1]}
<1>1. 0 \in S
  BY DEF Joined
<1>2. \A j \in Nat : j \in S => j + 1 \in S
  <2> SUFFICES ASSUME NEW j \in Nat, (j + 1) + 1 <= n, f[j + 1] = g[j + 1]
               PROVE  f[(j + 1) + 1] = g[(j + 1) + 1]
    OBVIOUS
  <2> DEFINE k == (j + 1) + 1
  <2>1. k \in 1 .. n /\ k \in 1 .. m /\ k # 1 /\ k - 1 = j + 1
    OBVIOUS
  <2>2. f[k] = f[k - 1] \o ss[k] /\ g[k] = g[k - 1] \o tt[k] /\ ss[k] = tt[k]
    BY <2>1 DEF Joined
  <2> QED BY <2>1, <2>2
<1>3. Nat \subseteq S
  <2> HIDE DEF S
  <2> QED BY <1>1, <1>2, Induct
<1>4. \A i \in 1 .. n : i - 1 \in Nat /\ (i - 1) + 1 = i
  OBVIOUS
<1> QED BY <1>3, <1>4

\* FlattenSeq is the last of the partial flattenings.
LEMMA FlattenIs ==
  ASSUME NEW ss, NEW f, Len(ss) \in Nat, Len(ss) # 0, Joined(f, ss, Len(ss))
  PROVE  FlattenSeq(ss) = f[Len(ss)]
<1> DEFINE Pieces == CHOOSE g : g = [i \in 1 .. Len(ss) |->
                                      IF i = 1 THEN ss[i] ELSE g[i - 1] \o ss[i]]
<1>1. \A g : Joined(g, ss, Len(ss)) <=>
        g = [i \in 1 .. Len(ss) |-> IF i = 1 THEN ss[i] ELSE g[i - 1] \o ss[i]]
  <2> SUFFICES ASSUME NEW g PROVE 
         [i \in 1 .. Len(ss) |-> IF i = 1 THEN ss[i] ELSE g[i - 1] \o ss[i]]
       = [i \in 1 .. Len(ss) |-> IF i = 1 THEN ss[1] ELSE g[i - 1] \o ss[i]]
    BY DEF Joined
  <2> QED OBVIOUS
<1>2. Joined(Pieces, ss, Len(ss))
  BY <1>1, Zenon
<1>3. FlattenSeq(ss) = Pieces[Len(ss)]
  BY DEF FlattenSeq
<1> HIDE DEF Pieces
<1>4. Pieces[Len(ss)] = f[Len(ss)]
  BY <1>2, JoinedUnique
<1> QED BY <1>3, <1>4

\* Nothing flattens to nothing.
LEMMA FlattenEmpty ==
  ASSUME NEW ss, Len(ss) = 0
  PROVE  FlattenSeq(ss) = ss
BY DEF FlattenSeq

\* One element more, when there is one already.
LEMMA FlattenStep ==
  ASSUME NEW ss, NEW tt, NEW p \in Nat, p # 0, Len(ss) = p + 1, Len(tt) = p,
         \A i \in 1 .. p : tt[i] = ss[i]
  PROVE  FlattenSeq(ss) = FlattenSeq(tt) \o ss[p + 1]
<1> DEFINE n == p + 1
<1>1. n \in Nat /\ p <= n /\ p \in 1 .. p /\ n \in 1 .. n /\ n # 1 /\ n - 1 = p /\ n # 0
  OBVIOUS
<1> HIDE DEF n
<1>2. PICK f : Joined(f, ss, n)
  BY <1>1, JoinedExists
<1>3. PICK g : Joined(g, tt, p)
  BY JoinedExists
<1>4. g[p] = f[p]
  BY <1>1, <1>2, <1>3, JoinedUnique
<1>5. f[n] = f[p] \o ss[n]
  <2>1. n \in Nat /\ n \in 1 .. n
    BY <1>1
  <2>2. f[n] = IF n = 1 THEN ss[1] ELSE f[n - 1] \o ss[n]
    BY <2>1, <1>2, JoinedAt
  <2> QED BY <1>1, <2>2
<1>6. FlattenSeq(tt) = g[p]
  BY <1>3, FlattenIs
<1>7. FlattenSeq(ss) = f[n]
  BY <1>1, <1>2, FlattenIs DEF n
<1> QED BY <1>4, <1>5, <1>6, <1>7, Zenon DEF n

\* A single element flattens to itself.
LEMMA FlattenOne ==
  ASSUME NEW ss, Len(ss) = 1
  PROVE  FlattenSeq(ss) = ss[1]
<1>1. PICK f : Joined(f, ss, 1)
  BY JoinedExists
<1>2. f[1] = ss[1]
  BY <1>1, JoinedAt
<1>3. Joined(f, ss, Len(ss)) /\ Len(ss) \in Nat /\ Len(ss) # 0
  BY <1>1
<1>4. FlattenSeq(ss) = f[Len(ss)]
  BY <1>3, FlattenIs
<1> QED BY <1>2, <1>4

\* The flattening of a sequence of sequences is that of the sequence without
\* its last element, and then the last element.
Extends(ss, tt, p) ==
  /\ Len(ss) = p + 1 /\ Len(tt) = p
  /\ \A i \in 1 .. p : tt[i] = ss[i]

\* One element more.
LEMMA FlattenSnoc ==
  ASSUME NEW T, NEW ss, NEW tt, NEW p \in Nat, Extends(ss, tt, p),
         tt \in Seq(Seq(T)), ss[p + 1] \in Seq(T)
  PROVE  FlattenSeq(ss) = FlattenSeq(tt) \o ss[p + 1]
<1>0. Len(ss) = p + 1 /\ Len(tt) = p /\ \A i \in 1 .. p : tt[i] = ss[i]
  BY DEF Extends
<1>1. CASE p = 0
  <2>1. FlattenSeq(tt) = << >>
    BY <1>0, <1>1, FlattenEmpty
  <2>2. << >> \o ss[p + 1] = ss[p + 1]
    BY ConcatEmptySeq
  <2>3. FlattenSeq(ss) = ss[p + 1]
    BY <1>0, <1>1, FlattenOne
  <2> QED BY <2>1, <2>2, <2>3, Zenon
<1>2. CASE p # 0
  BY <1>0, <1>2, FlattenStep, Zenon
<1> QED BY <1>1, <1>2

\* F gives the flattenings of the prefixes of a sequence of sequences.
Builds(F, ss, T) ==
  /\ F[0] = << >>
  /\ \A k \in 0 .. Len(ss) : F[k] \in Seq(T)
  /\ \A k \in 0 .. Len(ss) - 1 : F[k + 1] = F[k] \o ss[k + 1]
  /\ \A k \in 0 .. Len(ss) : F[k] = FlattenSeq(SubSeq(ss, 1, k))
  /\ F[Len(ss)] = FlattenSeq(ss)

\* There are such flattenings.
LEMMA FlattenBuilt ==
  ASSUME NEW T, NEW ss \in Seq(Seq(T))
  PROVE  \E F : Builds(F, ss, T)
<1> DEFINE n == Len(ss)
           Upto(k) == SubSeq(ss, 1, k)
           F == [k \in 0 .. n |-> FlattenSeq(Upto(k))]
<1>1. n \in Nat /\ \A i \in 1 .. n : ss[i] \in Seq(T)
  OBVIOUS
<1>2. \A k \in 0 .. n :
        Upto(k) \in Seq(Seq(T)) /\ Len(Upto(k)) = k /\ \A i \in 1 .. k : Upto(k)[i] = ss[i]
  <2> SUFFICES ASSUME NEW k \in 0 .. n
               PROVE  /\ Upto(k) \in Seq(Seq(T)) /\ Len(Upto(k)) = k
                      /\ \A i \in 1 .. k : Upto(k)[i] = ss[i]
    OBVIOUS
  <2>1. \A i \in 1 .. k : ss[i] \in Seq(T)
    BY <1>1
  <2> QED BY <2>1, SubSeqProperties
<1>3. Upto(n) = ss
  BY SubSeqFull
<1> HIDE DEF n, Upto
<1>4. F[0] = << >>
  <2>1. Len(Upto(0)) = 0 /\ Upto(0) = << >>
    BY <1>1, <1>2
  <2>2. F[0] = FlattenSeq(Upto(0))
    BY <1>1
  <2> QED BY <2>1, <2>2, FlattenEmpty
<1>5. ASSUME NEW k \in 0 .. n - 1
      PROVE  F[k + 1] = F[k] \o ss[k + 1]
  <2>1. k \in Nat /\ k \in 0 .. n /\ k + 1 \in 0 .. n /\ k + 1 \in 1 .. n
        /\ k + 1 \in 1 .. k + 1 /\ \A i \in 1 .. k : i \in 1 .. k + 1
    BY <1>1
  <2>2. Len(Upto(k + 1)) = k + 1 /\ Upto(k + 1)[k + 1] = ss[k + 1]
        /\ ss[k + 1] \in Seq(T)
    BY <1>1, <1>2, <2>1
  <2>3. Upto(k) \in Seq(Seq(T)) /\ Len(Upto(k)) = k
    BY <1>2, <2>1
  <2>4. \A i \in 1 .. k : Upto(k)[i] = Upto(k + 1)[i]
    BY <1>2, <2>1
  <2>5. FlattenSeq(Upto(k + 1)) = FlattenSeq(Upto(k)) \o Upto(k + 1)[k + 1]
    <3>1. k \in Nat
      BY <2>1
    <3>2. Upto(k + 1)[k + 1] \in Seq(T)
      BY <2>2
    <3>3. Extends(Upto(k + 1), Upto(k), k)
      BY <2>2, <2>3, <2>4 DEF Extends
    <3> QED BY <2>3, <3>1, <3>2, <3>3, FlattenSnoc
  <2> QED BY <2>1, <2>2, <2>5
<1>6. \A k \in 0 .. n : F[k] \in Seq(T)
  <2> DEFINE S == {k \in Nat : k <= n => F[k] \in Seq(T)}
  <2> HIDE DEF F
  <2>1. 0 \in S
    BY <1>4, EmptySeq
  <2>2. \A k \in Nat : k \in S => k + 1 \in S
    <3> SUFFICES ASSUME NEW k \in Nat, k + 1 <= n, F[k] \in Seq(T)
                 PROVE  F[k + 1] \in Seq(T)
      BY <1>1
    <3>1. k \in 0 .. n - 1 /\ k + 1 \in 1 .. n
      BY <1>1
    <3>2. F[k + 1] = F[k] \o ss[k + 1] /\ ss[k + 1] \in Seq(T)
      BY <1>1, <1>5, <3>1
    <3> QED BY <3>2, ConcatProperties
  <2>3. Nat \subseteq S
    <3> HIDE DEF S
    <3> QED BY <2>1, <2>2, Induct
  <2> QED BY <1>1, <2>3
<1>7. F[n] = FlattenSeq(ss)
  BY <1>1, <1>3
<1>8. \A k \in 0 .. n : F[k] = FlattenSeq(SubSeq(ss, 1, k))
  BY DEF Upto
<1> HIDE DEF F
<1> QED BY <1>4, <1>5, <1>6, <1>7, <1>8, Zenon DEF n, Builds

\* A flattening is of the type of its elements.
LEMMA FlattenType ==
  ASSUME NEW T, NEW ss \in Seq(Seq(T))
  PROVE  FlattenSeq(ss) \in Seq(T)
<1>1. Len(ss) \in 0 .. Len(ss)
  OBVIOUS
<1>2. PICK F : Builds(F, ss, T)
  BY FlattenBuilt
<1> QED BY <1>1, <1>2, Zenon DEF Builds

\* What the flattening is made of.
LEMMA FlattenToSet ==
  ASSUME NEW T, NEW ss \in Seq(Seq(T))
  PROVE  /\ \A i \in 1 .. Len(ss) : ToSet(ss[i]) \subseteq ToSet(FlattenSeq(ss))
         /\ \A x \in ToSet(FlattenSeq(ss)) : \E i \in 1 .. Len(ss) : x \in ToSet(ss[i])
<1> DEFINE n == Len(ss)
<1>0. PICK F : Builds(F, ss, T)
  BY FlattenBuilt
<1>1. /\ F[0] = << >>
      /\ \A k \in 0 .. n : F[k] \in Seq(T)
      /\ \A k \in 0 .. n - 1 : F[k + 1] = F[k] \o ss[k + 1]
      /\ F[n] = FlattenSeq(ss)
  BY <1>0, Zenon DEF Builds
<1>2. n \in Nat /\ \A i \in 1 .. n : ss[i] \in Seq(T)
  OBVIOUS
<1> HIDE DEF n
<1> DEFINE Made(k) == /\ \A i \in 1 .. k : ToSet(ss[i]) \subseteq ToSet(F[k])
                      /\ \A x \in ToSet(F[k]) : \E i \in 1 .. k : x \in ToSet(ss[i])
           S == {k \in Nat : k <= n => Made(k)}
<1>3. 0 \in S
  BY <1>1 DEF ToSet
<1> HIDE DEF Made
<1>4. \A k \in Nat : k \in S => k + 1 \in S
  <2> SUFFICES ASSUME NEW k \in Nat, k + 1 <= n, Made(k)
               PROVE  Made(k + 1)
    BY <1>2
  <2>1. F[k] \in Seq(T) /\ F[k + 1] = F[k] \o ss[k + 1] /\ ss[k + 1] \in Seq(T)
    <3>1. k \in 0 .. n /\ k \in 0 .. n - 1 /\ k + 1 \in 1 .. n
      BY <1>2
    <3> QED BY <1>1, <1>2, <3>1
  <2>2. ToSet(F[k + 1]) = ToSet(F[k]) \cup ToSet(ss[k + 1])
    BY <2>1, ToSetConcat
  <2>3. \A i \in 1 .. k + 1 : i = k + 1 \/ i \in 1 .. k
    OBVIOUS
  <2>4. \A i \in 1 .. k : i \in 1 .. k + 1
    OBVIOUS
  <2>5. k + 1 \in 1 .. k + 1
    OBVIOUS
  <2> QED BY <2>2, <2>3, <2>4, <2>5, Zenon DEF Made
<1>5. Nat \subseteq S
  <2> HIDE DEF S
  <2> QED BY <1>3, <1>4, Induct
<1>6. Made(n)
  BY <1>2, <1>5
<1> QED BY <1>1, <1>6, Zenon DEF n, Made

\* The flattening of a sequence is that of its first k elements, and then that
\* of the others.
LEMMA FlattenSplit ==
  ASSUME NEW T, NEW ss \in Seq(Seq(T)), NEW k \in Nat, k <= Len(ss)
  PROVE  FlattenSeq(ss) = FlattenSeq(SubSeq(ss, 1, k)) \o FlattenSeq(SubSeq(ss, k + 1, Len(ss)))
<1> DEFINE n == Len(ss)
           A(j) == SubSeq(ss, 1, k + j)
           B(j) == SubSeq(ss, k + 1, k + j)
<1>1. n \in Nat /\ k <= n /\ \A i \in 1 .. n : ss[i] \in Seq(T)
  OBVIOUS
<1>2. ss = SubSeq(ss, 1, n)
  BY SubSeqFull
<1> HIDE DEF n
<1>3. ASSUME NEW j \in Nat, k + j <= n
      PROVE  /\ A(j) \in Seq(Seq(T)) /\ Len(A(j)) = k + j
             /\ \A i \in 1 .. k + j : A(j)[i] = ss[i]
             /\ B(j) \in Seq(Seq(T)) /\ Len(B(j)) = j
             /\ \A i \in 1 .. j : B(j)[i] = ss[k + i]
  <2> DEFINE m == k + j
  <2>1. m \in Nat /\ m \in Int /\ m <= n /\ k + 1 \in Int /\ 1 \in Int
    BY <1>1, <1>3
  <2>2. \A i \in 1 .. m : ss[i] \in Seq(T)
    BY <1>1, <2>1
  <2>3. \A i \in k + 1 .. m : ss[i] \in Seq(T)
    <3>1. \A i \in k + 1 .. m : i \in 1 .. m
      BY <1>1
    <3> QED BY <2>2, <3>1, Zenon
  <2>4. A(j) = SubSeq(ss, 1, m) /\ B(j) = SubSeq(ss, k + 1, m)
    OBVIOUS
  <2>5. m - (k + 1) + 1 = j /\ m - 1 + 1 = m
    BY <1>3
  <2> HIDE DEF m, A, B
  <2>6. /\ A(j) \in Seq(Seq(T)) /\ Len(A(j)) = (IF 1 <= m THEN m - 1 + 1 ELSE 0)
        /\ \A i \in 1 .. m - 1 + 1 : A(j)[i] = ss[1 + i - 1]
    BY <2>1, <2>2, <2>4, SubSeqProperties
  <2>7. /\ B(j) \in Seq(Seq(T)) /\ Len(B(j)) = (IF k + 1 <= m THEN m - (k + 1) + 1 ELSE 0)
        /\ \A i \in 1 .. m - (k + 1) + 1 : B(j)[i] = ss[k + 1 + i - 1]
    BY <2>1, <2>3, <2>4, SubSeqProperties
  <2>8. Len(A(j)) = m /\ Len(B(j)) = j
    BY <1>3, <2>1, <2>5, <2>6, <2>7
  <2>9. \A i \in 1 .. m : A(j)[i] = ss[i]
    <3>1. \A i \in 1 .. m : 1 + i - 1 = i
      BY <2>1
    <3> QED BY <2>5, <2>6, <3>1
  <2>10. \A i \in 1 .. j : B(j)[i] = ss[k + i]
    <3>1. \A i \in 1 .. j : k + 1 + i - 1 = k + i
      BY <1>3
    <3> QED BY <2>5, <2>7, <3>1
  <2> QED BY <2>6, <2>7, <2>8, <2>9, <2>10, Zenon DEF m
<1> HIDE DEF A, B
<1> DEFINE Parted(j) == FlattenSeq(A(j)) = FlattenSeq(A(0)) \o FlattenSeq(B(j))
           S == {j \in Nat : k + j <= n => Parted(j)}
<1> HIDE DEF Parted
<1>4. 0 \in S
  <2>1. k + 0 <= n
    BY <1>1
  <2>2. A(0) \in Seq(Seq(T)) /\ B(0) \in Seq(Seq(T)) /\ Len(B(0)) = 0
    BY <1>3, <2>1
  <2>3. B(0) = << >> /\ FlattenSeq(B(0)) = << >>
    BY <2>2, FlattenEmpty
  <2>4. FlattenSeq(A(0)) \in Seq(T)
    BY <2>2, FlattenType
  <2>5. FlattenSeq(A(0)) \o << >> = FlattenSeq(A(0))
    BY <2>4, ConcatEmptySeq
  <2> QED BY <2>3, <2>5 DEF Parted
<1>5. \A j \in Nat : j \in S => j + 1 \in S
  <2> SUFFICES ASSUME NEW j \in Nat, k + (j + 1) <= n,
                      Parted(j)
               PROVE  Parted(j + 1)
    BY <1>1
  <2>1. j + 1 \in Nat /\ k + j \in Nat /\ k + j <= n /\ k + (j + 1) = (k + j) + 1
        /\ k + 0 <= n /\ (k + j) + 1 \in 1 .. n
    BY <1>1
  <2>2. /\ A(j) \in Seq(Seq(T)) /\ Len(A(j)) = k + j /\ \A i \in 1 .. k + j : A(j)[i] = ss[i]
        /\ B(j) \in Seq(Seq(T)) /\ Len(B(j)) = j /\ \A i \in 1 .. j : B(j)[i] = ss[k + i]
    BY <1>3, <2>1
  <2>3. /\ Len(A(j + 1)) = k + (j + 1) /\ \A i \in 1 .. k + (j + 1) : A(j + 1)[i] = ss[i]
        /\ Len(B(j + 1)) = j + 1 /\ \A i \in 1 .. j + 1 : B(j + 1)[i] = ss[k + i]
    BY <1>3, <2>1
  <2> DEFINE x == ss[(k + j) + 1]
  <2>4. x \in Seq(T)
    BY <1>1, <2>1
  <2>5. A(j + 1)[(k + j) + 1] = x /\ B(j + 1)[j + 1] = x
    <3>1. (k + j) + 1 \in 1 .. k + (j + 1) /\ j + 1 \in 1 .. j + 1
      BY <2>1
    <3> QED BY <2>1, <2>3, <3>1
  <2>6. Extends(A(j + 1), A(j), k + j)
    <3>1. \A i \in 1 .. k + j : i \in 1 .. k + (j + 1)
      BY <2>1
    <3> QED BY <2>1, <2>2, <2>3, <3>1 DEF Extends
  <2>7. Extends(B(j + 1), B(j), j)
    <3>1. \A i \in 1 .. j : i \in 1 .. j + 1
      BY <2>1
    <3> QED BY <2>1, <2>2, <2>3, <3>1 DEF Extends
  <2> HIDE DEF x
  <2>8. FlattenSeq(A(j + 1)) = FlattenSeq(A(j)) \o x
    <3>1. k + j \in Nat /\ A(j) \in Seq(Seq(T)) /\ A(j + 1)[(k + j) + 1] \in Seq(T)
      BY <2>1, <2>2, <2>4, <2>5
    <3>2. FlattenSeq(A(j + 1)) = FlattenSeq(A(j)) \o A(j + 1)[(k + j) + 1]
      BY <2>6, <3>1, FlattenSnoc
    <3> QED BY <2>5, <3>2
  <2>9. FlattenSeq(B(j + 1)) = FlattenSeq(B(j)) \o x
    <3>1. B(j) \in Seq(Seq(T)) /\ B(j + 1)[j + 1] \in Seq(T)
      BY <2>2, <2>4, <2>5
    <3>2. FlattenSeq(B(j + 1)) = FlattenSeq(B(j)) \o B(j + 1)[j + 1]
      BY <2>7, <3>1, FlattenSnoc
    <3> QED BY <2>5, <3>2
  <2>10. FlattenSeq(A(0)) \in Seq(T) /\ FlattenSeq(B(j)) \in Seq(T)
    <3>1. A(0) \in Seq(Seq(T))
      BY <1>3, <2>1
    <3> QED BY <2>2, <3>1, FlattenType
  <2> DEFINE a == FlattenSeq(A(0))
             b == FlattenSeq(B(j))
  <2> HIDE DEF a, b
  <2>11. (a \o b) \o x = a \o (b \o x)
    <3>1. a \in Seq(T) /\ b \in Seq(T)
      BY <2>10 DEF a, b
    <3>2. \A t \in Seq(T) : (a \o b) \o t = a \o (b \o t)
      BY <3>1, ConcatAssociative
    <3> QED BY <2>4, <3>2
  <2> QED BY <2>8, <2>9, <2>11, Zenon DEF a, b, Parted
<1>6. Nat \subseteq S
  <2> HIDE DEF S
  <2> QED BY <1>4, <1>5, Induct
<1>7. n - k \in Nat /\ k + (n - k) = n /\ k + 0 = k
  BY <1>1
<1>8. FlattenSeq(A(n - k)) = FlattenSeq(A(0)) \o FlattenSeq(B(n - k))
  BY <1>1, <1>6, <1>7 DEF Parted
<1>9. A(n - k) = ss /\ A(0) = SubSeq(ss, 1, k) /\ B(n - k) = SubSeq(ss, k + 1, n)
  BY <1>2, <1>7 DEF A, B
<1> QED BY <1>8, <1>9, Zenon DEF n

\* The flattening of single elements is the sequence of them.
LEMMA FlattenSingles ==
  ASSUME NEW T, NEW s \in Seq(T), NEW ss, ss = [k \in DOMAIN s |-> <<s[k]>>]
  PROVE  FlattenSeq(ss) = s
<1> DEFINE n == Len(s)
<1>1. n \in Nat /\ DOMAIN s = 1 .. n /\ \A k \in 1 .. n : s[k] \in T
  OBVIOUS
<1>2. ss = [k \in 1 .. n |-> <<s[k]>>]
  BY <1>1
<1> HIDE DEF n
<1>3. ss \in Seq(Seq(T)) /\ Len(ss) = n /\ \A k \in 1 .. n : ss[k] = <<s[k]>>
  <2>1. \A k \in 1 .. n : <<s[k]>> \in Seq(T)
    BY <1>1
  <2> QED BY <1>1, <1>2, <2>1
<1>4. PICK F : Builds(F, ss, T)
  BY <1>3, FlattenBuilt
<1>5. /\ F[0] = << >> /\ F[n] = FlattenSeq(ss)
      /\ \A k \in 0 .. n - 1 : F[k + 1] = F[k] \o ss[k + 1]
  BY <1>3, <1>4 DEF Builds
<1> DEFINE S == {k \in Nat : k <= n => F[k] = SubSeq(s, 1, k)}
<1>6. 0 \in S
  <2>1. SubSeq(s, 1, 0) = << >>
    BY <1>1
  <2> QED BY <1>5, <2>1
<1>7. ASSUME NEW k \in Nat, k \in S PROVE k + 1 \in S
  <2>1. ASSUME k + 1 <= n PROVE F[k + 1] = SubSeq(s, 1, k + 1)
    <3>1. k <= n /\ k \in 0 .. n - 1 /\ k + 1 \in 1 .. n
      BY <1>1, <2>1
    <3>2. F[k + 1] = SubSeq(s, 1, k) \o <<s[k + 1]>>
      <4>1. F[k] = SubSeq(s, 1, k)
        BY <1>7, <3>1
      <4>2. F[k + 1] = F[k] \o ss[k + 1]
        BY <1>5, <3>1
      <4>3. ss[k + 1] = <<s[k + 1]>>
        BY <1>3, <3>1
      <4> QED BY <4>1, <4>2, <4>3
    <3>3. SubSeq(s, 1, k) \o <<s[k + 1]>> = SubSeq(s, 1, k + 1)
      BY <1>1, <3>1 DEF n
    <3> QED BY <3>2, <3>3
  <2> QED BY <2>1
<1> HIDE DEF S
<1>8. n \in S
  BY <1>1, <1>6, <1>7, Induct
<1>9. SubSeq(s, 1, n) = s
  BY SubSeqFull DEF n
<1>10. F[n] = SubSeq(s, 1, n)
  BY <1>1, <1>8 DEF S
<1> QED BY <1>5, <1>9, <1>10

\* Nothing follows the only element.
LEMMA TailOfOne ==
  ASSUME NEW T, NEW s \in Seq(T), Len(s) = 1 PROVE Tail(s) = << >>
<1>1. s # << >>
  <2>1. Len(<< >>) = 0
    BY EmptySeq
  <2> DEFINE x == Len(s)
  <2>2. x # 0
    OBVIOUS
  <2> HIDE DEF x
  <2>3. ASSUME s = << >> PROVE x = 0
    BY <2>1, <2>3 DEF x
  <2> QED BY <2>2, <2>3
<1> DEFINE t == Tail(s)
           y == Len(t)
<1>2. t \in Seq(T) /\ y = Len(s) - 1
  BY <1>1, HeadTailProperties
<1>3. y = 0
  BY <1>2
<1> HIDE DEF t, y
<1>4. t # << >> => y \in Nat \ {0}
  BY <1>2, EmptySeq DEF y
<1>5. t = << >>
  BY <1>3, <1>4
<1> QED BY <1>5 DEF t

\* The head and the tail of a concatenation.
LEMMA ConcatHead ==
  ASSUME NEW T, NEW s \in Seq(T), s # << >>, NEW t \in Seq(T)
  PROVE  Head(s \o t) = s[1] /\ Tail(s \o t) = Tail(s) \o t /\ s \o t \in Seq(T)
<1>1. Head(s \o t) = s[1] /\ s \o t \in Seq(T)
  OBVIOUS
<1>2. Tail(s \o t) \in Seq(T) /\ Tail(s) \in Seq(T)
  OBVIOUS
<1>3. Len(Tail(s \o t)) = Len(Tail(s) \o t)
  OBVIOUS
<1>4. \A i \in 1 .. Len(Tail(s \o t)) : Tail(s \o t)[i] = (Tail(s) \o t)[i]
  OBVIOUS
<1> QED BY <1>1, <1>2, <1>3, <1>4, SeqEqual
=============================================================================
