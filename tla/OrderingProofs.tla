---------------------------- MODULE OrderingProofs ----------------------------
(***************************************************************************)
(* What TopologicalSort returns, for any number of services, any           *)
(* depends_on and any order of the maps.  Kahn's loop and the selection    *)
(* from a sequence are recursive functions on an interval; facts about     *)
(* them are shown for the least index at which they could fail.            *)
(***************************************************************************)
EXTENDS ServiceOrdering, SequenceTheorems, FunctionTheorems, FiniteSetTheorems,
        WellFoundedInduction, TLAPS

LEMMA LeastOf ==
    ASSUME NEW T \in SUBSET Nat, T # {}
    PROVE  \E x \in T : \A y \in T : x <= y
<1> DEFINE R == {p \in Nat \X Nat : p[1] < p[2]}
<1>1. R = OpToRel(<, Nat)
  BY DEF OpToRel
<1>2. IsWellFoundedOn(R, Nat)
  BY <1>1, NatLessThanWellFounded, Zenon
<1>3. PICK x \in T : \A y \in T : ~(<<y, x>> \in R)
  <2> HIDE DEF R
  <2> QED BY <1>2, WFMin, Zenon
<1>4. \A y \in T : ~(y < x)
  BY <1>3
<1> QED BY <1>3, <1>4

\* Induction on an interval: a set of its numbers that has 0 and with each
\* number the next has all of them.
LEMMA Climb ==
    ASSUME NEW N \in Nat, NEW G, 0 \in G, \A m \in 1 .. N : m - 1 \in G => m \in G
    PROVE  0 .. N \subseteq G
<1> DEFINE T == (0 .. N) \ G
<1> SUFFICES ASSUME T # {} PROVE FALSE
  OBVIOUS
<1>1. PICK x \in T : \A y \in T : x <= y
  <2>1. T \in SUBSET Nat
    OBVIOUS
  <2> HIDE DEF T
  <2> QED BY <2>1, LeastOf
<1>2. x \in 1 .. N /\ x - 1 \in 0 .. N
  BY <1>1
<1>3. x - 1 \notin T
  BY <1>1, <1>2
<1> QED BY <1>1, <1>2, <1>3

\* The function that starts with a and goes on by h exists.
Iterates(f, a, h, N) == f[0] = a /\ \A n \in 1 .. N : f[n] = h[n][f[n - 1]]

LEMMA IterationExists ==
    ASSUME NEW K, NEW a \in K, NEW N \in Nat, NEW h \in [1 .. N -> [K -> K]]
    PROVE  \E f \in [0 .. N -> K] : Iterates(f, a, h, N)
<1> DEFINE G == {m \in 0 .. N : \E f \in [0 .. m -> K] : Iterates(f, a, h, m)}
<1>1. 0 \in G
  <2> DEFINE f == [i \in 0 .. 0 |-> a]
  <2>1. f \in [0 .. 0 -> K] /\ Iterates(f, a, h, 0)
    BY DEF Iterates
  <2> QED BY <2>1
<1>2. ASSUME NEW m \in 1 .. N, m - 1 \in G PROVE m \in G
  <2>1. PICK f \in [0 .. m - 1 -> K] : Iterates(f, a, h, m - 1)
    BY <1>2
  <2> DEFINE g == [i \in 0 .. m |-> IF i = m THEN h[m][f[m - 1]] ELSE f[i]]
  <2>2. f[m - 1] \in K /\ h[m] \in [K -> K]
    OBVIOUS
  <2>3. g \in [0 .. m -> K]
    BY <2>2
  <2>4. g[0] = a
    BY <2>1 DEF Iterates
  <2>5. ASSUME NEW n \in 1 .. m PROVE g[n] = h[n][g[n - 1]]
    <3>1. g[n - 1] = f[n - 1]
      OBVIOUS
    <3>2. CASE n = m
      BY <3>1, <3>2
    <3>3. CASE n # m
      BY <2>1, <3>1, <3>3 DEF Iterates
    <3> QED BY <3>2, <3>3
  <2> HIDE DEF g
  <2>6. Iterates(g, a, h, m)
    BY <2>4, <2>5 DEF Iterates
  <2> QED BY <2>3, <2>6
<1>3. N \in G
  <2>1. \A m \in 1 .. N : m - 1 \in G => m \in G
    BY <1>2
  <2>2. N \in 0 .. N
    OBVIOUS
  <2> HIDE DEF G
  <2>3. 0 .. N \subseteq G
    BY <1>1, <2>1, Climb
  <2> QED BY <2>2, <2>3
<1> QED BY <1>3

-----------------------------------------------------------------------------
(***************************************************************************)
(* Sequences without repetitions.                                          *)
(***************************************************************************)
Distinct(s) == \A i, j \in 1 .. Len(s) : s[i] = s[j] => i = j

LEMMA ToSetOf ==
    ASSUME NEW S, NEW s \in Seq(S)
    PROVE  /\ ToSet(s) \subseteq S /\ Len(s) \in Nat
           /\ \A x : x \in ToSet(s) <=> \E i \in 1 .. Len(s) : x = s[i]
<1>1. DOMAIN s = 1 .. Len(s) /\ Len(s) \in Nat /\ \A i \in 1 .. Len(s) : s[i] \in S
  BY LenProperties, ElementOfSeq
<1> QED BY <1>1 DEF ToSet

LEMMA EmptyIsDistinct ==
    ASSUME NEW S
    PROVE  <<>> \in Seq(S) /\ Distinct(<<>>) /\ ToSet(<<>>) = {} /\ Len(<<>>) = 0
<1>1. <<>> \in Seq(S) /\ Len(<<>>) = 0
  BY EmptySeq
<1>2. Distinct(<<>>)
  BY <1>1 DEF Distinct
<1>3. ToSet(<<>>) = {}
  BY <1>1 DEF ToSet
<1> QED BY <1>1, <1>2, <1>3

LEMMA AppendDistinct ==
    ASSUME NEW S, NEW s \in Seq(S), NEW x \in S
    PROVE  /\ Append(s, x) \in Seq(S) /\ Len(Append(s, x)) = Len(s) + 1
           /\ ToSet(Append(s, x)) = ToSet(s) \cup {x}
           /\ Distinct(s) /\ x \notin ToSet(s) => Distinct(Append(s, x))
           /\ \A i \in 1 .. Len(s) : Append(s, x)[i] = s[i]
           /\ Append(s, x)[Len(s) + 1] = x
<1> DEFINE t == Append(s, x)
<1>1. t \in Seq(S) /\ Len(t) = Len(s) + 1 /\ Len(s) \in Nat /\ t[Len(s) + 1] = x
  BY AppendProperties, ToSetOf
<1>2. \A i \in 1 .. Len(s) : t[i] = s[i]
  BY AppendProperties
<1> HIDE DEF t
<1>3. \A i \in 1 .. Len(t) : i \in 1 .. Len(s) \/ i = Len(s) + 1
  BY <1>1
<1>4. ToSet(t) = ToSet(s) \cup {x}
  <2>1. ASSUME NEW y \in ToSet(t) PROVE y \in ToSet(s) \cup {x}
    BY <1>1, <1>2, <1>3, ToSetOf
  <2>2. ASSUME NEW y \in ToSet(s) \cup {x} PROVE y \in ToSet(t)
    <3>1. 1 .. Len(s) \subseteq 1 .. Len(t) /\ Len(s) + 1 \in 1 .. Len(t)
      BY <1>1
    <3> QED BY <1>1, <1>2, <3>1, ToSetOf
  <2> QED BY <2>1, <2>2
<1>5. ASSUME Distinct(s), x \notin ToSet(s) PROVE Distinct(t)
  <2> SUFFICES ASSUME NEW i \in 1 .. Len(t), NEW j \in 1 .. Len(t), t[i] = t[j] PROVE i = j
    BY DEF Distinct
  <2>1. \A m \in 1 .. Len(s) : s[m] # x
    BY <1>5, ToSetOf
  <2> QED BY <1>1, <1>2, <1>3, <1>5, <2>1 DEF Distinct
<1> QED BY <1>1, <1>2, <1>4, <1>5 DEF t

LEMMA TailDistinct ==
    ASSUME NEW S, NEW s \in Seq(S), s # <<>>, Distinct(s)
    PROVE  /\ Head(s) \in S /\ Head(s) = s[1] /\ Head(s) \in ToSet(s)
           /\ Tail(s) \in Seq(S) /\ Len(Tail(s)) = Len(s) - 1 /\ Len(s) \in Nat \ {0}
           /\ ToSet(Tail(s)) = ToSet(s) \ {Head(s)}
           /\ Distinct(Tail(s))
           /\ \A i \in 1 .. Len(Tail(s)) : Tail(s)[i] = s[i + 1]
<1>1. /\ Head(s) \in S /\ Tail(s) \in Seq(S) /\ Len(Tail(s)) = Len(s) - 1
      /\ \A i \in 1 .. Len(Tail(s)) : Tail(s)[i] = s[i + 1]
  BY HeadTailProperties
<1>2. Len(s) \in Nat \ {0} /\ Head(s) = s[1]
  BY EmptySeq
<1>3. Head(s) \in ToSet(s)
  BY <1>2, ToSetOf
<1>4. Distinct(Tail(s))
  <2> SUFFICES ASSUME NEW i \in 1 .. Len(Tail(s)), NEW j \in 1 .. Len(Tail(s)),
                      Tail(s)[i] = Tail(s)[j]
               PROVE  i = j
    BY DEF Distinct
  <2>1. i + 1 \in 1 .. Len(s) /\ j + 1 \in 1 .. Len(s) /\ s[i + 1] = s[j + 1]
    BY <1>1, <1>2
  <2>2. i + 1 = j + 1
    BY <2>1 DEF Distinct
  <2> QED BY <2>2
<1>5. ASSUME NEW x \in ToSet(Tail(s)) PROVE x \in ToSet(s) \ {Head(s)}
  <2>1. PICK i \in 1 .. Len(Tail(s)) : x = Tail(s)[i]
    BY <1>1, ToSetOf
  <2>2. i + 1 \in 1 .. Len(s) /\ i + 1 # 1 /\ 1 \in 1 .. Len(s) /\ x = s[i + 1]
    BY <1>1, <1>2, <2>1
  <2>3. x # s[1]
    BY <2>2 DEF Distinct
  <2> QED BY <1>2, <2>2, <2>3, ToSetOf
<1>6. ASSUME NEW x \in ToSet(s), x # Head(s) PROVE x \in ToSet(Tail(s))
  <2>1. PICK i \in 1 .. Len(s) : x = s[i]
    BY ToSetOf
  <2>2. i - 1 \in 1 .. Len(Tail(s)) /\ (i - 1) + 1 = i
    BY <1>1, <1>2, <1>6, <2>1
  <2>3. x = Tail(s)[i - 1]
    BY <1>1, <2>1, <2>2
  <2> QED BY <1>1, <2>2, <2>3, ToSetOf
<1> QED BY <1>1, <1>2, <1>3, <1>4, <1>5, <1>6

LEMMA ConcatDistinct ==
    ASSUME NEW S, NEW s \in Seq(S), NEW t \in Seq(S)
    PROVE  /\ s \o t \in Seq(S) /\ Len(s \o t) = Len(s) + Len(t)
           /\ ToSet(s \o t) = ToSet(s) \cup ToSet(t)
           /\ Distinct(s) /\ Distinct(t) /\ ToSet(s) \cap ToSet(t) = {} => Distinct(s \o t)
           /\ \A i \in 1 .. Len(s) : (s \o t)[i] = s[i]
<1> DEFINE u == s \o t
<1>1. Len(s) \in Nat /\ Len(t) \in Nat
  BY ToSetOf
<1>2. /\ u \in Seq(S) /\ Len(u) = Len(s) + Len(t)
      /\ \A i \in 1 .. Len(s) + Len(t) : u[i] = IF i <= Len(s) THEN s[i] ELSE t[i - Len(s)]
  BY ConcatProperties
<1> HIDE DEF u
<1>3. \A i \in 1 .. Len(s) : i \in 1 .. Len(u) /\ u[i] = s[i]
  BY <1>1, <1>2
<1>4. \A j \in 1 .. Len(t) : j + Len(s) \in 1 .. Len(u) /\ u[j + Len(s)] = t[j]
  <2> TAKE j \in 1 .. Len(t)
  <2>1. j + Len(s) \in 1 .. Len(s) + Len(t) /\ ~(j + Len(s) <= Len(s)) /\ (j + Len(s)) - Len(s) = j
    BY <1>1
  <2> QED BY <1>2, <2>1
<1>5. \A i \in 1 .. Len(u) : \/ i \in 1 .. Len(s) /\ u[i] = s[i]
                             \/ i - Len(s) \in 1 .. Len(t) /\ u[i] = t[i - Len(s)]
  BY <1>1, <1>2
<1>6. ToSet(u) = ToSet(s) \cup ToSet(t)
  <2>1. ASSUME NEW x \in ToSet(u) PROVE x \in ToSet(s) \cup ToSet(t)
    <3>1. PICK i \in 1 .. Len(u) : x = u[i]
      BY <1>2, ToSetOf
    <3> QED BY <1>5, <3>1, ToSetOf
  <2>2. ASSUME NEW x \in ToSet(s) PROVE x \in ToSet(u)
    <3>1. PICK i \in 1 .. Len(s) : x = s[i]
      BY ToSetOf
    <3> QED BY <1>2, <1>3, <3>1, ToSetOf
  <2>3. ASSUME NEW x \in ToSet(t) PROVE x \in ToSet(u)
    <3>1. PICK i \in 1 .. Len(t) : x = t[i]
      BY ToSetOf
    <3> QED BY <1>2, <1>4, <3>1, ToSetOf
  <2> QED BY <2>1, <2>2, <2>3
<1>7. ASSUME Distinct(s), Distinct(t), ToSet(s) \cap ToSet(t) = {} PROVE Distinct(u)
  <2> SUFFICES ASSUME NEW i \in 1 .. Len(u), NEW j \in 1 .. Len(u), u[i] = u[j] PROVE i = j
    BY DEF Distinct
  <2>1. \A m \in 1 .. Len(s), n \in 1 .. Len(t) : s[m] # t[n]
    BY <1>7, ToSetOf
  <2>2. CASE i \in 1 .. Len(s) /\ u[i] = s[i]
    <3>1. j \in 1 .. Len(s) /\ u[j] = s[j]
      BY <1>5, <2>1, <2>2
    <3> QED BY <1>7, <2>2, <3>1 DEF Distinct
  <2>3. CASE i - Len(s) \in 1 .. Len(t) /\ u[i] = t[i - Len(s)]
    <3>1. j - Len(s) \in 1 .. Len(t) /\ u[j] = t[j - Len(s)]
      BY <1>5, <2>1, <2>3
    <3>2. i - Len(s) = j - Len(s)
      BY <1>7, <2>3, <3>1 DEF Distinct
    <3> QED BY <1>1, <3>2
  <2> QED BY <1>5, <2>2, <2>3
<1> QED BY <1>2, <1>3, <1>6, <1>7 DEF u

LEMMA CountTo ==
    ASSUME NEW n \in Nat
    PROVE  IsFiniteSet(1 .. n) /\ Cardinality(1 .. n) = n
BY FS_Interval

\* A permutation of a finite set has all of it.
LEMMA PermutationOf ==
    ASSUME NEW T, IsFiniteSet(T), NEW s \in SetToSeqs(T)
    PROVE  s \in Seq(T) /\ Len(s) = Cardinality(T) /\ Distinct(s) /\ ToSet(s) = T
<1> DEFINE n == Cardinality(T)
<1>1. n \in Nat
  BY FS_CardinalityType
<1>2. s \in [1 .. n -> T] /\ \A i, j \in 1 .. n : i # j => s[i] # s[j]
  BY DEF SetToSeqs
<1>3. s \in Seq(T) /\ Len(s) = n
  BY <1>1, <1>2
<1>4. Distinct(s)
  BY <1>2, <1>3 DEF Distinct
<1>5. ToSet(s) = T
  <2> DEFINE U == ToSet(s)
  <2>1. U \subseteq T
    BY <1>3, ToSetOf
  <2>2. IsFiniteSet(U) /\ Cardinality(U) \in Nat /\ (Cardinality(U) = n => U = T)
    BY <2>1, FS_Subset, FS_CardinalityType
  <2>3. IsFiniteSet(1 .. n) /\ Cardinality(1 .. n) = n
    BY <1>1, CountTo
  <2>4. s \in Bijection(1 .. n, U)
    <3>1. \A x \in U : \E i \in 1 .. n : x = s[i]
      BY <1>3, ToSetOf
    <3>2. \A i \in 1 .. n : s[i] \in U
      BY <1>3, ToSetOf
    <3>3. s \in [1 .. n -> U]
      BY <1>2, <3>2
    <3> HIDE DEF U
    <3> QED BY <1>2, <3>1, <3>3, Fun_IsBij
  <2>5. Cardinality(U) = Cardinality(1 .. n)
    <3> HIDE DEF U
    <3>1. ExistsBijection(1 .. n, U)
      BY <2>4 DEF ExistsBijection
    <3> QED BY <2>3, <3>1, FS_Bijection
  <2> QED BY <2>2, <2>3, <2>5
<1> QED BY <1>3, <1>4, <1>5

\* A sequence without repetitions that has all of a finite set is a permutation.
LEMMA IsPermutation ==
    ASSUME NEW T, IsFiniteSet(T), NEW s \in Seq(T), Distinct(s), ToSet(s) = T
    PROVE  s \in SetToSeqs(T)
<1>1. s \in [1 .. Len(s) -> T] /\ Len(s) \in Nat
  BY LenProperties
<1>2. Len(s) = Cardinality(T)
  <2>1. s \in Bijection(1 .. Len(s), T)
    <3>1. \A x \in T : \E i \in 1 .. Len(s) : x = s[i]
      BY ToSetOf
    <3> QED BY <1>1, <3>1, Fun_IsBij DEF Distinct
  <2>2. IsFiniteSet(1 .. Len(s)) /\ Cardinality(1 .. Len(s)) = Len(s)
    BY <1>1, CountTo
  <2>3. ExistsBijection(1 .. Len(s), T)
    BY <2>1 DEF ExistsBijection
  <2> QED BY <2>2, <2>3, FS_Bijection
<1> QED BY <1>1, <1>2 DEF SetToSeqs, Distinct

\* A sequence without repetitions is no longer than the set it is from, and
\* has all of it if it is as long.
LEMMA DistinctFits ==
    ASSUME NEW T, IsFiniteSet(T), NEW s \in Seq(T), Distinct(s)
    PROVE  /\ Len(s) <= Cardinality(T)
           /\ Len(s) = Cardinality(T) => ToSet(s) = T
<1> DEFINE U == ToSet(s)
<1>1. U \subseteq T /\ s \in Seq(U)
  <2>1. U \subseteq T /\ \A i \in 1 .. Len(s) : s[i] \in U
    BY ToSetOf
  <2>2. s \in [1 .. Len(s) -> U] /\ Len(s) \in Nat
    BY <2>1, LenProperties
  <2> QED BY <2>1, <2>2
<1>2. IsFiniteSet(U) /\ Cardinality(U) <= Cardinality(T) /\ (Cardinality(U) = Cardinality(T) => U = T)
  BY <1>1, FS_Subset
<1>3. Len(s) = Cardinality(U)
  <2>1. s \in SetToSeqs(U)
    BY <1>1, <1>2, IsPermutation
  <2> QED BY <1>2, <2>1, PermutationOf
<1> QED BY <1>2, <1>3

(***************************************************************************)
(* Among keeps the members of R and forgets no one.                        *)
(***************************************************************************)
Selects(f, seq, R) ==
    /\ f[0] = <<>>
    /\ \A i \in 1 .. Len(seq) : f[i] = IF seq[i] \in R THEN Append(f[i - 1], seq[i]) ELSE f[i - 1]

LEMMA AmongSteps ==
    ASSUME NEW S, NEW seq \in Seq(S), NEW R
    PROVE  \E f \in [0 .. Len(seq) -> Seq(S)] : Among(seq, R) = f[Len(seq)] /\ Selects(f, seq, R)
<1> DEFINE N == Len(seq)
           h == [i \in 1 .. N |-> [t \in Seq(S) |-> IF seq[i] \in R THEN Append(t, seq[i]) ELSE t]]
           F(g) == [i \in 0 .. N |->
                       IF i = 0 THEN <<>>
                       ELSE IF seq[i] \in R THEN Append(g[i - 1], seq[i]) ELSE g[i - 1]]
           chosen == CHOOSE g : g = F(g)
<1>1. N \in Nat /\ \A i \in 1 .. N : seq[i] \in S
  BY LenProperties, ElementOfSeq
<1>2. h \in [1 .. N -> [Seq(S) -> Seq(S)]]
  BY <1>1, AppendProperties
<1>3. <<>> \in Seq(S)
  BY EmptySeq
<1>4. PICK g \in [0 .. N -> Seq(S)] : Iterates(g, <<>>, h, N)
  <2> HIDE DEF h, N
  <2> QED BY <1>1, <1>2, <1>3, IterationExists
<1>5. /\ g[0] = <<>>
      /\ \A i \in 1 .. N : g[i] = IF seq[i] \in R THEN Append(g[i - 1], seq[i]) ELSE g[i - 1]
  <2>1. \A i \in 1 .. N : g[i - 1] \in Seq(S)
    BY <1>1
  <2> QED BY <1>4, <2>1 DEF Iterates
<1>6. g = F(g)
  <2>1. \A i \in 0 .. N : i = 0 \/ i \in 1 .. N
    BY <1>1
  <2>2. \A i \in 0 .. N : g[i] = F(g)[i]
    BY <1>5, <2>1
  <2> QED BY <2>2
<1>7. PICK f : f = F(f) /\ Among(seq, R) = f[N]
  <2>1. \E x : x = F(x)
    BY <1>6
  <2>2. chosen = F(chosen)
    <3> HIDE DEF F
    <3> QED BY <2>1
  <2>3. Among(seq, R) = chosen[N]
    BY DEF Among
  <2> HIDE DEF chosen
  <2> QED BY <2>2, <2>3
<1>8. \A i \in 0 .. N : f[i] = IF i = 0 THEN <<>>
                               ELSE IF seq[i] \in R THEN Append(f[i - 1], seq[i]) ELSE f[i - 1]
  BY <1>7
<1>9. \A i \in 0 .. N : i = 0 \/ i \in 1 .. N
  BY <1>1
<1>10. f[0] = <<>> /\ \A i \in 1 .. N : f[i] = IF seq[i] \in R THEN Append(f[i - 1], seq[i]) ELSE f[i - 1]
  BY <1>1, <1>8, <1>9
<1>11. f \in [0 .. N -> Seq(S)]
  <2> DEFINE G == {i \in 0 .. N : f[i] \in Seq(S)}
  <2>1. 0 \in G
    <3>1. f[0] \in Seq(S)
      BY <1>3, <1>10, Zenon
    <3>2. 0 \in 0 .. N
      BY <1>1
    <3> QED BY <3>1, <3>2, Zenon
  <2>2. ASSUME NEW i \in 1 .. N, i - 1 \in G PROVE i \in G
    <3>1. f[i - 1] \in Seq(S) /\ seq[i] \in S /\ i \in 0 .. N
      BY <1>1, <2>2
    <3>2. Append(f[i - 1], seq[i]) \in Seq(S)
      BY <3>1, AppendProperties
    <3>3. f[i] \in Seq(S)
      BY <1>10, <3>1, <3>2
    <3> QED BY <3>1, <3>3
  <2>3. 0 .. N \subseteq G
    <3>1. \A i \in 1 .. N : i - 1 \in G => i \in G
      BY <2>2
    <3> HIDE DEF G, N
    <3> QED BY <1>1, <2>1, <3>1, Climb
  <2>4. \A i \in 0 .. N : f[i] \in Seq(S)
    BY <2>3
  <2>5. DOMAIN f = 0 .. N /\ f = [i \in 0 .. N |-> f[i]]
    BY <1>7
  <2> QED BY <2>4, <2>5
<1> QED BY <1>7, <1>10, <1>11 DEF Selects

LEMMA AmongKeeps ==
    ASSUME NEW S, NEW seq \in Seq(S), Distinct(seq), NEW R
    PROVE  /\ Among(seq, R) \in Seq(S) /\ Distinct(Among(seq, R))
           /\ ToSet(Among(seq, R)) = ToSet(seq) \cap R
<1> DEFINE N == Len(seq)
<1>0. PICK f \in [0 .. N -> Seq(S)] : Among(seq, R) = f[N] /\ Selects(f, seq, R)
  BY AmongSteps
<1>1. /\ f[0] = <<>>
      /\ \A i \in 1 .. N : f[i] = IF seq[i] \in R THEN Append(f[i - 1], seq[i]) ELSE f[i - 1]
  BY <1>0 DEF Selects
<1>2. N \in Nat /\ \A i \in 1 .. N : seq[i] \in S
  BY LenProperties, ElementOfSeq
<1> DEFINE First(i) == {seq[j] : j \in 1 .. i}
           G == {i \in 0 .. N : Distinct(f[i]) /\ ToSet(f[i]) = First(i) \cap R}
<1>3. 0 \in G
  <2>1. First(0) = {}
    OBVIOUS
  <2> QED BY <1>1, <1>2, <2>1, EmptyIsDistinct
<1>4. ASSUME NEW i \in 1 .. N, i - 1 \in G PROVE i \in G
  <2>1. /\ f[i - 1] \in Seq(S) /\ seq[i] \in S /\ i \in 0 .. N /\ i - 1 \in 0 .. N
        /\ Distinct(f[i - 1]) /\ ToSet(f[i - 1]) = First(i - 1) \cap R
    BY <1>2, <1>4
  <2>2. First(i) = First(i - 1) \cup {seq[i]}
    <3>1. \A j \in 1 .. i : j \in 1 .. i - 1 \/ j = i
      BY <1>2
    <3>2. 1 .. i - 1 \subseteq 1 .. i /\ i \in 1 .. i
      BY <1>2
    <3> QED BY <3>1, <3>2
  <2>3. seq[i] \notin First(i - 1)
    <3>1. \A j \in 1 .. i - 1 : j \in 1 .. N /\ j # i
      BY <1>2
    <3> QED BY <3>1 DEF Distinct
  <2> HIDE DEF First
  <2>4. CASE seq[i] \in R
    <3>1. f[i] = Append(f[i - 1], seq[i])
      BY <1>1, <2>4
    <3>2. seq[i] \notin ToSet(f[i - 1])
      BY <2>1, <2>3
    <3>3. Distinct(f[i]) /\ ToSet(f[i]) = ToSet(f[i - 1]) \cup {seq[i]}
      BY <2>1, <3>1, <3>2, AppendDistinct
    <3> QED BY <2>1, <2>2, <2>4, <3>3
  <2>5. CASE seq[i] \notin R
    <3>1. f[i] = f[i - 1]
      BY <1>1, <2>5
    <3> QED BY <2>1, <2>2, <2>5, <3>1
  <2> QED BY <2>4, <2>5
<1>5. N \in G
  <2>1. \A i \in 1 .. N : i - 1 \in G => i \in G
    BY <1>4
  <2>2. N \in 0 .. N
    BY <1>2
  <2> HIDE DEF G, N
  <2>3. 0 .. N \subseteq G
    BY <1>2, <1>3, <2>1, Climb
  <2> QED BY <2>2, <2>3
<1>6. First(N) = ToSet(seq)
  BY ToSetOf
<1> QED BY <1>0, <1>2, <1>5, <1>6

-----------------------------------------------------------------------------
(***************************************************************************)
(* Kahn's loop.  The result has no repetitions and puts a service after    *)
(* all it depends on; the degree counts the dependencies that are still to *)
(* come; a service is in the queue or the result exactly if there are none.*)
(***************************************************************************)
KahnState(S) == [queue : Seq(S), degree : [S -> Int], result : Seq(S)]

KahnOK(S, deps, k) ==
    /\ k \in KahnState(S)
    /\ Distinct(k.result) /\ Distinct(k.queue) /\ ToSet(k.result) \cap ToSet(k.queue) = {}
    /\ \A s \in S : k.degree[s] = Cardinality(deps[s] \ ToSet(k.result))
    /\ \A s \in S : s \in ToSet(k.result) \cup ToSet(k.queue) <=> deps[s] \subseteq ToSet(k.result)
    /\ \A i \in 1 .. Len(k.result) : deps[k.result[i]] \subseteq {k.result[j] : j \in 1 .. i - 1}

LEMMA KahnStepTyped ==
    ASSUME NEW S, NEW services \in Seq(S), Distinct(services), ToSet(services) = S,
           NEW deps \in [S -> SUBSET S], NEW k \in KahnState(S), Distinct(k.queue)
    PROVE  KahnStep(services, deps, k) \in KahnState(S)
<1>1. k.queue \in Seq(S) /\ k.degree \in [S -> Int] /\ k.result \in Seq(S)
  BY DEF KahnState
<1>2. CASE k.queue = <<>>
  BY <1>2 DEF KahnStep
<1>3. CASE k.queue # <<>>
  <2> DEFINE name == Head(k.queue)
             degree == [s \in S |-> IF name \in deps[s] THEN k.degree[s] - 1 ELSE k.degree[s]]
             ready == {s \in S : name \in deps[s] /\ degree[s] = 0}
             joined == Among(services, ready)
  <2>1. name \in S /\ Tail(k.queue) \in Seq(S)
    BY <1>1, <1>3, TailDistinct
  <2>2. degree \in [S -> Int]
    BY <1>1
  <2>3. joined \in Seq(S)
    BY AmongKeeps
  <2>4. Tail(k.queue) \o joined \in Seq(S) /\ Append(k.result, name) \in Seq(S)
    BY <1>1, <2>1, <2>3, ConcatDistinct, AppendDistinct
  <2>5. KahnStep(services, deps, k) =
            [queue |-> Tail(k.queue) \o joined, degree |-> degree, result |-> Append(k.result, name)]
    BY <1>3 DEF KahnStep
  <2> HIDE DEF name, degree, joined
  <2> QED BY <2>2, <2>4, <2>5 DEF KahnState
<1> QED BY <1>2, <1>3

LEMMA KahnStepOK ==
    ASSUME NEW S, IsFiniteSet(S), NEW services \in Seq(S), Distinct(services), ToSet(services) = S,
           NEW deps \in [S -> SUBSET S], NEW k, KahnOK(S, deps, k), k.queue # <<>>
    PROVE  /\ KahnOK(S, deps, KahnStep(services, deps, k))
           /\ Len(KahnStep(services, deps, k).result) = Len(k.result) + 1
<1> DEFINE name == Head(k.queue)
           degree == [s \in S |-> IF name \in deps[s] THEN k.degree[s] - 1 ELSE k.degree[s]]
           ready == {s \in S : name \in deps[s] /\ degree[s] = 0}
           joined == Among(services, ready)
           queue == Tail(k.queue) \o joined
           result == Append(k.result, name)
           done == ToSet(k.result)
<1>1. /\ k.queue \in Seq(S) /\ k.degree \in [S -> Int] /\ k.result \in Seq(S)
      /\ Distinct(k.result) /\ Distinct(k.queue) /\ done \cap ToSet(k.queue) = {}
  BY DEF KahnOK, KahnState
<1>2. /\ \A s \in S : k.degree[s] = Cardinality(deps[s] \ done)
      /\ \A s \in S : s \in done \cup ToSet(k.queue) <=> deps[s] \subseteq done
      /\ \A i \in 1 .. Len(k.result) : deps[k.result[i]] \subseteq {k.result[j] : j \in 1 .. i - 1}
  BY DEF KahnOK
<1>3. /\ name \in S /\ name \in ToSet(k.queue) /\ name \notin done /\ Tail(k.queue) \in Seq(S)
      /\ ToSet(Tail(k.queue)) = ToSet(k.queue) \ {name} /\ Distinct(Tail(k.queue))
  BY <1>1, TailDistinct
<1>4. KahnStep(services, deps, k) = [queue |-> queue, degree |-> degree, result |-> result]
  BY DEF KahnStep
<1> DEFINE past == k.result
<1>5. /\ result \in Seq(S) /\ Len(result) = Len(past) + 1 /\ Len(past) \in Nat
      /\ ToSet(result) = done \cup {name} /\ Distinct(result)
      /\ \A i \in 1 .. Len(past) : result[i] = past[i]
      /\ result[Len(past) + 1] = name
      /\ \A x : x \in done <=> \E i \in 1 .. Len(past) : x = past[i]
  <2>1. past \in Seq(S) /\ Distinct(past) /\ name \in S /\ name \notin ToSet(past)
    BY <1>1, <1>3
  <2>2. result = Append(past, name) /\ done = ToSet(past)
    OBVIOUS
  <2> HIDE DEF past, name, result, done
  <2>3. Len(past) \in Nat /\ \A x : x \in ToSet(past) <=> \E i \in 1 .. Len(past) : x = past[i]
    BY <2>1, ToSetOf
  <2>4. /\ Append(past, name) \in Seq(S) /\ Len(Append(past, name)) = Len(past) + 1
        /\ ToSet(Append(past, name)) = ToSet(past) \cup {name}
        /\ Distinct(Append(past, name))
        /\ \A i \in 1 .. Len(past) : Append(past, name)[i] = past[i]
        /\ Append(past, name)[Len(past) + 1] = name
    BY <2>1, AppendDistinct
  <2> QED BY <2>2, <2>3, <2>4
<1>6. /\ joined \in Seq(S) /\ Distinct(joined) /\ ToSet(joined) = ready
  <2>1. ready \subseteq S
    OBVIOUS
  <2> HIDE DEF ready
  <2>2. /\ Among(services, ready) \in Seq(S) /\ Distinct(Among(services, ready))
        /\ ToSet(Among(services, ready)) = ToSet(services) \cap ready
    BY AmongKeeps
  <2> QED BY <2>1, <2>2
<1> HIDE DEF name, queue, result, joined, done
<1>7. degree \in [S -> Int] /\ \A s \in S : degree[s] = Cardinality(deps[s] \ ToSet(result))
  <2>1. degree \in [S -> Int]
    BY <1>1
  <2>2. ASSUME NEW s \in S PROVE degree[s] = Cardinality(deps[s] \ ToSet(result))
    <3> DEFINE left == deps[s] \ done
    <3>1. IsFiniteSet(left)
      <4>1. left \subseteq S
        OBVIOUS
      <4> QED BY <4>1, FS_Subset
    <3>2. deps[s] \ ToSet(result) = left \ {name}
      BY <1>5
    <3>3. name \in deps[s] <=> name \in left
      BY <1>3
    <3>4. k.degree[s] = Cardinality(left)
      BY <1>2
    <3>5. degree[s] = IF name \in left THEN Cardinality(left) - 1 ELSE Cardinality(left)
      BY <3>3, <3>4
    <3> HIDE DEF left, degree
    <3> QED BY <3>1, <3>2, <3>5, FS_RemoveElement
  <2> QED BY <2>1, <2>2
<1>8. ready = {s \in S : name \in deps[s] /\ deps[s] \subseteq ToSet(result)}
  <2>1. ASSUME NEW s \in S PROVE degree[s] = 0 <=> deps[s] \subseteq ToSet(result)
    <3>1. IsFiniteSet(deps[s] \ ToSet(result))
      <4>1. deps[s] \ ToSet(result) \subseteq S
        OBVIOUS
      <4> QED BY <4>1, FS_Subset
    <3>2. Cardinality(deps[s] \ ToSet(result)) = 0 <=> deps[s] \ ToSet(result) = {}
      BY <3>1, FS_EmptySet
    <3> HIDE DEF degree
    <3> QED BY <1>7, <3>2
  <2> HIDE DEF degree
  <2> QED BY <2>1
<1> HIDE DEF degree, ready
<1>9. \A s \in ready : s \notin done \cup ToSet(k.queue)
  BY <1>2, <1>3, <1>8
<1>10. /\ queue \in Seq(S) /\ Distinct(queue)
       /\ ToSet(queue) = (ToSet(k.queue) \ {name}) \cup ready
  <2>1. ToSet(Tail(k.queue)) \cap ToSet(joined) = {}
    BY <1>3, <1>6, <1>9
  <2> DEFINE rest == Tail(k.queue)
  <2>2. rest \in Seq(S) /\ Distinct(rest) /\ ToSet(rest) = ToSet(k.queue) \ {name}
    BY <1>3
  <2>3. ToSet(rest) \cap ToSet(joined) = {} /\ queue = rest \o joined
    BY <2>1 DEF queue
  <2> HIDE DEF rest
  <2>4. /\ rest \o joined \in Seq(S) /\ Distinct(rest \o joined)
        /\ ToSet(rest \o joined) = ToSet(rest) \cup ToSet(joined)
    BY <1>6, <2>2, <2>3, ConcatDistinct
  <2> QED BY <1>6, <2>2, <2>3, <2>4
<1>11. ToSet(result) \cap ToSet(queue) = {}
  <2>1. \A s \in done : s \notin ToSet(k.queue)
    BY <1>1
  <2>2. name \notin ready
    BY <1>3, <1>9
  <2> QED BY <1>5, <1>9, <1>10, <2>1, <2>2
<1>12. \A s \in S : s \in ToSet(result) \cup ToSet(queue) <=> deps[s] \subseteq ToSet(result)
  <2> TAKE s \in S
  <2>1. s \in ToSet(result) \cup ToSet(queue) <=> s \in done \cup ToSet(k.queue) \cup ready
    BY <1>3, <1>5, <1>10
  <2>2. deps[s] \subseteq ToSet(result) <=> (deps[s] \subseteq done \/ s \in ready)
    BY <1>5, <1>8
  <2> QED BY <1>2, <2>1, <2>2
<1>13. \A i \in 1 .. Len(result) : deps[result[i]] \subseteq {result[j] : j \in 1 .. i - 1}
  <2> TAKE i \in 1 .. Len(result)
  <2>1. \A j \in 1 .. i - 1 : j \in 1 .. Len(k.result) /\ result[j] = k.result[j]
    BY <1>5
  <2>2. {result[j] : j \in 1 .. i - 1} = {k.result[j] : j \in 1 .. i - 1}
    BY <2>1
  <2>3. CASE i \in 1 .. Len(k.result)
    BY <1>2, <1>5, <2>2, <2>3
  <2>4. CASE i = Len(k.result) + 1
    <3>1. deps[name] \subseteq done
      BY <1>2, <1>3
    <3>2. done = {k.result[j] : j \in 1 .. i - 1}
      <4>1. i - 1 = Len(k.result)
        BY <1>5, <2>4
      <4>2. \A x : x \in done <=> x \in {k.result[j] : j \in 1 .. i - 1}
        BY <1>5, <4>1
      <4> QED BY <4>2
    <3> QED BY <1>5, <2>2, <2>4, <3>1, <3>2
  <2> QED BY <1>5, <2>3, <2>4
<1> DEFINE next == [queue |-> queue, degree |-> degree, result |-> result]
<1>14. /\ next \in KahnState(S)
       /\ next.queue = queue /\ next.degree = degree /\ next.result = result
  BY <1>5, <1>7, <1>10 DEF KahnState
<1> HIDE DEF next
<1>15. KahnOK(S, deps, next)
  <2>1. Distinct(next.result) /\ Distinct(next.queue) /\ ToSet(next.result) \cap ToSet(next.queue) = {}
    BY <1>5, <1>10, <1>11, <1>14, Zenon
  <2>2. \A s \in S : next.degree[s] = Cardinality(deps[s] \ ToSet(next.result))
    BY <1>7, <1>14, Zenon
  <2>3. \A s \in S : s \in ToSet(next.result) \cup ToSet(next.queue) <=> deps[s] \subseteq ToSet(next.result)
    BY <1>12, <1>14, Zenon
  <2>4. \A i \in 1 .. Len(next.result) :
            deps[next.result[i]] \subseteq {next.result[j] : j \in 1 .. i - 1}
    <3>1. next.result = result
      BY <1>14
    <3> HIDE DEF past
    <3> QED BY <1>13, <3>1, SMT
  <2> QED BY <1>14, <2>1, <2>2, <2>3, <2>4, Zenon DEF KahnOK
<1> QED BY <1>4, <1>5, <1>14, <1>15 DEF next

Roots(S, deps) == {s \in S : deps[s] = {}}

\* The loop begins with the services that depend on nothing.
FirstRound(S, deps, firstQueue) ==
    [queue |-> firstQueue, degree |-> [s \in S |-> Cardinality(deps[s])], result |-> <<>>]

LEMMA FirstRoundOK ==
    ASSUME NEW S, IsFiniteSet(S), NEW deps \in [S -> SUBSET S],
           NEW firstQueue \in Seq(S), Distinct(firstQueue), ToSet(firstQueue) = Roots(S, deps)
    PROVE  KahnOK(S, deps, FirstRound(S, deps, firstQueue))
<1> DEFINE k == FirstRound(S, deps, firstQueue)
<1>1. /\ k.queue = firstQueue /\ k.degree = [s \in S |-> Cardinality(deps[s])] /\ k.result = <<>>
  BY DEF FirstRound
<1>2. <<>> \in Seq(S) /\ Distinct(<<>>) /\ ToSet(<<>>) = {} /\ Len(<<>>) = 0
  BY EmptyIsDistinct
<1>3. \A s \in S : Cardinality(deps[s]) \in Int
  <2> TAKE s \in S
  <2>1. deps[s] \subseteq S
    OBVIOUS
  <2>2. Cardinality(deps[s]) \in Nat
    BY <2>1, FS_Subset, FS_CardinalityType
  <2> QED BY <2>2
<1>4. k \in KahnState(S)
  BY <1>2, <1>3 DEF KahnState, FirstRound
<1> HIDE DEF k
<1>5. Distinct(k.result) /\ Distinct(k.queue) /\ ToSet(k.result) \cap ToSet(k.queue) = {}
  BY <1>1, <1>2
<1>6. \A s \in S : k.degree[s] = Cardinality(deps[s] \ ToSet(k.result))
  <2> TAKE s \in S
  <2>1. deps[s] \ ToSet(k.result) = deps[s]
    BY <1>1, <1>2
  <2> QED BY <1>1, <2>1
<1>7. \A s \in S : s \in ToSet(k.result) \cup ToSet(k.queue) <=> deps[s] \subseteq ToSet(k.result)
  <2> TAKE s \in S
  <2>1. ToSet(k.result) = {} /\ ToSet(k.queue) = {t \in S : deps[t] = {}}
    BY <1>1, <1>2 DEF Roots
  <2> QED BY <2>1
<1>8. \A i \in 1 .. Len(k.result) : deps[k.result[i]] \subseteq {k.result[j] : j \in 1 .. i - 1}
  <2>1. Len(k.result) = 0
    BY <1>1, <1>2
  <2> QED BY <2>1
<1> QED BY <1>4, <1>5, <1>6, <1>7, <1>8 DEF KahnOK, k

Rounds(f, services, deps, firstQueue) ==
    /\ f[0] = FirstRound(ToSet(services), deps, firstQueue)
    /\ \A n \in 1 .. Len(services) : f[n] = KahnStep(services, deps, f[n - 1])

LEMMA KahnRounds ==
    ASSUME NEW S, IsFiniteSet(S), NEW services \in Seq(S), Distinct(services), ToSet(services) = S,
           NEW deps \in [S -> SUBSET S],
           NEW firstQueue \in Seq(S), Distinct(firstQueue), ToSet(firstQueue) = Roots(S, deps)
    PROVE  Rounds(Kahn(services, deps, firstQueue), services, deps, firstQueue)
<1> DEFINE N == Len(services)
           K == {k \in KahnState(S) : KahnOK(S, deps, k)}
           a == FirstRound(S, deps, firstQueue)
           h == [n \in 1 .. N |-> [k \in K |-> KahnStep(services, deps, k)]]
           F(g) == [n \in 0 .. N |-> IF n = 0 THEN a ELSE KahnStep(services, deps, g[n - 1])]
           chosen == CHOOSE g : g = F(g)
<1>1. N \in Nat
  BY LenProperties
<1>2. a \in K
  <2>1. KahnOK(S, deps, a)
    BY FirstRoundOK
  <2> HIDE DEF a
  <2> QED BY <2>1 DEF KahnOK
<1>3. \A k \in K : KahnStep(services, deps, k) \in K
  <2> TAKE k \in K
  <2>1. CASE k.queue = <<>>
    BY <2>1 DEF KahnStep
  <2>2. CASE k.queue # <<>>
    <3>1. KahnOK(S, deps, KahnStep(services, deps, k))
      BY <2>2, KahnStepOK
    <3> QED BY <3>1 DEF KahnOK
  <2> QED BY <2>1, <2>2
<1>4. h \in [1 .. N -> [K -> K]]
  <2> HIDE DEF K
  <2> QED BY <1>3
<1>5. PICK g \in [0 .. N -> K] : Iterates(g, a, h, N)
  <2> HIDE DEF h, N, a, K
  <2> QED BY <1>1, <1>2, <1>4, IterationExists
<1>6. g[0] = a /\ \A n \in 1 .. N : g[n] = KahnStep(services, deps, g[n - 1])
  <2> HIDE DEF a, K
  <2>1. \A n \in 1 .. N : g[n - 1] \in K
    BY <1>1
  <2> QED BY <1>5, <2>1 DEF Iterates
<1>7. g = F(g)
  <2>1. \A n \in 0 .. N : n = 0 \/ n \in 1 .. N
    BY <1>1
  <2> HIDE DEF a, K
  <2>2. \A n \in 0 .. N : g[n] = F(g)[n]
    BY <1>6, <2>1
  <2> QED BY <2>2
<1>8. chosen = F(chosen)
  <2>1. \E x : x = F(x)
    BY <1>7
  <2> HIDE DEF F
  <2> QED BY <2>1
<1>9. Kahn(services, deps, firstQueue) = chosen
  BY DEF Kahn, FirstRound
<1> HIDE DEF chosen, a
<1>10. \A n \in 0 .. N : chosen[n] = IF n = 0 THEN a ELSE KahnStep(services, deps, chosen[n - 1])
  BY <1>8
<1>11. chosen[0] = a /\ \A n \in 1 .. N : chosen[n] = KahnStep(services, deps, chosen[n - 1])
  <2>1. 0 \in 0 .. N /\ \A n \in 1 .. N : n \in 0 .. N /\ n # 0
    BY <1>1
  <2> QED BY <1>10, <2>1
<1> QED BY <1>9, <1>11 DEF Rounds, a

\* When the loop is over, the result is all that can be put in order.
LEMMA KahnEnds ==
    ASSUME NEW S, IsFiniteSet(S), NEW services \in Seq(S), Distinct(services), ToSet(services) = S,
           NEW deps \in [S -> SUBSET S],
           NEW firstQueue \in Seq(S), Distinct(firstQueue), ToSet(firstQueue) = Roots(S, deps)
    PROVE  LET k == Kahn(services, deps, firstQueue)[Len(services)]
           IN  KahnOK(S, deps, k) /\ k.queue = <<>>
<1> DEFINE N == Len(services)
           f == Kahn(services, deps, firstQueue)
           G == {n \in 0 .. N : KahnOK(S, deps, f[n]) /\ (f[n].queue = <<>> \/ Len(f[n].result) = n)}
<1>1. N \in Nat /\ N = Cardinality(S)
  <2>1. services \in SetToSeqs(S)
    BY IsPermutation
  <2> QED BY <2>1, PermutationOf, LenProperties
<1>2. f[0] = FirstRound(S, deps, firstQueue) /\ \A n \in 1 .. N : f[n] = KahnStep(services, deps, f[n - 1])
  <2>1. Rounds(f, services, deps, firstQueue)
    BY KahnRounds
  <2> HIDE DEF f
  <2> QED BY <2>1 DEF Rounds
<1> HIDE DEF f
<1>3. 0 \in G
  <2>1. KahnOK(S, deps, f[0])
    BY <1>2, FirstRoundOK
  <2>2. Len(f[0].result) = 0
    BY <1>2, EmptyIsDistinct DEF FirstRound
  <2> QED BY <1>1, <2>1, <2>2
<1>4. ASSUME NEW n \in 1 .. N, n - 1 \in G PROVE n \in G
  <2>1. /\ n \in 0 .. N /\ n - 1 \in 0 .. N /\ f[n] = KahnStep(services, deps, f[n - 1])
        /\ KahnOK(S, deps, f[n - 1]) /\ (f[n - 1].queue = <<>> \/ Len(f[n - 1].result) = n - 1)
    BY <1>1, <1>2, <1>4
  <2>2. CASE f[n - 1].queue = <<>>
    BY <2>1, <2>2 DEF KahnStep
  <2>3. CASE f[n - 1].queue # <<>>
    <3>1. KahnOK(S, deps, f[n]) /\ Len(f[n].result) = Len(f[n - 1].result) + 1
      BY <2>1, <2>3, KahnStepOK
    <3>2. Len(f[n].result) = n
      BY <1>1, <2>1, <2>3, <3>1
    <3> QED BY <2>1, <3>1, <3>2
  <2> QED BY <2>2, <2>3
<1>5. N \in G
  <2>1. \A n \in 1 .. N : n - 1 \in G => n \in G
    BY <1>4
  <2>2. N \in 0 .. N
    BY <1>1
  <2> HIDE DEF G, N
  <2>3. 0 .. N \subseteq G
    BY <1>1, <1>3, <2>1, Climb
  <2> QED BY <2>2, <2>3
<1> DEFINE k == f[N]
<1>6. KahnOK(S, deps, k) /\ (k.queue = <<>> \/ Len(k.result) = N)
  BY <1>5
<1> HIDE DEF k
<1>7. CASE k.queue # <<>>
  <2>1. /\ k.queue \in Seq(S) /\ k.result \in Seq(S) /\ Distinct(k.result) /\ Distinct(k.queue)
        /\ ToSet(k.result) \cap ToSet(k.queue) = {}
    BY <1>6 DEF KahnOK, KahnState
  <2>2. Len(k.result) = Cardinality(S)
    BY <1>1, <1>6, <1>7
  <2>3. ToSet(k.result) = S
    BY <2>1, <2>2, DistinctFits
  <2>4. Head(k.queue) \in S /\ Head(k.queue) \in ToSet(k.queue)
    BY <1>7, <2>1, TailDistinct
  <2> QED BY <2>1, <2>3, <2>4
<1> QED BY <1>6, <1>7 DEF k, f

-----------------------------------------------------------------------------
(***************************************************************************)
(* TopologicalSort.                                                        *)
(***************************************************************************)
\* It forgets no service and repeats none, whatever depends_on says; and a
\* service among the first ones comes after all it depends on, whereas each of
\* the others depends on another one of them.
Sorted(S, deps, order) ==
    /\ order \in Seq(S) /\ Distinct(order) /\ ToSet(order) = S
    /\ \E m \in 0 .. Len(order) :
          /\ \A i \in 1 .. m : deps[order[i]] \subseteq {order[j] : j \in 1 .. i - 1}
          /\ \A i \in 1 .. Len(order) :
                i \notin 1 .. m => \E d \in deps[order[i]] : d \notin {order[j] : j \in 1 .. m}

LEMMA SortIsSorted ==
    ASSUME NEW S, IsFiniteSet(S), NEW deps \in [S -> SUBSET S], NEW order \in Orders(S, deps)
    PROVE  Sorted(S, deps, order)
<1> DEFINE first == Roots(S, deps)
<1>1. PICK services \in SetToSeqs(S), firstQueue \in SetToSeqs(first) :
          order = TopologicalSort(services, deps, firstQueue)
  BY DEF Orders, Roots
<1>2. services \in Seq(S) /\ Distinct(services) /\ ToSet(services) = S
  BY PermutationOf
<1>3. firstQueue \in Seq(S) /\ Distinct(firstQueue) /\ ToSet(firstQueue) = first
  <2>1. first \subseteq S /\ IsFiniteSet(first)
    BY FS_Subset DEF Roots
  <2> HIDE DEF first
  <2>2. firstQueue \in Seq(first) /\ Distinct(firstQueue) /\ ToSet(firstQueue) = first
    BY <2>1, PermutationOf
  <2> QED BY <2>1, <2>2
<1> DEFINE k == Kahn(services, deps, firstQueue)[Len(services)]
           result == k.result
           rest == Among(services, S \ ToSet(result))
<1>4. KahnOK(S, deps, k) /\ k.queue = <<>>
  BY <1>2, <1>3, KahnEnds
<1>5. order = result \o rest
  BY <1>1, <1>2 DEF TopologicalSort
<1> HIDE DEF k
<1>6. /\ result \in Seq(S) /\ Distinct(result)
      /\ \A s \in S : s \in ToSet(result) <=> deps[s] \subseteq ToSet(result)
      /\ \A i \in 1 .. Len(result) : deps[result[i]] \subseteq {result[j] : j \in 1 .. i - 1}
  <2>1. ToSet(k.queue) = {}
    BY <1>4, EmptyIsDistinct
  <2>2. /\ k \in KahnState(S) /\ Distinct(k.result)
        /\ \A s \in S : s \in ToSet(k.result) \cup ToSet(k.queue) <=> deps[s] \subseteq ToSet(k.result)
        /\ \A i \in 1 .. Len(k.result) : deps[k.result[i]] \subseteq {k.result[j] : j \in 1 .. i - 1}
    BY <1>4 DEF KahnOK
  <2>3. k.result \in Seq(S)
    BY <2>2 DEF KahnState
  <2> QED BY <2>1, <2>2, <2>3
<1> HIDE DEF result
<1>7. rest \in Seq(S) /\ Distinct(rest) /\ ToSet(rest) = S \ ToSet(result)
  <2> DEFINE R == S \ ToSet(result)
  <2>1. S \cap R = R
    OBVIOUS
  <2> HIDE DEF R
  <2>2. Among(services, R) \in Seq(S) /\ Distinct(Among(services, R)) /\ ToSet(Among(services, R)) = S \cap R
    BY <1>2, AmongKeeps
  <2> QED BY <2>1, <2>2 DEF R
<1> HIDE DEF rest
<1>8. /\ order \in Seq(S) /\ Distinct(order) /\ ToSet(order) = S
      /\ Len(order) = Len(result) + Len(rest) /\ \A i \in 1 .. Len(result) : order[i] = result[i]
  <2>1. ToSet(result) \cap ToSet(rest) = {} /\ ToSet(result) \subseteq S
    BY <1>6, <1>7, ToSetOf
  <2>2. /\ result \o rest \in Seq(S) /\ Distinct(result \o rest)
        /\ ToSet(result \o rest) = ToSet(result) \cup ToSet(rest)
        /\ Len(result \o rest) = Len(result) + Len(rest)
        /\ \A i \in 1 .. Len(result) : (result \o rest)[i] = result[i]
    BY <1>6, <1>7, <2>1, ConcatDistinct
  <2> QED BY <1>5, <1>7, <2>1, <2>2
<1> DEFINE m == Len(result)
<1>9. m \in Nat /\ Len(rest) \in Nat /\ Len(order) \in Nat /\ m \in 0 .. Len(order)
  <2>1. m \in Nat /\ Len(rest) \in Nat
    BY <1>6, <1>7, LenProperties
  <2> QED BY <1>8, <2>1
<1>10. \A x : x \in ToSet(result) <=> \E i \in 1 .. m : x = result[i]
  BY <1>6, ToSetOf
<1>11. \A i \in 1 .. m : deps[order[i]] \subseteq {order[j] : j \in 1 .. i - 1}
  <2> TAKE i \in 1 .. m
  <2>1. \A j \in 1 .. i - 1 : j \in 1 .. m /\ order[j] = result[j]
    BY <1>8, <1>9
  <2>2. {order[j] : j \in 1 .. i - 1} = {result[j] : j \in 1 .. i - 1}
    BY <2>1
  <2>3. order[i] = result[i]
    BY <1>8
  <2> QED BY <1>6, <2>2, <2>3
<1>12. {order[j] : j \in 1 .. m} = ToSet(result)
  BY <1>8, <1>10
<1>13. ASSUME NEW i \in 1 .. Len(order), i \notin 1 .. m
       PROVE  \E d \in deps[order[i]] : d \notin {order[j] : j \in 1 .. m}
  <2>1. order[i] \in S
    BY <1>8, <1>9, ElementOfSeq
  <2>2. order[i] \notin {order[j] : j \in 1 .. m}
    <3>1. \A j \in 1 .. m : j \in 1 .. Len(order) /\ j # i
      BY <1>9, <1>13
    <3> QED BY <1>8, <3>1 DEF Distinct
  <2>3. ~(deps[order[i]] \subseteq ToSet(result))
    BY <1>6, <1>12, <2>1, <2>2
  <2> QED BY <1>12, <2>3
<1> HIDE DEF m
<1> QED BY <1>8, <1>9, <1>11, <1>13 DEF Sorted

\* Every order that TopologicalSort returns is a permutation of the services:
\* none is started twice or forgotten, cycles or not.
THEOREM OrdersArePermutations ==
    ASSUME NEW S, IsFiniteSet(S), NEW deps \in [S -> SUBSET S]
    PROVE  Orders(S, deps) \subseteq SetToSeqs(S)
BY SortIsSorted, IsPermutation DEF Sorted

\* TopologicalSort loses no service and repeats none, and puts each one after
\* all it depends on unless a cycle of depends_on is below it: for any number
\* of services, any depends_on and any iteration order of the maps.
THEOREM OrdersSort ==
    ASSUME NEW S, IsFiniteSet(S), NEW deps \in [S -> SUBSET S]
    PROVE  Sorts(S, deps)
<1> SUFFICES ASSUME NEW order \in Orders(S, deps)
             PROVE  /\ ToSet(order) = S /\ Len(order) = Cardinality(S)
                    /\ \A i, j \in DOMAIN order :
                          order[j] \in deps[order[i]] /\ ~CycleBelow(S, deps, order[i]) => j < i
  BY DEF Sorts
<1>1. order \in Seq(S) /\ Distinct(order) /\ ToSet(order) = S
  BY SortIsSorted DEF Sorted
<1>2. PICK m \in 0 .. Len(order) :
            /\ \A i \in 1 .. m : deps[order[i]] \subseteq {order[j] : j \in 1 .. i - 1}
            /\ \A i \in 1 .. Len(order) :
                  i \notin 1 .. m => \E d \in deps[order[i]] : d \notin {order[j] : j \in 1 .. m}
  BY SortIsSorted DEF Sorted
<1>3. Len(order) \in Nat /\ DOMAIN order = 1 .. Len(order)
  BY <1>1, LenProperties
<1>4. Len(order) = Cardinality(S)
  BY OrdersArePermutations, PermutationOf
<1> DEFINE T == S \ {order[j] : j \in 1 .. m}
<1>5. ASSUME NEW i \in DOMAIN order, NEW j \in DOMAIN order,
             order[j] \in deps[order[i]], ~CycleBelow(S, deps, order[i])
      PROVE  j < i
  <2>1. order[i] \in S /\ i \in 1 .. Len(order) /\ j \in 1 .. Len(order)
    BY <1>1, <1>3
  <2>2. i \in 1 .. m
    <3>1. SUFFICES ASSUME i \notin 1 .. m PROVE FALSE
      OBVIOUS
    <3>2. order[i] \in T
      <4>1. \A n \in 1 .. m : n \in 1 .. Len(order) /\ n # i
        BY <1>2, <1>3, <3>1
      <4>2. \A n \in 1 .. m : order[n] # order[i]
        BY <4>1, <2>1, <1>1 DEF Distinct
      <4> QED BY <4>2, <2>1
    <3>3. ASSUME NEW t \in T PROVE deps[t] \cap T # {}
      <4>1. PICK n \in 1 .. Len(order) : t = order[n]
        BY <1>1, ToSetOf
      <4>2. n \notin 1 .. m
        BY <4>1
      <4>3. PICK d \in deps[t] : d \notin {order[k] : k \in 1 .. m}
        BY <1>2, <4>1, <4>2
      <4>4. d \in S
        BY <4>3
      <4> QED BY <4>3, <4>4
    <3>4. CycleBelow(S, deps, order[i])
      <4>1. T \in SUBSET S
        OBVIOUS
      <4> HIDE DEF T
      <4> QED BY <4>1, <3>2, <3>3 DEF CycleBelow
    <3> QED BY <3>4, <1>5
  <2>3. PICK n \in 1 .. i - 1 : order[j] = order[n]
    BY <1>2, <1>5, <2>2
  <2>4. n \in 1 .. Len(order) /\ n < i
    BY <1>3, <2>1
  <2>5. n = j
    BY <1>1, <2>1, <2>3, <2>4 DEF Distinct
  <2> QED BY <2>4, <2>5
<1> QED BY <1>1, <1>4, <1>5

\* Every service of the order comes after those it depends on.
Topological(order, deps) ==
    \A i \in 1 .. Len(order) : deps[order[i]] \subseteq {order[j] : j \in 1 .. i - 1}

\* If depends_on can be satisfied at all (some permutation of the services is
\* topological), every order of TopologicalSort is topological: the promise of
\* its comment.
THEOREM OrdersAreTopological ==
    ASSUME NEW S, IsFiniteSet(S), NEW deps \in [S -> SUBSET S],
           NEW witness \in SetToSeqs(S), Topological(witness, deps)
    PROVE  \A order \in Orders(S, deps) : Topological(order, deps)
<1> TAKE order \in Orders(S, deps)
<1>1. /\ order \in Seq(S) /\ Distinct(order) /\ ToSet(order) = S
      /\ \E m \in 0 .. Len(order) :
            /\ \A i \in 1 .. m : deps[order[i]] \subseteq {order[j] : j \in 1 .. i - 1}
            /\ \A i \in 1 .. Len(order) :
                  i \notin 1 .. m => \E d \in deps[order[i]] : d \notin {order[j] : j \in 1 .. m}
  BY SortIsSorted DEF Sorted
<1>2. PICK m \in 0 .. Len(order) :
            /\ \A i \in 1 .. m : deps[order[i]] \subseteq {order[j] : j \in 1 .. i - 1}
            /\ \A i \in 1 .. Len(order) :
                  i \notin 1 .. m => \E d \in deps[order[i]] : d \notin {order[j] : j \in 1 .. m}
  BY <1>1
<1>3. witness \in Seq(S) /\ ToSet(witness) = S /\ Len(witness) \in Nat
  BY PermutationOf, LenProperties
<1>4. Len(order) \in Nat
  BY <1>1, LenProperties
<1> DEFINE first == {order[j] : j \in 1 .. m}
           T == {i \in 1 .. Len(witness) : witness[i] \notin first}
<1>5. CASE T = {}
  <2>1. S \subseteq first
    <3>1. \A x : x \in ToSet(witness) <=> \E i \in 1 .. Len(witness) : x = witness[i]
      BY <1>3, ToSetOf
    <3>2. \A i \in 1 .. Len(witness) : witness[i] \in first
      BY <1>5
    <3> HIDE DEF first, T
    <3> QED BY <1>3, <3>1, <3>2
  <2>2. ASSUME NEW i \in 1 .. Len(order), i \notin 1 .. m PROVE FALSE
    <3>1. PICK d \in deps[order[i]] : d \notin first
      BY <1>2, <2>2
    <3>2. order[i] \in S
      BY <1>1, <1>4, ElementOfSeq
    <3> QED BY <2>1, <3>1, <3>2
  <2> QED BY <1>2, <2>2 DEF Topological
<1>6. CASE T # {}
  <2>1. PICK i \in T : \A j \in T : i <= j
    <3>1. T \in SUBSET Nat
      OBVIOUS
    <3> HIDE DEF T
    <3> QED BY <1>6, <3>1, LeastOf
  <2>2. i \in 1 .. Len(witness) /\ witness[i] \notin first /\ witness[i] \in S
    BY <1>3, <2>1, ElementOfSeq
  <2>3. PICK n \in 1 .. Len(order) : witness[i] = order[n]
    BY <1>1, <2>2, ToSetOf
  <2>4. n \notin 1 .. m
    BY <2>2, <2>3
  <2>5. PICK d \in deps[witness[i]] : d \notin first
    BY <1>2, <2>3, <2>4
  <2>6. PICK j \in 1 .. i - 1 : d = witness[j]
    BY <2>2, <2>5 DEF Topological
  <2>7. j \in 1 .. Len(witness) /\ ~(i <= j)
    BY <1>3, <2>2
  <2>8. j \in T
    BY <2>5, <2>6, <2>7
  <2> QED BY <2>1, <2>7, <2>8
<1> QED BY <1>5, <1>6
=====
