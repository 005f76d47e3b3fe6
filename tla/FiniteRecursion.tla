--------------------------- MODULE FiniteRecursion ---------------------------
(***************************************************************************)
(* Induction and recursion over the natural numbers, stated of sets and    *)
(* functions instead of operators so that they can be cited in the proofs  *)
(* of modules whose definitions are recursive functions on an interval;    *)
(* what follows for concatenated sequences and for powers of two.          *)
(***************************************************************************)
EXTENDS Integers, Sequences, SequencesExt, FiniteSetTheorems,
        SequenceTheorems, TLAPS

\* A set of natural numbers that is not empty has a least member: the
\* intervals below them are finite sets, of which one is smallest.
LEMMA LeastMember ==
  ASSUME NEW T \in SUBSET Nat, T # {}
  PROVE  \E n \in T : \A m \in T : n <= m
<1> DEFINE Below(n) == 0 .. n - 1
           B == {Below(n) : n \in T}
           R == StrictSubsetOrdering(Nat)
           F == FiniteSubsetsOf(Nat)
<1>1. IsWellFoundedOn(R, F)
  BY FS_StrictSubsetOrderingWellFounded
<1>2. \A n \in Nat : IsFiniteSet(Below(n)) /\ Below(n) \in SUBSET Nat
  BY FS_Interval
<1>3. B \subseteq F /\ B # {}
  BY <1>2 DEF FiniteSubsetsOf
<1> HIDE DEF B, F, R
<1>4. PICK x \in B : \A y \in B : <<y, x>> \notin R
  BY <1>1, <1>3, WFMin
<1>5. PICK n \in T : x = Below(n)
  BY <1>4 DEF B
<1>6. ASSUME NEW m \in T, m < n PROVE FALSE
  <2>1. /\ Below(m) \in SUBSET Nat /\ Below(n) \in SUBSET Nat
        /\ Below(m) \subseteq Below(n) /\ Below(m) # Below(n)
    BY <1>6
  <2>2. <<Below(m), Below(n)>> \in R
    BY <2>1 DEF R, StrictSubsetOrdering
  <2>3. QED
    BY <1>4, <1>5, <2>2 DEF B
<1>7. QED
  BY <1>6

\* Induction: a set with 0 and with the successors of its members has every
\* natural number.
LEMMA Induction ==
  ASSUME NEW S, 0 \in S, \A n \in Nat : n \in S => n + 1 \in S
  PROVE  \A n \in Nat : n \in S
<1> SUFFICES ASSUME Nat \ S # {} PROVE FALSE
  OBVIOUS
<1>1. PICK n \in Nat \ S : \A m \in Nat \ S : n <= m
  BY LeastMember
<1>2. n - 1 \in Nat /\ (n - 1) + 1 = n
  BY <1>1
<1>3. n - 1 \in S
  BY <1>1, <1>2
<1>4. QED
  BY <1>1, <1>2, <1>3

\* The steps of a recursion of length N through values of T, and a function
\* that begins with base and goes on with them.  The provers match these names
\* where they are cited, not what they stand for.
Steps(T, N) == [1 .. N -> [T -> T]]

IsRecursion(f, T, N, base, step) ==
  /\ f \in [0 .. N -> T] /\ f[0] = base
  /\ \A n \in 1 .. N : f[n] = step[n][f[n - 1]]

\* Recursion: there is such a function.
LEMMA Recursion ==
  ASSUME NEW T, NEW base \in T, NEW N \in Nat, NEW step \in Steps(T, N)
  PROVE  \E f : IsRecursion(f, T, N, base, step)
<1> DEFINE Upto(n) == \E f \in [0 .. n -> T] :
             f[0] = base /\ \A k \in 1 .. n : f[k] = step[k][f[k - 1]]
           S == {n \in Nat : n <= N => Upto(n)}
<1>1. 0 \in S
  <2> DEFINE f == [k \in 0 .. 0 |-> base]
  <2>1. f \in [0 .. 0 -> T] /\ f[0] = base /\ 1 .. 0 = {}
    OBVIOUS
  <2> HIDE DEF f
  <2>2. Upto(0)
    BY <2>1
  <2>3. QED
    BY <2>2
<1>2. ASSUME NEW n \in Nat, n \in S PROVE n + 1 \in S
  <2> SUFFICES ASSUME n + 1 <= N PROVE Upto(n + 1)
    OBVIOUS
  <2>1. PICK f \in [0 .. n -> T] :
          f[0] = base /\ \A k \in 1 .. n : f[k] = step[k][f[k - 1]]
    BY <1>2
  <2>2. n + 1 \in 1 .. N /\ f[n] \in T
    OBVIOUS
  <2>3. step[n + 1][f[n]] \in T
    BY <2>2 DEF Steps
  <2> DEFINE g == [k \in 0 .. n + 1 |->
                     IF k = n + 1 THEN step[n + 1][f[n]] ELSE f[k]]
  <2>4. g \in [0 .. n + 1 -> T]
    BY <2>3
  <2>5. g[0] = base
    BY <2>1
  <2>6. ASSUME NEW k \in 1 .. n + 1 PROVE g[k] = step[k][g[k - 1]]
    <3>1. CASE k = n + 1
      BY <3>1
    <3>2. CASE k # n + 1
      <4>1. k \in 1 .. n /\ k - 1 \in 0 .. n /\ k - 1 # n + 1
        BY <3>2
      <4>2. g[k] = f[k] /\ g[k - 1] = f[k - 1]
        BY <4>1, <3>2
      <4>3. QED
        BY <2>1, <4>1, <4>2
    <3>3. QED
      BY <3>1, <3>2
  <2> HIDE DEF g
  <2>7. QED
    BY <2>4, <2>5, <2>6
<1>3. N \in S
  <2> HIDE DEF S
  <2>1. QED
    BY <1>1, <1>2, Induction
<1>4. QED
  BY <1>3 DEF IsRecursion

\* In a finite set of natural numbers there is, for every rank, a member with
\* so many others below it.
LEMMA Ranks ==
  ASSUME NEW S \in SUBSET Nat, IsFiniteSet(S)
  PROVE  \A i \in 1 .. Cardinality(S) : \E id \in S :
           Cardinality({lower \in S : lower < id}) = i - 1
<1> DEFINE Lower(id) == {lower \in S : lower < id}
           Ranked(k) == \E id \in S : Cardinality(Lower(id)) = k
           P == {k \in Nat : k < Cardinality(S) => Ranked(k)}
<1>1. Cardinality(S) \in Nat
  BY FS_CardinalityType
<1>2. ASSUME NEW T \in SUBSET S, Cardinality(T) < Cardinality(S)
      PROVE  \E id \in S \ T : \A m \in S \ T : id <= m
  <2>1. T # S
    BY <1>1, <1>2
  <2>2. S \ T # {} /\ S \ T \in SUBSET Nat
    BY <2>1
  <2>3. QED
    BY <2>2, LeastMember
<1>3. 0 \in P
  <2> SUFFICES ASSUME 0 < Cardinality(S) PROVE Ranked(0)
    OBVIOUS
  <2>1. PICK id \in S : \A m \in S : id <= m
    BY <1>2, FS_EmptySet
  <2>2. Lower(id) = {}
    <3>1. \A m \in S : m \in Nat /\ id \in Nat /\ id <= m
      BY <2>1
    <3>2. \A m \in S : ~(m < id)
      BY <3>1
    <3>3. QED
      BY <3>2
  <2>3. QED
    BY <2>2, FS_EmptySet
<1>4. ASSUME NEW k \in Nat, k \in P PROVE k + 1 \in P
  <2> SUFFICES ASSUME k + 1 < Cardinality(S) PROVE Ranked(k + 1)
    OBVIOUS
  <2>1. PICK below \in S : Cardinality(Lower(below)) = k
    BY <1>1, <1>4
  <2> DEFINE T == Lower(below) \cup {below}
  <2>2. IsFiniteSet(Lower(below)) /\ below \notin Lower(below)
    BY FS_Subset
  <2>3. T \in SUBSET S /\ Cardinality(T) = k + 1
    BY <2>1, <2>2, FS_AddElement
  <2>4. PICK id \in S \ T : \A m \in S \ T : id <= m
    BY <1>2, <2>3
  <2>5. Lower(id) = T
    <3>1. \A m \in S : m \in Nat
      OBVIOUS
    <3>2. id \in Nat /\ below \in Nat /\ below < id
      BY <2>4, <3>1
    <3>3. \A m \in S : m < id <=> (m < below \/ m = below)
      BY <2>4, <3>1, <3>2
    <3>4. QED
      BY <3>3
  <2>6. QED
    BY <2>3, <2>4, <2>5
<1>5. \A k \in Nat : k \in P
  <2> HIDE DEF P
  <2>1. QED
    BY <1>3, <1>4, Induction
<1>6. ASSUME NEW i \in 1 .. Cardinality(S) PROVE Ranked(i - 1)
  <2>1. i - 1 \in Nat /\ i - 1 < Cardinality(S)
    BY <1>1
  <2>2. i - 1 \in P
    <3> HIDE DEF P
    <3>1. QED
      BY <1>5, <2>1
  <2> HIDE DEF Ranked
  <2>3. QED
    BY <2>1, <2>2
<1>7. QED
  BY <1>6

-----------------------------------------------------------------------------
\* The concatenations of the first so many sequences of s, sequences over S.
IsFlattening(f, S, s) ==
  /\ f \in [0 .. Len(s) -> Seq(S)] /\ f[0] = << >>
  /\ \A i \in 1 .. Len(s) : f[i] = f[i - 1] \o s[i]

\* FlattenSeq ends such a recursion.
LEMMA FlattenRecursion ==
  ASSUME NEW S, NEW s \in Seq(Seq(S))
  PROVE  \E f : IsFlattening(f, S, s) /\ FlattenSeq(s) = f[Len(s)]
<1>1. CASE Len(s) = 0
  <2> DEFINE f == [i \in 0 .. 0 |-> << >>]
  <2>1. FlattenSeq(s) = << >>
    BY <1>1 DEF FlattenSeq
  <2>2. << >> \in Seq(S) /\ 1 .. 0 = {}
    OBVIOUS
  <2>3. f \in [0 .. 0 -> Seq(S)] /\ f[0] = << >>
    BY <2>2
  <2> HIDE DEF f
  <2>4. IsFlattening(f, S, s)
    BY <1>1, <2>2, <2>3 DEF IsFlattening
  <2>5. QED
    BY <1>1, <2>1, <2>3, <2>4
<1>2. CASE Len(s) # 0
  <2> DEFINE N == Len(s)
             Body(f) == [i \in 1 .. N |->
                           IF i = 1 THEN s[i] ELSE f[i - 1] \o s[i]]
             flatten == CHOOSE f : f = Body(f)
             step == [k \in 1 .. N - 1 |-> [v \in Seq(S) |-> v \o s[k + 1]]]
  <2>1. /\ N \in Nat /\ N - 1 \in Nat /\ 1 \in 1 .. N
        /\ \A i \in 1 .. N : s[i] \in Seq(S)
    BY <1>2
  <2>2. step \in [1 .. N - 1 -> [Seq(S) -> Seq(S)]]
    <3>1. ASSUME NEW k \in 1 .. N - 1, NEW v \in Seq(S)
          PROVE  v \o s[k + 1] \in Seq(S)
      <4>1. k + 1 \in 1 .. N
        BY <2>1
      <4>2. s[k + 1] \in Seq(S)
        BY <2>1, <4>1
      <4>3. QED
        BY <4>2
    <3>2. QED
      BY <3>1
  <2> HIDE DEF N
  <2>3. PICK g \in [0 .. N - 1 -> Seq(S)] :
          /\ g[0] = s[1]
          /\ \A k \in 1 .. N - 1 : g[k] = step[k][g[k - 1]]
    <3> HIDE DEF step
    <3>1. s[1] \in Seq(S) /\ step \in Steps(Seq(S), N - 1)
      BY <2>1, <2>2 DEF Steps
    <3>2. \E g : IsRecursion(g, Seq(S), N - 1, s[1], step)
      BY <2>1, <3>1, Recursion
    <3>3. QED
      BY <3>2 DEF IsRecursion
  <2> DEFINE h == [i \in 1 .. N |-> g[i - 1]]
  <2>4. ASSUME NEW i \in 1 .. N
        PROVE  h[i] = IF i = 1 THEN s[i] ELSE h[i - 1] \o s[i]
    <3>1. CASE i = 1
      BY <2>3, <3>1
    <3>2. CASE i # 1
      <4>1. /\ i - 1 \in 1 .. N - 1 /\ (i - 1) - 1 \in 0 .. N - 1
            /\ (i - 1) + 1 = i /\ i - 1 \in 1 .. N
        BY <2>1, <3>2
      <4>2. g[i - 1] = g[(i - 1) - 1] \o s[(i - 1) + 1]
        BY <2>3, <4>1
      <4>3. h[i] = g[i - 1] /\ h[i - 1] = g[(i - 1) - 1]
        BY <4>1
      <4>4. QED
        BY <3>2, <4>1, <4>2, <4>3
    <3>3. QED
      BY <3>1, <3>2
  <2>5. h = Body(h)
    <3>1. h = [i \in 1 .. N |-> h[i]]
      OBVIOUS
    <3> HIDE DEF h
    <3>2. QED
      BY <2>4, <3>1
  <2>6. flatten = Body(flatten)
    <3> HIDE DEF Body, h
    <3>1. QED
      BY <2>5
  <2>7. FlattenSeq(s) = flatten[N]
    BY <1>2 DEF FlattenSeq, N
  <2>8. \A i \in 1 .. N : flatten[i] = IF i = 1 THEN s[i]
                                        ELSE flatten[i - 1] \o s[i]
    <3> HIDE DEF flatten
    <3>1. QED
      BY <2>6
  <2> HIDE DEF flatten
  <2> DEFINE P == {n \in Nat : n + 1 <= N => flatten[n + 1] \in Seq(S)}
  <2>9. 0 \in P
    <3>1. flatten[1] = s[1] /\ s[1] \in Seq(S)
      BY <2>1, <2>8
    <3>2. QED
      BY <3>1
  <2>10. ASSUME NEW n \in Nat, n \in P PROVE n + 1 \in P
    <3> SUFFICES ASSUME n + 2 <= N PROVE flatten[n + 2] \in Seq(S)
      BY <2>1
    <3>1. /\ n + 2 \in 1 .. N /\ n + 2 # 1 /\ (n + 2) - 1 = n + 1
          /\ flatten[n + 1] \in Seq(S)
      BY <2>1, <2>10
    <3>2. flatten[n + 2] = flatten[n + 1] \o s[n + 2] /\ s[n + 2] \in Seq(S)
      BY <2>1, <2>8, <3>1
    <3>3. QED
      BY <3>1, <3>2
  <2> HIDE DEF P
  <2>11. \A n \in Nat : n \in P
    BY <2>9, <2>10, Induction
  <2>13. \A i \in 1 .. N : flatten[i] \in Seq(S)
    <3>1. \A i \in 1 .. N : i - 1 \in Nat /\ (i - 1) + 1 = i /\ i <= N
      BY <2>1
    <3>2. \A i \in 1 .. N : i - 1 \in P
      BY <2>11, <3>1
    <3>3. QED
      BY <3>1, <3>2 DEF P
  <2> DEFINE e == [i \in 0 .. N |-> IF i = 0 THEN << >> ELSE flatten[i]]
  <2>14. ASSUME NEW i \in 0 .. N PROVE e[i] \in Seq(S)
    <3>1. CASE i = 0
      BY <3>1
    <3>2. CASE i # 0
      <4>1. i \in 1 .. N
        BY <2>1, <3>2
      <4>2. QED
        BY <2>13, <3>2, <4>1
    <3>3. QED
      BY <3>1, <3>2
  <2>15. ASSUME NEW i \in 1 .. N PROVE e[i] = e[i - 1] \o s[i]
    <3>1. e[i] = flatten[i] /\ s[i] \in Seq(S)
      BY <2>1
    <3>2. CASE i = 1
      <4>1. e[i - 1] = << >> /\ e[i] = s[i]
        BY <2>1, <2>8, <3>1, <3>2
      <4>2. QED
        BY <3>1, <4>1, ConcatEmptySeq
    <3>3. CASE i # 1
      <4>1. e[i - 1] = flatten[i - 1]
        BY <2>1, <3>3
      <4>2. QED
        BY <2>8, <3>1, <3>3, <4>1
    <3>4. QED
      BY <3>2, <3>3
  <2>16. e \in [0 .. N -> Seq(S)] /\ e[0] = << >> /\ e[N] = flatten[N]
    BY <2>1, <2>14
  <2> HIDE DEF e
  <2>17. IsFlattening(e, S, s)
    BY <2>15, <2>16 DEF IsFlattening, N
  <2>18. QED
    BY <2>7, <2>16, <2>17 DEF N
<1>3. QED
  BY <1>1, <1>2

\* The concatenation of sequences over a set is a sequence over it.
LEMMA FlattenTyped ==
  ASSUME NEW S, NEW s \in Seq(Seq(S))
  PROVE  FlattenSeq(s) \in Seq(S)
<1>1. PICK f : IsFlattening(f, S, s) /\ FlattenSeq(s) = f[Len(s)]
  BY FlattenRecursion
<1>2. Len(s) \in 0 .. Len(s)
  OBVIOUS
<1>3. QED
  BY <1>1, <1>2 DEF IsFlattening

\* The members of a concatenation are those of its parts.
LEMMA ConcatMembers ==
  ASSUME NEW S, NEW a \in Seq(S), NEW b \in Seq(S)
  PROVE  ToSet(a \o b) = ToSet(a) \cup ToSet(b)
<1>1. /\ Len(a \o b) = Len(a) + Len(b)
      /\ \A i \in 1 .. Len(a) + Len(b) :
           (a \o b)[i] = IF i <= Len(a) THEN a[i] ELSE b[i - Len(a)]
      /\ a \o b \in Seq(S)
  BY ConcatProperties
<1>2. /\ DOMAIN a = 1 .. Len(a) /\ DOMAIN b = 1 .. Len(b)
      /\ DOMAIN (a \o b) = 1 .. Len(a) + Len(b)
      /\ Len(a) \in Nat /\ Len(b) \in Nat
  BY <1>1
<1>3. ASSUME NEW i \in DOMAIN (a \o b)
      PROVE  (a \o b)[i] \in ToSet(a) \cup ToSet(b)
  <2>1. CASE i <= Len(a)
    BY <1>1, <1>2, <2>1 DEF ToSet
  <2>2. CASE ~(i <= Len(a))
    <3>1. i - Len(a) \in DOMAIN b /\ (a \o b)[i] = b[i - Len(a)]
      BY <1>1, <1>2, <2>2
    <3>2. QED
      BY <3>1 DEF ToSet
  <2>3. QED
    BY <2>1, <2>2
<1>4. ASSUME NEW i \in DOMAIN a PROVE a[i] \in ToSet(a \o b)
  <2>1. i \in DOMAIN (a \o b) /\ (a \o b)[i] = a[i]
    BY <1>1, <1>2
  <2>2. QED
    BY <2>1 DEF ToSet
<1>5. ASSUME NEW i \in DOMAIN b PROVE b[i] \in ToSet(a \o b)
  <2>1. /\ Len(a) + i \in DOMAIN (a \o b)
        /\ ~(Len(a) + i <= Len(a)) /\ (Len(a) + i) - Len(a) = i
    BY <1>2
  <2>2. (a \o b)[Len(a) + i] = b[i]
    BY <1>1, <1>2, <2>1
  <2>3. QED
    BY <2>1, <2>2 DEF ToSet
<1>6. ToSet(a \o b) \subseteq ToSet(a) \cup ToSet(b)
  BY <1>3 DEF ToSet
<1>7. ToSet(a) \cup ToSet(b) \subseteq ToSet(a \o b)
  BY <1>4, <1>5 DEF ToSet
<1>8. QED
  BY <1>6, <1>7

\* So are those of the concatenation of a sequence of sequences.
LEMMA FlattenMembers ==
  ASSUME NEW S, NEW s \in Seq(Seq(S))
  PROVE  ToSet(FlattenSeq(s)) = UNION {ToSet(s[i]) : i \in 1 .. Len(s)}
<1>1. PICK f : IsFlattening(f, S, s) /\ FlattenSeq(s) = f[Len(s)]
  BY FlattenRecursion
<1> DEFINE Upto(n) == UNION {ToSet(s[i]) : i \in 1 .. n}
           P == {n \in Nat : n <= Len(s) => ToSet(f[n]) = Upto(n)}
<1>2. 0 \in P
  <2>1. f[0] = << >> /\ ToSet(<< >>) = {} /\ Upto(0) = {}
    BY <1>1 DEF IsFlattening, ToSet
  <2>2. QED
    BY <2>1
<1>3. ASSUME NEW n \in Nat, n \in P PROVE n + 1 \in P
  <2> SUFFICES ASSUME n + 1 <= Len(s) PROVE ToSet(f[n + 1]) = Upto(n + 1)
    OBVIOUS
  <2>1. /\ n + 1 \in 1 .. Len(s) /\ (n + 1) - 1 = n /\ n \in 0 .. Len(s)
        /\ ToSet(f[n]) = Upto(n)
    <3> HIDE DEF Upto
    <3>1. n <= Len(s)
      OBVIOUS
    <3>2. ToSet(f[n]) = Upto(n)
      BY <1>3, <3>1
    <3>3. QED
      BY <3>1, <3>2
  <2>2. f[n + 1] = f[n] \o s[n + 1] /\ f[n] \in Seq(S) /\ s[n + 1] \in Seq(S)
    <3>1. s[n + 1] \in Seq(S)
      BY <2>1
    <3>2. f \in [0 .. Len(s) -> Seq(S)] /\ f[n + 1] = f[n] \o s[n + 1]
      BY <1>1, <2>1 DEF IsFlattening
    <3>3. QED
      BY <2>1, <3>1, <3>2
  <2>3. ToSet(f[n + 1]) = ToSet(f[n]) \cup ToSet(s[n + 1])
    BY <2>2, ConcatMembers
  <2>4. \A i : i \in 1 .. n + 1 <=> i \in 1 .. n \/ i = n + 1
    OBVIOUS
  <2>5. Upto(n + 1) = Upto(n) \cup ToSet(s[n + 1])
    BY <2>4
  <2>6. QED
    BY <2>1, <2>3, <2>5
<1>4. \A n \in Nat : n \in P
  <2> HIDE DEF P
  <2>1. QED
    BY <1>2, <1>3, Induction
<1>5. ToSet(f[Len(s)]) = Upto(Len(s))
  <2> HIDE DEF Upto
  <2>1. Len(s) \in Nat
    OBVIOUS
  <2>2. QED
    BY <1>4, <2>1
<1>6. QED
  BY <1>1, <1>5

-----------------------------------------------------------------------------
\* A power of two counts the subsets of a finite set, of which one more member
\* makes twice as many.
LEMMA Doubling == \A n \in Nat : 2^n \in Nat /\ 2^(n + 1) = 2 * 2^n
<1> SUFFICES ASSUME NEW n \in Nat
             PROVE  2^n \in Nat /\ 2^(n + 1) = 2 * 2^n
  OBVIOUS
<1> DEFINE Old == SUBSET (1 .. n)
           New == {T \cup {n + 1} : T \in Old}
           f == [T \in Old |-> T \cup {n + 1}]
<1>1. /\ IsFiniteSet(1 .. n) /\ Cardinality(1 .. n) = n
      /\ IsFiniteSet(1 .. n + 1) /\ Cardinality(1 .. n + 1) = n + 1
  BY FS_Interval
<1>2. /\ IsFiniteSet(Old) /\ Cardinality(Old) = 2^n
      /\ Cardinality(SUBSET (1 .. n + 1)) = 2^(n + 1)
  <2>1. /\ IsFiniteSet(SUBSET (1 .. n))
        /\ Cardinality(SUBSET (1 .. n)) = 2^Cardinality(1 .. n)
    BY <1>1, FS_SUBSET
  <2>2. Cardinality(SUBSET (1 .. n + 1)) = 2^Cardinality(1 .. n + 1)
    BY <1>1, FS_SUBSET
  <2>3. QED
    BY <1>1, <2>1, <2>2
<1>3. SUBSET (1 .. n + 1) = Old \cup New
  <2>1. 1 .. n + 1 = (1 .. n) \cup {n + 1}
    OBVIOUS
  <2>2. ASSUME NEW T \in SUBSET (1 .. n + 1), n + 1 \in T
        PROVE  T \in New
    <3>1. T \ {n + 1} \in Old /\ T = (T \ {n + 1}) \cup {n + 1}
      BY <2>1, <2>2
    <3>2. QED
      BY <3>1
  <2>3. QED
    BY <2>1, <2>2
<1>4. n + 1 \notin 1 .. n
  OBVIOUS
<1>5. Old \cap New = {}
  BY <1>4
<1>6. f \in Bijection(Old, New)
  <2>1. \A S, T \in Old : f[S] = f[T] => S = T
    BY <1>4
  <2>2. f \in [Old -> New] /\ \A U \in New : \E T \in Old : f[T] = U
    OBVIOUS
  <2>3. QED
    BY <2>1, <2>2 DEF Bijection, Injection, Surjection, IsInjective
<1>7. IsFiniteSet(New) /\ Cardinality(New) = Cardinality(Old)
  <2>1. ExistsBijection(Old, New)
    BY <1>6 DEF ExistsBijection
  <2> HIDE DEF Old, New
  <2>2. QED
    BY <1>2, <2>1, FS_Bijection
<1>8. Cardinality(Old) \in Nat /\ Cardinality({}) = 0
  <2> HIDE DEF Old
  <2>1. QED
    BY <1>2, FS_CardinalityType, FS_EmptySet
<1>9. Cardinality(Old \cup New) = Cardinality(Old) + Cardinality(New) - 0
  <2> HIDE DEF Old, New
  <2>1. Cardinality(Old \cup New)
          = Cardinality(Old) + Cardinality(New) - Cardinality(Old \cap New)
    BY <1>2, <1>7, FS_Union
  <2>2. QED
    BY <1>5, <1>8, <2>1
<1>10. 2^(n + 1) = Cardinality(Old) + Cardinality(Old) - 0
  BY <1>2, <1>3, <1>7, <1>9
<1>11. QED
  <2> HIDE DEF Old
  <2>1. 2 * Cardinality(Old) = Cardinality(Old) + Cardinality(Old) - 0
    BY <1>8
  <2>2. QED
    BY <1>2, <1>8, <1>10, <2>1

\* A larger exponent gives no smaller power.
LEMMA PowersGrow == \A j, k \in Nat : j <= k => 2^j <= 2^k
<1> DEFINE S == {d \in Nat : \A j \in Nat : 2^j <= 2^(j + d)}
<1>1. 0 \in S
  <2>1. \A j \in Nat : j + 0 = j /\ 2^j \in Nat
    BY Doubling
  <2>2. QED
    BY <2>1
<1>2. ASSUME NEW d \in Nat, d \in S
      PROVE  d + 1 \in S
  <2>1. ASSUME NEW j \in Nat
        PROVE  2^j <= 2^(j + (d + 1))
    <3>1. /\ 2^j <= 2^(j + d)
          /\ j + d \in Nat /\ j + (d + 1) = (j + d) + 1
      BY <1>2
    <3>2. 2^j \in Nat /\ 2^(j + d) \in Nat /\ 2^((j + d) + 1) = 2 * 2^(j + d)
      BY <3>1, Doubling
    <3>3. QED
      BY <3>1, <3>2
  <2>2. QED
    BY <2>1
<1>3. \A d \in Nat : d \in S
  <2> HIDE DEF S
  <2>1. QED
    BY <1>1, <1>2, Induction
<1>4. ASSUME NEW j \in Nat, NEW k \in Nat, j <= k
      PROVE  2^j <= 2^k
  <2>1. k - j \in Nat /\ j + (k - j) = k
    BY <1>4
  <2>2. QED
    BY <1>3, <2>1
<1>5. QED
  BY <1>4
=============================================================================
