----------------------------- MODULE SequenceLemmas -----------------------------
(* What the operators on sequences that the models use do to the elements, *)
(* and the induction that folds need.                                      *)
EXTENDS Naturals, Sequences, SequencesExt, Functions, Selection, SequenceTheorems,
        FiniteSets, FiniteSetTheorems, WellFoundedInduction, TLAPS

(* The elements of a sequence are those at its places.                     *)
LEMMA RangeIsElements ==
    ASSUME NEW S, NEW q \in Seq(S)
    PROVE  /\ Range(q) \subseteq S
           /\ \A e : e \in Range(q) <=> \E i \in 1..Len(q) : q[i] = e
  BY DEF Range

(* Taking the first element away adds none.                                *)
LEMMA TailElements ==
    ASSUME NEW S, NEW q \in Seq(S), q # <<>>
    PROVE  /\ Tail(q) \in Seq(S) /\ Head(q) \in S /\ Head(q) \in Range(q)
           /\ Range(Tail(q)) \subseteq Range(q)
<1>1. Tail(q) \in Seq(S) /\ Head(q) \in S /\ Head(q) = q[1] /\ 1 \in 1..Len(q)
  OBVIOUS
<1>2. ASSUME NEW e \in Range(Tail(q)) PROVE e \in Range(q)
  <2>1. PICK i \in 1..Len(Tail(q)) : Tail(q)[i] = e
    BY <1>1, RangeIsElements
  <2>2. i + 1 \in 1..Len(q) /\ q[i + 1] = e
    BY <2>1
  <2>3. QED BY <2>2, RangeIsElements
<1>3. QED BY <1>1, <1>2, RangeIsElements

(* Appending adds one element.                                             *)
LEMMA AppendElements ==
    ASSUME NEW S, NEW q \in Seq(S), NEW x \in S
    PROVE  Append(q, x) \in Seq(S) /\ Range(Append(q, x)) = Range(q) \cup {x}
<1>1. /\ Append(q, x) \in Seq(S) /\ Len(Append(q, x)) = Len(q) + 1 /\ Len(q) \in Nat
      /\ Append(q, x)[Len(q) + 1] = x /\ \A i \in 1..Len(q) : Append(q, x)[i] = q[i]
  OBVIOUS
<1>2. ASSUME NEW e PROVE e \in Range(Append(q, x)) <=> e \in Range(q) \cup {x}
  <2>1. e \in Range(Append(q, x)) <=> \E i \in 1..Len(q) + 1 : Append(q, x)[i] = e
    <3> DEFINE a == Append(q, x)
    <3> HIDE DEF a
    <3>1. a \in Seq(S) /\ Len(a) = Len(q) + 1
      BY <1>1 DEF a
    <3>2. QED BY <3>1, RangeIsElements DEF a
  <2>2. e \in Range(q) <=> \E i \in 1..Len(q) : q[i] = e
    BY RangeIsElements
  <2>3. \A i \in 1..Len(q) + 1 : i \in 1..Len(q) \/ i = Len(q) + 1
    BY <1>1
  <2>4. Len(q) + 1 \in 1..Len(q) + 1 /\ 1..Len(q) \subseteq 1..Len(q) + 1
    BY <1>1
  <2>5. QED BY <2>1, <2>2, <2>3, <2>4, <1>1
<1>3. QED BY <1>1, <1>2

(* Sequences of one element.                                               *)
LEMMA OneElement ==
    ASSUME NEW x
    PROVE  /\ Append(<<>>, x) = <<x>> /\ <<>> \o <<x>> = <<x>>
           /\ Len(<<x>>) = 1 /\ Head(<<x>>) = x /\ Tail(<<x>>) = <<>>
<1>1. Append(<<>>, x) = <<x>> /\ Len(<<x>>) = 1 /\ Head(<<x>>) = x
  OBVIOUS
<1>2. <<>> \o <<x>> = <<x>>
  OBVIOUS
<1>3. Tail(<<x>>) = <<>>
  <2>1. <<x>> \in Seq({x}) /\ Len(<<x>>) = 1
    OBVIOUS
  <2>2. Tail(<<x>>) \in Seq({x}) /\ Len(Tail(<<x>>)) = 0
    BY <2>1
  <2>3. QED BY <2>2
<1>4. QED BY <1>1, <1>2, <1>3

(* Joining two sequences joins their elements.                             *)
LEMMA ConcatElements ==
    ASSUME NEW S, NEW q \in Seq(S), NEW r \in Seq(S)
    PROVE  q \o r \in Seq(S) /\ Range(q \o r) = Range(q) \cup Range(r)
<1>1. q \o r \in Seq(S)
  OBVIOUS
<1>2. Range(q \o r) = Range(q) \cup Range(r)
  BY RangeConcatenation
<1>3. QED BY <1>1, <1>2

(* A suffix has no other elements.                                         *)
LEMMA SuffixElements ==
    ASSUME NEW S, NEW q \in Seq(S), NEW t \in Suffixes(q)
    PROVE  t \in Seq(S) /\ Range(t) \subseteq Range(q) /\ Len(t) <= Len(q)
<1>1. CASE t = <<>>
  BY <1>1 DEF Range
<1>2. CASE t # <<>>
  <2>1. PICK l \in 1..Len(q) : t = SubSeq(q, l, Len(q))
    BY <1>2 DEF Suffixes
  <2>2. t \in Seq(S) /\ Len(t) = Len(q) - l + 1 /\ \A i \in 1..Len(t) : t[i] = q[l + i - 1] /\ l + i - 1 \in 1..Len(q)
    BY <2>1
  <2>3. QED BY <2>2, RangeIsElements
<1>3. QED BY <1>1, <1>2

(* Every set of numbers that is not empty has a least one; the induction   *)
(* theorems of the library cannot be instantiated, this can.               *)
LEMMA LeastNumber ==
  ASSUME NEW T, T \subseteq Nat, T # {}
  PROVE \E m \in T : \A k \in T : m <= k
<1>1. PICK x \in T : \A y \in T : ~ (<<y, x>> \in OpToRel(<, Nat))
  BY NatLessThanWellFounded, WFMin
<1>2. \A y \in T : ~ (y < x)
  BY <1>1 DEF OpToRel
<1>3. \A y \in T : x <= y
  BY <1>2
<1>4. QED BY <1>3

(* A set of numbers up to n has a greatest one, and Max is it.             *)
LEMMA GreatestNumber ==
  ASSUME NEW n \in Nat, NEW T, T \subseteq 0..n, T # {}
  PROVE  /\ Max(T) \in T /\ \A k \in T : k <= Max(T)
         /\ \A m \in T : (\A k \in T : k <= m) => Max(T) = m
<1> DEFINE U == {u \in Nat : \A k \in T : k <= u}
<1>1. U \subseteq Nat /\ n \in U /\ T \subseteq Nat
  OBVIOUS
<1>2. PICK m \in U : \A u \in U : m <= u
  BY <1>1, LeastNumber
<1>3. m \in T
  <2>1. SUFFICES ASSUME m \notin T PROVE FALSE
    OBVIOUS
  <2>2. m # 0
    <3>1. PICK k \in T : k \in 0..n
      OBVIOUS
    <3>2. k <= m /\ k # m
      BY <3>1, <2>1
    <3>3. QED BY <3>1, <3>2
  <2>3. m - 1 \in Nat /\ \A k \in T : k <= m - 1
    BY <2>1, <2>2, <1>2
  <2>4. QED BY <2>3, <1>2
<1>4. \E x \in T : \A y \in T : x >= y
  BY <1>2, <1>3
<1>5. Max(T) \in T /\ \A k \in T : Max(T) >= k
  BY <1>4 DEF Max
<1>6. ASSUME NEW k \in T, \A j \in T : j <= k PROVE Max(T) = k
  <2>1. Max(T) \in T /\ Max(T) >= k /\ Max(T) <= k
    BY <1>5, <1>6
  <2>2. k \in Nat /\ Max(T) \in Nat
    BY <2>1, <1>1
  <2>3. QED BY <2>1, <2>2
<1>7. \A k \in T : k <= Max(T)
  BY <1>5
<1>8. QED BY <1>5, <1>6, <1>7

(* What MapThenFoldSet defines for a sequence: the fold of f over each set *)
(* of places, from the left.                                               *)
IsFold(it, f, base, seq) ==
  \A s \in SUBSET (DOMAIN seq) :
    it[s] = IF s = {} THEN base ELSE f[<<it[s \ {Max(s)}], seq[Max(s)]>>]

(* There is such a function: no definition of a fold is empty.             *)
LEMMA FoldExists ==
  ASSUME NEW A, NEW B, NEW seq \in Seq(B), NEW base \in A, NEW f \in [A \X B -> A]
  PROVE \E it \in [SUBSET (DOMAIN seq) -> A] : IsFold(it, f, base, seq)
<1> DEFINE Step(it, s) == IF s = {} THEN base ELSE f[<<it[s \ {Max(s)}], seq[Max(s)]>>]
           Good(k) == \E it \in [SUBSET (1..k) -> A] : \A s \in SUBSET (1..k) : it[s] = Step(it, s)
           Bad == {k \in 0..Len(seq) : ~Good(k)}
<1>1. DOMAIN seq = 1..Len(seq) /\ Len(seq) \in Nat /\ Bad \subseteq Nat
  OBVIOUS
<1>2. Bad = {}
  <2> SUFFICES ASSUME Bad # {} PROVE FALSE
    OBVIOUS
  <2>1. PICK m \in Bad : \A k \in Bad : m <= k
    BY <1>1, LeastNumber
  <2>2. m # 0
    <3> DEFINE it == [s \in SUBSET (1..0) |-> base]
    <3>1. it \in [SUBSET (1..0) -> A] /\ \A s \in SUBSET (1..0) : s = {} /\ it[s] = base
      OBVIOUS
    <3>2. Good(0)
      BY <3>1
    <3>3. QED BY <3>2
  <2>3. m - 1 \in 0..Len(seq) /\ m \in 1..Len(seq) /\ Good(m - 1)
    <3> HIDE DEF Good
    <3>1. m \in 0..Len(seq) /\ m - 1 \in 0..Len(seq) /\ m \in 1..Len(seq)
      BY <2>2, <1>1
    <3>2. m - 1 \notin Bad
      BY <2>1, <3>1, <1>1
    <3>3. QED BY <3>1, <3>2
  <2>4. PICK g \in [SUBSET (1..m-1) -> A] : \A s \in SUBSET (1..m-1) : g[s] = Step(g, s)
    BY <2>3
  <2> DEFINE h == [s \in SUBSET (1..m) |-> IF m \in s THEN f[<<g[s \ {m}], seq[m]>>] ELSE g[s]]
  <2>5. \A s \in SUBSET (1..m) : s \ {m} \in SUBSET (1..m-1) /\ (m \notin s => s \in SUBSET (1..m-1))
    BY <2>3
  <2>6. h \in [SUBSET (1..m) -> A]
    BY <2>3, <2>4, <2>5
  <2>7. ASSUME NEW s \in SUBSET (1..m) PROVE h[s] = Step(h, s)
    <3>1. CASE m \in s
      <4>1. Max(s) = m
        <5>1. s \subseteq 0..m /\ s # {} /\ m \in Nat /\ \A k \in s : k <= m
          BY <3>1, <2>3
        <5>2. QED BY <5>1, <3>1, GreatestNumber
      <4>2. s \ {m} \in SUBSET (1..m) /\ h[s \ {m}] = g[s \ {m}]
        BY <2>5
      <4>3. QED BY <3>1, <4>1, <4>2
    <3>2. CASE m \notin s /\ s # {}
      <4>1. s \in SUBSET (1..m-1) /\ h[s] = g[s]
        BY <3>2, <2>5
      <4>2. Max(s) \in s
        <5>1. s \subseteq 0..m /\ s # {} /\ m \in Nat
          BY <3>2, <2>3
        <5>2. QED BY <5>1, GreatestNumber
      <4>3. s \ {Max(s)} \in SUBSET (1..m) /\ m \notin s \ {Max(s)} /\ h[s \ {Max(s)}] = g[s \ {Max(s)}]
        BY <4>2, <3>2
      <4>4. g[s] = Step(g, s)
        BY <2>4, <4>1
      <4>5. QED BY <4>1, <4>3, <4>4, <3>2
    <3>3. CASE s = {}
      <4>1. s \in SUBSET (1..m-1) /\ h[s] = g[s] /\ g[s] = Step(g, s)
        BY <3>3, <2>4
      <4>2. QED BY <3>3, <4>1
    <3>4. QED BY <3>1, <3>2, <3>3
  <2>8. Good(m)
    BY <2>6, <2>7
  <2>9. QED BY <2>1, <2>8
<1>3. Good(Len(seq))
  <2> HIDE DEF Good
  <2>1. Len(seq) \in 0..Len(seq)
    BY <1>1
  <2>2. QED BY <2>1, <1>2
<1>4. PICK it \in [SUBSET (1..Len(seq)) -> A] : \A s \in SUBSET (1..Len(seq)) : it[s] = Step(it, s)
  BY <1>3
<1>5. IsFold(it, f, base, seq) /\ it \in [SUBSET (DOMAIN seq) -> A]
  BY <1>4, <1>1 DEF IsFold
<1>6. QED BY <1>5

(* Induction up to n, with a set for the predicate.                        *)
LEMMA Induction ==
  ASSUME NEW n \in Nat, NEW G, 0 \in G, \A i \in 1..n : i - 1 \in G => i \in G
  PROVE  \A i \in 0..n : i \in G
<1> DEFINE Bad == {i \in 0..n : i \notin G}
<1> SUFFICES ASSUME Bad # {} PROVE FALSE
  OBVIOUS
<1>1. Bad \subseteq Nat
  OBVIOUS
<1>2. PICK m \in Bad : \A k \in Bad : m <= k
  BY <1>1, LeastNumber
<1>3. m # 0 /\ m \in 1..n /\ m - 1 \in 0..n
  OBVIOUS
<1>4. m - 1 \in G
  BY <1>2, <1>3
<1>5. QED BY <1>3, <1>4

(* The places of a sequence, up to one of them.                            *)
LEMMA InitialIntervals ==
  ASSUME NEW B, NEW q \in Seq(B)
  PROVE  /\ DOMAIN q = 1..Len(q) /\ Len(q) \in Nat
         /\ \A i \in 1..Len(q) :
              /\ (1..i) \in SUBSET (DOMAIN q) /\ 1..i # {}
              /\ Max(1..i) = i /\ (1..i) \ {i} = 1..(i-1)
         /\ \A s \in SUBSET (DOMAIN q) : s # {} =>
              s \ {Max(s)} \in SUBSET (DOMAIN q) /\ Max(s) \in DOMAIN q /\ q[Max(s)] \in B
<1>1. DOMAIN q = 1..Len(q) /\ Len(q) \in Nat
  OBVIOUS
<1>2. ASSUME NEW i \in 1..Len(q)
      PROVE  /\ (1..i) \in SUBSET (DOMAIN q) /\ 1..i # {}
             /\ Max(1..i) = i /\ (1..i) \ {i} = 1..(i-1)
  <2>1. i \in Nat /\ i \in 1..i /\ (1..i) \ {i} = 1..(i-1)
    BY <1>1
  <2>2. \A k \in 1..i : k \in 1..Len(q) /\ k \in 0..i /\ k <= i
    BY <1>1
  <2>3. Max(1..i) = i
    BY <2>1, <2>2, GreatestNumber
  <2>4. QED BY <1>1, <2>1, <2>2, <2>3
<1>3. ASSUME NEW s \in SUBSET (DOMAIN q), s # {}
      PROVE  s \ {Max(s)} \in SUBSET (DOMAIN q) /\ Max(s) \in DOMAIN q /\ q[Max(s)] \in B
  <2>1. s \subseteq 0..Len(q)
    BY <1>1
  <2>2. Max(s) \in s
    BY <1>3, <1>1, <2>1, GreatestNumber
  <2>3. QED BY <1>1, <2>2
<1>4. QED BY <1>1, <1>2, <1>3

(* h[i] is the fold of the first i elements.                               *)
FoldedBy(h, f, base, q, result) ==
  /\ h[0] = base /\ h[Len(q)] = result
  /\ \A i \in 1..Len(q) : h[i] = f[<<h[i-1], q[i]>>]

(* A fold has a history: one value of it after another.                    *)
LEMMA FoldHistory ==
  ASSUME NEW A, NEW B, NEW q \in Seq(B), NEW base \in A, NEW f \in [A \X B -> A],
         NEW it, it[{}] = base,
         \A s \in SUBSET (DOMAIN q) : (s # {} /\ it[s \ {Max(s)}] \in A) =>
            it[s] = f[<<it[s \ {Max(s)}], q[Max(s)]>>]
  PROVE  \E h \in [0..Len(q) -> A] : FoldedBy(h, f, base, q, it[DOMAIN q])
<1> DEFINE h == [i \in 0..Len(q) |-> it[1..i]]
           G == {i \in 0..Len(q) : h[i] \in A}
<1>1. DOMAIN q = 1..Len(q) /\ Len(q) \in Nat /\ 1..0 = {}
  BY InitialIntervals
<1>2. h[0] = base /\ h[Len(q)] = it[DOMAIN q] /\ 0 \in 0..Len(q) /\ h[0] \in A
  BY <1>1
<1>3. ASSUME NEW i \in 1..Len(q), h[i-1] \in A
      PROVE  h[i] = f[<<h[i-1], q[i]>>] /\ h[i] \in A
  <2>1. i \in 0..Len(q) /\ i - 1 \in 0..Len(q) /\ q[i] \in B
    OBVIOUS
  <2>2. /\ (1..i) \in SUBSET (DOMAIN q) /\ 1..i # {}
        /\ Max(1..i) = i /\ (1..i) \ {i} = 1..(i-1)
    BY InitialIntervals
  <2>3. h[i] = it[1..i] /\ h[i-1] = it[1..(i-1)]
    BY <2>1
  <2> HIDE DEF h
  <2>4. it[1..i] = f[<<it[(1..i) \ {Max(1..i)}], q[Max(1..i)]>>]
    BY <2>2, <2>3, <1>3
  <2>5. h[i] = f[<<h[i-1], q[i]>>]
    BY <2>2, <2>3, <2>4
  <2>6. QED BY <2>1, <2>5, <1>3
<1> HIDE DEF h
<1>4. \A i \in 0..Len(q) : h[i] \in A
  <2>1. 0 \in G
    BY <1>2
  <2>2. ASSUME NEW i \in 1..Len(q), i - 1 \in G PROVE i \in G
    <3>1. i \in 0..Len(q) /\ h[i-1] \in A
      BY <2>2
    <3>2. QED BY <3>1, <1>3
  <2> HIDE DEF G
  <2>3. \A i \in 0..Len(q) : i \in G
    BY <2>1, <2>2, <1>1, Induction
  <2>4. QED BY <2>3 DEF G
<1>5. h \in [0..Len(q) -> A]
  BY <1>4 DEF h
<1>6. \A i \in 1..Len(q) : h[i] = f[<<h[i-1], q[i]>>]
  <2>1. ASSUME NEW i \in 1..Len(q) PROVE h[i] = f[<<h[i-1], q[i]>>]
    <3>1. i - 1 \in 0..Len(q)
      OBVIOUS
    <3>2. QED BY <3>1, <1>3, <1>4
  <2>2. QED BY <2>1
<1>7. FoldedBy(h, f, base, q, it[DOMAIN q])
  BY <1>2, <1>6 DEF FoldedBy
<1>8. QED BY <1>5, <1>7

(* The history of a selection.                                             *)
OnlyBy(h, q, S) ==
  /\ h[0] = <<>> /\ h[Len(q)] = Only(q, S)
  /\ \A i \in 1..Len(q) : h[i] = IF q[i] \in S THEN Append(h[i-1], q[i]) ELSE h[i-1]

(* What has been selected from the first i elements is in the set.         *)
LEMMA OnlyTrace ==
  ASSUME NEW B, NEW q \in Seq(B), NEW S
  PROVE  \E h \in [0..Len(q) -> Seq(B)] : OnlyBy(h, q, S)
<1> DEFINE op(kept, e) == IF e \in S THEN Append(kept, e) ELSE kept
           f == [x \in Seq(B) \X B |-> op(x[1], x[2])]
           Steps(it) == [s \in SUBSET (DOMAIN q) |->
                           IF s = {} THEN <<>> ELSE op(it[s \ {Max(s)}], q[Max(s)])]
           Iter == CHOOSE it : it = Steps(it)
<1>1. f \in [Seq(B) \X B -> Seq(B)] /\ <<>> \in Seq(B)
  OBVIOUS
<1>2. \A a \in Seq(B), e \in B : f[<<a, e>>] = op(a, e)
  OBVIOUS
<1>3. Only(q, S) = Iter[DOMAIN q]
  BY DEF Only, FoldLeft, MapThenFoldSet
<1> HIDE DEF f, op
<1>4. PICK it \in [SUBSET (DOMAIN q) -> Seq(B)] : IsFold(it, f, <<>>, q)
  BY <1>1, FoldExists
<1>5. \A s \in SUBSET (DOMAIN q) : s # {} =>
        q[Max(s)] \in B /\ s \ {Max(s)} \in SUBSET (DOMAIN q)
  BY InitialIntervals
<1>6. \A s \in SUBSET (DOMAIN q) :
        it[s] = IF s = {} THEN <<>> ELSE op(it[s \ {Max(s)}], q[Max(s)])
  BY <1>2, <1>4, <1>5 DEF IsFold
<1>7. it = Steps(it)
  BY <1>6
<1>8. Iter = Steps(Iter)
  BY <1>7
<1> HIDE DEF Iter
<1>9. Iter[{}] = <<>>
  BY <1>8
<1>10. \A s \in SUBSET (DOMAIN q) : (s # {} /\ Iter[s \ {Max(s)}] \in Seq(B)) =>
          Iter[s] = f[<<Iter[s \ {Max(s)}], q[Max(s)]>>]
  BY ZenonT(60), <1>2, <1>5, <1>8
<1>11. PICK h \in [0..Len(q) -> Seq(B)] : FoldedBy(h, f, <<>>, q, Iter[DOMAIN q])
  BY <1>1, <1>9, <1>10, FoldHistory
<1>12. /\ h[0] = <<>> /\ h[Len(q)] = Only(q, S)
       /\ \A i \in 1..Len(q) : h[i] = f[<<h[i-1], q[i]>>]
  BY <1>3, <1>11 DEF FoldedBy
<1>13. ASSUME NEW i \in 1..Len(q)
       PROVE  h[i] = IF q[i] \in S THEN Append(h[i-1], q[i]) ELSE h[i-1]
  <2>1. h[i-1] \in Seq(B) /\ q[i] \in B
    OBVIOUS
  <2>2. QED BY <2>1, <1>2, <1>12 DEF op
<1>14. OnlyBy(h, q, S)
  BY <1>12, <1>13 DEF OnlyBy
<1>15. QED BY <1>14

(* r is what of q is in S: m says where its elements stand in q.           *)
Selects(m, q, S, r) ==
  /\ \A k \in 1..Len(r) : r[k] = q[m[k]] /\ q[m[k]] \in S
  /\ \A j, k \in 1..Len(r) : j < k => m[j] < m[k]
  /\ \A i \in 1..Len(q) : q[i] \in S => \E k \in 1..Len(r) : m[k] = i

(* What is selected stands at places of the sequence, in their order, and  *)
(* every element of the set is selected.                                   *)
LEMMA OnlyPlaces ==
  ASSUME NEW B, NEW q \in Seq(B), NEW S
  PROVE  /\ Only(q, S) \in Seq(B)
         /\ \E m \in [1..Len(Only(q, S)) -> 1..Len(q)] : Selects(m, q, S, Only(q, S))
<1>0. PICK h \in [0..Len(q) -> Seq(B)] : OnlyBy(h, q, S)
  BY OnlyTrace
<1>1. /\ h[0] = <<>> /\ h[Len(q)] = Only(q, S)
      /\ \A i \in 1..Len(q) : h[i] = IF q[i] \in S THEN Append(h[i-1], q[i]) ELSE h[i-1]
  BY <1>0 DEF OnlyBy
<1> DEFINE P(r, n, m) ==
              /\ \A k \in 1..Len(r) : r[k] = q[m[k]] /\ q[m[k]] \in S
              /\ \A j, k \in 1..Len(r) : j < k => m[j] < m[k]
              /\ \A i \in 1..n : q[i] \in S => \E k \in 1..Len(r) : m[k] = i
           G == {n \in 0..Len(q) : \E m \in [1..Len(h[n]) -> 1..n] : P(h[n], n, m)}
<1>2. Len(q) \in Nat
  OBVIOUS
<1>3. 0 \in G
  <2>1. [k \in 1..0 |-> 0] \in [1..Len(h[0]) -> 1..0] /\ P(h[0], 0, [k \in 1..0 |-> 0])
    BY <1>1
  <2>2. QED BY <2>1, <1>2
<1>4. ASSUME NEW n \in 1..Len(q), n - 1 \in G PROVE n \in G
  <2>1. n - 1 \in 0..Len(q) /\ n \in 0..Len(q) /\ n \in Nat /\ h[n-1] \in Seq(B) /\ q[n] \in B
    BY <1>2
  <2> DEFINE r == h[n-1]
  <2>2. PICK m \in [1..Len(r) -> 1..(n-1)] : P(r, n-1, m)
    BY <1>4
  <2>3. h[n] = IF q[n] \in S THEN Append(r, q[n]) ELSE r
    BY <1>1
  <2>4. r \in Seq(B) /\ Len(r) \in Nat
    BY <2>1
  <2>5. CASE q[n] \in S
    <3> DEFINE a == Append(r, q[n])
               mm == [k \in 1..(Len(r) + 1) |-> IF k = Len(r) + 1 THEN n ELSE m[k]]
    <3>1. Len(a) = Len(r) + 1 /\ a[Len(r) + 1] = q[n] /\ \A k \in 1..Len(r) : a[k] = r[k]
      BY <2>4, <2>1
    <3> HIDE DEF a, r
    <3>2. mm \in [1..Len(a) -> 1..n]
      BY <3>1, <2>1, <2>4
    <3>3. \A k \in 1..Len(a) : a[k] = q[mm[k]] /\ q[mm[k]] \in S
      BY <3>1, <2>2, <2>4, <2>5
    <3>4. \A j, k \in 1..Len(a) : j < k => mm[j] < mm[k]
      <4>1. \A j \in 1..Len(r) : m[j] < n
        BY SMTT(30), <2>1, <2>4
      <4>2. ASSUME NEW j \in 1..Len(a), NEW k \in 1..Len(a), j < k PROVE mm[j] < mm[k]
        <5>1. j \in 1..Len(r) /\ mm[j] = m[j]
          BY <4>2, <3>1, <2>4
        <5>2. CASE k = Len(r) + 1
          BY <5>1, <5>2, <4>1
        <5>3. CASE k \in 1..Len(r)
          BY <5>1, <5>3, <4>2, <2>2, <2>4
        <5>4. QED BY <5>2, <5>3, <3>1, <2>4
      <4>3. QED BY <4>2
    <3>5. \A i \in 1..n : q[i] \in S => \E k \in 1..Len(a) : mm[k] = i
      <4>1. ASSUME NEW i \in 1..(n-1), q[i] \in S PROVE \E k \in 1..Len(a) : mm[k] = i
        <5>1. PICK k \in 1..Len(r) : m[k] = i
          BY <4>1, <2>2
        <5>2. k \in 1..Len(a) /\ mm[k] = i
          BY <5>1, <2>4, <3>1
        <5>3. QED BY <5>2
      <4>2. Len(r) + 1 \in 1..Len(a) /\ mm[Len(r) + 1] = n
        BY <3>1, <2>4
      <4>3. \A i \in 1..n : i \in 1..(n-1) \/ i = n
        BY <2>1
      <4>4. QED BY <4>1, <4>2, <4>3
    <3>6. h[n] = a
      BY <2>3, <2>5 DEF a, r
    <3> HIDE DEF mm
    <3>7. QED BY <3>2, <3>3, <3>4, <3>5, <3>6, <2>1
  <2>6. CASE q[n] \notin S
    <3>1. h[n] = r
      BY <2>3, <2>6
    <3> HIDE DEF r
    <3>2. m \in [1..Len(r) -> 1..n]
      BY <2>1
    <3>3. \A i \in 1..n : i \in 1..(n-1) \/ i = n
      BY <2>1
    <3>4. P(r, n, m)
      BY <3>3, <2>2, <2>6
    <3>5. QED BY <3>1, <3>2, <3>4, <2>1
  <2>7. QED BY <2>5, <2>6
<1> HIDE DEF G
<1>5. Len(q) \in G
  <2>1. \A i \in 0..Len(q) : i \in G
    BY <1>2, <1>3, <1>4, Induction
  <2>2. QED BY <1>2, <2>1
<1>6. PICK m \in [1..Len(h[Len(q)]) -> 1..Len(q)] : P(h[Len(q)], Len(q), m)
  BY <1>5 DEF G
<1>7. h[Len(q)] = Only(q, S) /\ h[Len(q)] \in Seq(B)
  BY <1>1, <1>2
<1>8. Selects(m, q, S, h[Len(q)])
  BY <1>6 DEF Selects
<1>9. QED BY <1>6, <1>7, <1>8

(* The elements of a selection.                                            *)
LEMMA OnlyElements ==
  ASSUME NEW B, NEW q \in Seq(B), NEW S
  PROVE  Only(q, S) \in Seq(B) /\ ToSet(Only(q, S)) = ToSet(q) \cap S
<1> DEFINE r == Only(q, S)
<1>1. r \in Seq(B) /\ DOMAIN r = 1..Len(r) /\ DOMAIN q = 1..Len(q)
  BY OnlyPlaces
<1>2. PICK m \in [1..Len(r) -> 1..Len(q)] : Selects(m, q, S, r)
  BY OnlyPlaces
<1> HIDE DEF r
<1>3. ToSet(r) = ToSet(q) \cap S
  BY <1>1, <1>2 DEF ToSet, Selects
<1>4. QED BY <1>1, <1>3 DEF r

(* All is selected when all is in the set, and nothing when nothing is.    *)
LEMMA OnlyAll ==
  ASSUME NEW B, NEW q \in Seq(B), NEW S, \A i \in 1..Len(q) : q[i] \in S
  PROVE  Only(q, S) = q
<1>1. PICK h \in [0..Len(q) -> Seq(B)] : OnlyBy(h, q, S)
  BY OnlyTrace
<1>2. /\ h[0] = <<>> /\ h[Len(q)] = Only(q, S)
      /\ \A i \in 1..Len(q) : h[i] = Append(h[i-1], q[i])
  BY <1>1 DEF OnlyBy
<1> DEFINE G == {n \in 0..Len(q) : Len(h[n]) = n /\ \A k \in 1..n : h[n][k] = q[k]}
<1>3. Len(q) \in Nat
  OBVIOUS
<1>4. 0 \in G
  BY <1>2, <1>3
<1>5. ASSUME NEW n \in 1..Len(q), n - 1 \in G PROVE n \in G
  <2>1. n - 1 \in 0..Len(q) /\ n \in 0..Len(q) /\ h[n-1] \in Seq(B) /\ q[n] \in B
    OBVIOUS
  <2>2. Len(h[n-1]) = n - 1 /\ \A k \in 1..(n-1) : h[n-1][k] = q[k]
    BY <1>5
  <2>3. h[n] = Append(h[n-1], q[n])
    BY <1>2
  <2>4. Len(h[n]) = n /\ h[n][n] = q[n] /\ \A k \in 1..(n-1) : h[n][k] = h[n-1][k]
    BY <2>1, <2>2, <2>3
  <2>5. \A k \in 1..n : k \in 1..(n-1) \/ k = n
    OBVIOUS
  <2>6. QED BY <2>1, <2>2, <2>4, <2>5
<1> HIDE DEF G
<1>6. Len(q) \in G
  <2>1. \A i \in 0..Len(q) : i \in G
    BY <1>3, <1>4, <1>5, Induction
  <2>2. QED BY <1>3, <2>1
<1>7. /\ Only(q, S) \in Seq(B) /\ Len(Only(q, S)) = Len(q)
      /\ \A k \in 1..Len(q) : Only(q, S)[k] = q[k]
  BY <1>2, <1>3, <1>6, OnlyPlaces DEF G
<1>8. QED BY <1>7, SeqEqual

LEMMA OnlyNone ==
  ASSUME NEW B, NEW q \in Seq(B), NEW S, \A i \in 1..Len(q) : q[i] \notin S
  PROVE  Only(q, S) = <<>>
<1> DEFINE r == Only(q, S)
<1>1. r \in Seq(B)
  BY OnlyPlaces
<1>2. PICK m \in [1..Len(r) -> 1..Len(q)] : Selects(m, q, S, r)
  BY OnlyPlaces
<1> HIDE DEF r
<1>3. \A k \in 1..Len(r) : FALSE
  BY <1>2 DEF Selects
<1>4. Len(r) \in Nat
  BY <1>1
<1>5. Len(r) = 0
  BY <1>3, <1>4
<1>6. r = <<>>
  BY <1>1, <1>5
<1>7. QED BY <1>6 DEF r

(* A function over the first n numbers is a sequence.                      *)
LEMMA FunctionIsSequence ==
  ASSUME NEW S, NEW n \in Nat, NEW f \in [1..n -> S]
  PROVE  f \in Seq(S) /\ Len(f) = n
OBVIOUS

(* What is left of a sequence without its first n elements.                *)
LEMMA SuffixPlaces ==
  ASSUME NEW S, NEW q \in Seq(S), NEW n \in 0..Len(q)
  PROVE  /\ SubSeq(q, n + 1, Len(q)) \in Seq(S)
         /\ Len(SubSeq(q, n + 1, Len(q))) = Len(q) - n
         /\ \A i \in 1..(Len(q) - n) : SubSeq(q, n + 1, Len(q))[i] = q[n + i]
<1>1. Len(q) \in Nat /\ n \in Nat /\ n <= Len(q)
  OBVIOUS
<1>2. QED BY <1>1

(* r is q with e put in behind the first c elements.                       *)
HasInserted(r, q, c, e) ==
  /\ Len(r) = Len(q) + 1
  /\ \A i \in 1..c : r[i] = q[i]
  /\ r[c + 1] = e
  /\ \A i \in (c + 2)..(Len(q) + 1) : r[i] = q[i - 1]

(* Where the elements stand after one has been put in.                     *)
LEMMA InsertPlaces ==
  ASSUME NEW S, NEW q \in Seq(S), NEW e \in S, NEW c \in 0..Len(q)
  PROVE  InsertAt(q, c + 1, e) \in Seq(S) /\ HasInserted(InsertAt(q, c + 1, e), q, c, e)
<1> DEFINE a == SubSeq(q, 1, c)
           b == SubSeq(q, c + 1, Len(q))
<1>1. Len(q) \in Nat /\ c \in Nat /\ c <= Len(q) /\ (c + 1) - 1 = c
  OBVIOUS
<1>2. a \in Seq(S) /\ Len(a) = c /\ \A i \in 1..c : a[i] = q[i]
  BY <1>1
<1>3. b \in Seq(S) /\ Len(b) = Len(q) - c /\ \A i \in 1..(Len(q) - c) : b[i] = q[c + i]
  BY <1>1
<1>4. InsertAt(q, c + 1, e) = (a \o <<e>>) \o b
  <2>1. InsertAt(q, c + 1, e) = (SubSeq(q, 1, (c + 1) - 1) \o <<e>>) \o SubSeq(q, c + 1, Len(q))
    BY Zenon DEF InsertAt
  <2>2. QED BY <1>1, <2>1, Zenon
<1> HIDE DEF a, b
<1> DEFINE ae == a \o <<e>>
<1>5. ae \in Seq(S) /\ Len(ae) = c + 1 /\ ae[c + 1] = e /\ \A i \in 1..c : ae[i] = q[i]
  BY <1>1, <1>2
<1> HIDE DEF ae
<1>6. (ae \o b) \in Seq(S) /\ Len(ae \o b) = Len(q) + 1
  <2>1. (ae \o b) \in Seq(S) /\ Len(ae \o b) = Len(ae) + Len(b)
    BY <1>3, <1>5, ConcatProperties
  <2>2. QED BY <2>1, <1>1, <1>3, <1>5
<1>7. \A i \in 1..(c + 1) : (ae \o b)[i] = ae[i]
  BY <1>1, <1>3, <1>5
<1>8. ASSUME NEW i \in (c + 2)..(Len(q) + 1) PROVE (ae \o b)[i] = q[i - 1]
  <2>1. i - (c + 1) \in 1..(Len(q) - c) /\ c + (i - (c + 1)) = i - 1
    BY <1>1
  <2>2. (ae \o b)[i] = b[i - (c + 1)]
    BY <1>1, <1>3, <1>5
  <2>3. QED BY <2>1, <2>2, <1>3
<1>9. InsertAt(q, c + 1, e) = ae \o b
  BY <1>4 DEF ae
<1>10. \A i \in 1..c : (ae \o b)[i] = q[i]
  BY <1>1, <1>5, <1>7
<1>11. (ae \o b)[c + 1] = e
  BY <1>1, <1>5, <1>7
<1>12. HasInserted(ae \o b, q, c, e)
  BY <1>6, <1>8, <1>10, <1>11 DEF HasInserted
<1>13. QED BY <1>6, <1>9, <1>12

(* Where the elements stand after the one at place k has been removed.     *)
LEMMA RemovePlaces ==
  ASSUME NEW S, NEW q \in Seq(S), NEW k \in 1..Len(q)
  PROVE  /\ RemoveAt(q, k) \in Seq(S)
         /\ Len(RemoveAt(q, k)) = Len(q) - 1
         /\ \A i \in 1..(Len(q) - 1) : RemoveAt(q, k)[i] = IF i < k THEN q[i] ELSE q[i + 1]
<1> DEFINE a == SubSeq(q, 1, k - 1)
           b == SubSeq(q, k + 1, Len(q))
<1>1. Len(q) \in Nat /\ k \in Nat /\ k <= Len(q) /\ 1 <= k
  OBVIOUS
<1>2. a \in Seq(S) /\ Len(a) = k - 1 /\ \A i \in 1..(k - 1) : a[i] = q[i]
  BY <1>1
<1>3. b \in Seq(S) /\ Len(b) = Len(q) - k /\ \A i \in 1..(Len(q) - k) : b[i] = q[k + i]
  BY <1>1
<1>4. RemoveAt(q, k) = a \o b
  BY DEF RemoveAt
<1> HIDE DEF a, b
<1>5. (a \o b) \in Seq(S) /\ Len(a \o b) = Len(q) - 1
  <2>1. (a \o b) \in Seq(S) /\ Len(a \o b) = Len(a) + Len(b)
    BY <1>2, <1>3, ConcatProperties
  <2>2. QED BY <2>1, <1>1, <1>2, <1>3
<1>6. ASSUME NEW i \in 1..(Len(q) - 1) PROVE (a \o b)[i] = IF i < k THEN q[i] ELSE q[i + 1]
  <2>1. CASE i < k
    <3>1. i \in 1..(k - 1) /\ (a \o b)[i] = a[i]
      BY <2>1, <1>1, <1>2, <1>3
    <3>2. QED BY <3>1, <2>1, <1>2
  <2>2. CASE ~(i < k)
    <3>1. i - (k - 1) \in 1..(Len(q) - k) /\ k + (i - (k - 1)) = i + 1
      BY <2>2, <1>1
    <3>2. (a \o b)[i] = b[i - (k - 1)]
      BY <2>2, <1>1, <1>2, <1>3
    <3>3. QED BY <2>2, <3>1, <3>2, <1>3
  <2>3. QED BY <2>1, <2>2
<1>7. QED BY <1>4, <1>5, <1>6

(* Counting the keys up to x finds the place behind the last one of them,  *)
(* when the keys are sorted.                                               *)
LEMMA CountBelow ==
  ASSUME NEW n \in Nat, NEW key \in [1..n -> Nat], NEW x \in Nat,
         \A i, j \in 1..n : i < j => key[i] <= key[j]
  PROVE  \E c \in 0..n :
           /\ Cardinality({i \in 1..n : key[i] <= x}) = c
           /\ \A i \in 1..n : key[i] <= x <=> i <= c
<1> DEFINE T == {i \in 1..n : key[i] <= x}
<1>1. CASE T = {}
  <2>1. Cardinality(T) = 0
    BY <1>1, FS_EmptySet
  <2>2. \A i \in 1..n : ~(key[i] <= x) /\ ~(i <= 0)
    BY <1>1
  <2>3. 0 \in 0..n
    OBVIOUS
  <2>4. QED BY <2>1, <2>2, <2>3
<1>2. CASE T # {}
  <2>1. T \subseteq 0..n
    OBVIOUS
  <2>2. PICK m \in T : \A k \in T : k <= m
    BY <1>2, <2>1, GreatestNumber
  <2>3. m \in 1..n /\ key[m] <= x /\ m \in Nat
    OBVIOUS
  <2>4. ASSUME NEW i \in 1..m PROVE i \in T
    <3>1. i \in 1..n /\ (i = m \/ i < m)
      BY <2>3
    <3>2. key[i] <= key[m] /\ key[i] \in Nat /\ key[m] \in Nat
      BY <3>1, <2>3
    <3>3. key[i] <= x
      BY <3>2, <2>3
    <3>4. QED BY <3>1, <3>3
  <2>5. T = 1..m
    <3>1. \A i \in T : i \in 1..m
      BY <2>2, <2>3
    <3>2. QED BY <3>1, <2>4
  <2>6. Cardinality(T) = m
    <3>1. Cardinality(1..m) = m
      BY <2>3, FS_Interval
    <3> HIDE DEF T
    <3>2. QED BY <2>5, <3>1
  <2>7. \A i \in 1..n : key[i] <= x <=> i <= m
    BY <2>3, <2>5
  <2>8. m \in 0..n
    BY <2>3
  <2>9. QED BY <2>6, <2>7, <2>8
<1>3. QED BY <1>1, <1>2

(* The elements of a sequence, by place.                                   *)
LEMMA ElementsByPlace ==
  ASSUME NEW S, NEW q \in Seq(S)
  PROVE  /\ ToSet(q) \subseteq S
         /\ \A e : e \in ToSet(q) <=> \E i \in 1..Len(q) : q[i] = e
         /\ Len(q) \in Nat /\ DOMAIN q = 1..Len(q)
  BY DEF ToSet

(* Where the elements of two sequences stand when they are joined.         *)
LEMMA JoinedPlaces ==
  ASSUME NEW S, NEW q \in Seq(S), NEW r \in Seq(S)
  PROVE  /\ q \o r \in Seq(S) /\ Len(q \o r) = Len(q) + Len(r)
         /\ \A i \in 1 .. Len(q) : (q \o r)[i] = q[i]
         /\ \A i \in 1 .. Len(r) : (q \o r)[Len(q) + i] = r[i]
         /\ \A i \in 1 .. Len(q \o r) :
              \/ i \in 1 .. Len(q) /\ (q \o r)[i] = q[i]
              \/ \E j \in 1 .. Len(r) : i = Len(q) + j /\ (q \o r)[i] = r[j]
<1> DEFINE c == q \o r
<1>1. /\ c \in Seq(S) /\ Len(c) = Len(q) + Len(r) /\ Len(q) \in Nat /\ Len(r) \in Nat
      /\ \A i \in 1..(Len(q) + Len(r)) : c[i] = IF i <= Len(q) THEN q[i] ELSE r[i - Len(q)]
  BY ConcatProperties
<1> HIDE DEF c
<1>2. \A i \in 1..Len(q) : c[i] = q[i]
  BY <1>1
<1>3. \A j \in 1..Len(r) : c[Len(q) + j] = r[j]
  <2>1. ASSUME NEW i \in 1..Len(r) PROVE c[Len(q) + i] = r[i]
    <3>1. Len(q) + i \in 1..(Len(q) + Len(r)) /\ ~(Len(q) + i <= Len(q)) /\ (Len(q) + i) - Len(q) = i
      BY <1>1
    <3>2. QED BY <3>1, <1>1
  <2>2. QED BY <2>1
<1>4. ASSUME NEW i \in 1..Len(c), ~(i <= Len(q))
      PROVE  \E j \in 1..Len(r) : i = Len(q) + j /\ c[i] = r[j]
  <2>1. (i - Len(q)) \in 1..Len(r) /\ i = Len(q) + (i - Len(q))
    BY <1>1, <1>4
  <2>2. QED BY <2>1, <1>1, <1>4
<1>5. \A i \in 1..Len(c) : i \in 1..Len(q) \/ ~(i <= Len(q))
  BY <1>1
<1>6. QED BY <1>1, <1>2, <1>3, <1>4, <1>5 DEF c

(* Two sequences without repetitions and common elements, joined.          *)
LEMMA JoinedInjective ==
  ASSUME NEW S, NEW q \in Seq(S), NEW r \in Seq(S)
  PROVE  /\ q \o r \in Seq(S) /\ ToSet(q \o r) = ToSet(q) \cup ToSet(r)
         /\ (IsInjective(q) /\ IsInjective(r) /\ ToSet(q) \cap ToSet(r) = {}) => IsInjective(q \o r)
         /\ IsInjective(q \o r) => IsInjective(q)
<1> DEFINE c == q \o r
<1>1. /\ c \in Seq(S) /\ Len(c) = Len(q) + Len(r) /\ Len(q) \in Nat /\ Len(r) \in Nat
      /\ \A i \in 1..(Len(q) + Len(r)) : c[i] = IF i <= Len(q) THEN q[i] ELSE r[i - Len(q)]
  BY ConcatProperties
<1> HIDE DEF c
<1>2. /\ DOMAIN c = 1..Len(c) /\ DOMAIN q = 1..Len(q) /\ DOMAIN r = 1..Len(r)
      /\ \A e : e \in ToSet(c) <=> \E i \in 1..Len(c) : c[i] = e
      /\ \A e : e \in ToSet(q) <=> \E i \in 1..Len(q) : q[i] = e
      /\ \A e : e \in ToSet(r) <=> \E i \in 1..Len(r) : r[i] = e
  BY <1>1, ElementsByPlace
<1>3. \A i \in 1..Len(q) : i \in 1..Len(c) /\ c[i] = q[i]
  BY <1>1
<1>4. \A i \in 1..Len(r) : Len(q) + i \in 1..Len(c) /\ c[Len(q) + i] = r[i]
  <2>1. ASSUME NEW i \in 1..Len(r) PROVE Len(q) + i \in 1..Len(c) /\ c[Len(q) + i] = r[i]
    <3>1. Len(q) + i \in 1..(Len(q) + Len(r)) /\ ~(Len(q) + i <= Len(q)) /\ (Len(q) + i) - Len(q) = i
      BY <1>1
    <3>2. QED BY <3>1, <1>1
  <2>2. QED BY <2>1
<1>5. \A i \in 1..Len(c) : \/ i \in 1..Len(q) /\ c[i] = q[i]
                           \/ (i - Len(q)) \in 1..Len(r) /\ c[i] = r[i - Len(q)] /\ ~(i <= Len(q))
  BY <1>1
<1>6. ToSet(c) = ToSet(q) \cup ToSet(r)
  <2>1. ASSUME NEW e \in ToSet(c) PROVE e \in ToSet(q) \cup ToSet(r)
    BY <1>2, <1>5
  <2>2. ASSUME NEW e \in ToSet(q) PROVE e \in ToSet(c)
    BY <1>2, <1>3
  <2>3. ASSUME NEW e \in ToSet(r) PROVE e \in ToSet(c)
    BY <1>2, <1>4
  <2>4. QED BY <2>1, <2>2, <2>3
<1>7. ASSUME IsInjective(q), IsInjective(r), ToSet(q) \cap ToSet(r) = {} PROVE IsInjective(c)
  <2>1. \A i, j \in 1..Len(q) : q[i] = q[j] => i = j
    BY <1>7, <1>2 DEF IsInjective
  <2>2. \A i, j \in 1..Len(r) : r[i] = r[j] => i = j
    BY <1>7, <1>2 DEF IsInjective
  <2>3. \A i \in 1..Len(q), j \in 1..Len(r) : q[i] # r[j]
    BY <1>7, <1>2
  <2>4. ASSUME NEW i \in 1..Len(c), NEW j \in 1..Len(c), c[i] = c[j] PROVE i = j
    <3>1. CASE i \in 1..Len(q) /\ j \in 1..Len(q)
      BY <3>1, <2>1, <2>4, <1>3
    <3>2. CASE i \in 1..Len(q) /\ ~(j <= Len(q))
      BY <3>2, <2>3, <2>4, <1>5
    <3>3. CASE ~(i <= Len(q)) /\ j \in 1..Len(q)
      BY <3>3, <2>3, <2>4, <1>5
    <3>4. CASE ~(i <= Len(q)) /\ ~(j <= Len(q))
      <4>1. /\ (i - Len(q)) \in 1..Len(r) /\ c[i] = r[i - Len(q)]
            /\ (j - Len(q)) \in 1..Len(r) /\ c[j] = r[j - Len(q)]
        BY <3>4, <1>5
      <4>2. i - Len(q) = j - Len(q)
        BY <4>1, <2>2, <2>4
      <4>3. i \in Nat /\ j \in Nat /\ Len(q) \in Nat
        BY <1>1
      <4>4. QED BY <4>2, <4>3
    <3>5. QED BY <3>1, <3>2, <3>3, <3>4, <1>1
  <2>5. QED BY <2>4, <1>2 DEF IsInjective
<1>8. ASSUME IsInjective(c) PROVE IsInjective(q)
  <2>1. \A i, j \in 1..Len(c) : c[i] = c[j] => i = j
    BY <1>8, <1>2 DEF IsInjective
  <2>2. \A i, j \in 1..Len(q) : q[i] = q[j] => i = j
    BY <2>1, <1>3
  <2>3. QED BY <2>2, <1>2 DEF IsInjective
<1>9. QED BY <1>1, <1>6, <1>7, <1>8 DEF c

(* Different places of what is selected come from different places.        *)
LEMMA OnlyApart ==
  ASSUME NEW B, NEW q \in Seq(B), NEW S
  PROVE  /\ Only(q, S) \in Seq(B) /\ ToSet(Only(q, S)) = ToSet(q) \cap S
         /\ \A i, j \in 1..Len(Only(q, S)) : i # j =>
              \E a, b \in 1..Len(q) : a # b /\ Only(q, S)[i] = q[a] /\ Only(q, S)[j] = q[b]
         /\ IsInjective(q) => IsInjective(Only(q, S))
<1> DEFINE r == Only(q, S)
<1>1. r \in Seq(B) /\ ToSet(r) = ToSet(q) \cap S
  BY OnlyElements
<1>2. PICK m \in [1..Len(r) -> 1..Len(q)] : Selects(m, q, S, r)
  BY OnlyPlaces
<1> HIDE DEF r
<1>3. /\ \A k \in 1..Len(r) : r[k] = q[m[k]]
      /\ \A j, k \in 1..Len(r) : j < k => m[j] < m[k]
  BY <1>2 DEF Selects
<1>4. Len(r) \in Nat /\ Len(q) \in Nat /\ DOMAIN r = 1..Len(r) /\ DOMAIN q = 1..Len(q)
  BY <1>1, ElementsByPlace
<1>5. ASSUME NEW i \in 1..Len(r), NEW j \in 1..Len(r), i # j
      PROVE  m[i] # m[j] /\ m[i] \in 1..Len(q) /\ m[j] \in 1..Len(q) /\ r[i] = q[m[i]] /\ r[j] = q[m[j]]
  <2>1. m[i] \in 1..Len(q) /\ m[j] \in 1..Len(q) /\ r[i] = q[m[i]] /\ r[j] = q[m[j]]
    BY <1>2, <1>3
  <2>2. i < j \/ j < i
    BY <1>4, <1>5
  <2>3. m[i] < m[j] \/ m[j] < m[i]
    BY <2>2, <1>3
  <2>4. m[i] \in Nat /\ m[j] \in Nat
    BY <2>1, <1>4
  <2>5. QED BY <2>1, <2>3, <2>4
<1>6. \A i, j \in 1..Len(r) : i # j => \E a, b \in 1..Len(q) : a # b /\ r[i] = q[a] /\ r[j] = q[b]
  BY <1>5
<1>7. ASSUME IsInjective(q) PROVE IsInjective(r)
  <2>1. \A i, j \in 1..Len(q) : q[i] = q[j] => i = j
    BY <1>7, <1>4 DEF IsInjective
  <2>2. \A i, j \in 1..Len(r) : r[i] = r[j] => i = j
    BY <2>1, <1>6
  <2>3. QED BY <2>2, <1>4 DEF IsInjective
<1>8. QED BY <1>1, <1>6, <1>7 DEF r
(* A sequence of some elements is one of more.                             *)
LEMMA WiderSequence ==
  ASSUME NEW S, NEW T, S \subseteq T, NEW q \in Seq(S)
  PROVE  q \in Seq(T)
<1>1. q \in [1..Len(q) -> S] /\ Len(q) \in Nat
  OBVIOUS
<1>2. q \in [1..Len(q) -> T]
  BY <1>1
<1>3. QED BY <1>1, <1>2, FunctionIsSequence

(* A sequence is one of its own elements.                                  *)
LEMMA OfItsElements ==
  ASSUME NEW S, NEW q \in Seq(S)
  PROVE  q \in Seq(ToSet(q))
<1>1. Len(q) \in Nat /\ q \in [1..Len(q) -> S]
  OBVIOUS
<1>2. \A i \in 1..Len(q) : q[i] \in ToSet(q)
  BY ElementsByPlace
<1>3. q \in [1..Len(q) -> ToSet(q)]
  BY <1>1, <1>2
<1>4. QED BY <1>1, <1>3, FunctionIsSequence


(* The elements of a finite set, one after the other.                      *)
LEMMA SetAsSequence ==
  ASSUME NEW S, IsFiniteSet(S)
  PROVE  SetToSeq(S) \in Seq(S) /\ IsInjective(SetToSeq(S))
<1>1. Cardinality(S) \in Nat
  BY FS_CardinalityType
<1>2. \E f : f \in Bijection(1..Cardinality(S), S)
  BY FS_CardinalityType DEF ExistsBijection
<1>3. \E f \in [1..Cardinality(S) -> S] : IsInjective(f)
  BY <1>2 DEF Bijection, Injection, IsInjective
<1>4. SetToSeq(S) \in [1..Cardinality(S) -> S] /\ IsInjective(SetToSeq(S))
  BY <1>3 DEF SetToSeq
<1>5. QED BY <1>1, <1>4, FunctionIsSequence

(* Adding one element at the end of a sequence, or at its beginning.       *)
LEMMA OneMore ==
  ASSUME NEW S, NEW q \in Seq(S), NEW x \in S
  PROVE  /\ Append(q, x) \in Seq(S)
         /\ ToSet(Append(q, x)) = ToSet(q) \cup {x}
         /\ IsInjective(q) /\ x \notin ToSet(q) => IsInjective(Append(q, x))
<1> DEFINE one == <<x>>
<1>1. one \in Seq(S) /\ ToSet(one) = {x} /\ IsInjective(one)
  BY DEF ToSet, IsInjective
<1>2. Append(q, x) = q \o one
  OBVIOUS
<1> HIDE DEF one
<1>3. /\ q \o one \in Seq(S) /\ ToSet(q \o one) = ToSet(q) \cup ToSet(one)
      /\ (IsInjective(q) /\ ToSet(q) \cap ToSet(one) = {}) => IsInjective(q \o one)
  BY Zenon, <1>1, JoinedInjective
<1>4. x \notin ToSet(q) => ToSet(q) \cap ToSet(one) = {}
  BY <1>1
<1>5. QED BY Zenon, <1>1, <1>2, <1>3, <1>4

LEMMA OneBefore ==
  ASSUME NEW S, NEW q \in Seq(S), NEW x \in S
  PROVE  /\ <<x>> \o q \in Seq(S)
         /\ ToSet(<<x>> \o q) = ToSet(q) \cup {x}
         /\ IsInjective(q) /\ x \notin ToSet(q) => IsInjective(<<x>> \o q)
<1> DEFINE one == <<x>>
<1>1. one \in Seq(S) /\ ToSet(one) = {x} /\ IsInjective(one)
  BY DEF ToSet, IsInjective
<1> HIDE DEF one
<1>2. /\ one \o q \in Seq(S) /\ ToSet(one \o q) = ToSet(one) \cup ToSet(q)
      /\ (IsInjective(one) /\ IsInjective(q) /\ ToSet(one) \cap ToSet(q) = {}) => IsInjective(one \o q)
  BY Zenon, <1>1, JoinedInjective
<1>3. x \notin ToSet(q) => ToSet(one) \cap ToSet(q) = {}
  BY <1>1
<1>4. ToSet(one) \cup ToSet(q) = ToSet(q) \cup {x}
  BY <1>1
<1>5. QED BY Zenon, <1>1, <1>2, <1>3, <1>4 DEF one

=================================================================================
