---------------------- MODULE LegislacaoResposta_proofs ----------------------
(***************************************************************************)
(* An answer rests on what its context showed, a recorded reply is judged  *)
(* again as it was live, and the context keeps to its budget and has every *)
(* provision the question cites, for every law and its amendments, every   *)
(* question, every reply of the model and every budget of tokens.          *)
(***************************************************************************)
EXTENDS LegislacaoResposta, FiniteSetTheorems, WellFoundedInduction, TLAPS

-----------------------------------------------------------------------------
(* Induction, and folds.  A fold of the community modules is a recursive   *)
(* function over the subsets of a finite set: it exists because each of    *)
(* its values is made from that of a smaller subset.                       *)

\* Every nonempty set of naturals has a least member.
LEMMA TemMenor ==
    ASSUME NEW T, T \subseteq Nat, T # {}
    PROVE  \E x \in T : \A y \in T : x <= y
<1>1. \A x, y \in Nat : x < y => <<x, y>> \in OpToRel(<, Nat)
  BY DEF OpToRel
<1>2. PICK x \in T : \A y \in T : ~(<<y, x>> \in OpToRel(<, Nat))
  BY NatLessThanWellFounded, WFMin
<1>3. \A y \in T : x \in Nat /\ y \in Nat /\ ~(y < x)
  BY <1>1, <1>2
<1>4. QED
  BY <1>3

\* What holds of 0 and passes from k to k + 1 holds up to n.
LEMMA Ate ==
    ASSUME NEW n \in Nat, NEW Q, 0 \in Q, \A k \in 0..(n - 1) : k \in Q => k + 1 \in Q
    PROVE  0..n \subseteq Q
<1> SUFFICES ASSUME ~(0..n \subseteq Q) PROVE FALSE
  OBVIOUS
<1> DEFINE T == {k \in 0..n : k \notin Q}
<1>1. T \subseteq Nat /\ T # {}
  OBVIOUS
<1>2. PICK x \in T : \A y \in T : x <= y
  BY <1>1, TemMenor, Zenon
<1>3. x \in 0..n /\ x \notin Q /\ x # 0
  BY <1>2
<1>4. x - 1 \in 0..(n - 1) /\ x - 1 \notin T
  BY <1>2, <1>3
<1>5. QED
  BY <1>3, <1>4

\* What holds of the empty set, and of a set when it holds without the member
\* that ch takes out of it, holds of every subset of a finite set.
LEMMA Tirando ==
    ASSUME NEW S, IsFiniteSet(S), NEW ch, \A T \in SUBSET S : T # {} => ch[T] \in T,
           NEW Q, {} \in Q, \A T \in SUBSET S : T # {} /\ T \ {ch[T]} \in Q => T \in Q
    PROVE  SUBSET S \subseteq Q
<1> DEFINE C(T) == Cardinality(T)
           P == {k \in 0..C(S) : \A T \in SUBSET S : C(T) <= k => T \in Q}
<1>1. \A T \in SUBSET S : IsFiniteSet(T) /\ C(T) \in Nat /\ C(T) <= C(S)
  BY FS_Subset, FS_CardinalityType
<1>2. C(S) \in Nat
  BY <1>1
<1>3. 0 \in P
  <2>1. ASSUME NEW T \in SUBSET S, C(T) <= 0 PROVE T \in Q
    <3>1. IsFiniteSet(T) /\ Cardinality(T) = 0
      BY <1>1, <2>1
    <3>2. T = {}
      BY <3>1, FS_EmptySet
    <3>3. QED
      BY <3>2
  <2>2. QED
    BY <1>2, <2>1
<1>4. ASSUME NEW k \in 0..(C(S) - 1), k \in P PROVE k + 1 \in P
  <2>1. ASSUME NEW T \in SUBSET S, C(T) <= k + 1, T # {} PROVE T \in Q
    <3>1. ch[T] \in T /\ T \ {ch[T]} \in SUBSET S
      BY <2>1
    <3>2. C(T \ {ch[T]}) = C(T) - 1
      BY <1>1, <3>1, FS_RemoveElement
    <3>3. T \ {ch[T]} \in Q
      <4>1. C(T) \in Nat /\ C(T) - 1 <= k
        BY <1>1, <1>2, <2>1
      <4>2. QED
        BY <1>4, <3>1, <3>2, <4>1
    <3>4. QED
      BY <2>1, <3>3
  <2>2. k + 1 \in 0..C(S)
    BY <1>2, <1>4
  <2>3. QED
    BY <2>1, <2>2
<1>5. C(S) \in P
  <2> HIDE DEF P, C
  <2>1. 0..C(S) \subseteq P
    BY <1>2, <1>3, <1>4, Ate
  <2>2. QED
    BY <1>2, <2>1
<1>6. QED
  BY <1>1, <1>5

\* A fold with a step F, over a finite set and with values in A.
Escolha(ch, S) == \A T \in SUBSET S : T # {} => ch[T] \in T
Dobra(g, S, ch, A, z0, F) ==
    /\ g \in [SUBSET S -> A]
    /\ g = [T \in SUBSET S |-> IF T = {} THEN z0 ELSE F[<<ch[T], g[T \ {ch[T]}]>>]]
DobraDeMax(g, n, A, z0, F) ==
    /\ g \in [SUBSET (1..n) -> A]
    /\ g = [T \in SUBSET (1..n) |-> IF T = {} THEN z0 ELSE F[<<Max(T), g[T \ {Max(T)}]>>]]

\* The recursive function of a fold exists, with its values in A.
LEMMA DobraExiste ==
    ASSUME NEW S, IsFiniteSet(S), NEW ch, Escolha(ch, S),
           NEW A, NEW z0 \in A, NEW F \in [S \X A -> A]
    PROVE  \E g : Dobra(g, S, ch, A, z0, F)
<1>0. \A T \in SUBSET S : T # {} => ch[T] \in T
  BY DEF Escolha
<1> DEFINE C(T) == Cardinality(T)
           D(k) == {T \in SUBSET S : C(T) <= k}
           Um(T, f) == IF T = {} THEN z0 ELSE F[<<ch[T], f[T \ {ch[T]}]>>]
           E(k, f) == f = [T \in D(k) |-> Um(T, f)]
           P == {k \in 0..C(S) : \E f \in [D(k) -> A] : E(k, f)}
<1>1. \A T \in SUBSET S : IsFiniteSet(T) /\ C(T) \in Nat /\ C(T) <= C(S)
  BY FS_Subset, FS_CardinalityType
<1>2. C(S) \in Nat
  BY <1>1
<1>3. 0 \in P
  <2> DEFINE f == [T \in D(0) |-> z0]
  <2>1. ASSUME NEW T \in D(0) PROVE T = {}
    <3> HIDE DEF P, E, Um, f
    <3>1. IsFiniteSet(T) /\ Cardinality(T) = 0
      BY <1>1, <2>1
    <3>2. QED
      BY <3>1, FS_EmptySet
  <2>2. E(0, f) /\ f \in [D(0) -> A]
    BY <2>1
  <2>3. 0 \in 0..C(S)
    BY <1>2
  <2> HIDE DEF f, E, D, C
  <2>4. QED
    BY <2>2, <2>3
<1>4. ASSUME NEW k \in 0..(C(S) - 1), k \in P PROVE k + 1 \in P
  <2>1. PICK f \in [D(k) -> A] : E(k, f)
    BY <1>4
  <2> DEFINE h == [T \in D(k + 1) |-> Um(T, f)]
  <2>2. ASSUME NEW T \in D(k + 1), T # {}
        PROVE  ch[T] \in T /\ T \ {ch[T]} \in D(k)
    <3> HIDE DEF P, E, Um, h
    <3>1. ch[T] \in T /\ T \ {ch[T]} \in SUBSET S
      BY <1>0, <2>2
    <3>2. C(T \ {ch[T]}) = C(T) - 1
      BY <1>1, <3>1, FS_RemoveElement
    <3>3. C(T) \in Nat /\ C(T) <= k + 1
      BY <1>1, <2>2
    <3> HIDE DEF C
    <3>4. C(T) - 1 <= k
      BY <1>2, <3>3
    <3>5. QED
      BY <3>1, <3>2, <3>4
  <2>3. ASSUME NEW T \in D(k) PROVE T \in D(k + 1) /\ f[T] = h[T]
    <3>1. T \in D(k + 1)
      <4> HIDE DEF P, E, Um, h
      <4>1. C(T) \in Nat /\ C(T) <= k /\ k \in Nat
        BY <1>1, <1>2, <2>3
      <4> HIDE DEF C
      <4>2. C(T) <= k + 1
        BY <4>1
      <4>3. QED
        BY <2>3, <4>2
    <3>2. f[T] = Um(T, f)
      <4> HIDE DEF D, Um
      <4>1. QED
        BY <2>1, <2>3
    <3>3. QED
      BY <3>1, <3>2
  <2>4. ASSUME NEW T \in D(k + 1) PROVE Um(T, f) = Um(T, h) /\ Um(T, f) \in A
    <3>1. CASE T = {}
      BY <3>1
    <3>2. CASE T # {}
      <4>1. f[T \ {ch[T]}] = h[T \ {ch[T]}] /\ f[T \ {ch[T]}] \in A /\ ch[T] \in S
        BY <2>1, <2>2, <2>3, <2>4, <3>2
      <4> HIDE DEF h
      <4>2. QED
        BY <3>2, <4>1
    <3>3. QED
      BY <3>1, <3>2
  <2>5. E(k + 1, h) /\ h \in [D(k + 1) -> A]
    <3> DEFINE u(T) == Um(T, f)
    <3>1. h \in [D(k + 1) -> A]
      <4> HIDE DEF D, Um
      <4>1. QED
        BY <2>4
    <3>2. E(k + 1, h)
      <4> HIDE DEF D, Um, h
      <4>1. h = [T \in D(k + 1) |-> Um(T, f)]
        BY DEF h
      <4>2. QED
        BY <2>4, <4>1
    <3>3. QED
      BY <3>1, <3>2
  <2>6. k + 1 \in 0..C(S)
    <3> HIDE DEF C, P
    <3>1. QED
      BY <1>2, <1>4
  <2> HIDE DEF E, D, C, h
  <2>7. QED
    BY <2>5, <2>6
<1>5. C(S) \in P
  <2> HIDE DEF P, C, D, E, Um
  <2>1. 0..C(S) \subseteq P
    BY <1>2, <1>3, <1>4, Ate
  <2>2. QED
    BY <1>2, <2>1
<1>6. D(C(S)) = SUBSET S
  BY <1>1
<1>7. PICK f \in [SUBSET S -> A] : E(C(S), f)
  <2> HIDE DEF E, D, C
  <2>1. QED
    BY <1>5, <1>6
<1>8. f = [T \in SUBSET S |-> Um(T, f)]
  <2> HIDE DEF Um, D, C
  <2>1. QED
    BY <1>6, <1>7
<1>9. QED
  BY <1>8 DEF Dobra

\* The prefixes of 1..n, as FoldLeft walks them.
LEMMA MaxMembro ==
    ASSUME NEW n \in Nat, NEW T, T \subseteq 1..n, T # {}
    PROVE  Max(T) \in T /\ \A y \in T : y <= Max(T)
<1> DEFINE U == {n - x : x \in T}
<1>0. \A x \in T : x \in 1..n /\ n - x \in Nat
  OBVIOUS
<1>1. U \subseteq Nat /\ U # {}
  BY <1>0
<1> HIDE DEF U
<1>2. PICK u \in U : \A w \in U : u <= w
  BY <1>1, TemMenor
<1> USE DEF U
<1>3. PICK x \in T : u = n - x
  OBVIOUS
<1>4. \A y \in T : n - y \in U /\ y \in Int /\ x \in Int
  OBVIOUS
<1>5. \A y \in T : x >= y
  BY <1>2, <1>3, <1>4
<1>6. \A y \in T : Max(T) >= y /\ Max(T) \in T
  BY <1>5 DEF Max
<1>7. QED
  BY <1>6

LEMMA Prefixo ==
    ASSUME NEW n \in Nat, NEW k \in 0..(n - 1)
    PROVE  /\ 1..(k + 1) \in SUBSET (1..n) /\ 1..(k + 1) # {} /\ 1..k \in SUBSET (1..n)
           /\ Max(1..(k + 1)) = k + 1 /\ (1..(k + 1)) \ {k + 1} = 1..k
<1>1. 1..(k + 1) \subseteq 1..n /\ k + 1 \in 1..(k + 1) /\ 1..k \subseteq 1..n
  OBVIOUS
<1>2. Max(1..(k + 1)) \in 1..(k + 1) /\ k + 1 <= Max(1..(k + 1))
  BY <1>1, MaxMembro
<1>3. Max(1..(k + 1)) = k + 1
  BY <1>2
<1>4. (1..(k + 1)) \ {k + 1} = 1..k
  OBVIOUS
<1>5. QED
  BY <1>1, <1>3, <1>4

\* FoldLeft over n steps: the recursion that takes out the last position exists.
LEMMA DobraSeq ==
    ASSUME NEW n \in Nat, NEW A, NEW z0 \in A, NEW F \in [(1..n) \X A -> A]
    PROVE  \E g : DobraDeMax(g, n, A, z0, F)
<1> DEFINE S == 1..n
           ch == [T \in SUBSET S |-> Max(T)]
<1>1. IsFiniteSet(S)
  BY FS_Interval
<1>2. \A T \in SUBSET S : ch[T] = Max(T) /\ (T # {} => ch[T] \in T)
  BY MaxMembro
<1> HIDE DEF ch
<1>3. Escolha(ch, S)
  BY <1>2 DEF Escolha
<1>4. PICK g : Dobra(g, S, ch, A, z0, F)
  <2>1. F \in [S \X A -> A]
    OBVIOUS
  <2> HIDE DEF S
  <2>2. QED
    BY <1>1, <1>3, <2>1, DobraExiste
<1>5. g = [T \in SUBSET S |-> IF T = {} THEN z0 ELSE F[<<Max(T), g[T \ {Max(T)}]>>]]
  <2> HIDE DEF S
  <2>1. g = [T \in SUBSET S |-> IF T = {} THEN z0 ELSE F[<<ch[T], g[T \ {ch[T]}]>>]]
    BY <1>4 DEF Dobra
  <2>2. QED
    BY <1>2, <2>1
<1>6. QED
  BY <1>4, <1>5 DEF Dobra, DobraDeMax

\* A fold over the positions of a sequence of n members takes out the greatest
\* first: i follows it when its values are those that F makes, and the values h
\* of its prefixes are then each made from the one before.
Dobravel(n, A, z0, F) == n \in Nat /\ z0 \in A /\ F \in [(1..n) \X A -> A]
Segue(i, n, A, z0, F) ==
    /\ i[{}] = z0
    /\ \A T \in SUBSET (1..n) :
          T # {} /\ i[T \ {Max(T)}] \in A => i[T] = F[<<Max(T), i[T \ {Max(T)}]>>]
Valores(h, n, A, z0, F) ==
    /\ h \in [0..n -> A] /\ h[0] = z0
    /\ \A k \in 0..(n - 1) : h[k + 1] = F[<<k + 1, h[k]>>]

\* An invariant of the steps of a fold holds of its result.
LEMMA Percurso ==
    ASSUME NEW n, NEW A, NEW z0, NEW F, NEW i, Dobravel(n, A, z0, F), Segue(i, n, A, z0, F)
    PROVE  \E h : Valores(h, n, A, z0, F) /\ h[n] = i[1..n]
<1>1. n \in Nat /\ z0 \in A /\ F \in [(1..n) \X A -> A]
  BY DEF Dobravel
<1> DEFINE h == [k \in 0..n |-> i[1..k]]
           Q == {k \in 0..n : i[1..k] \in A}
<1>2. i[1..0] = z0
  <2>1. 1..0 = {}
    OBVIOUS
  <2>2. QED
    BY <2>1 DEF Segue
<1>3. ASSUME NEW k \in 0..(n - 1), k \in Q
      PROVE  k + 1 \in Q /\ i[1..(k + 1)] = F[<<k + 1, i[1..k]>>]
  <2>1. /\ 1..(k + 1) \in SUBSET (1..n) /\ 1..(k + 1) # {}
        /\ Max(1..(k + 1)) = k + 1 /\ (1..(k + 1)) \ {k + 1} = 1..k
    BY <1>1, Prefixo
  <2>2. i[1..(k + 1)] = F[<<k + 1, i[1..k]>>]
    BY <1>3, <2>1 DEF Segue
  <2>3. k + 1 \in 1..n /\ k + 1 \in 0..n
    BY <1>1
  <2>4. F[<<k + 1, i[1..k]>>] \in A
    BY <1>1, <1>3, <2>3
  <2>5. QED
    BY <2>2, <2>3, <2>4
<1>4. 0..n \subseteq Q
  <2>1. 0 \in Q
    BY <1>1, <1>2
  <2> HIDE DEF Q
  <2>2. QED
    BY <1>1, <1>3, <2>1, Ate
<1>5. h \in [0..n -> A]
  BY <1>4
<1>6. h[0] = z0 /\ h[n] = i[1..n]
  <2>1. 0 \in 0..n /\ n \in 0..n
    BY <1>1
  <2>2. QED
    BY <1>2, <2>1
<1>7. ASSUME NEW k \in 0..(n - 1) PROVE h[k + 1] = F[<<k + 1, h[k]>>]
  <2>1. k \in 0..n /\ k + 1 \in 0..n
    BY <1>1
  <2>2. k \in Q
    BY <1>4, <2>1
  <2>3. QED
    BY <1>3, <2>1, <2>2
<1>8. QED
  BY <1>5, <1>6, <1>7 DEF Valores

-----------------------------------------------------------------------------
(* Subsequences.                                                           *)

\* The members of a sequence, and of the same with one more.
LEMMA ToSetAppend ==
    ASSUME NEW B, NEW t \in Seq(B), NEW x
    PROVE  ToSet(Append(t, x)) = ToSet(t) \cup {x}
<1>1. t \in Seq(B \cup {x})
  OBVIOUS
<1>2. /\ DOMAIN Append(t, x) = 1..(Len(t) + 1) /\ Len(t) \in Nat /\ DOMAIN t = 1..Len(t)
      /\ Append(t, x)[Len(t) + 1] = x
      /\ \A n \in 1..Len(t) : Append(t, x)[n] = t[n]
  BY <1>1
<1>3. 1..(Len(t) + 1) = 1..Len(t) \cup {Len(t) + 1}
  BY <1>2
<1>4. QED
  BY <1>2, <1>3 DEF ToSet

\* The members at the positions D: a sequence of those members, and all of them.
LEMMA NasDe ==
    ASSUME NEW B, NEW s \in Seq(B), NEW D
    PROVE  /\ Nas(s, D) \in Seq(B)
           /\ ToSet(Nas(s, D)) = {s[i] : i \in D \cap DOMAIN s}
<1> DEFINE n == Len(s)
           A == Seq(B)
           z == <<>>
           Op(t, x) == IF x \in D THEN Append(t, s[x]) ELSE t
           F == [p \in (1..n) \X A |-> Op(p[2], p[1])]
           dom == [x \in DOMAIN s |-> x]
           E(f) == f = [T \in SUBSET (DOMAIN dom) |->
                          IF T = {} THEN z ELSE LET x == Max(T) IN Op(f[T \ {x}], dom[x])]
<1>1. n \in Nat /\ DOMAIN s = 1..n /\ DOMAIN dom = 1..n /\ z \in A
  BY DEF z
<1>2. F \in [(1..n) \X A -> A] /\ \A x \in 1..n, t \in A : F[<<x, t>>] = Op(t, x)
  BY DEF z
<1>3. \A T \in SUBSET (1..n) : T # {} => Max(T) \in 1..n /\ dom[Max(T)] = Max(T)
  BY <1>1, MaxMembro
<1> HIDE DEF F, dom, A, n, z
<1>4. Dobravel(n, A, z, F)
  BY <1>1, <1>2 DEF Dobravel
<1>5. PICK i : Segue(i, n, A, z, F) /\ Nas(s, D) = i[1..n]
  <2> HIDE DEF Op
  <2>1. PICK g : DobraDeMax(g, n, A, z, F)
    BY <1>4, DobraSeq DEF Dobravel
  <2>2. ASSUME NEW T \in SUBSET (1..n), T # {}, NEW f, f[T \ {Max(T)}] \in A
        PROVE  Op(f[T \ {Max(T)}], dom[Max(T)]) = F[<<Max(T), f[T \ {Max(T)}]>>]
    BY <1>2, <1>3, <2>2
  <2>3. E(g)
    <3>1. ASSUME NEW T \in SUBSET (1..n), T # {} PROVE g[T \ {Max(T)}] \in A
      BY <2>1 DEF DobraDeMax
    <3>2. QED
      BY <1>1, <2>1, <2>2, <3>1 DEF DobraDeMax
  <2>4. \E i : E(i) /\ Nas(s, D) = i[DOMAIN dom]
    BY <2>3 DEF Nas, FoldLeftDomain, FoldLeft, MapThenFoldSet, Op, dom, z
  <2>5. PICK i : E(i) /\ Nas(s, D) = i[1..n]
    BY <1>1, <2>4
  <2>6. Segue(i, n, A, z, F)
    BY <1>1, <2>2, <2>5 DEF Segue
  <2>7. QED
    BY <2>5, <2>6
<1>6. PICK h : Valores(h, n, A, z, F) /\ h[n] = i[1..n]
  BY <1>4, <1>5, Percurso
<1> DEFINE Q == {k \in 0..n : ToSet(h[k]) = {s[j] : j \in D \cap (1..k)}}
<1>7. 0 \in Q
  <2>1. h[0] = <<>> /\ 0 \in 0..n /\ 1..0 = {}
    BY <1>1, <1>6 DEF Valores, z
  <2>2. ToSet(<<>>) = {}
    BY DEF ToSet
  <2>3. QED
    BY <2>1, <2>2
<1>8. ASSUME NEW k \in 0..(n - 1), k \in Q PROVE k + 1 \in Q
  <2>1. k + 1 \in 1..n /\ k \in 0..n /\ k + 1 \in 0..n /\ 1..(k + 1) = 1..k \cup {k + 1}
    BY <1>1
  <2>2. h[k] \in Seq(B) /\ s[k + 1] \in B
    BY <1>1, <1>6, <2>1 DEF Valores, A, n
  <2>3. h[k + 1] = IF k + 1 \in D THEN Append(h[k], s[k + 1]) ELSE h[k]
    BY <1>2, <1>6, <2>1, <2>2 DEF Valores, A
  <2>4. ToSet(Append(h[k], s[k + 1])) = ToSet(h[k]) \cup {s[k + 1]}
    BY <2>2, ToSetAppend
  <2>5. CASE k + 1 \in D
    <3>1. ToSet(h[k + 1]) = ToSet(h[k]) \cup {s[k + 1]}
      BY <2>3, <2>4, <2>5
    <3>2. {s[j] : j \in D \cap (1..(k + 1))} = {s[j] : j \in D \cap (1..k)} \cup {s[k + 1]}
      BY <2>1, <2>5
    <3>3. QED
      BY <1>8, <2>1, <3>1, <3>2
  <2>6. CASE k + 1 \notin D
    BY <1>8, <2>1, <2>3, <2>6
  <2>7. QED
    BY <2>5, <2>6
<1>9. n \in Q /\ h[n] \in A
  <2>1. n \in 0..n
    BY <1>1
  <2>2. 0..n \subseteq Q
    <3> HIDE DEF Q
    <3>1. QED
      BY <1>1, <1>7, <1>8, Ate
  <2>3. QED
    BY <1>6, <2>1, <2>2 DEF Valores
<1>10. QED
  BY <1>1, <1>5, <1>6, <1>9 DEF A

-----------------------------------------------------------------------------
(* The router: a citation gets its labels one at a time.                   *)

\* The segments of a question, and so its citations, are sequences.
NumLinha == UNION {[S -> STRING] : S \in SUBSET STRING}
Segmento == [partes : NumLinha, ligado : BOOLEAN, fora : {"nao", "logo", "todos"}]

\* One label more leaves a well formed segment.
LEMMA EncaixaTipo ==
    ASSUME NEW segs \in Seq(Segmento), NEW c \in Parte
    PROVE  Encaixa(segs, c) \in Seq(Segmento)
<1> DEFINE n == Len(segs)
           um == Com(<<>>, c)
           novo == [partes |-> um, ligado |-> FALSE, fora |-> c.fora]
<1>1. c.tipo \in STRING /\ c.valor \in STRING /\ c.fora \in {"nao", "logo", "todos"}
  BY DEF Parte
<1>2. um \in NumLinha
  <2>1. um = [x \in {c.tipo} |-> c.valor]
    BY DEF Com
  <2>2. um \in [{c.tipo} -> STRING]
    BY <1>1, <2>1
  <2>3. QED
    BY <1>1, <2>2 DEF NumLinha
<1> HIDE DEF um
<1>3. novo \in Segmento
  BY <1>1, <1>2 DEF Segmento
<1> HIDE DEF novo
<1>4. CASE n = 0
  <2>1. Encaixa(segs, c) = <<novo>>
    BY <1>4 DEF Encaixa, novo, um
  <2>2. QED
    BY <1>3, <2>1
<1>5. CASE n # 0
  <2>1. n \in 1..n /\ DOMAIN segs = 1..n /\ segs[n] \in Segmento /\ n \in Nat
    BY <1>5
  <2>2. segs[n].partes \in NumLinha
    BY <2>1 DEF Segmento
  <2>3. Com(segs[n].partes, c) \in NumLinha
    <3> DEFINE q == segs[n].partes
    <3>1. PICK S \in SUBSET STRING : q \in [S -> STRING]
      BY <2>2 DEF NumLinha
    <3> HIDE DEF q
    <3>2. Com(q, c) \in [S \cup {c.tipo} -> STRING]
      BY <1>1, <3>1 DEF Com
    <3>3. QED
      BY <1>1, <3>1, <3>2 DEF NumLinha, q
  <2>4. ASSUME NEW x \in Segmento PROVE [segs EXCEPT ![n] = x] \in Seq(Segmento)
    BY <2>1, <2>4
  <2> DEFINE colado == [segs[n] EXCEPT !.partes = Com(segs[n].partes, c), !.fora = c.fora]
             solto == [segs[n] EXCEPT !.ligado = c.liga # "solta"]
  <2>5. colado \in Segmento
    BY <1>1, <2>1, <2>3 DEF Segmento
  <2>6. solto \in Segmento
    BY <2>1 DEF Segmento
  <2>7. \/ Encaixa(segs, c) = [segs EXCEPT ![n] = colado]
        \/ Encaixa(segs, c) = Append([segs EXCEPT ![n] = solto], novo)
    <3>1. [segs EXCEPT ![n].partes = Com(@, c), ![n].fora = c.fora] = [segs EXCEPT ![n] = colado]
      BY <2>1 DEF Segmento
    <3>2. [segs EXCEPT ![n].ligado = c.liga # "solta"] = [segs EXCEPT ![n] = solto]
      BY <2>1 DEF Segmento
    <3> HIDE DEF colado, solto
    <3>3. QED
      BY <1>5, <3>1, <3>2 DEF Encaixa, novo, um
  <2> HIDE DEF colado, solto
  <2>8. QED
    BY <1>3, <2>4, <2>5, <2>6, <2>7
<1>6. QED
  BY <1>4, <1>5

\* The labels of a citation make well formed segments.
LEMMA SegmentosTipo ==
    ASSUME NEW s \in Seq(Parte)
    PROVE  Segmentos(s) \in Seq(Segmento)
<1> DEFINE n == Len(s)
           A == Seq(Segmento)
           z == <<>>
           F == [p \in (1..n) \X A |-> Encaixa(p[2], s[p[1]])]
           E(f) == f = [T \in SUBSET (DOMAIN s) |->
                          IF T = {} THEN z ELSE LET x == Max(T) IN Encaixa(f[T \ {x}], s[x])]
<1>1. n \in Nat /\ DOMAIN s = 1..n /\ z \in A
  BY DEF z
<1>2. F \in [(1..n) \X A -> A] /\ \A x \in 1..n, t \in A : F[<<x, t>>] = Encaixa(t, s[x])
  <2>1. \A x \in 1..n : s[x] \in Parte
    OBVIOUS
  <2>2. \A x \in 1..n, t \in A : Encaixa(t, s[x]) \in A
    BY <2>1, EncaixaTipo
  <2>3. QED
    BY <2>2
<1>3. \A T \in SUBSET (1..n) : T # {} => Max(T) \in 1..n
  BY <1>1, MaxMembro
<1> HIDE DEF F, A, n, z
<1>4. Dobravel(n, A, z, F)
  BY <1>1, <1>2 DEF Dobravel
<1>5. PICK i : Segue(i, n, A, z, F) /\ Segmentos(s) = i[1..n]
  <2>1. PICK g : DobraDeMax(g, n, A, z, F)
    BY <1>4, DobraSeq DEF Dobravel
  <2>2. ASSUME NEW T \in SUBSET (1..n), T # {}, NEW f, f[T \ {Max(T)}] \in A
        PROVE  Encaixa(f[T \ {Max(T)}], s[Max(T)]) = F[<<Max(T), f[T \ {Max(T)}]>>]
    BY <1>2, <1>3, <2>2
  <2>3. E(g)
    <3>1. ASSUME NEW T \in SUBSET (1..n), T # {} PROVE g[T \ {Max(T)}] \in A
      BY <2>1 DEF DobraDeMax
    <3>2. QED
      BY <1>1, <2>1, <2>2, <3>1 DEF DobraDeMax
  <2>4. \E i : E(i) /\ Segmentos(s) = i[DOMAIN s]
    BY <2>3 DEF Segmentos, FoldLeft, MapThenFoldSet, z
  <2>5. PICK i : E(i) /\ Segmentos(s) = i[1..n]
    BY <1>1, <2>4
  <2>6. Segue(i, n, A, z, F)
    BY <1>1, <2>2, <2>5 DEF Segue
  <2>7. QED
    BY <2>5, <2>6
<1>6. PICK h : Valores(h, n, A, z, F) /\ h[n] = i[1..n]
  BY <1>4, <1>5, Percurso
<1>7. h[n] \in A
  BY <1>1, <1>6 DEF Valores
<1>8. QED
  BY <1>5, <1>6, <1>7 DEF A

\* What parse_citations gives: paths of labels.
LEMMA ParseTipo ==
    ASSUME NEW s \in Seq(Parte)
    PROVE  \E B : ParseCitations(s) \in Seq(B)
<1> DEFINE segs == Segmentos(s)
           idx == [i \in 1..Len(segs) |-> i]
           com == ComArtigo(segs)
           B == {Cita(segs, com[n]) : n \in 1..Len(com)}
<1>1. Len(segs) \in Nat
  BY SegmentosTipo
<1> HIDE DEF segs
<1>2. idx \in Seq(Int)
  BY <1>1
<1>3. com \in Seq(Int)
  <2> HIDE DEF idx
  <2>1. Nas(idx, {i \in 1..Len(segs) : Fonte(segs, i) # 0}) \in Seq(Int)
    BY <1>2, NasDe
  <2>2. QED
    BY <2>1 DEF idx, ComArtigo
<1> HIDE DEF com
<1>4. [n \in 1..Len(com) |-> Cita(segs, com[n])] \in Seq(B)
  BY <1>3
<1>5. ParseCitations(s) = [n \in 1..Len(com) |-> Cita(segs, com[n])]
  BY DEF ParseCitations, Leituras, com, segs
<1> HIDE DEF B
<1>6. QED
  BY <1>4, <1>5

\* The citations of this law are among them.
LEMMA NossasTipo ==
    ASSUME NEW s \in Seq(Parte)
    PROVE  \E B : Nossas(s) \in Seq(B)
<1>1. PICK B : ParseCitations(s) \in Seq(B)
  BY ParseTipo
<1>2. Nossas(s) \in Seq(B)
  BY <1>1, NasDe DEF Nossas, Proprias
<1>3. QED
  BY <1>2

\* What the router lists are provisions of the index.
LEMMA RotaTipo ==
    ASSUME NEW q, NEW ids, q.partes \in Seq(Parte)
    PROVE  /\ Rota(q, ids).rota \in {"sql", "clarify", "vector", "combined"}
           /\ Rota(q, ids).ancoras \in Seq(ids)
<1> DEFINE nossas == Nossas(q.partes)
           uma(c) == CHOOSE p \in Resolve(c, ids) : TRUE
           ancoras == [n \in 1..Len(nossas) |-> uma(nossas[n])]
<1>1. Len(nossas) \in Nat
  BY NossasTipo
<1> HIDE DEF nossas
<1>2. ASSUME ~Faltam(q, ids) PROVE ancoras \in Seq(ids)
  <2>1. \A n \in 1..Len(nossas) : Resolve(nossas[n], ids) # {}
    BY <1>2 DEF Faltam, Citadas, nossas
  <2>2. \A c : Resolve(c, ids) \subseteq ids
    BY DEF Resolve
  <2>3. \A n \in 1..Len(nossas) : uma(nossas[n]) \in ids
    BY <2>1, <2>2
  <2> HIDE DEF uma
  <2>4. QED
    BY <1>1, <2>3
<1> HIDE DEF ancoras
<1>3. \/ Rota(q, ids) = [rota |-> "vector", ancoras |-> <<>>]
      \/ Rota(q, ids) = [rota |-> "clarify", ancoras |-> <<>>]
      \/ ~Faltam(q, ids) /\ Rota(q, ids) = [rota |-> "sql", ancoras |-> ancoras]
      \/ ~Faltam(q, ids) /\ Rota(q, ids) = [rota |-> "combined", ancoras |-> ancoras]
  BY DEF Rota, ancoras, nossas
<1>4. <<>> \in Seq(ids)
  OBVIOUS
<1>5. ASSUME NEW r, NEW a, Rota(q, ids) = [rota |-> r, ancoras |-> a]
      PROVE  Rota(q, ids).rota = r /\ Rota(q, ids).ancoras = a
  BY <1>5
<1>6. CASE Faltam(q, ids)
  <2>1. Rota(q, ids).rota \in {"vector", "clarify"} /\ Rota(q, ids).ancoras = <<>>
    BY <1>3, <1>5, <1>6
  <2>2. QED
    BY <1>4, <2>1
<1>7. CASE ~Faltam(q, ids)
  <2>1. /\ Rota(q, ids).rota \in {"sql", "clarify", "vector", "combined"}
        /\ Rota(q, ids).ancoras \in {<<>>, ancoras}
    BY <1>3, <1>5
  <2>2. QED
    BY <1>2, <1>4, <1>7, <2>1
<1>8. QED
  BY <1>6, <1>7

-----------------------------------------------------------------------------
(* The articles of a question, in order and once each.                     *)

\* A new member keeps a sequence without repetitions.
LEMMA InjetivaAppend ==
    ASSUME NEW B, NEW t \in Seq(B), NEW x \in B, IsInjective(t), x \notin ToSet(t)
    PROVE  IsInjective(Append(t, x))
<1>1. /\ DOMAIN Append(t, x) = 1..(Len(t) + 1) /\ Len(t) \in Nat /\ DOMAIN t = 1..Len(t)
      /\ Append(t, x)[Len(t) + 1] = x
      /\ \A n \in 1..Len(t) : Append(t, x)[n] = t[n]
  OBVIOUS
<1>2. 1..(Len(t) + 1) = 1..Len(t) \cup {Len(t) + 1}
  BY <1>1
<1>3. QED
  BY <1>1, <1>2 DEF IsInjective, ToSet

\* Each article once, and every article of an anchor or a hit.
LEMMA ArtigosTipo ==
    ASSUME NEW ancoras, NEW hits, Len(ancoras) \in Nat, Len(hits) \in Nat
    PROVE  /\ \E B : Artigos(ancoras, hits) \in Seq(B)
           /\ IsInjective(Artigos(ancoras, hits))
           /\ \A k \in 1..Len(ancoras) : ancoras[k][1] \in ToSet(Artigos(ancoras, hits))
<1> DEFINE s1 == [k \in 1..Len(ancoras) |-> ancoras[k][1]]
           s2 == [k \in 1..Len(hits) |-> hits[k].art]
           s == s1 \o s2
           B == ToSet(s1) \cup ToSet(s2)
           n == Len(s)
           A == Seq(B)
           z == <<>>
           Op(t, x) == IF Contains(t, x) THEN t ELSE Append(t, x)
           F == [p \in (1..n) \X A |-> Op(p[2], s[p[1]])]
           E(f) == f = [T \in SUBSET (DOMAIN s) |->
                          IF T = {} THEN z ELSE LET x == Max(T) IN Op(f[T \ {x}], s[x])]
<1>0. s1 \in Seq(B) /\ s2 \in Seq(B)
  BY DEF ToSet
<1>1. /\ s \in Seq(B) /\ n \in Nat /\ DOMAIN s = 1..n /\ z \in A
      /\ Len(ancoras) <= n /\ \A k \in 1..Len(ancoras) : s[k] = ancoras[k][1]
  <2> HIDE DEF B
  <2>1. QED
    BY <1>0 DEF z
<1> HIDE DEF s, B
<1>2. F \in [(1..n) \X A -> A] /\ \A x \in 1..n, t \in A : F[<<x, t>>] = Op(t, s[x])
  <2>1. \A x \in 1..n : s[x] \in B
    BY <1>1
  <2>2. \A x \in 1..n, t \in A : Op(t, s[x]) \in A
    BY <2>1
  <2> HIDE DEF Op
  <2>3. QED
    BY <2>2
<1>3. \A T \in SUBSET (1..n) : T # {} => Max(T) \in 1..n
  BY <1>1, MaxMembro
<1> HIDE DEF F, A, n, z
<1>4. Dobravel(n, A, z, F)
  BY <1>1, <1>2 DEF Dobravel
<1>5. PICK i : Segue(i, n, A, z, F) /\ Artigos(ancoras, hits) = i[1..n]
  <2> HIDE DEF Op
  <2>1. PICK g : DobraDeMax(g, n, A, z, F)
    BY <1>4, DobraSeq DEF Dobravel
  <2>2. ASSUME NEW T \in SUBSET (1..n), T # {}, NEW f, f[T \ {Max(T)}] \in A
        PROVE  Op(f[T \ {Max(T)}], s[Max(T)]) = F[<<Max(T), f[T \ {Max(T)}]>>]
    BY <1>2, <1>3, <2>2
  <2>3. E(g)
    <3>1. ASSUME NEW T \in SUBSET (1..n), T # {} PROVE g[T \ {Max(T)}] \in A
      BY <2>1 DEF DobraDeMax
    <3>2. DOMAIN s = 1..n
      BY <1>1
    <3>3. QED
      BY <2>1, <2>2, <3>1, <3>2 DEF DobraDeMax
  <2>4. \E i : E(i) /\ Artigos(ancoras, hits) = i[DOMAIN s]
    BY <2>3 DEF Artigos, FoldLeft, MapThenFoldSet, Op, z, s
  <2>5. PICK i : E(i) /\ Artigos(ancoras, hits) = i[1..n]
    BY <1>1, <2>4
  <2>6. Segue(i, n, A, z, F)
    BY <1>1, <2>2, <2>5 DEF Segue
  <2>7. QED
    BY <2>5, <2>6
<1>6. PICK h : Valores(h, n, A, z, F) /\ h[n] = i[1..n]
  BY <1>4, <1>5, Percurso
<1> DEFINE Q == {k \in 0..n : IsInjective(h[k]) /\ \A j \in 1..k : s[j] \in ToSet(h[k])}
<1>7. 0 \in Q
  <2>1. h[0] = <<>> /\ 0 \in 0..n /\ 1..0 = {}
    BY <1>1, <1>6 DEF Valores, z
  <2>2. IsInjective(<<>>)
    BY DEF IsInjective
  <2>3. QED
    BY <2>1, <2>2
<1>8. ASSUME NEW k \in 0..(n - 1), k \in Q PROVE k + 1 \in Q
  <2>1. k + 1 \in 1..n /\ k \in 0..n /\ k + 1 \in 0..n /\ 1..(k + 1) = 1..k \cup {k + 1}
    BY <1>1
  <2>2. h[k] \in Seq(B) /\ s[k + 1] \in B
    BY <1>1, <1>6, <2>1 DEF Valores, A, n
  <2>3. h[k + 1] = Op(h[k], s[k + 1])
    <3> HIDE DEF Op
    <3>1. QED
      BY <1>2, <1>6, <2>1, <2>2 DEF Valores, A
  <2>4. Contains(h[k], s[k + 1]) <=> s[k + 1] \in ToSet(h[k])
    BY <2>2 DEF Contains, ToSet
  <2>5. ToSet(Append(h[k], s[k + 1])) = ToSet(h[k]) \cup {s[k + 1]}
    BY <2>2, ToSetAppend
  <2>6. s[k + 1] \notin ToSet(h[k]) => IsInjective(Append(h[k], s[k + 1]))
    BY <1>8, <2>2, InjetivaAppend
  <2>7. QED
    BY <1>8, <2>1, <2>3, <2>4, <2>5, <2>6
<1>9. n \in Q /\ h[n] \in A
  <2>1. n \in 0..n
    BY <1>1
  <2>2. 0..n \subseteq Q
    <3> HIDE DEF Q
    <3>1. QED
      BY <1>1, <1>7, <1>8, Ate
  <2>3. QED
    BY <1>6, <2>1, <2>2 DEF Valores
<1>10. /\ Artigos(ancoras, hits) \in Seq(B) /\ IsInjective(Artigos(ancoras, hits))
       /\ \A j \in 1..n : s[j] \in ToSet(Artigos(ancoras, hits))
  BY <1>5, <1>6, <1>9 DEF A
<1>11. QED
  BY <1>1, <1>10

-----------------------------------------------------------------------------
(* Sums, and the rows of an article within a limit.                        *)

\* A sum of naturals over a finite set is one.
LEMMA SomaNat ==
    ASSUME NEW f, IsFiniteSet(DOMAIN f), \A x \in DOMAIN f : f[x] \in Nat
    PROVE  FoldFunction(+, 0, f) \in Nat
<1> DEFINE S == DOMAIN f
           ch == [T \in SUBSET S |-> CHOOSE x \in T : TRUE]
           F == [p \in S \X Nat |-> f[p[1]] + p[2]]
           E(g) == g = [T \in SUBSET S |->
                          IF T = {} THEN 0 ELSE LET x == CHOOSE x \in T : TRUE IN f[x] + g[T \ {x}]]
<1>1. \A T \in SUBSET S : ch[T] = (CHOOSE x \in T : TRUE) /\ (T # {} => ch[T] \in T)
  OBVIOUS
<1>2. F \in [S \X Nat -> Nat] /\ \A x \in S, t \in Nat : F[<<x, t>>] = f[x] + t
  OBVIOUS
<1> HIDE DEF ch, F
<1>3. Escolha(ch, S)
  BY <1>1 DEF Escolha
<1>4. PICK g : Dobra(g, S, ch, Nat, 0, F)
  <2> HIDE DEF S
  <2>1. IsFiniteSet(S) /\ 0 \in Nat
    BY DEF S
  <2>2. QED
    BY <1>2, <1>3, <2>1, DobraExiste
<1>5. E(g)
  <2>1. ASSUME NEW T \in SUBSET S, T # {}
        PROVE  F[<<ch[T], g[T \ {ch[T]}]>>] = f[CHOOSE x \in T : TRUE] + g[T \ {CHOOSE x \in T : TRUE}]
    <3>1. ch[T] \in S /\ g[T \ {ch[T]}] \in Nat
      BY <1>1, <1>4, <2>1 DEF Dobra
    <3>2. QED
      BY <1>1, <1>2, <2>1, <3>1
  <2>2. QED
    BY <1>4, <2>1 DEF Dobra
<1>6. PICK i : E(i) /\ FoldFunction(+, 0, f) = i[S]
  <2>1. \E i : E(i) /\ FoldFunction(+, 0, f) = i[S]
    BY <1>5 DEF FoldFunction, FoldFunctionOnSet, MapThenFoldSet
  <2>2. QED
    BY <2>1
<1> DEFINE Q == {T \in SUBSET S : i[T] \in Nat}
<1>7. {} \in Q
  <2>1. {} \in SUBSET S
    OBVIOUS
  <2> HIDE DEF S
  <2>2. i[{}] = 0
    BY <1>6, <2>1
  <2>3. QED
    BY <2>1, <2>2
<1>8. ASSUME NEW T \in SUBSET S, T # {}, T \ {ch[T]} \in Q PROVE T \in Q
  <2>1. ch[T] \in S /\ i[T \ {ch[T]}] \in Nat
    BY <1>1, <1>8
  <2>2. i[T] = f[ch[T]] + i[T \ {ch[T]}]
    BY <1>1, <1>6, <1>8
  <2>3. QED
    BY <2>1, <2>2
<1>9. SUBSET S \subseteq Q
  <2> HIDE DEF Q, S
  <2>1. IsFiniteSet(S)
    BY DEF S
  <2>2. \A T \in SUBSET S : T # {} => ch[T] \in T
    BY <1>1
  <2>3. QED
    BY <1>7, <1>8, <2>1, <2>2, Tirando
<1>10. QED
  BY <1>6, <1>9

\* What a block has taken in, of provisions I and windows over J; a unit of it.
Janelas(J) == UNION {[D -> {X \in SUBSET (Nat \X Nat) : IsFiniteSet(X)}] : D \in SUBSET J}
Acumulado(I, J) == [inc : SUBSET I, jan : Janelas(J)]
Unidade(I, J) ==
    [ids : SUBSET I, obrig : BOOLEAN,
     jan : {X \in SUBSET (J \X (Nat \X Nat)) : IsFiniteSet(X)}]

\* A window with one interval more is a finite set of intervals.
LEMMA JanelaNova ==
    ASSUME NEW J, NEW jan \in Janelas(J), NEW nova \in SUBSET (J \X (Nat \X Nat)), IsFiniteSet(nova)
    PROVE  [p \in DOMAIN jan \cup {w[1] : w \in nova} |->
               (IF p \in DOMAIN jan THEN jan[p] ELSE {}) \cup {w[2] : w \in {x \in nova : x[1] = p}}]
             \in Janelas(J)
<1> DEFINE Fin == {X \in SUBSET (Nat \X Nat) : IsFiniteSet(X)}
           velha(p) == IF p \in DOMAIN jan THEN jan[p] ELSE {}
           mais(p) == {w[2] : w \in {x \in nova : x[1] = p}}
           dom == DOMAIN jan \cup {w[1] : w \in nova}
<1>1. PICK D \in SUBSET J : jan \in [D -> Fin]
  BY DEF Janelas
<1>2. dom \in SUBSET J
  BY <1>1
<1>3. ASSUME NEW p \in dom PROVE velha(p) \cup mais(p) \in Fin
  <2>1. velha(p) \in Fin
    <3>1. {} \in Fin
      BY FS_EmptySet
    <3>2. QED
      BY <1>1, <3>1
  <2>2. mais(p) \subseteq Nat \X Nat
    OBVIOUS
  <2>3. IsFiniteSet(mais(p))
    <3> DEFINE X == {x \in nova : x[1] = p}
    <3>1. IsFiniteSet(X)
      BY FS_Subset
    <3> HIDE DEF X
    <3>2. IsFiniteSet({w[2] : w \in X})
      <4> DEFINE f == [w \in X |-> w[2]]
      <4>1. {w[2] : w \in X} = {f[w] : w \in X}
        OBVIOUS
      <4> HIDE DEF f
      <4>2. f \in [X -> {f[w] : w \in X}] /\ f \in Surjection(X, {f[w] : w \in X})
        BY DEF Surjection, f
      <4>3. QED
        BY <3>1, <4>1, <4>2, FS_Surjection
    <3>3. QED
      BY <3>2 DEF X
  <2> HIDE DEF velha, mais
  <2>4. IsFiniteSet(velha(p) \cup mais(p))
    BY <2>1, <2>3, FS_Union
  <2>5. QED
    BY <2>1, <2>2, <2>4
<1> HIDE DEF velha, mais, dom, Fin
<1>4. [p \in dom |-> velha(p) \cup mais(p)] \in [dom -> Fin]
  BY <1>3
<1>5. [p \in dom |-> velha(p) \cup mais(p)] \in Janelas(J)
  BY <1>2, <1>4 DEF Janelas, Fin
<1>6. QED
  BY <1>5 DEF dom, velha, mais

\* A turn of the loop of build_block keeps what was in, and a mandatory unit
\* always gets in.
LEMMA IncluiTipo ==
    ASSUME NEW L, NEW art, NEW limite, NEW I, NEW J, DOMAIN L \subseteq I,
           NEW acc \in Acumulado(I, J), NEW u \in Unidade(I, J)
    PROVE  /\ Inclui(L, art, limite, acc, u) \in Acumulado(I, J)
           /\ acc.inc \subseteq Inclui(L, art, limite, acc, u).inc
           /\ u.obrig => u.ids \subseteq Inclui(L, art, limite, acc, u).inc
<1> DEFINE nova == {w \in u.jan : ~(w[1] \in acc.inc /\ w[1] \notin DOMAIN acc.jan)}
           jan == [p \in DOMAIN acc.jan \cup {w[1] : w \in nova} |->
                    (IF p \in DOMAIN acc.jan THEN acc.jan[p] ELSE {})
                        \cup {w[2] : w \in {x \in nova : x[1] = p}}]
           inc == Acima(L, acc.inc \cup u.ids)
<1>1. /\ acc.inc \in SUBSET I /\ acc.jan \in Janelas(J) /\ u.ids \in SUBSET I
      /\ u.jan \in SUBSET (J \X (Nat \X Nat)) /\ IsFiniteSet(u.jan)
  BY DEF Acumulado, Unidade
<1>2. jan \in Janelas(J)
  <2>1. nova \in SUBSET (J \X (Nat \X Nat)) /\ IsFiniteSet(nova)
    BY <1>1, FS_Subset
  <2> HIDE DEF nova
  <2>2. QED
    BY <1>1, <2>1, JanelaNova
<1>3. inc \in SUBSET I /\ acc.inc \subseteq inc /\ u.ids \subseteq inc
  BY <1>1 DEF Acima
<1>4. \/ Inclui(L, art, limite, acc, u) = [inc |-> inc, jan |-> jan]
      \/ Inclui(L, art, limite, acc, u) = acc /\ (u.obrig => u.ids \subseteq acc.inc)
  <2> HIDE DEF jan, inc
  <2>1. QED
    BY DEF Inclui, jan, nova, inc
<1> HIDE DEF jan, inc
<1>5. CASE Inclui(L, art, limite, acc, u) = [inc |-> inc, jan |-> jan]
  <2>1. [inc |-> inc, jan |-> jan] \in Acumulado(I, J)
    BY <1>2, <1>3 DEF Acumulado
  <2>2. [inc |-> inc, jan |-> jan].inc = inc
    OBVIOUS
  <2>3. QED
    BY <1>3, <1>5, <2>1, <2>2
<1>6. CASE Inclui(L, art, limite, acc, u) = acc /\ (u.obrig => u.ids \subseteq acc.inc)
  BY <1>6
<1>7. QED
  BY <1>4, <1>5, <1>6

Fim(L, art, limite, U) ==
    FoldLeft(LAMBDA acc, u : Inclui(L, art, limite, acc, u), [inc |-> {<<art>>}, jan |-> <<>>], U)

\* Where the loop of build_block ends: every mandatory unit is in.
LEMMA FimTipo ==
    ASSUME NEW L, NEW art, NEW limite, NEW I, NEW J, DOMAIN L \subseteq I, <<art>> \in I,
           NEW s \in Seq(Unidade(I, J))
    PROVE  /\ Fim(L, art, limite, s) \in Acumulado(I, J)
           /\ \A k \in 1..Len(s) : s[k].obrig => s[k].ids \subseteq Fim(L, art, limite, s).inc
<1> DEFINE n == Len(s)
           A == Acumulado(I, J)
           z == [inc |-> {<<art>>}, jan |-> <<>>]
           Op(t, x) == Inclui(L, art, limite, t, x)
           F == [p \in (1..n) \X A |-> Op(p[2], s[p[1]])]
           E(f) == f = [T \in SUBSET (DOMAIN s) |->
                          IF T = {} THEN z ELSE LET x == Max(T) IN Op(f[T \ {x}], s[x])]
<1>1. n \in Nat /\ DOMAIN s = 1..n /\ \A x \in 1..n : s[x] \in Unidade(I, J)
  OBVIOUS
<1>2. z \in A
  <2>1. <<>> \in Janelas(J)
    <3>1. <<>> \in [{} -> {X \in SUBSET (Nat \X Nat) : IsFiniteSet(X)}]
      OBVIOUS
    <3>2. QED
      BY <3>1 DEF Janelas
  <2>2. QED
    BY <2>1 DEF Acumulado
<1>3. F \in [(1..n) \X A -> A] /\ \A x \in 1..n, t \in A : F[<<x, t>>] = Op(t, s[x])
  <2>1. \A x \in 1..n, t \in A : Op(t, s[x]) \in A
    BY <1>1, IncluiTipo
  <2> HIDE DEF Op, A
  <2>2. QED
    BY <2>1
<1>4. \A T \in SUBSET (1..n) : T # {} => Max(T) \in 1..n
  BY <1>1, MaxMembro
<1> HIDE DEF F, A, n, z
<1>5. Dobravel(n, A, z, F)
  BY <1>1, <1>2, <1>3 DEF Dobravel
<1>6. PICK i : Segue(i, n, A, z, F) /\ Fim(L, art, limite, s) = i[1..n]
  <2> HIDE DEF Op
  <2>1. PICK g : DobraDeMax(g, n, A, z, F)
    BY <1>5, DobraSeq DEF Dobravel
  <2>2. ASSUME NEW T \in SUBSET (1..n), T # {}, NEW f, f[T \ {Max(T)}] \in A
        PROVE  Op(f[T \ {Max(T)}], s[Max(T)]) = F[<<Max(T), f[T \ {Max(T)}]>>]
    BY <1>3, <1>4, <2>2
  <2>3. E(g)
    <3>1. ASSUME NEW T \in SUBSET (1..n), T # {} PROVE g[T \ {Max(T)}] \in A
      BY <2>1 DEF DobraDeMax
    <3>2. DOMAIN s = 1..n
      BY <1>1
    <3>3. QED
      BY <2>1, <2>2, <3>1, <3>2 DEF DobraDeMax
  <2>4. \E i : E(i) /\ Fim(L, art, limite, s) = i[DOMAIN s]
    BY <2>3 DEF Fim, FoldLeft, MapThenFoldSet, Op, z
  <2>5. PICK i : E(i) /\ Fim(L, art, limite, s) = i[1..n]
    BY <1>1, <2>4
  <2>6. Segue(i, n, A, z, F)
    BY <1>1, <2>2, <2>5 DEF Segue
  <2>7. QED
    BY <2>5, <2>6
<1>7. PICK h : Valores(h, n, A, z, F) /\ h[n] = i[1..n]
  BY <1>5, <1>6, Percurso
<1> DEFINE Q == {k \in 0..n : \A j \in 1..k : s[j].obrig => s[j].ids \subseteq h[k].inc}
<1>8. 0 \in Q
  BY <1>1
<1>9. ASSUME NEW k \in 0..(n - 1), k \in Q PROVE k + 1 \in Q
  <2>1. k + 1 \in 1..n /\ k \in 0..n /\ k + 1 \in 0..n /\ 1..(k + 1) = 1..k \cup {k + 1}
    BY <1>1
  <2>2. h[k] \in A /\ s[k + 1] \in Unidade(I, J)
    BY <1>1, <1>7, <2>1 DEF Valores
  <2>3. h[k + 1] = Op(h[k], s[k + 1])
    <3> HIDE DEF Op
    <3>1. QED
      BY <1>3, <1>7, <2>1, <2>2 DEF Valores
  <2>4. /\ h[k].inc \subseteq h[k + 1].inc
        /\ s[k + 1].obrig => s[k + 1].ids \subseteq h[k + 1].inc
    BY <2>2, <2>3, IncluiTipo DEF A
  <2>5. QED
    BY <1>9, <2>1, <2>4
<1>10. n \in Q /\ h[n] \in A
  <2>1. n \in 0..n
    BY <1>1
  <2>2. 0..n \subseteq Q
    <3> HIDE DEF Q
    <3>1. QED
      BY <1>1, <1>8, <1>9, Ate
  <2>3. QED
    BY <1>7, <2>1, <2>2 DEF Valores
<1>11. QED
  BY <1>6, <1>7, <1>10 DEF A, n

\* The greater and the smaller of two integers.
LEMMA MaxDePar ==
    ASSUME NEW a \in Int, NEW b \in Int
    PROVE  Max({a, b}) = IF a >= b THEN a ELSE b
<1>1. CASE a >= b
  <2>1. \A y \in {a, b} : a >= y
    BY <1>1
  <2>2. \A x \in {a, b} : (\A y \in {a, b} : x >= y) => x = a
    BY <1>1
  <2>3. QED
    BY <1>1, <2>1, <2>2 DEF Max
<1>2. CASE ~(a >= b)
  <2>1. \A y \in {a, b} : b >= y
    BY <1>2
  <2>2. \A x \in {a, b} : (\A y \in {a, b} : x >= y) => x = b
    BY <1>2
  <2>3. QED
    BY <1>2, <2>1, <2>2 DEF Max
<1>3. QED
  BY <1>1, <1>2

LEMMA MinDePar ==
    ASSUME NEW a \in Int, NEW b \in Int
    PROVE  Min({a, b}) = IF a <= b THEN a ELSE b
<1>1. CASE a <= b
  <2>1. \A y \in {a, b} : a <= y
    BY <1>1
  <2>2. \A x \in {a, b} : (\A y \in {a, b} : x <= y) => x = a
    BY <1>1
  <2>3. QED
    BY <1>1, <2>1, <2>2 DEF Min
<1>2. CASE ~(a <= b)
  <2>1. \A y \in {a, b} : b <= y
    BY <1>2
  <2>2. \A x \in {a, b} : (\A y \in {a, b} : x <= y) => x = b
    BY <1>2
  <2>3. QED
    BY <1>2, <2>1, <2>2 DEF Min
<1>3. QED
  BY <1>1, <1>2

\* A law that can be summed: finite, its ids paths, its lengths naturals.
LeiMedida(L) ==
    IsFiniteSet(DOMAIN L) /\ \A p \in DOMAIN L : Len(p) \in Nat /\ L[p].tok \in Nat

\* What an article costs in rows and windows is a number of tokens.
LEMMA CamadasNat ==
    ASSUME NEW L, LeiMedida(L), NEW art, NEW inc, NEW J, NEW jan \in Janelas(J),
           NEW limite \in Nat
    PROVE  Camadas(L, art, inc, jan, limite) \in Nat
<1> DEFINE teto == Max({limite \div 2, MinBloco})
           f == [p \in inc \cap DOMAIN L |-> Tamanho(L, p, jan, teto)]
<1>1. {Cab, Rot, Sufixo, MinBloco} \subseteq Nat
  BY MedidasAssumption
<1>2. teto \in Nat
  <2>1. limite \div 2 \in Nat
    OBVIOUS
  <2>2. QED
    BY <1>1, <2>1, MaxDePar
<1> HIDE DEF teto
<1>3. ASSUME NEW p \in DOMAIN L PROVE Tamanho(L, p, jan, teto) \in Nat
  <2> DEFINE t == IF p \in DOMAIN jan THEN FoldFunction(+, 0, [w \in jan[p] |-> w[2]]) ELSE L[p].tok
  <2>1. CASE p \in DOMAIN jan
    <3>1. jan[p] \in SUBSET (Nat \X Nat) /\ IsFiniteSet(jan[p])
      BY <2>1 DEF Janelas
    <3> DEFINE g == [w \in jan[p] |-> w[2]]
    <3>2. DOMAIN g = jan[p] /\ \A w \in DOMAIN g : g[w] \in Nat
      BY <3>1
    <3> HIDE DEF g
    <3>3. FoldFunction(+, 0, g) \in Nat
      BY <3>1, <3>2, SomaNat
    <3>4. t \in Nat
      BY <2>1, <3>3 DEF g
    <3> HIDE DEF t
    <3>5. Tamanho(L, p, jan, teto) = IF ~L[p].vivo THEN 1 ELSE IF t > teto THEN teto + Sufixo ELSE t
      BY DEF Tamanho, t
    <3>6. QED
      BY <1>1, <1>2, <3>4, <3>5
  <2>2. CASE p \notin DOMAIN jan
    <3>1. L[p].tok \in Nat
      BY DEF LeiMedida
    <3>2. Tamanho(L, p, jan, teto)
            = IF ~L[p].vivo THEN 1 ELSE IF L[p].tok > teto THEN teto + Sufixo ELSE L[p].tok
      BY <2>2 DEF Tamanho
    <3>3. QED
      BY <1>1, <1>2, <3>1, <3>2
  <2>3. QED
    BY <2>1, <2>2
<1>4. FoldFunction(+, 0, f) \in Nat
  <2>1. DOMAIN f = inc \cap DOMAIN L /\ \A p \in DOMAIN f : f[p] \in Nat
    BY <1>3
  <2>2. IsFiniteSet(DOMAIN f)
    BY <2>1, FS_Subset DEF LeiMedida
  <2> HIDE DEF f
  <2>3. QED
    BY <2>1, <2>2, SomaNat
<1> DEFINE soma == FoldFunction(+, 0, f)
           rot == IF Rotulos(L, art, inc) # {} THEN Rot ELSE 0
<1>5. Camadas(L, art, inc, jan, limite) = Cab + soma + rot
  BY DEF Camadas, Texto, teto, f
<1>6. Cab \in Nat /\ rot \in Nat /\ soma \in Nat
  BY <1>1, <1>4
<1> HIDE DEF soma, rot
<1>7. QED
  BY <1>5, <1>6

\* The units of a block, well formed; the provisions under its anchors are of
\* mandatory ones.
LEMMA UnidadesTipo ==
    ASSUME NEW L, LeiMedida(L), NEW art,
           NEW X, NEW anc \in Seq(X), NEW R, NEW ranque \in Seq(R),
           \A k \in 1..Len(ranque) : ranque[k].tok \in Nat
    PROVE  \E I, J :
              /\ DOMAIN L \subseteq I /\ <<art>> \in I
              /\ Unidades(L, art, anc, ranque) \in Seq(Unidade(I, J))
              /\ \A p \in ToSet(anc) : p[1] = art /\ p \in DOMAIN L =>
                    \E k \in 1..Len(Unidades(L, art, anc, ranque)) :
                        /\ Unidades(L, art, anc, ranque)[k].obrig
                        /\ p \in Unidades(L, art, anc, ranque)[k].ids
<1> DEFINE na == Len(anc)
           nr == Len(ranque)
           I == DOMAIN L \cup {<<art>>} \cup UNION {ToSet(ranque[n].ids) : n \in 1..nr}
           J == {ranque[n].ids[1] : n \in 1..nr}
           U == Unidade(I, J)
           ua(n) == [ids |-> IF anc[n] = <<art>> THEN {<<art>>} \cap DOMAIN L
                             ELSE {p \in Linhas(L, art) : IsPrefix(anc[n], p)},
                     jan |-> {}, obrig |-> TRUE]
           ur(n) == [ids |-> ToSet(ranque[n].ids), obrig |-> FALSE,
                     jan |-> IF ranque[n].janela
                             THEN {<<ranque[n].ids[1], <<n, ranque[n].tok>>>>} ELSE {}]
           s1 == [n \in 1..na |-> ua(n)]
           s2 == [n \in 1..nr |-> ur(n)]
<1>1. na \in Nat /\ nr \in Nat
  OBVIOUS
<1>2. ASSUME NEW n \in 1..na PROVE ua(n) \in U
  <2>1. IsFiniteSet({})
    BY FS_EmptySet
  <2>2. QED
    BY <2>1 DEF Unidade, Linhas
<1>3. ASSUME NEW n \in 1..nr PROVE ur(n) \in U
  <2> DEFINE w == <<ranque[n].ids[1], <<n, ranque[n].tok>>>>
             jan == IF ranque[n].janela THEN {w} ELSE {}
  <2>1. w \in J \X (Nat \X Nat)
    BY <1>1
  <2>2. IsFiniteSet({}) /\ IsFiniteSet({w})
    BY FS_EmptySet, FS_Singleton
  <2> HIDE DEF w, J
  <2>3. jan \in {Y \in SUBSET (J \X (Nat \X Nat)) : IsFiniteSet(Y)}
    BY <2>1, <2>2
  <2>4. ToSet(ranque[n].ids) \in SUBSET I
    OBVIOUS
  <2> HIDE DEF I, jan
  <2>5. [ids |-> ToSet(ranque[n].ids), obrig |-> FALSE, jan |-> jan] \in U
    BY <2>3, <2>4 DEF Unidade
  <2>6. QED
    BY <2>5 DEF jan, w
<1> HIDE DEF U, ua, ur, na, nr
<1>4. s1 \in Seq(U) /\ s2 \in Seq(U) /\ Len(s1) = na /\ Len(s2) = nr
  BY <1>1, <1>2, <1>3
<1>5. Unidades(L, art, anc, ranque) = s1 \o s2
  BY DEF Unidades, ua, ur, na, nr
<1>6. \A k \in 1..na : s1[k] = ua(k)
  OBVIOUS
<1> HIDE DEF s1, s2
<1>7. /\ s1 \o s2 \in Seq(U) /\ na <= Len(s1 \o s2)
      /\ \A k \in 1..na : k \in 1..Len(s1 \o s2) /\ (s1 \o s2)[k] = ua(k)
  BY <1>1, <1>4, <1>6
<1>8. ASSUME NEW p \in ToSet(anc), p[1] = art, p \in DOMAIN L
      PROVE  \E k \in 1..na : ua(k).obrig /\ p \in ua(k).ids
  <2>1. PICK k \in 1..na : anc[k] = p
    BY DEF ToSet, na
  <2>2. IsPrefix(p, p)
    <3>1. Len(p) \in Nat
      BY <1>8 DEF LeiMedida
    <3>2. QED
      BY <3>1 DEF IsPrefix
  <2>3. ua(k).obrig /\ p \in ua(k).ids
    BY <1>8, <2>1, <2>2 DEF ua, Linhas
  <2>4. QED
    BY <2>3
<1>9. DOMAIN L \subseteq I /\ <<art>> \in I
  OBVIOUS
<1> HIDE DEF I, J
<1>10. QED
  BY <1>5, <1>7, <1>8, <1>9 DEF U

-----------------------------------------------------------------------------
(* A block, and one turn of assemble().                                    *)

\* A block is of its article, costs no more than its limit and the notice of a
\* cut, and has every anchor that the law still has.
LEMMA BlocoTipo ==
    ASSUME NEW L, LeiMedida(L), NEW art, NEW limite \in Nat,
           NEW X, NEW anc \in Seq(X), NEW R, NEW ranque \in Seq(R),
           \A k \in 1..Len(ranque) : ranque[k].tok \in Nat,
           \A p \in ToSet(anc) : p[1] = art,
           NEW b, b = BuildBlock(L, art, anc, ranque, limite)
    PROVE  /\ b.art = art /\ b.tok \in Nat /\ b.tok <= limite + Sufixo
           /\ ToSet(anc) \cap DOMAIN L \subseteq b.ids
<1> DEFINE todas == Linhas(L, art)
           g == [p \in todas |-> IF L[p].vivo THEN L[p].tok ELSE 1]
           soma == FoldFunction(+, 0, g)
           inteiro == Cab + soma
           U == Unidades(L, art, anc, ranque)
           fim == Fim(L, art, limite, U)
           inc == fim.inc \cap todas
           tok == Camadas(L, art, fim.inc, fim.jan, limite)
<1>0. Cab \in Nat /\ Sufixo \in Nat
  BY MedidasAssumption
<1>1. inteiro \in Nat
  <2>1. DOMAIN g = todas /\ todas \subseteq DOMAIN L
    BY DEF Linhas
  <2>2. \A p \in DOMAIN g : g[p] \in Nat
    BY <2>1 DEF LeiMedida
  <2>3. IsFiniteSet(DOMAIN g)
    BY <2>1, FS_Subset DEF LeiMedida
  <2> HIDE DEF g
  <2>4. soma \in Nat
    BY <2>2, <2>3, SomaNat
  <2> HIDE DEF soma
  <2>5. QED
    BY <1>0, <2>4
<1>2. PICK I, J :
          /\ DOMAIN L \subseteq I /\ <<art>> \in I /\ U \in Seq(Unidade(I, J))
          /\ \A p \in ToSet(anc) : p[1] = art /\ p \in DOMAIN L =>
                \E k \in 1..Len(U) : U[k].obrig /\ p \in U[k].ids
  BY UnidadesTipo
<1> HIDE DEF U
<1>3. /\ fim \in Acumulado(I, J)
      /\ \A k \in 1..Len(U) : U[k].obrig => U[k].ids \subseteq fim.inc
  BY <1>2, FimTipo
<1>4. tok \in Nat
  <2>1. fim.jan \in Janelas(J)
    BY <1>3 DEF Acumulado
  <2>2. QED
    BY <2>1, CamadasNat
<1>5. ToSet(anc) \cap DOMAIN L \subseteq inc
  <2> SUFFICES ASSUME NEW p \in ToSet(anc), p \in DOMAIN L PROVE p \in inc
    OBVIOUS
  <2>1. p \in todas
    BY DEF Linhas
  <2>2. p \in fim.inc
    BY <1>2, <1>3
  <2>3. QED
    BY <2>1, <2>2
<1>6. b = IF inteiro <= limite
          THEN [art |-> art, ids |-> todas, lidos |-> todas, tok |-> inteiro, ancora |-> anc # <<>>]
          ELSE [art |-> art, ids |-> inc, ancora |-> anc # <<>>,
                lidos |-> IF tok > limite THEN Lidos(L, inc, fim.jan, limite) ELSE inc,
                tok |-> IF tok > limite THEN limite + Sufixo ELSE tok]
  BY DEF BuildBlock, Fim, U
<1> HIDE DEF inteiro, tok, fim
<1>7. CASE inteiro <= limite
  <2>1. b.art = art /\ b.ids = todas /\ b.tok = inteiro
    BY <1>6, <1>7
  <2>2. QED
    BY <1>0, <1>1, <1>5, <1>7, <2>1
<1>8. CASE ~(inteiro <= limite)
  <2>1. b.art = art /\ b.ids = inc /\ b.tok = IF tok > limite THEN limite + Sufixo ELSE tok
    BY <1>6, <1>8
  <2>2. QED
    BY <1>0, <1>4, <1>5, <2>1
<1>9. QED
  BY <1>7, <1>8

\* The hits, nearest first, are chunks of this version.
LEMMA ProximosTipo ==
    ASSUME NEW T, NEW N, NEW ord \in Seq(N), \A c \in DOMAIN T : T[c].tok \in Nat
    PROVE  /\ \E R : Proximos(T, ord) \in Seq(R)
           /\ \A k \in 1..Len(Proximos(T, ord)) : Proximos(T, ord)[k].tok \in Nat
<1> DEFINE D == {n \in DOMAIN ord : ord[n] \in DOMAIN T}
           nomes == Nas(ord, D)
           R == {T[nomes[n]] : n \in 1..Len(nomes)}
<1>1. nomes \in Seq(N) /\ ToSet(nomes) = {ord[i] : i \in D \cap DOMAIN ord}
  BY NasDe
<1>2. ToSet(nomes) \subseteq DOMAIN T
  BY <1>1
<1> HIDE DEF nomes, D
<1>3. Len(nomes) \in Nat /\ \A n \in 1..Len(nomes) : nomes[n] \in DOMAIN T
  BY <1>1, <1>2 DEF ToSet
<1>4. Proximos(T, ord) = [n \in 1..Len(nomes) |-> T[nomes[n]]]
  BY DEF Proximos, nomes, D
<1>5. Proximos(T, ord) \in Seq(R)
  BY <1>3, <1>4
<1>6. \A k \in 1..Len(Proximos(T, ord)) : Proximos(T, ord)[k].tok \in Nat
  BY <1>3, <1>4
<1> HIDE DEF R
<1>7. QED
  BY <1>5, <1>6

\* The top k are a sequence.
LEMMA TopoTipo ==
    ASSUME NEW T, NEW N, NEW ord \in Seq(N), \A c \in DOMAIN T : T[c].tok \in Nat
    PROVE  Len(Topo(T, ord)) \in Nat
<1>1. PICK R : Proximos(T, ord) \in Seq(R)
  BY ProximosTipo
<1> DEFINE s == Proximos(T, ord)
           m == Min({TopK, Len(s)})
<1>2. Len(s) \in Nat /\ TopK \in Nat
  BY <1>1, MedidasAssumption
<1>3. m \in Nat /\ m <= Len(s)
  BY <1>2, MinDePar
<1> HIDE DEF m, s
<1>4. Len(SubSeq(s, 1, m)) \in Nat
  BY <1>1, <1>3 DEF s
<1>5. QED
  BY <1>4 DEF Topo, s, m

\* One turn of assemble(): the article is dropped, which none of an anchor is,
\* or it is the last of the blocks and pays for itself.
DeArtigo(ancoras, art) == {p \in ToSet(ancoras) : p[1] = art}
Vez(L, T, ancoras, ord, bs, s, ca, art) ==
    Acrescenta(L, T, ancoras, ord, [blocos |-> bs, sobra |-> s, caidos |-> ca], art)
Caiu(acc, bs, s, ca, art) ==
    acc.blocos = bs /\ acc.sobra = s /\ acc.caidos = ca \cup {art}
Coube(acc, bs, s, ca, art, ids, ancorado) ==
    \E b : /\ acc.blocos = Append(bs, b) /\ acc.sobra = s - b.tok /\ acc.caidos = ca
          /\ b.art = art /\ b.tok \in Nat /\ ids \subseteq b.ids
          /\ IF ~ancorado THEN MinBloco <= s /\ b.tok <= s + Sufixo
             ELSE b.tok <= Max({s, MinBloco}) + Sufixo
TrechosMedidos(T) == \A c \in DOMAIN T : T[c].tok \in Nat

LEMMA AcrescentaTipo ==
    ASSUME NEW L, LeiMedida(L), NEW T, TrechosMedidos(T),
           NEW X, NEW ancoras \in Seq(X), NEW N, NEW ord \in Seq(N),
           NEW bs, NEW resto \in Int, NEW ca, NEW art,
           NEW deArt, deArt = DeArtigo(ancoras, art),
           NEW acc, acc = Vez(L, T, ancoras, ord, bs, resto, ca, art)
    PROVE  \/ Caiu(acc, bs, resto, ca, art) /\ deArt = {}
           \/ Coube(acc, bs, resto, ca, art, deArt \cap DOMAIN L, deArt # {})
<1> DEFINE anc == AncorasDe(ancoras, art)
           limite == Limite(anc, resto)
           perto == Proximos(T, ord)
           ranque == DoArtigo(perto, art)
           b == BuildBlock(L, art, anc, ranque, limite)
           a0 == [blocos |-> bs, sobra |-> resto, caidos |-> ca]
<1>1. anc \in Seq(X) /\ ToSet(anc) = deArt
  <2> DEFINE D == {n \in DOMAIN ancoras : ancoras[n][1] = art}
  <2>1. anc \in Seq(X) /\ ToSet(anc) = {ancoras[i] : i \in D \cap DOMAIN ancoras}
    BY NasDe DEF AncorasDe
  <2> HIDE DEF anc
  <2>2. {ancoras[i] : i \in D \cap DOMAIN ancoras} = deArt
    BY DEF ToSet, DeArtigo
  <2>3. QED
    BY <2>1, <2>2
<1>2. anc = <<>> <=> deArt = {}
  <2> HIDE DEF anc
  <2>1. ToSet(anc) = {} <=> anc = <<>>
    BY <1>1 DEF ToSet
  <2>2. QED
    BY <1>1, <2>1
<1>3. PICK R : ranque \in Seq(R) /\ \A k \in 1..Len(ranque) : ranque[k].tok \in Nat
  <2>1. PICK R : perto \in Seq(R)
    BY ProximosTipo DEF TrechosMedidos
  <2>2. \A k \in 1..Len(perto) : perto[k].tok \in Nat
    BY ProximosTipo DEF TrechosMedidos
  <2> HIDE DEF perto
  <2>3. ranque \in Seq(R) /\ ToSet(ranque) \subseteq {perto[i] : i \in DOMAIN perto}
    BY <2>1, NasDe DEF DoArtigo
  <2> HIDE DEF ranque
  <2>4. ASSUME NEW k \in 1..Len(ranque) PROVE ranque[k].tok \in Nat
    <3>1. ranque[k] \in ToSet(ranque)
      BY <2>3 DEF ToSet
    <3>2. PICK j \in DOMAIN perto : ranque[k] = perto[j]
      BY <2>3, <3>1
    <3>3. QED
      BY <2>1, <2>2, <3>2
  <2>5. QED
    BY <2>3, <2>4
<1>4. /\ Teto \in Nat /\ MinBloco \in Nat /\ 0 < MinBloco /\ MinBloco <= Teto /\ Sufixo \in Nat
  BY MedidasAssumption
<1> HIDE DEF anc, perto, ranque
<1>5. limite = IF anc # <<>> THEN Max({Min({Teto, resto}), MinBloco}) ELSE Min({Teto, resto})
  BY DEF Limite
<1> HIDE DEF limite
<1>6. Min({Teto, resto}) = (IF Teto <= resto THEN Teto ELSE resto) /\ Min({Teto, resto}) \in Int
  BY <1>4, MinDePar
<1>7. /\ Max({Min({Teto, resto}), MinBloco}) =
           IF Min({Teto, resto}) >= MinBloco THEN Min({Teto, resto}) ELSE MinBloco
      /\ Max({resto, MinBloco}) = IF resto >= MinBloco THEN resto ELSE MinBloco
  <2>1. MinBloco \in Int
    BY <1>4
  <2> DEFINE m == Min({Teto, resto})
  <2>2. m \in Int
    BY <1>6
  <2> HIDE DEF m
  <2>3. Max({m, MinBloco}) = IF m >= MinBloco THEN m ELSE MinBloco
    BY <2>1, <2>2, MaxDePar
  <2>4. Max({resto, MinBloco}) = IF resto >= MinBloco THEN resto ELSE MinBloco
    BY <2>1, MaxDePar
  <2>5. QED
    BY <2>3, <2>4 DEF m
<1>8. /\ limite \in Int
      /\ anc # <<>> => limite >= MinBloco /\ limite <= Max({resto, MinBloco})
      /\ anc = <<>> => limite <= resto
  BY <1>4, <1>5, <1>6, <1>7
<1>9. acc = IF anc = <<>> /\ limite < MinBloco
            THEN [a0 EXCEPT !.caidos = @ \cup {art}]
            ELSE [a0 EXCEPT !.blocos = Append(@, b), !.sobra = @ - b.tok]
  BY DEF Vez, Acrescenta, anc, perto, ranque, limite
<1>10. CASE anc = <<>> /\ limite < MinBloco
  <2>1. acc = [a0 EXCEPT !.caidos = @ \cup {art}]
    BY <1>9, <1>10
  <2>2. Caiu(acc, bs, resto, ca, art)
    BY <2>1 DEF Caiu
  <2>3. QED
    BY <1>2, <1>10, <2>2
<1>11. CASE ~(anc = <<>> /\ limite < MinBloco)
  <2>1. limite \in Nat
    BY <1>4, <1>8, <1>11
  <2>2. /\ b.art = art /\ b.tok \in Nat /\ b.tok <= limite + Sufixo
        /\ ToSet(anc) \cap DOMAIN L \subseteq b.ids
    <3>1. \A p \in ToSet(anc) : p[1] = art
      BY <1>1 DEF DeArtigo
    <3>2. QED
      BY <1>1, <1>3, <2>1, <3>1, BlocoTipo
  <2> HIDE DEF b
  <2>3. acc = [a0 EXCEPT !.blocos = Append(@, b), !.sobra = @ - b.tok]
    BY <1>9, <1>11
  <2>4. acc.blocos = Append(bs, b) /\ acc.sobra = resto - b.tok /\ acc.caidos = ca
    BY <2>3
  <2>5. IF deArt = {} THEN MinBloco <= resto /\ b.tok <= resto + Sufixo
        ELSE b.tok <= Max({resto, MinBloco}) + Sufixo
    <3>1. CASE deArt = {}
      BY <1>2, <1>4, <1>8, <1>11, <2>2, <3>1
    <3>2. CASE deArt # {}
      <4>1. Max({resto, MinBloco}) \in Int
        BY <1>4, <1>7
      <4>2. limite <= Max({resto, MinBloco})
        BY <1>2, <1>8, <3>2
      <4>3. QED
        BY <1>4, <1>8, <2>2, <3>2, <4>1, <4>2
    <3>3. QED
      BY <3>1, <3>2
  <2>6. Coube(acc, bs, resto, ca, art, deArt \cap DOMAIN L, deArt # {})
    BY <1>1, <2>2, <2>4, <2>5 DEF Coube
  <2>7. QED
    BY <2>6
<1>12. QED
  BY <1>10, <1>11

-----------------------------------------------------------------------------
(* The cost of the blocks.                                                 *)

\* What the blocks cost together.
Custeados(bs) == (\E B : bs \in Seq(B)) /\ \A n \in 1..Len(bs) : bs[n].tok \in Int

\* The tokens of the blocks, added one block at a time.
LEMMA TokensPassos ==
    ASSUME NEW s, Custeados(s)
    PROVE  \E h : /\ h[0] = 0 /\ h[Len(s)] = Tokens(s)
                  /\ \A k \in 0..(Len(s) - 1) : h[k] \in Int /\ h[k + 1] = h[k] + s[k + 1].tok
                  /\ \A k \in 0..Len(s) : h[k] \in Int
<1> DEFINE n == Len(s)
           A == Int
           z == 0
           Op(t, x) == t + x.tok
           F == [p \in (1..n) \X A |-> Op(p[2], s[p[1]])]
           E(f) == f = [T \in SUBSET (DOMAIN s) |->
                          IF T = {} THEN z ELSE LET x == Max(T) IN Op(f[T \ {x}], s[x])]
<1>1. n \in Nat /\ DOMAIN s = 1..n /\ z \in A
  BY DEF Custeados
<1>2. F \in [(1..n) \X A -> A] /\ \A x \in 1..n, t \in A : F[<<x, t>>] = Op(t, s[x])
  <2>1. \A x \in 1..n, t \in A : Op(t, s[x]) \in A
    BY DEF Custeados
  <2> HIDE DEF Op
  <2>2. QED
    BY <2>1
<1>3. \A T \in SUBSET (1..n) : T # {} => Max(T) \in 1..n
  BY <1>1, MaxMembro
<1> HIDE DEF F, A, n, z
<1>4. Dobravel(n, A, z, F)
  BY <1>1, <1>2 DEF Dobravel
<1>5. PICK i : Segue(i, n, A, z, F) /\ Tokens(s) = i[1..n]
  <2> HIDE DEF Op
  <2>1. PICK g : DobraDeMax(g, n, A, z, F)
    BY <1>4, DobraSeq DEF Dobravel
  <2>2. ASSUME NEW T \in SUBSET (1..n), T # {}, NEW f, f[T \ {Max(T)}] \in A
        PROVE  Op(f[T \ {Max(T)}], s[Max(T)]) = F[<<Max(T), f[T \ {Max(T)}]>>]
    BY <1>2, <1>3, <2>2
  <2>3. E(g)
    <3>1. ASSUME NEW T \in SUBSET (1..n), T # {} PROVE g[T \ {Max(T)}] \in A
      BY <2>1 DEF DobraDeMax
    <3>2. DOMAIN s = 1..n
      BY <1>1
    <3>3. QED
      BY <2>1, <2>2, <3>1, <3>2 DEF DobraDeMax
  <2>4. \E i : E(i) /\ Tokens(s) = i[DOMAIN s]
    BY <2>3 DEF Tokens, FoldLeft, MapThenFoldSet, Op, z
  <2>5. PICK i : E(i) /\ Tokens(s) = i[1..n]
    BY <1>1, <2>4
  <2>6. Segue(i, n, A, z, F)
    BY <1>1, <2>2, <2>5 DEF Segue
  <2>7. QED
    BY <2>5, <2>6
<1>6. PICK h : Valores(h, n, A, z, F) /\ h[n] = i[1..n]
  BY <1>4, <1>5, Percurso
<1>7. \A k \in 0..n : h[k] \in A
  BY <1>6 DEF Valores
<1>8. ASSUME NEW k \in 0..(n - 1) PROVE h[k] \in A /\ h[k + 1] = Op(h[k], s[k + 1])
  <2>1. k + 1 \in 1..n /\ k \in 0..n
    BY <1>1
  <2>2. h[k] \in A
    BY <1>7, <2>1
  <2> HIDE DEF Op
  <2>3. QED
    BY <1>2, <1>6, <2>1, <2>2 DEF Valores
<1>9. h[0] = 0 /\ h[n] = Tokens(s)
  BY <1>5, <1>6 DEF Valores, z
<1>10. QED
  BY <1>7, <1>8, <1>9 DEF A, n

LEMMA TokensVazio == Tokens(<<>>) = 0
<1>1. Custeados(<<>>)
  <2>1. <<>> \in Seq({}) /\ 1..Len(<<>>) = {}
    OBVIOUS
  <2>2. QED
    BY <2>1 DEF Custeados
<1>2. PICK h : h[0] = 0 /\ h[Len(<<>>)] = Tokens(<<>>)
  BY <1>1, TokensPassos
<1>3. Len(<<>>) = 0
  OBVIOUS
<1>4. QED
  BY <1>2, <1>3

\* One block more adds its tokens.
LEMMA TokensAppend ==
    ASSUME NEW s, Custeados(s), NEW b, b.tok \in Int
    PROVE  /\ Custeados(Append(s, b)) /\ Tokens(s) \in Int
           /\ Tokens(Append(s, b)) = Tokens(s) + b.tok
<1> DEFINE n == Len(s)
           s2 == Append(s, b)
<1>1. PICK B : s \in Seq(B)
  BY DEF Custeados
<1>2. /\ s2 \in Seq(B \cup {b}) /\ n \in Nat /\ Len(s2) = n + 1
      /\ s2[n + 1] = b /\ \A k \in 1..n : s2[k] = s[k]
  <2>1. s \in Seq(B \cup {b})
    BY <1>1
  <2>2. QED
    BY <2>1
<1> HIDE DEF s2, n
<1>3. Custeados(s2)
  <2>1. \A k \in 1..Len(s2) : s2[k].tok \in Int
    <3>1. 1..(n + 1) = 1..n \cup {n + 1}
      BY <1>2
    <3>2. QED
      BY <1>2, <3>1 DEF Custeados, n
  <2>2. QED
    BY <1>2, <2>1 DEF Custeados
<1>4. PICK h : /\ h[0] = 0 /\ h[n] = Tokens(s)
               /\ \A k \in 0..(n - 1) : h[k] \in Int /\ h[k + 1] = h[k] + s[k + 1].tok
               /\ \A k \in 0..n : h[k] \in Int
  BY TokensPassos DEF n
<1>5. PICK j : /\ j[0] = 0 /\ j[n + 1] = Tokens(s2)
               /\ \A k \in 0..n : j[k] \in Int /\ j[k + 1] = j[k] + s2[k + 1].tok
  <2>1. PICK j : /\ j[0] = 0 /\ j[Len(s2)] = Tokens(s2)
                 /\ \A k \in 0..(Len(s2) - 1) : j[k] \in Int /\ j[k + 1] = j[k] + s2[k + 1].tok
    BY <1>3, TokensPassos
  <2>2. 0..(Len(s2) - 1) = 0..n
    BY <1>2
  <2>3. QED
    BY <1>2, <2>1, <2>2
<1> DEFINE Q == {k \in 0..n : j[k] = h[k]}
<1>6. 0 \in Q
  BY <1>2, <1>4, <1>5
<1>7. ASSUME NEW k \in 0..(n - 1), k \in Q PROVE k + 1 \in Q
  <2>1. k \in 0..n /\ k + 1 \in 1..n /\ k + 1 \in 0..n
    BY <1>2
  <2>2. QED
    BY <1>2, <1>4, <1>5, <1>7, <2>1
<1>8. 0..n \subseteq Q
  <2> HIDE DEF Q
  <2>1. QED
    BY <1>2, <1>6, <1>7, Ate
<1>9. n \in 0..n
  BY <1>2
<1>10. j[n] = Tokens(s) /\ Tokens(s) \in Int
  BY <1>4, <1>8, <1>9
<1>11. j[n + 1] = j[n] + b.tok
  BY <1>2, <1>5, <1>9
<1>12. QED
  BY <1>3, <1>5, <1>10, <1>11 DEF s2

-----------------------------------------------------------------------------
\* What the law has had up to now.
JaHouve == UNION {DOMAIN Leis[v] : v \in 1..lei}

\* Every citation of an answer that counts as valid is of provisions shown.
Fundadas(a, ids, mostra) ==
    \A c \in a.cites \cup a.texto :
        c.estado = "valid" => c.ids # {} /\ c.ids \subseteq mostra \cap ids

-----------------------------------------------------------------------------
(* Citations. *)

LEMMA ResolveNoIndice ==
    ASSUME NEW c, NEW ids
    PROVE  Resolve(c, ids) \subseteq ids
  BY DEF Resolve

\* A citation is valid only by provisions of the context.
LEMMA StatusFundado ==
    ASSUME NEW citas, NEW ids, NEW mostra, Status(citas, ids, mostra).estado = "valid"
    PROVE  /\ Status(citas, ids, mostra).ids # {}
           /\ Status(citas, ids, mostra).ids \subseteq mostra \cap ids
<1> DEFINE cand == UNION {Resolve(citas[n], ids) : n \in {m \in 1..Len(citas) : ~citas[m].fora}}
<1>1. cand \subseteq ids
  BY ResolveNoIndice
<1>2. Status(citas, ids, mostra) = [estado |-> "valid", ids |-> cand \cap mostra] /\ cand \cap mostra # {}
  BY DEF Status
<1>3. QED
  BY <1>1, <1>2

LEMMA JulgaFundada ==
    ASSUME NEW r, NEW ids, NEW mostra, NEW rule
    PROVE  Fundadas(Julga(r, ids, mostra, rule), ids, mostra)
<1> DEFINE a == Julga(r, ids, mostra, rule)
<1>1. ASSUME NEW c \in a.cites \cup a.texto PROVE \E citas : c = Status(citas, ids, mostra)
  <2>1. CASE ~r.json
    BY <1>1, <2>1 DEF Julga, SemReplica
  <2>2. CASE r.json
    <3>1. /\ a.cites = {CheckCitation(r.cites[n], ids, mostra) : n \in 1..Len(r.cites)}
          /\ a.texto = TextCitations(r.texto, ids, mostra)
      BY <2>2 DEF Julga, SemReplica
    <3>2. CASE c \in a.cites
      BY <3>1, <3>2 DEF CheckCitation
    <3>3. CASE c \in a.texto
      BY <3>1, <3>3 DEF TextCitations
    <3>4. QED
      BY <1>1, <3>2, <3>3
  <2>3. QED
    BY <2>1, <2>2
<1>2. QED
  BY <1>1, StatusFundado DEF Fundadas

\* An answer is shown only with a valid citation behind it.
LEMMA JulgaMostra ==
    ASSUME NEW r, NEW ids, NEW mostra, NEW rule, Julga(r, ids, mostra, rule).recusa = "nenhuma"
    PROVE  ValidOf(Julga(r, ids, mostra, rule)) # {}
<1>1. r.json
  BY DEF Julga, SemReplica
<1> DEFINE a == [SemReplica("nenhuma") EXCEPT
                !.llm = TRUE, !.diz = r.diz, !.contaTexto = ContaTexto(rule),
                !.cites = {CheckCitation(r.cites[n], ids, mostra) : n \in 1..Len(r.cites)},
                !.texto = TextCitations(r.texto, ids, mostra)]
           d == Decide("nenhuma", r.diz, ValidOf(a) # {}, rule)
<1>2. Julga(r, ids, mostra, rule) = [a EXCEPT !.recusa = d]
  BY <1>1 DEF Julga
<1>3. ValidOf([a EXCEPT !.recusa = d]) = ValidOf(a)
  BY DEF ValidOf, SemReplica
<1>4. d = "nenhuma"
  BY <1>2 DEF SemReplica
<1>5. QED
  BY <1>2, <1>3, <1>4 DEF Decide, FinalRefusals

\* The two forms of an Answer: judged, and refused before any judgement.
Lida(r, ids, mostra, rule, recusa) ==
    [llm |-> TRUE, diz |-> r.diz, contaTexto |-> ContaTexto(rule), recusa |-> recusa,
     cites |-> {CheckCitation(r.cites[n], ids, mostra) : n \in 1..Len(r.cites)},
     texto |-> TextCitations(r.texto, ids, mostra), estrutura |-> {}]
Recusada(r, ct) ==
    [llm |-> TRUE, diz |-> FALSE, contaTexto |-> ct,
     recusa |-> IF r.fim = "length" THEN "truncated" ELSE "invalid_json",
     cites |-> {}, texto |-> {}, estrutura |-> {}]
Veredito(r, ids, mostra, rule) ==
    Decide("nenhuma", r.diz, ValidOf(Lida(r, ids, mostra, rule, "nenhuma")) # {}, rule)

LEMMA VereditoAberto ==
    ASSUME NEW r, NEW ids, NEW mostra, NEW rule
    PROVE  Veredito(r, ids, mostra, rule) \notin FinalRefusals
  BY DEF Veredito, Decide, FinalRefusals

\* What a reply cites does not depend on the reason given.
LEMMA ValidOfLida ==
    ASSUME NEW r, NEW ids, NEW mostra, NEW rule, NEW x, NEW y
    PROVE  ValidOf(Lida(r, ids, mostra, rule, x)) = ValidOf(Lida(r, ids, mostra, rule, y))
  BY DEF ValidOf, Lida

LEMMA JulgaLida ==
    ASSUME NEW r, NEW ids, NEW mostra, NEW rule, r.json
    PROVE  Julga(r, ids, mostra, rule)
             = Lida(r, ids, mostra, rule, Veredito(r, ids, mostra, rule))
<1> DEFINE a == [SemReplica("nenhuma") EXCEPT
                !.llm = TRUE, !.diz = r.diz, !.contaTexto = ContaTexto(rule),
                !.cites = {CheckCitation(r.cites[n], ids, mostra) : n \in 1..Len(r.cites)},
                !.texto = TextCitations(r.texto, ids, mostra)]
           l(x) == Lida(r, ids, mostra, rule, x)
<1>1. a = l("nenhuma")
  <2>1. ASSUME NEW b, b = a PROVE b = l("nenhuma")
    BY <2>1 DEF SemReplica, Lida
  <2>2. QED
    BY <2>1, Zenon
<1>2. Julga(r, ids, mostra, rule)
        = [a EXCEPT !.recusa = Decide("nenhuma", r.diz, ValidOf(a) # {}, rule)]
  BY DEF Julga
<1>3. ASSUME NEW x PROVE [l("nenhuma") EXCEPT !.recusa = x] = l(x)
  <2>1. ASSUME NEW z, z = [l("nenhuma") EXCEPT !.recusa = x] PROVE z = l(x)
    BY <2>1 DEF Lida
  <2>2. QED
    BY <2>1, Zenon
<1> HIDE DEF a
<1>4. Julga(r, ids, mostra, rule) = [l("nenhuma") EXCEPT !.recusa = Veredito(r, ids, mostra, rule)]
  BY <1>1, <1>2, Zenon DEF Veredito
<1>5. QED
  BY <1>3, <1>4, Zenon

LEMMA JulgaRecusada ==
    ASSUME NEW r, NEW ids, NEW mostra, NEW rule, ~r.json
    PROVE  Julga(r, ids, mostra, rule) = Recusada(r, FALSE)
  BY DEF Julga, SemReplica, Recusada

\* Judged again, a reply gets what it would have got live under the new rule;
\* one that was not JSON stays refused.
LEMMA RescoreLida ==
    ASSUME NEW r, NEW ids, NEW mostra, NEW velha, NEW rule
    PROVE  Rescore(Lida(r, ids, mostra, velha, Veredito(r, ids, mostra, velha)), rule)
             = Lida(r, ids, mostra, rule, Veredito(r, ids, mostra, rule))
<1> DEFINE v == Veredito(r, ids, mostra, velha)
           a == Lida(r, ids, mostra, velha, v)
           b == Lida(r, ids, mostra, rule, v)
<1>1. a.llm /\ a.recusa = v /\ a.diz = r.diz
  BY DEF Lida
<1>2. [a EXCEPT !.contaTexto = ContaTexto(rule)] = b
  <2>1. ASSUME NEW z, z = [a EXCEPT !.contaTexto = ContaTexto(rule)] PROVE z = b
    BY <2>1 DEF Lida
  <2>2. QED
    BY <2>1, Zenon
<1>3. ValidOf(b) = ValidOf(Lida(r, ids, mostra, rule, "nenhuma"))
  BY ValidOfLida
<1>4. v \notin FinalRefusals
  BY VereditoAberto
<1>5. ASSUME NEW x PROVE [b EXCEPT !.recusa = x] = Lida(r, ids, mostra, rule, x)
  <2>1. ASSUME NEW z, z = [b EXCEPT !.recusa = x] PROVE z = Lida(r, ids, mostra, rule, x)
    BY <2>1 DEF Lida
  <2>2. QED
    BY <2>1, Zenon
<1> HIDE DEF v, a, b
<1>6. Rescore(a, rule) = [b EXCEPT !.recusa = Decide("nenhuma", r.diz, ValidOf(b) # {}, rule)]
  BY <1>1, <1>2, <1>4, Zenon DEF Rescore
<1>7. Rescore(a, rule) = [b EXCEPT !.recusa = Veredito(r, ids, mostra, rule)]
  BY <1>3, <1>6, Zenon DEF Veredito
<1>8. QED
  BY <1>5, <1>7, Zenon DEF a, v

LEMMA RescoreRecusada ==
    ASSUME NEW r, NEW ct, NEW rule
    PROVE  Rescore(Recusada(r, ct), rule) = Recusada(r, ContaTexto(rule))
<1> DEFINE a == Recusada(r, ct)
           b == Recusada(r, ContaTexto(rule))
<1>1. a.llm /\ a.recusa \in FinalRefusals /\ b.recusa = a.recusa
  BY DEF Recusada, FinalRefusals
<1>2. [a EXCEPT !.contaTexto = ContaTexto(rule)] = b
  <2>1. ASSUME NEW z, z = [a EXCEPT !.contaTexto = ContaTexto(rule)] PROVE z = b
    BY <2>1 DEF Recusada
  <2>2. QED
    BY <2>1, Zenon
<1>3. [b EXCEPT !.recusa = a.recusa] = b
  <2>1. ASSUME NEW z, z = [b EXCEPT !.recusa = a.recusa] PROVE z = b
    BY <2>1 DEF Recusada
  <2>2. QED
    BY <2>1, Zenon
<1> HIDE DEF a, b
<1>4. ASSUME NEW x, NEW y PROVE Decide(a.recusa, x, y, rule) = a.recusa
  BY <1>1 DEF Decide
<1>5. Rescore(a, rule) = [b EXCEPT !.recusa = Decide(a.recusa, a.diz, ValidOf(b) # {}, rule)]
  BY <1>1, <1>2, Zenon DEF Rescore
<1>6. QED
  BY <1>3, <1>4, <1>5, Zenon DEF a, b

-----------------------------------------------------------------------------
(* Blocks. *)

\* A block has provisions of the version of the law it was read from.
LEMMA BlocoDaLei ==
    ASSUME NEW L, NEW art, NEW ancoras, NEW ranque, NEW limite
    PROVE  BuildBlock(L, art, ancoras, ranque, limite).ids \subseteq DOMAIN L
<1>1. Linhas(L, art) \subseteq DOMAIN L
  BY DEF Linhas
<1>2. BuildBlock(L, art, ancoras, ranque, limite).ids \subseteq Linhas(L, art)
  BY DEF BuildBlock
<1>3. QED
  BY <1>1, <1>2

LEMMA MostraAppend ==
    ASSUME NEW B, NEW s \in Seq(B), NEW b
    PROVE  /\ \E C : Append(s, b) \in Seq(C)
           /\ Mostra(Append(s, b)) = Mostra(s) \cup b.ids
<1> DEFINE C == B \cup {b}
<1>1. s \in Seq(C) /\ b \in C
  OBVIOUS
<1>2. Append(s, b) \in Seq(C)
  BY <1>1
<1>3. /\ Len(Append(s, b)) = Len(s) + 1 /\ Len(s) \in Nat
      /\ Append(s, b)[Len(s) + 1] = b
      /\ \A n \in 1..Len(s) : Append(s, b)[n] = s[n]
  BY <1>1
<1>4. 1..(Len(s) + 1) = 1..Len(s) \cup {Len(s) + 1}
  BY <1>3
<1>5. QED
  BY <1>2, <1>3, <1>4 DEF Mostra

-----------------------------------------------------------------------------
(* The invariant.  An answer of the model is, at every moment, the one its  *)
(* reply gets under the rule in force, so that what Julga guarantees holds  *)
(* of it; its context is of versions that the law has had.                  *)

ContextoDaLei ==
    /\ lei \in 1..Len(Leis)
    /\ \E B : blocos \in Seq(B)
    /\ Mostra(blocos) \subseteq JaHouve

Julgada ==
    laudo.llm =>
        IF resp.json
        THEN laudo = Lida(resp, indice, Mostra(blocos), regra,
                          Veredito(resp, indice, Mostra(blocos), regra))
        ELSE \E ct : laudo = Recusada(resp, ct)

Estruturada ==
    ~laudo.llm /\ laudo.recusa = "nenhuma" =>
        \A n \in 1..Len(plano.ancoras) :
            plano.ancoras[n] \in laudo.estrutura
                \/ \E v \in 1..lei : plano.ancoras[n] \notin DOMAIN Leis[v]

IInv ==
    /\ ContextoDaLei /\ Julgada /\ Estruturada
    /\ fase # "feita" => laudo = Nada

LEMMA NadaDecide ==
    ASSUME laudo = Nada
    PROVE  Julgada /\ Estruturada
  BY DEF Nada, SemReplica, Julgada, Estruturada

LEMMA Vazia == Mostra(<<>>) = {}
  BY DEF Mostra

LEMMA Inicio == Init => IInv
<1> SUFFICES ASSUME Init PROVE IInv
  OBVIOUS
<1>1. lei = 1 /\ blocos = <<>> /\ laudo = Nada
  BY DEF Init
<1>2. ContextoDaLei
  BY <1>1, Vazia, LeisAssumption DEF ContextoDaLei
<1>3. QED
  BY <1>1, <1>2, NadaDecide DEF IInv

\* The law goes forward; what it has had stays.
LEMMA LeiAvanca ==
    ASSUME ContextoDaLei, lei' \in {lei, lei + 1}, lei' \in 1..Len(Leis), UNCHANGED blocos
    PROVE  ContextoDaLei' /\ 1..lei \subseteq 1..lei'
<1>1. lei \in Nat /\ lei' \in Nat /\ lei <= lei'
  BY LeisAssumption DEF ContextoDaLei
<1>2. 1..lei \subseteq 1..lei'
  BY <1>1
<1>3. JaHouve \subseteq JaHouve'
  BY <1>2 DEF JaHouve
<1>4. QED
  BY <1>2, <1>3 DEF ContextoDaLei

\* A step that leaves the question, its context and its answer alone.
LEMMA QuietaPasso ==
    ASSUME IInv, lei' \in {lei, lei + 1}, lei' \in 1..Len(Leis),
           UNCHANGED <<indice, plano, blocos, laudo, regra, resp>>,
           fase' # "feita" => fase # "feita"
    PROVE  IInv'
<1>1. ContextoDaLei' /\ 1..lei \subseteq 1..lei'
  BY LeiAvanca DEF IInv
<1>2. Julgada'
  BY DEF IInv, Julgada
<1>3. Estruturada'
  BY <1>1 DEF IInv, Estruturada
<1>4. QED
  BY <1>1, <1>2, <1>3 DEF IInv, Nada

LEMMA PerguntaPasso ==
    ASSUME IInv, NEW q, NEW rule, NEW ids, Pergunta(q, rule, ids)
    PROVE  IInv'
<1>1. lei' = lei /\ blocos' = <<>> /\ laudo' = Nada
  BY DEF Pergunta, base
<1>2. ContextoDaLei'
  <2>1. Mostra(blocos') = {} /\ blocos' \in Seq({})
    BY <1>1, Vazia
  <2>2. QED
    BY <1>1, <2>1 DEF ContextoDaLei, IInv
<1>3. Julgada' /\ Estruturada'
  BY <1>1 DEF Nada, SemReplica, Julgada, Estruturada
<1>4. QED
  BY <1>1, <1>2, <1>3 DEF IInv, Nada

LEMMA SqlPasso ==
    ASSUME IInv, ResponderSql
    PROVE  IInv'
<1> DEFINE e == {p \in DOMAIN Leis[lei] : \E n \in 1..Len(plano.ancoras) :
                    IsPrefix(plano.ancoras[n], p)}
<1>1. /\ fase' = "feita" /\ UNCHANGED <<lei, plano, blocos>>
      /\ laudo' = [SemReplica("nenhuma") EXCEPT !.estrutura = e]
  BY DEF ResponderSql, base, busca
<1>2. laudo'.llm = FALSE /\ laudo'.estrutura = e
  BY <1>1 DEF SemReplica
<1>3. ASSUME NEW n \in 1..Len(plano.ancoras), plano.ancoras[n] \in DOMAIN Leis[lei]
      PROVE  plano.ancoras[n] \in e
  <2>1. Len(plano.ancoras[n]) \in Nat
    BY <1>3, LeisAssumption DEF IInv, ContextoDaLei
  <2>2. IsPrefix(plano.ancoras[n], plano.ancoras[n])
    BY <2>1 DEF IsPrefix
  <2>3. QED
    BY <1>3, <2>2
<1>4. lei \in 1..lei
  BY LeisAssumption DEF IInv, ContextoDaLei
<1> HIDE DEF e
<1>5. Estruturada'
  BY <1>1, <1>2, <1>3, <1>4 DEF Estruturada
<1>6. ContextoDaLei'
  BY <1>1 DEF IInv, ContextoDaLei, JaHouve
<1>7. QED
  BY <1>1, <1>2, <1>5, <1>6 DEF IInv, Julgada

LEMMA MontarPasso ==
    ASSUME IInv, Montar
    PROVE  IInv'
<1> DEFINE acc == [blocos |-> blocos, sobra |-> sobra, caidos |-> caidos]
           novo == Acrescenta(Leis[lei], Trechos[vet], plano.ancoras, ordem, acc, Head(fila))
<1>1. /\ blocos' = novo.blocos /\ UNCHANGED <<lei, fase, laudo>>
      /\ laudo = Nada
  BY DEF Montar, base, IInv
<1>2. \/ novo.blocos = blocos
      \/ \E anc, ranque, limite :
            novo.blocos = Append(blocos, BuildBlock(Leis[lei], Head(fila), anc, ranque, limite))
  BY DEF Acrescenta
<1>3. CASE blocos' = blocos
  BY <1>1, <1>3, NadaDecide DEF IInv, ContextoDaLei, JaHouve, Julgada, Estruturada, Nada, SemReplica
<1>4. ASSUME NEW anc, NEW ranque, NEW limite,
             blocos' = Append(blocos, BuildBlock(Leis[lei], Head(fila), anc, ranque, limite))
      PROVE  IInv'
  <2> DEFINE b == BuildBlock(Leis[lei], Head(fila), anc, ranque, limite)
  <2>1. b.ids \subseteq DOMAIN Leis[lei]
    BY BlocoDaLei
  <2>2. PICK B : blocos \in Seq(B)
    BY DEF IInv, ContextoDaLei
  <2> HIDE DEF b
  <2>3. (\E C : blocos' \in Seq(C)) /\ Mostra(blocos') = Mostra(blocos) \cup b.ids
    BY <1>4, <2>2, MostraAppend DEF b
  <2>4. DOMAIN Leis[lei] \subseteq JaHouve
    BY LeisAssumption DEF IInv, ContextoDaLei, JaHouve
  <2>5. JaHouve' = JaHouve
    BY <1>1 DEF JaHouve
  <2>6. ContextoDaLei'
    BY <1>1, <2>1, <2>3, <2>4, <2>5 DEF IInv, ContextoDaLei
  <2>7. Julgada' /\ Estruturada'
    BY <1>1 DEF Julgada, Estruturada, Nada, SemReplica
  <2>8. QED
    BY <1>1, <2>6, <2>7 DEF IInv, Nada
<1>5. QED
  BY <1>1, <1>2, <1>3, <1>4

LEMMA GerarPasso ==
    ASSUME IInv, NEW r, Gerar(r)
    PROVE  IInv'
<1>1. /\ fase' = "feita" /\ resp' = r /\ UNCHANGED <<lei, indice, blocos, regra>>
      /\ laudo' = Julga(r, indice, Mostra(blocos), regra)
  BY DEF Gerar, base, busca
<1>2. ContextoDaLei'
  BY <1>1 DEF IInv, ContextoDaLei, JaHouve
<1>3. CASE r.json
  <2>1. laudo' = Lida(r, indice, Mostra(blocos), regra, Veredito(r, indice, Mostra(blocos), regra))
    BY <1>1, <1>3, JulgaLida
  <2>2. laudo'.llm
    BY <2>1 DEF Lida
  <2>3. Julgada' /\ Estruturada'
    BY <1>1, <1>3, <2>1, <2>2 DEF Julgada, Estruturada
  <2>4. QED
    BY <1>1, <1>2, <2>3 DEF IInv
<1>4. CASE ~r.json
  <2>1. laudo' = Recusada(r, FALSE)
    BY <1>1, <1>4, JulgaRecusada
  <2>2. laudo'.llm
    BY <2>1 DEF Recusada
  <2>3. Julgada' /\ Estruturada'
    BY <1>1, <1>4, <2>1, <2>2 DEF Julgada, Estruturada
  <2>4. QED
    BY <1>1, <1>2, <2>3 DEF IInv
<1>5. QED
  BY <1>3, <1>4

LEMMA RescorarPasso ==
    ASSUME IInv, NEW rule, Rescorar(rule)
    PROVE  IInv'
<1>1. /\ fase' = "feita" /\ regra' = rule /\ laudo' = Rescore(laudo, rule)
      /\ UNCHANGED <<lei, indice, plano, blocos, resp>>
  BY DEF Rescorar, base, busca
<1>2. ContextoDaLei'
  BY <1>1 DEF IInv, ContextoDaLei, JaHouve
<1>3. CASE ~laudo.llm
  <2>1. laudo' = laudo
    BY <1>1, <1>3 DEF Rescore
  <2>2. Julgada' /\ Estruturada'
    BY <1>1, <1>3, <2>1 DEF IInv, Julgada, Estruturada
  <2>3. QED
    BY <1>1, <1>2, <2>2 DEF IInv
<1>4. CASE laudo.llm /\ resp.json
  <2>1. laudo' = Lida(resp, indice, Mostra(blocos), rule, Veredito(resp, indice, Mostra(blocos), rule))
    BY <1>1, <1>4, RescoreLida DEF IInv, Julgada
  <2>2. laudo'.llm
    BY <2>1 DEF Lida
  <2>3. Julgada' /\ Estruturada'
    BY <1>1, <1>4, <2>1, <2>2 DEF Julgada, Estruturada
  <2>4. QED
    BY <1>1, <1>2, <2>3 DEF IInv
<1>5. CASE laudo.llm /\ ~resp.json
  <2>1. PICK ct : laudo = Recusada(resp, ct)
    BY <1>5 DEF IInv, Julgada
  <2>2. laudo' = Recusada(resp, ContaTexto(rule))
    BY <1>1, <2>1, RescoreRecusada
  <2>3. laudo'.llm
    BY <2>2 DEF Recusada
  <2>4. Julgada' /\ Estruturada'
    BY <1>1, <1>5, <2>2, <2>3 DEF Julgada, Estruturada
  <2>5. QED
    BY <1>1, <1>2, <2>4 DEF IInv
<1>6. QED
  BY <1>3, <1>4, <1>5

LEMMA Passo == IInv /\ [Next]_vars => IInv'
<1> SUFFICES ASSUME IInv, [Next]_vars PROVE IInv'
  OBVIOUS
<1>0. lei \in 1..Len(Leis)
  BY DEF IInv, ContextoDaLei
<1>1. CASE Publica
  <2>1. lei' = lei + 1 /\ lei' \in 1..Len(Leis)
    BY <1>0, <1>1, LeisAssumption DEF Publica
  <2>2. QED
    BY <1>1, <2>1, QuietaPasso DEF Publica
<1>2. CASE Revetoriza
  BY <1>0, <1>2, QuietaPasso DEF Revetoriza
<1>3. ASSUME NEW q \in Perguntas, ProximaDoGolden(q) PROVE IInv'
  BY <1>3, PerguntaPasso DEF ProximaDoGolden
<1>4. ASSUME NEW q \in Perguntas, NEW rule \in Decisions, Perguntar(q, rule) PROVE IInv'
  BY <1>4, PerguntaPasso DEF Perguntar
<1>5. CASE ResponderSql
  BY <1>5, SqlPasso
<1>6. CASE Buscar
  BY <1>0, <1>6, QuietaPasso DEF Buscar, base
<1>7. CASE Montar
  BY <1>7, MontarPasso
<1>8. CASE SemContexto
  <2>1. /\ laudo' = SemReplica("no_context") /\ fase' = "feita"
        /\ UNCHANGED <<lei, blocos>>
    BY <1>8 DEF SemContexto, base, busca
  <2>2. ~laudo'.llm /\ laudo'.recusa = "no_context"
    BY <2>1 DEF SemReplica
  <2>3. QED
    BY <2>1, <2>2 DEF IInv, ContextoDaLei, JaHouve, Julgada, Estruturada
<1>9. CASE Indisponivel
  BY <1>0, <1>9, QuietaPasso DEF Indisponivel, base, busca
<1>10. ASSUME NEW r \in Replicas, Gerar(r) PROVE IInv'
  BY <1>10, GerarPasso
<1>11. ASSUME NEW rule \in Decisions, Rescorar(rule) PROVE IInv'
  BY <1>11, RescorarPasso
<1>12. CASE UNCHANGED vars
  BY <1>0, <1>12, QuietaPasso DEF vars
<1>13. QED
  BY <1>1, <1>2, <1>3, <1>4, <1>5, <1>6, <1>7, <1>8, <1>9, <1>10, <1>11, <1>12 DEF Next

-----------------------------------------------------------------------------
\* No answer is shown without a provision that its context showed and that the
\* law has had; a structure answered by SQL lacks a cited provision only if a
\* version lacks it (lc06_generate.py: answer, _status, valid_of).
THEOREM RespostasFundadas == Spec => []RespostaFundada
<1>1. ASSUME IInv PROVE RespostaFundada
  <2>1. CASE laudo.llm /\ laudo.recusa = "nenhuma"
    <3>1. resp.json
      BY <1>1, <2>1 DEF IInv, Julgada, Recusada
    <3>2. laudo = Julga(resp, indice, Mostra(blocos), regra)
      BY <1>1, <2>1, <3>1, JulgaLida DEF IInv, Julgada
    <3>3. Fundadas(laudo, indice, Mostra(blocos)) /\ ValidOf(laudo) # {}
      BY <2>1, <3>2, JulgaFundada, JulgaMostra
    <3>4. ValidOf(laudo) \subseteq Mostra(blocos) \cap indice
      BY <3>3 DEF Fundadas, ValidOf
    <3>5. QED
      BY <1>1, <2>1, <3>3, <3>4 DEF RespostaFundada, IInv, ContextoDaLei, JaHouve
  <2>2. CASE ~laudo.llm /\ laudo.recusa = "nenhuma"
    BY <1>1, <2>2 DEF RespostaFundada, IInv, Estruturada
  <2>3. CASE laudo.recusa # "nenhuma"
    BY <2>3 DEF RespostaFundada
  <2>4. QED
    BY <2>1, <2>2, <2>3
<1>2. QED
  BY Inicio, Passo, <1>1, PTL DEF Spec

\* A recorded reply judged again, under any rules in any order, says what the
\* live run would have said under the last one (lc06_generate.py: rescore).
THEOREM Reavaliacao == Spec => []RescoreFiel
<1>1. ASSUME IInv PROVE RescoreFiel
  <2> SUFFICES ASSUME laudo.llm
               PROVE  laudo.recusa = Julga(resp, indice, Mostra(blocos), regra).recusa
    BY DEF RescoreFiel
  <2>1. CASE resp.json
    BY <1>1, <2>1, JulgaLida DEF IInv, Julgada
  <2>2. CASE ~resp.json
    <3>1. PICK ct : laudo = Recusada(resp, ct)
      BY <1>1, <2>2 DEF IInv, Julgada
    <3>2. Julga(resp, indice, Mostra(blocos), regra) = Recusada(resp, FALSE)
      BY <2>2, JulgaRecusada
    <3>3. QED
      BY <3>1, <3>2 DEF Recusada
  <2>3. QED
    BY <2>1, <2>2
<1>2. QED
  BY Inicio, Passo, <1>1, PTL DEF Spec

-----------------------------------------------------------------------------
(* The second invariant: how a context is assembled.                       *)

Arts(bs) == {bs[n].art : n \in 1..Len(bs)}
Nomes == UNION {DOMAIN Trechos[v] : v \in 1..Len(Leis)}
DaVersao(p) == p \in Mostra(blocos) \/ \E v \in 1..lei : p \notin DOMAIN Leis[v]
Citados == {plano.ancoras[n][1] : n \in 1..Len(plano.ancoras)}
Pagos == Citados \cap Arts(blocos)

QuadroTipos ==
    /\ {lei, vet} \subseteq 1..Len(Leis)
    /\ fase \in {"livre", "sql", "buscar", "montar", "feita", "falhou"}
    /\ plano.rota \in {"sql", "clarify", "vector", "combined"}
    /\ plano.ancoras \in Seq(indice) /\ ordem \in Seq(Nomes) /\ perg.tok \in Nat
    /\ ~laudo.llm => laudo.recusa \in {"clarify", "no_context", "nenhuma"}

\* The articles still to come are each there once, and none has been a block
\* or dropped.
FilaNova ==
    /\ (\E B : fila \in Seq(B)) /\ IsInjective(fila)
    /\ ToSet(fila) \cap (Arts(blocos) \cup caidos) = {} /\ Arts(blocos) \cap caidos = {}
    /\ fase = "buscar" => blocos = <<>> /\ caidos = {}

\* The articles of the anchors are among them until they are blocks, and such a
\* block shows its anchors.
Ancoradas ==
    /\ fase = "montar" => \A p \in ToSet(plano.ancoras) : p[1] \in ToSet(fila) \cup Arts(blocos)
    /\ laudo.llm => \A p \in ToSet(plano.ancoras) : p[1] \in Arts(blocos)
    /\ \A p \in ToSet(plano.ancoras) : p[1] \in Arts(blocos) => DaVersao(p)

\* What is left is the budget less the blocks, and an article of an anchor takes
\* at most its minimum out of what is not there.
Piso(q, k) == Min({ContextBudget(q), 0}) - Sufixo - k * (MinBloco + Sufixo)
Contada ==
    /\ Custeados(blocos) /\ sobra \in Int
    /\ fase # "livre" => /\ Tokens(blocos) = ContextBudget(perg) - sobra
                         /\ sobra >= Piso(perg, Cardinality(Pagos))

Montagem == QuadroTipos /\ FilaNova /\ Ancoradas /\ Contada

\* Without its head, a sequence without repetitions has lost that member.
LEMMA CaudaDe ==
    ASSUME NEW B, NEW s \in Seq(B), s # <<>>, IsInjective(s)
    PROVE  /\ Tail(s) \in Seq(B) /\ IsInjective(Tail(s)) /\ Head(s) \in ToSet(s)
           /\ ToSet(Tail(s)) = ToSet(s) \ {Head(s)}
<1> DEFINE n == Len(s)
           t == Tail(s)
<1>1. /\ n \in Nat /\ n > 0 /\ DOMAIN s = 1..n /\ Head(s) = s[1]
      /\ t \in Seq(B) /\ DOMAIN t = 1..(n - 1) /\ \A k \in 1..(n - 1) : t[k] = s[k + 1]
  OBVIOUS
<1> HIDE DEF t, n
<1>2. \A k \in 1..(n - 1) : k + 1 \in 1..n /\ k \in Int
  BY <1>1
<1>3. IsInjective(t)
  <2> SUFFICES ASSUME NEW a \in 1..(n - 1), NEW b \in 1..(n - 1), t[a] = t[b] PROVE a = b
    BY <1>1 DEF IsInjective
  <2>1. s[a + 1] = s[b + 1]
    BY <1>1
  <2>2. a + 1 = b + 1
    BY <1>1, <1>2, <2>1 DEF IsInjective
  <2>3. QED
    BY <1>2, <2>2
<1>4. 1 \in DOMAIN s
  BY <1>1
<1>5. ToSet(t) \subseteq ToSet(s) \ {s[1]}
  <2> SUFFICES ASSUME NEW k \in 1..(n - 1) PROVE t[k] \in ToSet(s) /\ t[k] # s[1]
    BY <1>1 DEF ToSet
  <2>1. t[k] = s[k + 1] /\ k + 1 \in DOMAIN s /\ k + 1 # 1
    BY <1>1, <1>2
  <2>2. QED
    BY <1>4, <2>1 DEF IsInjective, ToSet
<1>6. ASSUME NEW j \in 1..n, s[j] # s[1] PROVE s[j] \in ToSet(t)
  <2>1. j - 1 \in 1..(n - 1) /\ (j - 1) + 1 = j
    BY <1>1, <1>6
  <2>2. t[j - 1] = s[j]
    BY <1>1, <2>1
  <2>3. QED
    BY <1>1, <2>1, <2>2 DEF ToSet
<1>7. ToSet(s) \ {s[1]} \subseteq ToSet(t)
  BY <1>1, <1>6 DEF ToSet
<1>8. QED
  BY <1>1, <1>3, <1>4, <1>5, <1>7 DEF t, ToSet

\* The articles of the blocks, with one block more.
LEMMA ArtsAppend ==
    ASSUME NEW B, NEW s \in Seq(B), NEW b
    PROVE  Arts(Append(s, b)) = Arts(s) \cup {b.art}
<1> DEFINE C == B \cup {b}
<1>1. s \in Seq(C) /\ b \in C
  OBVIOUS
<1>2. Append(s, b) \in Seq(C)
  BY <1>1
<1>3. /\ Len(Append(s, b)) = Len(s) + 1 /\ Len(s) \in Nat
      /\ Append(s, b)[Len(s) + 1] = b
      /\ \A n \in 1..Len(s) : Append(s, b)[n] = s[n]
  BY <1>1
<1>4. 1..(Len(s) + 1) = 1..Len(s) \cup {Len(s) + 1}
  BY <1>3
<1>5. QED
  BY <1>3, <1>4 DEF Arts

\* The budget is an integer, below zero for a prompt that fills the window.
LEMMA ContextBudgetInt ==
    ASSUME NEW q, q.tok \in Nat
    PROVE  ContextBudget(q) \in Int
<1> DEFINE n == (NumCtx - Reserva - q.tok) * (100 - Margem)
<1>1. NumCtx \in Int /\ Reserva \in Int /\ Margem \in Int
  BY MedidasAssumption
<1>2. n \in Int
  BY <1>1
<1> HIDE DEF n
<1>3. n \div 100 \in Int /\ -((-n) \div 100) \in Int
  BY <1>2
<1>4. ContextBudget(q) = IF n >= 0 THEN n \div 100 ELSE -((-n) \div 100)
  BY DEF ContextBudget, n
<1>5. QED
  BY <1>3, <1>4

\* A question cites finitely many articles.
LEMMA CitadosFinito ==
    ASSUME QuadroTipos
    PROVE  /\ IsFiniteSet(Citados) /\ IsFiniteSet(Pagos)
           /\ Cardinality(Pagos) \in Nat /\ Cardinality(Citados) \in Nat
           /\ Cardinality(Pagos) <= Cardinality(Citados)
           /\ Citados = {p[1] : p \in ToSet(plano.ancoras)}
<1> DEFINE n == Len(plano.ancoras)
           f == [k \in 1..n |-> plano.ancoras[k][1]]
<1>1. n \in Nat /\ DOMAIN plano.ancoras = 1..n
  BY DEF QuadroTipos
<1>2. f \in Surjection(1..n, Citados)
  BY DEF Surjection, Citados
<1>3. IsFiniteSet(1..n)
  BY <1>1, FS_Interval
<1>4. IsFiniteSet(Citados)
  BY <1>2, <1>3, FS_Surjection
<1>5. IsFiniteSet(Pagos) /\ Cardinality(Pagos) <= Cardinality(Citados)
  BY <1>4, FS_Subset DEF Pagos
<1>6. Citados = {p[1] : p \in ToSet(plano.ancoras)}
  BY <1>1 DEF Citados, ToSet
<1>7. QED
  BY <1>4, <1>5, <1>6, FS_CardinalityType

\* A step that leaves the question and its context alone.
LEMMA MontagemQuieta ==
    ASSUME Montagem, UNCHANGED <<perg, indice, busca>>,
           lei' \in {lei, lei + 1}, {lei', vet'} \subseteq 1..Len(Leis),
           fase' \in {"sql", "buscar", "montar", "feita", "falhou", fase},
           fase' \in {"buscar", "montar"} => fase' = fase, fase = "livre" => fase' = "livre",
           laudo'.llm => laudo.llm \/ (fase = "montar" /\ fila = <<>>),
           ~laudo'.llm => laudo'.recusa \in {"clarify", "no_context", "nenhuma"}
    PROVE  Montagem'
<1>0. /\ UNCHANGED <<plano, ordem, fila, blocos, sobra, caidos, perg, indice>>
      /\ QuadroTipos /\ FilaNova /\ Ancoradas /\ Contada
  BY DEF Montagem, busca
<1>1. QuadroTipos'
  BY <1>0 DEF QuadroTipos
<1>2. FilaNova'
  BY <1>0 DEF FilaNova, Arts
<1>3. Ancoradas'
  <2>1. 1..lei \subseteq 1..lei'
    BY <1>0, LeisAssumption DEF QuadroTipos
  <2>2. \A p : DaVersao(p) => DaVersao(p)'
    BY <1>0, <2>1 DEF DaVersao
  <2>3. ToSet(fila) = {} \/ fila # <<>>
    BY DEF ToSet
  <2>4. Arts(blocos)' = Arts(blocos)
    BY <1>0 DEF Arts
  <2>5. laudo'.llm => \A p \in ToSet(plano.ancoras) : p[1] \in Arts(blocos)
    BY <1>0, <2>3 DEF Ancoradas
  <2>6. QED
    BY <1>0, <2>2, <2>4, <2>5 DEF Ancoradas
<1>4. Contada'
  BY <1>0 DEF Contada, Pagos, Citados, Arts
<1>5. QED
  BY <1>1, <1>2, <1>3, <1>4 DEF Montagem

\* Before the first article nothing has been spent.
LEMMA ContadaVazia ==
    ASSUME QuadroTipos, blocos = <<>>, sobra = ContextBudget(perg)
    PROVE  Contada
<1>1. Pagos = {}
  <2>1. 1..Len(<<>>) = {}
    OBVIOUS
  <2>2. QED
    BY <2>1 DEF Pagos, Arts
<1>2. Cardinality(Pagos) = 0
  BY <1>1, FS_EmptySet
<1>3. sobra \in Int /\ MinBloco \in Nat /\ Sufixo \in Nat
  BY ContextBudgetInt, MedidasAssumption DEF QuadroTipos
<1>4. Min({sobra, 0}) = IF sobra <= 0 THEN sobra ELSE 0
  BY <1>3, MinDePar
<1>5. Piso(perg, 0) = Min({sobra, 0}) - Sufixo - 0 * (MinBloco + Sufixo)
  BY DEF Piso
<1>6. sobra >= Piso(perg, Cardinality(Pagos))
  <2> DEFINE m == Min({sobra, 0})
  <2>1. m \in Int /\ m <= sobra
    BY <1>3, <1>4
  <2> HIDE DEF m
  <2>2. 0 * (MinBloco + Sufixo) = 0
    BY <1>3
  <2>3. QED
    BY <1>2, <1>3, <1>5, <2>1, <2>2 DEF m
<1>7. Tokens(blocos) = sobra - sobra
  BY <1>3, TokensVazio
<1>8. Custeados(blocos)
  <2>1. <<>> \in Seq({}) /\ 1..Len(<<>>) = {}
    OBVIOUS
  <2>2. QED
    BY <2>1 DEF Custeados
<1>9. QED
  BY <1>3, <1>6, <1>7, <1>8 DEF Contada

\* The invariant at the start, and after each kind of step.
LEMMA MontagemInicio == Init => Montagem
<1> SUFFICES ASSUME Init PROVE Montagem
  OBVIOUS
<1>1. /\ lei = 1 /\ vet = 1 /\ fase = "livre" /\ perg.tok = 0 /\ indice = {}
      /\ plano.rota = "clarify" /\ plano.ancoras = <<>> /\ ordem = <<>> /\ fila = <<>>
      /\ blocos = <<>> /\ sobra = 0 /\ caidos = {} /\ ~laudo.llm /\ laudo.recusa = "clarify"
  BY DEF Init, SemPergunta, SemPlano, Nada, SemReplica
<1>2. /\ <<>> \in Seq({}) /\ <<>> \in Seq(Nomes) /\ 1..Len(<<>>) = {} /\ ToSet(<<>>) = {}
      /\ IsInjective(<<>>)
  BY DEF ToSet, IsInjective
<1>3. QuadroTipos
  BY <1>1, <1>2, LeisAssumption DEF QuadroTipos
<1>4. FilaNova
  BY <1>1, <1>2 DEF FilaNova, Arts
<1>5. Ancoradas
  BY <1>1, <1>2 DEF Ancoradas
<1>6. Contada
  BY <1>1, <1>2 DEF Contada, Custeados
<1>7. QED
  BY <1>3, <1>4, <1>5, <1>6 DEF Montagem

LEMMA MontagemPergunta ==
    ASSUME Montagem, NEW q \in Perguntas, NEW rule, NEW ids, Pergunta(q, rule, ids)
    PROVE  Montagem'
<1>1. /\ perg' = q /\ indice' = ids /\ plano' = Rota(q, ids) /\ UNCHANGED <<lei, vet>>
      /\ laudo' = Nada /\ ordem' = <<>> /\ fila' = <<>> /\ blocos' = <<>> /\ caidos' = {}
      /\ sobra' = ContextBudget(q) /\ fase' \in {"sql", "feita", "buscar"}
  BY DEF Pergunta, base
<1>2. q.tok \in Nat /\ q.partes \in Seq(Parte)
  BY LeisAssumption
<1>3. plano'.rota \in {"sql", "clarify", "vector", "combined"} /\ plano'.ancoras \in Seq(ids)
  BY <1>1, <1>2, RotaTipo
<1>4. ~laudo'.llm /\ laudo'.recusa = "clarify"
  BY <1>1 DEF Nada, SemReplica
<1>5. /\ <<>> \in Seq({}) /\ <<>> \in Seq(Nomes) /\ 1..Len(<<>>) = {} /\ ToSet(<<>>) = {}
      /\ IsInjective(<<>>)
  BY DEF ToSet, IsInjective
<1>6. QuadroTipos'
  <2>1. {lei, vet} \subseteq 1..Len(Leis)
    BY DEF Montagem, QuadroTipos
  <2>2. Nomes' = Nomes
    OBVIOUS
  <2>3. QED
    BY <1>1, <1>2, <1>3, <1>4, <1>5, <2>1 DEF QuadroTipos
<1>7. FilaNova'
  BY <1>1, <1>5 DEF FilaNova, Arts
<1>8. Ancoradas'
  BY <1>1, <1>4, <1>5 DEF Ancoradas, Arts
<1>9. Contada'
  <2>1. (QuadroTipos /\ blocos = <<>> /\ sobra = ContextBudget(perg) => Contada)'
    BY ContadaVazia, PTL
  <2>2. sobra' = ContextBudget(perg)'
    BY <1>1 DEF ContextBudget
  <2>3. QED
    BY <1>1, <1>6, <2>1, <2>2
<1>10. QED
  BY <1>6, <1>7, <1>8, <1>9 DEF Montagem

LEMMA VersaoMedida ==
    ASSUME NEW v \in 1..Len(Leis)
    PROVE  LeiMedida(Leis[v]) /\ \A c \in DOMAIN Trechos[v] : Trechos[v][c].tok \in Nat
  BY LeisAssumption DEF LeiMedida

LEMMA MontagemBuscar ==
    ASSUME Montagem, Buscar
    PROVE  Montagem'
<1>0. QuadroTipos /\ FilaNova /\ Ancoradas /\ Contada
  BY DEF Montagem
<1>1. /\ fase = "buscar" /\ fase' = "montar" /\ ordem' \in Ordens
      /\ fila' = Artigos(plano.ancoras, Topo(Trechos[vet], ordem'))
      /\ UNCHANGED <<lei, vet, perg, indice, plano, blocos, sobra, caidos, laudo>>
  BY DEF Buscar, base
<1>2. ordem' \in Seq(Nomes)
  BY <1>1, LeisAssumption DEF Nomes
<1>3. vet \in 1..Len(Leis) /\ lei \in 1..Len(Leis)
  BY <1>0, LeisAssumption DEF QuadroTipos
<1>4. Len(Topo(Trechos[vet], ordem')) \in Nat /\ Len(plano.ancoras) \in Nat
  <2>1. Len(Topo(Trechos[vet], ordem')) \in Nat
    BY <1>2, <1>3, VersaoMedida, TopoTipo
  <2>2. QED
    BY <1>0, <2>1 DEF QuadroTipos
<1>5. /\ \E B : fila' \in Seq(B)
      /\ IsInjective(fila')
      /\ \A k \in 1..Len(plano.ancoras) : plano.ancoras[k][1] \in ToSet(fila')
  BY <1>1, <1>4, ArtigosTipo
<1>6. QuadroTipos'
  BY <1>0, <1>1, <1>2 DEF QuadroTipos
<1>7. blocos = <<>> /\ caidos = {} /\ Arts(blocos) = {}
  <2>1. blocos = <<>> /\ caidos = {} /\ 1..Len(<<>>) = {}
    BY <1>0, <1>1 DEF FilaNova
  <2>2. QED
    BY <2>1 DEF Arts
<1>8. Arts(blocos)' = {} /\ caidos' = {}
  BY <1>1, <1>7 DEF Arts
<1>9. FilaNova'
  BY <1>1, <1>5, <1>8 DEF FilaNova
<1>10. Ancoradas'
  <2>1. \A p \in ToSet(plano.ancoras) : p[1] \in ToSet(fila')
    BY <1>0, <1>5 DEF QuadroTipos, ToSet
  <2>2. laudo.llm => \A p \in ToSet(plano.ancoras) : p[1] \in Arts(blocos)
    BY <1>0 DEF Ancoradas
  <2>3. QED
    BY <1>1, <1>7, <1>8, <2>1, <2>2 DEF Ancoradas
<1>11. Contada'
  BY <1>0, <1>1 DEF Contada, Pagos, Citados, Arts
<1>12. QED
  BY <1>6, <1>9, <1>10, <1>11 DEF Montagem

\* What is left after one more block: c is the minimum and a notice, k the
\* articles of anchors paid so far.
LEMMA PisoAbaixo ==
    ASSUME NEW q, q.tok \in Nat, NEW k \in Nat, NEW s \in Int, NEW t \in Nat,
           s >= Piso(q, k)
    PROVE  /\ MinBloco <= s /\ t <= s + Sufixo => s - t >= Piso(q, k)
           /\ t <= Max({s, MinBloco}) + Sufixo => s - t >= Piso(q, k + 1)
<1> DEFINE c == MinBloco + Sufixo
           m == Min({ContextBudget(q), 0})
<1>1. MinBloco \in Nat /\ Sufixo \in Nat /\ c \in Nat
  BY MedidasAssumption
<1>2. m \in Int /\ m <= 0
  <2>1. ContextBudget(q) \in Int
    BY ContextBudgetInt
  <2>2. QED
    BY <2>1, MinDePar
<1>3. Max({s, MinBloco}) = IF s >= MinBloco THEN s ELSE MinBloco
  BY <1>1, MaxDePar
<1>4. Piso(q, k) = m - Sufixo - k * c /\ Piso(q, k + 1) = m - Sufixo - (k + 1) * c
  BY DEF Piso
<1> DEFINE x == k * c
<1>5. x \in Nat /\ (k + 1) * c = x + c
  BY <1>1
<1>6. Piso(q, k) = m - Sufixo - x /\ Piso(q, k + 1) = m - Sufixo - (x + c)
  BY <1>4, <1>5
<1>7. c = MinBloco + Sufixo
  OBVIOUS
<1> HIDE DEF m, x, c
<1>8. ASSUME MinBloco <= s, t <= s + Sufixo PROVE s - t >= Piso(q, k)
  BY <1>1, <1>2, <1>5, <1>6, <1>8
<1>9. ASSUME t <= Max({s, MinBloco}) + Sufixo PROVE s - t >= Piso(q, k + 1)
  <2>1. CASE s >= MinBloco
    BY <1>1, <1>2, <1>3, <1>5, <1>6, <1>9, <2>1
  <2>2. CASE ~(s >= MinBloco)
    BY <1>1, <1>2, <1>3, <1>5, <1>6, <1>7, <1>9, <2>2
  <2>3. QED
    BY <2>1, <2>2
<1>10. QED
  BY <1>8, <1>9

LEMMA MontagemMontar ==
    ASSUME Montagem, Montar
    PROVE  Montagem'
<1>0. QuadroTipos /\ FilaNova /\ Ancoradas /\ Contada
  BY DEF Montagem
<1> DEFINE L == Leis[lei]
           T == Trechos[vet]
           art == Head(fila)
           a0 == [blocos |-> blocos, sobra |-> sobra, caidos |-> caidos]
           acc == Acrescenta(L, T, plano.ancoras, ordem, a0, art)
           deArt == {p \in ToSet(plano.ancoras) : p[1] = art}
<1>1. /\ fase = "montar" /\ fila # <<>> /\ fila' = Tail(fila)
      /\ blocos' = acc.blocos /\ sobra' = acc.sobra /\ caidos' = acc.caidos
      /\ UNCHANGED <<lei, vet, fase, perg, indice, plano, ordem, laudo>>
  BY DEF Montar, base
<1>2. lei \in 1..Len(Leis) /\ vet \in 1..Len(Leis) /\ lei \in 1..lei
  BY <1>0, LeisAssumption DEF QuadroTipos
<1>3. /\ LeiMedida(L) /\ \A c \in DOMAIN T : T[c].tok \in Nat
      /\ plano.ancoras \in Seq(indice) /\ ordem \in Seq(Nomes) /\ sobra \in Int
  BY <1>0, <1>2, VersaoMedida DEF QuadroTipos, Contada
<1>4. \/ Caiu(acc, blocos, sobra, caidos, art) /\ deArt = {}
      \/ Coube(acc, blocos, sobra, caidos, art, deArt \cap DOMAIN L, deArt # {})
  <2>1. deArt = DeArtigo(plano.ancoras, art)
    BY DEF DeArtigo
  <2>2. acc = Vez(L, T, plano.ancoras, ordem, blocos, sobra, caidos, art)
    BY DEF Vez
  <2>3. TrechosMedidos(T)
    BY <1>3 DEF TrechosMedidos
  <2> HIDE DEF deArt, acc, L, T, art
  <2>4. QED
    BY <1>3, <2>1, <2>2, <2>3, AcrescentaTipo
<1>5. PICK B : fila \in Seq(B)
  BY <1>0 DEF FilaNova
<1>6. /\ fila' \in Seq(B) /\ IsInjective(fila') /\ art \in ToSet(fila)
      /\ ToSet(fila') = ToSet(fila) \ {art}
  BY <1>0, <1>1, <1>5, CaudaDe DEF FilaNova
<1>7. QuadroTipos'
  BY <1>0, <1>1 DEF QuadroTipos
<1>8. art \notin Arts(blocos) /\ art \notin caidos
  BY <1>0, <1>6 DEF FilaNova
<1> HIDE DEF acc, art, L, T
<1>9. CASE Caiu(acc, blocos, sobra, caidos, art) /\ deArt = {}
  <2>1. UNCHANGED <<blocos, sobra>> /\ caidos' = caidos \cup {art} /\ Arts(blocos)' = Arts(blocos)
    BY <1>1, <1>9 DEF Arts, Caiu
  <2>2. FilaNova'
    BY <1>0, <1>1, <1>6, <1>8, <2>1 DEF FilaNova
  <2>3. \A p \in ToSet(plano.ancoras) : p[1] # art
    BY <1>9
  <2>4. \A p : DaVersao(p)' <=> DaVersao(p)
    BY <1>1, <2>1 DEF DaVersao
  <2>5. Ancoradas'
    BY <1>0, <1>1, <1>6, <2>1, <2>3, <2>4 DEF Ancoradas
  <2>6. Contada'
    BY <1>0, <1>1, <2>1 DEF Contada, Pagos, Citados
  <2>7. QED
    BY <1>7, <2>2, <2>5, <2>6 DEF Montagem
<1>10. ASSUME NEW b,
              acc.blocos = Append(blocos, b), acc.sobra = sobra - b.tok, acc.caidos = caidos,
              b.art = art, b.tok \in Nat, deArt \cap DOMAIN L \subseteq b.ids,
              IF ~(deArt # {}) THEN MinBloco <= sobra /\ b.tok <= sobra + Sufixo
              ELSE b.tok <= Max({sobra, MinBloco}) + Sufixo
       PROVE  Montagem'
  <2>1. blocos' = Append(blocos, b) /\ sobra' = sobra - b.tok /\ caidos' = caidos
    BY <1>1, <1>10
  <2>2. PICK C : blocos \in Seq(C)
    BY <1>0 DEF Contada, Custeados
  <2>3. Arts(blocos)' = Arts(blocos) \cup {art}
    <3>1. Arts(Append(blocos, b)) = Arts(blocos) \cup {b.art}
      BY <2>2, ArtsAppend
    <3>2. Arts(blocos)' = Arts(Append(blocos, b))
      BY <2>1 DEF Arts
    <3>3. QED
      BY <1>10, <3>1, <3>2
  <2>4. Mostra(blocos)' = Mostra(blocos) \cup b.ids
    <3>1. Mostra(Append(blocos, b)) = Mostra(blocos) \cup b.ids
      BY <2>2, MostraAppend
    <3>2. Mostra(blocos)' = Mostra(Append(blocos, b))
      BY <2>1 DEF Mostra
    <3>3. QED
      BY <3>1, <3>2
  <2>5. FilaNova'
    BY <1>0, <1>1, <1>6, <1>8, <2>1, <2>3 DEF FilaNova
  <2>6. Ancoradas'
    <3>1. \A p : DaVersao(p) => DaVersao(p)'
      BY <1>1, <2>4 DEF DaVersao
    <3>2. ASSUME NEW p \in ToSet(plano.ancoras), p[1] = art PROVE DaVersao(p)'
      <4>1. CASE p \in DOMAIN L
        BY <1>10, <2>4, <3>2, <4>1 DEF DaVersao
      <4>2. CASE p \notin DOMAIN L
        BY <1>1, <1>2, <4>2 DEF DaVersao, L
      <4>3. QED
        BY <4>1, <4>2
    <3>3. QED
      BY <1>0, <1>1, <1>6, <2>3, <3>1, <3>2 DEF Ancoradas
  <2>7. Contada'
    <3> DEFINE k == Cardinality(Pagos)
    <3>1. /\ Custeados(blocos') /\ Tokens(blocos') = Tokens(blocos) + b.tok
          /\ Tokens(blocos) \in Int /\ b.tok \in Int
      BY <1>0, <1>10, <2>1, TokensAppend DEF Contada
    <3>2. /\ IsFiniteSet(Pagos) /\ k \in Nat /\ Citados' = Citados
          /\ Citados = {p[1] : p \in ToSet(plano.ancoras)}
      BY <1>0, <1>1, CitadosFinito DEF Citados
    <3>3. ContextBudget(perg) \in Int /\ perg.tok \in Nat
      BY <1>0, ContextBudgetInt DEF QuadroTipos
    <3>4. Tokens(blocos) = ContextBudget(perg) - sobra /\ sobra >= Piso(perg, k)
      BY <1>0, <1>1 DEF Contada
    <3>5. sobra' \in Int /\ Tokens(blocos)' = ContextBudget(perg) - sobra'
      BY <1>3, <1>10, <2>1, <3>1, <3>3, <3>4
    <3>6. sobra' >= Piso(perg, Cardinality(Pagos'))
      <4>1. CASE deArt = {}
        <5>1. art \notin Citados
          BY <3>2, <4>1
        <5>2. Pagos' = Pagos
          BY <2>3, <3>2, <5>1 DEF Pagos
        <5>3. MinBloco <= sobra /\ b.tok <= sobra + Sufixo
          BY <1>10, <4>1
        <5>4. sobra - b.tok >= Piso(perg, k)
          <6> HIDE DEF k
          <6>1. QED
            BY <1>3, <1>10, <3>2, <3>3, <3>4, <5>3, PisoAbaixo
        <5>5. QED
          BY <2>1, <5>2, <5>4
      <4>2. CASE deArt # {}
        <5>1. art \in Citados /\ art \notin Pagos
          BY <1>8, <3>2, <4>2 DEF Pagos
        <5>2. Pagos' = Pagos \cup {art}
          BY <2>3, <3>2, <5>1 DEF Pagos
        <5>3. Cardinality(Pagos') = k + 1
          BY <3>2, <5>1, <5>2, FS_AddElement
        <5>4. b.tok <= Max({sobra, MinBloco}) + Sufixo
          BY <1>10, <4>2
        <5>5. sobra - b.tok >= Piso(perg, k + 1)
          <6> HIDE DEF k
          <6>1. QED
            BY <1>3, <1>10, <3>2, <3>3, <3>4, <5>4, PisoAbaixo
        <5>6. QED
          BY <2>1, <5>3, <5>5
      <4>3. QED
        BY <4>1, <4>2
    <3>7. perg' = perg
      BY <1>1
    <3>8. QED
      BY <3>1, <3>5, <3>6, <3>7 DEF Contada
  <2>8. QED
    BY <1>7, <2>5, <2>6, <2>7 DEF Montagem
<1>11. QED
  BY <1>4, <1>9, <1>10 DEF Coube

\* Judged again, an answer is still of the model or still not.
LEMMA RescoreDoModelo ==
    ASSUME Julgada, NEW rule
    PROVE  IF laudo.llm THEN Rescore(laudo, rule).llm ELSE Rescore(laudo, rule) = laudo
<1>1. CASE ~laudo.llm
  BY <1>1 DEF Rescore
<1>2. CASE laudo.llm /\ resp.json
  <2> DEFINE V(rg) == Veredito(resp, indice, Mostra(blocos), rg)
             l(rg) == Lida(resp, indice, Mostra(blocos), rg, V(rg))
  <2>1. laudo = l(regra)
    BY <1>2 DEF Julgada
  <2>2. Rescore(l(regra), rule) = l(rule)
    BY RescoreLida
  <2>3. l(rule).llm
    BY DEF Lida
  <2> HIDE DEF l
  <2>4. QED
    BY <1>2, <2>1, <2>2, <2>3
<1>3. CASE laudo.llm /\ ~resp.json
  <2>1. PICK ct : laudo = Recusada(resp, ct)
    BY <1>3 DEF Julgada
  <2>2. Rescore(laudo, rule) = Recusada(resp, ContaTexto(rule))
    BY <2>1, RescoreRecusada
  <2>3. Rescore(laudo, rule).llm
    BY <2>2 DEF Recusada
  <2>4. QED
    BY <1>3, <2>3
<1>4. QED
  BY <1>1, <1>2, <1>3

LEMMA MontagemPasso == IInv /\ Montagem /\ [Next]_vars => Montagem'
<1> SUFFICES ASSUME IInv, Montagem, [Next]_vars PROVE Montagem'
  OBVIOUS
<1>0. /\ lei \in 1..Len(Leis) /\ vet \in 1..Len(Leis)
      /\ ~laudo.llm => laudo.recusa \in {"clarify", "no_context", "nenhuma"}
  BY LeisAssumption DEF Montagem, QuadroTipos
<1>1. CASE Publica
  <2>1. /\ lei' = lei + 1 /\ {lei', vet'} \subseteq 1..Len(Leis)
        /\ UNCHANGED <<perg, indice, busca, fase, laudo>>
    BY <1>0, <1>1, LeisAssumption DEF Publica, busca
  <2>2. QED
    BY <1>0, <2>1, MontagemQuieta
<1>2. CASE Revetoriza
  <2>1. /\ lei' = lei /\ {lei', vet'} \subseteq 1..Len(Leis)
        /\ UNCHANGED <<perg, indice, busca, fase, laudo>>
    BY <1>0, <1>2, LeisAssumption DEF Revetoriza, busca
  <2>2. QED
    BY <1>0, <2>1, MontagemQuieta
<1>3. ASSUME NEW q \in Perguntas, ProximaDoGolden(q) PROVE Montagem'
  BY <1>3, MontagemPergunta DEF ProximaDoGolden
<1>4. ASSUME NEW q \in Perguntas, NEW rule \in Decisions, Perguntar(q, rule) PROVE Montagem'
  BY <1>4, MontagemPergunta DEF Perguntar
<1>5. CASE ResponderSql
  <2>1. /\ fase = "sql" /\ fase' = "feita" /\ UNCHANGED <<lei, vet, perg, indice, busca>>
        /\ ~laudo'.llm /\ laudo'.recusa = "nenhuma"
    BY <1>5 DEF ResponderSql, base, SemReplica
  <2>2. QED
    BY <1>0, <2>1, MontagemQuieta
<1>6. CASE Buscar
  BY <1>6, MontagemBuscar
<1>7. CASE Montar
  BY <1>7, MontagemMontar
<1>8. CASE SemContexto
  <2>1. /\ fase = "montar" /\ fase' = "feita" /\ UNCHANGED <<lei, vet, perg, indice, busca>>
        /\ ~laudo'.llm /\ laudo'.recusa = "no_context"
    BY <1>8 DEF SemContexto, base, SemReplica
  <2>2. QED
    BY <1>0, <2>1, MontagemQuieta
<1>9. CASE Indisponivel
  <2>1. /\ fase = "montar" /\ fase' = "falhou"
        /\ UNCHANGED <<lei, vet, perg, indice, busca, laudo>>
    BY <1>9 DEF Indisponivel, base
  <2>2. QED
    BY <1>0, <2>1, MontagemQuieta
<1>10. ASSUME NEW r \in Replicas, Gerar(r) PROVE Montagem'
  <2>1. /\ fase = "montar" /\ fila = <<>> /\ fase' = "feita"
        /\ UNCHANGED <<lei, vet, perg, indice, busca>>
        /\ laudo' = Julga(r, indice, Mostra(blocos), regra)
    BY <1>10 DEF Gerar, base
  <2>2. laudo'.llm
    BY <2>1, JulgaLida, JulgaRecusada DEF Lida, Recusada
  <2>3. QED
    BY <1>0, <2>1, <2>2, MontagemQuieta
<1>11. ASSUME NEW rule \in Decisions, Rescorar(rule) PROVE Montagem'
  <2>1. /\ fase = "feita" /\ fase' = "feita" /\ UNCHANGED <<lei, vet, perg, indice, busca>>
        /\ laudo' = Rescore(laudo, rule)
    BY <1>11 DEF Rescorar, base
  <2>2. IF laudo.llm THEN laudo'.llm ELSE laudo' = laudo
    BY <2>1, RescoreDoModelo DEF IInv
  <2>3. QED
    BY <1>0, <2>1, <2>2, MontagemQuieta
<1>12. CASE UNCHANGED vars
  BY <1>0, <1>12, MontagemQuieta DEF vars, busca
<1>13. QED
  BY <1>1, <1>2, <1>3, <1>4, <1>5, <1>6, <1>7, <1>8, <1>9, <1>10, <1>11, <1>12 DEF Next

\* Every state has its type; in particular the anchors are of the ids that the
\* router had, an article is never both a block and dropped, and the reason of
\* an answer is one of the code's (router.py: route; retriever.py: assemble;
\* lc06_generate.py: answer, rescore).
THEOREM Tipos == Spec => []TypeOK
<1>1. ASSUME IInv, Montagem PROVE TypeOK
  <2>1. ToSet(plano.ancoras) \subseteq indice
    BY <1>1 DEF Montagem, QuadroTipos, ToSet
  <2>2. caidos \cap {blocos[n].art : n \in 1..Len(blocos)} = {}
    BY <1>1 DEF Montagem, FilaNova, Arts
  <2>3. laudo.recusa \in FinalRefusals \cup {"model", "no_valid_citation", "nenhuma"}
    <3>1. CASE ~laudo.llm
      BY <1>1, <3>1 DEF Montagem, QuadroTipos, FinalRefusals
    <3>2. CASE laudo.llm /\ resp.json
      <4>1. laudo.recusa = Veredito(resp, indice, Mostra(blocos), regra)
        BY <1>1, <3>2 DEF IInv, Julgada, Lida
      <4>2. QED
        BY <4>1 DEF Veredito, Decide, FinalRefusals
    <3>3. CASE laudo.llm /\ ~resp.json
      BY <1>1, <3>3 DEF IInv, Julgada, Recusada, FinalRefusals
    <3>4. QED
      BY <3>1, <3>2, <3>3
  <2>4. QED
    BY <1>1, <2>1, <2>2, <2>3 DEF TypeOK, Montagem, QuadroTipos
<1>2. QED
  BY Inicio, Passo, MontagemInicio, MontagemPasso, <1>1, PTL DEF Spec

\* The blocks cost no more than the budget, a notice and, for each article of
\* an anchor, a minimum block and its notice; and whatever was left of the
\* budget, the model never answers a question without the provisions it cites
\* that the law has always had (retriever.py: assemble, build_block).
THEOREM ContextoSempreFiel == Spec => []ContextoFiel
<1>1. ASSUME Montagem PROVE ContextoNoOrcamento
  <2> DEFINE o == ContextBudget(perg)
             c == MinBloco + Sufixo
             kp == Cardinality(Pagos)
             kc == Cardinality(Citados)
             t == Tokens(blocos)
             lo == Min({o, 0})
             hi == Max({o, 0})
  <2> SUFFICES ASSUME fase \in {"montar", "feita"}
               PROVE  t <= hi + Sufixo + kc * c
    BY DEF ContextoNoOrcamento, Citados
  <2>1. MinBloco \in Nat /\ Sufixo \in Nat /\ c \in Nat
    BY MedidasAssumption
  <2>2. o \in Int
    BY <1>1, ContextBudgetInt DEF Montagem, QuadroTipos
  <2>3. lo = (IF o <= 0 THEN o ELSE 0) /\ hi = (IF o >= 0 THEN o ELSE 0)
    BY <2>2, MinDePar, MaxDePar
  <2>4. kp \in Nat /\ kc \in Nat /\ kp <= kc
    BY <1>1, CitadosFinito DEF Montagem
  <2>5. sobra \in Int /\ t = o - sobra /\ sobra >= lo - Sufixo - kp * c
    BY <1>1 DEF Montagem, Contada, Piso
  <2> HIDE DEF o, c, kp, kc, t, lo, hi
  <2> DEFINE xp == kp * c
             xc == kc * c
  <2>6. xp \in Nat /\ xc \in Nat /\ xp <= xc
    <3>1. PICK d \in Nat : kc = kp + d
      <4>1. kc - kp \in Nat /\ kc = kp + (kc - kp)
        BY <2>4
      <4>2. QED
        BY <4>1
    <3>2. kc * c = kp * c + d * c /\ d * c \in Nat /\ kp * c \in Nat
      BY <2>1, <2>4, <3>1
    <3>3. QED
      BY <3>2
  <2>7. sobra >= lo - Sufixo - xp
    BY <2>5
  <2> HIDE DEF xp, xc
  <2>8. t <= hi + Sufixo + xc
    BY <2>1, <2>2, <2>3, <2>5, <2>6, <2>7
  <2>9. QED
    BY <2>8 DEF xc
<1>2. ASSUME Montagem PROVE AncoraPresente
  <2> SUFFICES ASSUME laudo.llm, NEW n \in 1..Len(plano.ancoras)
               PROVE  DaVersao(plano.ancoras[n])
    BY DEF AncoraPresente, DaVersao
  <2>1. plano.ancoras[n] \in ToSet(plano.ancoras)
    BY <1>2 DEF Montagem, QuadroTipos, ToSet
  <2>2. QED
    BY <1>2, <2>1 DEF Montagem, Ancoradas
<1>3. Montagem => ContextoFiel
  BY <1>1, <1>2 DEF ContextoFiel
<1>4. QED
  BY Inicio, Passo, MontagemInicio, MontagemPasso, <1>3, PTL DEF Spec
=============================================================================
