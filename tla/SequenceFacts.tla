----------------------------- MODULE SequenceFacts ----------------------------
(* Induction over the naturals in a form that speaks of sets, and with it what *)
(* folds over sequences compute.                                               *)
EXTENDS Filter, Integers, WellFoundedInduction, SequenceTheorems, TLAPS

\* A set of naturals that is not empty has a least element: < is well-founded.
LEMMA LeastElement ==
    ASSUME NEW T, T \subseteq Nat, T # {}
    PROVE  \E x \in T : \A y \in T : x <= y
<1>1. IsWellFoundedOn(OpToRel(<, Nat), Nat)
  BY NatLessThanWellFounded
<1>2. \A x, y \in Nat : <<x, y>> \in OpToRel(<, Nat) <=> x < y
  BY DEF OpToRel
<1>3. PICK R : R = OpToRel(<, Nat)
  OBVIOUS
<1>4. IsWellFoundedOn(R, Nat)
  BY <1>1, <1>3
<1>5. \A x, y \in Nat : <<x, y>> \in R <=> x < y
  BY <1>2, <1>3
<1>6. PICK x \in T : \A y \in T : ~(<<y, x>> \in R)
  BY <1>4, WFMin
<1>7. \A y \in T : y \in Nat /\ x \in Nat /\ ~(y < x)
  BY <1>5, <1>6
<1> QED
  BY <1>6, <1>7

\* Induction up to n, for the set T of the numbers of which something holds.
LEMMA Induction ==
    ASSUME NEW n \in Nat, NEW T, 0 \in T,
           \A k \in 0 .. n - 1 : k \in T => k + 1 \in T
    PROVE  0 .. n \subseteq T
<1> SUFFICES ASSUME NEW m \in 0 .. n, m \notin T
             PROVE  FALSE
  OBVIOUS
<1>1. PICK U : U = {k \in 0 .. n : k \notin T}
  OBVIOUS
<1>2. PICK x \in U : \A y \in U : x <= y
  <2>1. U \subseteq Nat /\ U # {}
    BY <1>1
  <2> QED
    BY <2>1, LeastElement
<1>3. x \in 0 .. n /\ x \notin T /\ x # 0
  BY <1>1, <1>2
<1>4. x - 1 \in 0 .. n - 1 /\ x - 1 < x /\ (x - 1) + 1 = x
  BY <1>3
<1>5. x - 1 \notin U
  BY <1>2, <1>4
<1>6. x - 1 \in T
  BY <1>1, <1>4, <1>5
<1> QED
  BY <1>3, <1>4, <1>6

-----------------------------------------------------------------------------
\* The function that MapThenFoldSet chooses, which begins with the least element.
IsFold(it, n, V, base, step) ==
    /\ it \in [SUBSET (1 .. n) -> V]
    /\ \A t \in SUBSET (1 .. n) :
          IF t = {} THEN it[t] = base
          ELSE Max(t) \in t /\ it[t] = step[<<it[t \ {Max(t)}], Max(t)>>]

\* It exists for every step that stays in V.
LEMMA FoldExists ==
    ASSUME NEW n \in Nat, NEW V, NEW base \in V, NEW step \in [V \X (1 .. n) -> V]
    PROVE  \E it : IsFold(it, n, V, base, step)
<1> DEFINE Good(it, t) == IF t = {} THEN it[t] = base
                          ELSE Max(t) \in t /\ it[t] = step[<<it[t \ {Max(t)}], Max(t)>>]
           Upto(k) == \E it \in [SUBSET (1 .. k) -> V] : \A t \in SUBSET (1 .. k) : Good(it, t)
<1>1. PICK T : T = {k \in 0 .. n : Upto(k)}
  OBVIOUS
<1>2. 0 \in T
  <2>1. PICK it : it = [t \in SUBSET (1 .. 0) |-> base]
    OBVIOUS
  <2>2. \A t \in SUBSET (1 .. 0) : t = {}
    OBVIOUS
  <2>3. it \in [SUBSET (1 .. 0) -> V] /\ \A t \in SUBSET (1 .. 0) : Good(it, t)
    BY <2>1, <2>2
  <2>4. Upto(0)
    BY <2>3
  <2> HIDE DEF Upto
  <2> QED
    BY <1>1, <2>4
<1>3. ASSUME NEW k \in 0 .. n - 1, k \in T
      PROVE  k + 1 \in T
  <2>1. PICK it \in [SUBSET (1 .. k) -> V] : \A t \in SUBSET (1 .. k) : Good(it, t)
    BY <1>1, <1>3
  <2>2. PICK new : new = [t \in SUBSET (1 .. k + 1) |->
                            IF k + 1 \in t THEN step[<<it[t \ {k + 1}], k + 1>>] ELSE it[t]]
    OBVIOUS
  <2>3. ASSUME NEW t \in SUBSET (1 .. k + 1), k + 1 \in t
        PROVE  /\ Max(t) = k + 1 /\ t \ {k + 1} \in SUBSET (1 .. k)
               /\ new[t \ {k + 1}] = it[t \ {k + 1}]
    <3>1. Max(t) = k + 1
      <4>1. \A y \in t : k + 1 >= y
        BY <1>3
      <4>2. \A x \in t : (\A y \in t : x >= y) => x = k + 1
        BY <1>3, <2>3, <4>1
      <4> QED
        BY <2>3, <4>1, <4>2 DEF Max
    <3>2. t \ {k + 1} \in SUBSET (1 .. k)
      BY <1>3
    <3>3. t \ {k + 1} \in SUBSET (1 .. k + 1) /\ k + 1 \notin t \ {k + 1}
      OBVIOUS
    <3> QED
      BY <2>2, <3>1, <3>2, <3>3
  <2>4. ASSUME NEW t \in SUBSET (1 .. k + 1), k + 1 \notin t
        PROVE  t \in SUBSET (1 .. k) /\ new[t] = it[t]
    BY <1>3, <2>2, <2>4
  <2>5. new \in [SUBSET (1 .. k + 1) -> V]
    <3>1. ASSUME NEW t \in SUBSET (1 .. k + 1)
          PROVE  (IF k + 1 \in t THEN step[<<it[t \ {k + 1}], k + 1>>] ELSE it[t]) \in V
      <4>1. k + 1 \in 1 .. n
        BY <1>3
      <4> QED
        BY <2>1, <2>3, <2>4, <4>1
    <3> QED
      BY <2>2, <3>1
  <2>6. ASSUME NEW t \in SUBSET (1 .. k + 1)
        PROVE  Good(new, t)
    <3>1. CASE k + 1 \in t
      <4>1. t # {} /\ Max(t) = k + 1 /\ new[t] = step[<<it[t \ {k + 1}], k + 1>>]
        BY <2>2, <2>3, <3>1
      <4> QED
        BY <2>3, <3>1, <4>1
    <3>2. CASE k + 1 \notin t
      <4>1. t \in SUBSET (1 .. k) /\ new[t] = it[t]
        BY <2>4, <3>2
      <4>2. Good(it, t)
        BY <2>1, <4>1
      <4>3. t # {} => new[t \ {Max(t)}] = it[t \ {Max(t)}]
        BY <2>4, <3>2
      <4> QED
        BY <4>1, <4>2, <4>3
    <3> QED
      BY <3>1, <3>2
  <2>7. Upto(k + 1)
    BY <2>5, <2>6
  <2> HIDE DEF Upto
  <2> QED
    BY <1>1, <1>3, <2>7
<1>4. n \in T
  BY <1>2, <1>3, Induction
<1> QED
  BY <1>1, <1>4 DEF IsFold
-----------------------------------------------------------------------------
\* An interval that begins with 1 has its end as its greatest element.
LEMMA MaxOfInterval ==
    ASSUME NEW k \in Nat \ {0}
    PROVE  Max(1 .. k) = k /\ (1 .. k) \ {k} = 1 .. k - 1
<1>1. \A x \in 1 .. k : (\A y \in 1 .. k : x >= y) => x = k
  OBVIOUS
<1>2. k \in 1 .. k /\ \A y \in 1 .. k : k >= y
  OBVIOUS
<1> QED
  BY <1>1, <1>2 DEF Max

\* What a fold by it has made after each of n elements.
IsTrace(tr, it, n, V, base, step) ==
    /\ tr \in [0 .. n -> V]
    /\ tr[0] = base /\ tr[n] = it[1 .. n]
    /\ \A k \in 1 .. n : tr[k] = step[<<tr[k - 1], k>>]

\* What the definition of a function that MapThenFoldSet chose says where it is used.
Follows(it, n, V, base, step) ==
    /\ it[{}] = base
    /\ \A t \in SUBSET (1 .. n) : t # {} /\ it[t \ {Max(t)}] \in V /\ Max(t) \in 1 .. n =>
                                   it[t] = step[<<it[t \ {Max(t)}], Max(t)>>]

\* Such a function meets the elements one after the other.
LEMMA FoldSteps ==
    ASSUME NEW n \in Nat, NEW V, NEW base \in V, NEW step \in [V \X (1 .. n) -> V],
           NEW it, Follows(it, n, V, base, step)
    PROVE  \E tr : IsTrace(tr, it, n, V, base, step)
<1>1. PICK tr : tr = [k \in 0 .. n |-> it[1 .. k]]
  OBVIOUS
<1>2. tr[0] = base
  BY <1>1 DEF Follows
<1>3. ASSUME NEW k \in 1 .. n, tr[k - 1] \in V
      PROVE  tr[k] = step[<<tr[k - 1], k>>] /\ tr[k] \in V
  <2>1. /\ \A i \in 1 .. k : i \in 1 .. n
        /\ 1 \in 1 .. k /\ k \in Nat \ {0} /\ k \in 0 .. n /\ k - 1 \in 0 .. n
    OBVIOUS
  <2>2. Max(1 .. k) = k /\ (1 .. k) \ {k} = 1 .. k - 1
    BY <2>1, MaxOfInterval
  <2>3. 1 .. k \in SUBSET (1 .. n) /\ 1 .. k # {}
    BY <2>1
  <2>4. it[1 .. k - 1] \in V
    BY <1>1, <1>3, <2>1
  <2>5. it[1 .. k] = step[<<it[1 .. k - 1], k>>]
    BY <2>1, <2>2, <2>3, <2>4 DEF Follows
  <2> QED
    BY <1>1, <2>1, <2>4, <2>5
<1>4. PICK T : T = {k \in 0 .. n : tr[k] \in V}
  OBVIOUS
<1>5. 0 \in T
  BY <1>2, <1>4
<1>6. ASSUME NEW k \in 0 .. n - 1, k \in T
      PROVE  k + 1 \in T
  <2>1. k + 1 \in 1 .. n /\ k + 1 \in 0 .. n /\ (k + 1) - 1 = k
    OBVIOUS
  <2>2. tr[k + 1] \in V
    BY <1>3, <1>4, <1>6, <2>1
  <2> QED
    BY <1>4, <2>1, <2>2
<1>7. 0 .. n \subseteq T
  BY <1>5, <1>6, Induction
<1>8. \A k \in 0 .. n : tr[k] \in V
  BY <1>4, <1>7
<1>9. \A k \in 1 .. n : tr[k] = step[<<tr[k - 1], k>>]
  <2> SUFFICES ASSUME NEW k \in 1 .. n PROVE tr[k] = step[<<tr[k - 1], k>>]
    OBVIOUS
  <2>1. k - 1 \in 0 .. n
    OBVIOUS
  <2> QED
    BY <1>3, <1>8, <2>1
<1>10. tr \in [0 .. n -> V] /\ tr[n] = it[1 .. n]
  BY <1>1, <1>8
<1> QED
  BY <1>2, <1>9, <1>10 DEF IsTrace

-----------------------------------------------------------------------------
\* What has been kept after each element of the sequence.
TraceOf(tr, s, set) ==
    /\ tr[0] = <<>>
    /\ \A k \in 1 .. Len(s) :
          tr[k] = IF s[k] \in set THEN Append(tr[k - 1], s[k]) ELSE tr[k - 1]
    /\ Only(s, set) = tr[Len(s)]

\* Such a trace exists.
LEMMA OnlyTrace ==
    ASSUME NEW E, NEW s \in Seq(E), NEW set
    PROVE  \E tr \in [0 .. Len(s) -> Seq(E)] : TraceOf(tr, s, set)
<1> DEFINE Next(v, e) == IF e \in set THEN Append(v, e) ELSE v
           IsIt(it) == it = [t \in SUBSET DOMAIN s |->
                               IF t = {} THEN <<>> ELSE Next(it[t \ {Max(t)}], s[Max(t)])]
           chosen == CHOOSE it : IsIt(it)
<1>1. PICK n : n = Len(s)
  OBVIOUS
<1>2. PICK V : V = Seq(E)
  OBVIOUS
<1>3. PICK step : step = [x \in V \X (1 .. n) |-> Next(x[1], s[x[2]])]
  OBVIOUS
<1>4. n \in Nat /\ DOMAIN s = 1 .. n /\ \A k \in 1 .. n : s[k] \in E
  BY <1>1
<1>5. step \in [V \X (1 .. n) -> V] /\ <<>> \in V
  BY <1>2, <1>3, <1>4
<1>6. \A v \in V, k \in 1 .. n : step[<<v, k>>] = Next(v, s[k])
  BY <1>3
<1>7. Only(s, set) = chosen[DOMAIN s]
  BY DEF Only, FoldLeft, MapThenFoldSet
<1> HIDE DEF Next
<1>8. PICK it : IsFold(it, n, V, <<>>, step)
  BY ONLY <1>4, <1>5, FoldExists
<1>9. IsIt(it)
  <2>1. ASSUME NEW t \in SUBSET (1 .. n), t # {}
        PROVE  it[t] = Next(it[t \ {Max(t)}], s[Max(t)])
    BY <1>6, <1>8, <2>1 DEF IsFold
  <2> QED
    BY <1>4, <1>8, <2>1 DEF IsFold
<1>10. IsIt(chosen)
  BY <1>9
<1>11. PICK g : g = chosen
  OBVIOUS
<1>12. /\ g[{}] = <<>>
       /\ \A t \in SUBSET (1 .. n) : t # {} => g[t] = Next(g[t \ {Max(t)}], s[Max(t)])
  BY <1>4, <1>10, <1>11
<1>13. Follows(g, n, V, <<>>, step)
  BY <1>6, <1>12 DEF Follows
<1>14. PICK tr : IsTrace(tr, g, n, V, <<>>, step)
  BY ONLY <1>4, <1>5, <1>13, FoldSteps
<1>15. \A k \in 1 .. n : tr[k] = Next(tr[k - 1], s[k])
  <2> SUFFICES ASSUME NEW k \in 1 .. n PROVE tr[k] = Next(tr[k - 1], s[k])
    OBVIOUS
  <2>1. k - 1 \in 0 .. n
    BY <1>4
  <2> QED
    BY <1>6, <1>14, <2>1 DEF IsTrace
<1> QED
  BY <1>1, <1>2, <1>4, <1>7, <1>11, <1>14, <1>15 DEF IsTrace, TraceOf, Next

\* What is kept comes from the sequence.
LEMMA OnlyTyped ==
    ASSUME NEW E, NEW s \in Seq(E), NEW set
    PROVE  Only(s, set) \in Seq(E)
<1>1. PICK tr \in [0 .. Len(s) -> Seq(E)] : TraceOf(tr, s, set)
  BY OnlyTrace
<1> QED
  BY <1>1 DEF TraceOf

\* Nothing is kept of an empty sequence.
LEMMA OnlyOfNone == ASSUME NEW set PROVE Only(<<>>, set) = <<>>
<1>1. PICK E : E = {<<>>}
  OBVIOUS
<1>2. <<>> \in Seq(E) /\ Len(<<>>) = 0
  OBVIOUS
<1>3. PICK tr \in [0 .. Len(<<>>) -> Seq(E)] : TraceOf(tr, <<>>, set)
  BY <1>2, OnlyTrace
<1> QED
  BY <1>2, <1>3 DEF TraceOf

\* One more element is kept or left out.
LEMMA OnlyAppend ==
    ASSUME NEW E, NEW s \in Seq(E), NEW x \in E, NEW set
    PROVE  Only(Append(s, x), set) = IF x \in set THEN Append(Only(s, set), x)
                                     ELSE Only(s, set)
<1>1. PICK n : n = Len(s)
  OBVIOUS
<1>2. PICK u : u = Append(s, x)
  OBVIOUS
<1>3. /\ n \in Nat /\ u \in Seq(E) /\ Len(u) = n + 1
      /\ \A k \in 1 .. n : u[k] = s[k]
      /\ u[n + 1] = x
  BY <1>1, <1>2
<1>4. PICK a \in [0 .. Len(s) -> Seq(E)] : TraceOf(a, s, set)
  BY OnlyTrace
<1>5. PICK b \in [0 .. Len(u) -> Seq(E)] : TraceOf(b, u, set)
  BY <1>3, OnlyTrace
<1>6. PICK T : T = {k \in 0 .. n : a[k] = b[k]}
  OBVIOUS
<1>7. 0 \in T
  BY <1>3, <1>4, <1>5, <1>6 DEF TraceOf
<1>8. ASSUME NEW k \in 0 .. n - 1, k \in T
      PROVE  k + 1 \in T
  <2>1. k + 1 \in 1 .. Len(s) /\ k + 1 \in 1 .. Len(u) /\ k + 1 \in 0 .. n /\ (k + 1) - 1 = k
    BY <1>1, <1>3
  <2>2. a[k + 1] = IF s[k + 1] \in set THEN Append(a[k], s[k + 1]) ELSE a[k]
    BY <1>4, <2>1 DEF TraceOf
  <2>3. b[k + 1] = IF u[k + 1] \in set THEN Append(b[k], u[k + 1]) ELSE b[k]
    BY <1>5, <2>1 DEF TraceOf
  <2> QED
    BY <1>1, <1>3, <1>6, <1>8, <2>1, <2>2, <2>3
<1>9. a[n] = b[n]
  <2>1. 0 .. n \subseteq T
    BY <1>3, <1>7, <1>8, Induction
  <2> QED
    BY <1>3, <1>6, <2>1
<1>10. b[n + 1] = IF x \in set THEN Append(b[n], x) ELSE b[n]
  <2>1. n + 1 \in 1 .. Len(u) /\ (n + 1) - 1 = n
    BY <1>3
  <2> QED
    BY <1>3, <1>5, <2>1 DEF TraceOf
<1> QED
  BY <1>1, <1>2, <1>3, <1>4, <1>5, <1>9, <1>10 DEF TraceOf

\* Where the elements of the filtered sequence r come from.
Picks(f, r, s, set) ==
    /\ f \in [DOMAIN r -> DOMAIN s]
    /\ \A i \in DOMAIN f : r[i] = s[f[i]]
    /\ \A i, j \in DOMAIN f : i < j => f[i] < f[j]
    /\ \A j \in DOMAIN s : s[j] \in set <=> \E i \in DOMAIN f : f[i] = j

\* Those in the set are kept, each once and in their order.
LEMMA OnlyIs ==
    ASSUME NEW E, NEW s \in Seq(E), NEW set
    PROVE  \E f : Picks(f, Only(s, set), s, set)
<1> DEFINE n == Len(s)
           Is(r, k) == \E f \in [DOMAIN r -> 1 .. k] :
              /\ \A i \in DOMAIN f : r[i] = s[f[i]]
              /\ \A i, j \in DOMAIN f : i < j => f[i] < f[j]
              /\ \A j \in 1 .. k : s[j] \in set <=> \E i \in DOMAIN f : f[i] = j
<1>1. n \in Nat /\ DOMAIN s = 1 .. n /\ \A k \in 1 .. n : s[k] \in E
  OBVIOUS
<1>2. PICK tr \in [0 .. n -> Seq(E)] :
        /\ tr[0] = <<>>
        /\ \A k \in 1 .. n :
              tr[k] = IF s[k] \in set THEN Append(tr[k - 1], s[k]) ELSE tr[k - 1]
        /\ Only(s, set) = tr[n]
  <2>1. PICK tr \in [0 .. Len(s) -> Seq(E)] : TraceOf(tr, s, set)
    BY OnlyTrace
  <2> QED
    BY <2>1 DEF TraceOf
<1>3. PICK T : T = {k \in 0 .. n : Is(tr[k], k)}
  OBVIOUS
<1>4. 0 \in T
  <2>1. PICK f : f = [i \in {} |-> 0]
    OBVIOUS
  <2>2. DOMAIN tr[0] = {} /\ 1 .. 0 = {}
    BY <1>2
  <2>3. f \in [DOMAIN tr[0] -> 1 .. 0]
    BY <2>1, <2>2
  <2>4. Is(tr[0], 0)
    BY <2>1, <2>2, <2>3
  <2> HIDE DEF Is
  <2> QED
    BY <1>1, <1>3, <2>4
<1>5. ASSUME NEW k \in 0 .. n - 1, k \in T
      PROVE  k + 1 \in T
  <2>1. k + 1 \in 1 .. n /\ k + 1 \in 0 .. n /\ (k + 1) - 1 = k /\ k \in 0 .. n
    BY <1>1
  <2>2. tr[k + 1] = IF s[k + 1] \in set THEN Append(tr[k], s[k + 1]) ELSE tr[k]
    BY <1>2, <2>1
  <2>3. PICK f \in [DOMAIN tr[k] -> 1 .. k] :
          /\ \A i \in DOMAIN f : tr[k][i] = s[f[i]]
          /\ \A i, j \in DOMAIN f : i < j => f[i] < f[j]
          /\ \A j \in 1 .. k : s[j] \in set <=> \E i \in DOMAIN f : f[i] = j
    BY <1>3, <1>5
  <2>4. tr[k] \in Seq(E) /\ s[k + 1] \in E
    BY <1>1, <1>2, <2>1
  <2>5. CASE s[k + 1] \notin set
    <3>1. f \in [DOMAIN tr[k + 1] -> 1 .. k + 1]
      BY <2>1, <2>2, <2>3, <2>5
    <3>2. \A j \in 1 .. k + 1 : s[j] \in set <=> \E i \in DOMAIN f : f[i] = j
      <4> SUFFICES ASSUME NEW j \in 1 .. k + 1
                   PROVE  s[j] \in set <=> \E i \in DOMAIN f : f[i] = j
        OBVIOUS
      <4>1. CASE j = k + 1
        BY <2>1, <2>3, <2>5, <4>1
      <4>2. CASE j # k + 1
        <5>1. j \in 1 .. k
          BY <2>1, <4>2
        <5> QED
          BY <2>3, <5>1
      <4> QED
        BY <4>1, <4>2
    <3>3. Is(tr[k + 1], k + 1)
      BY <2>2, <2>3, <2>5, <3>1, <3>2
    <3> HIDE DEF Is
    <3> QED
      BY <1>3, <2>1, <3>3
  <2>6. CASE s[k + 1] \in set
    <3>1. PICK m : m = Len(tr[k])
      OBVIOUS
    <3>2. PICK r : r = tr[k + 1]
      OBVIOUS
    <3>3. /\ m \in Nat /\ DOMAIN tr[k] = 1 .. m /\ DOMAIN r = 1 .. m + 1
          /\ r[m + 1] = s[k + 1] /\ \A i \in 1 .. m : r[i] = tr[k][i]
      BY <2>2, <2>4, <2>6, <3>1, <3>2
    <3>4. PICK h : h = [i \in 1 .. m + 1 |-> IF i = m + 1 THEN k + 1 ELSE f[i]]
      OBVIOUS
    <3>5. \A i \in 1 .. m : h[i] = f[i] /\ f[i] \in 1 .. k
      BY <2>3, <3>3, <3>4
    <3>6. h[m + 1] = k + 1
      BY <3>3, <3>4
    <3>7. h \in [DOMAIN r -> 1 .. k + 1]
      <4>1. \A i \in 1 .. m + 1 : (IF i = m + 1 THEN k + 1 ELSE f[i]) \in 1 .. k + 1
        BY <2>1, <3>3, <2>3
      <4> QED
        BY <3>3, <3>4, <4>1
    <3>8. \A i \in DOMAIN h : r[i] = s[h[i]]
      <4> SUFFICES ASSUME NEW i \in 1 .. m + 1
                   PROVE  r[i] = s[h[i]]
        BY <3>4
      <4>1. CASE i = m + 1
        BY <3>3, <3>6, <4>1
      <4>2. CASE i # m + 1
        <5>1. i \in 1 .. m
          BY <3>3, <4>2
        <5> QED
          BY <2>3, <3>3, <3>5, <5>1
      <4> QED
        BY <4>1, <4>2
    <3>9. \A i, j \in DOMAIN h : i < j => h[i] < h[j]
      <4> SUFFICES ASSUME NEW i \in 1 .. m + 1, NEW j \in 1 .. m + 1, i < j
                   PROVE  h[i] < h[j]
        BY <3>4
      <4>1. i \in 1 .. m
        BY <3>3
      <4>2. CASE j = m + 1
        BY <2>1, <3>5, <3>6, <4>1, <4>2
      <4>3. CASE j # m + 1
        <5>1. j \in 1 .. m
          BY <3>3, <4>3
        <5> QED
          BY <2>3, <3>3, <3>5, <4>1, <5>1
      <4> QED
        BY <4>2, <4>3
    <3>10. \A j \in 1 .. k + 1 : s[j] \in set <=> \E i \in DOMAIN h : h[i] = j
      <4> SUFFICES ASSUME NEW j \in 1 .. k + 1
                   PROVE  s[j] \in set <=> \E i \in 1 .. m + 1 : h[i] = j
        BY <3>4
      <4>1. CASE j = k + 1
        BY <2>6, <3>3, <3>6, <4>1
      <4>2. CASE j # k + 1
        <5>1. j \in 1 .. k
          BY <2>1, <4>2
        <5>2. s[j] \in set <=> \E i \in 1 .. m : f[i] = j
          BY <2>3, <3>3, <5>1
        <5>3. (\E i \in 1 .. m : f[i] = j) => \E i \in 1 .. m + 1 : h[i] = j
          BY <3>3, <3>5
        <5>4. ASSUME NEW i \in 1 .. m + 1, h[i] = j
              PROVE  i \in 1 .. m /\ f[i] = j
          BY <3>3, <3>5, <3>6, <4>2, <5>4
        <5> QED
          BY <5>2, <5>3, <5>4
      <4> QED
        BY <4>1, <4>2
    <3>11. Is(r, k + 1)
      BY <3>7, <3>8, <3>9, <3>10
    <3> HIDE DEF Is
    <3> QED
      BY <1>3, <2>1, <3>2, <3>11
  <2> QED
    BY <2>5, <2>6 DEF IsFold
<1>6. n \in T
  <2>1. 0 .. n \subseteq T
    <3> HIDE DEF n
    <3> QED
      BY <1>1, <1>4, <1>5, Induction
  <2> QED
    BY <1>1, <2>1
<1>7. Is(Only(s, set), n)
  <2> HIDE DEF Is
  <2> QED
    BY <1>2, <1>3, <1>6
<1> QED
  BY <1>1, <1>7 DEF Picks

-----------------------------------------------------------------------------
\* What has been put together after each of the sequences.
FlatTrace(tr, ss) ==
    /\ tr[0] = <<>>
    /\ \A k \in 1 .. Len(ss) : tr[k] = tr[k - 1] \o ss[k]
    /\ Flattened(ss) = tr[Len(ss)]

\* Such a trace exists.
LEMMA FlattenedTrace ==
    ASSUME NEW E, NEW ss \in Seq(Seq(E))
    PROVE  \E tr \in [0 .. Len(ss) -> Seq(E)] : FlatTrace(tr, ss)
<1> DEFINE IsIt(it) == it = [t \in SUBSET DOMAIN ss |->
                               IF t = {} THEN <<>> ELSE it[t \ {Max(t)}] \o ss[Max(t)]]
           chosen == CHOOSE it : IsIt(it)
<1>1. PICK n : n = Len(ss)
  OBVIOUS
<1>2. PICK V : V = Seq(E)
  OBVIOUS
<1>3. PICK step : step = [x \in V \X (1 .. n) |-> x[1] \o ss[x[2]]]
  OBVIOUS
<1>4. n \in Nat /\ DOMAIN ss = 1 .. n /\ \A k \in 1 .. n : ss[k] \in V
  BY <1>1, <1>2
<1>5. \A v \in V, w \in V : v \o w \in V
  BY <1>2
<1>6. step \in [V \X (1 .. n) -> V] /\ <<>> \in V
  BY <1>2, <1>3, <1>4, <1>5
<1>7. \A v \in V, k \in 1 .. n : step[<<v, k>>] = v \o ss[k]
  BY <1>3
<1>8. Flattened(ss) = chosen[DOMAIN ss]
  BY DEF Flattened, FoldLeft, MapThenFoldSet
<1>9. PICK it : IsFold(it, n, V, <<>>, step)
  BY ONLY <1>4, <1>6, FoldExists
<1>10. IsIt(it)
  <2>1. ASSUME NEW t \in SUBSET (1 .. n), t # {}
        PROVE  it[t] = it[t \ {Max(t)}] \o ss[Max(t)]
    <3>1. Max(t) \in 1 .. n /\ it[t \ {Max(t)}] \in V /\ it[t] = step[<<it[t \ {Max(t)}], Max(t)>>]
      BY <1>9, <2>1 DEF IsFold
    <3> QED
      BY <1>7, <3>1
  <2> QED
    BY <1>4, <1>9, <2>1 DEF IsFold
<1>11. IsIt(chosen)
  BY <1>10
<1>12. PICK g : g = chosen
  OBVIOUS
<1>13. /\ g[{}] = <<>>
       /\ \A t \in SUBSET (1 .. n) : t # {} => g[t] = g[t \ {Max(t)}] \o ss[Max(t)]
  BY <1>4, <1>11, <1>12
<1>14. Follows(g, n, V, <<>>, step)
  BY <1>7, <1>13 DEF Follows
<1>15. PICK tr : IsTrace(tr, g, n, V, <<>>, step)
  BY ONLY <1>4, <1>6, <1>14, FoldSteps
<1>16. \A k \in 1 .. n : tr[k] = tr[k - 1] \o ss[k]
  <2> SUFFICES ASSUME NEW k \in 1 .. n PROVE tr[k] = tr[k - 1] \o ss[k]
    OBVIOUS
  <2>1. k - 1 \in 0 .. n
    BY <1>4
  <2> QED
    BY <1>7, <1>15, <2>1 DEF IsTrace
<1> QED
  BY <1>1, <1>2, <1>4, <1>8, <1>12, <1>15, <1>16 DEF IsTrace, FlatTrace

\* Concatenation is associative.
LEMMA Associative ==
    ASSUME NEW E, NEW x \in Seq(E), NEW v \in Seq(E), NEW w \in Seq(E)
    PROVE  (x \o v) \o w = x \o (v \o w)
BY SMTT(30)

\* A sequence put in front of the others comes first.
LEMMA FlattenedCons ==
    ASSUME NEW E, NEW x \in Seq(E), NEW ss, ss \in Seq(Seq(E))
    PROVE  Flattened(<<x>> \o ss) = x \o Flattened(ss)
<1>0. \A v \in Seq(E), w \in Seq(E) : (x \o v) \o w = x \o (v \o w)
  BY ONLY Associative
<1>1. PICK n : n = Len(ss)
  OBVIOUS
<1>2. PICK all : all = <<x>> \o ss
  OBVIOUS
<1>3. /\ n \in Nat /\ all \in Seq(Seq(E)) /\ Len(all) = n + 1
      /\ all[1] = x /\ \A k \in 1 .. n : all[k + 1] = ss[k] /\ ss[k] \in Seq(E)
  BY <1>1, <1>2
<1>4. PICK a \in [0 .. Len(ss) -> Seq(E)] : FlatTrace(a, ss)
  BY FlattenedTrace
<1>5. PICK b \in [0 .. Len(all) -> Seq(E)] : FlatTrace(b, all)
  BY <1>3, FlattenedTrace
<1>6. PICK T : T = {k \in 0 .. n : b[k + 1] = x \o a[k]}
  OBVIOUS
<1>7. 0 \in T
  <2>1. b[1] = b[0] \o x /\ b[0] = <<>> /\ a[0] = <<>>
    <3>1. 1 \in 1 .. Len(all) /\ 1 - 1 = 0
      BY <1>3
    <3> QED
      BY <1>3, <1>4, <1>5, <3>1 DEF FlatTrace
  <2> QED
    BY <1>3, <1>6, <2>1
<1>8. ASSUME NEW k \in 0 .. n - 1, k \in T
      PROVE  k + 1 \in T
  <2>1. /\ k + 1 \in 1 .. Len(ss) /\ k + 2 \in 1 .. Len(all) /\ k + 1 \in 0 .. n
        /\ (k + 1) - 1 = k /\ (k + 2) - 1 = k + 1 /\ (k + 1) + 1 = k + 2 /\ k \in 0 .. n
    BY <1>1, <1>3
  <2>2. a[k + 1] = a[k] \o ss[k + 1] /\ b[k + 2] = b[k + 1] \o all[k + 2]
    BY <1>4, <1>5, <2>1 DEF FlatTrace
  <2>3. b[k + 1] = x \o a[k] /\ all[k + 2] = ss[k + 1] /\ ss[k + 1] \in Seq(E) /\ a[k] \in Seq(E)
    BY <1>1, <1>3, <1>4, <1>6, <1>8, <2>1
  <2>4. (x \o a[k]) \o ss[k + 1] = x \o (a[k] \o ss[k + 1])
    BY <1>0, <2>3
  <2> QED
    BY <1>6, <2>1, <2>2, <2>3, <2>4
<1>9. b[n + 1] = x \o a[n]
  <2>1. 0 .. n \subseteq T
    BY <1>3, <1>7, <1>8, Induction
  <2>2. n \in T
    BY <1>3, <2>1
  <2> QED
    BY <1>6, <2>2
<1> QED
  BY <1>1, <1>2, <1>3, <1>4, <1>5, <1>9 DEF FlatTrace

\* A sequence of nothing is empty, and a sequence of sequences over E is over E.
LEMMA FlattenedTyped ==
    ASSUME NEW E, NEW ss, ss \in Seq(Seq(E))
    PROVE  Flattened(ss) \in Seq(E) /\ (ss = <<>> => Flattened(ss) = <<>>)
<1>1. PICK tr \in [0 .. Len(ss) -> Seq(E)] : FlatTrace(tr, ss)
  BY FlattenedTrace
<1>2. Len(ss) \in 0 .. Len(ss) /\ (ss = <<>> => Len(ss) = 0)
  OBVIOUS
<1> QED
  BY <1>1, <1>2 DEF FlatTrace

\* Two parts of a text that meet are one part of it.
LEMMA PartsMeet ==
    ASSUME NEW E, NEW t \in Seq(E), NEW a \in Nat, NEW b \in Nat, NEW o \in Nat,
           o <= a, a <= b, b <= Len(t)
    PROVE  SubSeq(t, o + 1, a) \o SubSeq(t, a + 1, b) = SubSeq(t, o + 1, b)
<1>1. PICK u, v, w : u = SubSeq(t, o + 1, a) /\ v = SubSeq(t, a + 1, b) /\ w = SubSeq(t, o + 1, b)
  OBVIOUS
<1>2. /\ u \in Seq(E) /\ Len(u) = a - o /\ v \in Seq(E) /\ Len(v) = b - a
      /\ w \in Seq(E) /\ Len(w) = b - o
  BY <1>1
<1>3. PICK uv : uv = u \o v
  OBVIOUS
<1>4. uv \in Seq(E) /\ Len(uv) = b - o
  <2>1. uv \in Seq(E) /\ Len(uv) = Len(u) + Len(v)
    BY ONLY <1>2, <1>3
  <2>2. (a - o) + (b - a) = b - o
    OBVIOUS
  <2> QED
    BY <1>2, <2>1, <2>2
<1>5. \A i \in 1 .. b - o : uv[i] = w[i]
  <2> SUFFICES ASSUME NEW i \in 1 .. b - o PROVE uv[i] = w[i]
    OBVIOUS
  <2>1. w[i] = t[o + i]
    BY <1>1
  <2>2. CASE i <= a - o
    <3>1. uv[i] = u[i]
      BY <1>2, <1>3, <2>2
    <3>2. u[i] = t[o + i]
      BY <1>1, <2>2
    <3> QED
      BY <2>1, <3>1, <3>2
  <2>3. CASE i > a - o
    <3>1. uv[i] = v[i - (a - o)] /\ i - (a - o) \in 1 .. b - a
      BY <1>2, <1>3, <2>3
    <3>2. v[i - (a - o)] = t[a + (i - (a - o))]
      BY <1>1, <3>1
    <3>3. a + (i - (a - o)) = o + i
      OBVIOUS
    <3> QED
      BY <2>1, <3>1, <3>2, <3>3
  <2> QED
    BY <2>2, <2>3
<1> QED
  BY <1>1, <1>2, <1>3, <1>4, <1>5

\* Where each of the sequences ss lies in the text t, one after the other.
IsLaid(c, ss, t) ==
    /\ c[0] = 0
    /\ \A i \in 1 .. Len(ss) : /\ c[i - 1] \in Nat /\ c[i] \in Nat
                               /\ c[i] = c[i - 1] + Len(ss[i]) /\ c[i] <= Len(t)
                               /\ SubSeq(t, c[i - 1] + 1, c[i]) = ss[i]

\* If they lie in the text like that, they are the text up to the last of them.
LEMMA LaidIsFlattened ==
    ASSUME NEW E, NEW t \in Seq(E), NEW ss, ss \in Seq(Seq(E)), NEW c, IsLaid(c, ss, t)
    PROVE  Flattened(ss) = SubSeq(t, 1, c[Len(ss)])
<1>1. PICK n : n = Len(ss)
  OBVIOUS
<1>2. n \in Nat /\ \A i \in 1 .. n : ss[i] \in Seq(E)
  BY <1>1
<1>3. PICK tr : tr \in [0 .. n -> Seq(E)] /\ FlatTrace(tr, ss)
  BY <1>1, FlattenedTrace
<1>4. PICK T : T = {k \in 0 .. n : tr[k] = SubSeq(t, 1, c[k])}
  OBVIOUS
<1>5. 0 \in T
  BY <1>2, <1>3, <1>4 DEF FlatTrace, IsLaid
<1>6. ASSUME NEW k \in 0 .. n - 1, k \in T
      PROVE  k + 1 \in T
  <2>1. k + 1 \in 1 .. n /\ k + 1 \in 0 .. n /\ (k + 1) - 1 = k
    BY <1>2
  <2>2. PICK a, b, x : a = c[k] /\ b = c[k + 1] /\ x = ss[k + 1]
    OBVIOUS
  <2>3. /\ a \in Nat /\ b \in Nat /\ b = a + Len(x) /\ b <= Len(t)
        /\ SubSeq(t, a + 1, b) = x /\ x \in Seq(E)
    BY <1>1, <1>2, <2>1, <2>2 DEF IsLaid
  <2>4. tr[k + 1] = SubSeq(t, 1, a) \o x
    BY <1>1, <1>3, <1>4, <1>6, <2>1, <2>2 DEF FlatTrace
  <2>5. SubSeq(t, 1, a) \o SubSeq(t, a + 1, b) = SubSeq(t, 1, b)
    <3>1. 0 <= a /\ a <= b /\ 0 + 1 = 1 /\ 0 \in Nat /\ a \in Nat /\ b \in Nat /\ b <= Len(t)
      BY <2>3
    <3>2. SubSeq(t, 0 + 1, a) \o SubSeq(t, a + 1, b) = SubSeq(t, 0 + 1, b)
      BY ONLY <3>1, t \in Seq(E), PartsMeet
    <3> QED
      BY ONLY <3>1, <3>2
  <2> QED
    BY <1>4, <2>1, <2>2, <2>3, <2>4, <2>5
<1>7. n \in T
  <2>1. 0 .. n \subseteq T
    BY <1>2, <1>5, <1>6, Induction
  <2> QED
    BY <1>2, <2>1
<1> QED
  BY <1>1, <1>3, <1>4, <1>7 DEF FlatTrace

\* And if they are the text when put together, they lie in it like that.
LEMMA FlattenedIsLaid ==
    ASSUME NEW E, NEW ss, ss \in Seq(Seq(E))
    PROVE  \E c \in [0 .. Len(ss) -> Nat] :
              c[Len(ss)] = Len(Flattened(ss)) /\ IsLaid(c, ss, Flattened(ss))
<1>1. PICK n : n = Len(ss)
  OBVIOUS
<1>2. n \in Nat /\ \A i \in 1 .. n : ss[i] \in Seq(E)
  BY <1>1
<1>3. PICK tr : tr \in [0 .. n -> Seq(E)] /\ FlatTrace(tr, ss)
  BY <1>1, FlattenedTrace
<1>4. PICK t : t = tr[n]
  OBVIOUS
<1>5. t \in Seq(E) /\ t = Flattened(ss)
  BY <1>1, <1>2, <1>3, <1>4 DEF FlatTrace
<1>6. PICK c : c = [k \in 0 .. n |-> Len(tr[k])]
  OBVIOUS
<1>7. c \in [0 .. n -> Nat] /\ \A k \in 0 .. n : c[k] = Len(tr[k]) /\ tr[k] \in Seq(E)
  <2>1. \A k \in 0 .. n : tr[k] \in Seq(E) /\ Len(tr[k]) \in Nat
    BY ONLY <1>2, <1>3
  <2> QED
    BY ONLY <1>6, <2>1
<1>8. PICK T : T = {k \in 0 .. n : c[n - k] <= Len(t) /\ tr[n - k] = SubSeq(t, 1, c[n - k])}
  OBVIOUS
<1>9. 0 \in T
  <2>1. n - 0 = n /\ 0 \in 0 .. n /\ n \in 0 .. n
    BY <1>2
  <2>2. t = SubSeq(t, 1, Len(t))
    BY <1>5
  <2> QED
    BY <1>4, <1>7, <1>8, <2>1, <2>2
<1>10. \A k \in 1 .. n : /\ k - 1 \in 0 .. n /\ k \in 0 .. n
                         /\ tr[k] = tr[k - 1] \o ss[k] /\ c[k] = c[k - 1] + Len(ss[k])
  <2> SUFFICES ASSUME NEW k \in 1 .. n
               PROVE  /\ k - 1 \in 0 .. n /\ k \in 0 .. n
                      /\ tr[k] = tr[k - 1] \o ss[k] /\ c[k] = c[k - 1] + Len(ss[k])
    OBVIOUS
  <2>1. k - 1 \in 0 .. n /\ k \in 0 .. n /\ ss[k] \in Seq(E)
    BY <1>2
  <2>2. tr[k] = tr[k - 1] \o ss[k]
    BY <1>1, <1>3 DEF FlatTrace
  <2>3. Len(tr[k - 1] \o ss[k]) = Len(tr[k - 1]) + Len(ss[k])
    BY <1>7, <2>1
  <2> QED
    BY <1>7, <2>1, <2>2, <2>3
<1>11. ASSUME NEW k \in 0 .. n - 1, k \in T
       PROVE  k + 1 \in T
  <2>1. n - k \in 1 .. n /\ (n - k) - 1 = n - (k + 1) /\ k + 1 \in 0 .. n
    BY <1>2
  <2>2. PICK u, v, x : u = tr[n - (k + 1)] /\ v = tr[n - k] /\ x = ss[n - k]
    OBVIOUS
  <2>3. /\ u \in Seq(E) /\ x \in Seq(E) /\ v = u \o x /\ n - (k + 1) \in 0 .. n
        /\ c[n - (k + 1)] = Len(u)
    BY <1>2, <1>7, <1>10, <2>1, <2>2
  <2>4. Len(v) <= Len(t) /\ v = SubSeq(t, 1, Len(v))
    BY <1>7, <1>8, <1>10, <1>11, <2>1, <2>2
  <2>5. Len(u) <= Len(t) /\ u = SubSeq(t, 1, Len(u))
    BY ONLY <1>5, <2>3, <2>4
  <2> QED
    BY <1>8, <2>1, <2>2, <2>3, <2>5
<1>12. \A k \in 0 .. n : c[k] <= Len(t) /\ tr[k] = SubSeq(t, 1, c[k])
  <2>1. 0 .. n \subseteq T
    BY <1>2, <1>9, <1>11, Induction
  <2> SUFFICES ASSUME NEW k \in 0 .. n PROVE c[k] <= Len(t) /\ tr[k] = SubSeq(t, 1, c[k])
    OBVIOUS
  <2>2. n - k \in 0 .. n /\ n - (n - k) = k
    BY <1>2
  <2> QED
    BY <1>8, <2>1, <2>2
<1>13. ASSUME NEW k \in 1 .. n
       PROVE  /\ c[k - 1] \in Nat /\ c[k] \in Nat
              /\ c[k] = c[k - 1] + Len(ss[k]) /\ c[k] <= Len(t)
              /\ SubSeq(t, c[k - 1] + 1, c[k]) = ss[k]
  <2>1. PICK u, v, x : u = tr[k - 1] /\ v = tr[k] /\ x = ss[k]
    OBVIOUS
  <2>2. /\ u \in Seq(E) /\ x \in Seq(E) /\ v = u \o x /\ c[k - 1] = Len(u) /\ c[k] = Len(v)
        /\ Len(v) <= Len(t) /\ v = SubSeq(t, 1, Len(v))
    BY <1>2, <1>7, <1>10, <1>12, <2>1
  <2>3. /\ Len(u) \in Nat /\ Len(v) \in Nat /\ Len(v) = Len(u) + Len(x)
    BY <2>2
  <2>4. SubSeq(t, Len(u) + 1, Len(v)) = x
    <3>1. PICK y : y = SubSeq(t, Len(u) + 1, Len(v))
      OBVIOUS
    <3>2. y \in Seq(E) /\ Len(y) = Len(x)
      BY ONLY <1>5, <2>2, <2>3, <3>1
    <3>3. \A i \in 1 .. Len(x) : y[i] = x[i]
      <4> SUFFICES ASSUME NEW i \in 1 .. Len(x) PROVE y[i] = x[i]
        OBVIOUS
      <4>1. y[i] = t[Len(u) + i]
        BY ONLY <1>5, <2>2, <2>3, <3>1, i \in 1 .. Len(x)
      <4>2. v[Len(u) + i] = x[i]
        BY ONLY <2>2, <2>3, i \in 1 .. Len(x)
      <4>3. Len(u) + i \in 1 .. Len(v)
        BY ONLY <2>2, <2>3, i \in 1 .. Len(x)
      <4>4. v[Len(u) + i] = t[Len(u) + i]
        BY ONLY <1>5, <2>2, <2>3, <4>3
      <4> QED
        BY <4>1, <4>2, <4>4
    <3> QED
      BY <2>2, <3>1, <3>2, <3>3
  <2>5. c[k - 1] \in Nat /\ c[k] \in Nat
    BY <2>2, <2>3
  <2>6. c[k] = c[k - 1] + Len(ss[k]) /\ c[k] <= Len(t)
    BY <1>10, <2>2
  <2>7. SubSeq(t, c[k - 1] + 1, c[k]) = ss[k]
    BY <2>1, <2>2, <2>4
  <2> QED
    BY <2>5, <2>6, <2>7
<1>14. c[0] = 0 /\ c[n] = Len(t)
  BY <1>2, <1>3, <1>4, <1>7 DEF FlatTrace
<1> QED
  BY <1>1, <1>5, <1>7, <1>13, <1>14 DEF IsLaid

-----------------------------------------------------------------------------
\* The places of a set among the first n, in their order.
AreInOrder(order, n, places) ==
    /\ order \in Seq(1 .. n)
    /\ \A i, j \in DOMAIN order : i < j => order[i] < order[j]
    /\ \A p \in 1 .. n : p \in places <=> \E i \in DOMAIN order : order[i] = p

\* Only picks them from the sequence of the first n numbers.
LEMMA PlacesInOrder ==
    ASSUME NEW n \in Nat, NEW places
    PROVE  AreInOrder(Only([i \in 1 .. n |-> i], places), n, places)
<1>1. PICK s : s = [i \in 1 .. n |-> i]
  OBVIOUS
<1>2. s \in Seq(1 .. n) /\ DOMAIN s = 1 .. n /\ \A i \in 1 .. n : s[i] = i
  BY <1>1
<1>3. PICK order : order = Only(s, places)
  OBVIOUS
<1>4. order \in Seq(1 .. n)
  BY <1>2, <1>3, OnlyTyped
<1>5. PICK f : Picks(f, order, s, places)
  BY <1>2, <1>3, OnlyIs
<1>6. /\ f \in [DOMAIN order -> 1 .. n] /\ \A i \in DOMAIN order : order[i] = s[f[i]]
      /\ \A i, j \in DOMAIN order : i < j => f[i] < f[j]
      /\ \A j \in 1 .. n : s[j] \in places <=> \E i \in DOMAIN order : f[i] = j
  BY <1>2, <1>5 DEF Picks
<1>7. \A i \in DOMAIN order : order[i] = f[i]
  BY <1>2, <1>6
<1>8. \A i, j \in DOMAIN order : i < j => order[i] < order[j]
  BY <1>6, <1>7
<1>9. \A p \in 1 .. n : p \in places <=> \E i \in DOMAIN order : order[i] = p
  BY <1>2, <1>6, <1>7
<1> QED
  BY <1>1, <1>3, <1>4, <1>8, <1>9 DEF AreInOrder

\* One place more stands behind the others or is left out.
LEMMA PlacesGrow ==
    ASSUME NEW n \in Nat, NEW places
    PROVE  Only([i \in 1 .. n + 1 |-> i], places) =
             IF n + 1 \in places THEN Append(Only([i \in 1 .. n |-> i], places), n + 1)
             ELSE Only([i \in 1 .. n |-> i], places)
<1>1. PICK s, t : s = [i \in 1 .. n |-> i] /\ t = [i \in 1 .. n + 1 |-> i]
  OBVIOUS
<1>2. s \in Seq(Nat) /\ Len(s) = n /\ \A i \in 1 .. n : s[i] = i
  BY <1>1
<1>3. t \in Seq(Nat) /\ Len(t) = n + 1 /\ \A i \in 1 .. n + 1 : t[i] = i
  BY <1>1
<1>4. t = Append(s, n + 1)
  <2>1. PICK u : u = Append(s, n + 1)
    OBVIOUS
  <2>2. u \in Seq(Nat) /\ Len(u) = n + 1 /\ u[n + 1] = n + 1 /\ \A i \in 1 .. n : u[i] = i
    BY <1>2, <2>1
  <2> QED
    BY <1>3, <2>1, <2>2
<1>5. n + 1 \in Nat
  OBVIOUS
<1>6. Only(Append(s, n + 1), places) = IF n + 1 \in places THEN Append(Only(s, places), n + 1)
                                      ELSE Only(s, places)
  BY ONLY <1>2, <1>5, OnlyAppend
<1> QED
  BY <1>1, <1>4, <1>6

-----------------------------------------------------------------------------
\* A tuple of numbers that comes last in their order: where another one differs
\* from it for the first time, that one is smaller.
ComesLast(c, D, n) ==
    \A d \in D : d = c \/ \E h \in 0 .. n : d[h] < c[h] /\ \A i \in 0 .. h - 1 : d[i] = c[i]

\* Among tuples of bounded numbers there is one.
LEMMA LastInOrder ==
    ASSUME NEW n \in Nat, NEW b \in Nat, NEW D, D \subseteq [0 .. n -> 0 .. b], D # {}
    PROVE  \E c \in D : ComesLast(c, D, n)
<1> DEFINE Agree(c, d, k) == \A i \in 0 .. k - 1 : d[i] = c[i]
           Before(c, d, k) == \E h \in 0 .. k - 1 : d[h] < c[h] /\ Agree(c, d, h)
           IsLast(c, k) == c \in D /\ \A d \in D : Agree(c, d, k) \/ Before(c, d, k)
<1>1. PICK m : m = n + 1 /\ m \in Nat
  OBVIOUS
<1>2. PICK T : T = {k \in 0 .. m : \E c : IsLast(c, k)}
  OBVIOUS
<1>3. 0 \in T
  <2>1. \A i : i \notin 0 .. 0 - 1
    OBVIOUS
  <2> QED
    BY <1>1, <1>2, <2>1
<1>4. ASSUME NEW k \in 0 .. m - 1, k \in T
      PROVE  k + 1 \in T
  <2>1. /\ k \in 0 .. n /\ k + 1 \in 0 .. m /\ k \in 0 .. (k + 1) - 1
        /\ \A i \in 0 .. (k + 1) - 1 : i \in 0 .. k - 1 \/ i = k
        /\ \A i \in 0 .. k - 1 : i \in 0 .. (k + 1) - 1
        /\ \A i \in 0 .. k - 1 : \A h \in 0 .. i - 1 : h \in 0 .. k - 1
    BY <1>1
  <2>2. PICK c : IsLast(c, k)
    BY <1>2, <1>4
  <2>3. PICK T1 : T1 = {b - d[k] : d \in {e \in D : Agree(c, e, k)}}
    OBVIOUS
  <2>4. \A d \in D : d[k] \in 0 .. b /\ b - d[k] \in Nat
    BY <2>1
  <2>5. T1 \subseteq Nat /\ T1 # {}
    BY <2>2, <2>3, <2>4
  <2>6. PICK x \in T1 : \A y \in T1 : x <= y
    BY ONLY <2>5, LeastElement
  <2>7. PICK e \in D : Agree(c, e, k) /\ x = b - e[k]
    BY <2>3, <2>6
  <2>8. ASSUME NEW d \in D, Agree(c, d, k) PROVE d[k] <= e[k]
    <3>1. b - e[k] <= b - d[k]
      BY <2>3, <2>6, <2>7, <2>8
    <3>2. \A u, v \in 0 .. b : b - u <= b - v => v <= u
      OBVIOUS
    <3>3. d[k] \in 0 .. b /\ e[k] \in 0 .. b
      BY <2>4, <2>7
    <3> QED
      BY ONLY <3>1, <3>2, <3>3
  <2>9. ASSUME NEW d \in D PROVE Agree(e, d, k + 1) \/ Before(e, d, k + 1)
    <3>1. CASE Agree(c, d, k)
      <4>1. Agree(e, d, k)
        BY <2>7, <3>1
      <4>2. d[k] <= e[k] /\ d[k] \in 0 .. b /\ e[k] \in 0 .. b
        BY <2>4, <2>7, <2>8, <3>1
      <4>3. CASE d[k] = e[k]
        BY <2>1, <4>1, <4>3
      <4>4. CASE d[k] < e[k]
        BY <2>1, <4>1, <4>4
      <4> QED
        BY <4>2, <4>3, <4>4
    <3>2. CASE Before(c, d, k)
      <4>1. PICK h \in 0 .. k - 1 : d[h] < c[h] /\ Agree(c, d, h)
        BY <3>2
      <4>2. e[h] = c[h] /\ h \in 0 .. (k + 1) - 1
        BY <2>1, <2>7, <4>1
      <4>3. Agree(e, d, h)
        BY <2>1, <2>7, <4>1
      <4> QED
        BY <4>1, <4>2, <4>3
    <3> QED
      BY <2>2, <3>1, <3>2
  <2>10. IsLast(e, k + 1)
    BY <2>7, <2>9
  <2> HIDE DEF IsLast
  <2> QED
    BY <1>2, <2>1, <2>10
<1>5. m \in T
  <2>1. 0 .. m \subseteq T
    BY ONLY <1>1, <1>3, <1>4, Induction
  <2> QED
    BY <1>1, <2>1
<1>6. PICK c : IsLast(c, m)
  BY <1>2, <1>5
<1>7. ASSUME NEW d \in D
      PROVE  d = c \/ \E h \in 0 .. n : d[h] < c[h] /\ \A i \in 0 .. h - 1 : d[i] = c[i]
  <2>1. m - 1 = n
    BY <1>1
  <2>2. CASE Agree(c, d, m)
    <3>1. c \in [0 .. n -> 0 .. b] /\ d \in [0 .. n -> 0 .. b]
      BY <1>6
    <3>2. \A i \in 0 .. n : d[i] = c[i]
      BY <2>1, <2>2
    <3>3. d = c
      BY <3>1, <3>2
    <3> QED
      BY <3>3
  <2>3. CASE Before(c, d, m)
    BY <2>1, <2>3
  <2> QED
    BY <1>6, <2>2, <2>3
<1> QED
  BY <1>6, <1>7 DEF ComesLast

=============================================================================
