---------------------- MODULE RuntimeEventDrainProofs ----------------------
(***************************************************************************)
(* For any events, batch size, faults and commands, with either processor: *)
(* an event takes effect at most once, in the order of its Task and never  *)
(* on an archived one, and its file goes only when it is settled.          *)
(***************************************************************************)
EXTENDS RuntimeEventDrain, FiniteSetTheorems, WellFoundedInduction, TLAPS

-----------------------------------------------------------------------------
(* The order of a batch *)

(* Every set of numbers has a least element: what follows is induction in this form. *)
LEMMA Least ==
  ASSUME NEW S, S \subseteq Nat, S # {}
  PROVE  \E m \in S : \A n \in S : m <= n
<1> DEFINE R == OpToRel(<, Nat)
<1>1. IsWellFoundedOn(R, Nat)
  BY NatLessThanWellFounded, Zenon
<1>2. R = {ss \in Nat \X Nat : ss[1] < ss[2]}
  BY Zenon DEF OpToRel
<1> HIDE DEF R
<1>3. PICK m \in S : \A n \in S : ~(<<n, m>> \in R)
  BY Zenon, <1>1, WFMin
<1>4. \A n \in S : <<n, m>> \in Nat \X Nat /\ <<n, m>>[1] = n /\ <<n, m>>[2] = m
  OBVIOUS
<1>5. \A n \in S : ~(n < m)
  BY Zenon, <1>2, <1>3, <1>4
<1> QED BY <1>5

(* Rounds come before places within a round. *)
LEMMA Lexicographic ==
  ASSUME NEW a \in Nat, NEW b \in Nat, NEW n \in Nat, NEW x \in 0..(n-1), NEW y \in 0..(n-1), a < b
  PROVE  a * n + x < b * n + y
<1>1. PICK d \in Nat : b = a + 1 + d
  <2>1. b - a - 1 \in Nat /\ b = a + 1 + (b - a - 1)
    OBVIOUS
  <2> QED BY <2>1
<1>2. b * n = a * n + n + d * n
  BY <1>1
<1>3. d * n \in Nat /\ a * n \in Nat
  OBVIOUS
<1> QED BY <1>2, <1>3

(* Counting lanes from the cursor on gives each lane a place of its own. *)
LEMMA Rotate ==
  ASSUME NEW n \in Nat \ {0}, NEW cur \in Nat, NEW l \in 0..(n-1)
  PROVE  /\ (l + n - (cur % n)) % n \in 0..(n-1)
         /\ \A m \in 0..(n-1) : (l + n - (cur % n)) % n = (m + n - (cur % n)) % n => l = m
<1>1. PICK c \in 0..(n-1) : c = cur % n
  OBVIOUS
<1>2. ASSUME NEW m \in 0..(n-1)
      PROVE  (m + n - c) % n = IF m >= c THEN m - c ELSE m + n - c
  <2>1. CASE m >= c
    <3>1. m + n - c = n * 1 + (m - c) /\ m - c \in 0..(n-1)
      BY <2>1
    <3> QED BY <2>1, <3>1
  <2>2. CASE m < c
    <3>1. m + n - c = n * 0 + (m + n - c) /\ m + n - c \in 0..(n-1)
      BY <2>2
    <3> QED BY <2>2, <3>1
  <2> QED BY <2>1, <2>2
<1>3. (l + n - c) % n \in 0..(n-1)
  BY <1>2
<1>4. ASSUME NEW m \in 0..(n-1), (l + n - c) % n = (m + n - c) % n
      PROVE  l = m
  <2>1. (IF m >= c THEN m - c ELSE m + n - c) = (IF l >= c THEN l - c ELSE l + n - c)
    BY <1>2, <1>4
  <2> QED BY <2>1
<1> QED BY Zenon, <1>1, <1>3, <1>4

(* The elements of S before x in the order of T. *)
Before(S, T, x) == {y \in S : T[y] < T[x]}

(* An element earlier in the order has a smaller rank. *)
LEMMA RankGrows ==
  ASSUME NEW S, IsFiniteSet(S), NEW T \in [S -> Nat], NEW x \in S, NEW y \in S, T[x] < T[y]
  PROVE  /\ Cardinality(Before(S, T, x)) \in Nat /\ Cardinality(Before(S, T, y)) \in Nat
         /\ Cardinality(Before(S, T, x)) < Cardinality(Before(S, T, y))
<1>1. Before(S, T, x) \in SUBSET S /\ Before(S, T, y) \in SUBSET S /\ x \notin Before(S, T, x)
  BY DEF Before
<1>2. Before(S, T, x) \cup {x} \in SUBSET Before(S, T, y)
  BY DEF Before
<1>3. IsFiniteSet(Before(S, T, x)) /\ IsFiniteSet(Before(S, T, y))
  BY <1>1, FS_Subset
<1>4. Cardinality(Before(S, T, x) \cup {x}) = Cardinality(Before(S, T, x)) + 1
  BY Zenon, <1>1, <1>3, FS_AddElement
<1>5. Cardinality(Before(S, T, x) \cup {x}) <= Cardinality(Before(S, T, y))
  BY <1>2, <1>3, FS_Subset
<1> QED BY <1>3, <1>4, <1>5, FS_CardinalityType

(* In an order without ties every rank below the size of the set is taken. *)
LEMMA RanksAreTaken ==
  ASSUME NEW S, IsFiniteSet(S), NEW T \in [S -> Nat], \A x, y \in S : T[x] = T[y] => x = y,
         NEW k \in Nat, k < Cardinality(S)
  PROVE  \E x \in S : Cardinality(Before(S, T, x)) = k
<1>0. Cardinality(S) \in Nat
  BY FS_CardinalityType
<1> DEFINE Bad == {i \in Nat : i < Cardinality(S) /\ ~\E x \in S : Cardinality(Before(S, T, x)) = i}
<1> SUFFICES ASSUME Bad # {} PROVE FALSE
  OBVIOUS
<1>1. PICK m \in Bad : \A i \in Bad : m <= i
  BY Zenon, Least
<1>2. ASSUME NEW R \in SUBSET S, R # {} PROVE \E z \in R : \A y \in R : T[z] <= T[y]
  <2>1. PICK t \in {T[y] : y \in R} : \A u \in {T[y] : y \in R} : t <= u
    <3>1. {T[y] : y \in R} \subseteq Nat /\ {T[y] : y \in R} # {}
      BY <1>2
    <3> QED BY Zenon, <3>1, Least
  <2> QED BY <2>1
<1>3. CASE m = 0
  <2>1. S # {}
    BY <1>1, <1>3, FS_EmptySet
  <2>2. PICK z \in S : \A y \in S : T[z] <= T[y]
    BY <1>2, <2>1
  <2>3. Before(S, T, z) = {}
    BY <2>2 DEF Before
  <2> QED BY <1>1, <1>3, <2>3, FS_EmptySet
<1>4. CASE m # 0
  <2>1. m - 1 \in Nat /\ m - 1 < Cardinality(S) /\ m - 1 \notin Bad
    BY <1>0, <1>1, <1>4
  <2>2. PICK x \in S : Cardinality(Before(S, T, x)) = m - 1
    BY <2>1
  <2> DEFINE A == Before(S, T, x) \cup {x}
  <2>3. Before(S, T, x) \in SUBSET S /\ x \notin Before(S, T, x)
    BY DEF Before
  <2>4. IsFiniteSet(Before(S, T, x))
    BY <2>3, FS_Subset
  <2>5. Cardinality(A) = m
    <3>1. Cardinality(A) = Cardinality(Before(S, T, x)) + 1
      BY Zenon, <2>3, <2>4, FS_AddElement
    <3> HIDE DEF A
    <3> QED BY <1>1, <2>2, <3>1
  <2>6. S \ A # {}
    <3>1. A # S
      BY <1>1, <2>5
    <3> QED BY <2>3, <3>1
  <2>7. PICK z \in S \ A : \A y \in S \ A : T[z] <= T[y]
    BY Zenon, <1>2, <2>6
  <2>8. T[x] < T[z]
    BY <2>7 DEF Before
  <2>9. Before(S, T, z) = A
    BY <2>7, <2>8 DEF Before
  <2> HIDE DEF A
  <2> QED BY <1>1, <2>5, <2>7, <2>9
<1> QED BY <1>3, <1>4

-----------------------------------------------------------------------------
(* Each lane has one first candidate. *)
LEMMA HeadOfLane ==
  ASSUME NEW cands \in SUBSET Nat, NEW e \in cands
  PROVE  \E h \in Heads(cands) :
           /\ Lane(h) = Lane(e)
           /\ \A g \in Heads(cands) : Lane(g) = Lane(e) => g = h
<1> DEFINE L == {f \in cands : Lane(f) = Lane(e)}
<1>1. PICK h \in L : \A f \in L : h <= f
  <2>1. L \subseteq Nat /\ L # {}
    BY Zenon
  <2> HIDE DEF L
  <2> QED BY Zenon, <2>1, Least
<1>2. h \in Heads(cands)
  BY <1>1 DEF Heads
<1>3. ASSUME NEW g \in Heads(cands), Lane(g) = Lane(e) PROVE g = h
  <2>1. g \in L /\ g <= h
    BY <1>1, <1>3 DEF Heads
  <2> QED BY <1>1, <2>1
<1> QED BY <1>1, <1>2, <1>3

(* The lanes of a set of candidates are numbered without gaps or repetitions. *)
LEMMA LaneIndexFacts ==
  ASSUME NEW cands \in SUBSET Nat, IsFiniteSet(cands), NEW e \in cands, NEW f \in cands
  PROVE  /\ Cardinality(Heads(cands)) \in Nat \ {0}
         /\ LaneIndex(Heads(cands), e) \in 0..(Cardinality(Heads(cands)) - 1)
         /\ LaneIndex(Heads(cands), e) = LaneIndex(Heads(cands), f) => Lane(e) = Lane(f)
<1> DEFINE H == Heads(cands)
           U(h) == {g \in H : g < h}
<1>1. H \in SUBSET Nat /\ IsFiniteSet(H)
  <2>1. H \in SUBSET cands
    BY DEF Heads
  <2> QED BY Zenon, <2>1, FS_Subset
<1>2. ASSUME NEW d \in cands
      PROVE  \E h \in H : Lane(h) = Lane(d) /\ LaneIndex(H, d) = Cardinality(U(h))
  <2>1. PICK h \in H : Lane(h) = Lane(d) /\ \A g \in H : Lane(g) = Lane(d) => g = h
    BY HeadOfLane
  <2>2. {g \in H : \A i \in H : Lane(i) = Lane(d) => g < i} = U(h)
    BY <2>1
  <2> QED BY Zenon, <2>1, <2>2 DEF LaneIndex
<1> HIDE DEF H
<1>3. ASSUME NEW h \in H
      PROVE  /\ U(h) \in SUBSET H /\ IsFiniteSet(U(h)) /\ Cardinality(U(h)) \in Nat
             /\ Cardinality(U(h) \cup {h}) = Cardinality(U(h)) + 1
  <2>1. U(h) \in SUBSET H /\ h \notin U(h)
    BY <1>1
  <2>2. IsFiniteSet(U(h))
    BY <1>1, <2>1, FS_Subset
  <2> HIDE DEF U
  <2> QED BY <2>1, <2>2, FS_AddElement, FS_CardinalityType
<1>4. ASSUME NEW h \in H, NEW V, V \in SUBSET H, IsFiniteSet(V), U(h) \cup {h} \in SUBSET V
      PROVE  Cardinality(U(h)) < Cardinality(V) /\ Cardinality(V) \in Nat
  <2>1. Cardinality(U(h) \cup {h}) <= Cardinality(V) /\ Cardinality(V) \in Nat
    BY <1>4, FS_Subset, FS_CardinalityType
  <2> HIDE DEF U
  <2> QED BY <1>3, <2>1
<1>5. ASSUME NEW h \in H PROVE Cardinality(U(h)) < Cardinality(H) /\ Cardinality(H) \in Nat
  BY <1>1, <1>4
<1>6. PICK he \in H : Lane(he) = Lane(e) /\ LaneIndex(H, e) = Cardinality(U(he))
  BY <1>2
<1>7. PICK hf \in H : Lane(hf) = Lane(f) /\ LaneIndex(H, f) = Cardinality(U(hf))
  BY <1>2
<1>8. Cardinality(U(he)) \in Nat /\ Cardinality(U(hf)) \in Nat
  BY Zenon, <1>3
<1>9. Cardinality(U(he)) = Cardinality(U(hf)) => he = hf
  <2>1. CASE he < hf
    <3>1. U(he) \cup {he} \in SUBSET U(hf)
      <4>1. ASSUME NEW x \in U(he) \cup {he} PROVE x \in U(hf)
        <5>1. x \in H /\ x \in Nat /\ he \in Nat /\ hf \in Nat /\ x <= he
          BY <1>1
        <5> QED BY <2>1, <5>1
      <4> QED BY <4>1
    <3>2. Cardinality(U(he)) < Cardinality(U(hf))
      BY Zenon, <1>3, <1>4, <3>1
    <3> HIDE DEF U
    <3> QED BY <1>8, <3>2
  <2>2. CASE hf < he
    <3>1. U(hf) \cup {hf} \in SUBSET U(he)
      <4>1. ASSUME NEW x \in U(hf) \cup {hf} PROVE x \in U(he)
        <5>1. x \in H /\ x \in Nat /\ hf \in Nat /\ he \in Nat /\ x <= hf
          BY <1>1
        <5> QED BY <2>2, <5>1
      <4> QED BY <4>1
    <3>2. Cardinality(U(hf)) < Cardinality(U(he))
      BY Zenon, <1>3, <1>4, <3>1
    <3> HIDE DEF U
    <3> QED BY <1>8, <3>2
  <2> QED BY <1>1, <2>1, <2>2
<1>10. LaneIndex(H, e) \in 0..(Cardinality(H) - 1) /\ Cardinality(H) \in Nat \ {0}
  <2> HIDE DEF U
  <2> QED BY <1>5, <1>6, <1>8
<1>11. LaneIndex(H, e) = LaneIndex(H, f) => Lane(e) = Lane(f)
  <2> HIDE DEF U
  <2> QED BY <1>6, <1>7, <1>9
<1> QED BY <1>10, <1>11 DEF H

(* Within a lane the round grows with the candidate. *)
LEMMA RoundFacts ==
  ASSUME NEW cands \in SUBSET Nat, IsFiniteSet(cands), NEW e \in cands, NEW f \in cands
  PROVE  /\ Round(cands, e) \in Nat
         /\ Lane(f) = Lane(e) /\ f < e => Round(cands, f) < Round(cands, e)
<1> DEFINE B(d) == {g \in cands : g < d /\ Lane(g) = Lane(d)}
<1>1. ASSUME NEW d \in cands
      PROVE  B(d) \in SUBSET cands /\ IsFiniteSet(B(d)) /\ Cardinality(B(d)) \in Nat
  <2>1. B(d) \in SUBSET cands
    OBVIOUS
  <2> HIDE DEF B
  <2> QED BY <2>1, FS_Subset, FS_CardinalityType
<1>2. ASSUME Lane(f) = Lane(e), f < e PROVE Cardinality(B(f)) < Cardinality(B(e))
  <2>1. B(f) \cup {f} \in SUBSET B(e) /\ f \notin B(f)
    <3>1. ASSUME NEW x \in B(f) \cup {f} PROVE x \in B(e)
      <4>1. x \in cands /\ x \in Nat /\ e \in Nat /\ f \in Nat /\ x <= f /\ Lane(x) = Lane(e)
        BY <1>2
      <4> QED BY <1>2, <4>1
    <3>2. f \notin B(f)
      OBVIOUS
    <3> QED BY Zenon, <3>1, <3>2
  <2> HIDE DEF B
  <2>2. Cardinality(B(f) \cup {f}) = Cardinality(B(f)) + 1
    BY Zenon, <1>1, <2>1, FS_AddElement
  <2>3. Cardinality(B(f) \cup {f}) <= Cardinality(B(e))
    BY <1>1, <2>1, FS_Subset
  <2> QED BY <1>1, <2>2, <2>3
<1>3. \A d \in cands : Round(cands, d) = Cardinality(B(d))
  BY DEF Round
<1> HIDE DEF B
<1> QED BY <1>1, <1>2, <1>3

(* Turns are numbers without ties, and the candidates of a lane take theirs in order. *)
LEMMA TurnsFacts ==
  ASSUME NEW cands \in SUBSET Nat, IsFiniteSet(cands), NEW cur \in Nat
  PROVE  /\ Turns(cands, cur) \in [cands -> Nat]
         /\ \A e, f \in cands : Turns(cands, cur)[e] = Turns(cands, cur)[f] => e = f
         /\ \A e, f \in cands : Lane(f) = Lane(e) /\ f < e
                                  => Turns(cands, cur)[f] < Turns(cands, cur)[e]
<1> DEFINE T == Turns(cands, cur)
           n == Cardinality(Heads(cands))
           place(e) == (LaneIndex(Heads(cands), e) + n - (cur % n)) % n
<1>1. T = [e \in cands |-> (Round(cands, e) * n) + place(e)]
  BY DEF Turns
<1>2. ASSUME NEW e \in cands, NEW f \in cands
      PROVE  /\ Round(cands, e) \in Nat /\ n \in Nat /\ place(e) \in 0..(n - 1)
             /\ place(e) = place(f) => Lane(e) = Lane(f)
             /\ Lane(e) = Lane(f) => place(e) = place(f)
  <2>1. n \in Nat \ {0} /\ LaneIndex(Heads(cands), e) \in 0..(n - 1)
        /\ LaneIndex(Heads(cands), f) \in 0..(n - 1)
        /\ (LaneIndex(Heads(cands), e) = LaneIndex(Heads(cands), f) => Lane(e) = Lane(f))
    BY LaneIndexFacts
  <2>2. Lane(e) = Lane(f) => LaneIndex(Heads(cands), e) = LaneIndex(Heads(cands), f)
    BY DEF LaneIndex
  <2>3. Round(cands, e) \in Nat
    BY RoundFacts
  <2> HIDE DEF n
  <2> QED BY Zenon, <2>1, <2>2, <2>3, Rotate
<1> HIDE DEF n, place, T
<1>3. ASSUME NEW e \in cands, NEW f \in cands, Round(cands, e) < Round(cands, f)
      PROVE  T[e] < T[f]
  BY <1>1, <1>2, <1>3, Lexicographic
<1>4. ASSUME NEW e \in cands PROVE T[e] \in Nat
  <2>1. Round(cands, e) * n \in Nat /\ place(e) \in Nat
    BY <1>2
  <2> QED BY <1>1, <2>1
<1>5. \A e, f \in cands : Lane(f) = Lane(e) /\ f < e => T[f] < T[e]
  BY <1>3, RoundFacts
<1>6. ASSUME NEW e \in cands, NEW f \in cands, T[e] = T[f] PROVE e = f
  <2>1. Round(cands, e) = Round(cands, f)
    <3>1. Round(cands, e) \in Nat /\ Round(cands, f) \in Nat /\ T[e] \in Nat /\ T[f] \in Nat
      BY <1>2, <1>4
    <3> QED BY <1>3, <1>6, <3>1
  <2>2. place(e) = place(f)
    <3>1. PICK m \in Int : T[e] = m + place(e) /\ T[f] = m + place(f)
      <4>1. Round(cands, e) * n \in Int
        BY <1>2
      <4> QED BY <1>1, <2>1, <4>1
    <3>2. PICK x \in Int, y \in Int : x = place(e) /\ y = place(f)
      BY <1>2
    <3>3. m + x = m + y
      BY Zenon, <1>6, <3>1, <3>2
    <3> QED BY <3>2, <3>3
  <2>3. Lane(e) = Lane(f)
    BY <1>2, <2>2
  <2> QED BY <1>4, <1>5, <1>6, <2>3
<1>7. T \in [cands -> Nat]
  BY <1>1, <1>4
<1> QED BY <1>5, <1>6, <1>7 DEF T

(* No candidate is taken before an earlier one of its lane. *)
TakenInOrder(cands, s) ==
  \A k \in DOMAIN s, f \in cands :
    f < s[k] /\ Lane(f) = Lane(s[k]) => \E j \in 1..(k - 1) : s[j] = f

(* A batch is made of candidates, and those of a lane come in their order. *)
LEMMA SelectFacts ==
  ASSUME NEW cands \in SUBSET Nat, IsFiniteSet(cands), NEW maximum \in Nat \ {0}, NEW cur \in Nat,
         NEW batch, batch = SelectDrainBatch(cands, maximum, Turns(cands, cur))
  PROVE  /\ batch.candidates \in Seq(cands) /\ batch.next \in Nat
         /\ TakenInOrder(cands, batch.candidates)
<1>1. CASE cands = {}
  <2>1. batch = [candidates |-> <<>>, next |-> 0]
    BY <1>1 DEF SelectDrainBatch
  <2> QED BY <2>1 DEF TakenInOrder
<1>2. CASE cands # {}
  <2> DEFINE T     == Turns(cands, cur)
             at(k) == CHOOSE e \in cands : Cardinality(Before(cands, T, e)) = k - 1
             taken == Smaller(Cardinality(cands), maximum)
             nxt   == (LaneIndex(Heads(cands), at(taken)) + 1) % Cardinality(Heads(cands))
  <2>1. batch = [candidates |-> [k \in 1..taken |-> at(k)], next |-> nxt]
    BY Zenon, <1>2 DEF SelectDrainBatch, Before
  <2>2. /\ T \in [cands -> Nat] /\ \A e, f \in cands : T[e] = T[f] => e = f
        /\ \A e, f \in cands : Lane(f) = Lane(e) /\ f < e => T[f] < T[e]
    BY TurnsFacts
  <2>3. Cardinality(cands) \in Nat \ {0}
    BY <1>2, FS_CardinalityType, FS_EmptySet
  <2>4. taken \in 1..Cardinality(cands)
    BY <2>3 DEF Smaller
  <2> HIDE DEF T
  <2>5. ASSUME NEW k \in 1..Cardinality(cands)
        PROVE  at(k) \in cands /\ Cardinality(Before(cands, T, at(k))) = k - 1
    <3>1. k - 1 \in Nat /\ k - 1 < Cardinality(cands)
      BY <2>3
    <3>2. \E e \in cands : Cardinality(Before(cands, T, e)) = k - 1
      BY Zenon, <2>2, <3>1, RanksAreTaken
    <3> QED BY <3>2
  <2> HIDE DEF at, taken
  <2>6. \A k \in 1..taken : k \in 1..Cardinality(cands)
    BY <2>3, <2>4
  <2>7. nxt \in Nat
    <3>1. at(taken) \in cands
      BY <2>4, <2>5
    <3>2. Cardinality(Heads(cands)) \in Nat \ {0}
          /\ LaneIndex(Heads(cands), at(taken)) \in 0..(Cardinality(Heads(cands)) - 1)
      BY Zenon, <3>1, LaneIndexFacts
    <3> QED BY <3>2
  <2> HIDE DEF nxt
  <2>8. batch.candidates = [k \in 1..taken |-> at(k)] /\ batch.next \in Nat
    BY <2>1, <2>7
  <2>9. batch.candidates \in Seq(cands)
    <3>1. taken \in Nat
      BY <2>3, <2>4
    <3>2. \A k \in 1..taken : at(k) \in cands
      BY Zenon, <2>5, <2>6
    <3>3. [k \in 1..taken |-> at(k)] \in [1..taken -> cands]
      BY Zenon, <3>2
    <3>4. ASSUME NEW n \in Nat, NEW c \in [1..n -> cands] PROVE c \in Seq(cands)
      OBVIOUS
    <3> QED BY Zenon, <2>8, <3>1, <3>3, <3>4
  <2>10. ASSUME NEW k \in 1..taken, NEW f \in cands, f < at(k), Lane(f) = Lane(at(k))
         PROVE  \E j \in 1..(k - 1) : at(j) = f
    <3>1. at(k) \in cands /\ Cardinality(Before(cands, T, at(k))) = k - 1
      BY <2>5, <2>6
    <3>2. T[f] < T[at(k)]
      BY Zenon, <2>2, <2>10, <3>1
    <3> DEFINE r == Cardinality(Before(cands, T, f))
    <3>3. r \in Nat /\ r < k - 1
      <4>1. r \in Nat /\ r < Cardinality(Before(cands, T, at(k)))
        BY Zenon, <2>2, <3>1, <3>2, RankGrows
      <4> QED BY <3>1, <4>1
    <3> HIDE DEF r
    <3>4. r + 1 \in 1..(k - 1) /\ r + 1 \in 1..Cardinality(cands) /\ (r + 1) - 1 = r
      BY <2>3, <2>4, <3>3
    <3> DEFINE g == at(r + 1)
    <3>5. g \in cands /\ Cardinality(Before(cands, T, g)) = Cardinality(Before(cands, T, f))
      BY <2>5, <3>4 DEF r
    <3> HIDE DEF g
    <3>6. ~(T[g] < T[f]) /\ ~(T[f] < T[g])
      <4>1. T[g] < T[f] => Cardinality(Before(cands, T, g)) < Cardinality(Before(cands, T, f))
        BY Zenon, <2>2, <3>5, RankGrows
      <4>2. T[f] < T[g] => Cardinality(Before(cands, T, f)) < Cardinality(Before(cands, T, g))
        BY Zenon, <2>2, <3>5, RankGrows
      <4>3. Cardinality(Before(cands, T, f)) \in Nat
        BY <3>3 DEF r
      <4> QED BY <3>5, <4>1, <4>2, <4>3
    <3>7. T[g] \in Nat /\ T[f] \in Nat
      BY <2>2, <3>5
    <3>8. g = f
      BY <2>2, <3>5, <3>6, <3>7
    <3> QED BY <3>4, <3>8 DEF g
  <2>11. PICK s : s = batch.candidates
    OBVIOUS
  <2>12. DOMAIN s = 1..taken /\ \A k \in 1..taken : s[k] = at(k)
    BY <2>8, <2>11
  <2>13. \A k \in 1..taken : \A j \in 1..(k - 1) : j \in 1..taken
    BY <2>4
  <2>14. ASSUME NEW k \in DOMAIN s, NEW f \in cands, f < s[k], Lane(f) = Lane(s[k])
         PROVE  \E j \in 1..(k - 1) : s[j] = f
    <3>1. k \in 1..taken /\ s[k] = at(k)
      BY <2>12
    <3>2. PICK j \in 1..(k - 1) : at(j) = f
      BY <2>10, <2>14, <3>1
    <3>3. j \in 1..taken
      BY <2>13, <3>1
    <3> QED BY <2>12, <3>2, <3>3
  <2>15. TakenInOrder(cands, s)
    BY <2>14 DEF TakenInOrder
  <2> QED BY <2>8, <2>9, <2>11, <2>15
<1> QED BY <1>1, <1>2

-----------------------------------------------------------------------------
(* Effects *)

(* Only a transaction changes the store. *)
LEMMA StoreSteps ==
  ASSUME [Next]_vars
  PROVE  \/ UNCHANGED store
         \/ PeekTask
         \/ FoldWave
BY DEF Next, vars, store, Publish, AdoptSession, ChangeGate, StartDrain, FoldThrows, Acknowledge,
       AcknowledgeThrows, EndDrain, Crash

-----------------------------------------------------------------------------
(* What a transaction makes effective are candidates folded as applied. *)
LEMMA AppliedFacts ==
  ASSUME NEW results, Commit(results), NEW e \in Ids, TakesEffect(e)
  PROVE  \E k \in DOMAIN results : results[k].cand = e /\ results[k].outcome = "applied"
<1> DEFINE new == {x \in Applied(results) : ~Absorbed(x)}
<1>1. effects' = [x \in Ids |-> IF x \in new THEN effects[x] + 1 ELSE effects[x]]
  BY DEF Commit
<1> HIDE DEF new
<1>2. e \in new
  BY <1>1 DEF TakesEffect
<1> QED BY <1>2 DEF new, Applied

(* A fold inside the transaction refuses an archived Task, whatever was read before it. *)
LEMMA FoldRefusesArchived ==
  ASSUME NEW e, FoldOutcome(e) = "applied"
  PROVE  Status(e) # "archived"
BY DEF FoldOutcome

(* Nothing takes effect on a Task after it was archived, although the worker processor
   reads its status in an earlier call than the one that folds. *)
THEOREM ArchiveFences == Spec => ArchiveIsAFence
<1>1. ASSUME [Next]_vars, NEW e \in Ids, TakesEffect(e)
      PROVE  Status(e) # "archived"
  <2>1. ~UNCHANGED store
    BY <1>1 DEF store, TakesEffect
  <2>2. CASE PeekTask
    <3>1. PICK c : Commit(<<[cand |-> c, outcome |-> "obsolete"]>>)
      BY Zenon, <2>1, <2>2 DEF PeekTask
    <3> DEFINE results == <<[cand |-> c, outcome |-> "obsolete"]>>
    <3>2. \A k \in DOMAIN results : results[k].outcome # "applied"
      OBVIOUS
    <3> QED BY <1>1, <3>1, <3>2, AppliedFacts
  <2>3. CASE FoldWave
    <3>1. PICK wave : Commit(Outcomes(wave))
      BY <2>3 DEF FoldWave
    <3>2. PICK k \in DOMAIN Outcomes(wave) :
            Outcomes(wave)[k].cand = e /\ Outcomes(wave)[k].outcome = "applied"
      BY <1>1, <3>1, AppliedFacts
    <3>3. Outcome(e) = "applied"
      BY <3>2 DEF Outcomes
    <3>4. FoldOutcome(e) = "applied"
      BY <3>3 DEF Outcome, SyncOutcome
    <3> QED BY <3>4, FoldRefusesArchived
  <2> QED BY <1>1, <2>1, <2>2, <2>3, StoreSteps
<1>2. [Next]_vars => [\A e \in Ids : TakesEffect(e) => Status(e) # "archived"]_vars
  BY <1>1
<1> QED BY <1>2, PTL DEF Spec, ArchiveIsAFence

-----------------------------------------------------------------------------
(* Settlement and order *)

(* The events that are about a Turn. *)
OfTurn(e) == OwnsResult(e) \/ Event[e].kind = "accepted"

(* The fields of a drain, and the results that a transaction can leave. *)
Settlements == {"applied", "obsolete", "deferred", "blocked"}

DrainType == [on : BOOLEAN, listed : SUBSET Ids, todo : Seq(Ids), alone : Nat, peeked : BOOLEAN,
              acks : Seq([cand : Ids, outcome : Settlements]), failed : SUBSET Tasks]

StoreType ==
  /\ persisted \in SUBSET Ids /\ obsolete \in SUBSET Ids /\ effects \in [Ids -> Nat]
  /\ accepted \in SUBSET {TurnOf(e) : e \in Ids} /\ settled \in SUBSET {TurnOf(e) : e \in Ids}

Types ==
  /\ inbox \in SUBSET Ids /\ StoreType /\ published \in [Ids -> Nat]
  /\ gate \in [Tasks -> {"enabled", "stopped", "archived"}]
  /\ cursor \in Nat
  /\ drain \in DrainType /\ drain.alone <= Len(drain.todo)

(* Every file and every listed event was published; a drain works on what it listed. *)
Known ==
  /\ \A e \in inbox \cup drain.listed : published[e] > 0
  /\ \A k \in DOMAIN drain.todo : drain.todo[k] \in drain.listed
  /\ \A k \in DOMAIN drain.acks : drain.acks[k].cand \in drain.listed

(* What tells a fold that it comes again.  A record that no later one replaces stands for
   the effect of its event, an accepted binding for that of the receipt, and a settled
   binding for the one result of its Turn, whichever event brought it. *)
Remembered ==
  /\ \A e \in Ids :
       /\ e \in persisted /\ ~OfTurn(e) => effects[e] > 0
       /\ Event[e].kind \in {"fact", "host", "usage"} =>
            effects[e] <= 1 /\ (effects[e] > 0 => e \in persisted)
       /\ Event[e].kind = "accepted" =>
            effects[e] <= 1 /\ (effects[e] > 0 => TurnOf(e) \in accepted)
       /\ OwnsResult(e) => effects[e] <= 1 /\ (effects[e] > 0 => TurnOf(e) \in settled)
  /\ \A e, f \in Ids : OwnsResult(e) /\ OwnsResult(f) /\ TurnOf(e) = TurnOf(f) /\ e # f =>
                        effects[e] = 0 \/ effects[f] = 0

(* What waits to be unlinked is done, or it waits for its Session. *)
AcksAreTrue ==
  \A k \in DOMAIN drain.acks :
    /\ drain.acks[k].outcome \in {"applied", "obsolete"} => Done(drain.acks[k].cand)
    /\ drain.acks[k].outcome = "deferred" => drain.acks[k].cand \in Deferring

(* An event need not be waited for: it is done, or progress, or its Session is awaited. *)
Passed(f) == Done(f) \/ f \in Deferring \/ Event[f].kind = "activity"

(* Before a candidate, an earlier event of its Task was passed, or the Task has failed, or
   it is a candidate further ahead. *)
Ordered ==
  \A k \in DOMAIN drain.todo : \A f \in drain.listed :
    f < drain.todo[k] /\ Lane(f) = Lane(drain.todo[k]) /\ Lane(f) # Global =>
      \/ Passed(f)
      \/ Lane(f) \in drain.failed
      \/ \E j \in 1..(k - 1) : drain.todo[j] = f

Inv == Types /\ Remembered /\ Known /\ AcksAreTrue /\ Ordered /\ AcknowledgedMeansSettled

LEMMA IdsFacts == Ids \in SUBSET Nat /\ IsFiniteSet(Ids)
BY EventsAreListed, FS_Interval

(* The candidates of a listing are listed, and what is left out is progress. *)
LEMMA CoalescedFacts ==
  ASSUME NEW listed \in SUBSET Ids
  PROVE  /\ Coalesced(listed) \in SUBSET listed
         /\ \A f \in listed \ Coalesced(listed) : Event[f].kind = "activity"
BY DEF Coalesced, StoodForBy

(* A wave is an initial part of the candidates, and of two that are not blocked in it none
   has the Task of the other and none is a result. *)
LEMMA WaveFacts ==
  ASSUME Types, Folding, NEW wave, wave = Wave
  PROVE  /\ wave \in Seq(Ids) /\ Len(wave) \in 0..Len(drain.todo)
         /\ \A k \in 1..Len(wave) : wave[k] = drain.todo[k]
         /\ drain.alone > 0 => Len(wave) = 1
         /\ \A k \in 1..Len(wave) : \A j \in 1..(k - 1) :
              ~Blocked(drain.todo[j]) /\ ~Blocked(drain.todo[k]) =>
                /\ Lane(drain.todo[j]) = Lane(drain.todo[k]) => Lane(drain.todo[k]) = Global
                /\ ~OwnsResult(drain.todo[j]) /\ ~OwnsResult(drain.todo[k])
<1> DEFINE todo == drain.todo
<1>1. todo \in Seq(Ids) /\ Len(todo) \in Nat \ {0} /\ DOMAIN todo = 1..Len(todo) /\ drain.alone \in Nat
  BY DEF Types, DrainType, Folding
<1> HIDE DEF todo
<1> DEFINE stops(k) == /\ ~Blocked(todo[k])
                       /\ \E j \in 1..(k - 1) :
                            /\ ~Blocked(todo[j])
                            /\ \/ OwnsResult(todo[j]) \/ OwnsResult(todo[k])
                               \/ Lane(todo[j]) = Lane(todo[k]) /\ Lane(todo[k]) # Global
           S == {k \in DOMAIN todo : stops(k)}
<1>2. WaveLength(todo) = IF \E k \in DOMAIN todo : stops(k) THEN Min(S) - 1 ELSE Len(todo)
  BY DEF WaveLength
<1> HIDE DEF stops
<1>3. WaveLength(todo) \in 0..Len(todo) /\ \A k \in 1..WaveLength(todo) : ~stops(k)
  <2>1. CASE S = {}
    <3>1. WaveLength(todo) = Len(todo)
      BY <1>2, <2>1
    <3> QED BY <1>1, <2>1, <3>1
  <2>2. CASE S # {}
    <3>1. WaveLength(todo) = Min(S) - 1
      BY <1>2, <2>2
    <3>2. S \subseteq 1..Len(todo) /\ S \subseteq Nat
      BY <1>1
    <3>3. \E m \in S : \A n \in S : m <= n
      BY Zenon, <2>2, <3>2, Least
    <3>4. Min(S) \in S /\ \A n \in S : Min(S) <= n
      <4> HIDE DEF S
      <4> QED BY <3>3 DEF Min
    <3>5. Min(S) \in 1..Len(todo) /\ \A k \in 1..(Min(S) - 1) : k \notin S
      <4>1. PICK m \in S : m = Min(S)
        BY <3>4, Zenon
      <4>2. m \in 1..Len(todo) /\ \A n \in S : m <= n
        BY <3>2, <3>4, <4>1
      <4> HIDE DEF S
      <4>3. \A k \in 1..(m - 1) : k \notin S
        BY <1>1, <4>2
      <4> QED BY <4>1, <4>2, <4>3
    <3>6. \A k \in 1..(Min(S) - 1) : k \in DOMAIN todo
      <4> HIDE DEF S
      <4> QED BY <1>1, <3>5
    <3>7. \A k \in 1..(Min(S) - 1) : ~stops(k)
      BY <3>5, <3>6
    <3> HIDE DEF S
    <3> QED BY <1>1, <3>1, <3>5, <3>7
  <2> QED BY <2>1, <2>2
<1> HIDE DEF S
<1> DEFINE n == IF backend = "worker" \/ drain.alone > 0 THEN 1 ELSE WaveLength(todo)
<1>4. wave = SubSeq(todo, 1, n)
  BY DEF Wave, todo
<1>5. n \in 0..Len(todo) /\ (drain.alone > 0 => n = 1) /\ \A k \in 1..n : k # 1 => ~stops(k)
  BY <1>1, <1>3
<1> HIDE DEF n
<1>6. wave \in Seq(Ids) /\ Len(wave) = n /\ \A k \in 1..n : wave[k] = todo[k]
  BY <1>1, <1>4, <1>5
<1>7. ASSUME NEW k \in 1..n, NEW j \in 1..(k - 1), ~Blocked(todo[j]), ~Blocked(todo[k])
      PROVE  /\ Lane(todo[j]) = Lane(todo[k]) => Lane(todo[k]) = Global
             /\ ~OwnsResult(todo[j]) /\ ~OwnsResult(todo[k])
  <2>1. ~stops(k)
    BY <1>1, <1>5
  <2> QED BY <1>7, <2>1 DEF stops
<1> QED BY <1>5, <1>6, <1>7 DEF todo

(* What is left of the candidates after the first n keeps the order, when the first n were
   passed or their Tasks have failed. *)
LEMMA OrderStep ==
  ASSUME Types, Types', Known, Ordered, NEW n \in 0..Len(drain.todo),
         drain'.listed = drain.listed,
         Len(drain'.todo) = Len(drain.todo) - n,
         \A k \in 1..Len(drain'.todo) : drain'.todo[k] = drain.todo[k + n],
         \A e \in Ids : Done(e) => Done(e)',
         drain.failed \subseteq drain'.failed,
         \A j \in 1..n, e \in Ids : e = drain.todo[j] =>
           Done(e)' \/ e \in Deferring \/ Lane(e) \in drain'.failed \/ Lane(e) = Global
  PROVE  /\ Ordered'
         /\ \A k \in DOMAIN drain'.todo : drain'.todo[k] \in drain'.listed
<1>1. /\ Len(drain.todo) \in Nat /\ DOMAIN drain.todo = 1..Len(drain.todo)
      /\ Len(drain'.todo) \in Nat /\ DOMAIN drain'.todo = 1..Len(drain'.todo)
  BY DEF Types, DrainType
<1>2. ASSUME NEW k \in DOMAIN drain'.todo
      PROVE  k + n \in DOMAIN drain.todo /\ drain'.todo[k] = drain.todo[k + n] /\ k \in Nat
  BY <1>1
<1>3. \A k \in DOMAIN drain'.todo : drain'.todo[k] \in drain'.listed
  BY <1>2 DEF Known
<1>4. ASSUME NEW k \in DOMAIN drain'.todo, NEW f \in drain'.listed,
             f < drain'.todo[k], Lane(f) = Lane(drain'.todo[k]), Lane(f) # Global,
             ~Passed(f)', Lane(f) \notin drain'.failed
      PROVE  \E j \in 1..(k - 1) : drain'.todo[j] = f
  <2>1. ~Passed(f) /\ Lane(f) \notin drain.failed
    <3>1. f \in Ids
      BY DEF Types, DrainType
    <3> QED BY <1>4, <3>1 DEF Passed
  <2>2. PICK j \in 1..(k + n - 1) : drain.todo[j] = f
    BY <1>2, <1>4, <2>1 DEF Ordered
  <2>3. ~(j <= n)
    <3> SUFFICES ASSUME j <= n PROVE FALSE
      OBVIOUS
    <3>1. j \in 1..n /\ f \in Ids
      BY <1>2, <2>2 DEF Types, DrainType
    <3>2. Done(f)' \/ f \in Deferring \/ Lane(f) \in drain'.failed \/ Lane(f) = Global
      BY <2>2, <3>1
    <3>3. ~Done(f)' /\ f \notin Deferring
      BY <1>4 DEF Passed
    <3> QED BY <1>4, <3>2, <3>3
  <2>4. j - n \in 1..(k - 1) /\ j - n \in 1..Len(drain'.todo) /\ (j - n) + n = j
    BY <1>1, <1>2, <2>2, <2>3
  <2> QED BY <2>2, <2>4
<1>5. Ordered'
  BY <1>4 DEF Ordered, Lane
<1> QED BY <1>3, <1>5

(* Taking the first n candidates off. *)
LEMMA RestFacts ==
  ASSUME Types, NEW n \in 0..Len(drain.todo), drain.alone > 0 => n = 1
  PROVE  /\ Rest(n) \in DrainType
         /\ Rest(n).listed = drain.listed /\ Rest(n).acks = drain.acks
         /\ Rest(n).failed = drain.failed
         /\ Len(Rest(n).todo) = Len(drain.todo) - n
         /\ \A k \in 1..Len(Rest(n).todo) : Rest(n).todo[k] = drain.todo[k + n]
         /\ Rest(n).alone <= Len(Rest(n).todo)
<1>1. drain \in DrainType /\ drain.alone <= Len(drain.todo)
  BY DEF Types
<1>2. /\ drain.todo \in Seq(Ids) /\ Len(drain.todo) \in Nat /\ drain.alone \in Nat
  BY <1>1 DEF DrainType
<1> DEFINE t == SubSeq(drain.todo, n + 1, Len(drain.todo))
           a == IF drain.alone > 0 THEN drain.alone - 1 ELSE 0
<1>3. t \in Seq(Ids) /\ Len(t) = Len(drain.todo) - n
      /\ \A k \in 1..Len(t) : t[k] = drain.todo[k + n]
  BY <1>2
<1>4. a \in Nat /\ a <= Len(drain.todo) - n
  BY <1>1, <1>2
<1>5. Rest(n) = [drain EXCEPT !.todo = t, !.alone = a, !.peeked = FALSE]
  BY DEF Rest
<1> HIDE DEF t, a
<1>6. /\ Rest(n) \in DrainType /\ Rest(n).todo = t /\ Rest(n).alone = a
      /\ Rest(n).listed = drain.listed /\ Rest(n).acks = drain.acks /\ Rest(n).failed = drain.failed
  BY Zenon, <1>1, <1>3, <1>4, <1>5 DEF DrainType
<1> QED BY <1>3, <1>4, <1>6

(* A candidate is settled as applied, retired, waiting for its Session or passed over. *)
LEMMA OutcomeFacts ==
  ASSUME NEW e \in Ids
  PROVE  /\ Outcome(e) \in Settlements \cup {"throws"}
         /\ Outcome(e) = "deferred" => e \in Deferring
         /\ Outcome(e) = "blocked" => Blocked(e)
         /\ Outcome(e) = "applied" => ~Blocked(e)
<1>1. FoldOutcome(e) \in {"applied", "obsolete", "deferred", "throws"}
      /\ (FoldOutcome(e) = "deferred" => e \in Deferring)
  BY DEF FoldOutcome
<1>2. SyncOutcome(e) \in {"applied", "obsolete", "deferred", "throws"}
      /\ (SyncOutcome(e) = "deferred" => e \in Deferring)
  BY <1>1 DEF SyncOutcome
<1> QED BY <1>1, <1>2 DEF Outcome, Settlements

(* What a transaction writes, for the set of events that take effect and the set of new
   records. *)
LEMMA CommitWrites ==
  ASSUME NEW results, Commit(results)
  PROVE  \E new, records :
           /\ new = {e \in Applied(results) : ~Absorbed(e)}
           /\ records = {e \in Applied(results) \ persisted : Recorded(e)}
           /\ effects' = [e \in Ids |-> IF e \in new THEN effects[e] + 1 ELSE effects[e]]
           /\ accepted' = accepted \cup {TurnOf(e) : e \in {e \in new : Event[e].kind = "accepted"}}
           /\ settled' = settled \cup {TurnOf(e) : e \in {e \in new : OwnsResult(e)}}
           /\ persisted' = {f \in persisted : ~\E e \in records : Replaces(e, f)} \cup records
BY Zenon DEF Commit

(* The applied candidates of a transaction are events. *)
LEMMA AppliedAreIds ==
  ASSUME NEW results \in Seq([cand : Ids, outcome : Settlements])
  PROVE  \A k \in DOMAIN results : results[k].cand \in Ids
<1> DEFINE R == [cand : Ids, outcome : Settlements]
<1>1. results \in Seq(R)
  OBVIOUS
<1>2. \A r \in R : r.cand \in Ids
  OBVIOUS
<1> HIDE DEF R
<1> QED BY <1>1, <1>2

(* Replacing a record never takes one of a fact, of a Host or of usage. *)
LEMMA KeptRecords ==
  ASSUME NEW e, NEW f, Replaces(e, f)
  PROVE  Event[f].kind \notin {"fact", "host", "usage"}
BY DEF Replaces

(* A transaction that holds at most one result keeps what the store remembers.  What was
   done stays done, although records are replaced, and its own results are done. *)
LEMMA CommitFacts ==
  ASSUME StoreType, Remembered, NEW results \in Seq([cand : Ids, outcome : Settlements]),
         Commit(results),
         \A e, f \in Applied(results) : OwnsResult(e) /\ OwnsResult(f) => e = f
  PROVE  /\ StoreType' /\ Remembered'
         /\ \A e \in Ids : Done(e) => Done(e)'
         /\ \A k \in DOMAIN results :
              results[k].outcome \in {"applied", "obsolete"} => Done(results[k].cand)'
<1>1. PICK new, records :
        /\ new = {e \in Applied(results) : ~Absorbed(e)}
        /\ records = {e \in Applied(results) \ persisted : Recorded(e)}
        /\ effects' = [e \in Ids |-> IF e \in new THEN effects[e] + 1 ELSE effects[e]]
        /\ accepted' = accepted \cup {TurnOf(e) : e \in {e \in new : Event[e].kind = "accepted"}}
        /\ settled' = settled \cup {TurnOf(e) : e \in {e \in new : OwnsResult(e)}}
        /\ persisted' = {f \in persisted : ~\E e \in records : Replaces(e, f)} \cup records
  BY Zenon, CommitWrites
<1>2. obsolete' = obsolete \cup {results[k].cand : k \in {k \in DOMAIN results :
                                                          results[k].outcome = "obsolete"}}
  BY Zenon DEF Commit
<1>3. Applied(results) \in SUBSET Ids /\ new \in SUBSET Ids /\ records \in SUBSET Ids
  BY Zenon, <1>1, AppliedAreIds DEF Applied
<1>4. \A e \in Ids : /\ effects[e] \in Nat
                    /\ effects'[e] = IF e \in new THEN effects[e] + 1 ELSE effects[e]
  BY <1>1 DEF StoreType
<1>5. StoreType'
  <2>1. effects' \in [Ids -> Nat]
    BY <1>1, <1>4
  <2>2. persisted' \in SUBSET Ids /\ obsolete' \in SUBSET Ids
    BY Zenon, <1>1, <1>2, <1>3, AppliedAreIds DEF StoreType
  <2>3. accepted' \in SUBSET {TurnOf(e) : e \in Ids} /\ settled' \in SUBSET {TurnOf(e) : e \in Ids}
    BY Zenon, <1>1, <1>3 DEF StoreType
  <2>4. {TurnOf(e) : e \in Ids}' = {TurnOf(e) : e \in Ids}
    BY Zenon DEF TurnOf
  <2> QED BY Zenon, <2>1, <2>2, <2>3, <2>4 DEF StoreType
<1>6. /\ accepted \subseteq accepted' /\ settled \subseteq settled' /\ obsolete \subseteq obsolete'
      /\ \A e \in new : /\ Event[e].kind = "accepted" => TurnOf(e) \in accepted'
                        /\ OwnsResult(e) => TurnOf(e) \in settled'
  BY Zenon, <1>1, <1>2
<1>7. \A f \in persisted : Event[f].kind \in {"fact", "host", "usage"} => f \in persisted'
  BY <1>1, KeptRecords
<1>8. ASSUME NEW e \in Ids, Done(e)
      PROVE  Done(e)'
  <2>1. CASE effects[e] > 0
    BY <1>4, <2>1 DEF Done
  <2>2. CASE e \in obsolete
    BY <1>6, <2>2 DEF Done
  <2>3. CASE Absorbed(e) /\ OwnsResult(e)
    BY <1>6, <2>3 DEF Done, Absorbed, OwnsResult, TurnOf
  <2>4. CASE Absorbed(e) /\ Event[e].kind = "accepted"
    BY <1>6, <2>4 DEF Done, Absorbed, OwnsResult, TurnOf
  <2>5. CASE Absorbed(e) /\ Event[e].kind = "usage"
    <3>1. PICK f \in persisted : Event[f].kind = "usage" /\ e <= f /\ SameStream(e, f)
      BY <2>5 DEF Absorbed, OwnsResult
    <3>2. f \in persisted'
      BY <1>7, <3>1
    <3> QED BY <2>5, <3>1, <3>2 DEF Done, Absorbed, OwnsResult, SameStream
  <2>6. CASE Absorbed(e) /\ ~OfTurn(e) /\ Event[e].kind # "usage"
    <3>1. e \in persisted
      BY <2>6 DEF Absorbed, OfTurn
    <3> QED BY <2>1, <2>6, <3>1 DEF Remembered
  <2> QED BY <1>8, <2>1, <2>2, <2>3, <2>4, <2>5, <2>6 DEF Done, OfTurn
<1>9. ASSUME NEW k \in DOMAIN results, results[k].outcome \in {"applied", "obsolete"}
      PROVE  Done(results[k].cand)'
  <2>1. PICK e \in Ids : e = results[k].cand
    BY Zenon, AppliedAreIds
  <2>2. CASE results[k].outcome = "obsolete"
    BY <1>2, <2>1, <2>2 DEF Done
  <2>3. CASE results[k].outcome = "applied"
    <3>1. e \in Applied(results)
      BY Zenon, <2>1, <2>3 DEF Applied
    <3>2. CASE e \in new
      BY <1>4, <2>1, <3>2 DEF Done
    <3>3. CASE Absorbed(e)
      BY <1>8, <2>1, <3>3 DEF Done
    <3> QED BY <1>1, <3>1, <3>2, <3>3
  <2> QED BY <1>9, <2>2, <2>3
<1>10. ASSUME NEW e \in Ids
       PROVE  /\ (e \in persisted /\ ~OfTurn(e) => effects[e] > 0)'
              /\ (Event[e].kind \in {"fact", "host", "usage"} =>
                     effects[e] <= 1 /\ (effects[e] > 0 => e \in persisted))'
              /\ (Event[e].kind = "accepted" =>
                     effects[e] <= 1 /\ (effects[e] > 0 => TurnOf(e) \in accepted))'
              /\ (OwnsResult(e) => effects[e] <= 1 /\ (effects[e] > 0 => TurnOf(e) \in settled))'
  <2>1. ASSUME e \in persisted', ~OfTurn(e)
        PROVE  effects'[e] > 0
    <3>1. CASE e \in persisted
      BY <1>4, <2>1, <3>1 DEF Remembered
    <3>2. CASE e \in records
      <4>1. e \in new
        BY <1>1, <2>1, <3>2, EventsAreKnown DEF Recorded, OfTurn, OwnsResult
      <4> QED BY <1>4, <4>1
    <3> QED BY <1>1, <2>1, <3>1, <3>2
  <2>2. ASSUME Event[e].kind \in {"fact", "host", "usage"}
        PROVE  effects'[e] <= 1 /\ (effects'[e] > 0 => e \in persisted')
    <3>1. CASE e \in new
      <4>1. ~Absorbed(e) /\ e \in Applied(results)
        BY <1>1, <3>1
      <4>2. e \notin persisted
        BY <2>2, <4>1, IdsFacts DEF Absorbed, OwnsResult, SameStream
      <4>3. e \in persisted'
        BY <1>1, <2>2, <4>1, <4>2 DEF Recorded
      <4>4. effects[e] = 0
        BY <1>4, <2>2, <4>2 DEF Remembered
      <4> QED BY <1>4, <3>1, <4>3, <4>4
    <3>2. CASE e \notin new
      BY <1>4, <1>7, <2>2, <3>2 DEF Remembered
    <3> QED BY <3>1, <3>2
  <2>3. ASSUME Event[e].kind = "accepted"
        PROVE  effects'[e] <= 1 /\ (effects'[e] > 0 => TurnOf(e) \in accepted')
    <3>1. e \in new => TurnOf(e) \notin accepted
      BY <1>1, <2>3 DEF Absorbed, OwnsResult
    <3>2. effects[e] \in Nat /\ effects[e] <= 1 /\ (effects[e] > 0 => TurnOf(e) \in accepted)
      BY Zenon, <1>4, <2>3 DEF Remembered
    <3>3. CASE e \in new
      <4>1. TurnOf(e) \in accepted'
        BY Zenon, <1>6, <2>3, <3>3
      <4>2. effects'[e] = effects[e] + 1 /\ ~(effects[e] > 0)
        BY Zenon, <1>4, <3>1, <3>2, <3>3
      <4> QED BY <3>2, <4>1, <4>2
    <3>4. CASE e \notin new
      <4>1. effects'[e] = effects[e]
        BY Zenon, <1>4, <3>4
      <4>2. accepted \subseteq accepted'
        BY <1>6
      <4> QED BY Zenon, <3>2, <4>1, <4>2
    <3> QED BY Zenon, <3>3, <3>4
  <2>4. ASSUME OwnsResult(e)
        PROVE  effects'[e] <= 1 /\ (effects'[e] > 0 => TurnOf(e) \in settled')
    <3>1. e \in new => TurnOf(e) \notin settled
      BY <1>1, <2>4 DEF Absorbed, OwnsResult
    <3>2. effects[e] \in Nat /\ effects[e] <= 1 /\ (effects[e] > 0 => TurnOf(e) \in settled)
      BY Zenon, <1>4, <2>4 DEF Remembered
    <3>3. CASE e \in new
      <4>1. TurnOf(e) \in settled'
        BY Zenon, <1>6, <2>4, <3>3
      <4>2. effects'[e] = effects[e] + 1 /\ ~(effects[e] > 0)
        BY Zenon, <1>4, <3>1, <3>2, <3>3
      <4> QED BY <3>2, <4>1, <4>2
    <3>4. CASE e \notin new
      <4>1. effects'[e] = effects[e]
        BY Zenon, <1>4, <3>4
      <4>2. settled \subseteq settled'
        BY <1>6
      <4> QED BY Zenon, <3>2, <4>1, <4>2
    <3> QED BY Zenon, <3>3, <3>4
  <2> QED BY <2>1, <2>2, <2>3, <2>4 DEF OfTurn, OwnsResult, TurnOf
<1>11. ASSUME NEW e \in Ids, NEW f \in Ids, OwnsResult(e), OwnsResult(f), TurnOf(e) = TurnOf(f), e # f
       PROVE  effects'[e] = 0 \/ effects'[f] = 0
  <2>1. ASSUME NEW x \in Ids, NEW y \in Ids, OwnsResult(x), OwnsResult(y), TurnOf(x) = TurnOf(y),
               x # y, x \in new
        PROVE  effects'[y] = 0
    <3>1. y \notin new
      BY <1>1, <2>1
    <3>2. TurnOf(y) \notin settled
      BY <1>1, <2>1 DEF Absorbed, OwnsResult
    <3>3. effects[y] \in Nat /\ ~(effects[y] > 0)
      BY Zenon, <1>4, <2>1, <3>2 DEF Remembered
    <3>4. effects'[y] = effects[y]
      BY Zenon, <1>4, <2>1, <3>1
    <3> QED BY <3>3, <3>4
  <2>2. CASE e \notin new /\ f \notin new
    <3>1. effects[e] = 0 \/ effects[f] = 0
      BY Zenon, <1>11 DEF Remembered
    <3>2. effects'[e] = effects[e] /\ effects'[f] = effects[f]
      BY Zenon, <1>4, <2>2
    <3> QED BY Zenon, <3>1, <3>2
  <2> QED BY <1>11, <2>1, <2>2
<1>12. Remembered'
  BY <1>10, <1>11 DEF Remembered, OwnsResult, TurnOf
<1> QED BY <1>5, <1>8, <1>9, <1>12

(* A step that leaves the store alone leaves alone what is said of it. *)
LEMMA StoreStays ==
  ASSUME UNCHANGED store
  PROVE  /\ StoreType' = StoreType /\ Remembered' = Remembered
         /\ \A e \in Ids : Done(e)' = Done(e)
<1>1. UNCHANGED <<persisted, accepted, settled, effects, obsolete>>
  BY DEF store
<1>2. StoreType' = StoreType
  BY Zenon, <1>1 DEF StoreType, TurnOf
<1>3. Remembered' = Remembered
  BY Zenon, <1>1 DEF Remembered, OfTurn, OwnsResult, TurnOf
<1>4. \A e \in Ids : Done(e)' = Done(e)
  BY Zenon, <1>1 DEF Done, Absorbed, OwnsResult, TurnOf, SameStream
<1> QED BY <1>2, <1>3, <1>4

(* The store and the files only change as a step says: settlement is kept when nothing
   leaves the inbox. *)
LEMMA SettledStays ==
  ASSUME Types, AcknowledgedMeansSettled, UNCHANGED <<inbox, published>>,
         \A e \in Ids : Done(e) => Done(e)'
  PROVE  AcknowledgedMeansSettled'
BY DEF AcknowledgedMeansSettled, SameStream

(* Unlinking files of the first folded candidate leaves only settled events without one. *)
LEMMA UnlinkSettles ==
  ASSUME Types, Known, AcksAreTrue, AcknowledgedMeansSettled, drain.acks # <<>>,
         NEW gone \in SUBSET AckIds(Head(drain.acks)), inbox' = inbox \ gone,
         UNCHANGED <<store, published>>
  PROVE  AcknowledgedMeansSettled'
<1>1. PICK r : r = Head(drain.acks)
  OBVIOUS
<1>2. 1 \in DOMAIN drain.acks /\ drain.acks[1] = r /\ r \in [cand : Ids, outcome : Settlements]
  <2> DEFINE R == [cand : Ids, outcome : Settlements]
  <2>1. drain.acks \in Seq(R)
    BY DEF Types, DrainType
  <2> HIDE DEF R
  <2>2. 1 \in DOMAIN drain.acks /\ drain.acks[1] = r /\ r \in R
    BY <1>1, <2>1
  <2> QED BY <2>2 DEF R
<1>3. r.cand \in drain.listed /\ published[r.cand] > 0 /\ r.cand \in Ids
      /\ (r.outcome \in {"applied", "obsolete"} => Done(r.cand))
      /\ (r.outcome = "deferred" => r.cand \in Deferring)
  BY <1>2 DEF Known, AcksAreTrue
<1>4. ASSUME NEW e \in gone
      PROVE  \/ e = r.cand /\ r.outcome \in {"applied", "obsolete"}
             \/ StoodForBy(drain.listed, e, r.cand) /\ r.outcome # "blocked"
  <2>1. r.outcome \in Settlements
    BY <1>2
  <2>2. e \in AckIds(r)
    BY <1>1
  <2> QED BY <2>1, <2>2 DEF AckIds, Represented, Settlements
<1>5. ASSUME NEW e \in Ids, published[e] > 0, e \in gone
      PROVE  \/ Done(e)
             \/ /\ Event[e].kind = "activity"
                /\ \E f \in Ids : e < f /\ SameStream(e, f) /\ Event[f].kind = "activity" /\ Done(f)
  <2>1. CASE e = r.cand /\ r.outcome \in {"applied", "obsolete"}
    BY <1>3, <2>1
  <2>2. CASE StoodForBy(drain.listed, e, r.cand) /\ r.outcome # "blocked"
    <3>1. /\ e < r.cand /\ SameStream(e, r.cand)
          /\ Event[e].kind = "activity" /\ Event[r.cand].kind = "activity"
      BY <2>2 DEF StoodForBy
    <3>2. r.outcome \in {"applied", "obsolete"}
      BY <1>2, <1>3, <2>2, <3>1, EventsAreKnown DEF Settlements
    <3> QED BY <1>3, <3>1, <3>2
  <2> QED BY <1>4, <1>5, <2>1, <2>2
<1>6. \A e \in Ids : Done(e)' = Done(e)
  BY StoreStays
<1> QED BY <1>5, <1>6 DEF AcknowledgedMeansSettled, SameStream

-----------------------------------------------------------------------------
(* The steps *)

LEMMA InitHolds == Init => Inv
<1> SUFFICES ASSUME Init PROVE Inv
  OBVIOUS
<1>1. drain = Idle /\ drain \in DrainType /\ drain.todo = <<>> /\ drain.acks = <<>>
      /\ drain.listed = {} /\ drain.alone = 0
  BY DEF Init, Idle, DrainType
<1>2. Types
  BY <1>1, EventsAreKnown DEF Init, Types, StoreType
<1>3. Remembered
  BY DEF Init, Remembered
<1>4. Known /\ AcksAreTrue /\ Ordered
  BY <1>1, EventsAreKnown DEF Init, Known, AcksAreTrue, Ordered
<1>5. AcknowledgedMeansSettled
  BY EventsAreKnown DEF Init, AcknowledgedMeansSettled
<1> QED BY <1>2, <1>3, <1>4, <1>5 DEF Inv

(* An empty drain satisfies everything that is said of drains. *)
LEMMA IdleStep ==
  ASSUME Inv, drain' = Idle, cursor' \in Nat,
         UNCHANGED <<inbox, store, gate, published>>
  PROVE  Inv'
<1>1. drain' \in DrainType /\ drain'.todo = <<>> /\ drain'.acks = <<>>
      /\ drain'.listed = {} /\ drain'.alone = 0
  BY DEF Idle, DrainType
<1>2. Types' /\ Remembered'
  BY <1>1, StoreStays DEF Inv, Types
<1>3. Known' /\ AcksAreTrue' /\ Ordered'
  BY <1>1 DEF Inv, Known, AcksAreTrue, Ordered
<1>4. AcknowledgedMeansSettled'
  BY StoreStays, SettledStays DEF Inv
<1> QED BY <1>2, <1>3, <1>4 DEF Inv

(* The order and the results of a drain are kept while the same candidates and results are
   left and what is done stays done. *)
LEMMA DrainStays ==
  ASSUME Types, AcksAreTrue, Ordered, \A e \in Ids : Done(e) => Done(e)',
         drain'.listed = drain.listed, drain'.todo = drain.todo, drain.failed \subseteq drain'.failed
  PROVE  Ordered' /\ (drain'.acks = drain.acks => AcksAreTrue')
<1>1. \A f \in drain.listed : f \in Ids
  BY DEF Types, DrainType
<1>2. \A k \in DOMAIN drain.acks : drain.acks[k].cand \in Ids
  BY Zenon, AppliedAreIds DEF Types, DrainType
<1>3. \A f \in drain.listed : Passed(f) => Passed(f)'
  BY <1>1 DEF Passed
<1>4. Ordered'
  BY <1>3 DEF Ordered, Lane
<1>5. drain'.acks = drain.acks => AcksAreTrue'
  BY <1>2 DEF AcksAreTrue
<1> QED BY <1>4, <1>5

LEMMA PublishStep ==
  ASSUME Inv, NEW e \in Ids, Publish(e)
  PROVE  Inv'
<1>1. /\ published' \in [Ids -> Nat] /\ published'[e] > 0
      /\ \A f \in Ids : published[f] > 0 => published'[f] > 0
      /\ \A f \in Ids \ {e} : published'[f] = published[f]
  BY DEF Publish, Inv, Types
<1>2. inbox' = inbox \cup {e} /\ UNCHANGED <<store, gate, cursor, drain>>
  BY DEF Publish
<1>3. StoreType' /\ Remembered' /\ \A f \in Ids : Done(f)' = Done(f)
  BY <1>2, StoreStays DEF Inv, Types
<1>4. Types'
  BY <1>1, <1>2, <1>3 DEF Inv, Types
<1>5. drain.listed \in SUBSET Ids /\ inbox \in SUBSET Ids
  BY DEF Inv, Types, DrainType
<1>6. Known'
  BY <1>1, <1>2, <1>5 DEF Inv, Known
<1>7. AcksAreTrue' /\ Ordered'
  BY <1>2, <1>3, DrainStays DEF Inv
<1>8. AcknowledgedMeansSettled'
  BY <1>1, <1>2, <1>3 DEF Inv, AcknowledgedMeansSettled, SameStream
<1> QED BY <1>3, <1>4, <1>6, <1>7, <1>8 DEF Inv

(* A step that touches only gates, adoption and counters of disturbances. *)
LEMMA QuietStep ==
  ASSUME Inv, gate' \in [Tasks -> {"enabled", "stopped", "archived"}],
         UNCHANGED <<inbox, store, cursor, drain, published>>
  PROVE  Inv'
<1>1. Types' /\ Remembered' /\ \A e \in Ids : Done(e) => Done(e)'
  BY StoreStays DEF Inv, Types
<1>2. Known'
  BY DEF Inv, Known
<1>3. AcksAreTrue' /\ Ordered'
  BY <1>1, DrainStays DEF Inv
<1>4. AcknowledgedMeansSettled'
  BY <1>1, SettledStays DEF Inv
<1> QED BY <1>1, <1>2, <1>3, <1>4 DEF Inv

LEMMA ChangeGateStep ==
  ASSUME Inv, NEW t \in Tasks, NEW g \in {"enabled", "stopped", "archived"}, ChangeGate(t, g)
  PROVE  Inv'
<1>1. gate \in [Tasks -> {"enabled", "stopped", "archived"}]
  BY DEF Inv, Types
<1>2. gate' \in [Tasks -> {"enabled", "stopped", "archived"}]
  BY <1>1 DEF ChangeGate
<1>3. UNCHANGED <<inbox, store, cursor, drain, published>>
  BY DEF ChangeGate
<1> QED BY <1>2, <1>3, QuietStep

LEMMA StartDrainStep ==
  ASSUME Inv, StartDrain
  PROVE  Inv'
<1> DEFINE cands == Coalesced(inbox)
<1>1. PICK batch :
        /\ batch = SelectDrainBatch(cands, MaxPerDrain, Turns(cands, cursor))
        /\ drain' = [Idle EXCEPT !.on = TRUE, !.listed = inbox, !.todo = batch.candidates]
        /\ cursor' = batch.next
  BY Zenon DEF StartDrain, List
<1>2. inbox \in SUBSET Ids /\ cursor \in Nat
  BY DEF Inv, Types
<1>3. cands \in SUBSET inbox /\ \A f \in inbox \ cands : Event[f].kind = "activity"
  BY <1>2, CoalescedFacts
<1> HIDE DEF cands
<1>4. cands \in SUBSET Nat /\ IsFiniteSet(cands)
  BY Zenon, <1>2, <1>3, IdsFacts, FS_Subset
<1>5. batch.candidates \in Seq(cands) /\ batch.next \in Nat /\ TakenInOrder(cands, batch.candidates)
  <2>1. batch = SelectDrainBatch(cands, MaxPerDrain, Turns(cands, cursor))
    BY <1>1
  <2> QED BY <1>2, <1>4, <2>1, SelectFacts, DrainLimitIsPositive
<1>6. PICK todo : todo = batch.candidates
  OBVIOUS
<1>7. todo \in Seq(Ids) /\ Len(todo) \in Nat /\ DOMAIN todo = 1..Len(todo)
      /\ \A k \in DOMAIN todo : todo[k] \in cands
  BY <1>2, <1>3, <1>5, <1>6
<1>8. drain' = [on |-> TRUE, listed |-> inbox, todo |-> todo, alone |-> 0, peeked |-> FALSE,
                acks |-> <<>>, failed |-> {}]
  BY Zenon, <1>1, <1>6 DEF Idle
<1>9. drain' \in DrainType /\ drain'.todo = todo /\ drain'.acks = <<>> /\ drain'.listed = inbox
      /\ drain'.alone = 0
  BY <1>2, <1>7, <1>8 DEF DrainType
<1>10. UNCHANGED <<inbox, store, gate, published>> /\ cursor' \in Nat
  BY <1>1, <1>5 DEF StartDrain
<1>11. Types' /\ Remembered' /\ \A e \in Ids : Done(e) => Done(e)'
  BY <1>7, <1>9, <1>10, StoreStays DEF Inv, Types
<1>12. Known' /\ AcksAreTrue'
  <2>1. \A e \in inbox : published[e] > 0
    BY DEF Inv, Known
  <2>2. \A k \in DOMAIN todo : todo[k] \in inbox
    BY <1>3, <1>7
  <2>3. Known'
    BY <1>9, <1>10, <2>1, <2>2 DEF Known
  <2>4. AcksAreTrue'
    BY <1>9 DEF AcksAreTrue
  <2> QED BY <2>3, <2>4
<1>13. ASSUME NEW k \in DOMAIN todo, NEW f \in inbox, f < todo[k], Lane(f) = Lane(todo[k])
       PROVE  Event[f].kind = "activity" \/ \E j \in 1..(k - 1) : todo[j] = f
  BY <1>3, <1>5, <1>6, <1>13 DEF TakenInOrder
<1>14. Ordered'
  BY <1>9, <1>13 DEF Ordered, Passed, Lane
<1>15. AcknowledgedMeansSettled'
  BY <1>10, <1>11, SettledStays DEF Inv
<1> QED BY <1>11, <1>12, <1>14, <1>15 DEF Inv

(* A step of the drain that takes candidates off and leaves the inbox alone. *)
LEMMA FoldStep ==
  ASSUME Inv, Types', Remembered', NEW n \in 0..Len(drain.todo),
         drain'.listed = drain.listed,
         Len(drain'.todo) = Len(drain.todo) - n,
         \A k \in 1..Len(drain'.todo) : drain'.todo[k] = drain.todo[k + n],
         \A e \in Ids : Done(e) => Done(e)',
         drain.failed \subseteq drain'.failed,
         \A j \in 1..n, e \in Ids : e = drain.todo[j] =>
           Done(e)' \/ e \in Deferring \/ Lane(e) \in drain'.failed \/ Lane(e) = Global,
         AcksAreTrue', \A k \in DOMAIN drain'.acks : drain'.acks[k].cand \in drain.listed,
         UNCHANGED <<inbox, published>>
  PROVE  Inv'
<1>1. Ordered' /\ \A k \in DOMAIN drain'.todo : drain'.todo[k] \in drain'.listed
  BY Zenon, OrderStep DEF Inv
<1>2. Known'
  BY <1>1 DEF Inv, Known
<1>3. AcknowledgedMeansSettled'
  BY SettledStays DEF Inv
<1> QED BY <1>1, <1>2, <1>3 DEF Inv

LEMMA PeekTaskStep ==
  ASSUME Inv, PeekTask
  PROVE  Inv'
<1>1. /\ UNCHANGED <<inbox, gate, cursor, published>> /\ drain.acks = <<>> /\ Folding
  BY DEF PeekTask, Folding
<1>2. drain \in DrainType /\ drain.todo \in Seq(Ids) /\ Len(drain.todo) \in Nat \ {0}
      /\ Head(drain.todo) = drain.todo[1] /\ drain.todo[1] \in Ids /\ 1 \in DOMAIN drain.todo
  BY <1>1 DEF Inv, Types, DrainType, Folding
<1>3. PICK c : c = drain.todo[1]
  OBVIOUS
<1>4. c \in drain.listed /\ c \in Ids
  BY <1>2, <1>3 DEF Inv, Known
<1>5. PICK r : r = Rest(1)
  OBVIOUS
<1>6. /\ r \in DrainType /\ r.listed = drain.listed /\ r.acks = <<>> /\ r.failed = drain.failed
      /\ Len(r.todo) = Len(drain.todo) - 1
      /\ \A k \in 1..Len(r.todo) : r.todo[k] = drain.todo[k + 1]
      /\ r.alone <= Len(r.todo)
  BY <1>1, <1>2, <1>5, RestFacts DEF Inv
<1>7. CASE Blocked(c) /\ drain' = r /\ UNCHANGED store
  <2>1. Types' /\ Remembered' /\ \A e \in Ids : Done(e) => Done(e)'
    BY Zenon, <1>1, <1>6, <1>7, StoreStays DEF Inv, Types
  <2>2. AcksAreTrue' /\ DOMAIN drain'.acks = {}
    BY <1>6, <1>7 DEF AcksAreTrue
  <2>3. \A j \in 1..1, e \in Ids : e = drain.todo[j] => Lane(e) \in drain'.failed
    BY <1>3, <1>6, <1>7 DEF Blocked
  <2>4. 1 \in 0..Len(drain.todo)
    BY <1>2
  <2> QED BY <1>1, <1>6, <1>7, <2>1, <2>2, <2>3, <2>4, FoldStep
<1>8. CASE /\ drain' = [r EXCEPT !.acks = <<[cand |-> c, outcome |-> "obsolete"]>>]
           /\ Commit(<<[cand |-> c, outcome |-> "obsolete"]>>)
  <2>1. PICK results : results = <<[cand |-> c, outcome |-> "obsolete"]>>
    BY Zenon
  <2>2. results \in Seq([cand : Ids, outcome : Settlements]) /\ DOMAIN results = {1}
        /\ results[1].cand = c /\ results[1].outcome = "obsolete"
    BY <1>4, <2>1 DEF Settlements
  <2>3. /\ drain' \in DrainType /\ drain'.listed = r.listed /\ drain'.acks = results
        /\ drain'.failed = r.failed /\ drain'.todo = r.todo /\ drain'.alone = r.alone
    BY Zenon, <1>6, <1>8, <2>1, <2>2 DEF DrainType
  <2>4. Applied(results) = {}
    BY <2>2 DEF Applied
  <2>5. StoreType' /\ Remembered' /\ (\A e \in Ids : Done(e) => Done(e)') /\ Done(c)'
    <3>1. Commit(results)
      BY <1>8, <2>1
    <3>2. StoreType /\ Remembered
      BY DEF Inv, Types
    <3>3. /\ StoreType' /\ Remembered' /\ \A e \in Ids : Done(e) => Done(e)'
          /\ \A k \in DOMAIN results :
               results[k].outcome \in {"applied", "obsolete"} => Done(results[k].cand)'
      BY Zenon, <2>2, <2>4, <3>1, <3>2, CommitFacts
    <3>4. Done(results[1].cand)'
      BY <2>2, <3>3
    <3> QED BY <2>2, <3>3, <3>4
  <2>6. Types'
    BY <1>1, <1>6, <2>3, <2>5 DEF Inv, Types
  <2>7. AcksAreTrue' /\ \A k \in DOMAIN drain'.acks : drain'.acks[k].cand \in drain.listed
    BY <1>4, <2>2, <2>3, <2>5 DEF AcksAreTrue
  <2>8. 1 \in 0..Len(drain.todo) /\ \A j \in 1..1, e \in Ids : e = drain.todo[j] => Done(e)'
    BY <1>2, <1>3, <2>5
  <2> QED BY <1>1, <1>6, <2>3, <2>5, <2>6, <2>7, <2>8, FoldStep
<1>9. CASE drain' = [drain EXCEPT !.peeked = TRUE] /\ UNCHANGED store
  <2>1. /\ drain' \in DrainType /\ drain'.listed = drain.listed /\ drain'.acks = drain.acks
        /\ drain'.failed = drain.failed /\ drain'.todo = drain.todo /\ drain'.alone = drain.alone
    BY Zenon, <1>2, <1>9 DEF DrainType
  <2>2. Types' /\ Remembered' /\ \A e \in Ids : Done(e) => Done(e)'
    BY <1>1, <1>9, <2>1, StoreStays DEF Inv, Types
  <2>3. Known' /\ AcksAreTrue' /\ Ordered'
    BY <1>1, <2>1, <2>2, DrainStays DEF Inv, Known
  <2>4. AcknowledgedMeansSettled'
    BY <1>1, <2>2, SettledStays DEF Inv
  <2> QED BY <2>2, <2>3, <2>4 DEF Inv
<1>10. \/ Blocked(c) /\ drain' = r /\ UNCHANGED store
       \/ /\ drain' = [r EXCEPT !.acks = <<[cand |-> c, outcome |-> "obsolete"]>>]
          /\ Commit(<<[cand |-> c, outcome |-> "obsolete"]>>)
       \/ drain' = [drain EXCEPT !.peeked = TRUE] /\ UNCHANGED store
  BY <1>2, <1>3, <1>5 DEF PeekTask
<1> QED BY <1>7, <1>8, <1>9, <1>10

LEMMA FoldWaveStep ==
  ASSUME Inv, FoldWave
  PROVE  Inv'
<1>1. PICK wave, results :
        /\ wave = Wave /\ results = Outcomes(wave) /\ ~Throws(results) /\ Commit(results)
        /\ drain' = [Rest(Len(wave)) EXCEPT !.acks = results]
  BY DEF FoldWave
<1>2. Folding /\ UNCHANGED <<inbox, gate, cursor, published>>
  BY DEF FoldWave, CanFold
<1>3. /\ wave \in Seq(Ids) /\ Len(wave) \in 0..Len(drain.todo)
      /\ \A k \in 1..Len(wave) : wave[k] = drain.todo[k]
      /\ drain.alone > 0 => Len(wave) = 1
      /\ \A k \in 1..Len(wave) : \A j \in 1..(k - 1) :
           ~Blocked(drain.todo[j]) /\ ~Blocked(drain.todo[k]) =>
             ~OwnsResult(drain.todo[j]) /\ ~OwnsResult(drain.todo[k])
  BY <1>1, <1>2, WaveFacts DEF Inv
<1>4. PICK n \in 0..Len(drain.todo) : n = Len(wave)
  BY <1>3
<1>5. PICK r : r = Rest(n)
  OBVIOUS
<1>6. /\ r \in DrainType /\ r.listed = drain.listed /\ r.failed = drain.failed
      /\ Len(r.todo) = Len(drain.todo) - n
      /\ \A k \in 1..Len(r.todo) : r.todo[k] = drain.todo[k + n]
      /\ r.alone <= Len(r.todo)
  BY Zenon, <1>3, <1>4, <1>5, RestFacts DEF Inv
<1>7. drain.todo \in Seq(Ids) /\ Len(drain.todo) \in Nat /\ DOMAIN drain.todo = 1..Len(drain.todo)
  BY DEF Inv, Types, DrainType
<1>8. DOMAIN wave = 1..n /\ \A k \in 1..n : wave[k] = drain.todo[k] /\ wave[k] \in Ids
                                            /\ wave[k] \in drain.listed
  BY <1>3, <1>4, <1>7 DEF Inv, Known
<1>9. results = [k \in 1..n |-> [cand |-> wave[k], outcome |-> Outcome(wave[k])]]
  BY <1>1, <1>8 DEF Outcomes
<1>10. ASSUME NEW k \in 1..n
       PROVE  /\ results[k].cand = wave[k] /\ results[k].outcome = Outcome(wave[k])
              /\ Outcome(wave[k]) \in Settlements
              /\ results[k] \in [cand : Ids, outcome : Settlements]
  <2>1. results[k].cand = wave[k] /\ results[k].outcome = Outcome(wave[k])
    BY <1>9
  <2>2. Outcome(wave[k]) # "throws"
    BY <1>1, <1>9, <2>1 DEF Throws
  <2>3. Outcome(wave[k]) \in Settlements
    BY <1>8, <2>2, OutcomeFacts
  <2> QED BY <1>8, <1>9, <2>1, <2>3
<1>11. results \in Seq([cand : Ids, outcome : Settlements]) /\ DOMAIN results = 1..n
  <2> DEFINE R == [cand : Ids, outcome : Settlements]
  <2>1. \A k \in 1..n : results[k] \in R
    BY <1>10
  <2> HIDE DEF R
  <2>2. results \in Seq(R) /\ DOMAIN results = 1..n
    BY <1>9, <2>1
  <2> QED BY <2>2 DEF R
<1>12. ASSUME NEW e \in Applied(results), NEW f \in Applied(results), OwnsResult(e), OwnsResult(f)
       PROVE  e = f
  <2>1. PICK k \in 1..n : results[k].cand = e /\ results[k].outcome = "applied"
    BY <1>11 DEF Applied
  <2>2. PICK j \in 1..n : results[j].cand = f /\ results[j].outcome = "applied"
    BY <1>11 DEF Applied
  <2>3. /\ drain.todo[k] = e /\ drain.todo[j] = f /\ e \in Ids /\ f \in Ids
        /\ Outcome(e) = "applied" /\ Outcome(f) = "applied"
    BY <1>8, <1>10, <2>1, <2>2
  <2>4. ~Blocked(e) /\ ~Blocked(f)
    BY <2>3, OutcomeFacts
  <2>5. ~(j \in 1..(k - 1)) /\ ~(k \in 1..(j - 1))
    BY <1>3, <1>4, <1>12, <2>3, <2>4
  <2>6. j = k
    BY <2>5
  <2> QED BY <2>3, <2>6
<1>13. /\ StoreType' /\ Remembered' /\ \A e \in Ids : Done(e) => Done(e)'
       /\ \A k \in DOMAIN results :
            results[k].outcome \in {"applied", "obsolete"} => Done(results[k].cand)'
  <2>1. StoreType /\ Remembered
    BY DEF Inv, Types
  <2> QED BY Zenon, <1>1, <1>11, <1>12, <2>1, CommitFacts
<1>14. /\ drain' \in DrainType /\ drain'.listed = r.listed /\ drain'.acks = results
       /\ drain'.failed = r.failed /\ drain'.todo = r.todo /\ drain'.alone = r.alone
  BY Zenon, <1>1, <1>4, <1>5, <1>6, <1>11 DEF DrainType
<1>15. Types'
  BY Zenon, <1>2, <1>6, <1>13, <1>14 DEF Inv, Types
<1>16. AcksAreTrue' /\ \A k \in DOMAIN drain'.acks : drain'.acks[k].cand \in drain.listed
  <2>1. \A k \in 1..n : results[k].outcome = "deferred" => results[k].cand \in Deferring
    BY <1>8, <1>10, OutcomeFacts
  <2> QED BY <1>8, <1>10, <1>11, <1>13, <1>14, <2>1 DEF AcksAreTrue
<1>17. ASSUME NEW j \in 1..n, NEW e \in Ids, e = drain.todo[j]
       PROVE  Done(e)' \/ e \in Deferring \/ Lane(e) \in drain'.failed
  <2>1. wave[j] \in Ids /\ wave[j] = e
    BY <1>8, <1>17
  <2>2. /\ Outcome(wave[j]) = "deferred" => wave[j] \in Deferring
        /\ Outcome(wave[j]) = "blocked" => Lane(wave[j]) \in drain.failed
        /\ Outcome(wave[j]) \in {"applied", "obsolete", "deferred", "blocked"}
    BY <1>10, <2>1, OutcomeFacts DEF Blocked, Settlements
  <2>3. Outcome(e) \in {"applied", "obsolete"} => Done(e)'
    <3>1. results[j].cand = e /\ results[j].outcome = Outcome(e) /\ j \in DOMAIN results
      BY <1>10, <1>11, <2>1
    <3> QED BY Zenon, <1>13, <3>1
  <2> QED BY <1>6, <1>14, <2>1, <2>2, <2>3
<1> QED BY Zenon, <1>2, <1>6, <1>13, <1>14, <1>15, <1>16, <1>17, FoldStep

LEMMA FoldThrowsStep ==
  ASSUME Inv, FoldThrows
  PROVE  Inv'
<1>1. PICK wave, open :
        /\ wave = Wave /\ open = {c \in Range(wave) : ~Blocked(c)}
        /\ \/ drain' = [drain EXCEPT !.alone = Len(wave)]
           \/ drain' = Fail(Rest(Len(wave)), open)
  BY Zenon DEF FoldThrows
<1>2. Folding /\ drain.acks = <<>>
      /\ UNCHANGED <<inbox, store, gate, cursor, published>>
  BY DEF FoldThrows, CanFold, Folding
<1>3. StoreType' /\ Remembered' /\ \A e \in Ids : Done(e) => Done(e)'
  BY <1>2, StoreStays DEF Inv, Types
<1>4. /\ wave \in Seq(Ids) /\ Len(wave) \in 0..Len(drain.todo)
      /\ \A k \in 1..Len(wave) : wave[k] = drain.todo[k]
      /\ drain.alone > 0 => Len(wave) = 1
  BY <1>1, <1>2, WaveFacts DEF Inv
<1>5. PICK n \in 0..Len(drain.todo) : n = Len(wave)
  BY <1>4
<1>6. drain \in DrainType /\ Len(drain.todo) \in Nat
  BY DEF Inv, Types, DrainType
<1>7. CASE drain' = [drain EXCEPT !.alone = n]
  <2>1. /\ drain' \in DrainType /\ drain'.listed = drain.listed /\ drain'.acks = drain.acks
        /\ drain'.failed = drain.failed /\ drain'.todo = drain.todo /\ drain'.alone = n
    BY <1>6, <1>7 DEF DrainType
  <2>2. Types'
    BY <1>2, <1>3, <1>6, <2>1 DEF Inv, Types
  <2>3. Known' /\ AcksAreTrue' /\ Ordered'
    BY <1>2, <1>3, <2>1, DrainStays DEF Inv, Known
  <2>4. AcknowledgedMeansSettled'
    BY <1>2, <1>3, SettledStays DEF Inv
  <2> QED BY <1>3, <2>2, <2>3, <2>4 DEF Inv
<1>8. CASE drain' = Fail(Rest(n), open)
  <2>1. PICK r : r = Rest(n)
    OBVIOUS
  <2>2. /\ r \in DrainType /\ r.listed = drain.listed /\ r.acks = <<>> /\ r.failed = drain.failed
        /\ Len(r.todo) = Len(drain.todo) - n
        /\ \A k \in 1..Len(r.todo) : r.todo[k] = drain.todo[k + n]
        /\ r.alone <= Len(r.todo)
    BY Zenon, <1>2, <1>4, <1>5, <2>1, RestFacts DEF Inv
  <2>3. PICK more : more = {Lane(c) : c \in open} \ {Global}
    BY Zenon
  <2>4. open \in SUBSET Ids
    BY <1>1, <1>4 DEF Range
  <2>5. more \in SUBSET Tasks
    BY <2>3, <2>4 DEF Tasks, Lane
  <2>6. drain' = [r EXCEPT !.failed = @ \cup more]
    BY <1>8, <2>1, <2>3 DEF Fail
  <2>7. /\ drain' \in DrainType /\ drain'.listed = r.listed /\ drain'.acks = r.acks
        /\ drain'.failed = r.failed \cup more /\ drain'.todo = r.todo /\ drain'.alone = r.alone
    BY Zenon, <2>2, <2>5, <2>6 DEF DrainType
  <2>8. Types'
    BY Zenon, <1>2, <1>3, <2>2, <2>7 DEF Inv, Types
  <2>9. AcksAreTrue' /\ DOMAIN drain'.acks = {}
    BY <2>2, <2>7 DEF AcksAreTrue
  <2>10. ASSUME NEW j \in 1..n, NEW e \in Ids, e = drain.todo[j]
         PROVE  Lane(e) \in drain'.failed \/ Lane(e) = Global
    <3>1. wave[j] = e /\ j \in DOMAIN wave
      BY <1>4, <1>5, <2>10
    <3>2. wave[j] \in Range(wave)
      BY <3>1 DEF Range
    <3>3. CASE Blocked(wave[j])
      BY <2>2, <2>7, <3>1, <3>3 DEF Blocked
    <3>4. CASE ~Blocked(wave[j])
      BY <1>1, <2>3, <2>7, <3>1, <3>2, <3>4
    <3> QED BY <3>3, <3>4
  <2> QED BY Zenon, <1>2, <1>3, <2>2, <2>7, <2>8, <2>9, <2>10, FoldStep
<1> QED BY <1>1, <1>5, <1>7, <1>8

(* Files are unlinked, and what stays to be unlinked is one result less. *)
LEMMA UnlinkStep ==
  ASSUME Inv, drain.acks # <<>>, drain' \in DrainType, drain'.listed = drain.listed,
         drain'.todo = drain.todo, drain'.alone = drain.alone, drain'.acks = Tail(drain.acks),
         drain.failed \subseteq drain'.failed,
         NEW gone \in SUBSET AckIds(Head(drain.acks)), inbox' = inbox \ gone,
         UNCHANGED <<store, gate, cursor, published>>
  PROVE  Inv'
<1>1. Types' /\ Remembered' /\ \A e \in Ids : Done(e)' = Done(e)
  BY StoreStays DEF Inv, Types
<1>2. drain.acks \in Seq([cand : Ids, outcome : Settlements])
  BY DEF Inv, Types, DrainType
<1>3. \A k \in DOMAIN drain'.acks : k + 1 \in DOMAIN drain.acks /\ drain'.acks[k] = drain.acks[k + 1]
  <2> DEFINE R == [cand : Ids, outcome : Settlements]
  <2>1. drain.acks \in Seq(R)
    BY <1>2
  <2> HIDE DEF R
  <2> QED BY <2>1
<1>4. Known' /\ AcksAreTrue'
  <2>1. \A k \in DOMAIN drain.acks : drain.acks[k].cand \in Ids
    BY Zenon, <1>2, AppliedAreIds
  <2> QED BY <1>1, <1>3, <2>1 DEF Inv, Known, AcksAreTrue
<1>5. Ordered'
  BY <1>1, DrainStays DEF Inv
<1>6. AcknowledgedMeansSettled'
  BY UnlinkSettles DEF Inv
<1> QED BY <1>1, <1>4, <1>5, <1>6 DEF Inv

LEMMA AcknowledgeStep ==
  ASSUME Inv, Acknowledge
  PROVE  Inv'
<1>1. drain \in DrainType /\ drain.acks \in Seq([cand : Ids, outcome : Settlements])
      /\ drain.acks # <<>> /\ drain' = [drain EXCEPT !.acks = Tail(drain.acks)]
  BY DEF Inv, Types, DrainType, Acknowledge
<1>2. Tail(drain.acks) \in Seq([cand : Ids, outcome : Settlements])
  <2> DEFINE R == [cand : Ids, outcome : Settlements]
  <2>1. drain.acks \in Seq(R)
    BY <1>1
  <2> HIDE DEF R
  <2>2. Tail(drain.acks) \in Seq(R)
    BY <1>1, <2>1
  <2> QED BY <2>2 DEF R
<1>3. /\ drain' \in DrainType /\ drain'.listed = drain.listed /\ drain'.acks = Tail(drain.acks)
      /\ drain'.failed = drain.failed /\ drain'.todo = drain.todo /\ drain'.alone = drain.alone
  BY Zenon, <1>1, <1>2 DEF DrainType
<1>4. inbox' = inbox \ AckIds(Head(drain.acks)) /\ UNCHANGED <<store, gate, cursor, published>>
  BY DEF Acknowledge
<1> QED BY Zenon, <1>1, <1>3, <1>4, UnlinkStep

LEMMA AcknowledgeThrowsStep ==
  ASSUME Inv, AcknowledgeThrows
  PROVE  Inv'
<1>1. drain \in DrainType /\ drain.acks \in Seq([cand : Ids, outcome : Settlements])
      /\ drain.acks # <<>>
  BY DEF Inv, Types, DrainType, AcknowledgeThrows
<1>2. PICK r, a : r = Head(drain.acks) /\ a = Tail(drain.acks)
  BY Zenon
<1>3. a \in Seq([cand : Ids, outcome : Settlements]) /\ r.cand \in Ids
  <2> DEFINE R == [cand : Ids, outcome : Settlements]
  <2>1. drain.acks \in Seq(R)
    BY <1>1
  <2>2. \A x \in R : x.cand \in Ids
    OBVIOUS
  <2> HIDE DEF R
  <2>3. a \in Seq(R) /\ r \in R
    BY <1>1, <1>2, <2>1
  <2>4. r.cand \in Ids
    BY <2>2, <2>3
  <2> QED BY <2>3, <2>4 DEF R
<1>4. PICK gone \in SUBSET AckIds(r) :
        inbox' = inbox \ gone /\ drain' = Fail([drain EXCEPT !.acks = a], {r.cand})
  BY Zenon, <1>2 DEF AcknowledgeThrows
<1>5. PICK d : d = [drain EXCEPT !.acks = a]
  BY Zenon
<1>6. d \in DrainType /\ d.listed = drain.listed /\ d.acks = a /\ d.failed = drain.failed
      /\ d.todo = drain.todo /\ d.alone = drain.alone
  BY Zenon, <1>1, <1>3, <1>5 DEF DrainType
<1>7. PICK more : more = {Lane(c) : c \in {r.cand}} \ {Global}
  BY Zenon
<1>8. more \in SUBSET Tasks
  BY <1>3, <1>7 DEF Tasks, Lane
<1>9. drain' = [d EXCEPT !.failed = @ \cup more]
  BY <1>4, <1>5, <1>7 DEF Fail
<1>10. /\ drain' \in DrainType /\ drain'.listed = d.listed /\ drain'.acks = d.acks
       /\ drain'.failed = d.failed \cup more /\ drain'.todo = d.todo /\ drain'.alone = d.alone
  BY Zenon, <1>6, <1>8, <1>9 DEF DrainType
<1>11. UNCHANGED <<store, gate, cursor, published>>
  BY DEF AcknowledgeThrows
<1> QED BY Zenon, <1>1, <1>2, <1>4, <1>6, <1>10, <1>11, UnlinkStep

LEMMA NextStep ==
  ASSUME Inv, [Next]_vars
  PROVE  Inv'
<1>1. CASE UNCHANGED vars \/ AdoptSession
  <2>1. UNCHANGED <<inbox, store, gate, cursor, drain, published>>
    BY <1>1 DEF vars, AdoptSession, store
  <2>2. gate' \in [Tasks -> {"enabled", "stopped", "archived"}]
    BY <2>1 DEF Inv, Types
  <2> QED BY <2>1, <2>2, QuietStep
<1>2. CASE EndDrain \/ Crash
  <2>1. drain' = Idle /\ UNCHANGED <<inbox, store, gate, published>> /\ cursor' \in {cursor, 0}
    BY <1>2 DEF EndDrain, Crash
  <2>2. cursor \in Nat
    BY DEF Inv, Types
  <2> QED BY <2>1, <2>2, IdleStep
<1> QED BY <1>1, <1>2, PublishStep, ChangeGateStep, StartDrainStep, PeekTaskStep,
           FoldWaveStep, FoldThrowsStep, AcknowledgeStep, AcknowledgeThrowsStep DEF Next

(* The drain keeps its invariant under every step of the producers, of other processes, of
   both processors, of failing folds and unlinks and of restarts. *)
THEOREM Invariance == Spec => []Inv
<1>1. Inv /\ [Next]_vars => Inv'
  BY NextStep
<1> QED BY <1>1, InitHolds, PTL DEF Spec

(* The inbox, the records of the store and the running drain keep their shapes; a failed
   wave leaves no more to fold alone than there are candidates. *)
THEOREM ShapesAreKept == Spec => []TypeOK
<1>1. Inv => TypeOK
  BY DEF Inv, Types, StoreType, DrainType, TypeOK
<1> QED BY <1>1, Invariance, PTL

(* A fact changes the aggregate at most once and a Turn gets one result, over crashes and
   failed unlinks between commit and acknowledgement, over republication, over two
   reporters of one boundary and over the compaction of records. *)
THEOREM AtMostOneEffect == Spec => []EffectAtMostOnce
<1>1. Inv => EffectAtMostOnce
  BY EventsAreKnown DEF Inv, Remembered, EffectAtMostOnce, Kinds, Boundaries, OwnsResult
<1> QED BY <1>1, Invariance, PTL

(* A file goes only when its event is done or a later progress event of its stream is:
   nothing published is lost to a crash, a failed unlink or a deferral. *)
THEOREM FilesOutliveTheirEvents == Spec => []AcknowledgedMeansSettled
<1>1. Inv => AcknowledgedMeansSettled
  BY DEF Inv
<1> QED BY <1>1, Invariance, PTL

(* An event takes effect only when every earlier event of its Task that the drain listed is
   done, progress, or waiting for its Session: the turns of the selection, the waves and
   the Tasks marked as failed keep the order together. *)
THEOREM TaskOrderHolds == Spec => TaskOrderIsKept
<1> DEFINE InOrder == \A e \in Ids : TakesEffect(e) /\ Event[e].task # Global =>
                        \A f \in drain.listed : f < e /\ Event[f].task = Event[e].task =>
                          Done(f) \/ f \in Deferring \/ Event[f].kind = "activity"
<1>1. ASSUME Inv, [Next]_vars PROVE InOrder
  <2> SUFFICES ASSUME NEW e \in Ids, NEW f \in drain.listed, TakesEffect(e),
                      f < e, Lane(f) = Lane(e), Lane(e) # Global, ~Passed(f)
               PROVE  FALSE
    BY DEF Lane, Passed
  <2>1. ~UNCHANGED store
    BY DEF store, TakesEffect
  <2>2. CASE PeekTask
    <3>1. PICK c : Commit(<<[cand |-> c, outcome |-> "obsolete"]>>)
      BY Zenon, <2>1, <2>2 DEF PeekTask
    <3> DEFINE results == <<[cand |-> c, outcome |-> "obsolete"]>>
    <3>2. \A k \in DOMAIN results : results[k].outcome # "applied"
      OBVIOUS
    <3> QED BY <3>1, <3>2, AppliedFacts
  <2>3. CASE FoldWave
    <3>1. PICK wave : wave = Wave /\ Commit(Outcomes(wave)) /\ Folding
      BY <2>3 DEF FoldWave, CanFold
    <3>2. PICK k \in DOMAIN Outcomes(wave) :
            Outcomes(wave)[k].cand = e /\ Outcomes(wave)[k].outcome = "applied"
      BY <3>1, AppliedFacts
    <3>3. /\ wave \in Seq(Ids) /\ Len(wave) \in 0..Len(drain.todo)
          /\ \A i \in 1..Len(wave) : wave[i] = drain.todo[i]
          /\ \A i \in 1..Len(wave) : \A j \in 1..(i - 1) :
               ~Blocked(drain.todo[j]) /\ ~Blocked(drain.todo[i]) =>
                 (Lane(drain.todo[j]) = Lane(drain.todo[i]) => Lane(drain.todo[i]) = Global)
      BY <1>1, <3>1, WaveFacts DEF Inv
    <3>4. k \in DOMAIN wave /\ wave[k] = e /\ Outcome(e) = "applied"
      BY <3>2 DEF Outcomes
    <3>5. k \in 1..Len(wave) /\ k \in DOMAIN drain.todo /\ drain.todo[k] = e /\ e \in Ids
      <4>1. DOMAIN drain.todo = 1..Len(drain.todo) /\ Len(drain.todo) \in Nat
        BY <1>1 DEF Inv, Types, DrainType
      <4>2. DOMAIN wave = 1..Len(wave) /\ Len(wave) \in 0..Len(drain.todo) /\ wave[k] \in Ids
        BY <3>3, <3>4
      <4>3. k \in 1..Len(wave) /\ wave[k] = drain.todo[k]
        BY <3>3, <3>4, <4>2
      <4> QED BY <3>4, <4>1, <4>2, <4>3
    <3>6. ~Blocked(e)
      BY <3>4, <3>5, OutcomeFacts
    <3>7. ~Blocked(f) /\ Lane(f) \notin drain.failed
      BY <3>6 DEF Blocked
    <3>8. PICK j \in 1..(k - 1) : drain.todo[j] = f
      BY <1>1, <3>5, <3>7 DEF Inv, Ordered
    <3> QED BY <3>3, <3>5, <3>6, <3>7, <3>8
  <2> QED BY <1>1, <2>1, <2>2, <2>3, StoreSteps
<1>2. Inv /\ [Next]_vars => [InOrder]_vars
  BY <1>1
<1> QED BY <1>2, Invariance, PTL DEF Spec, TaskOrderIsKept

=============================================================================
