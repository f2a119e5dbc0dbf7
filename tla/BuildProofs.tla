----------------------------- MODULE BuildProofs -----------------------------
(***************************************************************************)
(* What topo_sort returns for every plan: each slice once and, unless the  *)
(* slices depend on each other in a circle, after those it depends on.     *)
(*                                                                         *)
(* TopoSort and Among are recursive functions.  That they are defined, and *)
(* what they return, is shown by induction: the numbers, or the sizes of   *)
(* the sets, for which the claim fails would have a least one.             *)
(***************************************************************************)
EXTENDS BuildStage, TLAPS, FiniteSetTheorems, WellFoundedInduction

(* A set of numbers has a least one.                                       *)
LEMMA LeastOf ==
    ASSUME NEW N \in SUBSET Nat, N # {}
    PROVE  \E n \in N : \A k \in N : n <= k
<1> DEFINE R == OpToRel(<, Nat)
<1>1. PICK n \in N : \A k \in N : ~(<<k, n>> \in R)
    <2> HIDE DEF R
    <2>1. IsWellFoundedOn(R, Nat)
        BY NatLessThanWellFounded DEF R
    <2> QED BY <2>1, WFMin
<1>2. \A k \in N : ~(k < n)
    BY <1>1 DEF OpToRel
<1> QED BY <1>2

-----------------------------------------------------------------------------
(* Sequences without repetition.                                           *)

Distinct(s) == \A i, j \in DOMAIN s : s[i] = s[j] => i = j

LEMMA Appended ==
    ASSUME NEW E, NEW s \in Seq(E), NEW e \in E
    PROVE  /\ Append(s, e) \in Seq(E)
           /\ ToSet(Append(s, e)) = ToSet(s) \cup {e}
           /\ Distinct(s) /\ e \notin ToSet(s) => Distinct(Append(s, e))
<1> DEFINE t == Append(s, e)
           n == Len(s) + 1
<1>1. /\ t \in Seq(E) /\ DOMAIN t = DOMAIN s \cup {n} /\ n \notin DOMAIN s
      /\ t[n] = e /\ \A i \in DOMAIN s : t[i] = s[i]
    OBVIOUS
<1> HIDE DEF t, n
<1>2. ToSet(t) = ToSet(s) \cup {e}
    BY <1>1 DEF ToSet
<1>3. Distinct(s) /\ e \notin ToSet(s) => Distinct(t)
    BY <1>1 DEF ToSet, Distinct
<1> QED BY <1>1, <1>2, <1>3 DEF t

LEMMA Joined ==
    ASSUME NEW E, NEW s \in Seq(E), NEW t \in Seq(E)
    PROVE  /\ s \o t \in Seq(E) /\ Len(s \o t) = Len(s) + Len(t)
           /\ \A i \in DOMAIN s : i \in DOMAIN (s \o t) /\ (s \o t)[i] = s[i]
           /\ \A i \in DOMAIN t :
                 Len(s) + i \in DOMAIN (s \o t) /\ (s \o t)[Len(s) + i] = t[i]
           /\ \A k \in DOMAIN (s \o t) :
                 k \in DOMAIN s \/ \E i \in DOMAIN t : k = Len(s) + i
           /\ ToSet(s \o t) = ToSet(s) \cup ToSet(t)
           /\ Distinct(s) /\ Distinct(t) /\ ToSet(s) \cap ToSet(t) = {}
                  => Distinct(s \o t)
<1> DEFINE u == s \o t
<1>1. /\ u \in Seq(E) /\ Len(u) = Len(s) + Len(t)
      /\ DOMAIN u = 1 .. Len(s) + Len(t)
      /\ DOMAIN s = 1 .. Len(s) /\ DOMAIN t = 1 .. Len(t)
      /\ Len(s) \in Nat /\ Len(t) \in Nat
    OBVIOUS
<1>2. \A i \in DOMAIN s : i \in DOMAIN u /\ u[i] = s[i]
    BY <1>1
<1>3. \A i \in DOMAIN t : Len(s) + i \in DOMAIN u /\ u[Len(s) + i] = t[i]
    <2> SUFFICES ASSUME NEW i \in DOMAIN t
                 PROVE  Len(s) + i \in DOMAIN u /\ u[Len(s) + i] = t[i]
        OBVIOUS
    <2>1. i \in 1 .. Len(t) /\ Len(s) + i \in 1 .. Len(s) + Len(t) /\ Len(s) + i > Len(s)
        BY <1>1
    <2>2. (Len(s) + i) - Len(s) = i
        BY <1>1, <2>1
    <2>3. u[Len(s) + i] = t[(Len(s) + i) - Len(s)]
        BY <2>1
    <2> QED BY <1>1, <2>1, <2>2, <2>3
<1>4. \A k \in DOMAIN u : k \in DOMAIN s \/ \E i \in DOMAIN t : k = Len(s) + i
    <2> SUFFICES ASSUME NEW k \in DOMAIN u, k \notin DOMAIN s
                 PROVE  \E i \in DOMAIN t : k = Len(s) + i
        OBVIOUS
    <2>1. k - Len(s) \in 1 .. Len(t) /\ k = Len(s) + (k - Len(s))
        BY <1>1
    <2> QED BY <1>1, <2>1
<1> HIDE DEF u
<1>5. ToSet(u) = ToSet(s) \cup ToSet(t)
    BY <1>2, <1>3, <1>4 DEF ToSet
<1>6. ASSUME Distinct(s), Distinct(t), ToSet(s) \cap ToSet(t) = {}
      PROVE  Distinct(u)
    <2> SUFFICES ASSUME NEW k \in DOMAIN u, NEW l \in DOMAIN u, u[k] = u[l] PROVE k = l
        BY DEF Distinct
    <2>1. CASE k \in DOMAIN s /\ l \in DOMAIN s
        BY <1>2, <1>6, <2>1 DEF Distinct
    <2>2. CASE k \notin DOMAIN s /\ l \notin DOMAIN s
        <3>1. PICK i \in DOMAIN t, j \in DOMAIN t : k = Len(s) + i /\ l = Len(s) + j
            BY <1>4, <2>2
        <3>2. t[i] = t[j]
            BY <1>3, <3>1
        <3>3. i = j
            BY <1>6, <3>2 DEF Distinct
        <3> QED BY <3>1, <3>3
    <2>3. ASSUME NEW i \in DOMAIN s, NEW j \in DOMAIN t PROVE u[i] # u[Len(s) + j]
        <3>1. s[i] \in ToSet(s) /\ t[j] \in ToSet(t)
            BY DEF ToSet
        <3> QED BY <1>2, <1>3, <1>6, <3>1
    <2>4. k \in DOMAIN s <=> l \in DOMAIN s
        BY <1>4, <2>3
    <2> QED BY <2>1, <2>2, <2>3, <2>4
<1> QED BY <1>1, <1>2, <1>3, <1>4, <1>5, <1>6 DEF u

-----------------------------------------------------------------------------
(* The elements of a sequence that are in a set.                           *)

Kept(s, S) ==
    CHOOSE kept : kept = [n \in 0 .. Len(s) |->
        IF n = 0 THEN <<>>
        ELSE IF s[n] \in S THEN Append(kept[n - 1], s[n])
        ELSE kept[n - 1]]

LEMMA KeptDefined ==
    ASSUME NEW E, NEW s \in Seq(E), NEW S
    PROVE  /\ Kept(s, S) = [n \in 0 .. Len(s) |->
                  IF n = 0 THEN <<>>
                  ELSE IF s[n] \in S THEN Append(Kept(s, S)[n - 1], s[n])
                  ELSE Kept(s, S)[n - 1]]
           /\ Among(s, S) = Kept(s, S)[Len(s)]
<1> DEFINE More(v, n) == IF s[n] \in S THEN Append(v, s[n]) ELSE v
           Solves(f, m) == f = [n \in 0 .. m |-> IF n = 0 THEN <<>> ELSE More(f[n - 1], n)]
           Unsolved == {m \in Nat : ~\E f : Solves(f, m)}
<1>1. Unsolved = {}
    <2> SUFFICES ASSUME Unsolved # {} PROVE FALSE
        OBVIOUS
    <2>1. PICK m \in Unsolved : \A k \in Unsolved : m <= k
        <3>1. Unsolved \in SUBSET Nat
            OBVIOUS
        <3> HIDE DEF Unsolved
        <3> QED BY <3>1, LeastOf
    <2>2. m \in Nat /\ ~\E f : Solves(f, m)
        BY <2>1
    <2>3. CASE m = 0
        <3>1. Solves([n \in 0 .. 0 |-> <<>>], 0)
            OBVIOUS
        <3> QED BY <2>2, <2>3, <3>1
    <2>4. CASE m # 0
        <3>1. m - 1 \in Nat /\ m - 1 \notin Unsolved
            <4>1. m - 1 \in Nat /\ ~(m <= m - 1)
                BY <2>2, <2>4
            <4> HIDE DEF Unsolved
            <4> QED BY <2>1, <4>1
        <3>2. PICK f : Solves(f, m - 1)
            BY <3>1
        <3> DEFINE g == [n \in 0 .. m |-> IF n = 0 THEN <<>> ELSE More(f[n - 1], n)]
        <3> HIDE DEF More
        <3>3. \A n \in 0 .. m - 1 : g[n] = f[n]
            BY <2>2, <3>1, <3>2
        <3>4. \A n \in 1 .. m : n - 1 \in 0 .. m - 1 /\ g[n] = More(f[n - 1], n)
            BY <2>2, <3>1
        <3>5. \A n \in 1 .. m : g[n] = More(g[n - 1], n)
            BY <3>3, <3>4
        <3>6. g = [n \in 0 .. m |-> IF n = 0 THEN <<>> ELSE More(g[n - 1], n)]
            <4>1. \A n \in 0 .. m : n = 0 \/ n \in 1 .. m
                BY <2>2
            <4> QED BY <2>2, <3>5, <4>1
        <3> HIDE DEF g
        <3> QED BY <2>2, <3>6
    <2> QED BY <2>3, <2>4
<1>2. \E f : Solves(f, Len(s))
    BY <1>1
<1>3. Kept(s, S) = CHOOSE f : Solves(f, Len(s))
    BY DEF Kept
<1>4. Solves(Kept(s, S), Len(s))
    <2> HIDE DEF Solves
    <2> QED BY <1>2, <1>3
<1>5. Among(s, S) = Kept(s, S)[Len(s)]
    BY DEF Among, Kept
<1> QED BY <1>4, <1>5

LEMMA AmongHas ==
    ASSUME NEW E, NEW s \in Seq(E), NEW S
    PROVE  /\ Among(s, S) \in Seq(E)
           /\ ToSet(Among(s, S)) = ToSet(s) \cap S
           /\ Distinct(s) => Distinct(Among(s, S))
<1> DEFINE kept == Kept(s, S)
           Holds(n) ==
               /\ kept[n] \in Seq(E)
               /\ ToSet(kept[n]) = {s[i] : i \in 1 .. n} \cap S
               /\ Distinct(s) => Distinct(kept[n])
           Fails == {n \in 0 .. Len(s) : ~Holds(n)}
<1>0. /\ Len(s) \in Nat /\ DOMAIN s = 1 .. Len(s)
      /\ \A n \in 1 .. Len(s) : s[n] \in E
    OBVIOUS
<1>1. /\ kept[0] = <<>>
      /\ \A n \in 1 .. Len(s) :
            kept[n] = IF s[n] \in S THEN Append(kept[n - 1], s[n]) ELSE kept[n - 1]
    <2>1. kept = [n \in 0 .. Len(s) |->
              IF n = 0 THEN <<>>
              ELSE IF s[n] \in S THEN Append(kept[n - 1], s[n])
              ELSE kept[n - 1]]
        BY KeptDefined
    <2>2. 0 \in 0 .. Len(s) /\ \A n \in 1 .. Len(s) : n \in 0 .. Len(s) /\ n # 0
        BY <1>0
    <2> HIDE DEF kept
    <2> QED BY <2>1, <2>2
<1> HIDE DEF kept
<1>2. Holds(0)
    <2>1. <<>> \in Seq(E) /\ ToSet(<<>>) = {} /\ Distinct(<<>>)
        BY DEF ToSet, Distinct
    <2> QED BY <1>1, <2>1
<1>3. ASSUME NEW n \in 1 .. Len(s), Holds(n - 1)
      PROVE  Holds(n)
    <2>1. {s[i] : i \in 1 .. n} = {s[i] : i \in 1 .. n - 1} \cup {s[n]}
        <3>1. \A i : i \in 1 .. n <=> i \in 1 .. n - 1 \/ i = n
            BY <1>0
        <3> QED BY <3>1
    <2>2. CASE s[n] \notin S
        <3>1. kept[n] = kept[n - 1]
            BY <1>1, <2>2
        <3> QED BY <1>3, <2>1, <2>2, <3>1
    <2>3. CASE s[n] \in S
        <3>1. kept[n] = Append(kept[n - 1], s[n]) /\ s[n] \in E
            BY <1>0, <1>1, <2>3
        <3>2. /\ kept[n - 1] \in Seq(E)
              /\ ToSet(kept[n - 1]) = {s[i] : i \in 1 .. n - 1} \cap S
              /\ Distinct(s) => Distinct(kept[n - 1])
            BY <1>3
        <3>3. /\ kept[n] \in Seq(E)
              /\ ToSet(kept[n]) = ToSet(kept[n - 1]) \cup {s[n]}
              /\ Distinct(kept[n - 1]) /\ s[n] \notin ToSet(kept[n - 1]) => Distinct(kept[n])
            BY <3>1, <3>2, Appended
        <3>4. Distinct(s) => s[n] \notin {s[i] : i \in 1 .. n - 1}
            <4> SUFFICES ASSUME Distinct(s), NEW i \in 1 .. n - 1, s[n] = s[i] PROVE FALSE
                OBVIOUS
            <4>1. i \in DOMAIN s /\ n \in DOMAIN s /\ i # n
                BY <1>0
            <4> QED BY <4>1 DEF Distinct
        <3> QED BY <2>1, <2>3, <3>2, <3>3, <3>4
    <2> QED BY <2>2, <2>3
<1>4. Fails = {}
    <2> SUFFICES ASSUME Fails # {} PROVE FALSE
        OBVIOUS
    <2>1. PICK n \in Fails : \A k \in Fails : n <= k
        <3>1. Fails \in SUBSET Nat
            OBVIOUS
        <3> HIDE DEF Fails
        <3> QED BY <3>1, LeastOf
    <2>2. n \in 1 .. Len(s) /\ n - 1 \in 0 .. Len(s) /\ ~(n <= n - 1)
        <3>1. n # 0
            BY <1>2, <2>1
        <3> QED BY <1>0, <2>1, <3>1
    <2>3. n - 1 \notin Fails
        <3> HIDE DEF Fails
        <3> QED BY <2>1, <2>2
    <2> HIDE DEF Holds
    <2> QED BY <1>3, <2>1, <2>2, <2>3
<1>5. Holds(Len(s))
    <2> HIDE DEF Holds
    <2>1. Len(s) \in 0 .. Len(s)
        BY <1>0
    <2> QED BY <1>4, <2>1
<1>6. Among(s, S) = kept[Len(s)] /\ ToSet(s) = {s[i] : i \in 1 .. Len(s)}
    BY <1>0, KeptDefined DEF kept, ToSet
<1> QED BY <1>5, <1>6

-----------------------------------------------------------------------------
(* topo_sort.                                                              *)

(* One round, the order of what it leaves being known.                     *)
Round(depends, f, S) ==
    IF Ready(depends, S) = {} THEN Among(spec, S)
    ELSE Among(spec, Ready(depends, S)) \o f[S \ Ready(depends, S)]

Order(depends) == CHOOSE order : order = [S \in SUBSET Slices |->
    IF Ready(depends, S) = {} THEN Among(spec, S)
    ELSE Among(spec, Ready(depends, S)) \o order[S \ Ready(depends, S)]]

LEMMA SlicesFinite ==
    /\ IsFiniteSet(Slices) /\ Slices \subseteq WPs /\ Slices # {}
    /\ spec \in Seq(Slices) /\ Distinct(spec)
    /\ \A S \in SUBSET Slices : IsFiniteSet(S) /\ Cardinality(S) \in Nat
<1>1. /\ spec \in Seq(WPs) /\ spec # <<>> /\ DOMAIN spec = 1 .. Len(spec)
      /\ Len(spec) \in Nat
    BY SpecAssumption
<1>2. Slices = {spec[i] : i \in 1 .. Len(spec)}
    BY <1>1 DEF Slices, ToSet
<1>3. IsFiniteSet(Slices)
    <2>1. IsFiniteSet(1 .. Len(spec))
        BY <1>1, FS_Interval
    <2>2. spec \in Surjection(1 .. Len(spec), Slices)
        BY <1>1, <1>2 DEF Surjection
    <2> QED BY <2>1, <2>2, FS_Surjection
<1>4. Slices \subseteq WPs /\ Slices # {} /\ spec \in Seq(Slices)
    <2>1. Len(spec) # 0
        BY <1>1
    <2> QED BY <1>1, <1>2, <2>1
<1>5. Distinct(spec)
    BY SpecAssumption DEF Distinct
<1>6. \A S \in SUBSET Slices : IsFiniteSet(S) /\ Cardinality(S) \in Nat
    BY <1>3, FS_Subset, FS_CardinalityType
<1> QED BY <1>3, <1>4, <1>5, <1>6

(* A round that sends something leaves fewer.                              *)
LEMMA FewerLeft ==
    ASSUME NEW depends, NEW S \in SUBSET Slices, Ready(depends, S) # {}
    PROVE  /\ S \ Ready(depends, S) \in SUBSET Slices
           /\ Cardinality(S \ Ready(depends, S)) < Cardinality(S)
<1> DEFINE left == S \ Ready(depends, S)
<1>1. left \subseteq S /\ left # S
    BY DEF Ready
<1>2. IsFiniteSet(S)
    BY SlicesFinite
<1> HIDE DEF left
<1>3. Cardinality(left) < Cardinality(S)
    BY <1>1, <1>2, FS_Subset, FS_CardinalityType
<1> QED BY <1>1, <1>3 DEF left

LEMMA OrderDefined ==
    ASSUME NEW depends
    PROVE  /\ \A S \in SUBSET Slices : Order(depends)[S] = Round(depends, Order(depends), S)
           /\ TopoSort(depends) = Order(depends)[Slices]
<1> DEFINE Sets(m) == {S \in SUBSET Slices : Cardinality(S) <= m}
           Solves(f, D) == f = [S \in D |-> Round(depends, f, S)]
           Unsolved == {m \in Nat : ~\E f : Solves(f, Sets(m))}
           left(S) == S \ Ready(depends, S)
<1>1. ASSUME NEW m \in Nat,
             m = 0 \/ \E f : Solves(f, Sets(m - 1))
      PROVE  \E f : Solves(f, Sets(m))
    <2>1. PICK f : m # 0 => Solves(f, Sets(m - 1))
        BY <1>1
    <2> DEFINE g == [S \in Sets(m) |-> Round(depends, f, S)]
    <2>2. ASSUME NEW S \in Sets(m), Ready(depends, S) # {}
          PROVE  m # 0 /\ left(S) \in Sets(m - 1) /\ left(S) \in Sets(m)
        <3>1. /\ left(S) \in SUBSET Slices /\ Cardinality(left(S)) < Cardinality(S)
              /\ Cardinality(S) <= m /\ Cardinality(S) \in Nat
              /\ Cardinality(left(S)) \in Nat
            BY <2>2, FewerLeft, SlicesFinite
        <3> QED BY <3>1
    <2>3. ASSUME NEW S \in Sets(m)
          PROVE  g[S] = Round(depends, g, S)
        <3>1. g[S] = Round(depends, f, S)
            OBVIOUS
        <3>2. CASE Ready(depends, S) = {}
            BY <3>1, <3>2 DEF Round
        <3>3. CASE Ready(depends, S) # {}
            <4>1. m # 0 /\ left(S) \in Sets(m - 1) /\ left(S) \in Sets(m)
                BY <2>2, <3>3
            <4>2. f[left(S)] = Round(depends, f, left(S))
                <5> HIDE DEF Sets, left
                <5> QED BY <2>1, <4>1
            <4>3. g[left(S)] = f[left(S)]
                <5> HIDE DEF Sets, left
                <5> QED BY <4>1, <4>2
            <4> HIDE DEF g
            <4> QED BY <3>1, <3>3, <4>3 DEF Round
        <3> QED BY <3>2, <3>3
    <2>4. g = [S \in Sets(m) |-> Round(depends, g, S)]
        <3> HIDE DEF Sets
        <3> QED BY <2>3
    <2> HIDE DEF g
    <2> QED BY <2>4
<1>2. Unsolved = {}
    <2> SUFFICES ASSUME Unsolved # {} PROVE FALSE
        OBVIOUS
    <2>1. PICK m \in Unsolved : \A k \in Unsolved : m <= k
        <3>1. Unsolved \in SUBSET Nat
            OBVIOUS
        <3> HIDE DEF Unsolved
        <3> QED BY <3>1, LeastOf
    <2>2. m \in Nat /\ ~\E f : Solves(f, Sets(m))
        BY <2>1
    <2>3. m # 0 => m - 1 \in Nat /\ ~(m <= m - 1)
        BY <2>2
    <2>4. m # 0 => m - 1 \in Nat /\ m - 1 \notin Unsolved
        <3> HIDE DEF Unsolved
        <3> QED BY <2>1, <2>3
    <2>5. m = 0 \/ \E f : Solves(f, Sets(m - 1))
        <3> HIDE DEF Solves, Sets
        <3> QED BY <2>4
    <2> HIDE DEF Solves, Sets
    <2> QED BY <1>1, <2>2, <2>5
<1>3. Sets(Cardinality(Slices)) = SUBSET Slices /\ Cardinality(Slices) \in Nat
    BY SlicesFinite, FS_Subset
<1>4. \E f : Solves(f, SUBSET Slices)
    <2>1. \E f : Solves(f, Sets(Cardinality(Slices)))
        <3> HIDE DEF Solves, Sets
        <3> QED BY <1>2, <1>3
    <2> HIDE DEF Solves, Sets
    <2> QED BY <1>3, <2>1
<1>5. Order(depends) = CHOOSE f : Solves(f, SUBSET Slices)
    BY DEF Order, Round
<1>6. Solves(Order(depends), SUBSET Slices)
    <2> HIDE DEF Solves
    <2> QED BY <1>4, <1>5
<1>7. TopoSort(depends) = Order(depends)[Slices]
    BY DEF TopoSort, Order
<1> QED BY <1>6, <1>7

(* Some order of the slices has every dependency first.                    *)
Ranked(depends) ==
    \E rank \in [Slices -> 1 .. Len(spec)] :
        \A s \in Slices, d \in Slices : d \in depends[s] => rank[d] < rank[s]

(* The sequence is that of the set S: each once, and after those of S it   *)
(* depends on.                                                             *)
Sorted(depends, q, S) ==
    /\ q \in Seq(Slices) /\ ToSet(q) = S /\ Distinct(q)
    /\ Ranked(depends) =>
          \A i \in DOMAIN q : \A d \in depends[q[i]] \cap S :
              \E j \in DOMAIN q : j < i /\ q[j] = d

(* Without a circle some slice of what is left depends on nothing left.    *)
LEMMA SomeReady ==
    ASSUME NEW depends, Ranked(depends), NEW S \in SUBSET Slices, S # {}
    PROVE  Ready(depends, S) # {}
<1>1. PICK rank \in [Slices -> 1 .. Len(spec)] :
          \A s \in Slices, d \in Slices : d \in depends[s] => rank[d] < rank[s]
    BY DEF Ranked
<1> DEFINE ranks == {rank[s] : s \in S}
<1>2. ranks \in SUBSET Nat /\ ranks # {}
    <2>1. \A s \in S : rank[s] \in Nat
        BY <1>1
    <2> QED BY <2>1
<1>3. PICK n \in ranks : \A k \in ranks : n <= k
    <2> HIDE DEF ranks
    <2> QED BY <1>2, LeastOf
<1>4. PICK s \in S : rank[s] = n
    BY <1>3
<1>5. ASSUME NEW d \in depends[s] \cap S PROVE FALSE
    <2>1. rank[d] < rank[s]
        BY <1>1
    <2>2. rank[s] <= rank[d] /\ rank[s] \in Nat /\ rank[d] \in Nat
        BY <1>2, <1>3, <1>4
    <2> QED BY <2>1, <2>2
<1> QED BY <1>5 DEF Ready

LEMMA AmongSlices ==
    ASSUME NEW S \in SUBSET Slices
    PROVE  /\ Among(spec, S) \in Seq(Slices) /\ ToSet(Among(spec, S)) = S
           /\ Distinct(Among(spec, S))
<1>1. spec \in Seq(Slices) /\ Distinct(spec)
    BY SlicesFinite
<1>2. /\ Among(spec, S) \in Seq(Slices) /\ ToSet(Among(spec, S)) = ToSet(spec) \cap S
      /\ Distinct(spec) => Distinct(Among(spec, S))
    BY <1>1, AmongHas
<1>3. ToSet(spec) \cap S = S
    BY DEF Slices
<1> QED BY <1>1, <1>2, <1>3

(* A round puts the ready ones before the rest.                            *)
LEMMA RoundSorts ==
    ASSUME NEW depends, NEW f, NEW S \in SUBSET Slices,
           Ready(depends, S) # {} =>
               Sorted(depends, f[S \ Ready(depends, S)], S \ Ready(depends, S))
    PROVE  Sorted(depends, Round(depends, f, S), S)
<1> DEFINE ready == Ready(depends, S)
           first == Among(spec, ready)
           rest == f[S \ ready]
<1>2. CASE ready = {}
    <2>1. /\ Among(spec, S) \in Seq(Slices) /\ ToSet(Among(spec, S)) = S
          /\ Distinct(Among(spec, S))
        BY AmongSlices
    <2>2. Ranked(depends) => DOMAIN Among(spec, S) = {}
        <3>1. Ranked(depends) => S = {}
            BY <1>2, SomeReady
        <3> QED BY <2>1, <3>1 DEF ToSet
    <2>3. Round(depends, f, S) = Among(spec, S)
        BY <1>2 DEF Round
    <2> QED BY <2>1, <2>2, <2>3 DEF Sorted
<1>3. CASE ready # {}
    <2> DEFINE q == first \o rest
    <2>0. Round(depends, f, S) = q
        BY <1>3 DEF Round
    <2>1. first \in Seq(Slices) /\ ToSet(first) = ready /\ Distinct(first)
        <3>1. ready \in SUBSET Slices
            BY DEF Ready
        <3> HIDE DEF ready
        <3> QED BY <3>1, AmongSlices
    <2>2. rest \in Seq(Slices) /\ ToSet(rest) = S \ ready /\ Distinct(rest)
        BY <1>3 DEF Sorted
    <2>rest. Ranked(depends) =>
          \A i \in DOMAIN rest : \A d \in depends[rest[i]] \cap (S \ ready) :
              \E j \in DOMAIN rest : j < i /\ rest[j] = d
        BY <1>3 DEF Sorted
    <2>dom. /\ DOMAIN first = 1 .. Len(first) /\ Len(first) \in Nat
            /\ DOMAIN rest = 1 .. Len(rest) /\ Len(rest) \in Nat
        BY <2>1, <2>2
    <2> HIDE DEF first, rest
    <2>3. /\ q \in Seq(Slices)
          /\ \A i \in DOMAIN first : i \in DOMAIN q /\ q[i] = first[i]
          /\ \A i \in DOMAIN rest :
                Len(first) + i \in DOMAIN q /\ q[Len(first) + i] = rest[i]
          /\ \A k \in DOMAIN q :
                k \in DOMAIN first \/ \E i \in DOMAIN rest : k = Len(first) + i
          /\ ToSet(q) = ToSet(first) \cup ToSet(rest)
          /\ Distinct(first) /\ Distinct(rest) /\ ToSet(first) \cap ToSet(rest) = {}
                 => Distinct(q)
        BY <2>1, <2>2, Joined
    <2> HIDE DEF q
    <2>4. ToSet(q) = S /\ Distinct(q)
        <3>1. ready \subseteq S
            BY DEF Ready
        <3> QED BY <2>1, <2>2, <2>3, <3>1
    <2>5. ASSUME Ranked(depends), NEW k \in DOMAIN q, NEW d \in depends[q[k]] \cap S
          PROVE  \E j \in DOMAIN q : j < k /\ q[j] = d
        <3>1. CASE k \in DOMAIN first
            <4>1. q[k] \in ready
                BY <2>1, <2>3, <3>1 DEF ToSet
            <4> QED BY <2>5, <4>1 DEF Ready
        <3>2. CASE k \notin DOMAIN first
            <4>1. PICK i \in DOMAIN rest : k = Len(first) + i
                BY <2>3, <3>2
            <4>2. q[k] = rest[i]
                BY <2>3, <4>1
            <4>3. CASE d \in ready
                <5>1. PICK j \in DOMAIN first : first[j] = d
                    BY <2>1, <4>3 DEF ToSet
                <5>2. j < k
                    BY <2>dom, <4>1
                <5> QED BY <2>3, <5>1, <5>2
            <4>4. CASE d \notin ready
                <5>1. PICK j \in DOMAIN rest : j < i /\ rest[j] = d
                    BY <2>5, <2>rest, <4>2, <4>4
                <5>2. Len(first) + j < k
                    BY <2>dom, <4>1, <5>1
                <5> QED BY <2>3, <5>1, <5>2
            <4> QED BY <4>3, <4>4
        <3> QED BY <3>1, <3>2
    <2> QED BY <2>0, <2>3, <2>4, <2>5 DEF Sorted
<1> QED BY <1>2, <1>3

(* topo_sort returns each slice once, whatever depends on what, and after  *)
(* those it depends on unless they go round in a circle.                   *)
THEOREM TopoSortSorts ==
    ASSUME NEW depends
    PROVE  Sorted(depends, TopoSort(depends), Slices)
<1> DEFINE f == Order(depends)
           Fails == {S \in SUBSET Slices : ~Sorted(depends, f[S], S)}
           sizes == {Cardinality(S) : S \in Fails}
<1>1. Fails = {}
    <2> SUFFICES ASSUME Fails # {} PROVE FALSE
        OBVIOUS
    <2>1. sizes \in SUBSET Nat /\ sizes # {}
        BY SlicesFinite
    <2>2. PICK n \in sizes : \A k \in sizes : n <= k
        <3> HIDE DEF sizes
        <3> QED BY <2>1, LeastOf
    <2>3. PICK S \in Fails : Cardinality(S) = n
        BY <2>2
    <2>4. S \in SUBSET Slices /\ ~Sorted(depends, f[S], S)
        BY <2>3
    <2> DEFINE left == S \ Ready(depends, S)
    <2>5. ASSUME Ready(depends, S) # {} PROVE Sorted(depends, f[left], left)
        <3>1. left \in SUBSET Slices /\ Cardinality(left) < Cardinality(S)
            BY <2>4, <2>5, FewerLeft
        <3>2. Cardinality(left) \in Nat /\ Cardinality(S) \in Nat
            BY <2>4, <3>1, SlicesFinite
        <3>3. left \notin Fails
            <4> SUFFICES ASSUME left \in Fails PROVE FALSE
                OBVIOUS
            <4>1. Cardinality(left) \in sizes
                OBVIOUS
            <4> HIDE DEF sizes, Fails, left
            <4> QED BY <2>2, <2>3, <3>1, <3>2, <4>1
        <3> HIDE DEF left, f
        <3> QED BY <3>1, <3>3
    <2>6. f[S] = Round(depends, f, S)
        BY <2>4, OrderDefined
    <2> HIDE DEF f, Fails, sizes
    <2>7. Sorted(depends, Round(depends, f, S), S)
        BY <2>4, <2>5, RoundSorts
    <2> QED BY <2>4, <2>6, <2>7
<1>2. TopoSort(depends) = f[Slices]
    BY OrderDefined
<1> HIDE DEF f
<1> QED BY <1>1, <1>2

=============================================================================
