------------------------- MODULE AcademicList_proofs -------------------------
(***************************************************************************)
(* The list of the academic program, for any finite set of addresses, any  *)
(* integers and positions and any sequence of commands: its nodes are one  *)
(* list both ways, and the list it stands for is the one of IntegerList.   *)
(*                                                                         *)
(* The induction carries the nodes along in order, as a function c.  Every *)
(* command that changes the links puts one node in (PutIn), takes one out  *)
(* (TakenOut) or drops them all, and the proofs are about those three.     *)
(***************************************************************************)
EXTENDS AcademicList, FiniteSetTheorems, SequenceTheorems, TLAPS

-----------------------------------------------------------------------------
(* Numbers                                                                 *)

(* A set of numbers that is not empty has a least element. *)
LEMMA Least ==
  ASSUME NEW T, T \subseteq Nat, T # {}
  PROVE  \E x \in T : \A y \in T : x <= y
<1> DEFINE upTo == {0..x : x \in T}
<1>1. upTo \subseteq FiniteSubsetsOf(Nat) /\ upTo # {}
  <2>1. ASSUME NEW x \in T PROVE 0..x \in SUBSET Nat /\ IsFiniteSet(0..x)
    BY FS_Interval
  <2> QED
    BY <2>1 DEF FiniteSubsetsOf
<1> HIDE DEF upTo
<1>2. PICK least \in upTo : \A other \in upTo : <<other, least>> \notin StrictSubsetOrdering(Nat)
  BY <1>1, FS_StrictSubsetOrderingWellFounded, WFMin
<1>3. PICK x \in T : least = 0..x
  BY <1>2 DEF upTo
<1>4. ASSUME NEW y \in T PROVE x <= y
  <2> SUFFICES ASSUME y < x PROVE FALSE
    OBVIOUS
  <2>1. x \in Nat /\ y \in Nat
    OBVIOUS
  <2>2. 0..y \in SUBSET Nat /\ 0..x \in SUBSET Nat /\ 0..y \subseteq 0..x
    BY <2>1
  <2>3. 0..y # 0..x
    <3>1. x \in 0..x /\ x \notin 0..y
      BY <2>1
    <3> QED
      BY <3>1
  <2>4. <<0..y, 0..x>> \in StrictSubsetOrdering(Nat)
    BY <2>2, <2>3, Zenon DEF StrictSubsetOrdering
  <2>5. 0..y \in upTo
    BY DEF upTo
  <2> QED
    BY <1>2, <1>3, <2>4, <2>5
<1> QED
  BY <1>4

(* Induction, over the set of the numbers with the property. *)
LEMMA Induct ==
  ASSUME NEW T, 0 \in T, \A m \in Nat : m \in T => m + 1 \in T
  PROVE  \A m \in Nat : m \in T
<1> DEFINE others == Nat \ T
<1> SUFFICES ASSUME others # {} PROVE FALSE
  OBVIOUS
<1>1. PICK x \in others : \A y \in others : x <= y
  <2>1. others \subseteq Nat
    OBVIOUS
  <2> HIDE DEF others
  <2> QED
    BY <2>1, Least
<1>2. x \in Nat /\ x \notin T /\ x # 0
  OBVIOUS
<1>3. x - 1 \in Nat /\ x - 1 \notin others /\ (x - 1) + 1 = x
  BY <1>1, <1>2
<1> QED
  BY <1>2, <1>3

(* What the steps lead through from base on.                               *)
Runs(f, V, base, m, step) ==
  /\ f \in [0..m -> V] /\ f[0] = base
  /\ \A i \in 1..m : f[i] = step[i][f[i - 1]]

(* Steps that each map values to values, taken one after the other. *)
LEMMA Recursion ==
  ASSUME NEW V, NEW base \in V, NEW m \in Nat, NEW step \in [1..m -> [V -> V]]
  PROVE  \E f : Runs(f, V, base, m, step)
<1> DEFINE Walks(f, k) == f[0] = base /\ \A i \in 1..k : f[i] = step[i][f[i - 1]]
           T == {k \in Nat : k <= m => \E f \in [0..k -> V] : Walks(f, k)}
<1>1. 0 \in T
  <2>1. [i \in 0..0 |-> base] \in [0..0 -> V] /\ Walks([i \in 0..0 |-> base], 0)
    OBVIOUS
  <2> QED
    BY <2>1
<1>2. ASSUME NEW k \in Nat, k \in T PROVE k + 1 \in T
  <2> SUFFICES ASSUME k + 1 <= m PROVE \E f \in [0..k + 1 -> V] : Walks(f, k + 1)
    OBVIOUS
  <2>1. PICK f \in [0..k -> V] : Walks(f, k)
    BY <1>2
  <2>2. k + 1 \in 1..m /\ f[k] \in V /\ step[k + 1] \in [V -> V]
    BY <2>1
  <2> DEFINE g == [i \in 0..k + 1 |-> IF i = k + 1 THEN step[k + 1][f[k]] ELSE f[i]]
  <2>3. g \in [0..k + 1 -> V]
    BY <2>1, <2>2
  <2>4. g[0] = base /\ g[k + 1] = step[k + 1][f[k]] /\ \A i \in 0..k : g[i] = f[i]
    BY <2>1
  <2> HIDE DEF g
  <2>5. ASSUME NEW i \in 1..k + 1 PROVE g[i] = step[i][g[i - 1]]
    <3>1. CASE i = k + 1
      BY <2>4, <3>1
    <3>2. CASE i \in 1..k
      <4>1. i - 1 \in 0..k /\ i \in 0..k
        BY <3>2
      <4> QED
        BY <2>1, <2>4, <3>2, <4>1
    <3> QED
      BY <3>1, <3>2
  <2> QED
    BY <2>3, <2>4, <2>5
<1> HIDE DEF T
<1>3. m \in T
  BY <1>1, <1>2, Induct
<1> QED
  BY <1>3 DEF T, Runs

-----------------------------------------------------------------------------
(* Nodes in order                                                          *)

(* c are the nodes, each once, with nx and pv their links, h and t the     *)
(* ends.                                                                   *)
Linked(nodes, nx, pv, h, t, c, k) ==
  /\ k \in Nat /\ c \in [1..k -> nodes]
  /\ \A a \in nodes : \E i \in 1..k : c[i] = a
  /\ \A i, j \in 1..k : c[i] = c[j] => i = j
  /\ h = IF k = 0 THEN Null ELSE c[1]
  /\ t = IF k = 0 THEN Null ELSE c[k]
  /\ \A i \in 1..k : nx[c[i]] = IF i = k THEN Null ELSE c[i + 1]
  /\ \A i \in 1..k : pv[c[i]] = IF i = 1 THEN Null ELSE c[i - 1]

With(c, k, i, a) ==
  [j \in 1..k + 1 |-> IF j <= i THEN c[j] ELSE IF j = i + 1 THEN a ELSE c[j - 1]]
Without(c, k, i) == [j \in 1..k - 1 |-> IF j < i THEN c[j] ELSE c[j + 1]]

(* The links when a node is put in behind the first i.                     *)
LinksWith(nodes, nx, pv, c, k, i, a, nx2, pv2) ==
  \A b \in nodes \cup {a} :
    /\ nx2[b] = IF b = a THEN IF i = k THEN Null ELSE c[i + 1]
                ELSE IF i > 0 /\ b = c[i] THEN a ELSE nx[b]
    /\ pv2[b] = IF b = a THEN IF i = 0 THEN Null ELSE c[i]
                ELSE IF i < k /\ b = c[i + 1] THEN a ELSE pv[b]

LinksWithout(nodes, nx, pv, c, k, i, nx2, pv2) ==
  \A b \in nodes \ {c[i]} :
    /\ nx2[b] = IF i > 1 /\ b = c[i - 1] THEN nx[c[i]] ELSE nx[b]
    /\ pv2[b] = IF i < k /\ b = c[i + 1] THEN pv[c[i]] ELSE pv[b]

(* A node put in behind the first i.                                       *)
LEMMA PutIn ==
  ASSUME NEW nodes, NEW nx, NEW pv, NEW h, NEW t, NEW c, NEW k,
         Linked(nodes, nx, pv, h, t, c, k),
         NEW a, a \notin nodes, NEW i \in 0..k, NEW nx2, NEW pv2,
         LinksWith(nodes, nx, pv, c, k, i, a, nx2, pv2)
  PROVE  Linked(nodes \cup {a}, nx2, pv2, IF i = 0 THEN a ELSE h,
                IF i = k THEN a ELSE t, With(c, k, i, a), k + 1)
<1> DEFINE d == With(c, k, i, a)
           all == nodes \cup {a}
<1>0. /\ \A b \in nodes \cup {a} :
           nx2[b] = IF b = a THEN IF i = k THEN Null ELSE c[i + 1]
                    ELSE IF i > 0 /\ b = c[i] THEN a ELSE nx[b]
      /\ \A b \in nodes \cup {a} :
           pv2[b] = IF b = a THEN IF i = 0 THEN Null ELSE c[i]
                    ELSE IF i < k /\ b = c[i + 1] THEN a ELSE pv[b]
  BY DEF LinksWith
<1> USE <1>0
<1>1. k \in Nat /\ i \in Nat /\ i <= k /\ c \in [1..k -> nodes]
  BY DEF Linked
<1>2. /\ \A j \in 1..i : j \in 1..k /\ d[j] = c[j]
      /\ d[i + 1] = a
      /\ \A j \in i + 2..k + 1 : j - 1 \in 1..k /\ d[j] = c[j - 1]
      /\ d \in [1..k + 1 -> all]
  BY <1>1 DEF With
<1> HIDE DEF d
<1>3. \A b \in all : \E j \in 1..k + 1 : d[j] = b
  <2> SUFFICES ASSUME NEW b \in all PROVE \E j \in 1..k + 1 : d[j] = b
    OBVIOUS
  <2>1. CASE b = a
    BY <1>1, <1>2, <2>1
  <2>2. CASE b \in nodes
    <3>1. PICK j \in 1..k : c[j] = b
      BY <2>2 DEF Linked
    <3>2. CASE j <= i
      <4>1. j \in 1..i /\ j \in 1..k + 1
        BY <1>1, <3>2
      <4> QED
        BY <1>2, <3>1, <4>1
    <3>3. CASE j > i
      <4>1. j + 1 \in i + 2..k + 1 /\ j + 1 \in 1..k + 1 /\ (j + 1) - 1 = j
        BY <1>1, <3>3
      <4> QED
        BY <1>2, <3>1, <4>1
    <3> QED
      BY <1>1, <3>2, <3>3
  <2> QED
    BY <2>1, <2>2
<1>4. \A j, m \in 1..k + 1 : d[j] = d[m] => j = m
  <2>1. \A j, m \in 1..k : c[j] = c[m] => j = m
    BY DEF Linked
  <2>2. \A j \in 1..k : c[j] # a
    BY <1>1
  <2>3. \A j \in 1..k + 1 : \/ j \in 1..i
                            \/ j = i + 1
                            \/ j \in i + 2..k + 1
    BY <1>1
  <2> QED
    BY <1>1, <1>2, <2>1, <2>2, <2>3
<1>5. ASSUME NEW j \in 1..k + 1
      PROVE  /\ nx2[d[j]] = IF j = k + 1 THEN Null ELSE d[j + 1]
             /\ pv2[d[j]] = IF j = 1 THEN Null ELSE d[j - 1]
  <2>1. \A m, l \in 1..k : c[m] = c[l] => m = l
    BY DEF Linked
  <2>2. \A m \in 1..k : /\ c[m] \in nodes /\ c[m] # a
                        /\ nx[c[m]] = IF m = k THEN Null ELSE c[m + 1]
                        /\ pv[c[m]] = IF m = 1 THEN Null ELSE c[m - 1]
    BY <1>1 DEF Linked
  <2>3. CASE j \in 1..i
    <3>1. j \in 1..k /\ d[j] = c[j] /\ d[j] \in nodes /\ d[j] # a
      BY <1>2, <2>2, <2>3
    <3>2. i \in 1..k /\ (c[j] = c[i] <=> j = i)
      BY <1>1, <2>1, <2>3, <3>1
    <3>3. nx2[d[j]] = IF j = i THEN a ELSE c[j + 1]
      BY <1>1, <2>2, <2>3, <3>1, <3>2
    <3>4. j # i => j + 1 \in 1..i
      BY <1>1, <2>3
    <3>5. nx2[d[j]] = d[j + 1] /\ j # k + 1
      BY <1>1, <1>2, <2>3, <3>3, <3>4
    <3>6. i < k => i + 1 \in 1..k /\ c[j] # c[i + 1]
      BY <1>1, <2>1, <2>3, <3>1
    <3>7. pv2[d[j]] = IF j = 1 THEN Null ELSE c[j - 1]
      BY <2>2, <3>1, <3>6
    <3>8. j # 1 => j - 1 \in 1..i
      BY <1>1, <2>3
    <3> QED
      BY <1>2, <3>5, <3>7, <3>8
  <2>4. CASE j = i + 1
    <3>1. d[j] = a
      BY <1>2, <2>4
    <3>2. i # k => i + 2 \in i + 2..k + 1 /\ (i + 2) - 1 = i + 1
      BY <1>1
    <3>3. i # 0 => i \in 1..i
      BY <1>1
    <3> QED
      BY <1>1, <1>2, <2>4, <3>1, <3>2, <3>3
  <2>5. CASE j \in i + 2..k + 1
    <3>1. j - 1 \in 1..k /\ d[j] = c[j - 1] /\ d[j] \in nodes /\ d[j] # a
      BY <1>2, <2>2, <2>5
    <3>2. i + 1 \in 1..k /\ i < k /\ (c[j - 1] = c[i + 1] <=> j - 1 = i + 1)
      BY <1>1, <2>1, <2>5, <3>1
    <3>3. pv2[d[j]] = IF j - 1 = i + 1 THEN a ELSE c[j - 1 - 1]
      BY <1>1, <2>2, <2>5, <3>1, <3>2
    <3>4. j - 1 # i + 1 => j - 1 \in i + 2..k + 1
      BY <1>1, <2>5
    <3>5. pv2[d[j]] = d[j - 1] /\ j # 1
      BY <1>1, <1>2, <2>5, <3>3, <3>4
    <3>6. i > 0 => i \in 1..k /\ c[j - 1] # c[i]
      BY <1>1, <2>1, <2>5, <3>1
    <3>7. nx2[d[j]] = IF j = k + 1 THEN Null ELSE c[(j + 1) - 1]
      <4>1. nx2[d[j]] = nx[c[j - 1]]
        BY <3>1, <3>6
      <4>2. (j - 1 = k <=> j = k + 1) /\ (j - 1) + 1 = (j + 1) - 1
        BY <1>1, <2>5
      <4> QED
        BY <2>2, <3>1, <4>1, <4>2
    <3>8. j # k + 1 => j + 1 \in i + 2..k + 1
      BY <1>1, <2>5
    <3> QED
      BY <1>2, <3>5, <3>7, <3>8
  <2> QED
    BY <1>1, <2>3, <2>4, <2>5
<1>6. (IF i = 0 THEN a ELSE h) = d[1] /\ (IF i = k THEN a ELSE t) = d[k + 1]
  <2>1. i # 0 => 1 \in 1..i /\ h = c[1]
    BY <1>1 DEF Linked
  <2>2. i # k => k + 1 \in i + 2..k + 1 /\ t = c[(k + 1) - 1]
    BY <1>1 DEF Linked
  <2> QED
    BY <1>1, <1>2, <2>1, <2>2
<1>7. k + 1 \in Nat /\ k + 1 # 0
  BY <1>1
<1> HIDE DEF all
<1>8. Linked(all, nx2, pv2, d[1], d[k + 1], d, k + 1)
  BY <1>2, <1>3, <1>4, <1>5, <1>7 DEF Linked
<1> QED
  BY <1>6, <1>8 DEF all, d

(* The node at place i taken out, its neighbours linked to one another.    *)
LEMMA TakenOut ==
  ASSUME NEW nodes, NEW nx, NEW pv, NEW h, NEW t, NEW c, NEW k,
         Linked(nodes, nx, pv, h, t, c, k),
         NEW i \in 1..k, NEW nx2, NEW pv2,
         LinksWithout(nodes, nx, pv, c, k, i, nx2, pv2)
  PROVE  Linked(nodes \ {c[i]}, nx2, pv2, IF i = 1 THEN nx[c[i]] ELSE h,
                IF i = k THEN pv[c[i]] ELSE t, Without(c, k, i), k - 1)
<1> DEFINE d == Without(c, k, i)
           rest == nodes \ {c[i]}
<1>0. /\ \A b \in nodes \ {c[i]} :
           nx2[b] = IF i > 1 /\ b = c[i - 1] THEN nx[c[i]] ELSE nx[b]
      /\ \A b \in nodes \ {c[i]} :
           pv2[b] = IF i < k /\ b = c[i + 1] THEN pv[c[i]] ELSE pv[b]
  BY DEF LinksWithout
<1> USE <1>0
<1>1. /\ k \in Nat /\ i \in Nat /\ 1 <= i /\ i <= k /\ c \in [1..k -> nodes]
      /\ \A m, l \in 1..k : c[m] = c[l] => m = l
  BY DEF Linked
<1>2. /\ \A j \in 1..i - 1 : j \in 1..k /\ d[j] = c[j]
      /\ \A j \in i..k - 1 : j + 1 \in 1..k /\ d[j] = c[j + 1]
      /\ DOMAIN d = 1..k - 1 /\ d = [j \in 1..k - 1 |-> d[j]]
  BY <1>1 DEF Without
<1> HIDE DEF d
<1>3. \A j \in 1..k - 1 : j \in 1..i - 1 \/ j \in i..k - 1
  BY <1>1
<1>4. ASSUME NEW j \in 1..k - 1 PROVE d[j] \in rest
  <2>1. \A m \in 1..k : m # i => c[m] \in rest
    BY <1>1
  <2>2. CASE j \in 1..i - 1
    <3>1. j # i
      BY <1>1, <2>2
    <3> QED
      BY <1>2, <2>1, <2>2, <3>1
  <2>3. CASE j \in i..k - 1
    <3>1. j + 1 # i
      BY <1>1, <2>3
    <3> QED
      BY <1>2, <2>1, <2>3, <3>1
  <2> QED
    BY <1>3, <2>2, <2>3
<1>5. d \in [1..k - 1 -> rest]
  BY <1>2, <1>4
<1>6. \A b \in rest : \E j \in 1..k - 1 : d[j] = b
  <2> SUFFICES ASSUME NEW b \in rest PROVE \E j \in 1..k - 1 : d[j] = b
    OBVIOUS
  <2>1. PICK j \in 1..k : c[j] = b
    BY DEF Linked
  <2>2. CASE j < i
    <3>1. j \in 1..i - 1 /\ j \in 1..k - 1
      BY <1>1, <2>2
    <3> QED
      BY <1>2, <2>1, <3>1
  <2>3. CASE j > i
    <3>1. j - 1 \in i..k - 1 /\ j - 1 \in 1..k - 1 /\ (j - 1) + 1 = j
      BY <1>1, <2>3
    <3> QED
      BY <1>2, <2>1, <3>1
  <2> QED
    BY <1>1, <2>1, <2>2, <2>3
<1>7. ASSUME NEW j \in 1..k - 1, NEW m \in 1..k - 1, d[j] = d[m] PROVE j = m
  <2> DEFINE old(l) == IF l < i THEN l ELSE l + 1
  <2>1. old(j) \in 1..k /\ old(m) \in 1..k /\ (old(j) = old(m) => j = m)
    BY <1>1
  <2>2. d[j] = c[old(j)] /\ d[m] = c[old(m)]
    BY <1>1 DEF d, Without
  <2> QED
    BY <1>1, <1>7, <2>1, <2>2
<1>8. \A m \in 1..k : /\ nx[c[m]] = IF m = k THEN Null ELSE c[m + 1]
                      /\ pv[c[m]] = IF m = 1 THEN Null ELSE c[m - 1]
  BY DEF Linked
<1>9. ASSUME NEW j \in 1..k - 1
      PROVE  /\ nx2[d[j]] = IF j = k - 1 THEN Null ELSE d[j + 1]
             /\ pv2[d[j]] = IF j = 1 THEN Null ELSE d[j - 1]
  <2>1. d[j] \in rest
    BY <1>4
  <2>2. CASE j \in 1..i - 1
    <3>1. j \in 1..k /\ d[j] = c[j] /\ i > 1 /\ i - 1 \in 1..k
      <4>1. i > 1 /\ i - 1 \in 1..k
        BY <1>1, <2>2
      <4> QED
        BY <1>2, <2>2, <4>1
    <3>2. nx2[d[j]] = IF j = i - 1 THEN nx[c[i]] ELSE nx[c[j]]
      <4>1. c[j] = c[i - 1] <=> j = i - 1
        BY <1>1, <3>1
      <4> QED
        BY <2>1, <3>1, <4>1
    <3>3. nx2[d[j]] = IF j = i - 1 THEN IF i = k THEN Null ELSE c[i + 1] ELSE c[j + 1]
      BY <1>1, <1>8, <2>2, <3>1, <3>2
    <3>4. /\ j # i - 1 => j + 1 \in 1..i - 1 /\ j # k - 1
          /\ j = i - 1 => (i = k <=> j = k - 1) /\ (j # k - 1 => j + 1 \in i..k - 1 /\ j + 1 + 1 = i + 1)
      BY <1>1, <2>2
    <3>5. nx2[d[j]] = IF j = k - 1 THEN Null ELSE d[j + 1]
      BY <1>2, <3>3, <3>4
    <3>6. i < k => i + 1 \in 1..k /\ c[j] # c[i + 1]
      BY <1>1, <2>2, <3>1
    <3>7. pv2[d[j]] = IF j = 1 THEN Null ELSE c[j - 1]
      BY <1>8, <2>1, <3>1, <3>6
    <3>8. j # 1 => j - 1 \in 1..i - 1
      BY <1>1, <2>2
    <3> QED
      BY <1>2, <3>5, <3>7, <3>8
  <2>3. CASE j \in i..k - 1
    <3>1. j + 1 \in 1..k /\ d[j] = c[j + 1] /\ i < k /\ i + 1 \in 1..k
      <4>1. i < k /\ i + 1 \in 1..k
        BY <1>1, <2>3
      <4> QED
        BY <1>2, <2>3, <4>1
    <3>2. pv2[d[j]] = IF j = i THEN pv[c[i]] ELSE pv[c[j + 1]]
      <4>1. c[j + 1] = c[i + 1] <=> j = i
        BY <1>1, <2>3, <3>1
      <4> QED
        BY <2>1, <3>1, <4>1
    <3>3. pv2[d[j]] = IF j = i THEN IF i = 1 THEN Null ELSE c[i - 1] ELSE c[j]
      <4>1. j + 1 # 1 /\ (j + 1) - 1 = j /\ i \in 1..k
        BY <1>1, <2>3
      <4> QED
        BY <1>8, <3>1, <3>2, <4>1
    <3>4. /\ j # i => j - 1 \in i..k - 1 /\ j # 1 /\ (j - 1) + 1 = j
          /\ j = i => (j # 1 => j - 1 \in 1..i - 1)
      BY <1>1, <2>3
    <3>5. pv2[d[j]] = IF j = 1 THEN Null ELSE d[j - 1]
      BY <1>2, <3>3, <3>4
    <3>6. i > 1 => i - 1 \in 1..k /\ c[j + 1] # c[i - 1]
      BY <1>1, <2>3, <3>1
    <3>7. nx2[d[j]] = IF j + 1 = k THEN Null ELSE c[(j + 1) + 1]
      BY <1>8, <2>1, <3>1, <3>6
    <3>8. (j + 1 = k <=> j = k - 1) /\ (j # k - 1 => j + 1 \in i..k - 1)
      BY <1>1, <2>3
    <3> QED
      BY <1>2, <3>5, <3>7, <3>8
  <2> QED
    BY <1>3, <2>2, <2>3
<1>10. /\ (IF i = 1 THEN nx[c[i]] ELSE h) = IF k - 1 = 0 THEN Null ELSE d[1]
       /\ (IF i = k THEN pv[c[i]] ELSE t) = IF k - 1 = 0 THEN Null ELSE d[k - 1]
  <2>1. i # 1 => 1 \in 1..i - 1 /\ h = c[1] /\ k - 1 # 0
    BY <1>1 DEF Linked
  <2>2. i # k => k - 1 \in i..k - 1 /\ t = c[(k - 1) + 1] /\ k - 1 # 0
    BY <1>1 DEF Linked
  <2>3. i = 1 /\ i # k => 1 \in i..k - 1
    BY <1>1
  <2>4. i = k /\ i # 1 => k - 1 \in 1..i - 1
    BY <1>1
  <2>5. nx[c[i]] = (IF i = k THEN Null ELSE c[i + 1]) /\ pv[c[i]] = IF i = 1 THEN Null ELSE c[i - 1]
    BY <1>8
  <2>6. (IF i = 1 THEN nx[c[i]] ELSE h) = IF k - 1 = 0 THEN Null ELSE d[1]
    <3>1. CASE i # 1
      BY <1>2, <2>1, <3>1
    <3>2. CASE i = 1 /\ i # k
      <4>1. k - 1 # 0 /\ d[1] = c[1 + 1]
        BY <1>2, <2>2, <2>3, <3>2
      <4> QED
        BY <2>5, <3>2, <4>1
    <3>3. CASE i = 1 /\ i = k
      BY <2>5, <3>3
    <3> QED
      BY <3>1, <3>2, <3>3
  <2>7. (IF i = k THEN pv[c[i]] ELSE t) = IF k - 1 = 0 THEN Null ELSE d[k - 1]
    <3>1. CASE i # k
      BY <1>2, <2>2, <3>1
    <3>2. CASE i = k /\ i # 1
      <4>1. k - 1 # 0 /\ d[k - 1] = c[k - 1]
        BY <1>2, <2>1, <2>4, <3>2
      <4> QED
        BY <2>5, <3>2, <4>1
    <3>3. CASE i = k /\ i = 1
      BY <2>5, <3>3
    <3> QED
      BY <3>1, <3>2, <3>3
  <2> QED
    BY <2>6, <2>7
<1>11. k - 1 \in Nat
  BY <1>1
<1> HIDE DEF rest
<1>12. Linked(rest, nx2, pv2, IF k - 1 = 0 THEN Null ELSE d[1],
             IF k - 1 = 0 THEN Null ELSE d[k - 1], d, k - 1)
  BY <1>5, <1>6, <1>7, <1>9, <1>11 DEF Linked
<1> QED
  BY <1>10, <1>12 DEF rest, d
-----------------------------------------------------------------------------
(* Walking                                                                 *)

(* The walk along the links of a list is that list: the recursion has one  *)
(* solution, and the list with NULL behind it is one.                      *)
LEMMA WalkIsChain ==
  ASSUME NEW heap, Null \notin DOMAIN heap, NEW p, NEW field,
         NEW k \in Nat, NEW c \in [1..k -> DOMAIN heap],
         \A a \in DOMAIN heap : \E i \in 1..k : c[i] = a,
         \A i, j \in 1..k : c[i] = c[j] => i = j,
         p = IF k = 0 THEN Null ELSE c[1],
         \A i \in 1..k : heap[c[i]][field] = IF i = k THEN Null ELSE c[i + 1]
  PROVE  Walk(heap, p, field) = c
<1> DEFINE nodes == DOMAIN heap
           link(a) == heap[a][field]
           Follows(f, i) == IF i = 0 THEN p
                            ELSE IF f[i - 1] \in nodes THEN link(f[i - 1]) ELSE Null
           w == [i \in 0..k |-> IF i = k THEN Null ELSE c[i + 1]]
<1>1. Cardinality(nodes) = k
  <2>1. c \in Bijection(1..k, nodes)
    BY DEF Bijection, Injection, Surjection, IsInjective
  <2>2. IsFiniteSet(1..k) /\ Cardinality(1..k) = k
    BY FS_Interval
  <2> QED
    BY <2>1, <2>2, FS_Bijection DEF ExistsBijection
<1>2. ASSUME NEW i \in 0..k PROVE w[i] = Follows(w, i)
  <2>1. CASE i = 0
    BY <2>1
  <2>2. CASE i # 0
    <3>1. i \in 1..k /\ i - 1 \in 0..k /\ i - 1 # k /\ (i - 1) + 1 = i
      BY <2>2
    <3>2. w[i - 1] = c[i] /\ c[i] \in nodes /\ link(c[i]) = w[i]
      BY <3>1
    <3> QED
      BY <2>2, <3>2
  <2> QED
    BY <2>1, <2>2
<1>3. w = [i \in 0..k |-> Follows(w, i)]
  BY <1>2
<1>4. ASSUME NEW f, f = [i \in 0..k |-> Follows(f, i)]
      PROVE  f = w
  <2> DEFINE T == {i \in Nat : i <= k => f[i] = w[i]}
  <2>1. \A i \in 0..k : f[i] = Follows(f, i) /\ w[i] = Follows(w, i)
    BY <1>2, <1>4
  <2> HIDE DEF w
  <2>2. 0 \in T
    <3>1. 0 \in 0..k
      OBVIOUS
    <3> QED
      BY <2>1, <3>1
  <2>3. ASSUME NEW m \in Nat, m \in T PROVE m + 1 \in T
    <3> SUFFICES ASSUME m + 1 <= k PROVE f[m + 1] = w[m + 1]
      OBVIOUS
    <3>1. m + 1 \in 0..k /\ m + 1 # 0 /\ (m + 1) - 1 = m /\ f[m] = w[m]
      BY <2>3
    <3> HIDE DEF link, nodes
    <3> QED
      BY <2>1, <3>1
  <2> HIDE DEF T
  <2>4. \A i \in Nat : i \in T
    BY <2>2, <2>3, Induct
  <2>5. \A i \in 0..k : f[i] = w[i]
    BY <2>4 DEF T
  <2>6. DOMAIN f = 0..k /\ DOMAIN w = 0..k
    BY <1>4 DEF w
  <2> HIDE DEF Follows
  <2> QED
    BY <1>3, <1>4, <2>5, <2>6
<1>5. \A i \in 0..k : w[i] # Null <=> i \in 0..k - 1
  <2>1. \A i \in 0..k - 1 : i + 1 \in 1..k /\ c[i + 1] # Null
    OBVIOUS
  <2> QED
    BY <2>1
<1>6. {i \in DOMAIN w : w[i] # Null} = 0..k - 1
  <2>1. DOMAIN w = 0..k /\ 0..k - 1 \subseteq 0..k
    OBVIOUS
  <2> HIDE DEF w
  <2> QED
    BY <1>5, <2>1
<1>7. Cardinality(0..k - 1) = k
  BY FS_Interval
<1>8. [i \in 1..k |-> w[i - 1]] = c
  <2>1. \A i \in 1..k : i - 1 \in 0..k /\ i - 1 # k /\ (i - 1) + 1 = i
    OBVIOUS
  <2> QED
    BY <2>1
<1>9. (CHOOSE f : f = [i \in 0..k |-> Follows(f, i)]) = w
  <2> HIDE DEF Follows, w
  <2> QED
    BY <1>3, <1>4
<1> DEFINE size == Cardinality(nodes)
           at == CHOOSE f : f = [i \in 0..size |-> Follows(f, i)]
<1>10. Walk(heap, p, field)
         = [i \in 1..Cardinality({j \in DOMAIN at : at[j] # Null}) |-> at[i - 1]]
  BY DEF Walk
<1>11. at = w
  <2> HIDE DEF Follows, w, nodes
  <2> QED
    BY <1>1, <1>9
<1> HIDE DEF at
<1> QED
  <2> HIDE DEF w
  <2>1. Walk(heap, p, field)
          = [i \in 1..Cardinality({j \in DOMAIN w : w[j] # Null}) |-> w[i - 1]]
    BY <1>10, <1>11
  <2>2. Cardinality({j \in DOMAIN w : w[j] # Null}) = k
    BY <1>6, <1>7
  <2> QED
    BY <1>8, <2>1, <2>2

(* A heap whose nodes are linked both ways.                                *)
NextLinks(heap) == [a \in DOMAIN heap |-> heap[a].next]
PrevLinks(heap) == [a \in DOMAIN heap |-> heap[a].prev]
Chain(heap, h, t, c, k) == Linked(DOMAIN heap, NextLinks(heap), PrevLinks(heap), h, t, c, k)

Backward(c, k) == [i \in 1..k |-> c[k - i + 1]]

(* Walked either way such a heap gives its nodes.                          *)
LEMMA WalksMeet ==
  ASSUME NEW heap, Null \notin DOMAIN heap, NEW h, NEW t, NEW c, NEW k,
         Chain(heap, h, t, c, k)
  PROVE  /\ Walk(heap, h, "next") = c
         /\ Walk(heap, t, "prev") = Backward(c, k)
<1> DEFINE nodes == DOMAIN heap
           d == Backward(c, k)
<1>1. /\ k \in Nat /\ c \in [1..k -> nodes]
      /\ \A a \in nodes : \E i \in 1..k : c[i] = a
      /\ \A i, j \in 1..k : c[i] = c[j] => i = j
      /\ h = IF k = 0 THEN Null ELSE c[1]
      /\ t = IF k = 0 THEN Null ELSE c[k]
      /\ \A i \in 1..k : heap[c[i]].next = IF i = k THEN Null ELSE c[i + 1]
      /\ \A i \in 1..k : heap[c[i]].prev = IF i = 1 THEN Null ELSE c[i - 1]
  BY DEF Chain, Linked, NextLinks, PrevLinks
<1>2. Walk(heap, h, "next") = c
  BY <1>1, WalkIsChain
<1>3. \A i \in 1..k : k - i + 1 \in 1..k /\ d[i] = c[k - i + 1]
  BY <1>1 DEF Backward
<1>4. d \in [1..k -> nodes]
  BY <1>1, <1>3 DEF Backward
<1> HIDE DEF d
<1>5. ASSUME NEW a \in nodes PROVE \E i \in 1..k : d[i] = a
  <2>1. PICK i \in 1..k : c[i] = a
    BY <1>1
  <2>2. k - i + 1 \in 1..k /\ k - (k - i + 1) + 1 = i
    BY <1>1
  <2> QED
    BY <1>3, <2>1, <2>2
<1>6. ASSUME NEW i \in 1..k, NEW j \in 1..k, d[i] = d[j] PROVE i = j
  <2>1. k - i + 1 = k - j + 1
    BY <1>1, <1>3, <1>6
  <2> QED
    BY <1>1, <2>1
<1>7. t = IF k = 0 THEN Null ELSE d[1]
  <2>1. k # 0 => 1 \in 1..k /\ k - 1 + 1 = k
    BY <1>1
  <2> QED
    BY <1>1, <1>3, <2>1
<1>8. ASSUME NEW i \in 1..k PROVE heap[d[i]]["prev"] = IF i = k THEN Null ELSE d[i + 1]
  <2>1. PICK l \in 1..k : l = k - i + 1
    BY <1>3
  <2>2. heap[d[i]].prev = IF l = 1 THEN Null ELSE c[l - 1]
    BY <1>1, <1>3, <2>1
  <2>3. l = 1 <=> i = k
    BY <1>1, <2>1
  <2>4. i # k => i + 1 \in 1..k /\ k - (i + 1) + 1 = l - 1
    BY <1>1, <2>1
  <2>5. i # k => d[i + 1] = c[l - 1]
    BY <1>3, <2>4
  <2> QED
    BY <2>2, <2>3, <2>5
<1>9. Walk(heap, t, "prev") = d
  <2>1. k \in Nat
    BY <1>1
  <2> QED
    BY <1>4, <1>5, <1>6, <1>7, <1>8, <2>1, WalkIsChain
<1> QED
  BY <1>2, <1>9 DEF d
-----------------------------------------------------------------------------
(* The heap                                                                *)

Heap(heap) == DOMAIN heap \subseteq Addresses /\ heap \in [DOMAIN heap -> INode]

(* The pointers and the integer of one node.                               *)
Is(heap, b, x, after, before) ==
  heap[b].item = x /\ heap[b].next = after /\ heap[b].prev = before

(* A new node next to the others.                                          *)
LEMMA NodeAdded ==
  ASSUME NEW heap, Heap(heap), NEW a \in Addresses, a \notin DOMAIN heap, NEW x \in Items,
         NEW after \in Addresses \cup {Null}, NEW before \in Addresses \cup {Null},
         NEW heap2, heap2 = New(heap, a, x, after, before)
  PROVE  /\ Heap(heap2) /\ DOMAIN heap2 = DOMAIN heap \cup {a}
         /\ Is(heap2, a, x, after, before)
         /\ \A b \in DOMAIN heap : heap2[b] = heap[b]
<1> DEFINE r == [item |-> x, next |-> after, prev |-> before]
           nodes == DOMAIN heap
<1>1. r \in INode /\ r.item = x /\ r.next = after /\ r.prev = before
  BY DEF INode
<1>2. heap \in [nodes -> INode] /\ nodes \subseteq Addresses /\ a \notin nodes
  BY DEF Heap
<1>3. heap2 = [b \in nodes \cup {a} |-> IF b = a THEN r ELSE heap[b]]
  BY DEF New
<1> HIDE DEF r
<1> HIDE DEF nodes
<1>4. DOMAIN heap2 = nodes \cup {a} /\ heap2 \in [nodes \cup {a} -> INode]
  BY <1>1, <1>2, <1>3
<1>5. heap2[a] = r /\ \A b \in nodes : heap2[b] = heap[b]
  BY <1>2, <1>3
<1> QED
  BY <1>1, <1>2, <1>4, <1>5 DEF Heap, Is, nodes

(* One pointer of a node set.                                              *)
LEMMA NextSet ==
  ASSUME NEW heap, Heap(heap), NEW d \in DOMAIN heap, NEW p \in Addresses \cup {Null},
         NEW heap2, heap2 = [heap EXCEPT ![d].next = p]
  PROVE  /\ Heap(heap2) /\ DOMAIN heap2 = DOMAIN heap
         /\ \A b \in DOMAIN heap :
              Is(heap2, b, heap[b].item, IF b = d THEN p ELSE heap[b].next, heap[b].prev)
<1> DEFINE nodes == DOMAIN heap
<1>1. heap \in [nodes -> INode] /\ nodes \subseteq Addresses
  BY DEF Heap
<1>2. \A b \in nodes : heap2[b] = IF b = d THEN [heap[b] EXCEPT !.next = p] ELSE heap[b]
  BY <1>1
<1>3. DOMAIN heap2 = nodes /\ heap2 = [b \in nodes |-> heap2[b]]
  BY <1>1
<1>4. ASSUME NEW b \in nodes
      PROVE  /\ heap2[b] \in INode
             /\ Is(heap2, b, heap[b].item, IF b = d THEN p ELSE heap[b].next, heap[b].prev)
  <2>1. heap[b] \in INode
    BY <1>1
  <2>2. heap2[b] = IF b = d THEN [heap[b] EXCEPT !.next = p] ELSE heap[b]
    BY <1>2
  <2> QED
    BY <2>1, <2>2 DEF INode, Is
<1> QED
  BY <1>1, <1>3, <1>4 DEF Heap

(* The other pointer of a node set.                                        *)
LEMMA PrevSet ==
  ASSUME NEW heap, Heap(heap), NEW d \in DOMAIN heap, NEW p \in Addresses \cup {Null},
         NEW heap2, heap2 = [heap EXCEPT ![d].prev = p]
  PROVE  /\ Heap(heap2) /\ DOMAIN heap2 = DOMAIN heap
         /\ \A b \in DOMAIN heap :
              Is(heap2, b, heap[b].item, heap[b].next, IF b = d THEN p ELSE heap[b].prev)
<1> DEFINE nodes == DOMAIN heap
<1>1. heap \in [nodes -> INode] /\ nodes \subseteq Addresses
  BY DEF Heap
<1>2. \A b \in nodes : heap2[b] = IF b = d THEN [heap[b] EXCEPT !.prev = p] ELSE heap[b]
  BY <1>1
<1>3. DOMAIN heap2 = nodes /\ heap2 = [b \in nodes |-> heap2[b]]
  BY <1>1
<1>4. ASSUME NEW b \in nodes
      PROVE  /\ heap2[b] \in INode
             /\ Is(heap2, b, heap[b].item, heap[b].next, IF b = d THEN p ELSE heap[b].prev)
  <2>1. heap[b] \in INode
    BY <1>1
  <2>2. heap2[b] = IF b = d THEN [heap[b] EXCEPT !.prev = p] ELSE heap[b]
    BY <1>2
  <2> QED
    BY <2>1, <2>2 DEF INode, Is
<1> QED
  BY <1>1, <1>3, <1>4 DEF Heap

(* The integer of a node set.                                              *)
LEMMA ItemSet ==
  ASSUME NEW heap, Heap(heap), NEW d \in DOMAIN heap, NEW x \in Items,
         NEW heap2, heap2 = [heap EXCEPT ![d].item = x]
  PROVE  /\ Heap(heap2) /\ DOMAIN heap2 = DOMAIN heap
         /\ \A b \in DOMAIN heap :
              Is(heap2, b, IF b = d THEN x ELSE heap[b].item, heap[b].next, heap[b].prev)
<1> DEFINE nodes == DOMAIN heap
<1>1. heap \in [nodes -> INode] /\ nodes \subseteq Addresses
  BY DEF Heap
<1>2. \A b \in nodes : heap2[b] = IF b = d THEN [heap[b] EXCEPT !.item = x] ELSE heap[b]
  BY <1>1
<1>3. DOMAIN heap2 = nodes /\ heap2 = [b \in nodes |-> heap2[b]]
  BY <1>1
<1>4. ASSUME NEW b \in nodes
      PROVE  /\ heap2[b] \in INode
             /\ Is(heap2, b, IF b = d THEN x ELSE heap[b].item, heap[b].next, heap[b].prev)
  <2>1. heap[b] \in INode
    BY <1>1
  <2>2. heap2[b] = IF b = d THEN [heap[b] EXCEPT !.item = x] ELSE heap[b]
    BY <1>2
  <2> QED
    BY <2>1, <2>2 DEF INode, Is
<1> QED
  BY <1>1, <1>3, <1>4 DEF Heap

(* A heap without some of its nodes.                                       *)
LEMMA NodesFreed ==
  ASSUME NEW heap, Heap(heap), NEW S, S \subseteq DOMAIN heap,
         NEW heap2, heap2 = Restrict(heap, S)
  PROVE  /\ Heap(heap2) /\ DOMAIN heap2 = S
         /\ \A b \in S : heap2[b] = heap[b]
<1>1. heap2 = [b \in S |-> heap[b]]
  BY DEF Restrict
<1> QED
  BY <1>1 DEF Heap

-----------------------------------------------------------------------------
(* What a command does to the nodes and to the integers they carry         *)

(* c are the nodes of the list in order, now and after the command.        *)
Ordered(c) == Heap(node) /\ Chain(node, head, tail, c, n)
NextOrdered(d, k) == Heap(node') /\ Chain(node', head', tail', d, k) /\ n' = k

Contents(heap, c, k) == [i \in 1..k |-> heap[c[i]].item]

(* What Ordered says, in pieces.                                           *)
LEMMA OrderedMeans ==
  ASSUME NEW c, Ordered(c)
  PROVE  /\ n \in Nat /\ c \in [1..n -> live] /\ live \subseteq Addresses
         /\ node \in [live -> INode] /\ Null \notin live
         /\ \A a \in live : \E i \in 1..n : c[i] = a
         /\ \A i, j \in 1..n : c[i] = c[j] => i = j
         /\ head = IF n = 0 THEN Null ELSE c[1]
         /\ tail = IF n = 0 THEN Null ELSE c[n]
         /\ \A i \in 1..n : node[c[i]].next = IF i = n THEN Null ELSE c[i + 1]
         /\ \A i \in 1..n : node[c[i]].prev = IF i = 1 THEN Null ELSE c[i - 1]
BY AcademicAssumption DEF Ordered, Heap, Chain, Linked, NextLinks, PrevLinks, live

(* A node put in brings its integer in at the same place.                  *)
LEMMA NodePutIn ==
  ASSUME NEW c, Ordered(c), NEW a \in Addresses, a \notin live, NEW x, NEW i \in 0..n,
         Heap(node'), live' = live \cup {a},
         Is(node', a, x, IF i = n THEN Null ELSE c[i + 1], IF i = 0 THEN Null ELSE c[i]),
         \A b \in live :
           Is(node', b, node[b].item,
              IF i > 0 /\ b = c[i] THEN a ELSE node[b].next,
              IF i < n /\ b = c[i + 1] THEN a ELSE node[b].prev),
         head' = IF i = 0 THEN a ELSE head,
         tail' = IF i = n THEN a ELSE tail,
         n' = n + 1
  PROVE  /\ NextOrdered(With(c, n, i, a), n + 1)
         /\ Contents(node', With(c, n, i, a), n + 1) = With(Contents(node, c, n), n, i, x)
<1>1. /\ n \in Nat /\ c \in [1..n -> live] /\ i \in Nat /\ i <= n
      /\ Linked(live, NextLinks(node), PrevLinks(node), head, tail, c, n)
  BY OrderedMeans DEF Ordered, Chain, live
<1> DEFINE nx2 == NextLinks(node')
           pv2 == PrevLinks(node')
<1>2. DOMAIN node' = live \cup {a}
  BY DEF live
<1>3. ASSUME NEW b \in live \cup {a}
      PROVE  /\ nx2[b] = IF b = a THEN IF i = n THEN Null ELSE c[i + 1]
                         ELSE IF i > 0 /\ b = c[i] THEN a ELSE NextLinks(node)[b]
             /\ pv2[b] = IF b = a THEN IF i = 0 THEN Null ELSE c[i]
                         ELSE IF i < n /\ b = c[i + 1] THEN a ELSE PrevLinks(node)[b]
  <2>1. nx2[b] = node'[b].next /\ pv2[b] = node'[b].prev
    BY <1>2 DEF NextLinks, PrevLinks
  <2>2. CASE b = a
    BY <2>1, <2>2 DEF Is
  <2>3. CASE b # a
    <3>1. b \in live /\ NextLinks(node)[b] = node[b].next /\ PrevLinks(node)[b] = node[b].prev
      BY <2>3 DEF NextLinks, PrevLinks, live
    <3> QED
      BY <2>1, <2>3, <3>1 DEF Is
  <2> QED
    BY <2>2, <2>3
<1>4. Linked(live \cup {a}, nx2, pv2, head', tail', With(c, n, i, a), n + 1)
  <2> DEFINE nx == NextLinks(node)
             pv == PrevLinks(node)
             nodes == live
  <2>1. Linked(nodes, nx, pv, head, tail, c, n) /\ a \notin nodes /\ i \in 0..n
    BY <1>1
  <2>2. LinksWith(nodes, nx, pv, c, n, i, a, nx2, pv2)
    BY <1>3 DEF LinksWith
  <2> HIDE DEF nx, pv, nx2, pv2, nodes
  <2>3. Linked(nodes \cup {a}, nx2, pv2, IF i = 0 THEN a ELSE head,
               IF i = n THEN a ELSE tail, With(c, n, i, a), n + 1)
    BY <2>1, <2>2, PutIn
  <2> QED
    BY <2>3 DEF nodes
<1>5. NextOrdered(With(c, n, i, a), n + 1)
  BY <1>2, <1>4 DEF NextOrdered, Chain
<1>6. ASSUME NEW j \in 1..n + 1
      PROVE  Contents(node', With(c, n, i, a), n + 1)[j] = With(Contents(node, c, n), n, i, x)[j]
  <2>1. \A m \in 1..n : c[m] \in live /\ node'[c[m]].item = node[c[m]].item
    BY <1>1 DEF Is
  <2>2. node'[a].item = x
    BY DEF Is
  <2>3. j <= i => j \in 1..n
    BY <1>1
  <2>4. j > i /\ j # i + 1 => j - 1 \in 1..n
    BY <1>1
  <2> QED
    BY <1>1, <2>1, <2>2, <2>3, <2>4 DEF Contents, With
<1>7. Contents(node', With(c, n, i, a), n + 1) = With(Contents(node, c, n), n, i, x)
  BY <1>6 DEF Contents, With
<1> QED
  BY <1>5, <1>7

(* A node taken out takes its integer along.                               *)
LEMMA NodeTakenOut ==
  ASSUME NEW c, Ordered(c), NEW i \in 1..n,
         Heap(node'), live' = live \ {c[i]},
         \A b \in live \ {c[i]} :
           Is(node', b, node[b].item,
              IF i > 1 /\ b = c[i - 1] THEN node[c[i]].next ELSE node[b].next,
              IF i < n /\ b = c[i + 1] THEN node[c[i]].prev ELSE node[b].prev),
         head' = IF i = 1 THEN node[c[i]].next ELSE head,
         tail' = IF i = n THEN node[c[i]].prev ELSE tail,
         n' = n - 1
  PROVE  /\ NextOrdered(Without(c, n, i), n - 1)
         /\ Contents(node', Without(c, n, i), n - 1) = Without(Contents(node, c, n), n, i)
<1>1. /\ n \in Nat /\ c \in [1..n -> live] /\ i \in Nat /\ 1 <= i /\ i <= n
      /\ \A j, m \in 1..n : c[j] = c[m] => j = m
      /\ Linked(live, NextLinks(node), PrevLinks(node), head, tail, c, n)
  BY OrderedMeans DEF Ordered, Chain, live
<1> DEFINE nx2 == NextLinks(node')
           pv2 == PrevLinks(node')
           nx == NextLinks(node)
           pv == PrevLinks(node)
<1>2. DOMAIN node' = live \ {c[i]}
  BY DEF live
<1>3. \A b \in live : nx[b] = node[b].next /\ pv[b] = node[b].prev
  BY DEF NextLinks, PrevLinks, live
<1>4. c[i] \in live
  BY <1>1
<1>5. ASSUME NEW b \in live \ {c[i]}
      PROVE  /\ nx2[b] = IF i > 1 /\ b = c[i - 1] THEN nx[c[i]] ELSE nx[b]
             /\ pv2[b] = IF i < n /\ b = c[i + 1] THEN pv[c[i]] ELSE pv[b]
  <2>1. nx2[b] = node'[b].next /\ pv2[b] = node'[b].prev
    BY <1>2 DEF NextLinks, PrevLinks
  <2> HIDE DEF nx, pv, nx2, pv2
  <2> QED
    BY <1>3, <1>4, <2>1 DEF Is
<1>6. head' = (IF i = 1 THEN nx[c[i]] ELSE head) /\ tail' = IF i = n THEN pv[c[i]] ELSE tail
  BY <1>3, <1>4
<1>7. Linked(live \ {c[i]}, nx2, pv2, head', tail', Without(c, n, i), n - 1)
  <2> DEFINE nodes == live
  <2>1. Linked(nodes, nx, pv, head, tail, c, n) /\ i \in 1..n
    BY <1>1 DEF nx, pv
  <2>2. LinksWithout(nodes, nx, pv, c, n, i, nx2, pv2)
    BY <1>5 DEF LinksWithout
  <2> HIDE DEF nx, pv, nx2, pv2, nodes
  <2>3. Linked(nodes \ {c[i]}, nx2, pv2, IF i = 1 THEN nx[c[i]] ELSE head,
               IF i = n THEN pv[c[i]] ELSE tail, Without(c, n, i), n - 1)
    BY <2>1, <2>2, TakenOut
  <2> QED
    BY <1>6, <2>3 DEF nodes
<1>8. NextOrdered(Without(c, n, i), n - 1)
  BY <1>2, <1>7 DEF NextOrdered, Chain
<1>9. ASSUME NEW j \in 1..n - 1
      PROVE  Contents(node', Without(c, n, i), n - 1)[j] = Without(Contents(node, c, n), n, i)[j]
  <2>1. \A m \in 1..n : m # i => c[m] \in live \ {c[i]} /\ node'[c[m]].item = node[c[m]].item
    BY <1>1 DEF Is
  <2>2. j < i => j \in 1..n /\ j # i
    BY <1>1
  <2>3. ~(j < i) => j + 1 \in 1..n /\ j + 1 # i
    BY <1>1
  <2> QED
    BY <1>1, <2>1, <2>2, <2>3 DEF Contents, Without
<1>10. Contents(node', Without(c, n, i), n - 1) = Without(Contents(node, c, n), n, i)
  BY <1>9 DEF Contents, Without
<1> QED
  BY <1>8, <1>10

(* insert_0 and insert_end put a node in at an end.                        *)
LEMMA Insert0PutsIn ==
  ASSUME NEW c, Ordered(c), NEW a \in Addresses, a \notin live, NEW x \in Items,
         Insert0(a, x)
  PROVE  /\ NextOrdered(With(c, n, 0, a), n + 1)
         /\ Contents(node', With(c, n, 0, a), n + 1) = With(Contents(node, c, n), n, 0, x)
<1> DEFINE h2 == IF head = Null THEN node ELSE [node EXCEPT ![head].prev = a]
<1>1. /\ n \in Nat /\ c \in [1..n -> live] /\ live \subseteq Addresses /\ Null \notin live
      /\ head = IF n = 0 THEN Null ELSE c[1]
      /\ tail = IF n = 0 THEN Null ELSE c[n]
      /\ Heap(node) /\ a # Null
  BY OrderedMeans, AcademicAssumption DEF Ordered
<1>2. n # 0 => 1 \in 1..n /\ n \in 1..n /\ head \in live /\ tail \in live
  BY <1>1
<1>3. head # Null <=> n # 0
  BY <1>1, <1>2
<1>4. /\ Heap(h2) /\ DOMAIN h2 = live
      /\ \A b \in live : Is(h2, b, node[b].item, node[b].next,
                            IF n # 0 /\ b = head THEN a ELSE node[b].prev)
  <2>1. CASE n = 0
    BY <1>1, <1>3, <2>1 DEF Is, live
  <2>2. CASE n # 0
    <3>1. h2 = [node EXCEPT ![head].prev = a] /\ head \in DOMAIN node
      BY <1>2, <1>3, <2>2 DEF live
    <3>2. Heap(node) /\ a \in Addresses \cup {Null}
      BY <1>1
    <3> HIDE DEF h2
    <3>3. /\ Heap(h2) /\ DOMAIN h2 = DOMAIN node
          /\ \A b \in DOMAIN node :
               Is(h2, b, node[b].item, node[b].next, IF b = head THEN a ELSE node[b].prev)
      BY <3>1, <3>2, PrevSet
    <3> QED
      BY <2>2, <3>3 DEF live
  <2> QED
    BY <2>1, <2>2
<1>5. node' = New(h2, a, x, head, Null) /\ n' = n + 1 /\ head' = a
      /\ tail' = IF tail = Null \/ n = 0 THEN a ELSE tail
  BY DEF Insert0
<1> HIDE DEF h2
<1>6. head \in Addresses \cup {Null}
  BY <1>1, <1>2
<1>7. /\ Heap(node') /\ live' = live \cup {a} /\ Is(node', a, x, head, Null)
      /\ \A b \in live : node'[b] = h2[b]
  <2> DEFINE heap2 == node'
             after == head
             before == Null
  <2>1. /\ Heap(h2) /\ a \in Addresses /\ a \notin DOMAIN h2 /\ x \in Items
        /\ after \in Addresses \cup {Null} /\ before \in Addresses \cup {Null}
        /\ heap2 = New(h2, a, x, after, before)
    BY <1>4, <1>5, <1>6
  <2> HIDE DEF heap2, after, before
  <2>2. /\ Heap(heap2) /\ DOMAIN heap2 = DOMAIN h2 \cup {a} /\ Is(heap2, a, x, after, before)
        /\ \A b \in DOMAIN h2 : heap2[b] = h2[b]
    BY <2>1, NodeAdded
  <2> QED
    BY <1>4, <2>2 DEF heap2, after, before, live
<1>8. 0 \in 0..n /\ 0 + 1 = 1 /\ (0 = n <=> n = 0) /\ (0 < n <=> n # 0)
  BY <1>1
<1>9. Is(node', a, x, IF 0 = n THEN Null ELSE c[0 + 1], IF 0 = 0 THEN Null ELSE c[0])
  BY <1>1, <1>7, <1>8
<1>10. \A b \in live :
         Is(node', b, node[b].item, IF 0 > 0 /\ b = c[0] THEN a ELSE node[b].next,
            IF 0 < n /\ b = c[0 + 1] THEN a ELSE node[b].prev)
  BY <1>1, <1>4, <1>7, <1>8 DEF Is
<1>11. head' = (IF 0 = 0 THEN a ELSE head) /\ tail' = IF 0 = n THEN a ELSE tail
  BY <1>1, <1>2, <1>5
<1> QED
  BY <1>5, <1>7, <1>8, <1>9, <1>10, <1>11, NodePutIn

(* insert_end puts the new node in behind the last.                        *)
LEMMA InsertEndPutsIn ==
  ASSUME NEW c, Ordered(c), NEW a \in Addresses, a \notin live, NEW x \in Items,
         InsertEnd(a, x)
  PROVE  /\ NextOrdered(With(c, n, n, a), n + 1)
         /\ Contents(node', With(c, n, n, a), n + 1) = With(Contents(node, c, n), n, n, x)
<1> DEFINE h2 == IF tail = Null THEN node ELSE [node EXCEPT ![tail].next = a]
<1>1. /\ n \in Nat /\ c \in [1..n -> live] /\ live \subseteq Addresses /\ Null \notin live
      /\ head = IF n = 0 THEN Null ELSE c[1]
      /\ tail = IF n = 0 THEN Null ELSE c[n]
      /\ Heap(node) /\ a # Null
  BY OrderedMeans, AcademicAssumption DEF Ordered
<1>2. n # 0 => 1 \in 1..n /\ n \in 1..n /\ head \in live /\ tail \in live
  BY <1>1
<1>3. (tail # Null <=> n # 0) /\ (head # Null <=> n # 0)
  BY <1>1, <1>2
<1>4. /\ Heap(h2) /\ DOMAIN h2 = live
      /\ \A b \in live : Is(h2, b, node[b].item,
                            IF n # 0 /\ b = tail THEN a ELSE node[b].next, node[b].prev)
  <2>1. CASE n = 0
    BY <1>1, <1>3, <2>1 DEF Is, live
  <2>2. CASE n # 0
    <3>1. h2 = [node EXCEPT ![tail].next = a] /\ tail \in DOMAIN node
      BY <1>2, <1>3, <2>2 DEF live
    <3>2. Heap(node) /\ a \in Addresses \cup {Null}
      BY <1>1
    <3> HIDE DEF h2
    <3>3. /\ Heap(h2) /\ DOMAIN h2 = DOMAIN node
          /\ \A b \in DOMAIN node :
               Is(h2, b, node[b].item, IF b = tail THEN a ELSE node[b].next, node[b].prev)
      BY <3>1, <3>2, NextSet
    <3> QED
      BY <2>2, <3>3 DEF live
  <2> QED
    BY <2>1, <2>2
<1>5. node' = New(h2, a, x, Null, tail) /\ n' = n + 1 /\ tail' = a
      /\ head' = IF head = Null THEN a ELSE head
  BY DEF InsertEnd
<1> HIDE DEF h2
<1>6. tail \in Addresses \cup {Null}
  BY <1>1, <1>2
<1>7. /\ Heap(node') /\ live' = live \cup {a} /\ Is(node', a, x, Null, tail)
      /\ \A b \in live : node'[b] = h2[b]
  <2> DEFINE heap2 == node'
             after == Null
             before == tail
  <2>1. /\ Heap(h2) /\ a \in Addresses /\ a \notin DOMAIN h2 /\ x \in Items
        /\ after \in Addresses \cup {Null} /\ before \in Addresses \cup {Null}
        /\ heap2 = New(h2, a, x, after, before)
    BY <1>4, <1>5, <1>6
  <2> HIDE DEF heap2, after, before
  <2>2. /\ Heap(heap2) /\ DOMAIN heap2 = DOMAIN h2 \cup {a} /\ Is(heap2, a, x, after, before)
        /\ \A b \in DOMAIN h2 : heap2[b] = h2[b]
    BY <2>1, NodeAdded
  <2> QED
    BY <1>4, <2>2 DEF heap2, after, before, live
<1>8. n \in 0..n /\ ~(n < n) /\ (n > 0 <=> n # 0)
  BY <1>1
<1>9. Is(node', a, x, IF n = n THEN Null ELSE c[n + 1], IF n = 0 THEN Null ELSE c[n])
  BY <1>1, <1>7
<1>10. \A b \in live :
         Is(node', b, node[b].item, IF n > 0 /\ b = c[n] THEN a ELSE node[b].next,
            IF n < n /\ b = c[n + 1] THEN a ELSE node[b].prev)
  BY <1>1, <1>4, <1>7, <1>8 DEF Is
<1>11. head' = (IF n = 0 THEN a ELSE head) /\ tail' = IF n = n THEN a ELSE tail
  BY <1>3, <1>5
<1> QED
  BY <1>5, <1>7, <1>8, <1>9, <1>10, <1>11, NodePutIn
(* delete_0, delete_end and delete_pos take a node out.                    *)
LEMMA Delete0TakesOut ==
  ASSUME NEW c, Ordered(c), Delete0
  PROVE  /\ 1 \in 1..n /\ n' = n - 1
         /\ NextOrdered(Without(c, n, 1), n - 1)
         /\ Contents(node', Without(c, n, 1), n - 1) = Without(Contents(node, c, n), n, 1)
<1> DEFINE second == node[head].next
           h2 == IF second = Null THEN node ELSE [node EXCEPT ![second].prev = Null]
<1>1. /\ n \in Nat /\ c \in [1..n -> live] /\ live \subseteq Addresses /\ Null \notin live
      /\ head = IF n = 0 THEN Null ELSE c[1]
      /\ \A i \in 1..n : node[c[i]].next = IF i = n THEN Null ELSE c[i + 1]
      /\ \A i \in 1..n : node[c[i]].prev = IF i = 1 THEN Null ELSE c[i - 1]
      /\ \A i, j \in 1..n : c[i] = c[j] => i = j
      /\ Heap(node)
  BY OrderedMeans DEF Ordered
<1>2. 1 \in 1..n /\ head = c[1] /\ n # 0
  BY <1>1 DEF Delete0
<1>3. /\ c[1] \in live /\ second = (IF n = 1 THEN Null ELSE c[1 + 1])
      /\ node[c[1]].prev = Null
  BY <1>1, <1>2
<1>4. n # 1 => 1 + 1 \in 1..n /\ c[1 + 1] \in live /\ 1 < n
  BY <1>1, <1>2
<1>5. second = Null <=> n = 1
  BY <1>1, <1>3, <1>4
<1>6. /\ Heap(h2) /\ DOMAIN h2 = live
      /\ \A b \in live : Is(h2, b, node[b].item, node[b].next,
                            IF 1 < n /\ b = c[1 + 1] THEN Null ELSE node[b].prev)
  <2>1. CASE n = 1
    BY <1>1, <1>5, <2>1 DEF Is, live
  <2>2. CASE n # 1
    <3> DEFINE nil == Null
    <3>1. /\ Heap(node) /\ nil \in Addresses \cup {Null} /\ second \in DOMAIN node
          /\ h2 = [node EXCEPT ![second].prev = nil]
      BY <1>1, <1>3, <1>4, <1>5, <2>2 DEF live
    <3> HIDE DEF h2, second, nil
    <3>2. /\ Heap(h2) /\ DOMAIN h2 = DOMAIN node
          /\ \A b \in DOMAIN node :
               Is(h2, b, node[b].item, node[b].next, IF b = second THEN nil ELSE node[b].prev)
      BY <3>1, PrevSet
    <3> QED
      BY <1>3, <1>4, <2>2, <3>2 DEF live, nil
  <2> QED
    BY <2>1, <2>2
<1>7. /\ node' = Restrict(h2, live \ {c[1]}) /\ n' = n - 1 /\ head' = second
      /\ tail' = IF second = Null THEN Null ELSE tail
  BY <1>2 DEF Delete0, Freed
<1> HIDE DEF h2
<1>8. /\ Heap(node') /\ live' = live \ {c[1]}
      /\ \A b \in live \ {c[1]} : node'[b] = h2[b]
  <2> DEFINE rest == live \ {c[1]}
             heap2 == node'
  <2>1. Heap(h2) /\ rest \subseteq DOMAIN h2 /\ heap2 = Restrict(h2, rest)
    BY <1>6, <1>7
  <2> HIDE DEF rest, heap2
  <2>2. Heap(heap2) /\ DOMAIN heap2 = rest /\ \A b \in rest : heap2[b] = h2[b]
    BY <2>1, NodesFreed
  <2> QED
    BY <2>2 DEF rest, heap2, live
<1>9. \A b \in live \ {c[1]} :
        Is(node', b, node[b].item,
           IF 1 > 1 /\ b = c[1 - 1] THEN node[c[1]].next ELSE node[b].next,
           IF 1 < n /\ b = c[1 + 1] THEN node[c[1]].prev ELSE node[b].prev)
  BY <1>3, <1>6, <1>8 DEF Is
<1>10. /\ head' = IF 1 = 1 THEN node[c[1]].next ELSE head
       /\ tail' = IF 1 = n THEN node[c[1]].prev ELSE tail
  BY <1>2, <1>3, <1>5, <1>7
<1> HIDE DEF second
<1> QED
  BY <1>2, <1>7, <1>8, <1>9, <1>10, NodeTakenOut

(* delete_end takes the last node out.                                     *)
LEMMA DeleteEndTakesOut ==
  ASSUME NEW c, Ordered(c), DeleteEnd
  PROVE  /\ n \in 1..n /\ n' = n - 1
         /\ NextOrdered(Without(c, n, n), n - 1)
         /\ Contents(node', Without(c, n, n), n - 1) = Without(Contents(node, c, n), n, n)
<1> DEFINE last == node[tail].prev
           h2 == IF last = Null THEN node ELSE [node EXCEPT ![last].next = Null]
<1>1. /\ n \in Nat /\ c \in [1..n -> live] /\ live \subseteq Addresses /\ Null \notin live
      /\ tail = IF n = 0 THEN Null ELSE c[n]
      /\ \A i \in 1..n : node[c[i]].next = IF i = n THEN Null ELSE c[i + 1]
      /\ \A i \in 1..n : node[c[i]].prev = IF i = 1 THEN Null ELSE c[i - 1]
      /\ \A i, j \in 1..n : c[i] = c[j] => i = j
      /\ Heap(node)
  BY OrderedMeans DEF Ordered
<1>2. n \in 1..n /\ tail = c[n] /\ n # 0
  BY <1>1 DEF DeleteEnd
<1>3. /\ c[n] \in live /\ last = (IF n = 1 THEN Null ELSE c[n - 1])
      /\ node[c[n]].next = Null
  BY <1>1, <1>2
<1>4. n # 1 => n - 1 \in 1..n /\ c[n - 1] \in live /\ n > 1
  BY <1>1, <1>2
<1>5. last = Null <=> n = 1
  BY <1>1, <1>3, <1>4
<1>6. /\ Heap(h2) /\ DOMAIN h2 = live
      /\ \A b \in live : Is(h2, b, node[b].item,
                            IF n > 1 /\ b = c[n - 1] THEN Null ELSE node[b].next, node[b].prev)
  <2>1. CASE n = 1
    BY <1>1, <1>5, <2>1 DEF Is, live
  <2>2. CASE n # 1
    <3> DEFINE nil == Null
    <3>1. /\ Heap(node) /\ nil \in Addresses \cup {Null} /\ last \in DOMAIN node
          /\ h2 = [node EXCEPT ![last].next = nil]
      BY <1>1, <1>3, <1>4, <1>5, <2>2 DEF live
    <3> HIDE DEF h2, last, nil
    <3>2. /\ Heap(h2) /\ DOMAIN h2 = DOMAIN node
          /\ \A b \in DOMAIN node :
               Is(h2, b, node[b].item, IF b = last THEN nil ELSE node[b].next, node[b].prev)
      BY <3>1, NextSet
    <3> QED
      BY <1>3, <1>4, <2>2, <3>2 DEF live, nil
  <2> QED
    BY <2>1, <2>2
<1>7. /\ node' = Restrict(h2, live \ {c[n]}) /\ n' = n - 1 /\ tail' = last
      /\ head' = IF last = Null THEN Null ELSE head
  BY <1>2 DEF DeleteEnd, Freed
<1> HIDE DEF h2
<1>8. /\ Heap(node') /\ live' = live \ {c[n]}
      /\ \A b \in live \ {c[n]} : node'[b] = h2[b]
  <2> DEFINE rest == live \ {c[n]}
             heap2 == node'
  <2>1. Heap(h2) /\ rest \subseteq DOMAIN h2 /\ heap2 = Restrict(h2, rest)
    BY <1>6, <1>7
  <2> HIDE DEF rest, heap2
  <2>2. Heap(heap2) /\ DOMAIN heap2 = rest /\ \A b \in rest : heap2[b] = h2[b]
    BY <2>1, NodesFreed
  <2> QED
    BY <2>2 DEF rest, heap2, live
<1>9. \A b \in live \ {c[n]} :
        Is(node', b, node[b].item,
           IF n > 1 /\ b = c[n - 1] THEN node[c[n]].next ELSE node[b].next,
           IF n < n /\ b = c[n + 1] THEN node[c[n]].prev ELSE node[b].prev)
  <2>1. ~(n < n)
    BY <1>1
  <2> QED
    BY <1>3, <1>6, <1>8, <2>1 DEF Is
<1>10. /\ head' = IF n = 1 THEN node[c[n]].next ELSE head
       /\ tail' = IF n = n THEN node[c[n]].prev ELSE tail
  BY <1>2, <1>3, <1>5, <1>7
<1> HIDE DEF last
<1> QED
  BY <1>2, <1>7, <1>8, <1>9, <1>10, NodeTakenOut

(* The assignments of delete_pos in the middle.                            *)
LEMMA MiddleTakenOut ==
  ASSUME NEW c, Ordered(c), NEW i \in 1..n, i > 1, i < n,
         node' = Freed(Unlink(c[i]), c[i]), n' = n - 1, UNCHANGED <<head, tail>>
  PROVE  /\ NextOrdered(Without(c, n, i), n - 1)
         /\ Contents(node', Without(c, n, i), n - 1) = Without(Contents(node, c, n), n, i)
<1> DEFINE a == c[i]
           before == c[i - 1]
           after == c[i + 1]
           h1 == [node EXCEPT ![before].next = after]
           h2 == [h1 EXCEPT ![after].prev = before]
<1>1. /\ n \in Nat /\ c \in [1..n -> live] /\ live \subseteq Addresses
      /\ \A j \in 1..n : node[c[j]].next = IF j = n THEN Null ELSE c[j + 1]
      /\ \A j \in 1..n : node[c[j]].prev = IF j = 1 THEN Null ELSE c[j - 1]
      /\ Heap(node)
  BY OrderedMeans DEF Ordered
<1>2. /\ i - 1 \in 1..n /\ i + 1 \in 1..n /\ i # 1 /\ i # n
  BY <1>1
<1>3. /\ a \in live /\ before \in live /\ after \in live
      /\ node[a].next = after /\ node[a].prev = before
  BY <1>1, <1>2
<1>4. Unlink(a) = h2
  BY <1>3 DEF Unlink
<1> HIDE DEF a, before, after
<1>5. /\ Heap(h1) /\ DOMAIN h1 = live
      /\ \A b \in live :
           Is(h1, b, node[b].item, IF b = before THEN after ELSE node[b].next, node[b].prev)
  <2>1. Heap(node) /\ before \in DOMAIN node /\ after \in Addresses \cup {Null}
        /\ h1 = [node EXCEPT ![before].next = after]
    BY <1>1, <1>3 DEF live
  <2> HIDE DEF h1
  <2> QED
    BY <2>1, NextSet DEF live
<1> HIDE DEF h1
<1>6. /\ Heap(h2) /\ DOMAIN h2 = live
      /\ \A b \in live :
           Is(h2, b, node[b].item, IF b = before THEN after ELSE node[b].next,
              IF b = after THEN before ELSE node[b].prev)
  <2>1. Heap(h1) /\ after \in DOMAIN h1 /\ before \in Addresses \cup {Null}
        /\ h2 = [h1 EXCEPT ![after].prev = before]
    BY <1>1, <1>3, <1>5
  <2> HIDE DEF h2
  <2>2. /\ Heap(h2) /\ DOMAIN h2 = DOMAIN h1
        /\ \A b \in DOMAIN h1 :
             Is(h2, b, h1[b].item, h1[b].next, IF b = after THEN before ELSE h1[b].prev)
    BY <2>1, PrevSet
  <2> QED
    BY <1>5, <2>2 DEF Is
<1> HIDE DEF h2
<1>7. /\ Heap(node') /\ live' = live \ {a}
      /\ \A b \in live \ {a} : node'[b] = h2[b]
  <2> DEFINE rest == live \ {a}
             heap2 == node'
  <2>1. Heap(h2) /\ rest \subseteq DOMAIN h2 /\ heap2 = Restrict(h2, rest)
    BY <1>4, <1>6 DEF Freed, a
  <2> HIDE DEF rest, heap2
  <2>2. Heap(heap2) /\ DOMAIN heap2 = rest /\ \A b \in rest : heap2[b] = h2[b]
    BY <2>1, NodesFreed
  <2> QED
    BY <2>2 DEF rest, heap2, live
<1>8. \A b \in live \ {c[i]} :
        Is(node', b, node[b].item,
           IF i > 1 /\ b = c[i - 1] THEN node[c[i]].next ELSE node[b].next,
           IF i < n /\ b = c[i + 1] THEN node[c[i]].prev ELSE node[b].prev)
  <2>1. \A b \in live \ {a} :
          Is(node', b, node[b].item, IF b = before THEN node[a].next ELSE node[b].next,
             IF b = after THEN node[a].prev ELSE node[b].prev)
    BY <1>3, <1>6, <1>7 DEF Is
  <2> QED
    BY <2>1 DEF a, before, after
<1>9. /\ head' = IF i = 1 THEN node[c[i]].next ELSE head
      /\ tail' = IF i = n THEN node[c[i]].prev ELSE tail
      /\ live' = live \ {c[i]}
  BY <1>2, <1>7 DEF a
<1> QED
  BY <1>7, <1>8, <1>9, NodeTakenOut
(* The walks of an ordered list and what it prints.                        *)
LEMMA WalksAre ==
  ASSUME NEW c, Ordered(c)
  PROVE  /\ Forward = c /\ ItemsOf(Forward) = Contents(node, c, n)
         /\ Walk(node, tail, "prev") = Backward(c, n)
<1>1. Null \notin DOMAIN node /\ Chain(node, head, tail, c, n)
  BY AcademicAssumption DEF Ordered, Heap
<1>2. Forward = c /\ Walk(node, tail, "prev") = Backward(c, n)
  BY <1>1, WalksMeet DEF Forward
<1>3. DOMAIN c = 1..n
  BY OrderedMeans
<1> QED
  BY <1>2, <1>3 DEF ItemsOf, Contents

(* The same of the heap a command leaves.                                  *)
LEMMA NextItemsAre ==
  ASSUME NEW d, NEW k, NextOrdered(d, k)
  PROVE  ItemsOf(Forward)' = Contents(node', d, k)
<1> DEFINE heap2 == node'
<1>1. Null \notin DOMAIN heap2 /\ Chain(heap2, head', tail', d, k)
  BY AcademicAssumption DEF NextOrdered, Heap
<1>2. DOMAIN d = 1..k
  BY DEF NextOrdered, Chain, Linked
<1> HIDE DEF heap2
<1>3. Walk(heap2, head', "next") = d
  BY <1>1, WalksMeet
<1>4. Forward' = d
  BY <1>3 DEF Forward, heap2
<1> QED
  BY <1>2, <1>4 DEF ItemsOf, Contents

(* A valid position is taken out, whichever of the three ways is used.     *)
LEMMA DeletePosTakesOut ==
  ASSUME NEW c, Ordered(c), NEW pos \in Int, DeletePos(pos), pos >= 0, pos < n
  PROVE  /\ pos + 1 \in 1..n
         /\ NextOrdered(Without(c, n, pos + 1), n - 1)
         /\ Contents(node', Without(c, n, pos + 1), n - 1)
              = Without(Contents(node, c, n), n, pos + 1)
         /\ answer' = Silence /\ running' = running
<1>1. n \in Nat /\ pos + 1 \in 1..n /\ Forward = c
  BY OrderedMeans, WalksAre
<1>2. CASE pos = 0 /\ Delete0
  <2>1. pos + 1 = 1
    BY <1>2
  <2>2. answer' = Silence /\ running' = running
    BY <1>2 DEF Delete0
  <2> QED
    BY <1>1, <1>2, <2>1, <2>2, Delete0TakesOut
<1>3. CASE pos > 0 /\ pos = n - 1 /\ DeleteEnd
  <2>1. pos + 1 = n
    BY <1>1, <1>3
  <2>2. answer' = Silence /\ running' = running
    BY <1>3 DEF DeleteEnd
  <2> QED
    BY <1>1, <1>3, <2>1, <2>2, DeleteEndTakesOut
<1>4. CASE /\ pos > 0 /\ pos < n - 1
           /\ node' = Freed(Unlink(Forward[pos + 1]), Forward[pos + 1])
           /\ n' = n - 1
           /\ answer' = Silence /\ UNCHANGED <<head, tail, running>>
  <2> DEFINE i == pos + 1
  <2>1. /\ i \in 1..n /\ i > 1 /\ i < n
        /\ node' = Freed(Unlink(c[i]), c[i]) /\ n' = n - 1 /\ UNCHANGED <<head, tail>>
    BY <1>1, <1>4
  <2> HIDE DEF i
  <2>2. /\ NextOrdered(Without(c, n, i), n - 1)
        /\ Contents(node', Without(c, n, i), n - 1) = Without(Contents(node, c, n), n, i)
    BY <2>1, MiddleTakenOut
  <2> QED
    BY <1>1, <1>4, <2>2 DEF i
<1>5. ~(pos < 0 \/ pos >= n)
  BY <1>1
<1> QED
  BY <1>2, <1>3, <1>4, <1>5 DEF DeletePos

(* Nothing left.                                                           *)
None == [i \in 1..0 |-> Null]

(* clear and the destructor leave no node and no list.                     *)
LEMMA AllTakenOut ==
  ASSUME NEW c, Ordered(c), DeleteAll
  PROVE  NextOrdered(None, 0) /\ Contents(node', None, 0) = <<>>
<1>1. ToSet(Forward) = live
  <2>1. /\ c \in [1..n -> live] /\ Forward = c
        /\ \A a \in live : \E i \in 1..n : c[i] = a
    BY OrderedMeans, WalksAre
  <2> QED
    BY <2>1 DEF ToSet
<1>2. node' = Restrict(node, {}) /\ head' = Null /\ tail' = Null /\ n' = 0
  BY <1>1 DEF DeleteAll
<1>3. Heap(node') /\ DOMAIN node' = {}
  <2> DEFINE none == {}
             heap2 == node'
  <2>1. Heap(node) /\ none \subseteq DOMAIN node /\ heap2 = Restrict(node, none)
    BY <1>2 DEF Ordered
  <2> HIDE DEF none, heap2
  <2>2. Heap(heap2) /\ DOMAIN heap2 = none
    BY <2>1, NodesFreed
  <2> QED
    BY <2>2 DEF none, heap2
<1>4. None \in [1..0 -> {}]
  BY DEF None
<1>5. Linked({}, NextLinks(node'), PrevLinks(node'), Null, Null, None, 0)
  BY <1>4 DEF Linked
<1>6. NextOrdered(None, 0)
  BY <1>2, <1>3, <1>5 DEF NextOrdered, Chain
<1>7. Contents(node', None, 0) = <<>>
  BY DEF Contents
<1> QED
  BY <1>6, <1>7

(* The loops of invert_range: the k first nodes are done.                  *)
Inverted(heap, c, k, pos1, pos2) ==
  /\ Heap(heap) /\ DOMAIN heap = live
  /\ \A j \in 1..n :
       Is(heap, c[j],
          IF j <= k /\ pos1 < j /\ j <= pos2 + 1 THEN node[c[pos1 + pos2 + 2 - j]].item
          ELSE node[c[j]].item,
          node[c[j]].next, node[c[j]].prev)

(* Both loops of invert_range together: the items of the range are the old *)
(* ones in reverse, read from the copy the first loop made.                *)
LEMMA RangeInverted ==
  ASSUME NEW c, Ordered(c), NEW pos1 \in Int, NEW pos2 \in Int,
         pos1 >= 0, pos2 < n, pos1 <= pos2, InvertRange(pos1, pos2)
  PROVE  /\ Inverted(node', c, pos2 + 1, pos1, pos2)
         /\ answer' = Silence /\ UNCHANGED <<n, head, tail, running>>
<1> DEFINE old == ItemsOf(Forward)
           put(heap, k) == IF InRange(k - 1, pos1, pos2)
                           THEN [heap EXCEPT ![Forward[k]].item = old[pos1 + pos2 - (k - 1) + 1]]
                           ELSE heap
           Loop(f) == f = [k \in 0..n |-> IF k = 0 THEN node ELSE put(f[k - 1], k)]
<1>1. /\ n \in Nat /\ c \in [1..n -> live] /\ live \subseteq Addresses
      /\ node \in [live -> INode] /\ Heap(node)
      /\ \A i, j \in 1..n : c[i] = c[j] => i = j
      /\ Forward = c /\ old = Contents(node, c, n)
      /\ pos1 \in Nat /\ pos2 \in 0..n - 1
  BY OrderedMeans, WalksAre DEF Ordered
<1>2. \A j \in 1..n : old[j] = node[c[j]].item /\ old[j] \in Items
  BY <1>1 DEF Contents, INode
<1>3. /\ node' = (CHOOSE f : Loop(f))[pos2 + 1]
      /\ answer' = Silence /\ UNCHANGED <<n, head, tail, running>>
  <2>1. ~(pos1 < 0 \/ pos2 >= n \/ pos1 > pos2)
    BY <1>1
  <2> QED
    BY <2>1 DEF InvertRange
<1> HIDE DEF old
<1>4. ASSUME NEW k \in 1..n, NEW heap, Inverted(heap, c, k - 1, pos1, pos2)
      PROVE  Inverted(put(heap, k), c, k, pos1, pos2)
  <2> DEFINE heap2 == put(heap, k)
             x == node[c[pos1 + pos2 + 2 - k]].item
  <2>1. k \in Nat /\ c[k] \in live
    BY <1>1
  <2>2. CASE InRange(k - 1, pos1, pos2)
    <3>1. pos1 < k /\ k <= pos2 + 1 /\ pos1 + pos2 + 2 - k \in 1..n
          /\ pos1 + pos2 - (k - 1) + 1 = pos1 + pos2 + 2 - k
      BY <1>1, <2>1, <2>2 DEF InRange
    <3>2. old[pos1 + pos2 - (k - 1) + 1] = x /\ x \in Items
      BY <1>2, <3>1
    <3>3. heap2 = [heap EXCEPT ![c[k]].item = x]
      BY <1>1, <2>2, <3>2
    <3> HIDE DEF heap2, put
    <3>4. Heap(heap) /\ c[k] \in DOMAIN heap
      BY <1>4, <2>1 DEF Inverted
    <3> DEFINE y == x
               d == c[k]
    <3>5. heap2 = [heap EXCEPT ![d].item = y] /\ d \in DOMAIN heap /\ y \in Items
      BY <3>2, <3>3, <3>4
    <3> HIDE DEF y, d
    <3>6. /\ Heap(heap2) /\ DOMAIN heap2 = DOMAIN heap
          /\ \A b \in DOMAIN heap :
               Is(heap2, b, IF b = d THEN y ELSE heap[b].item, heap[b].next, heap[b].prev)
      BY <3>4, <3>5, ItemSet
    <3>7. ASSUME NEW j \in 1..n
          PROVE  Is(heap2, c[j],
                    IF j <= k /\ pos1 < j /\ j <= pos2 + 1 THEN node[c[pos1 + pos2 + 2 - j]].item
                    ELSE node[c[j]].item, node[c[j]].next, node[c[j]].prev)
      <4>1. Is(heap, c[j],
               IF j <= k - 1 /\ pos1 < j /\ j <= pos2 + 1 THEN node[c[pos1 + pos2 + 2 - j]].item
               ELSE node[c[j]].item, node[c[j]].next, node[c[j]].prev)
        BY <1>4 DEF Inverted
      <4>2. c[j] \in DOMAIN heap /\ (c[j] = d <=> j = k)
        BY <1>1, <1>4 DEF Inverted, d
      <4>3. Is(heap2, c[j], IF j = k THEN y ELSE heap[c[j]].item, heap[c[j]].next, heap[c[j]].prev)
        BY <3>6, <4>2
      <4>4. j # k => (j <= k <=> j <= k - 1)
        BY <2>1
      <4>5. CASE j = k
        <5>1. heap[c[j]].next = node[c[j]].next /\ heap[c[j]].prev = node[c[j]].prev
          BY <4>1 DEF Is
        <5> QED
          BY <2>1, <3>1, <4>3, <4>5, <5>1 DEF Is, y, x
      <4>6. CASE j # k
        BY <4>1, <4>3, <4>4, <4>6 DEF Is
      <4> QED
        BY <4>5, <4>6
    <3>8. Inverted(heap2, c, k, pos1, pos2)
      BY <1>4, <3>6, <3>7 DEF Inverted
    <3> QED
      BY <3>8 DEF heap2
  <2>3. CASE ~InRange(k - 1, pos1, pos2)
    <3>1. heap2 = heap
      BY <2>3
    <3>2. ~(pos1 < k /\ k <= pos2 + 1)
      BY <1>1, <2>1, <2>3 DEF InRange
    <3>3. \A j \in 1..n : j <= k /\ pos1 < j /\ j <= pos2 + 1
                            <=> j <= k - 1 /\ pos1 < j /\ j <= pos2 + 1
      BY <1>1, <2>1, <3>2
    <3> HIDE DEF heap2
    <3>4. Inverted(heap2, c, k, pos1, pos2)
      BY <1>4, <3>1, <3>3 DEF Inverted
    <3> QED
      BY <3>4 DEF heap2
  <2> QED
    BY <2>2, <2>3
<1>5. Inverted(node, c, 0, pos1, pos2)
  <2>1. \A j \in 1..n : ~(j <= 0)
    BY <1>1
  <2> QED
    BY <1>1, <2>1 DEF Inverted, Is, live
<1> DEFINE V == [live -> INode]
<1>6. ASSUME NEW heap \in V, NEW k \in 1..n PROVE put(heap, k) \in V
  <2>1. c[k] \in live /\ Forward[k] = c[k]
    BY <1>1
  <2>2. CASE InRange(k - 1, pos1, pos2)
    <3>1. pos1 + pos2 - (k - 1) + 1 \in 1..n
      BY <1>1, <2>2 DEF InRange
    <3> DEFINE x == old[pos1 + pos2 - (k - 1) + 1]
               d == c[k]
               heap2 == put(heap, k)
    <3>2. x \in Items
      BY <1>2, <3>1
    <3>3. heap2 = [heap EXCEPT ![d].item = x]
      BY <2>1, <2>2
    <3> HIDE DEF x, d, heap2
    <3>4. Heap(heap) /\ d \in DOMAIN heap
      BY <1>1, <2>1 DEF Heap, d
    <3>5. Heap(heap2) /\ DOMAIN heap2 = DOMAIN heap
      BY <3>2, <3>3, <3>4, ItemSet
    <3> QED
      BY <3>5 DEF Heap, heap2
  <2> QED
    BY <2>2
<1> HIDE DEF put
<1>7. ASSUME NEW f, Loop(f) PROVE Inverted(f[pos2 + 1], c, pos2 + 1, pos1, pos2)
  <2> DEFINE T == {k \in Nat : k <= n => Inverted(f[k], c, k, pos1, pos2)}
  <2>1. \A k \in 0..n : f[k] = IF k = 0 THEN node ELSE put(f[k - 1], k)
    BY <1>7
  <2> HIDE DEF Loop
  <2>2. 0 \in T
    BY <1>1, <1>5, <2>1
  <2>3. ASSUME NEW k \in Nat, k \in T PROVE k + 1 \in T
    <3> SUFFICES ASSUME k + 1 <= n PROVE Inverted(f[k + 1], c, k + 1, pos1, pos2)
      OBVIOUS
    <3>1. k + 1 \in 1..n /\ k + 1 \in 0..n /\ k + 1 # 0 /\ (k + 1) - 1 = k /\ k <= n
      BY <1>1
    <3>2. Inverted(f[k], c, (k + 1) - 1, pos1, pos2) /\ f[k + 1] = put(f[k], k + 1)
      BY <2>1, <2>3, <3>1
    <3> QED
      BY <1>4, <3>1, <3>2
  <2> HIDE DEF T
  <2>4. pos2 + 1 \in T
    BY <1>1, <2>2, <2>3, Induct
  <2> QED
    BY <1>1, <2>4 DEF T
<1>8. \E f : Loop(f)
  <2> DEFINE step == [k \in 1..n |-> [heap \in V |-> put(heap, k)]]
  <2>1. step \in [1..n -> [V -> V]] /\ node \in V
    BY <1>1, <1>6
  <2>2. \A k \in 1..n : \A heap \in V : step[k][heap] = put(heap, k)
    OBVIOUS
  <2> DEFINE base == node
             m == n
  <2>3. base \in V /\ m \in Nat /\ step \in [1..m -> [V -> V]]
    BY <1>1, <2>1
  <2> HIDE DEF step, V, base, m
  <2>4. \E f : Runs(f, V, base, m, step)
    BY <2>3, Recursion
  <2>5. PICK f \in [0..n -> V] : f[0] = node /\ \A k \in 1..n : f[k] = step[k][f[k - 1]]
    BY <2>4 DEF base, m, Runs
  <2>6. ASSUME NEW k \in 0..n PROVE f[k] = IF k = 0 THEN node ELSE put(f[k - 1], k)
    <3>1. k # 0 => k \in 1..n /\ k - 1 \in 0..n
      BY <1>1
    <3> QED
      BY <2>2, <2>5, <3>1
  <2>7. Loop(f)
    BY <2>5, <2>6
  <2> QED
    BY <2>7
<1> HIDE DEF Loop
<1> QED
  BY <1>3, <1>7, <1>8
-----------------------------------------------------------------------------
(* The invariant                                                           *)

(* The nodes are in some order a list both ways.                           *)
Chained == running \in BOOLEAN /\ \E c : Ordered(c)

(* What the commands that only print do to the list                        *)
NothingChanged == UNCHANGED <<n, head, tail, node>>

(* A command that touches no node leaves the list.                         *)
LEMMA UnchangedOrdered ==
  ASSUME NEW c, Ordered(c), NothingChanged
  PROVE  NextOrdered(c, n) /\ Contents(node', c, n) = Contents(node, c, n)
BY DEF Ordered, NextOrdered, NothingChanged, Contents

(* Items changed, the links not.                                           *)
LEMMA InvertedOrdered ==
  ASSUME NEW c, Ordered(c), NEW k, NEW pos1, NEW pos2, Inverted(node', c, k, pos1, pos2),
         UNCHANGED <<n, head, tail>>
  PROVE  NextOrdered(c, n)
<1>1. /\ n \in Nat /\ c \in [1..n -> live]
      /\ \A a \in live : \E i \in 1..n : c[i] = a
      /\ \A i, j \in 1..n : c[i] = c[j] => i = j
      /\ head = IF n = 0 THEN Null ELSE c[1]
      /\ tail = IF n = 0 THEN Null ELSE c[n]
      /\ \A i \in 1..n : node[c[i]].next = IF i = n THEN Null ELSE c[i + 1]
      /\ \A i \in 1..n : node[c[i]].prev = IF i = 1 THEN Null ELSE c[i - 1]
  BY OrderedMeans
<1>2. /\ Heap(node') /\ DOMAIN node' = live
      /\ \A j \in 1..n : node'[c[j]].next = node[c[j]].next /\ node'[c[j]].prev = node[c[j]].prev
  BY DEF Inverted, Is
<1>3. \A j \in 1..n : /\ NextLinks(node')[c[j]] = node[c[j]].next
                      /\ PrevLinks(node')[c[j]] = node[c[j]].prev
  BY <1>1, <1>2 DEF NextLinks, PrevLinks
<1>4. Linked(live, NextLinks(node'), PrevLinks(node'), head, tail, c, n)
  BY <1>1, <1>3 DEF Linked
<1> QED
  BY <1>2, <1>4 DEF NextOrdered, Chain

(* Every command keeps the list.                                           *)
LEMMA CommandKeepsOrder ==
  ASSUME NEW c, Ordered(c), [AcademicNext]_academicVars
  PROVE  \E d, k : NextOrdered(d, k)
<1>1. CASE UNCHANGED academicVars
  BY <1>1, UnchangedOrdered DEF academicVars, NothingChanged
<1>2. ASSUME NEW a \in Addresses \ live, NEW x \in Items, Insert0(a, x) \/ InsertEnd(a, x)
      PROVE  \E d, k : NextOrdered(d, k)
  BY <1>2, Insert0PutsIn, InsertEndPutsIn
<1>3. CASE Delete0 \/ DeleteEnd
  BY <1>3, Delete0TakesOut, DeleteEndTakesOut
<1>4. CASE DeleteAll
  BY <1>4, AllTakenOut
<1>5. ASSUME NEW pos \in Positions, DeletePos(pos)
      PROVE  \E d, k : NextOrdered(d, k)
  <2>1. pos \in Int /\ n \in Nat
    BY AcademicAssumption, OrderedMeans
  <2>2. CASE pos >= 0 /\ pos < n
    BY <1>5, <2>1, <2>2, DeletePosTakesOut
  <2>3. CASE ~(pos >= 0 /\ pos < n)
    <3>1. NothingChanged
      BY <1>5, <2>1, <2>3 DEF DeletePos, Says, NothingChanged
    <3> QED
      BY <3>1, UnchangedOrdered
  <2> QED
    BY <2>2, <2>3
<1>6. ASSUME NEW pos1 \in Positions, NEW pos2 \in Positions, InvertRange(pos1, pos2)
      PROVE  \E d, k : NextOrdered(d, k)
  <2>1. pos1 \in Int /\ pos2 \in Int /\ n \in Nat
    BY AcademicAssumption, OrderedMeans
  <2>2. CASE pos1 >= 0 /\ pos2 < n /\ pos1 <= pos2
    BY <1>6, <2>1, <2>2, RangeInverted, InvertedOrdered
  <2>3. CASE ~(pos1 >= 0 /\ pos2 < n /\ pos1 <= pos2)
    <3>1. NothingChanged
      BY <1>6, <2>1, <2>3 DEF InvertRange, Says, NothingChanged
    <3> QED
      BY <3>1, UnchangedOrdered
  <2> QED
    BY <2>2, <2>3
<1>7. ASSUME NEW what, Says(what) PROVE \E d, k : NextOrdered(d, k)
  BY <1>7, UnchangedOrdered DEF Says, NothingChanged
<1>8. CASE Return
  <2>1. CASE DeleteAll
    BY <1>4, <2>1
  <2>2. CASE NothingChanged
    BY <2>2, UnchangedOrdered
  <2> QED
    BY <1>8, <2>1, <2>2 DEF Return, NothingChanged
<1>9. CASE \/ SayEmpty \/ Print0 \/ PrintEnd \/ PrintAll \/ Dim \/ FindMax
           \/ \E x \in Items : Find(x)
  BY <1>7, <1>9 DEF SayEmpty, Print0, PrintEnd, PrintAll, Dim, FindMax, Find
<1> QED
  BY <1>1, <1>2, <1>3, <1>4, <1>5, <1>6, <1>8, <1>9 DEF AcademicNext, Clear

(* The inductive invariant: set up by the constructor, kept by every line. *)
LEMMA ChainedInductive ==
  /\ AcademicInit => Chained
  /\ Chained /\ [AcademicNext]_academicVars => Chained'
<1>1. AcademicInit => Chained
  <2> SUFFICES ASSUME AcademicInit PROVE Chained
    OBVIOUS
  <2>1. Heap(node) /\ DOMAIN node = {}
    <3>1. <<>> \in Seq(INode) /\ Len(<<>>) = 0
      OBVIOUS
    <3>2. <<>> \in [1..0 -> INode]
      BY <3>1, LenProperties
    <3>3. 1..0 = {}
      OBVIOUS
    <3> QED
      BY <3>2, <3>3 DEF AcademicInit, Heap
  <2>2. None \in [1..0 -> {}]
    BY DEF None
  <2>3. Linked({}, NextLinks(node), PrevLinks(node), Null, Null, None, 0)
    BY <2>2 DEF Linked
  <2>4. Ordered(None)
    BY <2>1, <2>3 DEF Ordered, Chain, AcademicInit
  <2>5. running \in BOOLEAN
    BY DEF AcademicInit
  <2> QED
    BY <2>4, <2>5 DEF Chained
<1>2. Chained /\ [AcademicNext]_academicVars => Chained'
  <2> SUFFICES ASSUME Chained, [AcademicNext]_academicVars PROVE Chained'
    OBVIOUS
  <2>1. PICK c : Ordered(c)
    BY DEF Chained
  <2>2. PICK d, k : NextOrdered(d, k)
    BY <2>1, CommandKeepsOrder
  <2>3. Ordered(d)'
    BY <2>2 DEF NextOrdered, Ordered
  <2>4. running' \in BOOLEAN
    BY DEF Chained, AcademicNext, academicVars, Insert0, InsertEnd, Delete0, DeleteEnd,
           Clear, SayEmpty, Print0, PrintEnd, PrintAll, Dim, FindMax, Find, DeletePos,
           InvertRange, Return, Says
  <2> QED
    BY <2>3, <2>4 DEF Chained
<1> QED
  BY <1>1, <1>2

(* It implies what the runs check: every node is met once from either end. *)
LEMMA ChainedLinksBothWays ==
  ASSUME Chained PROVE AcademicTypeOK /\ LinkedBothWays
<1>1. PICK c : Ordered(c)
  BY DEF Chained
<1>2. /\ n \in Nat /\ c \in [1..n -> live] /\ live \subseteq Addresses
      /\ node \in [live -> INode]
      /\ \A a \in live : \E i \in 1..n : c[i] = a
      /\ \A i, j \in 1..n : c[i] = c[j] => i = j
      /\ head = IF n = 0 THEN Null ELSE c[1]
      /\ tail = IF n = 0 THEN Null ELSE c[n]
  BY <1>1, OrderedMeans
<1>3. Cardinality(live) = n
  <2>1. c \in Bijection(1..n, live)
    BY <1>2 DEF Bijection, Injection, Surjection, IsInjective
  <2>2. IsFiniteSet(1..n) /\ Cardinality(1..n) = n
    BY <1>2, FS_Interval
  <2> QED
    BY <2>1, <2>2, FS_Bijection DEF ExistsBijection
<1>4. n \in 0..Cardinality(Addresses)
  <2>1. Cardinality(live) <= Cardinality(Addresses) /\ Cardinality(Addresses) \in Nat
    BY <1>2, AcademicAssumption, FS_Subset, FS_CardinalityType
  <2> QED
    BY <1>2, <1>3, <2>1
<1>5. n # 0 => 1 \in 1..n /\ n \in 1..n
  BY <1>2
<1>6. AcademicTypeOK
  BY <1>2, <1>4, <1>5 DEF AcademicTypeOK, Chained
<1>7. Forward = c /\ Walk(node, tail, "prev") = Backward(c, n)
  BY <1>1, WalksAre
<1>8. c \in Seq(live) /\ Len(c) = n
  BY <1>2
<1>9. ToSet(c) = live
  BY <1>2 DEF ToSet
<1>10. Backward(c, n) = Reverse(c)
  BY <1>8 DEF Backward, Reverse
<1> QED
  BY <1>3, <1>6, <1>7, <1>8, <1>9, <1>10 DEF LinkedBothWays

(* head, tail and every link lead to a node in use or nowhere, and n stays *)
(* in its range: no command follows a pointer that leads nowhere.          *)
THEOREM AcademicTypes == AcademicSpec => []AcademicTypeOK
<1>1. Chained => AcademicTypeOK
  BY ChainedLinksBothWays
<1> QED
  BY <1>1, ChainedInductive, PTL DEF AcademicSpec

(* After any commands, in any order and with any integers and positions,   *)
(* the nodes in use are one list of n that is walked whole from both ends. *)
THEOREM AlwaysLinkedBothWays == AcademicSpec => []LinkedBothWays
<1>1. Chained => LinkedBothWays
  BY ChainedLinksBothWays
<1> QED
  BY <1>1, ChainedInductive, PTL DEF AcademicSpec
-----------------------------------------------------------------------------
(* Sequences                                                               *)

(* A part of a sequence, also an empty one.                                *)
LEMMA Part ==
  ASSUME NEW S, NEW s \in Seq(S), NEW p \in Int, NEW q \in Int,
         1 <= p, q <= Len(s), p <= q + 1
  PROVE  /\ SubSeq(s, p, q) \in Seq(S) /\ Len(SubSeq(s, p, q)) = q - p + 1
         /\ \A i \in 1..q - p + 1 : SubSeq(s, p, q)[i] = s[p + i - 1]
<1>1. Len(s) \in Nat /\ s \in [1..Len(s) -> S]
  BY LenProperties
<1>2. \A i \in p..q : s[i] \in S
  BY <1>1
<1>3. /\ SubSeq(s, p, q) \in Seq(S)
      /\ Len(SubSeq(s, p, q)) = IF p <= q THEN q - p + 1 ELSE 0
      /\ \A i \in 1..q - p + 1 : SubSeq(s, p, q)[i] = s[p + i - 1]
  BY <1>2, SubSeqProperties
<1> QED
  BY <1>3

(* An item put in at an end of a sequence, or taken out of it.             *)
LEMMA PutInFront ==
  ASSUME NEW S, NEW s \in Seq(S), NEW x \in S
  PROVE  With(s, Len(s), 0, x) = <<x>> \o s
<1> DEFINE m == Len(s)
           r == With(s, m, 0, x)
           q == <<x>> \o s
<1>1. m \in Nat /\ s \in [1..m -> S]
  BY LenProperties
<1>2. r = [j \in 1..m + 1 |-> IF j = 1 THEN x ELSE s[j - 1]]
  BY <1>1 DEF With
<1>3. r \in Seq(S) /\ Len(r) = m + 1
  <2>1. \A j \in 1..m + 1 : j # 1 => j - 1 \in 1..m
    BY <1>1
  <2>2. r \in [1..m + 1 -> S]
    BY <1>1, <1>2, <2>1
  <2> HIDE DEF r, m
  <2> QED
    BY <1>1, <2>2
<1>4. <<x>> \in Seq(S) /\ Len(<<x>>) = 1 /\ <<x>>[1] = x
  OBVIOUS
<1>5. /\ q \in Seq(S) /\ Len(q) = 1 + m
      /\ \A i \in 1..1 + m : q[i] = IF i <= 1 THEN x ELSE s[i - 1]
  BY <1>4, ConcatProperties
<1> HIDE DEF m, r, q
<1>6. \A i \in 1..Len(r) : r[i] = q[i]
  BY <1>1, <1>2, <1>3, <1>5
<1>7. r = q
  BY <1>1, <1>3, <1>5, <1>6, SeqEqual
<1> QED
  BY <1>7 DEF r, q, m

(* Put in behind the last place an item is appended.                       *)
LEMMA PutBehind ==
  ASSUME NEW S, NEW s \in Seq(S), NEW x \in S
  PROVE  With(s, Len(s), Len(s), x) = Append(s, x)
<1> DEFINE m == Len(s)
           r == With(s, m, m, x)
           q == Append(s, x)
<1>1. m \in Nat /\ s \in [1..m -> S]
  BY LenProperties
<1>2. r = [j \in 1..m + 1 |-> IF j = m + 1 THEN x ELSE s[j]]
  BY <1>1 DEF With
<1>3. r \in Seq(S) /\ Len(r) = m + 1
  <2>1. r \in [1..m + 1 -> S]
    BY <1>1, <1>2
  <2> HIDE DEF r, m
  <2> QED
    BY <1>1, <2>1
<1>4. /\ q \in Seq(S) /\ Len(q) = m + 1
      /\ (\A i \in 1..m : q[i] = s[i]) /\ q[m + 1] = x
  BY AppendProperties
<1> HIDE DEF m, r, q
<1>5. \A i \in 1..Len(r) : r[i] = q[i]
  BY <1>1, <1>2, <1>3, <1>4
<1>6. r = q
  BY <1>3, <1>4, <1>5, SeqEqual
<1> QED
  BY <1>6 DEF r, q, m

(* An item taken out in the middle.                                        *)
LEMMA TakeOutAt ==
  ASSUME NEW S, NEW s \in Seq(S), NEW i \in 1..Len(s)
  PROVE  Without(s, Len(s), i) = RemoveAt(s, i)
<1> DEFINE m == Len(s)
           r == Without(s, m, i)
           before == SubSeq(s, 1, i - 1)
           after == SubSeq(s, i + 1, m)
           q == before \o after
<1>1. m \in Nat /\ s \in [1..m -> S] /\ i \in Nat /\ 1 <= i /\ i <= m
  BY LenProperties
<1>2. r = [j \in 1..m - 1 |-> IF j < i THEN s[j] ELSE s[j + 1]]
  BY DEF Without
<1>3. r \in Seq(S) /\ Len(r) = m - 1
  <2>1. \A j \in 1..m - 1 : j \in 1..m /\ j + 1 \in 1..m
    BY <1>1
  <2>2. r \in [1..m - 1 -> S] /\ m - 1 \in Nat
    BY <1>1, <1>2, <2>1
  <2> HIDE DEF r, m
  <2> QED
    BY <2>2
<1>4. /\ before \in Seq(S) /\ Len(before) = i - 1
      /\ \A j \in 1..i - 1 : before[j] = s[j]
  <2>1. /\ before \in Seq(S) /\ Len(before) = (i - 1) - 1 + 1
        /\ \A j \in 1..(i - 1) - 1 + 1 : before[j] = s[1 + j - 1]
    BY <1>1, Part
  <2>2. \A j \in 1..i - 1 : j \in 1..(i - 1) - 1 + 1 /\ 1 + j - 1 = j
    BY <1>1
  <2> HIDE DEF before
  <2> QED
    BY <1>1, <2>1, <2>2
<1>5. /\ after \in Seq(S) /\ Len(after) = m - i
      /\ \A j \in 1..m - i : after[j] = s[i + j]
  <2>1. /\ after \in Seq(S) /\ Len(after) = m - (i + 1) + 1
        /\ \A j \in 1..m - (i + 1) + 1 : after[j] = s[(i + 1) + j - 1]
    <3> DEFINE p == i + 1
    <3>1. p \in Int /\ m \in Int /\ 1 <= p /\ m <= Len(s) /\ p <= m + 1
      BY <1>1
    <3> HIDE DEF p, m
    <3>2. /\ SubSeq(s, p, m) \in Seq(S) /\ Len(SubSeq(s, p, m)) = m - p + 1
          /\ \A j \in 1..m - p + 1 : SubSeq(s, p, m)[j] = s[p + j - 1]
      BY <3>1, Part
    <3> QED
      BY <3>2 DEF p
  <2>2. \A j \in 1..m - i : j \in 1..m - (i + 1) + 1 /\ (i + 1) + j - 1 = i + j
    BY <1>1
  <2> HIDE DEF after, m
  <2> QED
    BY <1>1, <2>1, <2>2
<1> HIDE DEF m, r, before, after
<1>6. /\ q \in Seq(S) /\ Len(q) = (i - 1) + (m - i)
      /\ \A j \in 1..(i - 1) + (m - i) : q[j] = IF j <= i - 1 THEN before[j] ELSE after[j - (i - 1)]
  <2>1. /\ q \in Seq(S) /\ Len(q) = Len(before) + Len(after)
        /\ \A j \in 1..Len(before) + Len(after) :
             q[j] = IF j <= Len(before) THEN before[j] ELSE after[j - Len(before)]
    BY <1>4, <1>5, ConcatProperties
  <2> HIDE DEF q
  <2> QED
    BY <1>4, <1>5, <2>1
<1> HIDE DEF q
<1>7. ASSUME NEW j \in 1..Len(r) PROVE r[j] = q[j]
  <2>1. j \in 1..m - 1 /\ j \in 1..(i - 1) + (m - i)
    BY <1>1, <1>3
  <2>2. CASE j < i
    <3>1. j <= i - 1 /\ j \in 1..i - 1
      BY <1>1, <2>1, <2>2
    <3> QED
      BY <1>2, <1>4, <1>6, <2>1, <2>2, <3>1
  <2>3. CASE ~(j < i)
    <3>1. ~(j <= i - 1) /\ j - (i - 1) \in 1..m - i /\ i + (j - (i - 1)) = j + 1
      BY <1>1, <2>1, <2>3
    <3>2. q[j] = after[j - (i - 1)] /\ r[j] = s[j + 1]
      BY <1>2, <1>6, <2>1, <2>3, <3>1
    <3> QED
      BY <1>5, <3>1, <3>2
  <2> QED
    BY <2>2, <2>3
<1>8. Len(r) = Len(q)
  BY <1>1, <1>3, <1>6
<1>9. r = q
  BY <1>3, <1>6, <1>7, <1>8, SeqEqual
<1> QED
  BY <1>9 DEF r, q, m, before, after, RemoveAt

(* The first taken out leaves the tail,                                    *)
LEMMA TakeOutFirst ==
  ASSUME NEW S, NEW s \in Seq(S), Len(s) > 0
  PROVE  Without(s, Len(s), 1) = Tail(s) /\ s # <<>> /\ Head(s) = s[1]
<1> DEFINE m == Len(s)
           r == Without(s, m, 1)
<1>1. m \in Nat /\ s \in [1..m -> S] /\ s # <<>> /\ Head(s) = s[1]
  BY LenProperties
<1>2. r = [j \in 1..m - 1 |-> IF j < 1 THEN s[j] ELSE s[j + 1]]
  BY DEF Without
<1>3. r \in Seq(S) /\ Len(r) = m - 1
  <2>1. \A j \in 1..m - 1 : j + 1 \in 1..m /\ ~(j < 1)
    BY <1>1
  <2>2. r \in [1..m - 1 -> S] /\ m - 1 \in Nat
    BY <1>1, <1>2, <2>1
  <2> HIDE DEF r, m
  <2> QED
    BY <2>2
<1>4. /\ Tail(s) \in Seq(S) /\ Len(Tail(s)) = m - 1
      /\ \A j \in 1..Len(Tail(s)) : Tail(s)[j] = s[j + 1]
  BY <1>1, HeadTailProperties
<1> HIDE DEF m, r
<1>5. \A j \in 1..Len(r) : r[j] = Tail(s)[j]
  BY <1>1, <1>2, <1>3, <1>4
<1>6. r = Tail(s)
  BY <1>3, <1>4, <1>5, SeqEqual
<1> QED
  BY <1>1, <1>6 DEF r, m

(* the last taken out leaves the front.                                    *)
LEMMA TakeOutLast ==
  ASSUME NEW S, NEW s \in Seq(S), Len(s) > 0
  PROVE  Without(s, Len(s), Len(s)) = Front(s)
<1> DEFINE m == Len(s)
           r == Without(s, m, m)
           q == SubSeq(s, 1, m - 1)
<1>1. m \in Nat /\ s \in [1..m -> S]
  BY LenProperties
<1>2. r = [j \in 1..m - 1 |-> IF j < m THEN s[j] ELSE s[j + 1]]
  BY DEF Without
<1>3. r \in Seq(S) /\ Len(r) = m - 1 /\ \A j \in 1..m - 1 : r[j] = s[j]
  <2>1. \A j \in 1..m - 1 : j \in 1..m /\ j < m
    BY <1>1
  <2>2. r \in [1..m - 1 -> S] /\ m - 1 \in Nat
    BY <1>1, <1>2, <2>1
  <2>3. \A j \in 1..m - 1 : r[j] = s[j]
    BY <1>2, <2>1
  <2> HIDE DEF r, m
  <2> QED
    BY <2>2, <2>3
<1>4. /\ q \in Seq(S) /\ Len(q) = (m - 1) - 1 + 1
      /\ \A j \in 1..(m - 1) - 1 + 1 : q[j] = s[1 + j - 1]
  BY <1>1, Part
<1>5. (m - 1) - 1 + 1 = m - 1 /\ \A j \in 1..m - 1 : 1 + j - 1 = j
  BY <1>1
<1> HIDE DEF m, r, q
<1>6. \A j \in 1..Len(r) : r[j] = q[j]
  BY <1>3, <1>4, <1>5
<1>7. r = q
  BY <1>3, <1>4, <1>5, <1>6, SeqEqual
<1> QED
  BY <1>7 DEF r, q, m, Front

(* A range turned round.                                                   *)
TurnedRound(s, pos1, pos2) ==
  SubSeq(s, 1, pos1) \o Reverse(SubSeq(s, pos1 + 1, pos2 + 1)) \o SubSeq(s, pos2 + 2, Len(s))

(* The same, item by item                                                  *)
IsTurned(r, s, pos1, pos2) ==
  \A j \in 1..Len(s) : r[j] = IF pos1 < j /\ j <= pos2 + 1 THEN s[pos1 + pos2 + 2 - j] ELSE s[j]

(* Item by item it is the range between what stands before and behind it.  *)
LEMMA RangeTurned ==
  ASSUME NEW S, NEW s \in Seq(S), NEW pos1 \in Nat, NEW pos2 \in Nat,
         pos1 <= pos2, pos2 < Len(s),
         NEW r \in [1..Len(s) -> S], IsTurned(r, s, pos1, pos2)
  PROVE  r = TurnedRound(s, pos1, pos2)
<1>0. \A j \in 1..Len(s) : r[j] = IF pos1 < j /\ j <= pos2 + 1 THEN s[pos1 + pos2 + 2 - j] ELSE s[j]
  BY DEF IsTurned
<1> DEFINE m == Len(s)
           k == pos2 + 1 - pos1
           before == SubSeq(s, 1, pos1)
           mid == SubSeq(s, pos1 + 1, pos2 + 1)
           turned == Reverse(mid)
           after == SubSeq(s, pos2 + 2, m)
           p == before \o turned
           q == p \o after
<1>1. m \in Nat /\ s \in [1..m -> S] /\ k \in Nat /\ pos1 + k = pos2 + 1
  BY LenProperties
<1>2. r \in Seq(S) /\ Len(r) = m
  BY <1>1
<1>3. before \in Seq(S) /\ Len(before) = pos1 /\ \A j \in 1..pos1 : before[j] = s[j]
  <2>1. /\ before \in Seq(S) /\ Len(before) = pos1 - 1 + 1
        /\ \A j \in 1..pos1 - 1 + 1 : before[j] = s[1 + j - 1]
    BY <1>1, Part
  <2>2. pos1 - 1 + 1 = pos1 /\ \A j \in 1..pos1 : 1 + j - 1 = j
    OBVIOUS
  <2> HIDE DEF before
  <2> QED
    BY <2>1, <2>2
<1>4. mid \in Seq(S) /\ Len(mid) = k /\ \A j \in 1..k : mid[j] = s[pos1 + j]
  <2>1. /\ mid \in Seq(S) /\ Len(mid) = (pos2 + 1) - (pos1 + 1) + 1
        /\ \A j \in 1..(pos2 + 1) - (pos1 + 1) + 1 : mid[j] = s[(pos1 + 1) + j - 1]
    BY <1>1, Part
  <2>2. (pos2 + 1) - (pos1 + 1) + 1 = k /\ \A j \in 1..k : (pos1 + 1) + j - 1 = pos1 + j
    BY <1>1
  <2> HIDE DEF mid, k
  <2> QED
    BY <2>1, <2>2
<1>5. after \in Seq(S) /\ Len(after) = m - (pos2 + 1)
      /\ \A j \in 1..m - (pos2 + 1) : after[j] = s[(pos2 + 1) + j]
  <2>1. /\ after \in Seq(S) /\ Len(after) = m - (pos2 + 2) + 1
        /\ \A j \in 1..m - (pos2 + 2) + 1 : after[j] = s[(pos2 + 2) + j - 1]
    <3> DEFINE l == pos2 + 2
    <3>1. l \in Int /\ m \in Int /\ 1 <= l /\ m <= Len(s) /\ l <= m + 1
      BY <1>1
    <3> HIDE DEF l, m
    <3>2. /\ SubSeq(s, l, m) \in Seq(S) /\ Len(SubSeq(s, l, m)) = m - l + 1
          /\ \A j \in 1..m - l + 1 : SubSeq(s, l, m)[j] = s[l + j - 1]
      BY <3>1, Part
    <3> QED
      BY <3>2 DEF l
  <2>2. m - (pos2 + 2) + 1 = m - (pos2 + 1)
        /\ \A j \in 1..m - (pos2 + 1) : (pos2 + 2) + j - 1 = (pos2 + 1) + j
    BY <1>1
  <2> HIDE DEF after, m
  <2> QED
    BY <2>1, <2>2
<1> HIDE DEF before, mid, after
<1>6. turned \in Seq(S) /\ Len(turned) = k /\ \A j \in 1..k : turned[j] = s[pos1 + k - j + 1]
  <2>1. turned = [j \in 1..k |-> mid[(k - j) + 1]]
    BY <1>4 DEF Reverse
  <2> HIDE DEF turned, k
  <2>2. \A j \in 1..k : (k - j) + 1 \in 1..k /\ pos1 + ((k - j) + 1) = pos1 + k - j + 1
    BY <1>1
  <2>3. \A j \in 1..k : mid[j] \in S
    BY <1>4, ElementOfSeq
  <2>4. turned \in [1..k -> S]
    BY <2>1, <2>2, <2>3
  <2>5. turned \in Seq(S) /\ Len(turned) = k
    BY <1>1, <2>4
  <2>6. ASSUME NEW j \in 1..k PROVE turned[j] = s[pos1 + k - j + 1]
    <3>1. turned[j] = mid[(k - j) + 1] /\ (k - j) + 1 \in 1..k
      BY <2>1, <2>2
    <3>2. turned[j] = s[pos1 + ((k - j) + 1)]
      BY <1>4, <3>1
    <3> QED
      BY <2>2, <3>2
  <2> QED
    BY <2>5, <2>6
<1> HIDE DEF turned, k, m
<1>7. p \in Seq(S) /\ Len(p) = pos1 + k
      /\ \A j \in 1..pos1 + k : p[j] = IF j <= pos1 THEN before[j] ELSE turned[j - pos1]
  BY <1>3, <1>6, ConcatProperties
<1> HIDE DEF p
<1>8. q \in Seq(S) /\ Len(q) = (pos1 + k) + (m - (pos2 + 1))
      /\ \A j \in 1..(pos1 + k) + (m - (pos2 + 1)) :
           q[j] = IF j <= pos1 + k THEN p[j] ELSE after[j - (pos1 + k)]
  <2>1. /\ q \in Seq(S) /\ Len(q) = Len(p) + Len(after)
        /\ \A j \in 1..Len(p) + Len(after) :
             q[j] = IF j <= Len(p) THEN p[j] ELSE after[j - Len(p)]
    BY <1>5, <1>7, ConcatProperties
  <2> HIDE DEF q
  <2> QED
    BY <1>5, <1>7, <2>1
<1> HIDE DEF q
<1>9. Len(q) = m /\ m = Len(s)
  <2>1. Len(q) = m
    BY <1>1, <1>8
  <2> QED
    BY <2>1 DEF m
<1>10. ASSUME NEW j \in 1..Len(r) PROVE r[j] = q[j]
  <2>1. /\ j \in 1..m /\ j \in 1..(pos1 + k) + (m - (pos2 + 1))
        /\ r[j] = IF pos1 < j /\ j <= pos2 + 1 THEN s[pos1 + pos2 + 2 - j] ELSE s[j]
    BY <1>0, <1>1, <1>2, <1>9
  <2>2. CASE j <= pos1
    <3>1. j \in 1..pos1 /\ j \in 1..pos1 + k /\ j <= pos1 + k /\ ~(pos1 < j)
      BY <1>1, <2>1, <2>2
    <3> QED
      BY <1>3, <1>7, <1>8, <2>1, <2>2, <3>1
  <2>3. CASE pos1 < j /\ j <= pos2 + 1
    <3>1. /\ j \in 1..pos1 + k /\ j <= pos1 + k /\ ~(j <= pos1) /\ j - pos1 \in 1..k
          /\ pos1 + k - (j - pos1) + 1 = pos1 + pos2 + 2 - j
      BY <1>1, <2>1, <2>3
    <3>2. q[j] = turned[j - pos1]
      BY <1>7, <1>8, <2>1, <3>1
    <3> QED
      BY <1>6, <2>1, <2>3, <3>1, <3>2
  <2>4. CASE pos2 + 1 < j
    <3>1. /\ ~(j <= pos1 + k) /\ ~(j <= pos2 + 1) /\ j - (pos1 + k) \in 1..m - (pos2 + 1)
          /\ (pos2 + 1) + (j - (pos1 + k)) = j
      BY <1>1, <2>1, <2>4
    <3>2. q[j] = after[j - (pos1 + k)]
      BY <1>8, <2>1, <3>1
    <3> QED
      BY <1>5, <2>1, <3>1, <3>2
  <2> QED
    BY <2>1, <2>2, <2>3, <2>4
<1>11. Len(r) = Len(q)
  BY <1>2, <1>9
<1>12. r = q
  BY <1>2, <1>8, <1>10, <1>11, SeqEqual
<1> QED
  BY <1>12 DEF TurnedRound, q, p, before, turned, mid, after, m
-----------------------------------------------------------------------------
(* The loops of find and find_max                                          *)

(* The first place of x, counted from 0                                    *)
Place(s, x) == (CHOOSE i \in DOMAIN s : s[i] = x /\ \A j \in 1..i - 1 : s[j] # x) - 1

(* There is one first place.                                               *)
LEMMA PlaceIs ==
  ASSUME NEW S, NEW s \in Seq(S), NEW x, NEW i \in 1..Len(s), s[i] = x,
         \A j \in 1..i - 1 : s[j] # x
  PROVE  Place(s, x) = i - 1
<1> DEFINE First(k) == s[k] = x /\ \A j \in 1..k - 1 : s[j] # x
<1>1. Len(s) \in Nat /\ DOMAIN s = 1..Len(s)
  BY LenProperties
<1>2. ASSUME NEW k \in DOMAIN s, First(k) PROVE k = i
  <2>1. k \in Nat /\ i \in Nat /\ 1 <= k /\ 1 <= i
    BY <1>1
  <2>2. ~(k < i)
    <3>1. k < i => k \in 1..i - 1
      BY <2>1
    <3> QED
      BY <1>2, <3>1
  <2>3. ~(i < k)
    <3>1. i < k => i \in 1..k - 1
      BY <2>1
    <3> QED
      BY <1>2, <3>1
  <2> QED
    BY <2>1, <2>2, <2>3
<1>3. i \in DOMAIN s /\ First(i)
  BY <1>1
<1> HIDE DEF First
<1>4. (CHOOSE k \in DOMAIN s : First(k)) = i
  BY <1>2, <1>3
<1>5. Place(s, x) = (CHOOSE k \in DOMAIN s : First(k)) - 1
  BY DEF Place, First
<1> QED
  BY <1>4, <1>5

(* The place the loop of find has after each item, -1 before it found one  *)
Looks(s, x) ==
  CHOOSE f : f = [k \in 0..Len(s) |->
                    IF k = 0 THEN -1
                    ELSE IF f[k - 1] = -1 /\ s[k] = x THEN k - 1 ELSE f[k - 1]]

(* The loop of find ends at the first place of the item, or nowhere.       *)
LEMMA LooksFinds ==
  ASSUME NEW S, NEW s \in Seq(S), NEW x
  PROVE  IF \E i \in 1..Len(s) : s[i] = x
         THEN /\ Looks(s, x)[Len(s)] # -1
              /\ Looks(s, x)[Len(s)] = Place(s, x)
         ELSE Looks(s, x)[Len(s)] = -1
<1> DEFINE m == Len(s)
           next(p, k) == IF p = -1 /\ s[k] = x THEN k - 1 ELSE p
           Loop(f) == f = [k \in 0..m |-> IF k = 0 THEN -1 ELSE next(f[k - 1], k)]
           V == {-1} \cup Nat
           Found(p, k) == IF \E i \in 1..k : s[i] = x
                          THEN p \in 0..k - 1 /\ s[p + 1] = x /\ \A j \in 1..p : s[j] # x
                          ELSE p = -1
<1>1. m \in Nat
  BY LenProperties
<1>2. \E f : Loop(f)
  <2> DEFINE step == [k \in 1..m |-> [p \in V |-> next(p, k)]]
             base == -1
  <2>1. step \in [1..m -> [V -> V]] /\ base \in V
    <3>1. \A k \in 1..m : \A p \in V : next(p, k) \in V
      BY <1>1
    <3> HIDE DEF next, V
    <3>2. base \in V
      BY DEF V
    <3> QED
      BY <3>1, <3>2
  <2>2. \A k \in 1..m : \A p \in V : step[k][p] = next(p, k)
    OBVIOUS
  <2> HIDE DEF step, V, base, m
  <2>3. PICK f : Runs(f, V, base, m, step)
    BY <1>1, <2>1, Recursion
  <2>4. ASSUME NEW k \in 0..m PROVE f[k] = IF k = 0 THEN base ELSE next(f[k - 1], k)
    <3>1. k # 0 => k \in 1..m /\ k - 1 \in 0..m
      BY <1>1
    <3> HIDE DEF next
    <3> QED
      BY <2>2, <2>3, <3>1 DEF Runs
  <2> HIDE DEF next
  <2>5. f = [k \in 0..m |-> IF k = 0 THEN base ELSE next(f[k - 1], k)]
    BY <2>3, <2>4 DEF Runs
  <2> QED
    BY <2>5 DEF base
<1>3. ASSUME NEW f, Loop(f) PROVE Found(f[m], m)
  <2> DEFINE T == {k \in Nat : k <= m => Found(f[k], k)}
  <2>1. \A k \in 0..m : f[k] = IF k = 0 THEN -1 ELSE next(f[k - 1], k)
    <3> HIDE DEF next
    <3> QED
      BY <1>3
  <2> HIDE DEF Loop
  <2>2. 0 \in T
    <3>1. 0 \in 0..m /\ ~ \E i \in 1..0 : s[i] = x
      BY <1>1
    <3>2. f[0] = -1
      BY <2>1, <3>1
    <3> QED
      BY <3>1, <3>2
  <2>3. ASSUME NEW k \in Nat, k \in T PROVE k + 1 \in T
    <3> SUFFICES ASSUME k + 1 <= m PROVE Found(f[k + 1], k + 1)
      OBVIOUS
    <3>1. /\ k + 1 \in 0..m /\ k + 1 # 0 /\ (k + 1) - 1 = k /\ Found(f[k], k)
          /\ \A i \in 1..k + 1 : i \in 1..k \/ i = k + 1
          /\ \A i \in 1..k : i \in 1..k + 1
      BY <1>1, <2>3
    <3>2. f[k + 1] = IF f[k] = -1 /\ s[k + 1] = x THEN k ELSE f[k]
      BY <2>1, <3>1
    <3>3. CASE \E i \in 1..k : s[i] = x
      <4>1. f[k] \in 0..k - 1 /\ s[f[k] + 1] = x /\ \A j \in 1..f[k] : s[j] # x
        BY <3>1, <3>3
      <4>2. f[k] # -1 /\ f[k] \in 0..(k + 1) - 1
        BY <4>1
      <4>3. f[k + 1] = f[k]
        BY <3>2, <4>2
      <4> QED
        BY <3>1, <3>3, <4>1, <4>2, <4>3
    <3>4. CASE (~ \E i \in 1..k : s[i] = x) /\ s[k + 1] = x
      <4>1. f[k + 1] = k
        BY <3>1, <3>2, <3>4
      <4>2. k \in 0..(k + 1) - 1 /\ k + 1 \in 1..k + 1
        OBVIOUS
      <4> QED
        BY <3>4, <4>1, <4>2
    <3>5. CASE (~ \E i \in 1..k : s[i] = x) /\ s[k + 1] # x
      <4>1. f[k + 1] = -1
        BY <3>1, <3>2, <3>5
      <4>2. ~ \E i \in 1..k + 1 : s[i] = x
        BY <3>1, <3>5
      <4> QED
        BY <4>1, <4>2
    <3> QED
      BY <3>3, <3>4, <3>5
  <2> HIDE DEF T
  <2>4. m \in T
    BY <1>1, <2>2, <2>3, Induct
  <2> QED
    BY <1>1, <2>4 DEF T
<1>4. Looks(s, x) = CHOOSE f : Loop(f)
  BY DEF Looks
<1> HIDE DEF Loop
<1>5. Found(Looks(s, x)[m], m)
  BY <1>2, <1>3, <1>4
<1>6. ASSUME \E i \in 1..m : s[i] = x
      PROVE  Looks(s, x)[m] # -1 /\ Looks(s, x)[m] = Place(s, x)
  <2> DEFINE p == Looks(s, x)[m]
             i == p + 1
  <2>1. p \in 0..m - 1 /\ s[i] = x /\ \A j \in 1..p : s[j] # x
    BY <1>5, <1>6
  <2> HIDE DEF p
  <2>2. i \in 1..m /\ i - 1 = p /\ p # -1
    BY <1>1, <2>1
  <2>3. \A j \in 1..i - 1 : s[j] # x
    BY <2>1, <2>2
  <2> HIDE DEF i
  <2>4. Place(s, x) = i - 1
    BY <2>1, <2>2, <2>3, PlaceIs
  <2> QED
    BY <2>2, <2>4 DEF p
<1>7. (~ \E i \in 1..m : s[i] = x) => Looks(s, x)[m] = -1
  BY <1>5
<1> QED
  BY <1>6, <1>7

(* The place of the greatest item the loop of find_max has met             *)
Climbs(s) ==
  CHOOSE f : f = [k \in 0..Len(s) |->
                    IF k = 0 THEN 1
                    ELSE IF Exceeds(s[k], s[f[k - 1]]) THEN k ELSE f[k - 1]]

(* The greatest item                                                       *)
Top(s) == CHOOSE x \in ToSet(s) : \A y \in ToSet(s) : y <= x

(* The loop of find_max ends at the first place of the greatest item: it   *)
(* takes a later one only if it exceeds the one it has.                    *)
LEMMA ClimbsToTop ==
  ASSUME NEW S, S \subseteq Int, NEW s \in Seq(S), Len(s) > 0
  PROVE  /\ Climbs(s)[Len(s)] \in 1..Len(s)
         /\ s[Climbs(s)[Len(s)]] = Top(s)
         /\ Climbs(s)[Len(s)] - 1 = Place(s, Top(s))
<1> DEFINE m == Len(s)
           next(p, k) == IF Exceeds(s[k], s[p]) THEN k ELSE p
           Loop(f) == f = [k \in 0..m |-> IF k = 0 THEN 1 ELSE next(f[k - 1], k)]
           V == 1..m
           Best(p, k) == /\ p \in 1..m
                         /\ \A j \in 1..k : s[j] <= s[p]
                         /\ \A j \in 1..p - 1 : s[j] < s[p]
                         /\ p = 1 \/ p <= k
<1>1. m \in Nat /\ m > 0 /\ DOMAIN s = 1..m /\ \A j \in 1..m : s[j] \in S /\ s[j] \in Int
  BY LenProperties, ElementOfSeq
<1>2. \E f : Loop(f)
  <2> DEFINE step == [k \in 1..m |-> [p \in V |-> next(p, k)]]
             base == 1
  <2>1. step \in [1..m -> [V -> V]] /\ base \in V
    <3>1. (\A k \in 1..m : \A p \in V : next(p, k) \in V) /\ base \in V
      BY <1>1
    <3> HIDE DEF next, V, base
    <3> QED
      BY <3>1
  <2>2. \A k \in 1..m : \A p \in V : step[k][p] = next(p, k)
    OBVIOUS
  <2> HIDE DEF step, V, base, m
  <2>3. PICK f : Runs(f, V, base, m, step)
    BY <1>1, <2>1, Recursion
  <2>4. ASSUME NEW k \in 0..m PROVE f[k] = IF k = 0 THEN base ELSE next(f[k - 1], k)
    <3>1. k # 0 => k \in 1..m /\ k - 1 \in 0..m
      BY <1>1
    <3> HIDE DEF next
    <3> QED
      BY <2>2, <2>3, <3>1 DEF Runs
  <2> HIDE DEF next
  <2>5. f = [k \in 0..m |-> IF k = 0 THEN base ELSE next(f[k - 1], k)]
    BY <2>3, <2>4 DEF Runs
  <2> QED
    BY <2>5 DEF base
<1>3. ASSUME NEW f, Loop(f) PROVE Best(f[m], m)
  <2> DEFINE T == {k \in Nat : k <= m => Best(f[k], k)}
  <2>1. \A k \in 0..m : f[k] = IF k = 0 THEN 1 ELSE next(f[k - 1], k)
    <3> HIDE DEF next
    <3> QED
      BY <1>3
  <2> HIDE DEF Loop
  <2>2. 0 \in T
    <3>1. 0 \in 0..m /\ 1 \in 1..m
      BY <1>1
    <3>2. f[0] = 1
      BY <2>1, <3>1
    <3> QED
      BY <3>1, <3>2
  <2>3. ASSUME NEW k \in Nat, k \in T PROVE k + 1 \in T
    <3> SUFFICES ASSUME k + 1 <= m PROVE Best(f[k + 1], k + 1)
      OBVIOUS
    <3> DEFINE p == f[k]
    <3>1. /\ k + 1 \in 0..m /\ k + 1 \in 1..m /\ k + 1 # 0 /\ (k + 1) - 1 = k /\ Best(p, k)
          /\ \A j \in 1..k + 1 : j \in 1..k \/ j = k + 1
          /\ \A j \in 1..k : j \in 1..m
      BY <1>1, <2>3
    <3>2. f[k + 1] = IF s[k + 1] > s[p] THEN k + 1 ELSE p
      BY <2>1, <3>1 DEF Exceeds
    <3>3. s[p] \in Int /\ s[k + 1] \in Int /\ \A j \in 1..k : s[j] \in Int
      BY <1>1, <3>1
    <3> HIDE DEF p
    <3>4. CASE s[k + 1] > s[p]
      <4>1. \A j \in 1..k : s[j] < s[k + 1]
        BY <3>1, <3>3, <3>4
      <4>2. \A j \in 1..k + 1 : s[j] <= s[k + 1]
        BY <3>1, <3>3, <4>1
      <4> QED
        BY <3>1, <3>2, <3>4, <4>1, <4>2
    <3>5. CASE ~(s[k + 1] > s[p])
      <4>1. \A j \in 1..k + 1 : s[j] <= s[p]
        BY <3>1, <3>3, <3>5
      <4>2. p = 1 \/ p <= k + 1
        BY <3>1
      <4> QED
        BY <3>1, <3>2, <3>5, <4>1, <4>2
    <3> QED
      BY <3>4, <3>5
  <2> HIDE DEF T
  <2>4. m \in T
    BY <1>1, <2>2, <2>3, Induct
  <2> QED
    BY <1>1, <2>4 DEF T
<1>4. Climbs(s) = CHOOSE f : Loop(f)
  BY DEF Climbs
<1> HIDE DEF Loop
<1> DEFINE p == Climbs(s)[m]
<1>5. Best(p, m)
  BY <1>2, <1>3, <1>4
<1> HIDE DEF p
<1>6. s[p] = Top(s)
  <2> DEFINE Greatest(x) == \A y \in ToSet(s) : y <= x
  <2>1. ToSet(s) = {s[j] : j \in 1..m}
    BY <1>1 DEF ToSet
  <2>2. s[p] \in ToSet(s) /\ Greatest(s[p])
    BY <1>5, <2>1
  <2>3. \A x \in ToSet(s) : Greatest(x) => x = s[p]
    <3> SUFFICES ASSUME NEW x \in ToSet(s), Greatest(x) PROVE x = s[p]
      OBVIOUS
    <3>1. x <= s[p] /\ s[p] <= x
      BY <2>2
    <3>2. x \in Int /\ s[p] \in Int
      BY <1>1, <1>5, <2>1
    <3> QED
      BY <3>1, <3>2
  <2> HIDE DEF Greatest
  <2>4. (CHOOSE x \in ToSet(s) : Greatest(x)) = s[p]
    BY <2>2, <2>3
  <2> QED
    BY <2>4 DEF Top, Greatest
<1>7. Place(s, s[p]) = p - 1
  <2> DEFINE x == s[p]
  <2>1. \A j \in 1..p - 1 : s[j] # x
    <3>1. \A j \in 1..p - 1 : j \in 1..m /\ s[j] \in Int /\ s[p] \in Int /\ s[j] < s[p]
      BY <1>1, <1>5
    <3> QED
      BY <3>1
  <2>2. p \in 1..m /\ s[p] = x
    BY <1>5
  <2> HIDE DEF x
  <2>3. Place(s, x) = p - 1
    BY <2>1, <2>2, PlaceIs
  <2> QED
    BY <2>3 DEF x
<1> QED
  BY <1>5, <1>6, <1>7 DEF p
-----------------------------------------------------------------------------
(* The list as a sequence                                                  *)

(* The items of an ordered list, as a sequence.                            *)
LEMMA ListIs ==
  ASSUME NEW c, Ordered(c)
  PROVE  /\ Contents(node, c, n) \in Seq(Items) /\ Len(Contents(node, c, n)) = n
         /\ \A i \in 1..n : Contents(node, c, n)[i] = node[c[i]].item
         /\ ItemsOf(Forward) = Contents(node, c, n)
         /\ Contents(node, c, n) = <<>> <=> n = 0
<1> DEFINE s == Contents(node, c, n)
<1>1. n \in Nat /\ c \in [1..n -> live] /\ node \in [live -> INode]
  BY OrderedMeans
<1>2. \A i \in 1..n : node[c[i]].item \in Items
  BY <1>1 DEF INode
<1>3. s = [i \in 1..n |-> node[c[i]].item]
  BY DEF Contents
<1>4. s \in [1..n -> Items]
  BY <1>2, <1>3
<1> HIDE DEF s
<1>5. s \in Seq(Items) /\ Len(s) = n /\ \A i \in 1..n : s[i] = node[c[i]].item
  BY <1>1, <1>3, <1>4
<1>6. s = <<>> <=> n = 0
  BY <1>5, EmptySeq
<1>7. ItemsOf(Forward) = s
  BY WalksAre DEF s
<1> QED
  BY <1>5, <1>6, <1>7 DEF s

(* What a line does: the list becomes l, and words are printed.            *)
Effect(command, numbers, l, words) ==
  Reads(command, numbers) /\ ItemsOf(Forward)' = l /\ answer' = words

(* Such a line is a step of IntegerList.                                   *)
LEMMA EffectIs ==
  ASSUME NEW command, NEW numbers, NEW l, NEW words, Effect(command, numbers, l, words)
  PROVE  /\ AsSequence!Does(command, numbers, l, words)
         /\ words = Silence => AsSequence!Change(command, numbers, l)
         /\ l = ItemsOf(Forward) => AsSequence!Ask(command, numbers, words)
BY DEF Effect, Reads, Line, Silence, Printed, AsSequence!Does, AsSequence!Change, AsSequence!Ask,
       AsSequence!Line, AsSequence!Silence, AsSequence!Printed

(* insert_0, insert_end *)
LEMMA InsertsAre ==
  ASSUME NEW c, Ordered(c), NEW a \in Addresses \ live, NEW x \in Items,
         \/ Reads("insert_0", <<x>>) /\ Insert0(a, x)
         \/ Reads("insert_end", <<x>>) /\ InsertEnd(a, x)
  PROVE  AsSequence!Insert(x)
<1> DEFINE s == Contents(node, c, n)
           list == ItemsOf(Forward)
<1>1. s \in Seq(Items) /\ Len(s) = n /\ list = s
  BY ListIs
<1>2. CASE Reads("insert_0", <<x>>) /\ Insert0(a, x)
  <2>1. list' = With(s, n, 0, x)
    BY <1>2, Insert0PutsIn, NextItemsAre
  <2> HIDE DEF s
  <2>2. list' = <<x>> \o s
    BY <1>1, <2>1, PutInFront
  <2> HIDE DEF list
  <2>3. list' = <<x>> \o list /\ answer' = Silence
    BY <1>1, <1>2, <2>2 DEF Insert0
  <2>4. Effect("insert_0", <<x>>, <<x>> \o list, Silence)
    BY <1>2, <2>3 DEF Effect, list
  <2>5. AsSequence!Change("insert_0", <<x>>, <<x>> \o list)
    BY <2>4, EffectIs
  <2> QED
    BY <2>5 DEF AsSequence!Insert, list
<1>3. CASE Reads("insert_end", <<x>>) /\ InsertEnd(a, x)
  <2>1. list' = With(s, n, n, x)
    BY <1>3, InsertEndPutsIn, NextItemsAre
  <2> HIDE DEF s
  <2>2. list' = Append(s, x)
    BY <1>1, <2>1, PutBehind
  <2> HIDE DEF list
  <2>3. list' = Append(list, x) /\ answer' = Silence
    BY <1>1, <1>3, <2>2 DEF InsertEnd
  <2>4. Effect("insert_end", <<x>>, Append(list, x), Silence)
    BY <1>3, <2>3 DEF Effect, list
  <2>5. AsSequence!Change("insert_end", <<x>>, Append(list, x))
    BY <2>4, EffectIs
  <2> QED
    BY <2>5 DEF AsSequence!Insert, list
<1> QED
  BY <1>2, <1>3

(* delete_0, delete_end and clear of a list that is not empty              *)
LEMMA DeletesAre ==
  ASSUME NEW c, Ordered(c),
         \/ Reads("delete_0", <<>>) /\ Delete0
         \/ Reads("delete_end", <<>>) /\ DeleteEnd
         \/ Reads("clear", <<>>) /\ Clear
  PROVE  AsSequence!OnItems
<1> DEFINE s == Contents(node, c, n)
           list == ItemsOf(Forward)
<1>1. n \in Nat /\ s \in Seq(Items) /\ Len(s) = n /\ list = s /\ (s = <<>> <=> n = 0)
  BY ListIs, OrderedMeans
<1>2. n # 0 /\ answer' = Silence
  BY DEF Delete0, DeleteEnd, Clear, DeleteAll
<1>3. list # <<>>
  BY <1>1, <1>2
<1>4. CASE Reads("delete_0", <<>>) /\ Delete0
  <2>1. list' = Without(s, n, 1)
    BY <1>4, Delete0TakesOut, NextItemsAre
  <2> HIDE DEF s
  <2>2. list' = Tail(s)
    BY <1>1, <1>2, <2>1, TakeOutFirst
  <2> HIDE DEF list
  <2>3. Effect("delete_0", <<>>, Tail(list), Silence)
    BY <1>1, <1>2, <1>4, <2>2 DEF Effect, list
  <2>4. AsSequence!Change("delete_0", <<>>, Tail(list))
    BY <2>3, EffectIs
  <2> QED
    BY <1>3, <2>4 DEF AsSequence!OnItems, list
<1>5. CASE Reads("delete_end", <<>>) /\ DeleteEnd
  <2>1. list' = Without(s, n, n)
    BY <1>5, DeleteEndTakesOut, NextItemsAre
  <2> HIDE DEF s
  <2>2. list' = Front(s)
    BY <1>1, <1>2, <2>1, TakeOutLast
  <2> HIDE DEF list
  <2>3. Effect("delete_end", <<>>, Front(list), Silence)
    BY <1>1, <1>2, <1>5, <2>2 DEF Effect, list
  <2>4. AsSequence!Change("delete_end", <<>>, Front(list))
    BY <2>3, EffectIs
  <2>5. Front(list) = AsSequence!Front(list)
    BY DEF Front, AsSequence!Front
  <2> QED
    BY <1>3, <2>4, <2>5 DEF AsSequence!OnItems, list
<1>6. CASE Reads("clear", <<>>) /\ Clear
  <2>1. list' = <<>>
    BY <1>6, AllTakenOut, NextItemsAre DEF Clear
  <2> HIDE DEF list
  <2>2. Effect("clear", <<>>, <<>>, Silence)
    BY <1>2, <1>6, <2>1 DEF Effect, list
  <2>3. AsSequence!Change("clear", <<>>, <<>>)
    BY <2>2, EffectIs
  <2> QED
    BY <1>3, <2>3 DEF AsSequence!OnItems, list
<1> QED
  BY <1>4, <1>5, <1>6

(* A command that only prints.                                             *)
LEMMA SaysAre ==
  ASSUME NEW c, Ordered(c), NEW command, NEW numbers, NEW words,
         Reads(command, numbers), Says(words)
  PROVE  AsSequence!Ask(command, numbers, words)
<1>1. NothingChanged /\ answer' = words
  BY DEF Says, NothingChanged
<1>2. ItemsOf(Forward)' = Contents(node', c, n) /\ Contents(node', c, n) = ItemsOf(Forward)
  BY <1>1, UnchangedOrdered, NextItemsAre, ListIs
<1> DEFINE list == ItemsOf(Forward)
<1>3. list' = list
  BY <1>2
<1> HIDE DEF list
<1>4. Effect(command, numbers, list, words)
  BY <1>1, <1>3 DEF Effect, list
<1> QED
  BY <1>4, EffectIs DEF list

(* The commands that print, of an empty list and of one with items.        *)
LEMMA PrintsAre ==
  ASSUME NEW c, Ordered(c),
         \/ \E command \in {"delete_0", "delete_end", "clear", "print", "find_max"} :
              Reads(command, <<>>) /\ SayEmpty
         \/ Reads("print_0", <<>>) /\ Print0
         \/ Reads("print_end", <<>>) /\ PrintEnd
         \/ Reads("print", <<>>) /\ PrintAll
         \/ Reads("dim", <<>>) /\ Dim
  PROVE  AsSequence!Next
<1> DEFINE s == Contents(node, c, n)
           list == ItemsOf(Forward)
<1>1. /\ n \in Nat /\ s \in Seq(Items) /\ Len(s) = n /\ list = s /\ (s = <<>> <=> n = 0)
      /\ \A i \in 1..n : s[i] = node[c[i]].item
  BY ListIs, OrderedMeans
<1>2. /\ n \in Nat /\ c \in [1..n -> live] /\ Null \notin live
      /\ head = IF n = 0 THEN Null ELSE c[1]
      /\ tail = IF n = 0 THEN Null ELSE c[n]
  BY OrderedMeans
<1>3. list = <<>> <=> n = 0
  BY <1>1
<1>4. n # 0 => /\ 1 \in 1..n /\ n \in 1..n /\ head # Null /\ tail # Null
               /\ node[head].item = s[1] /\ node[tail].item = s[n]
  BY <1>1, <1>2
<1>5. n # 0 => Head(list) = s[1] /\ Last(list) = s[n]
  <2> HIDE DEF s, list
  <2> QED
    BY <1>1 DEF Last
<1> HIDE DEF s, list
<1>6. \A word, numbers : AsSequence!Printed(word, numbers) = Printed(word, numbers)
  BY DEF AsSequence!Printed, Printed
<1>7. AsSequence!Silence = Silence
  BY DEF AsSequence!Silence, Silence, AsSequence!Printed, Printed
<1>8. CASE \E command \in {"delete_0", "delete_end", "clear", "print", "find_max"} :
             Reads(command, <<>>) /\ SayEmpty
  <2>1. PICK command \in {"delete_0", "delete_end", "clear", "print", "find_max"} :
          Reads(command, <<>>) /\ SayEmpty
    BY <1>8
  <2>2. n = 0 /\ Says(Printed("empty", <<>>))
    BY <2>1 DEF SayEmpty
  <2>3. AsSequence!Ask(command, <<>>, AsSequence!Printed("empty", <<>>))
    BY <1>6, <2>1, <2>2, SaysAre
  <2> QED
    BY <1>3, <2>2, <2>3 DEF AsSequence!OnEmpty, AsSequence!Next, list
<1>9. CASE Reads("print_0", <<>>) /\ Print0
  <2>1. CASE n = 0
    <3>1. Says(Silence)
      BY <1>2, <1>9, <2>1 DEF Print0
    <3>2. AsSequence!Ask("print_0", <<>>, AsSequence!Silence)
      BY <1>7, <1>9, <3>1, SaysAre
    <3> QED
      BY <1>3, <2>1, <3>2 DEF AsSequence!OnEmpty, AsSequence!Next, list
  <2>2. CASE n # 0
    <3> DEFINE words == AsSequence!Printed("first", <<Head(list)>>)
    <3>1. Says(words)
      <4>1. Says(Printed("first", <<node[head].item>>))
        BY <1>4, <1>9, <2>2 DEF Print0
      <4>2. node[head].item = Head(list)
        BY <1>4, <1>5, <2>2
      <4> QED
        BY <1>6, <4>1, <4>2
    <3> HIDE DEF words
    <3>2. AsSequence!Ask("print_0", <<>>, words)
      BY <1>9, <3>1, SaysAre
    <3> QED
      BY <1>3, <2>2, <3>2 DEF AsSequence!OnItems, AsSequence!Next, words, list
  <2> QED
    BY <2>1, <2>2
<1>10. CASE Reads("print_end", <<>>) /\ PrintEnd
  <2>1. CASE n = 0
    <3>1. Says(Silence)
      BY <1>2, <1>10, <2>1 DEF PrintEnd
    <3>2. AsSequence!Ask("print_end", <<>>, AsSequence!Silence)
      BY <1>7, <1>10, <3>1, SaysAre
    <3> QED
      BY <1>3, <2>1, <3>2 DEF AsSequence!OnEmpty, AsSequence!Next, list
  <2>2. CASE n # 0
    <3> DEFINE words == AsSequence!Printed("last", <<Last(list)>>)
    <3>1. Says(words)
      <4>1. Says(Printed("last", <<node[tail].item>>))
        BY <1>4, <1>10, <2>2 DEF PrintEnd
      <4>2. node[tail].item = Last(list)
        BY <1>4, <1>5, <2>2
      <4> QED
        BY <1>6, <4>1, <4>2
    <3> HIDE DEF words
    <3>2. AsSequence!Ask("print_end", <<>>, words)
      BY <1>10, <3>1, SaysAre
    <3>3. Last(list) = AsSequence!Last(list)
      BY DEF Last, AsSequence!Last
    <3> QED
      BY <1>3, <2>2, <3>2, <3>3 DEF AsSequence!OnItems, AsSequence!Next, words, list
  <2> QED
    BY <2>1, <2>2
<1>11. CASE Reads("print", <<>>) /\ PrintAll
  <2> DEFINE words == AsSequence!Printed("list", list)
  <2>1. n # 0 /\ Says(words)
    BY <1>6, <1>11 DEF PrintAll, list
  <2> HIDE DEF words
  <2>2. AsSequence!Ask("print", <<>>, words)
    BY <1>11, <2>1, SaysAre
  <2> QED
    BY <1>3, <2>1, <2>2 DEF AsSequence!OnItems, AsSequence!Next, words, list
<1>12. CASE Reads("dim", <<>>) /\ Dim
  <2> DEFINE words == AsSequence!Printed("items", <<Len(list)>>)
  <2>1. Says(words)
    <3>1. Len(list) = n
      BY <1>1
    <3> QED
      BY <1>6, <1>12, <3>1 DEF Dim
  <2> HIDE DEF words
  <2>2. AsSequence!Ask("dim", <<>>, words)
    BY <1>12, <2>1, SaysAre
  <2> QED
    BY <2>2 DEF AsSequence!Dim, AsSequence!Next, words, list
<1> QED
  BY <1>8, <1>9, <1>10, <1>11, <1>12

(* find and find_max                                                       *)
LEMMA FindIs ==
  ASSUME NEW c, Ordered(c), NEW x \in Items, Reads("find", <<x>>), Find(x)
  PROVE  AsSequence!Find(x)
<1> DEFINE s == Contents(node, c, n)
           found == Looks(s, x)[Len(s)]
           list == ItemsOf(Forward)
<1>1. s \in Seq(Items) /\ Len(s) = n /\ list = s /\ DOMAIN s = 1..Len(s)
  <2>1. s \in Seq(Items) /\ Len(s) = n /\ list = s
    BY ListIs
  <2> HIDE DEF s
  <2> QED
    BY <2>1, LenProperties
<1>2. Says(IF found = -1 THEN Printed("not found", <<x>>) ELSE Printed("found", <<x, found>>))
  <2>1. Says(IF Looks(list, x)[Len(list)] = -1 THEN Printed("not found", <<x>>)
             ELSE Printed("found", <<x, Looks(list, x)[Len(list)]>>))
    BY DEF Find, Looks
  <2> HIDE DEF s, list
  <2> QED
    BY <1>1, <2>1
<1> HIDE DEF s
<1>3. IF x \in ToSet(s) THEN found # -1 /\ found = Place(s, x) ELSE found = -1
  <2>1. x \in ToSet(s) <=> \E i \in 1..Len(s) : s[i] = x
    BY <1>1 DEF ToSet
  <2> QED
    BY <1>1, <2>1, LooksFinds
<1> HIDE DEF found
<1> DEFINE words == IF x \in ToSet(list) THEN AsSequence!Printed("found", <<x, Place(list, x)>>)
                    ELSE AsSequence!Printed("not found", <<x>>)
<1>4. Says(words)
  <2> HIDE DEF list
  <2> QED
    BY <1>1, <1>2, <1>3 DEF AsSequence!Printed, Printed
<1> HIDE DEF words
<1>5. AsSequence!Ask("find", <<x>>, words)
  BY <1>4, SaysAre
<1>6. AsSequence!FirstPlace(x) = Place(list, x)
  BY DEF AsSequence!FirstPlace, Place
<1>7. ToSet(list) = AsSequence!ToSet(list)
  BY DEF ToSet, AsSequence!ToSet
<1> QED
  BY <1>5, <1>6, <1>7 DEF AsSequence!Find, words

(* find_max, of a list that is not empty                                   *)
LEMMA FindMaxIs ==
  ASSUME NEW c, Ordered(c), Reads("find_max", <<>>), FindMax
  PROVE  AsSequence!OnItems
<1> DEFINE s == Contents(node, c, n)
           list == ItemsOf(Forward)
<1>1. s \in Seq(Items) /\ Len(s) = n /\ list = s /\ n \in Nat /\ n # 0 /\ s # <<>>
  BY ListIs, OrderedMeans DEF FindMax
<1>2. Says(Printed("greatest", <<list[Climbs(list)[Len(list)]], Climbs(list)[Len(list)] - 1>>))
  BY DEF FindMax, Climbs
<1> HIDE DEF s
<1>3. /\ s[Climbs(s)[Len(s)]] = Top(s)
      /\ Climbs(s)[Len(s)] - 1 = Place(s, Top(s))
  <2>1. Len(s) > 0 /\ Items \subseteq Int
    BY <1>1, AcademicAssumption
  <2> QED
    BY <1>1, <2>1, ClimbsToTop
<1> DEFINE words == AsSequence!Printed("greatest", <<Top(list), Place(list, Top(list))>>)
<1>4. Says(words)
  <2> HIDE DEF list
  <2> QED
    BY <1>1, <1>2, <1>3 DEF AsSequence!Printed, Printed
<1> HIDE DEF words
<1>5. AsSequence!Ask("find_max", <<>>, words)
  BY <1>4, SaysAre
<1>6. AsSequence!Greatest = Top(list)
  BY DEF AsSequence!Greatest, Top, ToSet, AsSequence!ToSet
<1>7. \A x : AsSequence!FirstPlace(x) = Place(list, x)
  BY DEF AsSequence!FirstPlace, Place
<1>8. list # <<>>
  BY <1>1
<1> QED
  BY <1>5, <1>6, <1>7, <1>8 DEF AsSequence!OnItems, words
(* delete_pos and invert_range, of valid places and of others              *)
LEMMA DeletePosIs ==
  ASSUME NEW c, Ordered(c), NEW pos \in Positions, Reads("delete_pos", <<pos>>), DeletePos(pos)
  PROVE  AsSequence!DeletePos(pos)
<1> DEFINE s == Contents(node, c, n)
           list == ItemsOf(Forward)
<1>1. /\ n \in Nat /\ s \in Seq(Items) /\ Len(s) = n /\ list = s /\ pos \in Int
      /\ DOMAIN list = 1..n
  <2>1. n \in Nat /\ s \in Seq(Items) /\ Len(s) = n /\ list = s /\ pos \in Int
    BY ListIs, OrderedMeans, AcademicAssumption
  <2> HIDE DEF s, list
  <2> QED
    BY <2>1, LenProperties
<1>2. AsSequence!Valid(pos) <=> pos >= 0 /\ pos < n
  <2>1. AsSequence!Valid(pos) <=> pos + 1 \in DOMAIN list
    BY DEF AsSequence!Valid
  <2> HIDE DEF list, s
  <2> QED
    BY <1>1, <2>1
<1>3. CASE pos >= 0 /\ pos < n
  <2> DEFINE i == pos + 1
  <2>1. i \in 1..n /\ list' = Without(s, n, i) /\ answer' = Silence
    BY <1>1, <1>3, DeletePosTakesOut, NextItemsAre
  <2> HIDE DEF s, i
  <2>2. list' = RemoveAt(s, i)
    BY <1>1, <2>1, TakeOutAt
  <2> HIDE DEF list
  <2>3. Effect("delete_pos", <<pos>>, RemoveAt(list, i), Silence)
    BY <1>1, <2>1, <2>2 DEF Effect, list
  <2>4. AsSequence!Change("delete_pos", <<pos>>, RemoveAt(list, i))
    BY <2>3, EffectIs
  <2>5. RemoveAt(list, i) = AsSequence!RemoveAt(list, i)
    BY DEF RemoveAt, AsSequence!RemoveAt
  <2> QED
    BY <1>2, <1>3, <2>4, <2>5 DEF AsSequence!DeletePos, list, i
<1>4. CASE ~(pos >= 0 /\ pos < n)
  <2>1. Says(Printed("invalid", <<>>))
    BY <1>1, <1>4 DEF DeletePos
  <2> DEFINE words == AsSequence!Printed("invalid", <<>>)
  <2>2. words = Printed("invalid", <<>>)
    BY DEF Printed, AsSequence!Printed
  <2> HIDE DEF words
  <2>3. AsSequence!Ask("delete_pos", <<pos>>, words)
    BY <2>1, <2>2, SaysAre
  <2> QED
    BY <1>2, <1>4, <2>3 DEF AsSequence!DeletePos, words
<1> QED
  BY <1>3, <1>4

(* invert_range turns the range round, or says that it is none.            *)
LEMMA InvertRangeIs ==
  ASSUME NEW c, Ordered(c), NEW pos1 \in Positions, NEW pos2 \in Positions,
         Reads("invert_range", <<pos1, pos2>>), InvertRange(pos1, pos2)
  PROVE  AsSequence!InvertRange(pos1, pos2)
<1> DEFINE s == Contents(node, c, n)
           list == ItemsOf(Forward)
           valid == pos1 >= 0 /\ pos2 < n /\ pos1 <= pos2
<1>1. /\ n \in Nat /\ s \in Seq(Items) /\ Len(s) = n /\ list = s
      /\ pos1 \in Int /\ pos2 \in Int /\ DOMAIN list = 1..n
  <2>1. n \in Nat /\ s \in Seq(Items) /\ Len(s) = n /\ list = s /\ pos1 \in Int /\ pos2 \in Int
    BY ListIs, OrderedMeans, AcademicAssumption
  <2> HIDE DEF s, list
  <2> QED
    BY <2>1, LenProperties
<1>2. AsSequence!Valid(pos1) /\ AsSequence!Valid(pos2) /\ pos1 <= pos2 <=> valid
  <2>1. /\ AsSequence!Valid(pos1) <=> pos1 + 1 \in DOMAIN list
        /\ AsSequence!Valid(pos2) <=> pos2 + 1 \in DOMAIN list
    BY DEF AsSequence!Valid
  <2> HIDE DEF list, s
  <2> QED
    BY <1>1, <2>1
<1>3. CASE valid
  <2> DEFINE r == Contents(node', c, n)
  <2>1. /\ Inverted(node', c, pos2 + 1, pos1, pos2)
        /\ answer' = Silence /\ UNCHANGED <<n, head, tail>>
    BY <1>1, <1>3, RangeInverted
  <2>2. NextOrdered(c, n)
    BY <2>1, InvertedOrdered
  <2>3. list' = r
    BY <2>2, NextItemsAre
  <2>4. /\ r \in [1..n -> Items]
        /\ \A j \in 1..n : r[j] = IF pos1 < j /\ j <= pos2 + 1 THEN s[pos1 + pos2 + 2 - j] ELSE s[j]
    <3>1. /\ Heap(node') /\ DOMAIN node' = live /\ c \in [1..n -> live]
          /\ \A j \in 1..n :
               node'[c[j]].item =
                 IF j <= pos2 + 1 /\ pos1 < j /\ j <= pos2 + 1
                 THEN node[c[pos1 + pos2 + 2 - j]].item ELSE node[c[j]].item
      BY <2>1, OrderedMeans DEF Inverted, Is
    <3>2. \A j \in 1..n : r[j] = node'[c[j]].item /\ r[j] \in Items
      BY <3>1 DEF Contents, Heap, INode
    <3>3. r = [j \in 1..n |-> r[j]]
      BY DEF Contents
    <3>4. \A j \in 1..n : s[j] = node[c[j]].item
      BY ListIs
    <3>5. \A j \in 1..n : pos1 < j /\ j <= pos2 + 1 => pos1 + pos2 + 2 - j \in 1..n
      BY <1>1, <1>3
    <3> HIDE DEF r, s
    <3> QED
      BY <3>1, <3>2, <3>3, <3>4, <3>5
  <2>5. pos1 \in Nat /\ pos2 \in Nat /\ pos1 <= pos2 /\ pos2 < n
    BY <1>1, <1>3
  <2> HIDE DEF r, s, list
  <2>6. r = TurnedRound(s, pos1, pos2)
    <3>1. n = Len(s) /\ s \in Seq(Items)
      BY <1>1
    <3>2. IsTurned(r, s, pos1, pos2)
      BY <2>4, <3>1 DEF IsTurned
    <3>3. r \in [1..Len(s) -> Items] /\ pos2 < Len(s)
      BY <2>4, <2>5, <3>1
    <3> QED
      BY <2>5, <3>1, <3>2, <3>3, RangeTurned
  <2> DEFINE l == TurnedRound(list, pos1, pos2)
  <2>7. list' = l
    BY <1>1, <2>3, <2>6
  <2> HIDE DEF l
  <2>8. Effect("invert_range", <<pos1, pos2>>, l, Silence)
    BY <2>1, <2>7 DEF Effect, list
  <2>9. AsSequence!Change("invert_range", <<pos1, pos2>>, l)
    BY <2>8, EffectIs
  <2>10. l = SubSeq(list, 1, pos1) \o AsSequence!Reverse(SubSeq(list, pos1 + 1, pos2 + 1))
               \o SubSeq(list, pos2 + 2, Len(list))
    BY DEF l, TurnedRound, Reverse, AsSequence!Reverse
  <2> QED
    BY <1>2, <1>3, <2>9, <2>10 DEF AsSequence!InvertRange, list
<1>4. CASE ~valid
  <2>1. Says(Printed("invalid", <<>>))
    BY <1>1, <1>4 DEF InvertRange
  <2> DEFINE words == AsSequence!Printed("invalid", <<>>)
  <2>2. words = Printed("invalid", <<>>)
    BY DEF Printed, AsSequence!Printed
  <2> HIDE DEF words
  <2>3. AsSequence!Ask("invert_range", <<pos1, pos2>>, words)
    BY <2>1, <2>2, SaysAre
  <2> QED
    BY <1>2, <1>4, <2>3 DEF AsSequence!InvertRange, words
<1> QED
  BY <1>3, <1>4

(* The end of the input: the destructor leaves nothing.                    *)
LEMMA ReturnIs ==
  ASSUME NEW c, Ordered(c), Return
  PROVE  AsSequence!End
<1> DEFINE list == ItemsOf(Forward)
<1>1. list' = <<>> /\ answer' = Silence
  <2>1. CASE n # 0
    BY <2>1, AllTakenOut, NextItemsAre DEF Return, DeleteAll
  <2>2. CASE n = 0
    <3>1. NothingChanged /\ answer' = Silence
      BY <2>2 DEF Return, NothingChanged
    <3>2. list' = Contents(node, c, n)
      BY <3>1, UnchangedOrdered, NextItemsAre
    <3> QED
      BY <2>2, <3>1, <3>2, ListIs
  <2> QED
    BY <2>1, <2>2
<1>2. Effect("", <<>>, <<>>, Silence)
  BY <1>1 DEF Effect, Return
<1> QED
  BY <1>2, EffectIs DEF AsSequence!End

(* Every line of the input is a line of the sequence of integers.          *)
LEMMA CommandIs ==
  ASSUME Chained, [AcademicNext]_academicVars
  PROVE  [AsSequence!Next]_(AsSequence!intVars)
<1>1. PICK c : Ordered(c)
  BY DEF Chained
<1>2. ASSUME NEW a \in Addresses \ live, NEW x \in Items,
             \/ Reads("insert_0", <<x>>) /\ Insert0(a, x)
             \/ Reads("insert_end", <<x>>) /\ InsertEnd(a, x)
      PROVE  AsSequence!Next
  BY <1>1, <1>2, InsertsAre DEF AsSequence!Next
<1>3. CASE \/ Reads("delete_0", <<>>) /\ Delete0
           \/ Reads("delete_end", <<>>) /\ DeleteEnd
           \/ Reads("clear", <<>>) /\ Clear
  BY <1>1, <1>3, DeletesAre DEF AsSequence!Next
<1>4. CASE \/ \E command \in {"delete_0", "delete_end", "clear", "print", "find_max"} :
                Reads(command, <<>>) /\ SayEmpty
           \/ Reads("print_0", <<>>) /\ Print0
           \/ Reads("print_end", <<>>) /\ PrintEnd
           \/ Reads("print", <<>>) /\ PrintAll
           \/ Reads("dim", <<>>) /\ Dim
  BY <1>1, <1>4, PrintsAre
<1>5. CASE Reads("find_max", <<>>) /\ FindMax
  BY <1>1, <1>5, FindMaxIs DEF AsSequence!Next
<1>6. ASSUME NEW x \in Items, Reads("find", <<x>>), Find(x) PROVE AsSequence!Next
  BY <1>1, <1>6, FindIs DEF AsSequence!Next
<1>7. ASSUME NEW pos \in Positions, Reads("delete_pos", <<pos>>), DeletePos(pos)
      PROVE  AsSequence!Next
  BY <1>1, <1>7, DeletePosIs DEF AsSequence!Next
<1>8. ASSUME NEW pos1 \in Positions, NEW pos2 \in Positions,
             Reads("invert_range", <<pos1, pos2>>), InvertRange(pos1, pos2)
      PROVE  AsSequence!Next
  BY <1>1, <1>8, InvertRangeIs DEF AsSequence!Next
<1>9. CASE Return
  BY <1>1, <1>9, ReturnIs DEF AsSequence!Next
<1>10. CASE UNCHANGED academicVars
  <2>1. NothingChanged /\ line' = line /\ answer' = answer
    BY <1>10 DEF academicVars, NothingChanged
  <2>2. ItemsOf(Forward)' = ItemsOf(Forward)
    BY <1>1, <2>1, UnchangedOrdered, NextItemsAre, ListIs
  <2> QED
    BY <2>1, <2>2 DEF AsSequence!intVars
<1> QED
  BY <1>2, <1>3, <1>4, <1>5, <1>6, <1>7, <1>8, <1>9, <1>10 DEF AcademicNext

(* Walked along its pointers the list is the sequence of integers that the *)
(* commands are about, and every answer is the one that sequence gives:    *)
(* for any input, the pointer manipulations and the loops of the program   *)
(* implement IntegerList.                                                  *)
THEOREM ListIsSequence == AcademicSpec => ImplementsIntegerList
<1>1. AcademicInit => AsSequence!Init
  <2> SUFFICES ASSUME AcademicInit PROVE AsSequence!Init
    OBVIOUS
  <2>1. Chained /\ n = 0
    BY ChainedInductive DEF AcademicInit
  <2>2. ItemsOf(Forward) = <<>>
    BY <2>1, ListIs DEF Chained
  <2> QED
    BY <2>2 DEF AcademicInit, AsSequence!Init, Line, Silence, Printed,
                AsSequence!Line, AsSequence!Silence, AsSequence!Printed
<1>2. Chained /\ [AcademicNext]_academicVars => [AsSequence!Next]_(AsSequence!intVars)
  BY CommandIs
<1> QED
  BY <1>1, <1>2, ChainedInductive, PTL
     DEF AcademicSpec, ImplementsIntegerList, AsSequence!Spec

=============================================================================
