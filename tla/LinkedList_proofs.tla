-------------------------- MODULE LinkedList_proofs --------------------------
(***************************************************************************)
(* The pointer structure of the list, for any set of addresses and of      *)
(* entries: the types, and that the live nodes form one well-formed list.  *)
(* The induction carries the list along as the function c of WellLinked:   *)
(* each operation says what the next one is.                               *)
(***************************************************************************)
EXTENDS LinkedList, FiniteSetTheorems, SequenceTheorems, TLAPS

(* What both push functions do is well typed. *)
LEMMA PushTypes ==
  ASSUME ListTypeOK, NEW n \in Nodes, NEW e \in Entries,
         PushBack(n, e) \/ PushFront(n, e)
  PROVE  ListTypeOK'
<1> USE ListAssumption DEF ListTypeOK, Pointers
<1>1. NewNode(n, e) /\ called' \in Calls
  BY DEF PushBack, PushFront, Calls
<1>2. /\ size' \in Nat /\ live' \subseteq Nodes
      /\ item' \in [Nodes -> Entries \cup {Null}]
      /\ clearing' \in BOOLEAN /\ cursor' \in Pointers
      /\ popped' \in Entries \cup {Null} /\ called' \in Calls
  BY <1>1 DEF NewNode
<1>3. CASE AttachFirst(n)
  BY <1>2, <1>3 DEF AttachFirst
<1>4. CASE AttachBehind(n, tail) /\ tail # Null
  BY <1>2, <1>4 DEF AttachBehind
<1> QED
  BY <1>3, <1>4 DEF PushBack, PushFront

(* Every field of the list and of its nodes keeps its type: no operation   *)
(* follows NULL, and the size never goes below zero.                       *)
THEOREM ListTypes == ListSpec => []ListTypeOK
<1>1. ListInit => ListTypeOK
  <2> SUFFICES ASSUME ListInit PROVE ListTypeOK
    OBVIOUS
  <2>1. clearing \in BOOLEAN /\ called \in Calls
    BY DEF ListInit, Calls
  <2> QED
    BY <2>1 DEF ListInit, ListTypeOK, Pointers
<1>2. ListTypeOK /\ [ListNext]_listVars => ListTypeOK'
  <2> SUFFICES ASSUME ListTypeOK, [ListNext]_listVars PROVE ListTypeOK'
    OBVIOUS
  <2> <<"pop_front">> \in Calls /\ <<"clear">> \in Calls
    BY DEF Calls
  <2>1. CASE PopFront
    BY <2>1, ListAssumption DEF PopFront, ListTypeOK, Pointers
  <2>2. CASE PopEmpty \/ ClearNode
    BY <2>2, ListAssumption DEF PopEmpty, ClearNode, ListTypeOK, Pointers
  <2>3. CASE ClearStart \/ ClearEnd
    <3>1. clearing' \in BOOLEAN
      BY <2>3 DEF ClearStart, ClearEnd
    <3> QED
      BY <2>3, <3>1 DEF ClearStart, ClearEnd, ListTypeOK, Pointers
  <2>4. CASE UNCHANGED listVars
    BY <2>4 DEF listVars, ListTypeOK, Pointers
  <2> QED
    BY <2>1, <2>2, <2>3, <2>4, PushTypes DEF ListNext
<1> QED
  BY <1>1, <1>2, PTL DEF ListSpec

-----------------------------------------------------------------------------
(* The induction hypothesis, with the list named. *)
Linked(c, k) == ListTypeOK /\ k \in 0..size /\ c \in [1..k -> live] /\ Chain(c, k)
NextLinked(d, m) == m \in 0..size' /\ d \in [1..m -> live'] /\ Chain(d, m)'

InFront(n, c, k) == [i \in 1..k + 1 |-> IF i = 1 THEN n ELSE c[i - 1]]
Behind(n, c, k) == [i \in 1..k + 1 |-> IF i = k + 1 THEN n ELSE c[i]]
Rest(c, k) == [i \in 1..k - 1 |-> c[i + 1]]

(* A node attached to the front, of any list or of none. *)
LEMMA FrontLinked ==
  ASSUME NEW k, NEW c, Linked(c, k), NEW n \in Nodes, NEW e \in Entries,
         NewNode(n, e), AttachFirst(n)
  PROVE  NextLinked(InFront(n, c, k), k + 1)
<1> USE ListAssumption
<1>1. k \in Nat /\ k = size /\ size' = k + 1 /\ live' = live \cup {n} /\ n \notin live
      /\ ~clearing /\ ~clearing' /\ c \in [1..k -> live] /\ live \subseteq Nodes
  BY DEF NewNode, Linked, Chain, ListTypeOK
<1> DEFINE d == [i \in 1..k + 1 |-> IF i = 1 THEN n ELSE c[i - 1]]
<1>2. d \in [1..k + 1 -> live']
  BY <1>1
<1>3. \A m \in live' : \E i \in 1..k + 1 : d[i] = m
  <2> SUFFICES ASSUME NEW m \in live' PROVE \E i \in 1..k + 1 : d[i] = m
    OBVIOUS
  <2>1. CASE m = n
    BY <1>1, <2>1
  <2>2. CASE m \in live
    <3>1. PICK i \in 1..k : c[i] = m
      BY <2>2 DEF Linked, Chain
    <3>2. i + 1 \in 1..k + 1 /\ d[i + 1] = m
      BY <1>1, <3>1
    <3> QED
      BY <3>2
  <2> QED
    BY <1>1, <2>1, <2>2
<1>4. \A i, j \in 1..k + 1 : d[i] = d[j] => i = j
  <2>1. \A i \in 1..k + 1 : i # 1 => i - 1 \in 1..k /\ d[i] = c[i - 1] /\ d[i] # n
    BY <1>1
  <2>2. d[1] = n
    BY <1>1
  <2>3. \A i, j \in 1..k : c[i] = c[j] => i = j
    BY DEF Linked, Chain
  <2> HIDE DEF d
  <2> QED
    BY <1>1, <2>1, <2>2, <2>3
<1>5. First' = d[1] /\ k + 1 # 0
  BY <1>1 DEF First, AttachFirst
<1>6. \A i \in 1..k + 1 : next'[d[i]] = IF i = k + 1 THEN Null ELSE d[i + 1]
  BY <1>1 DEF Linked, Chain, First, AttachFirst, ListTypeOK
<1>7. tail' = d[k + 1]
  BY <1>1 DEF Linked, Chain, AttachFirst
<1>8. \A i \in 1..k + 1 : prev'[d[i]] = IF i = 1 THEN Null ELSE d[i - 1]
  BY <1>1 DEF Linked, Chain, First, AttachFirst
<1>9. d = InFront(n, c, k)
  BY DEF InFront
<1> HIDE DEF d
<1>10. Chain(d, k + 1)'
  BY <1>1, <1>3, <1>4, <1>5, <1>6, <1>7, <1>8 DEF Chain
<1> QED
  BY <1>1, <1>2, <1>9, <1>10 DEF NextLinked

(* A node attached behind the last one. *)
LEMMA BackLinked ==
  ASSUME NEW k, NEW c, Linked(c, k), NEW n \in Nodes, NEW e \in Entries,
         NewNode(n, e), tail # Null, AttachBehind(n, tail)
  PROVE  NextLinked(Behind(n, c, k), k + 1)
<1> USE ListAssumption
<1>1. k \in Nat \ {0} /\ k = size /\ size' = k + 1 /\ live' = live \cup {n}
      /\ n \notin live /\ ~clearing /\ ~clearing' /\ c \in [1..k -> live]
      /\ live \subseteq Nodes /\ tail = c[k] /\ next[tail] = Null /\ k \in 1..k
  BY DEF NewNode, Linked, Chain, ListTypeOK
<1> DEFINE d == [i \in 1..k + 1 |-> IF i = k + 1 THEN n ELSE c[i]]
<1>2. d \in [1..k + 1 -> live']
  BY <1>1
<1>3. \A m \in live' : \E i \in 1..k + 1 : d[i] = m
  <2> SUFFICES ASSUME NEW m \in live' PROVE \E i \in 1..k + 1 : d[i] = m
    OBVIOUS
  <2>1. CASE m = n
    BY <1>1, <2>1
  <2>2. CASE m \in live
    <3>1. PICK i \in 1..k : c[i] = m
      BY <2>2 DEF Linked, Chain
    <3>2. i \in 1..k + 1 /\ d[i] = m
      BY <1>1, <3>1
    <3> QED
      BY <3>2
  <2> QED
    BY <1>1, <2>1, <2>2
<1>4. \A i, j \in 1..k + 1 : d[i] = d[j] => i = j
  BY <1>1 DEF Linked, Chain
<1>5. First' = d[1] /\ k + 1 # 0
  BY <1>1 DEF First, AttachBehind, Linked, Chain
<1>6. \A i \in 1..k + 1 : next'[d[i]] = IF i = k + 1 THEN Null ELSE d[i + 1]
  BY <1>1 DEF Linked, Chain, AttachBehind, ListTypeOK
<1>7. tail' = d[k + 1]
  BY <1>1 DEF AttachBehind
<1>8. \A i \in 1..k + 1 : prev'[d[i]] = IF i = 1 THEN Null ELSE d[i - 1]
  BY <1>1 DEF Linked, Chain, AttachBehind
<1>9. d = Behind(n, c, k)
  BY DEF Behind
<1> HIDE DEF d
<1>10. Chain(d, k + 1)'
  BY <1>1, <1>3, <1>4, <1>5, <1>6, <1>7, <1>8 DEF Chain
<1> QED
  BY <1>1, <1>2, <1>9, <1>10 DEF NextLinked

(* The first node unlinked and freed, by a pop or in the loop of clear. *)
LEMMA FirstUnlinked ==
  ASSUME NEW k, NEW c, Linked(c, k), PopFront \/ ClearNode
  PROVE  k > 0 /\ NextLinked(Rest(c, k), k - 1)
<1> USE ListAssumption
<1>1. /\ k \in Nat \ {0} /\ k <= size /\ size \in Nat /\ c \in [1..k -> live]
      /\ live \subseteq Nodes /\ First = c[1] /\ First # Null
      /\ 1 \in 1..k /\ live' = live \ {c[1]} /\ clearing' = clearing
  BY DEF Linked, Chain, First, PopFront, ClearNode, ListTypeOK
<1> DEFINE d == [i \in 1..k - 1 |-> c[i + 1]]
<1>2. d \in [1..k - 1 -> live']
  BY <1>1 DEF Linked, Chain
<1>3. \A m \in live' : \E i \in 1..k - 1 : d[i] = m
  <2> SUFFICES ASSUME NEW m \in live' PROVE \E i \in 1..k - 1 : d[i] = m
    OBVIOUS
  <2>1. PICK i \in 1..k : c[i] = m
    BY <1>1 DEF Linked, Chain
  <2>2. i - 1 \in 1..k - 1 /\ d[i - 1] = m
    BY <1>1, <2>1
  <2> QED
    BY <2>2
<1>4. \A i, j \in 1..k - 1 : d[i] = d[j] => i = j
  BY <1>1 DEF Linked, Chain
<1>5. First' = next[First] /\ next' = next
  BY DEF First, PopFront, ClearNode
<1>6. First' = IF k - 1 = 0 THEN Null ELSE d[1]
  BY <1>1, <1>5 DEF Linked, Chain
<1>7. \A i \in 1..k - 1 : next'[d[i]] = IF i = k - 1 THEN Null ELSE d[i + 1]
  BY <1>1, <1>5 DEF Linked, Chain
<1>8. ASSUME ~clearing'
      PROVE  /\ size' = k - 1
             /\ tail' = IF k - 1 = 0 THEN Null ELSE d[k - 1]
             /\ \A i \in 1..k - 1 : prev'[d[i]] = IF i = 1 THEN Null ELSE d[i - 1]
  <2>1. PopFront /\ size = k /\ head' = First' /\ ~clearing
    BY <1>1, <1>8 DEF PopFront, ClearNode, Linked, Chain, First
  <2>2. size' = k - 1
    BY <1>1, <2>1 DEF PopFront
  <2>3. tail' = IF k - 1 = 0 THEN Null ELSE d[k - 1]
    BY <1>1, <1>2, <1>6, <2>1 DEF PopFront, Linked, Chain
  <2>4. \A i \in 1..k - 1 : prev'[d[i]] = IF i = 1 THEN Null ELSE d[i - 1]
    <3>1. \A m \in Nodes : prev'[m] = IF m = head' THEN Null ELSE prev[m]
      BY <2>1 DEF PopFront
    <3>2. \A i \in 1..k : prev[c[i]] = IF i = 1 THEN Null ELSE c[i - 1]
      BY <1>1, <2>1 DEF Linked, Chain
    <3>3. \A i \in 1..k - 1 : d[i] \in Nodes /\ (d[i] = head' <=> i = 1)
      <4> HIDE DEF d
      <4>1. \A i \in 1..k - 1 : d[i] \in Nodes
        BY <1>1, <1>2
      <4>2. \A i \in 1..k - 1 : k - 1 # 0 /\ 1 \in 1..k - 1 /\ head' = d[1]
        BY <1>1, <1>6, <2>1
      <4> QED
        BY <4>1, <4>2, <1>4
    <3>4. \A i \in 1..k - 1 : i # 1 => prev[d[i]] = d[i - 1]
      BY <1>1, <3>2
    <3> HIDE DEF d
    <3> QED
      BY <3>1, <3>3, <3>4
  <2> QED
    BY <2>2, <2>3, <2>4
<1>9. Chain(d, k - 1)'
  BY <1>3, <1>4, <1>6, <1>7, <1>8 DEF Chain
<1>10. k - 1 \in 0..size'
  BY <1>1, <1>8 DEF PopFront, ClearNode
<1>11. d = Rest(c, k)
  BY DEF Rest
<1> HIDE DEF d
<1> QED
  BY <1>1, <1>2, <1>9, <1>10, <1>11 DEF NextLinked

(* The live nodes are one well-formed list in every state, for any number  *)
(* of addresses and entries: linked_list.c leaks no node, follows no freed *)
(* one, and keeps head, tail, size, next and prev in agreement.            *)
THEOREM AlwaysWellLinked == ListSpec => []WellLinked
<1>1. ListInit => WellLinked
  <2> SUFFICES ASSUME ListInit PROVE WellLinked
    OBVIOUS
  <2> DEFINE c == [i \in 1..0 |-> Null]
  <2>1. c \in [1..0 -> live]
    OBVIOUS
  <2>2. Chain(c, 0)
    BY DEF ListInit, Chain, First
  <2>3. 0 \in 0..size
    BY DEF ListInit
  <2> QED
    BY <2>1, <2>2, <2>3 DEF WellLinked
<1>2. ListTypeOK /\ WellLinked /\ [ListNext]_listVars => WellLinked'
  <2> SUFFICES ASSUME ListTypeOK, WellLinked, [ListNext]_listVars PROVE WellLinked'
    OBVIOUS
  <2>1. PICK k \in 0..size : \E c \in [1..k -> live] : Chain(c, k)
    BY DEF WellLinked
  <2>2. PICK c \in [1..k -> live] : Chain(c, k)
    BY <2>1
  <2>3. Linked(c, k)
    BY <2>2 DEF Linked
  <2>4. ASSUME NEW n \in Nodes, NEW e \in Entries, PushBack(n, e) \/ PushFront(n, e)
        PROVE  WellLinked'
    <3>1. \E d, m : NextLinked(d, m)
      BY <2>3, <2>4, FrontLinked, BackLinked DEF PushBack, PushFront
    <3> QED
      BY <3>1 DEF NextLinked, WellLinked
  <2>5. CASE PopFront \/ ClearNode
    BY <2>3, <2>5, FirstUnlinked DEF NextLinked, WellLinked
  <2>6. CASE PopEmpty \/ ClearStart \/ UNCHANGED listVars
    <3>1. Chain(c, k)' /\ size' = size /\ live' = live
      BY <2>2, <2>6 DEF PopEmpty, ClearStart, listVars, Chain, First
    <3> QED
      BY <3>1 DEF WellLinked
  <2>7. CASE ClearEnd
    <3>1. k = 0
      BY <2>2, <2>7, ListAssumption DEF ClearEnd, Chain, First, ListTypeOK
    <3>2. Chain(c, 0)' /\ 0 \in 0..size' /\ c \in [1..0 -> live']
      BY <2>2, <2>7, <3>1 DEF ClearEnd, Chain, First
    <3> QED
      BY <3>2 DEF WellLinked
  <2> QED
    BY <2>4, <2>5, <2>6, <2>7 DEF ListNext
<1> QED
  BY <1>1, <1>2, ListTypes, PTL DEF ListSpec

-----------------------------------------------------------------------------
(* The list as a deque.                                                    *)

(* A set of natural numbers has a least element. *)
LEMMA Least ==
  ASSUME NEW T, T \subseteq Nat, T # {}
  PROVE  \E x \in T : \A y \in T : x <= y
<1> DEFINE upTo == {0..x : x \in T}
<1>1. upTo \subseteq FiniteSubsetsOf(Nat) /\ upTo # {}
  <2>1. ASSUME NEW x \in T PROVE 0..x \in SUBSET Nat /\ IsFiniteSet(0..x)
    BY FS_Interval
  <2> QED
    BY <2>1 DEF FiniteSubsetsOf
<1> HIDE DEF upTo
<1>2. PICK least \in upTo : \A other \in upTo : <<other, least>> \notin StrictSubsetOrdering(Nat)
  BY <1>1, FS_StrictSubsetOrderingWellFounded, WFMin
<1>3. PICK x \in T : least = 0..x
  BY <1>2 DEF upTo
<1>4. ASSUME NEW y \in T PROVE x <= y
  <2> SUFFICES ASSUME y < x PROVE FALSE
    OBVIOUS
  <2>1. x \in Nat /\ y \in Nat
    OBVIOUS
  <2>2. 0..y \in SUBSET Nat /\ 0..x \in SUBSET Nat /\ 0..y \subseteq 0..x
    BY <2>1
  <2>3. 0..y # 0..x
    <3>1. x \in 0..x /\ x \notin 0..y
      BY <2>1
    <3> QED
      BY <3>1
  <2>4. <<0..y, 0..x>> \in StrictSubsetOrdering(Nat)
    BY <2>2, <2>3, Zenon DEF StrictSubsetOrdering
  <2>5. 0..y \in upTo
    BY DEF upTo
  <2> QED
    BY <1>2, <1>3, <2>4, <2>5
<1> QED
  BY <1>4

(* The walk along the links of a list is that list: the recursion has one  *)
(* solution, and the list is one (two solutions would differ at a least    *)
(* place).                                                                 *)
LEMMA WalkIsChain ==
  ASSUME NEW first, NEW links, NEW nodes, NEW k \in Nat, NEW c \in [1..k -> nodes],
         \A n \in nodes : \E i \in 1..k : c[i] = n,
         \A i, j \in 1..k : c[i] = c[j] => i = j,
         first = IF k = 0 THEN Null ELSE c[1],
         \A i \in 1..k : links[c[i]] = IF i = k THEN Null ELSE c[i + 1]
  PROVE  Walk(first, links, nodes) = c
<1>1. Cardinality(nodes) = k
  <2>1. c \in Bijection(1..k, nodes)
    BY DEF Bijection, Injection, Surjection, IsInjective
  <2>2. IsFiniteSet(1..k) /\ Cardinality(1..k) = k
    BY FS_Interval
  <2> QED
    BY <2>1, <2>2, FS_Bijection DEF ExistsBijection
<1> DEFINE Follows(f, i) ==
             IF i = 1 THEN first
             ELSE IF f[i - 1] \in nodes THEN links[f[i - 1]] ELSE Null
<1>2. ASSUME NEW i \in 1..k PROVE c[i] = Follows(c, i)
  <2>1. CASE i = 1
    BY <2>1
  <2>2. CASE i # 1
    <3>1. i - 1 \in 1..k /\ i - 1 # k
      BY <2>2
    <3>2. c[i - 1] \in nodes /\ links[c[i - 1]] = c[(i - 1) + 1]
      BY <3>1
    <3> QED
      BY <2>2, <3>2
  <2> QED
    BY <2>1, <2>2
<1>3. c = [i \in 1..k |-> Follows(c, i)]
  BY <1>2
<1>4. ASSUME NEW f, f = [i \in 1..k |-> Follows(f, i)]
      PROVE  f = c
  <2> DEFINE differ == {i \in 1..k : f[i] # c[i]}
  <2>1. ASSUME differ # {} PROVE FALSE
    <3>1. PICK i \in differ : \A j \in differ : i <= j
      <4>1. differ \subseteq Nat
        OBVIOUS
      <4> HIDE DEF differ
      <4> QED
        BY <2>1, <4>1, Least
    <3>2. CASE i = 1
      <4>1. i \in 1..k /\ f[i] = Follows(f, i) /\ c[i] = Follows(c, i)
        BY <1>2, <1>4
      <4> QED
        BY <3>1, <3>2, <4>1
    <3>3. CASE i # 1
      <4>1. i - 1 \in 1..k /\ i - 1 \notin differ
        BY <3>1, <3>3
      <4>2. f[i - 1] = c[i - 1]
        BY <4>1
      <4>3. f[i] = Follows(f, i) /\ c[i] = Follows(c, i)
        BY <1>2, <1>4
      <4> QED
        BY <3>1, <4>2, <4>3
    <3> QED
      BY <3>2, <3>3
  <2>2. \A i \in 1..k : f[i] = c[i]
    BY <2>1
  <2>3. DOMAIN f = 1..k /\ DOMAIN c = 1..k
    BY <1>4
  <2> QED
    BY <1>4, <2>2, <2>3
<1>5. Walk(first, links, nodes) = CHOOSE f : f = [i \in 1..k |-> Follows(f, i)]
  BY <1>1 DEF Walk
<1> HIDE DEF Follows
<1> QED
  BY <1>3, <1>4, <1>5
(* The entries of a list seen through its nodes. *)
EntriesOf(c, k, entries) == [i \in 1..k |-> entries[c[i]]]

(* Every live node carries an entry of its owner. *)
LiveCarry == \A n \in live : item[n] \in Entries

LEMMA ContentsAre ==
  ASSUME NEW k, NEW c, Linked(c, k)
  PROVE  Contents = EntriesOf(c, k, item)
<1>1. k \in Nat /\ c \in [1..k -> live] /\ live \subseteq Nodes
  BY DEF Linked, ListTypeOK
<1>2. Forward = c
  BY <1>1, WalkIsChain DEF Forward, Linked, Chain
<1>3. \A i \in 1..k : Carried(c[i]) = item[c[i]]
  BY <1>1, ListAssumption DEF Carried
<1> QED
  BY <1>1, <1>2, <1>3 DEF Contents, EntriesOf

LEMMA NextContentsAre ==
  ASSUME NEW k, NEW c, NextLinked(c, k), ListTypeOK'
  PROVE  Contents' = EntriesOf(c, k, item')
<1>1. k \in Nat /\ c \in [1..k -> live'] /\ live' \subseteq Nodes
  BY DEF NextLinked, ListTypeOK
<1>2. Forward' = c
  BY <1>1, WalkIsChain DEF Forward, NextLinked, Chain
<1>3. \A i \in 1..k : Carried(c[i])' = item'[c[i]]
  BY <1>1, ListAssumption DEF Carried
<1> QED
  BY <1>1, <1>2, <1>3 DEF Contents, EntriesOf

(* What becomes of the entries when the list changes at an end. *)
LEMMA EntriesInFront ==
  ASSUME NEW s \in Seq(Entries), NEW e \in Entries
  PROVE  [i \in 1..Len(s) + 1 |-> IF i = 1 THEN e ELSE s[i - 1]] = <<e>> \o s
<1> DEFINE r == [i \in 1..Len(s) + 1 |-> IF i = 1 THEN e ELSE s[i - 1]]
           q == <<e>> \o s
<1>1. Len(s) \in Nat /\ s \in [1..Len(s) -> Entries]
  BY LenProperties
<1>2. \A i \in 1..Len(s) + 1 : r[i] \in Entries
  BY <1>1
<1>3. r \in Seq(Entries) /\ Len(r) = Len(s) + 1
  BY <1>1, <1>2
<1>4. <<e>> \in Seq(Entries) /\ Len(<<e>>) = 1 /\ <<e>>[1] = e
  OBVIOUS
<1>5. /\ q \in Seq(Entries) /\ Len(q) = 1 + Len(s)
      /\ \A i \in 1..1 + Len(s) : q[i] = IF i <= 1 THEN e ELSE s[i - 1]
  BY <1>4, ConcatProperties
<1>6. \A i \in 1..Len(r) : r[i] = q[i]
  BY <1>1, <1>3, <1>5
<1> HIDE DEF r, q
<1>7. r = q
  BY <1>1, <1>3, <1>5, <1>6, SeqEqual
<1> QED
  BY <1>7 DEF r, q

LEMMA EntriesBehind ==
  ASSUME NEW s \in Seq(Entries), NEW e \in Entries
  PROVE  [i \in 1..Len(s) + 1 |-> IF i = Len(s) + 1 THEN e ELSE s[i]] = Append(s, e)
<1> DEFINE r == [i \in 1..Len(s) + 1 |-> IF i = Len(s) + 1 THEN e ELSE s[i]]
<1>1. Len(s) \in Nat /\ s \in [1..Len(s) -> Entries]
  BY LenProperties
<1>2. \A i \in 1..Len(s) + 1 : r[i] \in Entries
  BY <1>1
<1>3. r \in Seq(Entries) /\ Len(r) = Len(s) + 1
  BY <1>1, <1>2
<1>4. Append(s, e) \in Seq(Entries) /\ Len(Append(s, e)) = Len(s) + 1
      /\ (\A i \in 1..Len(s) : Append(s, e)[i] = s[i])
      /\ Append(s, e)[Len(s) + 1] = e
  BY AppendProperties
<1>5. \A i \in 1..Len(r) : r[i] = Append(s, e)[i]
  BY <1>1, <1>3, <1>4
<1> HIDE DEF r
<1>6. r = Append(s, e)
  BY <1>3, <1>4, <1>5, SeqEqual
<1> QED
  BY <1>6 DEF r

LEMMA EntriesRest ==
  ASSUME NEW s \in Seq(Entries), Len(s) > 0
  PROVE  /\ s # <<>> /\ Head(s) = s[1]
         /\ [i \in 1..Len(s) - 1 |-> s[i + 1]] = Tail(s)
<1> DEFINE r == [i \in 1..Len(s) - 1 |-> s[i + 1]]
<1>1. Len(s) \in Nat /\ s \in [1..Len(s) -> Entries] /\ s # <<>> /\ Head(s) = s[1]
  BY LenProperties
<1>2. \A i \in 1..Len(s) - 1 : r[i] \in Entries
  BY <1>1
<1>3. r \in Seq(Entries) /\ Len(r) = Len(s) - 1
  BY <1>1, <1>2
<1>4. Tail(s) \in Seq(Entries) /\ Len(Tail(s)) = Len(s) - 1
      /\ \A i \in 1..Len(s) - 1 : Tail(s)[i] = s[i + 1]
  BY <1>1, HeadTailProperties
<1>5. \A i \in 1..Len(r) : r[i] = Tail(s)[i]
  BY <1>1, <1>3, <1>4
<1> HIDE DEF r
<1>6. r = Tail(s)
  BY <1>3, <1>4, <1>5, SeqEqual
<1> QED
  BY <1>1, <1>6 DEF r

(* The entries of a list whose nodes all carry one. *)
LEMMA EntriesAreSeq ==
  ASSUME LiveCarry, NEW k, NEW c, Linked(c, k)
  PROVE  /\ EntriesOf(c, k, item) \in Seq(Entries)
         /\ Len(EntriesOf(c, k, item)) = k
         /\ k \in Nat
         /\ \A i \in 1..k : EntriesOf(c, k, item)[i] = item[c[i]]
<1>1. k \in Nat /\ c \in [1..k -> live]
  BY DEF Linked, ListTypeOK
<1>2. \A i \in 1..k : item[c[i]] \in Entries
  BY <1>1 DEF LiveCarry
<1> QED
  BY <1>1, <1>2 DEF EntriesOf

(* Each push inserts its entry at the end it is named for; in an empty     *)
(* list the two ends are one.                                              *)
LEMMA PushInserts ==
  ASSUME LiveCarry, NEW k, NEW c, Linked(c, k), ListTypeOK',
         NEW n \in Nodes, NEW e \in Entries
  PROVE  /\ PushBack(n, e) => Deque!PushBack(e)
         /\ PushFront(n, e) => Deque!PushFront(e)
<1> SUFFICES ASSUME NewNode(n, e)
             PROVE  /\ PushBack(n, e) => Deque!PushBack(e)
                    /\ PushFront(n, e) => Deque!PushFront(e)
  BY DEF PushBack, PushFront
<1> DEFINE s == EntriesOf(c, k, item)
<1>1. /\ n \notin live /\ item' = [item EXCEPT ![n] = e]
      /\ item \in [Nodes -> Entries \cup {Null}] /\ live \subseteq Nodes
      /\ c \in [1..k -> live] /\ ~clearing /\ clearing' = clearing /\ Out' = <<>>
  BY DEF NewNode, Linked, ListTypeOK, Out
<1>2. /\ s \in Seq(Entries) /\ Len(s) = k /\ k \in Nat
      /\ \A i \in 1..k : s[i] = item[c[i]]
  BY EntriesAreSeq
<1>3. item'[n] = e /\ \A i \in 1..k : item'[c[i]] = item[c[i]]
  BY <1>1
<1>4. Contents = s
  BY ContentsAre
<1> HIDE DEF s
<1>5. ASSUME AttachFirst(n) PROVE Contents' = <<e>> \o Contents
  <2>1. Contents' = EntriesOf(InFront(n, c, k), k + 1, item')
    BY <1>1, <1>5, FrontLinked, NextContentsAre
  <2>2. EntriesOf(InFront(n, c, k), k + 1, item')
          = [i \in 1..Len(s) + 1 |-> IF i = 1 THEN e ELSE s[i - 1]]
    BY <1>2, <1>3 DEF EntriesOf, InFront
  <2> QED
    BY <1>2, <1>4, <2>1, <2>2, EntriesInFront
<1>6. ASSUME tail # Null, AttachBehind(n, tail) PROVE Contents' = Append(Contents, e)
  <2>1. Contents' = EntriesOf(Behind(n, c, k), k + 1, item')
    BY <1>1, <1>6, BackLinked, NextContentsAre
  <2>2. EntriesOf(Behind(n, c, k), k + 1, item')
          = [i \in 1..Len(s) + 1 |-> IF i = Len(s) + 1 THEN e ELSE s[i]]
    BY <1>2, <1>3 DEF EntriesOf, Behind
  <2> QED
    BY <1>2, <1>4, <2>1, <2>2, EntriesBehind
<1>7. tail = Null => k = 0
  <2>1. k # 0 => tail = c[k] /\ c[k] \in Nodes
    BY <1>1, <1>2 DEF Linked, Chain
  <2> QED
    BY <2>1, ListAssumption
<1>8. tail = Null => <<e>> \o Contents = Append(Contents, e)
  <2>1. tail = Null => Contents = <<>>
    BY <1>2, <1>4, <1>7, EmptySeq
  <2>2. <<e>> \o <<>> = Append(<<>>, e)
    OBVIOUS
  <2> QED
    BY <2>1, <2>2
<1>9. PushBack(n, e) => Deque!PushBack(e)
  <2> SUFFICES ASSUME PushBack(n, e) PROVE Deque!PushBack(e)
    OBVIOUS
  <2>1. Contents' = Append(Contents, e)
    BY <1>5, <1>6, <1>8 DEF PushBack
  <2> QED
    BY <1>1, <2>1 DEF PushBack, Deque!PushBack
<1>10. PushFront(n, e) => Deque!PushFront(e)
  BY <1>1, <1>5 DEF PushFront, Deque!PushFront
<1> QED
  BY <1>9, <1>10

(* The first entry leaves: popped, or freed in the loop of clear. *)
LEMMA UnlinkTakesFirst ==
  ASSUME LiveCarry, NEW k, NEW c, Linked(c, k), ListTypeOK', PopFront \/ ClearNode
  PROVE  /\ Contents # <<>> /\ Contents' = Tail(Contents)
         /\ First \in live /\ Head(Contents) = item[First]
<1> DEFINE s == EntriesOf(c, k, item)
<1>1. k > 0 /\ NextLinked(Rest(c, k), k - 1) /\ item' = item
  BY FirstUnlinked DEF PopFront, ClearNode
<1>2. /\ s \in Seq(Entries) /\ Len(s) = k /\ k \in Nat
      /\ \A i \in 1..k : s[i] = item[c[i]]
  BY EntriesAreSeq
<1>3. Contents = s
  BY ContentsAre
<1>4. First = c[1] /\ c[1] \in live
  <2>1. 1 \in 1..k /\ k # 0 /\ c \in [1..k -> live]
    BY <1>1, <1>2 DEF Linked
  <2> QED
    BY <2>1 DEF Linked, Chain
<1> HIDE DEF s
<1>5. Contents' = EntriesOf(Rest(c, k), k - 1, item)
  BY <1>1, NextContentsAre
<1>6. EntriesOf(Rest(c, k), k - 1, item) = [i \in 1..Len(s) - 1 |-> s[i + 1]]
  BY <1>2 DEF EntriesOf, Rest
<1>7. s # <<>> /\ Head(s) = s[1] /\ Contents' = Tail(s)
  BY <1>1, <1>2, <1>5, <1>6, EntriesRest
<1> QED
  BY <1>1, <1>2, <1>3, <1>4, <1>7

(* The list is empty exactly when there is no first node. *)
LEMMA EmptyContents ==
  ASSUME LiveCarry, NEW k, NEW c, Linked(c, k)
  PROVE  First = Null <=> Contents = <<>>
<1>1. /\ EntriesOf(c, k, item) \in Seq(Entries) /\ Len(EntriesOf(c, k, item)) = k
      /\ k \in Nat /\ Contents = EntriesOf(c, k, item)
  BY EntriesAreSeq, ContentsAre
<1>2. First = Null <=> k = 0
  <2>1. k # 0 => 1 \in 1..k
    BY <1>1
  <2>2. k # 0 => c[1] \in Nodes
    BY <2>1 DEF Linked, ListTypeOK
  <2> QED
    BY <2>2, ListAssumption DEF Linked, Chain
<1>3. k = 0 <=> Contents = <<>>
  BY <1>1, EmptySeq
<1> QED
  BY <1>2, <1>3

(* Each function of the list is an operation of the deque. *)
LEMMA NextIsDequeStep ==
  ASSUME ListTypeOK, ListTypeOK', LiveCarry, WellLinked, [ListNext]_listVars
  PROVE  [Deque!Next]_(Deque!dequeVars)
<1>1. PICK k \in 0..size : \E c \in [1..k -> live] : Chain(c, k)
  BY DEF WellLinked
<1>2. PICK c \in [1..k -> live] : Chain(c, k)
  BY <1>1
<1>3. Linked(c, k)
  BY <1>2 DEF Linked
<1>4. First = Null <=> Contents = <<>>
  BY <1>3, EmptyContents
<1>5. ASSUME NEW n \in Nodes, NEW e \in Entries, PushBack(n, e) \/ PushFront(n, e)
      PROVE  Deque!PushBack(e) \/ Deque!PushFront(e)
  BY <1>3, <1>5, PushInserts
<1>6. CASE PopFront
  <2>1. /\ Contents # <<>> /\ Contents' = Tail(Contents)
        /\ First \in live /\ Head(Contents) = item[First]
    BY <1>3, <1>6, UnlinkTakesFirst
  <2>2. First = head /\ popped' = item[First] /\ item[First] # Null
    BY <1>6, <2>1, ListAssumption DEF PopFront, First, LiveCarry
  <2>3. /\ Out' = <<Head(Contents)>> /\ ~clearing /\ clearing' = clearing
        /\ called' = <<"pop_front">>
    BY <1>6, <2>1, <2>2 DEF Out, PopFront
  <2> QED
    BY <2>1, <2>3 DEF Deque!Pop, Deque!Next
<1>7. ASSUME UNCHANGED <<First, next, live, item>>
      PROVE  Contents' = Contents
  BY <1>7 DEF Contents, Forward, Carried
<1>8. CASE PopEmpty
  <2>1. UNCHANGED <<First, next, live, item>> /\ First = Null
    BY <1>8 DEF PopEmpty, First
  <2>2. Contents' = <<>> /\ Contents = <<>> /\ Out' = <<>>
    BY <1>4, <1>7, <1>8, <2>1 DEF Out, PopEmpty
  <2> QED
    BY <1>8, <2>2 DEF PopEmpty, Deque!Pop, Deque!Next
<1>9. CASE ClearStart
  <2>1. UNCHANGED <<First, next, live, item>>
    BY <1>9 DEF ClearStart, First
  <2>2. Contents' = Contents /\ Out' = <<>>
    BY <1>7, <1>9, <2>1 DEF Out, ClearStart
  <2> QED
    BY <1>9, <2>2 DEF ClearStart, Deque!Empty, Deque!Next
<1>10. CASE ClearNode
  <2>1. Contents # <<>> /\ Contents' = Tail(Contents)
    BY <1>3, <1>10, UnlinkTakesFirst
  <2> QED
    BY <1>10, <2>1 DEF ClearNode, Deque!FreeFront, Deque!Next, Out
<1>11. CASE ClearEnd
  <2>1. UNCHANGED <<First, next, live, item>> /\ First = Null
    BY <1>11 DEF ClearEnd, First
  <2>2. Contents' = Contents /\ Contents = <<>> /\ Out' = Out
    BY <1>4, <1>7, <1>11, <2>1 DEF Out, ClearEnd
  <2> QED
    BY <1>11, <2>2 DEF ClearEnd, Deque!Emptied, Deque!Next
<1>12. CASE UNCHANGED listVars
  <2>1. UNCHANGED <<First, next, live, item>> /\ Out' = Out /\ UNCHANGED <<clearing, called>>
    BY <1>12 DEF listVars, First, Out
  <2> QED
    BY <1>7, <2>1 DEF Deque!dequeVars
<1> QED
  BY <1>5, <1>6, <1>8, <1>9, <1>10, <1>11, <1>12 DEF ListNext, Deque!Next

(* The list implements its callers' deque, for any number of addresses,    *)
(* used again in any order: a push puts one entry at the end asked for, a  *)
(* pop returns the first one, a clear frees all from the front, and no     *)
(* operation moves, drops or repeats another entry.                        *)
THEOREM ListIsDeque == ListSpec => ImplementsDeque
<1>1. ListInit => Deque!Init /\ LiveCarry
  <2> SUFFICES ASSUME ListInit PROVE Deque!Init /\ LiveCarry
    OBVIOUS
  <2>1. LiveCarry
    BY DEF ListInit, LiveCarry
  <2> DEFINE c == [i \in 1..0 |-> Null]
  <2>2. c \in [1..0 -> live] /\ \A n \in live : \E i \in 1..0 : c[i] = n
    BY DEF ListInit
  <2>3. First = Null /\ Forward = c
    BY <2>2, WalkIsChain DEF ListInit, First, Forward
  <2>4. Contents = <<>>
    BY <2>3 DEF Contents
  <2> QED
    BY <2>1, <2>4 DEF Deque!Init, ListInit, Out
<1>2. ListTypeOK /\ LiveCarry /\ [ListNext]_listVars => LiveCarry'
  <2> SUFFICES ASSUME ListTypeOK, LiveCarry, [ListNext]_listVars PROVE LiveCarry'
    OBVIOUS
  <2>1. ASSUME NEW n \in Nodes, NEW e \in Entries, NewNode(n, e) PROVE LiveCarry'
    BY <2>1 DEF NewNode, LiveCarry, ListTypeOK
  <2>2. CASE item' = item /\ live' \subseteq live
    BY <2>2 DEF LiveCarry
  <2> QED
    BY <2>1, <2>2 DEF ListNext, PushBack, PushFront, PopFront, PopEmpty, ClearStart,
                      ClearNode, ClearEnd, listVars
<1>3. ListTypeOK /\ ListTypeOK' /\ LiveCarry /\ WellLinked /\ [ListNext]_listVars
        => [Deque!Next]_(Deque!dequeVars)
  BY NextIsDequeStep
<1> QED
  BY <1>1, <1>2, <1>3, ListTypes, AlwaysWellLinked, PTL
     DEF ListSpec, ImplementsDeque, Deque!Spec

=============================================================================
