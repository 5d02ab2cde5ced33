-------------------------- MODULE PendingJson_proofs --------------------------
(***************************************************************************)
(* What the encoder writes, for every size of the answer buffer and of the *)
(* fields, every capacity and preview, and any texts: it stays inside the  *)
(* buffer, the answer is the whole document or an error, and a reader gets *)
(* the texts back.                                                         *)
(*                                                                         *)
(* The texts are concatenations and sums, which are recursive functions.   *)
(* Induction is over a set of numbers that holds 0 and every successor     *)
(* (Induct); from it follows what FlattenSeq, Text, Size and ReadStrings   *)
(* do with one piece more, and that is all the rest needs.                 *)
(***************************************************************************)
EXTENDS PendingJson, FiniteSetTheorems, SequenceTheorems, TLAPS

-----------------------------------------------------------------------------
(* Numbers and recursion                                                   *)

(* A set of numbers that is not empty has a least element. *)
LEMMA Least ==
  ASSUME NEW T, T \subseteq Nat, T # {}
  PROVE  \E x \in T : \A y \in T : x <= y
<1> DEFINE upTo == {0..x : x \in T}
<1>1. upTo \subseteq FiniteSubsetsOf(Nat) /\ upTo # {}
  <2>1. ASSUME NEW x \in T PROVE 0..x \in SUBSET Nat /\ IsFiniteSet(0..x)
    BY FS_Interval
  <2> QED
    BY <2>1 DEF FiniteSubsetsOf
<1> HIDE DEF upTo
<1>2. PICK least \in upTo : \A other \in upTo : <<other, least>> \notin StrictSubsetOrdering(Nat)
  BY <1>1, FS_StrictSubsetOrderingWellFounded, WFMin
<1>3. PICK x \in T : least = 0..x
  BY <1>2 DEF upTo
<1>4. ASSUME NEW y \in T PROVE x <= y
  <2> SUFFICES ASSUME y < x PROVE FALSE
    OBVIOUS
  <2>1. x \in Nat /\ y \in Nat
    OBVIOUS
  <2>2. 0..y \in SUBSET Nat /\ 0..x \in SUBSET Nat /\ 0..y \subseteq 0..x
    BY <2>1
  <2>3. 0..y # 0..x
    <3>1. x \in 0..x /\ x \notin 0..y
      BY <2>1
    <3> QED
      BY <3>1
  <2>4. <<0..y, 0..x>> \in StrictSubsetOrdering(Nat)
    BY <2>2, <2>3, Zenon DEF StrictSubsetOrdering
  <2>5. 0..y \in upTo
    BY DEF upTo
  <2> QED
    BY <1>2, <1>3, <2>4, <2>5
<1> QED
  BY <1>4

(* Induction, over the set of the numbers with the property. *)
LEMMA Induct ==
  ASSUME NEW T, 0 \in T, \A n \in Nat : n \in T => n + 1 \in T
  PROVE  \A n \in Nat : n \in T
<1> DEFINE others == Nat \ T
<1> SUFFICES ASSUME others # {} PROVE FALSE
  OBVIOUS
<1>1. PICK x \in others : \A y \in others : x <= y
  <2>1. others \subseteq Nat
    OBVIOUS
  <2> HIDE DEF others
  <2> QED
    BY <2>1, Least
<1>2. x \in Nat /\ x \notin T /\ x # 0
  OBVIOUS
<1>3. x - 1 \in Nat /\ x - 1 \notin others /\ (x - 1) + 1 = x
  BY <1>1, <1>2
<1> QED
  BY <1>2, <1>3

(* Steps that each map values to values, taken one after the other. *)
LEMMA Recursion ==
  ASSUME NEW V, NEW base \in V, NEW n \in Nat, NEW step \in [1..n -> [V -> V]]
  PROVE  \E f \in [0..n -> V] : f[0] = base /\ \A i \in 1..n : f[i] = step[i][f[i - 1]]
<1> DEFINE Walks(f, k) == f[0] = base /\ \A i \in 1..k : f[i] = step[i][f[i - 1]]
           T == {k \in Nat : k <= n => \E f \in [0..k -> V] : Walks(f, k)}
<1>1. 0 \in T
  <2>1. [i \in 0..0 |-> base] \in [0..0 -> V] /\ Walks([i \in 0..0 |-> base], 0)
    OBVIOUS
  <2> QED
    BY <2>1
<1>2. ASSUME NEW k \in Nat, k \in T PROVE k + 1 \in T
  <2> SUFFICES ASSUME k + 1 <= n PROVE \E f \in [0..k + 1 -> V] : Walks(f, k + 1)
    OBVIOUS
  <2>1. PICK f \in [0..k -> V] : Walks(f, k)
    BY <1>2
  <2>2. k + 1 \in 1..n /\ f[k] \in V /\ step[k + 1] \in [V -> V]
    BY <2>1
  <2> DEFINE g == [i \in 0..k + 1 |-> IF i = k + 1 THEN step[k + 1][f[k]] ELSE f[i]]
  <2>3. g \in [0..k + 1 -> V]
    BY <2>1, <2>2
  <2>4. g[0] = base /\ g[k + 1] = step[k + 1][f[k]] /\ \A i \in 0..k : g[i] = f[i]
    BY <2>1
  <2> HIDE DEF g
  <2>5. ASSUME NEW i \in 1..k + 1 PROVE g[i] = step[i][g[i - 1]]
    <3>1. CASE i = k + 1
      BY <2>4, <3>1
    <3>2. CASE i \in 1..k
      <4>1. i - 1 \in 0..k /\ i \in 0..k
        BY <3>2
      <4> QED
        BY <2>1, <2>4, <3>2, <4>1
    <3> QED
      BY <3>1, <3>2
  <2> QED
    BY <2>3, <2>4, <2>5
<1> HIDE DEF T
<1>3. n \in T
  BY <1>1, <1>2, Induct
<1> QED
  BY <1>3 DEF T

(* The sequences in a sequence, put together one after the other. *)
Joins(f, s) == f[0] = <<>> /\ \A i \in 1..Len(s) : f[i] = f[i - 1] \o s[i]

(* The joined sequences exist, up to every place.                          *)
LEMMA FlattenExists ==
  ASSUME NEW X, NEW s \in Seq(Seq(X))
  PROVE  \E f \in [0..Len(s) -> Seq(X)] : Joins(f, s)
<1> DEFINE n == Len(s)
           step == [i \in 1..n |-> [v \in Seq(X) |-> v \o s[i]]]
<1>1. n \in Nat /\ \A i \in 1..n : s[i] \in Seq(X)
  BY LenProperties, ElementOfSeq
<1>2. step \in [1..n -> [Seq(X) -> Seq(X)]] /\ <<>> \in Seq(X)
  BY <1>1, ConcatProperties, EmptySeq
<1>3. PICK f \in [0..n -> Seq(X)] :
        f[0] = <<>> /\ \A i \in 1..n : f[i] = step[i][f[i - 1]]
  <2> DEFINE V == Seq(X)
             nothing == <<>>
  <2>1. n \in Nat /\ nothing \in V /\ step \in [1..n -> [V -> V]]
    BY <1>1, <1>2
  <2> HIDE DEF n, step, V, nothing
  <2>2. \E f \in [0..n -> V] : f[0] = nothing /\ \A i \in 1..n : f[i] = step[i][f[i - 1]]
    BY <2>1, Recursion, SMTT(60)
  <2> QED
    BY <2>2 DEF V, nothing
<1>4. ASSUME NEW i \in 1..n PROVE f[i] = f[i - 1] \o s[i]
  <2>1. i - 1 \in 0..n /\ f[i - 1] \in Seq(X)
    <3> HIDE DEF n
    <3>1. i - 1 \in 0..n
      BY <1>1
    <3> QED
      BY <1>3, <3>1
  <2> QED
    BY <1>3, <2>1
<1> HIDE DEF step
<1> QED
  BY <1>3, <1>4 DEF Joins

(* FlattenSeq is where the joining ends.                                   *)
LEMMA FlattenValue ==
  ASSUME NEW X, NEW s \in Seq(Seq(X)), NEW f \in [0..Len(s) -> Seq(X)], Joins(f, s)
  PROVE  FlattenSeq(s) = f[Len(s)]
<1> DEFINE n == Len(s)
<1>1. n \in Nat /\ \A i \in 1..n : s[i] \in Seq(X)
  BY LenProperties, ElementOfSeq
<1>3. f[0] = <<>>
  BY DEF Joins
<1>4. \A i \in 1..n : f[i] = f[i - 1] \o s[i]
  BY DEF Joins
<1>5. CASE n = 0
  <2>1. s = <<>>
    BY <1>5, EmptySeq
  <2> QED
    BY <1>3, <1>5, <2>1 DEF FlattenSeq
<1>6. CASE n # 0
  <2> DEFINE Solves(g) == g = [i \in 1..n |-> IF i = 1 THEN s[i] ELSE g[i - 1] \o s[i]]
             h == [i \in 1..n |-> f[i]]
  <2>1. FlattenSeq(s) = (CHOOSE g : Solves(g))[n]
    BY <1>6, Zenon DEF FlattenSeq
  <2>2. Solves(h)
    <3>1. ASSUME NEW i \in 1..n PROVE h[i] = IF i = 1 THEN s[i] ELSE h[i - 1] \o s[i]
      <4>1. CASE i = 1
        <5>1. s[i] \in Seq(X)
          BY <1>1
        <5>2. i - 1 = 0
          BY <4>1
        <5>3. f[i] = f[0] \o s[i]
          BY <1>4, <5>2
        <5>4. f[0] = <<>>
          BY <1>3
        <5> QED
          BY <4>1, <5>1, <5>3, <5>4, ConcatEmptySeq
      <4>2. CASE i # 1
        <5>1. i - 1 \in 1..n
          BY <1>1, <4>2
        <5> QED
          BY <1>4, <4>2, <5>1
      <4> QED
        BY <4>1, <4>2
    <3> QED
      BY <3>1
  <2> DEFINE joined == CHOOSE g : Solves(g)
  <2>3. Solves(joined)
    BY <2>2
  <2> HIDE DEF joined
  <2>4. \A i \in 1..n : joined[i] = f[i]
    <3> DEFINE T == {k \in Nat : k \in 1..n => joined[k] = f[k]}
    <3>1. 0 \in T
      BY <1>1
    <3>2. ASSUME NEW k \in Nat, k \in T PROVE k + 1 \in T
      <4> SUFFICES ASSUME k + 1 \in 1..n PROVE joined[k + 1] = f[k + 1]
        OBVIOUS
      <4>1. CASE k = 0
        <5>1. 1 \in 1..n
          BY <1>1, <1>6
        <5>2. joined[1] = s[1] /\ h[1] = s[1]
          BY <2>2, <2>3, <5>1
        <5> QED
          BY <4>1, <5>1, <5>2
      <4>2. CASE k # 0
        <5>1. k \in 1..n /\ (k + 1) - 1 = k /\ k + 1 # 1
          BY <1>1, <4>2
        <5>2. joined[k + 1] = joined[k] \o s[k + 1]
          BY <2>3, <5>1
        <5>3. f[k + 1] = f[k] \o s[k + 1]
          BY <1>4, <5>1
        <5> QED
          BY <3>2, <5>1, <5>2, <5>3
      <4> QED
        BY <4>1, <4>2
    <3> HIDE DEF T
    <3>3. \A i \in Nat : i \in T
      BY <3>1, <3>2, Induct
    <3> QED
      BY <1>1, <3>3 DEF T
  <2>5. joined[n] = f[n]
    <3>1. n \in 1..n
      BY <1>1, <1>6
    <3> HIDE DEF n
    <3> QED
      BY <2>4, <3>1
  <2> QED
    BY <2>1, <2>5 DEF joined
<1> QED
  BY <1>5, <1>6

(* One sequence more. *)
LEMMA FlattenAppend ==
  ASSUME NEW X, NEW s \in Seq(Seq(X)), NEW x \in Seq(X)
  PROVE  /\ FlattenSeq(s) \in Seq(X)
         /\ FlattenSeq(Append(s, x)) = FlattenSeq(s) \o x
<1> DEFINE n == Len(s)
           t == Append(s, x)
<1>1. n \in Nat /\ Len(t) = n + 1 /\ t \in Seq(Seq(X))
      /\ (\A i \in 1..n : t[i] = s[i]) /\ t[n + 1] = x
  BY LenProperties, AppendProperties
<1>2. PICK f \in [0..n -> Seq(X)] : Joins(f, s)
  BY FlattenExists
<1>3. FlattenSeq(s) = f[n]
  BY <1>2, FlattenValue
<1>4. f[n] \in Seq(X) /\ f[n] \o x \in Seq(X)
  <2>1. f[n] \in Seq(X)
    <3> HIDE DEF n
    <3> QED
      BY <1>1, <1>2
  <2> QED
    BY <2>1, ConcatProperties
<1>5. f[0] = <<>> /\ \A i \in 1..n : f[i] = f[i - 1] \o s[i]
  BY <1>2 DEF Joins
<1> HIDE DEF n, t
<1> DEFINE h == [i \in 0..Len(t) |-> IF i = n + 1 THEN f[n] \o x ELSE f[i]]
<1>6. h \in [0..Len(t) -> Seq(X)]
  BY <1>1, <1>2, <1>4
<1>7. Joins(h, t)
  <2>1. h[0] = <<>>
    BY <1>1, <1>5
  <2>2. ASSUME NEW i \in 1..Len(t) PROVE h[i] = h[i - 1] \o t[i]
    <3>1. CASE i = n + 1
      <4>1. i - 1 = n /\ n \in 0..Len(t) /\ i \in 0..Len(t) /\ n # n + 1
        BY <1>1, <3>1
      <4> QED
        BY <1>1, <3>1, <4>1
    <3>2. CASE i # n + 1
      <4>1. i \in 1..n /\ i \in 0..Len(t) /\ i - 1 \in 0..Len(t) /\ i - 1 # n + 1
        BY <1>1, <3>2
      <4> QED
        BY <1>1, <1>5, <3>2, <4>1
    <3> QED
      BY <3>1, <3>2
  <2> QED
    BY <2>1, <2>2 DEF Joins
<1>8. h[Len(t)] = f[n] \o x
  BY <1>1
<1> HIDE DEF h
<1>9. FlattenSeq(t) = h[Len(t)]
  BY <1>1, <1>6, <1>7, FlattenValue
<1> QED
  BY <1>3, <1>4, <1>8, <1>9 DEF t

-----------------------------------------------------------------------------
(* The pieces of an answer                                                 *)

Byte == {"plain", "quote", "backslash", "newline", "control", "lead", "trail"}
Symbol == Byte \cup {"n", "header", "footer", "comma", "id", "source", "message", "suffix"}
Piece == [symbols : Seq(Symbol), size : Nat]

(* The sizes of the pieces, added one after the other. *)
Adds(f, s) == f[0] = 0 /\ \A i \in 1..Len(s) : f[i] = f[i - 1] + s[i].size

(* An element of a sequence of pieces is a piece.                          *)
LEMMA PieceOf ==
  ASSUME NEW s \in Seq(Piece), NEW i \in 1..Len(s)
  PROVE  s[i] \in Piece /\ s[i].size \in Nat /\ s[i].symbols \in Seq(Symbol)
<1>1. s[i] \in Piece
  BY ElementOfSeq
<1> QED
  BY <1>1 DEF Piece

(* What Size computes: a function that adds the sizes ends with it. *)
LEMMA SizeValue ==
  ASSUME NEW s \in Seq(Piece), NEW f \in [0..Len(s) -> Nat], Adds(f, s)
  PROVE  Size(s) = f[Len(s)]
<1> DEFINE n == Len(s)
           Solves(g) == g = [i \in 0..n |-> IF i = 0 THEN 0 ELSE g[i - 1] + s[i].size]
           sums == CHOOSE g : Solves(g)
<1>1. n \in Nat /\ \A i \in 1..n : s[i].size \in Nat
  BY LenProperties, PieceOf
<1>2. f[0] = 0 /\ \A i \in 1..n : f[i] = f[i - 1] + s[i].size
  BY DEF Adds
<1>3. Size(s) = sums[n]
  BY Zenon DEF Size
<1>4. Solves(f)
  <2>1. ASSUME NEW i \in 0..n PROVE f[i] = IF i = 0 THEN 0 ELSE f[i - 1] + s[i].size
    BY <1>1, <1>2
  <2> QED
    BY <2>1
<1>5. Solves(sums)
  <2> HIDE DEF Solves
  <2> QED
    BY <1>4, Zenon
<1> HIDE DEF sums
<1> DEFINE T == {k \in Nat : k \in 0..n => sums[k] = f[k]}
<1>6. 0 \in T
  BY <1>1, <1>2, <1>5
<1>7. ASSUME NEW k \in Nat, k \in T PROVE k + 1 \in T
  <2> SUFFICES ASSUME k + 1 \in 0..n PROVE sums[k + 1] = f[k + 1]
    OBVIOUS
  <2>1. k \in 0..n /\ k + 1 \in 1..n /\ (k + 1) - 1 = k /\ k + 1 # 0
    BY <1>1
  <2>2. sums[k + 1] = sums[k] + s[k + 1].size
    BY <1>5, <2>1
  <2> QED
    BY <1>2, <1>7, <2>1, <2>2
<1> HIDE DEF T
<1>8. \A k \in Nat : k \in T
  BY <1>6, <1>7, Induct
<1> QED
  BY <1>1, <1>3, <1>8 DEF T

(* The sums exist. *)
LEMMA SizeExists ==
  ASSUME NEW s \in Seq(Piece)
  PROVE  \E f \in [0..Len(s) -> Nat] : Adds(f, s)
<1> DEFINE n == Len(s)
           step == [i \in 1..n |-> [v \in Nat |-> v + s[i].size]]
<1>1. n \in Nat /\ \A i \in 1..n : s[i].size \in Nat
  BY LenProperties, PieceOf
<1>2. step \in [1..n -> [Nat -> Nat]]
  BY <1>1
<1>3. PICK f \in [0..n -> Nat] : f[0] = 0 /\ \A i \in 1..n : f[i] = step[i][f[i - 1]]
  <2> DEFINE T == Nat
             zero == 0
  <2>1. n \in Nat /\ zero \in T /\ step \in [1..n -> [T -> T]]
    BY <1>1, <1>2
  <2> HIDE DEF n, step, T, zero
  <2>2. \E f \in [0..n -> T] : f[0] = zero /\ \A i \in 1..n : f[i] = step[i][f[i - 1]]
    BY <2>1, Recursion, SMTT(60)
  <2> QED
    BY <2>2 DEF T, zero
<1>4. ASSUME NEW i \in 1..n PROVE f[i] = f[i - 1] + s[i].size
  <2>1. f[i - 1] \in Nat
    BY <1>1, <1>3
  <2> QED
    BY <1>3, <2>1
<1> QED
  BY <1>3, <1>4 DEF Adds

(* One piece more. *)
LEMMA SizeAppend ==
  ASSUME NEW s \in Seq(Piece), NEW p \in Piece
  PROVE  Size(s) \in Nat /\ Size(Append(s, p)) = Size(s) + p.size
<1> DEFINE n == Len(s)
           t == Append(s, p)
<1>1. n \in Nat /\ Len(t) = n + 1 /\ t \in Seq(Piece) /\ p.size \in Nat
      /\ (\A i \in 1..n : t[i] = s[i]) /\ t[n + 1] = p
  BY LenProperties, AppendProperties DEF Piece
<1>2. PICK f \in [0..n -> Nat] : Adds(f, s)
  BY SizeExists
<1>3. Size(s) = f[n]
  BY <1>2, SizeValue
<1>4. f[n] \in Nat
  BY <1>1, <1>2
<1>5. f[0] = 0 /\ \A i \in 1..n : f[i] = f[i - 1] + s[i].size
  BY <1>2 DEF Adds
<1> HIDE DEF n, t
<1> DEFINE h == [i \in 0..Len(t) |-> IF i = n + 1 THEN f[n] + p.size ELSE f[i]]
<1>6. h \in [0..Len(t) -> Nat]
  BY <1>1, <1>2, <1>4
<1>7. Adds(h, t)
  <2>1. h[0] = 0
    BY <1>1, <1>5
  <2>2. ASSUME NEW i \in 1..Len(t) PROVE h[i] = h[i - 1] + t[i].size
    <3>1. CASE i = n + 1
      <4>1. i - 1 = n /\ n \in 0..Len(t) /\ i \in 0..Len(t) /\ n # n + 1
        BY <1>1, <3>1
      <4> QED
        BY <1>1, <3>1, <4>1
    <3>2. CASE i # n + 1
      <4>1. i \in 1..n /\ i \in 0..Len(t) /\ i - 1 \in 0..Len(t) /\ i - 1 # n + 1
        BY <1>1, <3>2
      <4> QED
        BY <1>1, <1>5, <3>2, <4>1
    <3> QED
      BY <3>1, <3>2
  <2> QED
    BY <2>1, <2>2 DEF Adds
<1>8. h[Len(t)] = f[n] + p.size
  BY <1>1
<1> HIDE DEF h
<1>9. Size(t) = h[Len(t)]
  BY <1>1, <1>6, <1>7, SizeValue
<1> QED
  BY <1>3, <1>4, <1>8, <1>9 DEF t

(* No pieces have no size.                                                 *)
LEMMA SizeEmpty == Size(<<>>) = 0
<1> DEFINE none == <<>>
<1>1. none \in Seq(Piece) /\ Len(none) = 0
  BY EmptySeq
<1> HIDE DEF none
<1>2. PICK f \in [0..Len(none) -> Nat] : Adds(f, none)
  BY <1>1, SizeExists
<1>3. Size(none) = f[Len(none)]
  BY <1>1, <1>2, SizeValue
<1> QED
  BY <1>1, <1>2, <1>3 DEF Adds, none

(* The pieces before others are no longer than all of them. *)
LEMMA SizeGrows ==
  ASSUME NEW s \in Seq(Piece), NEW t \in Seq(Piece)
  PROVE  Size(s) <= Size(s \o t)
<1> DEFINE upTo(k) == s \o SubSeq(t, 1, k)
           T == {k \in Nat : k <= Len(t) => Size(s) <= Size(upTo(k))}
<1>1. upTo(0) = s
  BY ConcatEmptySeq, SubSeqEmpty
<1>2. 0 \in T
  <2>1. Size(s) \in Nat
    <3>1. [symbols |-> <<>>, size |-> 0] \in Piece
      BY DEF Piece
    <3> HIDE DEF T
    <3> QED
      BY <3>1, SizeAppend
  <2> HIDE DEF upTo
  <2> QED
    BY <1>1, <2>1
<1>3. ASSUME NEW k \in Nat, k \in T PROVE k + 1 \in T
  <2> SUFFICES ASSUME k + 1 <= Len(t) PROVE Size(s) <= Size(upTo(k + 1))
    OBVIOUS
  <2>1. t[k + 1] \in Piece /\ t[k + 1].size \in Nat
    BY LenProperties, PieceOf
  <2>2. SubSeq(t, 1, k) \in Seq(Piece) /\ upTo(k) \in Seq(Piece)
    BY LenProperties, SubSeqProperties, ConcatProperties
  <2>3. SubSeq(t, 1, k + 1) = Append(SubSeq(t, 1, k), t[k + 1])
    BY LenProperties
  <2>4. upTo(k + 1) = Append(upTo(k), t[k + 1])
    BY <2>1, <2>2, <2>3
  <2> HIDE DEF upTo
  <2>5. Size(upTo(k)) \in Nat /\ Size(upTo(k + 1)) = Size(upTo(k)) + t[k + 1].size
    BY <2>1, <2>2, <2>4, SizeAppend
  <2>6. Size(s) \in Nat
    BY <2>1, SizeAppend
  <2> QED
    BY <1>3, <2>1, <2>5, <2>6 DEF T
<1>4. upTo(Len(t)) = s \o t
  BY LenProperties
<1> HIDE DEF T
<1>5. \A k \in Nat : k \in T
  BY <1>2, <1>3, Induct
<1>6. Size(s) <= Size(upTo(Len(t)))
  <2>1. Len(t) \in Nat /\ Len(t) \in T
    BY <1>5, LenProperties
  <2> QED
    BY <2>1 DEF T
<1> QED
  BY <1>4, <1>6

(* The symbols of the pieces. *)
Symbols(s) == [i \in 1..Len(s) |-> s[i].symbols]

(* One piece more adds its symbols.                                        *)
LEMMA TextAppend ==
  ASSUME NEW s \in Seq(Piece), NEW p \in Piece
  PROVE  /\ Text(s) \in Seq(Symbol)
         /\ Text(Append(s, p)) = Text(s) \o p.symbols
<1>1. Symbols(s) \in Seq(Seq(Symbol)) /\ p.symbols \in Seq(Symbol)
  <2>1. Len(s) \in Nat /\ \A i \in 1..Len(s) : s[i].symbols \in Seq(Symbol)
    BY LenProperties, PieceOf
  <2>2. p.symbols \in Seq(Symbol)
    BY DEF Piece
  <2> QED
    BY <2>1, <2>2 DEF Symbols
<1>2. Symbols(Append(s, p)) = Append(Symbols(s), p.symbols)
  <2> DEFINE n == Len(s)
             t == Append(s, p)
             u == Append(Symbols(s), p.symbols)
  <2>1. n \in Nat /\ Len(t) = n + 1 /\ (\A i \in 1..n : t[i] = s[i]) /\ t[n + 1] = p
    BY LenProperties, AppendProperties
  <2>2. Len(Symbols(s)) = n
    BY LenProperties DEF Symbols
  <2>3. u \in Seq(Seq(Symbol)) /\ Len(u) = n + 1 /\ u[n + 1] = p.symbols
        /\ \A i \in 1..n : u[i] = Symbols(s)[i]
    BY <1>1, <2>2, AppendProperties
  <2>4. DOMAIN u = 1..n + 1 /\ u = [i \in 1..n + 1 |-> u[i]]
    BY <2>3, LenProperties
  <2>5. ASSUME NEW i \in 1..n + 1 PROVE u[i] = t[i].symbols
    <3>1. CASE i = n + 1
      BY <2>1, <2>3, <3>1
    <3>2. CASE i # n + 1
      <4>1. i \in 1..n
        BY <2>1, <3>2
      <4> QED
        BY <2>1, <2>3, <4>1 DEF Symbols
    <3> QED
      BY <3>1, <3>2
  <2> HIDE DEF t, u, n
  <2>6. u = Symbols(t)
    BY <2>1, <2>4, <2>5 DEF Symbols
  <2> QED
    BY <2>6 DEF t, u
<1> QED
  BY <1>1, <1>2, FlattenAppend DEF Text, Symbols

(* No pieces have no symbols.                                              *)
LEMMA TextEmpty == Text(<<>>) = <<>>
  BY DEF Text, FlattenSeq

(* The number of digits of a number is a number. *)
LEMMA DigitsType ==
  ASSUME NEW n \in Nat
  PROVE  Digits(n) \in Nat
<1> DEFINE Solves(g, k) == g = [m \in 0..k |-> IF m < 10 THEN 1 ELSE 1 + g[m \div 10]]
           T == {k \in Nat : \E g : Solves(g, k)}
<1>1. ASSUME NEW m \in Nat, ~(m < 10) PROVE m \div 10 \in 0..m - 1
  BY <1>1
<1>2. 0 \in T
  <2>1. Solves([m \in 0..0 |-> 1], 0)
    OBVIOUS
  <2> QED
    BY <2>1
<1>3. ASSUME NEW k \in Nat, k \in T PROVE k + 1 \in T
  <2>1. PICK g : Solves(g, k)
    BY <1>3
  <2> DEFINE h == [m \in 0..k + 1 |-> IF m < 10 THEN 1 ELSE 1 + g[m \div 10]]
  <2>2. ASSUME NEW m \in 0..k + 1, ~(m < 10) PROVE h[m \div 10] = g[m \div 10]
    <3> DEFINE q == m \div 10
    <3>1. q \in 0..k /\ q \in 0..k + 1
      BY <1>1, <2>2
    <3> HIDE DEF q
    <3>2. h[q] = IF q < 10 THEN 1 ELSE 1 + g[q \div 10]
      BY <3>1
    <3>3. g[q] = IF q < 10 THEN 1 ELSE 1 + g[q \div 10]
      BY <2>1, <3>1
    <3> QED
      BY <3>2, <3>3 DEF q
  <2>3. Solves(h, k + 1)
    <3> DEFINE r == [m \in 0..k + 1 |-> IF m < 10 THEN 1 ELSE 1 + h[m \div 10]]
    <3>1. ASSUME NEW m \in 0..k + 1 PROVE h[m] = r[m]
      BY <2>2
    <3>2. h = [m \in 0..k + 1 |-> h[m]] /\ DOMAIN h = 0..k + 1
      OBVIOUS
    <3>3. r = [m \in 0..k + 1 |-> r[m]] /\ DOMAIN r = 0..k + 1
      OBVIOUS
    <3>4. h = r
      <4> HIDE DEF h, r
      <4> QED
        BY <3>1, <3>2, <3>3
    <3> QED
      BY <3>4
  <2> HIDE DEF h
  <2>4. \E f : Solves(f, k + 1)
    BY <2>3
  <2> QED
    BY <2>4
<1> DEFINE d == CHOOSE g : Solves(g, n)
<1>4. Solves(d, n)
  <2> HIDE DEF T
  <2>1. n \in T
    BY <1>2, <1>3, Induct
  <2>2. \E g : Solves(g, n)
    BY <2>1 DEF T
  <2> HIDE DEF Solves
  <2> QED
    BY <2>2, Zenon
<1>5. Digits(n) = d[n]
  BY Zenon DEF Digits
<1> HIDE DEF d, T
<1> DEFINE U == {k \in Nat : \A m \in 0..k : m <= n => d[m] \in Nat}
<1>6. 0 \in U
  BY <1>4
<1>7. ASSUME NEW k \in Nat, k \in U PROVE k + 1 \in U
  <2> SUFFICES ASSUME k + 1 <= n PROVE d[k + 1] \in Nat
    BY <1>7
  <2>1. CASE k + 1 < 10
    BY <1>4, <2>1
  <2>2. CASE ~(k + 1 < 10)
    <3> DEFINE q == (k + 1) \div 10
    <3>1. q \in 0..k
      BY <1>1, <2>2
    <3> HIDE DEF q
    <3>2. d[q] \in Nat
      BY <1>7, <3>1
    <3>3. d[k + 1] = 1 + d[q]
      BY <1>4, <2>2 DEF q
    <3> QED
      BY <3>2, <3>3
  <2> QED
    BY <2>1, <2>2
<1> HIDE DEF U
<1>8. n \in U
  BY <1>6, <1>7, Induct
<1> QED
  BY <1>5, <1>8 DEF U

-----------------------------------------------------------------------------
(* The pieces of the document                                              *)

Entry == [id : Nat, text : [Fields -> Seq(Byte)]]

(* A fixed part of the answer. *)
LEMMA OneSymbol ==
  ASSUME NEW name \in Symbol, NEW size \in Nat
  PROVE  Fixed(name, size) \in Piece /\ <<Fixed(name, size)>> \in Seq(Piece)
<1>1. <<name>> \in Seq(Symbol)
  OBVIOUS
<1>2. Fixed(name, size) \in Piece
  BY <1>1 DEF Fixed, Piece
<1> DEFINE p == Fixed(name, size)
<1> HIDE DEF p
<1>3. p \in Piece => <<p>> \in Seq(Piece)
  OBVIOUS
<1> QED
  BY <1>2, <1>3 DEF p

(* The fixed parts of the answer are pieces.                               *)
LEMMA FixedParts ==
  /\ Fixed("comma", 1) \in Piece /\ Fixed("quote", 1) \in Piece
  /\ Fixed("source", 10) \in Piece /\ Fixed("message", 11) \in Piece
  /\ Fixed("suffix", 32) \in Piece
  /\ \A n \in Nat : /\ Fixed("id", n) \in Piece /\ Fixed("header", n) \in Piece
                    /\ Fixed("footer", n) \in Piece
<1>1. {"comma", "quote", "source", "message", "suffix", "id", "header", "footer"}
        \subseteq Symbol
  BY DEF Symbol, Byte
<1> HIDE DEF Fixed, Piece, Symbol
<1>2. {1, 10, 11, 32} \subseteq Nat
  OBVIOUS
<1> QED
  BY <1>1, <1>2, OneSymbol

(* A sequence of one element.                                              *)
LEMMA Single ==
  ASSUME NEW X, NEW x \in X
  PROVE  <<x>> \in Seq(X)
OBVIOUS

(* append_escaped writes pieces.                                           *)
LEMMA EscapedType ==
  ASSUME NEW bytes \in Seq(Byte)
  PROVE  Escaped(bytes) \in Seq(Piece)
<1> DEFINE piece(i) == [symbols |-> Escape(bytes[i]), size |-> Len(Escape(bytes[i]))]
           middle == [i \in 1..Len(bytes) |-> piece(i)]
<1>1. Len(bytes) \in Nat
  BY LenProperties
<1>2. ASSUME NEW i \in 1..Len(bytes) PROVE piece(i) \in Piece
  <2> DEFINE b == bytes[i]
             e == Escape(b)
  <2>1. b \in Byte
    BY ElementOfSeq
  <2> HIDE DEF b
  <2>2. e \in Seq(Symbol)
    <3>1. b \in Symbol /\ "backslash" \in Symbol /\ "n" \in Symbol
      BY <2>1 DEF Symbol, Byte
    <3>2. e \in {<<"backslash", b>>, <<"backslash", "n">>, <<b>>}
      BY DEF Escape
    <3> HIDE DEF e
    <3>3. <<"backslash", b>> \in Seq(Symbol) /\ <<"backslash", "n">> \in Seq(Symbol)
          /\ <<b>> \in Seq(Symbol)
      BY <3>1
    <3> QED
      BY <3>2, <3>3
  <2>3. Len(e) \in Nat
    BY <2>2, LenProperties
  <2> HIDE DEF e
  <2> QED
    BY <2>2, <2>3 DEF Piece, e, b
<1>3. middle \in Seq(Piece)
  <2> HIDE DEF piece
  <2> QED
    BY <1>1, <1>2
<1>4. <<Quote>> \in Seq(Piece)
  <2>1. Quote = Fixed("quote", 1)
    BY DEF Quote, Fixed
  <2> QED
    BY <2>1, FixedParts, Single
<1>5. Escaped(bytes) = <<Quote>> \o middle \o <<Quote>>
  BY DEF Escaped
<1> HIDE DEF middle
<1>6. <<Quote>> \o middle \in Seq(Piece)
  BY <1>3, <1>4, ConcatProperties
<1> QED
  BY <1>4, <1>5, <1>6, ConcatProperties

(* An item is a sequence of pieces.                                        *)
LEMMA ItemPiecesType ==
  ASSUME NEW entry \in Entry
  PROVE  ItemPieces(entry) \in Seq(Piece)
<1>1. 15 + Digits(entry.id) \in Nat
  <2>1. entry.id \in Nat
    BY DEF Entry
  <2>2. Digits(entry.id) \in Nat
    BY <2>1, DigitsType
  <2> QED
    BY <2>2
<1>2. entry.text["level"] \in Seq(Byte) /\ entry.text["source"] \in Seq(Byte)
      /\ entry.text["message"] \in Seq(Byte)
  BY DEF Entry, Fields
<1> DEFINE l == Escaped(entry.text["level"])
           s == Escaped(entry.text["source"])
           m == Escaped(entry.text["message"])
           p1 == <<Fixed("id", 15 + Digits(entry.id))>>
           p2 == <<Fixed("source", 10)>>
           p3 == <<Fixed("message", 11)>>
           p4 == <<Fixed("suffix", 32)>>
<1>3. l \in Seq(Piece) /\ s \in Seq(Piece) /\ m \in Seq(Piece)
  BY <1>2, EscapedType
<1>4. p1 \in Seq(Piece) /\ p2 \in Seq(Piece) /\ p3 \in Seq(Piece) /\ p4 \in Seq(Piece)
  BY <1>1, FixedParts, Single
<1>5. ItemPieces(entry) = p1 \o l \o p2 \o s \o p3 \o m \o p4
  BY DEF ItemPieces
<1> HIDE DEF l, s, m, p1, p2, p3, p4
<1>6. p1 \o l \o p2 \o s \in Seq(Piece)
  BY <1>3, <1>4, ConcatProperties
<1>7. p1 \o l \o p2 \o s \o p3 \o m \in Seq(Piece)
  BY <1>3, <1>4, <1>6, ConcatProperties
<1> QED
  BY <1>4, <1>5, <1>7, ConcatProperties

(* The logs the answer is to show. *)
LEMMA ShownLogs ==
  ASSUME pending \in Seq(Entry), maxItems \in Nat
  PROVE  /\ Shown \in Seq(Entry)
         /\ Len(Shown) = IF Len(pending) < maxItems THEN Len(pending) ELSE maxItems
         /\ Len(Shown) <= Len(pending) /\ Len(Shown) \in Nat /\ Len(pending) \in Nat
         /\ \A i \in 1..Len(Shown) : Shown[i] = pending[i]
<1> DEFINE m == IF Len(pending) < maxItems THEN Len(pending) ELSE maxItems
<1>1. Len(pending) \in Nat /\ m \in Nat /\ m <= Len(pending)
  BY LenProperties
<1> HIDE DEF m
<1>2. \A i \in 1..m : pending[i] \in Entry
  BY <1>1, ElementOfSeq
<1>3. /\ SubSeq(pending, 1, m) \in Seq(Entry) /\ Len(SubSeq(pending, 1, m)) = m
      /\ \A i \in 1..m : SubSeq(pending, 1, m)[i] = pending[i]
  BY <1>1, <1>2, SubSeqProperties
<1> QED
  BY <1>1, <1>3 DEF Shown, m

(* The header is a piece.                                                  *)
LEMMA HeaderType ==
  ASSUME pending \in Seq(Entry)
  PROVE  Header \in Piece /\ <<Header>> \in Seq(Piece)
<1>1. Len(pending) \in Nat
  BY LenProperties
<1>2. 25 + Digits(Len(pending)) \in Nat
  BY <1>1, DigitsType
<1> QED
  BY <1>2, FixedParts, Single DEF Header

(* The footer is a piece.                                                  *)
LEMMA FooterType ==
  ASSUME NEW k \in Nat
  PROVE  Footer(k) \in Piece /\ <<Footer(k)>> \in Seq(Piece)
<1>1. 14 + Digits(k) \in Nat
  BY DigitsType
<1> QED
  BY <1>1, FixedParts, Single DEF Footer

(* An item, with the comma before it, is a sequence of pieces.             *)
LEMMA ItemType ==
  ASSUME pending \in Seq(Entry), maxItems \in Nat, NEW i \in 1..Len(Shown)
  PROVE  Item(i) \in Seq(Piece)
<1>1. Shown[i] \in Entry
  BY ShownLogs, ElementOfSeq
<1>2. ItemPieces(Shown[i]) \in Seq(Piece)
  BY <1>1, ItemPiecesType
<1>3. <<Comma>> \in Seq(Piece) /\ <<>> \in Seq(Piece)
  BY FixedParts, Single, EmptySeq DEF Comma
<1> DEFINE c == IF i > 1 THEN <<Comma>> ELSE <<>>
<1>4. c \in Seq(Piece)
  BY <1>3
<1> HIDE DEF c
<1>5. c \o ItemPieces(Shown[i]) \in Seq(Piece)
  BY <1>2, <1>4, ConcatProperties
<1> QED
  BY <1>5 DEF Item, c

(* The document up to its k-th item. *)
Upto(k) == <<Header>> \o FlattenSeq([i \in 1..k |-> Item(i)])

(* Before the first item there is the header.                              *)
LEMMA UptoEmpty ==
  ASSUME pending \in Seq(Entry)
  PROVE  Upto(0) = <<Header>>
<1>1. [i \in 1..0 |-> Item(i)] = <<>>
  OBVIOUS
<1>2. FlattenSeq([i \in 1..0 |-> Item(i)]) = <<>>
  BY <1>1 DEF FlattenSeq
<1> HIDE DEF Header
<1> QED
  BY <1>2, HeaderType, ConcatEmptySeq DEF Upto

(* One item more.                                                          *)
LEMMA UptoNext ==
  ASSUME pending \in Seq(Entry), maxItems \in Nat, NEW k \in Nat, k < Len(Shown)
  PROVE  Upto(k) \in Seq(Piece) /\ Upto(k + 1) = Upto(k) \o Item(k + 1)
<1> DEFINE s == [i \in 1..k |-> Item(i)]
           t == [i \in 1..k + 1 |-> Item(i)]
           x == Item(k + 1)
<1>1. Len(Shown) \in Nat
  BY ShownLogs
<1>2. s \in Seq(Seq(Piece)) /\ x \in Seq(Piece) /\ Len(s) = k
  <2>1. \A i \in 1..k + 1 : Item(i) \in Seq(Piece)
    BY <1>1, ItemType
  <2> QED
    BY <2>1
<1>3. t = Append(s, x)
  <2> DEFINE u == Append(s, x)
  <2>1. u \in Seq(Seq(Piece)) /\ Len(u) = k + 1 /\ u[k + 1] = x /\ \A i \in 1..k : u[i] = s[i]
    BY <1>2, AppendProperties
  <2>2. u = [i \in 1..k + 1 |-> u[i]]
    BY <2>1, LenProperties
  <2>3. ASSUME NEW i \in 1..k + 1 PROVE u[i] = Item(i)
    <3>1. CASE i = k + 1
      BY <2>1, <3>1
    <3>2. CASE i # k + 1
      <4>1. i \in 1..k
        BY <3>2
      <4> HIDE DEF u
      <4> QED
        BY <2>1, <4>1
    <3> QED
      BY <3>1, <3>2
  <2> HIDE DEF u
  <2>4. u = t
    BY <2>2, <2>3
  <2> QED
    BY <2>4 DEF u
<1> HIDE DEF s, t, x
<1>4. FlattenSeq(s) \in Seq(Piece) /\ FlattenSeq(t) = FlattenSeq(s) \o x
  BY <1>2, <1>3, FlattenAppend
<1>5. Upto(k) = <<Header>> \o FlattenSeq(s) /\ Upto(k + 1) = <<Header>> \o FlattenSeq(t)
  BY DEF Upto, s, t
<1>6. <<Header>> \in Seq(Piece)
  BY HeaderType
<1> DEFINE a == <<Header>>
           b == FlattenSeq(s)
           y == Item(k + 1)
<1>7. a \o b \in Seq(Piece) /\ a \o (b \o y) = (a \o b) \o y
  <2>1. a \in Seq(Piece) /\ b \in Seq(Piece) /\ y \in Seq(Piece)
    BY <1>2, <1>4, <1>6 DEF x
  <2> HIDE DEF a, b, y
  <2>2. a \o b \in Seq(Piece)
    BY <2>1, ConcatProperties
  <2>3. a \o (b \o y) = (a \o b) \o y
    BY <2>1, ConcatAssociative, SMTT(30)
  <2> QED
    BY <2>2, <2>3
<1> QED
  BY <1>4, <1>5, <1>7 DEF x

(* The document is all items and the footer; no part of it is longer.      *)
LEMMA DocumentIs ==
  ASSUME pending \in Seq(Entry), maxItems \in Nat
  PROVE  /\ \A k \in 0..Len(Shown) : Upto(k) \in Seq(Piece)
         /\ Document = Upto(Len(Shown)) \o <<Footer(Len(Shown))>>
         /\ Document \in Seq(Piece)
         /\ \A k \in 0..Len(Shown) : Size(Upto(k)) <= Size(Document)
<1> DEFINE m == Len(Shown)
<1>1. m \in Nat
  BY ShownLogs
<1>2. ASSUME NEW k \in 0..m PROVE Upto(k) \in Seq(Piece)
  <2>1. CASE k = 0
    BY <2>1, UptoEmpty, HeaderType
  <2>2. CASE k # 0
    <3> DEFINE j == k - 1
    <3>1. j \in Nat /\ j < m /\ j + 1 = k
      BY <1>1, <2>2
    <3> HIDE DEF j
    <3>2. Upto(j) \in Seq(Piece) /\ Upto(j + 1) = Upto(j) \o Item(j + 1)
      BY <3>1, UptoNext
    <3>3. Item(j + 1) \in Seq(Piece)
      BY <1>1, <3>1, ItemType
    <3> QED
      BY <3>1, <3>2, <3>3, ConcatProperties
  <2> QED
    BY <2>1, <2>2
<1>3. Document = Upto(m) \o <<Footer(m)>>
  BY DEF Document, Upto
<1>4. <<Footer(m)>> \in Seq(Piece)
  BY <1>1, FooterType
<1>5. Upto(m) \in Seq(Piece)
  BY <1>1, <1>2
<1>6. Document \in Seq(Piece)
  BY <1>3, <1>4, <1>5, ConcatProperties
<1>7. \A k \in Nat : k <= m => Size(Upto(k)) <= Size(Upto(m))
  <2> DEFINE T == {j \in Nat : j <= m => Size(Upto(m - j)) <= Size(Upto(m))}
  <2>1. \A k \in 0..m : Size(Upto(k)) \in Nat
    BY <1>1, <1>2, FooterType, SizeAppend
  <2>2. 0 \in T
    <3>1. Size(Upto(m)) \in Nat /\ m - 0 = m
      BY <1>1, <2>1
    <3> QED
      BY <3>1
  <2>3. ASSUME NEW j \in Nat, j \in T PROVE j + 1 \in T
    <3> SUFFICES ASSUME j + 1 <= m PROVE Size(Upto(m - (j + 1))) <= Size(Upto(m))
      OBVIOUS
    <3> DEFINE k == m - (j + 1)
    <3>1. k \in Nat /\ k < m /\ k + 1 = m - j /\ k \in 0..m /\ k + 1 \in 0..m /\ m \in 0..m
          /\ k + 1 \in 1..m
      BY <1>1
    <3>2. Size(Upto(k + 1)) <= Size(Upto(m))
      BY <2>3, <3>1
    <3> HIDE DEF k, T
    <3>3. Upto(k) \in Seq(Piece) /\ Upto(k + 1) = Upto(k) \o Item(k + 1)
      BY <3>1, UptoNext
    <3>4. Item(k + 1) \in Seq(Piece)
      BY <3>1, ItemType
    <3>5. Size(Upto(k)) <= Size(Upto(k + 1))
      BY <3>3, <3>4, SizeGrows
    <3>6. Size(Upto(k)) \in Nat /\ Size(Upto(k + 1)) \in Nat /\ Size(Upto(m)) \in Nat
      BY <2>1, <3>1
    <3>7. Size(Upto(k)) <= Size(Upto(m))
      BY <3>2, <3>5, <3>6
    <3> QED
      BY <3>7 DEF k
  <2> HIDE DEF T
  <2>4. \A j \in Nat : j \in T
    BY <2>2, <2>3, Induct
  <2> SUFFICES ASSUME NEW k \in Nat, k <= m PROVE Size(Upto(k)) <= Size(Upto(m))
    OBVIOUS
  <2>5. m - k \in Nat /\ m - k <= m /\ m - (m - k) = k
    BY <1>1
  <2>6. Size(Upto(m - (m - k))) <= Size(Upto(m))
    BY <2>4, <2>5 DEF T
  <2> QED
    BY <2>5, <2>6
<1>8. Size(Upto(m)) <= Size(Document)
  BY <1>3, <1>4, <1>5, SizeGrows
<1>9. ASSUME NEW k \in 0..m PROVE Size(Upto(k)) <= Size(Document)
  <2>1. Size(Upto(k)) \in Nat /\ Size(Upto(m)) \in Nat /\ Size(Document) \in Nat
    BY <1>1, <1>2, <1>5, <1>6, FooterType, SizeAppend
  <2>2. Size(Upto(k)) <= Size(Upto(m))
    BY <1>1, <1>7
  <2> QED
    BY <1>8, <2>1, <2>2
<1> QED
  BY <1>2, <1>3, <1>6, <1>9

(* The document is a function of the buffer and of the preview's limit. *)
LEMMA SameDocument ==
  ASSUME pending' = pending, maxItems' = maxItems
  PROVE  /\ Shown' = Shown /\ Document' = Document
         /\ \A k : Upto(k)' = Upto(k) /\ Footer(k)' = Footer(k)
<1>1. Shown' = Shown
  BY DEF Shown
<1>2. \A k : Item(k)' = Item(k)
  BY <1>1 DEF Item, Comma, ItemPieces, Fixed, Escaped, Quote, Escape, Digits
<1>3. Header' = Header
  BY DEF Header, Fixed, Digits
<1>4. \A k : Footer(k)' = Footer(k)
  BY DEF Footer, Fixed, Digits
<1> HIDE DEF Header
<1>5. ASSUME NEW k PROVE Upto(k)' = Upto(k)
  BY <1>2, <1>3 DEF Upto
<1> QED
  BY <1>1, <1>2, <1>3, <1>4, <1>5 DEF Document, Upto

-----------------------------------------------------------------------------
(* The bytes of a text                                                     *)

(* The characters before the first NUL, and the bytes of each. *)
Seen(text) ==
  LET nuls == {i \in 1..Len(text) : text[i] = "nul"}
  IN  IF nuls = {} THEN text
      ELSE SubSeq(text, 1, (CHOOSE i \in nuls : \A j \in nuls : i <= j) - 1)

BytesOf(text) ==
  [i \in 1..Len(Seen(text)) |->
     IF Seen(text)[i] = "wide" THEN <<"lead", "trail">> ELSE <<Seen(text)[i]>>]

(* What C sees of a text is its beginning, which is empty only if the text *)
(* starts with a NUL or is empty.                                          *)
LEMMA SeenText ==
  ASSUME NEW text \in Seq(Chars)
  PROVE  /\ Seen(text) \in Seq(Chars \ {"nul"})
         /\ Len(Seen(text)) \in 0..Len(text)
         /\ \A i \in 1..Len(Seen(text)) : Seen(text)[i] = text[i]
         /\ Len(text) > 0 /\ text[1] # "nul" => Len(Seen(text)) > 0
<1> DEFINE nuls == {i \in 1..Len(text) : text[i] = "nul"}
           least == CHOOSE i \in nuls : \A j \in nuls : i <= j
<1>1. Len(text) \in Nat /\ \A i \in 1..Len(text) : text[i] \in Chars
  BY LenProperties, ElementOfSeq
<1>2. CASE nuls = {}
  <2>1. Seen(text) = text
    BY <1>2 DEF Seen
  <2>2. \A i \in 1..Len(text) : text[i] \in Chars \ {"nul"}
    BY <1>1, <1>2
  <2>3. text \in Seq(Chars \ {"nul"})
    <3>1. text = [i \in 1..Len(text) |-> text[i]]
      BY LenProperties
    <3> QED
      BY <1>1, <2>2, <3>1
  <2> QED
    BY <1>1, <2>1, <2>3
<1>3. CASE nuls # {}
  <2>1. least \in nuls /\ \A j \in nuls : least <= j
    <3>1. nuls \subseteq Nat
      OBVIOUS
    <3> HIDE DEF nuls
    <3>2. \E i \in nuls : \A j \in nuls : i <= j
      BY <1>3, <3>1, Least
    <3> QED
      BY <3>2
  <2>2. Seen(text) = SubSeq(text, 1, least - 1)
    BY <1>3, Zenon DEF Seen
  <2> HIDE DEF least
  <2>3. least \in 1..Len(text) /\ text[least] = "nul"
    BY <2>1
  <2>4. \A i \in 1..least - 1 : text[i] \in Chars \ {"nul"}
    <3> SUFFICES ASSUME NEW i \in 1..least - 1 PROVE text[i] \in Chars \ {"nul"}
      OBVIOUS
    <3>1. i \in 1..Len(text) /\ ~(least <= i)
      BY <1>1, <2>3
    <3> QED
      BY <1>1, <2>1, <3>1
  <2> DEFINE m == least - 1
  <2>5. m \in Nat /\ m <= Len(text)
    BY <1>1, <2>3
  <2>6. Len(text) > 0 /\ text[1] # "nul" => m > 0
    BY <1>1, <2>3
  <2>7. \A i \in 1..m : text[i] \in Chars \ {"nul"}
    BY <2>4
  <2> HIDE DEF m
  <2>8. /\ SubSeq(text, 1, m) \in Seq(Chars \ {"nul"}) /\ Len(SubSeq(text, 1, m)) = m
        /\ \A i \in 1..m : SubSeq(text, 1, m)[i] = text[i]
    BY <2>5, <2>7, SubSeqProperties
  <2>9. Seen(text) = SubSeq(text, 1, m)
    BY <2>2 DEF m
  <2> QED
    BY <1>1, <2>5, <2>6, <2>8, <2>9
<1> QED
  BY <1>2, <1>3

(* What C sees are bytes.                                                  *)
LEMMA CStringType ==
  ASSUME NEW text \in Seq(Chars)
  PROVE  CString(text) \in Seq(Byte)
<1> DEFINE s == Seen(text)
<1>1. CString(text) = FlattenSeq(BytesOf(text))
  BY DEF CString, BytesOf, Seen
<1>2. Len(s) \in Nat /\ \A i \in 1..Len(s) : s[i] \in Chars \ {"nul"}
  BY SeenText, LenProperties, ElementOfSeq
<1>3. BytesOf(text) \in Seq(Seq(Byte))
  <2> HIDE DEF s
  <2> DEFINE b(i) == IF s[i] = "wide" THEN <<"lead", "trail">> ELSE <<s[i]>>
  <2>1. ASSUME NEW i \in 1..Len(s) PROVE b(i) \in Seq(Byte)
    <3>1. {"lead", "trail"} \subseteq Byte /\ (s[i] # "wide" => s[i] \in Byte)
      BY <1>2 DEF Byte, Chars
    <3>2. <<"lead", "trail">> \in Seq(Byte)
      BY <3>1
    <3>3. s[i] # "wide" => <<s[i]>> \in Seq(Byte)
      BY <3>1
    <3> QED
      BY <3>2, <3>3
  <2>2. BytesOf(text) = [i \in 1..Len(s) |-> b(i)]
    BY DEF BytesOf, s
  <2> HIDE DEF b
  <2> QED
    BY <1>2, <2>1, <2>2
<1> QED
  BY <1>1, <1>3, Single, FlattenAppend, EmptySeq

(* Without a character of two bytes the bytes are the characters. *)
LEMMA OneByteEach ==
  ASSUME NEW text \in Seq(Chars), ~Contains(text, "wide")
  PROVE  CString(text) = Seen(text)
<1> DEFINE s == Seen(text)
           b == BytesOf(text)
           f == [k \in 0..Len(s) |-> SubSeq(s, 1, k)]
<1>1. CString(text) = FlattenSeq(b)
  BY DEF CString, BytesOf, Seen
<1>2. s \in Seq(Chars) /\ Len(s) \in Nat /\ \A i \in 1..Len(s) : s[i] \in Chars /\ s[i] # "wide"
  <2>1. s \in Seq(Chars \ {"nul"}) /\ Len(s) \in 0..Len(text)
        /\ \A i \in 1..Len(s) : s[i] = text[i]
    BY SeenText
  <2>2. Len(text) \in Nat /\ Len(s) \in Nat
    BY <2>1, LenProperties
  <2>3. \A i \in 1..Len(s) : s[i] \in Chars
    BY <2>1, ElementOfSeq
  <2>4. s = [i \in 1..Len(s) |-> s[i]]
    BY <2>1, LenProperties
  <2> HIDE DEF s
  <2>5. s \in Seq(Chars)
    BY <2>2, <2>3, <2>4
  <2>6. \A i \in 1..Len(text) : text[i] # "wide"
    BY DEF Contains
  <2> QED
    BY <2>1, <2>2, <2>3, <2>5, <2>6
<1>3. b = [i \in 1..Len(s) |-> <<s[i]>>]
  BY <1>2 DEF BytesOf
<1> HIDE DEF s, b
<1>4. Len(b) = Len(s) /\ b \in Seq(Seq(Chars))
  <2>1. \A i \in 1..Len(s) : <<s[i]>> \in Seq(Chars)
    BY <1>2
  <2> QED
    BY <1>2, <1>3, <2>1
<1>5. ASSUME NEW k \in 0..Len(s) PROVE SubSeq(s, 1, k) \in Seq(Chars)
  BY <1>2, SubSeqProperties
<1>6. f \in [0..Len(b) -> Seq(Chars)]
  BY <1>4, <1>5
<1>7. Joins(f, b)
  <2>1. f[0] = <<>>
    BY <1>2, SubSeqEmpty
  <2>2. ASSUME NEW i \in 1..Len(b) PROVE f[i] = f[i - 1] \o b[i]
    <3>1. i \in 1..Len(s) /\ i \in 0..Len(s) /\ i - 1 \in 0..Len(s)
      BY <1>2, <1>4
    <3>2. f[i] = SubSeq(s, 1, i) /\ f[i - 1] = SubSeq(s, 1, i - 1) /\ b[i] = <<s[i]>>
      BY <1>3, <3>1
    <3>3. SubSeq(s, 1, i) = SubSeq(s, 1, i - 1) \o <<s[i]>>
      BY <1>2, <3>1
    <3> QED
      BY <3>2, <3>3
  <2> QED
    BY <2>1, <2>2 DEF Joins
<1>8. f[Len(b)] = s
  BY <1>2, <1>4
<1> HIDE DEF f
<1>9. FlattenSeq(b) = f[Len(b)]
  BY <1>4, <1>6, <1>7, FlattenValue
<1> QED
  BY <1>1, <1>8, <1>9 DEF s

-----------------------------------------------------------------------------
(* Looking for a symbol                                                    *)

(* A symbol of two sequences put together is in one of them.               *)
LEMMA ConcatHas ==
  ASSUME NEW X, NEW s \in Seq(X), NEW t \in Seq(X), NEW e
  PROVE  Contains(s \o t, e) <=> Contains(s, e) \/ Contains(t, e)
<1> DEFINE m == Len(s)
           n == Len(t)
           u == s \o t
<1>1. m \in Nat /\ n \in Nat
  BY LenProperties
<1>2. Len(u) = m + n
      /\ \A i \in 1..m + n : u[i] = IF i <= m THEN s[i] ELSE t[i - m]
  BY ConcatProperties
<1> HIDE DEF m, n, u
<1>3. ASSUME NEW i \in 1..m + n, u[i] = e
      PROVE  (\E k \in 1..m : s[k] = e) \/ (\E k \in 1..n : t[k] = e)
  <2>1. CASE i <= m
    <3>1. i \in 1..m /\ s[i] = e
      BY <1>1, <1>2, <1>3, <2>1
    <3> QED
      BY <3>1
  <2>2. CASE ~(i <= m)
    <3>1. i - m \in 1..n /\ t[i - m] = e
      BY <1>1, <1>2, <1>3, <2>2
    <3> QED
      BY <3>1
  <2> QED
    BY <2>1, <2>2
<1>4. ASSUME NEW k \in 1..m, s[k] = e PROVE \E i \in 1..m + n : u[i] = e
  <2>1. k \in 1..m + n /\ k <= m
    BY <1>1
  <2> QED
    BY <1>2, <1>4, <2>1
<1>5. ASSUME NEW k \in 1..n, t[k] = e PROVE \E i \in 1..m + n : u[i] = e
  <2>1. k + m \in 1..m + n /\ ~(k + m <= m) /\ (k + m) - m = k
    BY <1>1
  <2>2. u[k + m] = t[k]
    BY <1>2, <2>1
  <2> QED
    BY <1>5, <2>1, <2>2
<1> QED
  BY <1>2, <1>3, <1>4, <1>5 DEF Contains, m, n, u

(* A sequence of one element has that element.                             *)
LEMMA SingleHas ==
  ASSUME NEW x, NEW e
  PROVE  Contains(<<x>>, e) <=> x = e
BY DEF Contains

(* A symbol of sequences put together is in one of them.                   *)
LEMMA FlattenHas ==
  ASSUME NEW X, NEW s \in Seq(Seq(X)), NEW e
  PROVE  Contains(FlattenSeq(s), e) <=> \E i \in 1..Len(s) : Contains(s[i], e)
<1> DEFINE n == Len(s)
           upTo(k) == SubSeq(s, 1, k)
           T == {k \in Nat : k <= n =>
                   (Contains(FlattenSeq(upTo(k)), e) <=> \E i \in 1..k : Contains(s[i], e))}
<1>1. n \in Nat /\ \A i \in 1..n : s[i] \in Seq(X)
  BY LenProperties, ElementOfSeq
<1>2. \A k \in 0..n : upTo(k) \in Seq(Seq(X))
  BY <1>1, SubSeqProperties
<1>3. 0 \in T
  <2>1. upTo(0) = <<>>
    BY SubSeqEmpty
  <2>2. FlattenSeq(<<>>) = <<>> /\ ~Contains(<<>>, e)
    BY DEF FlattenSeq, Contains
  <2> HIDE DEF upTo
  <2> QED
    BY <2>1, <2>2
<1>4. ASSUME NEW k \in Nat, k \in T PROVE k + 1 \in T
  <2> SUFFICES ASSUME k + 1 <= n
               PROVE  Contains(FlattenSeq(upTo(k + 1)), e)
                        <=> \E i \in 1..k + 1 : Contains(s[i], e)
    OBVIOUS
  <2>1. k \in 0..n /\ k + 1 \in 1..n
    BY <1>1
  <2>2. upTo(k + 1) = Append(upTo(k), s[k + 1])
    BY <1>1, <2>1
  <2>3. upTo(k) \in Seq(Seq(X)) /\ s[k + 1] \in Seq(X)
    BY <1>1, <1>2, <2>1
  <2> HIDE DEF upTo
  <2>4. FlattenSeq(upTo(k)) \in Seq(X)
        /\ FlattenSeq(upTo(k + 1)) = FlattenSeq(upTo(k)) \o s[k + 1]
    BY <2>2, <2>3, FlattenAppend
  <2>5. Contains(FlattenSeq(upTo(k + 1)), e)
          <=> Contains(FlattenSeq(upTo(k)), e) \/ Contains(s[k + 1], e)
    <3> DEFINE a == FlattenSeq(upTo(k))
               b == s[k + 1]
    <3>1. a \in Seq(X) /\ b \in Seq(X) /\ FlattenSeq(upTo(k + 1)) = a \o b
      BY <2>3, <2>4
    <3> HIDE DEF a, b
    <3>2. Contains(a \o b, e) <=> Contains(a, e) \/ Contains(b, e)
      BY <3>1, ConcatHas
    <3> QED
      BY <3>1, <3>2 DEF a, b
  <2>6. Contains(FlattenSeq(upTo(k)), e) <=> \E i \in 1..k : Contains(s[i], e)
    BY <1>4, <2>1
  <2> HIDE DEF T
  <2>7. (\E i \in 1..k + 1 : Contains(s[i], e))
          <=> (\E i \in 1..k : Contains(s[i], e)) \/ Contains(s[k + 1], e)
    <3>1. 1..k + 1 = (1..k) \cup {k + 1}
      BY <2>1
    <3> QED
      BY <3>1
  <2> QED
    BY <2>5, <2>6, <2>7
<1> HIDE DEF T
<1>5. n \in T
  BY <1>1, <1>3, <1>4, Induct
<1>6. upTo(n) = s
  BY <1>1
<1> HIDE DEF upTo
<1> QED
  BY <1>1, <1>5, <1>6 DEF T

(* A piece with a control character is among the pieces. *)
HasControl(s) == \E p \in Piece : Contains(s, p) /\ Contains(p.symbols, "control")

(* The text of pieces has a control character if one of them has.          *)
LEMMA ControlInText ==
  ASSUME NEW s \in Seq(Piece)
  PROVE  Contains(Text(s), "control") <=> HasControl(s)
<1>1. Len(s) \in Nat /\ \A i \in 1..Len(s) : s[i] \in Piece /\ s[i].symbols \in Seq(Symbol)
  BY LenProperties, PieceOf
<1>2. Symbols(s) \in Seq(Seq(Symbol)) /\ Len(Symbols(s)) = Len(s)
      /\ \A i \in 1..Len(s) : Symbols(s)[i] = s[i].symbols
  BY <1>1 DEF Symbols
<1>3. Text(s) = FlattenSeq(Symbols(s))
  BY DEF Text, Symbols
<1>4. Contains(Text(s), "control") <=> \E i \in 1..Len(s) : Contains(Symbols(s)[i], "control")
  BY <1>2, <1>3, FlattenHas
<1>5. (\E i \in 1..Len(s) : Contains(s[i].symbols, "control")) <=> HasControl(s)
  <2> DEFINE P(p) == Contains(p.symbols, "control")
  <2> HIDE DEF P
  <2>1. (\E i \in 1..Len(s) : P(s[i])) <=> \E p \in Piece : (\E i \in 1..Len(s) : s[i] = p) /\ P(p)
    BY <1>1
  <2> QED
    BY <2>1, Zenon DEF HasControl, Contains, P
<1> QED
  BY <1>2, <1>4, <1>5

(* Two sequences of pieces put together.                                   *)
LEMMA ControlInConcat ==
  ASSUME NEW s \in Seq(Piece), NEW t \in Seq(Piece)
  PROVE  s \o t \in Seq(Piece) /\ (HasControl(s \o t) <=> HasControl(s) \/ HasControl(t))
<1>1. \A p : Contains(s \o t, p) <=> Contains(s, p) \/ Contains(t, p)
  BY ConcatHas
<1>2. s \o t \in Seq(Piece)
  BY ConcatProperties
<1> QED
  BY <1>1, <1>2, Zenon DEF HasControl

(* The fixed parts have no control character.                              *)
LEMMA ControlInFixed ==
  ASSUME NEW name, NEW size, Fixed(name, size) \in Piece, name # "control"
  PROVE  ~HasControl(<<Fixed(name, size)>>) /\ <<Fixed(name, size)>> \in Seq(Piece)
<1>1. Fixed(name, size).symbols = <<name>>
  BY DEF Fixed
<1>2. ~Contains(Fixed(name, size).symbols, "control")
  BY <1>1, SingleHas
<1> HIDE DEF Fixed
<1>3. \A p : Contains(<<Fixed(name, size)>>, p) <=> Fixed(name, size) = p
  BY SingleHas
<1> QED
  BY <1>2, <1>3, Single DEF HasControl

(* append_escaped keeps the control characters and brings in none.         *)
LEMMA ControlInEscaped ==
  ASSUME NEW bytes \in Seq(Byte)
  PROVE  HasControl(Escaped(bytes)) <=> Contains(bytes, "control")
<1> DEFINE piece(i) == [symbols |-> Escape(bytes[i]), size |-> Len(Escape(bytes[i]))]
           middle == [i \in 1..Len(bytes) |-> piece(i)]
<1>1. Len(bytes) \in Nat /\ \A i \in 1..Len(bytes) : bytes[i] \in Byte
  BY LenProperties, ElementOfSeq
<1>2. ASSUME NEW i \in 1..Len(bytes)
      PROVE  piece(i) \in Piece /\ (Contains(piece(i).symbols, "control") <=> bytes[i] = "control")
  <2> DEFINE b == bytes[i]
             e == Escape(b)
  <2>1. b \in Byte
    BY <1>1
  <2> HIDE DEF b
  <2>2. e \in Seq(Symbol) /\ (Contains(e, "control") <=> b = "control")
    <3>1. b \in Symbol /\ "backslash" \in Symbol /\ "n" \in Symbol
      BY <2>1 DEF Symbol, Byte
    <3>2. \/ e = <<"backslash", b>> /\ b # "control"
          \/ e = <<"backslash", "n">> /\ b # "control"
          \/ e = <<b>>
      BY DEF Escape
    <3> HIDE DEF e
    <3>3. <<"backslash", b>> \in Seq(Symbol) /\ <<"backslash", "n">> \in Seq(Symbol)
          /\ <<b>> \in Seq(Symbol)
      BY <3>1
    <3>4. /\ b # "control" => ~Contains(<<"backslash", b>>, "control")
          /\ ~Contains(<<"backslash", "n">>, "control")
      BY DEF Contains
    <3>5. Contains(<<b>>, "control") <=> b = "control"
      BY SingleHas
    <3>6. CASE e = <<"backslash", b>> /\ b # "control"
      BY <3>3, <3>4, <3>6
    <3>7. CASE e = <<"backslash", "n">> /\ b # "control"
      BY <3>3, <3>4, <3>7
    <3>8. CASE e = <<b>>
      BY <3>3, <3>5, <3>8
    <3> QED
      BY <3>2, <3>6, <3>7, <3>8
  <2>3. Len(e) \in Nat
    BY <2>2, LenProperties
  <2>4. piece(i) = [symbols |-> e, size |-> Len(e)]
    BY DEF b
  <2> HIDE DEF e, piece
  <2>5. piece(i) \in Piece /\ piece(i).symbols = e
    BY <2>2, <2>3, <2>4 DEF Piece
  <2> QED
    BY <2>2, <2>5 DEF b
<1> HIDE DEF piece
<1>3. middle \in Seq(Piece) /\ Len(middle) = Len(bytes)
  BY <1>1, <1>2
<1>4. HasControl(middle) <=> Contains(bytes, "control")
  <2>1. \A p : Contains(middle, p) <=> \E i \in 1..Len(bytes) : piece(i) = p
    BY <1>3 DEF Contains
  <2> HIDE DEF middle
  <2>2. HasControl(middle) <=> \E i \in 1..Len(bytes) : bytes[i] = "control"
    BY <1>2, <2>1 DEF HasControl
  <2> QED
    BY <2>2 DEF Contains
<1>5. <<Quote>> \in Seq(Piece) /\ ~HasControl(<<Quote>>)
  <2>1. Quote = Fixed("quote", 1) /\ Fixed("quote", 1) \in Piece
    BY FixedParts DEF Quote, Fixed
  <2> QED
    BY <2>1, ControlInFixed
<1>6. Escaped(bytes) = <<Quote>> \o middle \o <<Quote>>
  BY DEF Escaped, piece
<1> HIDE DEF middle
<1>7. <<Quote>> \o middle \in Seq(Piece) /\ (HasControl(<<Quote>> \o middle) <=> HasControl(middle))
  BY <1>3, <1>5, ControlInConcat
<1>8. HasControl(<<Quote>> \o middle \o <<Quote>>) <=> HasControl(<<Quote>> \o middle)
  BY <1>5, <1>7, ControlInConcat
<1> QED
  BY <1>4, <1>6, <1>7, <1>8

(* An item has the control characters of the fields of its log.            *)
LEMMA ControlInItem ==
  ASSUME NEW entry \in Entry
  PROVE  HasControl(ItemPieces(entry)) <=> \E f \in Fields : Contains(entry.text[f], "control")
<1>1. 15 + Digits(entry.id) \in Nat
  <2>1. entry.id \in Nat
    BY DEF Entry
  <2>2. Digits(entry.id) \in Nat
    BY <2>1, DigitsType
  <2> QED
    BY <2>2
<1>2. entry.text["level"] \in Seq(Byte) /\ entry.text["source"] \in Seq(Byte)
      /\ entry.text["message"] \in Seq(Byte)
  BY DEF Entry, Fields
<1> DEFINE l == Escaped(entry.text["level"])
           s == Escaped(entry.text["source"])
           m == Escaped(entry.text["message"])
           p1 == <<Fixed("id", 15 + Digits(entry.id))>>
           p2 == <<Fixed("source", 10)>>
           p3 == <<Fixed("message", 11)>>
           p4 == <<Fixed("suffix", 32)>>
<1>3. l \in Seq(Piece) /\ s \in Seq(Piece) /\ m \in Seq(Piece)
  BY <1>2, EscapedType
<1>4. /\ HasControl(l) <=> Contains(entry.text["level"], "control")
      /\ HasControl(s) <=> Contains(entry.text["source"], "control")
      /\ HasControl(m) <=> Contains(entry.text["message"], "control")
  BY <1>2, ControlInEscaped
<1>5. /\ p1 \in Seq(Piece) /\ p2 \in Seq(Piece) /\ p3 \in Seq(Piece) /\ p4 \in Seq(Piece)
      /\ ~HasControl(p1) /\ ~HasControl(p2) /\ ~HasControl(p3) /\ ~HasControl(p4)
  BY <1>1, FixedParts, ControlInFixed
<1>6. ItemPieces(entry) = p1 \o l \o p2 \o s \o p3 \o m \o p4
  BY DEF ItemPieces
<1> HIDE DEF l, s, m, p1, p2, p3, p4
<1>7. p1 \o l \in Seq(Piece) /\ (HasControl(p1 \o l) <=> HasControl(l))
  BY <1>3, <1>5, ControlInConcat
<1>8. p1 \o l \o p2 \in Seq(Piece) /\ (HasControl(p1 \o l \o p2) <=> HasControl(l))
  BY <1>7, <1>5, ControlInConcat
<1>9. p1 \o l \o p2 \o s \in Seq(Piece)
      /\ (HasControl(p1 \o l \o p2 \o s) <=> HasControl(l) \/ HasControl(s))
  BY <1>8, <1>3, ControlInConcat
<1>10. p1 \o l \o p2 \o s \o p3 \in Seq(Piece)
       /\ (HasControl(p1 \o l \o p2 \o s \o p3) <=> HasControl(l) \/ HasControl(s))
  BY <1>9, <1>5, ControlInConcat
<1>11. p1 \o l \o p2 \o s \o p3 \o m \in Seq(Piece)
       /\ (HasControl(p1 \o l \o p2 \o s \o p3 \o m)
             <=> HasControl(l) \/ HasControl(s) \/ HasControl(m))
  BY <1>10, <1>3, ControlInConcat
<1>12. HasControl(p1 \o l \o p2 \o s \o p3 \o m \o p4)
         <=> HasControl(l) \/ HasControl(s) \/ HasControl(m)
  BY <1>11, <1>5, ControlInConcat
<1>13. (\E f \in Fields : Contains(entry.text[f], "control"))
         <=> \/ Contains(entry.text["level"], "control")
             \/ Contains(entry.text["source"], "control")
             \/ Contains(entry.text["message"], "control")
  BY DEF Fields
<1> QED
  BY <1>4, <1>6, <1>12, <1>13

(* A control character is in the document if and only if it is in a field *)
(* of a log it shows.                                                      *)
LEMMA ControlInDocument ==
  ASSUME pending \in Seq(Entry), maxItems \in Nat
  PROVE  Contains(Text(Document), "control")
           <=> \E i \in 1..Len(Shown), f \in Fields : Contains(Shown[i].text[f], "control")
<1> DEFINE m == Len(Shown)
           items == [i \in 1..m |-> Item(i)]
           all == FlattenSeq(items)
<1>1. m \in Nat /\ \A i \in 1..m : Shown[i] \in Entry /\ Item(i) \in Seq(Piece)
  BY ShownLogs, ElementOfSeq, ItemType
<1>2. ASSUME NEW i \in 1..m
      PROVE  HasControl(Item(i)) <=> \E f \in Fields : Contains(Shown[i].text[f], "control")
  <2> DEFINE c == IF i > 1 THEN <<Comma>> ELSE <<>>
             p == ItemPieces(Shown[i])
  <2>1. c \in Seq(Piece) /\ ~HasControl(c)
    <3>1. Comma \in Piece /\ <<Comma>> \in Seq(Piece) /\ ~HasControl(<<Comma>>)
      BY FixedParts, ControlInFixed DEF Comma
    <3>2. <<>> \in Seq(Piece) /\ ~HasControl(<<>>)
      BY DEF HasControl, Contains
    <3> QED
      BY <3>1, <3>2
  <2>2. p \in Seq(Piece)
        /\ (HasControl(p) <=> \E f \in Fields : Contains(Shown[i].text[f], "control"))
    BY <1>1, ItemPiecesType, ControlInItem
  <2>3. Item(i) = c \o p
    BY DEF Item
  <2> HIDE DEF c, p
  <2> QED
    BY <2>1, <2>2, <2>3, ControlInConcat
<1>3. items \in Seq(Seq(Piece)) /\ Len(items) = m /\ \A i \in 1..m : items[i] = Item(i)
  BY <1>1
<1>4. all \in Seq(Piece)
  <2> HIDE DEF items
  <2> QED
    BY <1>3, EmptySeq, FlattenAppend
<1>5. HasControl(all) <=> \E i \in 1..m : HasControl(Item(i))
  <2> HIDE DEF items
  <2>1. \A p : Contains(all, p) <=> \E i \in 1..m : Contains(Item(i), p)
    BY <1>3, FlattenHas
  <2> QED
    BY <2>1, Zenon DEF HasControl
<1>6. Document = <<Header>> \o all \o <<Footer(m)>>
  BY DEF Document
<1>7. <<Header>> \in Seq(Piece) /\ ~HasControl(<<Header>>)
  <2>1. Header = Fixed("header", 25 + Digits(Len(pending)))
    BY DEF Header
  <2>2. Header \in Piece
    BY HeaderType
  <2> QED
    BY <2>1, <2>2, ControlInFixed
<1>8. <<Footer(m)>> \in Seq(Piece) /\ ~HasControl(<<Footer(m)>>)
  <2>1. Footer(m) = Fixed("footer", 14 + Digits(m))
    BY DEF Footer
  <2>2. Footer(m) \in Piece
    BY <1>1, FooterType
  <2> QED
    BY <2>1, <2>2, ControlInFixed
<1> HIDE DEF all
<1>9. <<Header>> \o all \in Seq(Piece) /\ (HasControl(<<Header>> \o all) <=> HasControl(all))
  BY <1>4, <1>7, ControlInConcat
<1>10. <<Header>> \o all \o <<Footer(m)>> \in Seq(Piece)
       /\ (HasControl(<<Header>> \o all \o <<Footer(m)>>) <=> HasControl(all))
  BY <1>8, <1>9, ControlInConcat
<1>11. Contains(Text(Document), "control") <=> HasControl(all)
  BY <1>6, <1>10, ControlInText
<1> QED
  BY <1>2, <1>5, <1>11

-----------------------------------------------------------------------------
(* The inductive invariant                                                 *)

(* How far the answer is: some pieces are written, and they and those to   *)
(* do are the pieces of doc.                                               *)
Sent(doc) ==
  \E done \in Seq(Piece) : done \o todo = doc /\ written = Text(done) /\ offset = Size(done)

(* What the buffer of logs holds. *)
LogsKept ==
  /\ pending \in Seq(Entry)
  /\ Len(pending) <= Capacity

(* What an answer in the making is. *)
OnItsWay ==
  /\ todo \in Seq(Piece)
  /\ todo # <<>> => at \in {"items", "footer"}
  /\ at = "items" => emitted <= Len(Shown) /\ Sent(Upto(emitted))
  /\ at = "footer" => Sent(Document)

JsonInv ==
  /\ LogsKept /\ JsonTypeOK /\ RefusedOnlyFor
  /\ OnItsWay /\ WholeOrError /\ StaysInBuffer /\ FailsOnlyFor

(* The sizes and counters are numbers.                                     *)
LEMMA Arguments ==
  ASSUME JsonTypeOK
  PROVE  /\ bufferSize \in Nat \ {0} /\ maxItems \in Nat \ {0}
         /\ offset \in Nat /\ emitted \in Nat /\ Capacity \in Nat /\ MaxPosts \in Nat
BY JsonAssumption DEF JsonTypeOK

(* The invariant holds at the start.                                       *)
LEMMA InitHolds == Init => JsonInv
<1> SUFFICES ASSUME Init PROVE JsonInv
  OBVIOUS
<1>1. LogsKept
  BY JsonAssumption DEF Init, LogsKept
<1>2. JsonTypeOK
  <2>1. pending = <<>> /\ Len(pending) = 0
    BY DEF Init
  <2> QED
    BY <2>1, JsonAssumption DEF Init, JsonTypeOK
<1>3. RefusedOnlyFor
  BY DEF Init, RefusedOnlyFor
<1>4. OnItsWay
  BY DEF Init, OnItsWay
<1>5. WholeOrError /\ FailsOnlyFor
  BY DEF Init, WholeOrError, FailsOnlyFor
<1>6. StaysInBuffer
  BY <1>2, Arguments DEF Init, StaysInBuffer
<1> QED
  BY <1>1, <1>2, <1>3, <1>4, <1>5, <1>6 DEF JsonInv

(* The characters of the bytes copy_text gets, and their number. *)
LEMMA ResolvedText ==
  ASSUME NEW r \in Requests, NEW f \in Fields
  PROVE  /\ r[f] \in Seq(Chars) /\ Len(r[f]) \in Nat
         /\ Resolved(r)[f] \in Seq(Byte)
         /\ ~Contains(r[f], "wide") /\ ValidRequest(r) => Len(Resolved(r)[f]) < FieldSize[f]
<1>1. r[f] \in Seq(Chars)
  BY JsonAssumption
<1>2. Len(r[f]) \in Nat
  BY <1>1, LenProperties
<1>3. DefaultLength[f] \in Nat /\ FieldSize[f] \in Nat /\ FieldMax[f] \in Nat
      /\ FieldMax[f] < FieldSize[f] /\ DefaultLength[f] < FieldSize[f]
  BY JsonAssumption DEF Fields, DefaultLength
<1> DEFINE c == CString(r[f])
           d == [i \in 1..DefaultLength[f] |-> "plain"]
<1>4. Resolved(r)[f] = IF c = <<>> THEN d ELSE c
  BY DEF Resolved
<1>5. d \in Seq(Byte) /\ Len(d) = DefaultLength[f]
  <2>1. "plain" \in Byte
    BY DEF Byte
  <2> QED
    BY <1>3, <2>1
<1>6. c \in Seq(Byte)
  BY <1>1, CStringType
<1>7. ASSUME ~Contains(r[f], "wide"), ValidRequest(r) PROVE Len(c) < FieldSize[f]
  <2>1. c = Seen(r[f])
    BY <1>1, <1>7, OneByteEach
  <2>2. Len(c) \in 0..Len(r[f])
    BY <1>1, <2>1, SeenText
  <2>3. Len(r[f]) <= FieldMax[f]
    BY <1>2, <1>3, <1>7 DEF ValidRequest
  <2> HIDE DEF c
  <2> QED
    BY <1>2, <1>3, <2>2, <2>3
<1> HIDE DEF c, d
<1> QED
  BY <1>1, <1>2, <1>3, <1>4, <1>5, <1>6, <1>7

(* POST /logs: an accepted log has fields that fit, a refused one a reason.*)
LEMMA PostHolds ==
  ASSUME JsonInv, NEW r \in Requests, Post(r)
  PROVE  JsonInv'
<1> DEFINE text == Resolved(r)
           accepted == /\ text["message"] # <<>>
                       /\ Len(pending) < Capacity
                       /\ \A f \in Fields : CopyText(f, text[f])
           entry == [id |-> nextId, text |-> text]
<1>1. /\ nextId <= MaxPosts /\ ValidRequest(r) /\ at' = "idle"
      /\ UNCHANGED <<bufferSize, maxItems, todo, offset, written, emitted, status>>
      /\ todo = <<>>
  BY DEF Post, encoderVars, JsonInv, OnItsWay
<1>2. \/ accepted /\ pending' = Append(pending, entry) /\ nextId' = nextId + 1 /\ refused' = {}
      \/ ~accepted /\ refused' = {r} /\ UNCHANGED <<pending, nextId>>
  BY DEF Post
<1>3. pending \in Seq(Entry) /\ Len(pending) \in Nat /\ Len(pending) <= Capacity
      /\ nextId \in 1..MaxPosts /\ MaxPosts \in Nat /\ Capacity \in Nat
  BY <1>1, LenProperties, Arguments DEF JsonInv, LogsKept, JsonTypeOK
<1>4. \A f \in Fields : text[f] \in Seq(Byte) /\ Len(text[f]) \in Nat
  <2> SUFFICES ASSUME NEW f \in Fields PROVE text[f] \in Seq(Byte) /\ Len(text[f]) \in Nat
    OBVIOUS
  <2>1. text[f] \in Seq(Byte)
    BY ResolvedText
  <2> HIDE DEF text
  <2> QED
    BY <2>1, LenProperties
<1>5. ASSUME accepted, NEW f \in Fields PROVE Len(text[f]) \in 1..FieldSize[f] - 1
  <2>1. FieldSize[f] \in Nat /\ Len(text[f]) < FieldSize[f]
    BY <1>5, JsonAssumption DEF CopyText
  <2>2. Len(text[f]) # 0
    <3> SUFFICES ASSUME Len(text[f]) = 0 PROVE FALSE
      OBVIOUS
    <3>1. text[f] = <<>>
      <4> HIDE DEF text
      <4> QED
        BY <1>4, EmptySeq
    <3>2. f = "message"
      <4>1. text[f] = IF CString(r[f]) = <<>> THEN [i \in 1..DefaultLength[f] |-> "plain"]
                      ELSE CString(r[f])
        BY DEF Resolved
      <4>2. f \in {"level", "source"} => DefaultLength[f] > 0 /\ DefaultLength[f] \in Nat
        BY DEF DefaultLength
      <4> DEFINE d == [i \in 1..DefaultLength[f] |-> "plain"]
      <4>3. f \in {"level", "source"} => Len(d) > 0
        BY <4>2
      <4> HIDE DEF d
      <4>4. f \in {"level", "source"} => d # <<>>
        BY <4>3
      <4> QED
        BY <3>1, <4>1, <4>4 DEF Fields, d
    <3> QED
      BY <1>5, <3>1, <3>2
  <2> HIDE DEF text, accepted
  <2> QED
    BY <1>4, <2>1, <2>2
<1>6. entry \in Entry
  <2>1. text = [f \in Fields |-> text[f]]
    BY DEF Resolved
  <2> HIDE DEF text
  <2>2. text \in [Fields -> Seq(Byte)]
    BY <1>4, <2>1
  <2> QED
    BY <1>3, <2>2 DEF Entry
<1>7. LogsKept' /\ JsonTypeOK'
  <2>1. CASE accepted
    <3> DEFINE p == Append(pending, entry)
    <3>1. p \in Seq(Entry) /\ Len(p) = Len(pending) + 1
          /\ (\A i \in 1..Len(pending) : p[i] = pending[i]) /\ p[Len(pending) + 1] = entry
      BY <1>3, <1>6, AppendProperties
    <3>2. pending' = p /\ nextId' = nextId + 1 /\ refused' = {}
      BY <1>2, <2>1
    <3>3. entry.id = nextId /\ entry.text = text
      OBVIOUS
    <3>4. \A f \in Fields : Len(text[f]) \in 1..FieldSize[f] - 1
      BY <1>5, <2>1
    <3>5. Len(pending) < Capacity
      BY <2>1
    <3> HIDE DEF p, entry, text, accepted
    <3>6. LogsKept'
      BY <1>3, <3>1, <3>2, <3>5 DEF LogsKept
    <3>7. ASSUME NEW i \in 1..Len(p)
          PROVE  /\ p[i].id \in 1..MaxPosts
                 /\ \A f \in Fields : Len(p[i].text[f]) \in 1..FieldSize[f] - 1
      <4>1. CASE i = Len(pending) + 1
        BY <1>3, <3>1, <3>3, <3>4, <4>1
      <4>2. CASE i # Len(pending) + 1
        <5>1. i \in 1..Len(pending) /\ p[i] = pending[i]
          BY <1>3, <3>1, <4>2
        <5> QED
          BY <5>1 DEF JsonInv, JsonTypeOK
      <4> QED
        BY <4>1, <4>2
    <3>8. nextId' \in 1..MaxPosts + 1
      BY <1>3, <3>2
    <3>9. JsonTypeOK'
      BY <1>1, <3>2, <3>7, <3>8 DEF JsonInv, JsonTypeOK
    <3> QED
      BY <3>6, <3>9
  <2>2. CASE ~accepted
    <3>1. refused' = {r} /\ UNCHANGED <<pending, nextId>>
      BY <1>2, <2>2
    <3> HIDE DEF accepted
    <3> QED
      BY <1>1, <3>1 DEF JsonInv, JsonTypeOK, LogsKept
  <2> QED
    BY <2>1, <2>2
<1>8. RefusedOnlyFor'
  <2>1. CASE accepted
    BY <1>2, <2>1 DEF RefusedOnlyFor
  <2>2. CASE ~accepted
    <3>1. refused' = {r} /\ pending' = pending
      BY <1>2, <2>2
    <3>2. CASE ~(Len(pending) < Capacity)
      <4>1. Len(pending') = Capacity
        BY <1>3, <3>1, <3>2
      <4> QED
        BY <4>1 DEF RefusedOnlyFor
    <3>3. CASE \E f \in Fields : ~CopyText(f, text[f])
      <4>1. PICK f \in Fields : ~CopyText(f, text[f])
        BY <3>3
      <4>2. Contains(r[f], "wide")
        BY <1>1, <4>1, ResolvedText DEF CopyText
      <4> QED
        BY <3>1, <4>2 DEF RefusedOnlyFor
    <3>4. CASE text["message"] = <<>>
      <4> DEFINE t == r["message"]
      <4>1. "message" \in Fields
        BY DEF Fields
      <4>2. t \in Seq(Chars) /\ Len(t) \in Nat
        BY <4>1, ResolvedText
      <4>3. Len(t) > 0
        BY <1>1, <4>1, <4>2, JsonAssumption DEF ValidRequest
      <4>4. CASE Contains(t, "wide")
        BY <3>1, <4>1, <4>4 DEF RefusedOnlyFor
      <4>5. CASE ~Contains(t, "wide")
        <5>1. CString(t) = Seen(t)
          BY <4>2, <4>5, OneByteEach
        <5>2. CString(t) = <<>>
          BY <3>4, <4>1, Zenon DEF Resolved
        <5>3. Len(Seen(t)) = 0
          BY <5>1, <5>2, EmptySeq
        <5> HIDE DEF t
        <5>4. t[1] = "nul"
          BY <4>2, <4>3, <5>3, SeenText
        <5> QED
          BY <3>1, <5>4 DEF RefusedOnlyFor, t
      <4> QED
        BY <4>4, <4>5
    <3> QED
      BY <2>2, <3>2, <3>3, <3>4
  <2> QED
    BY <2>1, <2>2
<1> HIDE DEF accepted, entry, text
<1>9. OnItsWay' /\ WholeOrError' /\ FailsOnlyFor'
  BY <1>1, EmptySeq DEF JsonInv, OnItsWay, WholeOrError, FailsOnlyFor
<1>10. StaysInBuffer'
  BY <1>1 DEF JsonInv, StaysInBuffer
<1> QED
  BY <1>7, <1>8, <1>9, <1>10 DEF JsonInv

(* The oldest log is taken; there is no answer in the making.              *)
LEMMA TakeHolds ==
  ASSUME JsonInv, Take
  PROVE  JsonInv'
<1>1. /\ pending # <<>> /\ pending' = Tail(pending) /\ at' = "idle" /\ refused' = {}
      /\ UNCHANGED <<nextId, bufferSize, maxItems, todo, offset, written, emitted, status>>
      /\ todo = <<>>
  BY DEF Take, encoderVars, JsonInv, OnItsWay
<1>2. pending \in Seq(Entry) /\ Len(pending) \in Nat /\ Len(pending) <= Capacity
      /\ Capacity \in Nat
  BY LenProperties, Arguments DEF JsonInv, LogsKept
<1> DEFINE p == Tail(pending)
<1>3. /\ p \in Seq(Entry) /\ Len(p) = Len(pending) - 1 /\ Len(pending) > 0
      /\ \A i \in 1..Len(p) : p[i] = pending[i + 1]
  BY <1>1, <1>2, HeadTailProperties, EmptySeq
<1> HIDE DEF p
<1>4. LogsKept'
  BY <1>1, <1>2, <1>3 DEF LogsKept, p
<1>5. JsonTypeOK'
  <2>1. ASSUME NEW i \in 1..Len(p)
        PROVE  /\ p[i].id \in 1..MaxPosts
               /\ \A f \in Fields : Len(p[i].text[f]) \in 1..FieldSize[f] - 1
    <3>1. i + 1 \in 1..Len(pending) /\ p[i] = pending[i + 1]
      BY <1>2, <1>3
    <3> QED
      BY <3>1 DEF JsonInv, JsonTypeOK
  <2>2. pending' = p
    BY <1>1 DEF p
  <2> QED
    BY <1>1, <2>1, <2>2 DEF JsonInv, JsonTypeOK
<1>6. RefusedOnlyFor'
  BY <1>1 DEF RefusedOnlyFor
<1>7. OnItsWay' /\ WholeOrError' /\ FailsOnlyFor'
  BY <1>1, EmptySeq DEF JsonInv, OnItsWay, WholeOrError, FailsOnlyFor
<1>8. StaysInBuffer'
  BY <1>1 DEF JsonInv, StaysInBuffer
<1> QED
  BY <1>4, <1>5, <1>6, <1>7, <1>8 DEF JsonInv

(* The document is empty so far, its header to do. *)
LEMMA BeginHolds ==
  ASSUME JsonInv, Begin
  PROVE  JsonInv'
<1>1. /\ todo' = <<Header>> /\ offset' = 0 /\ written' = <<>> /\ emitted' = 0
      /\ at' = "items" /\ refused' = {} /\ status' = 0
      /\ UNCHANGED <<pending, nextId, bufferSize, maxItems>>
  BY DEF Begin
<1>2. /\ pending \in Seq(Entry) /\ bufferSize \in Nat \ {0} /\ maxItems \in Nat
      /\ Capacity \in Nat
  BY Arguments DEF JsonInv, LogsKept
<1>3. LogsKept' /\ RefusedOnlyFor'
  BY <1>1 DEF JsonInv, LogsKept, RefusedOnlyFor
<1>4. JsonTypeOK'
  BY <1>1, <1>2 DEF JsonInv, JsonTypeOK
<1>5. OnItsWay'
  <2> DEFINE none == <<>>
  <2>1. <<Header>> \in Seq(Piece) /\ Upto(0) = <<Header>>
    BY <1>2, HeaderType, UptoEmpty
  <2>2. none \in Seq(Piece) /\ none \o <<Header>> = Upto(0) /\ Text(none) = <<>> /\ Size(none) = 0
    <3>1. none \in Seq(Piece)
      BY EmptySeq
    <3>2. none \o <<Header>> = <<Header>>
      BY <2>1, ConcatEmptySeq
    <3> QED
      BY <2>1, <3>1, <3>2, TextEmpty, SizeEmpty
  <2>3. Shown' = Shown /\ Upto(0)' = Upto(0)
    BY <1>1, SameDocument
  <2>4. Len(Shown) \in Nat
    BY <1>2, ShownLogs
  <2> HIDE DEF none, Header
  <2>5. Upto(emitted)' = Upto(0)
    <3>1. Upto(emitted)' = Upto(0)'
      BY <1>1 DEF Upto
    <3> QED
      BY <2>3, <3>1
  <2>6. Sent(Upto(emitted))'
    <3>1. none \o todo' = Upto(emitted)' /\ written' = Text(none) /\ offset' = Size(none)
      BY <1>1, <2>2, <2>5 DEF none
    <3> QED
      BY <2>2, <3>1 DEF Sent
  <2> QED
    BY <1>1, <2>1, <2>3, <2>4, <2>6 DEF OnItsWay
<1>6. WholeOrError' /\ FailsOnlyFor'
  BY <1>1 DEF WholeOrError, FailsOnlyFor
<1>7. StaysInBuffer'
  BY <1>1, <1>2 DEF StaysInBuffer
<1> QED
  BY <1>3, <1>4, <1>5, <1>6, <1>7 DEF JsonInv

(* What the steps of the encoder leave alone. *)
LEMMA EncoderFrame ==
  ASSUME JsonInv, UNCHANGED <<pending, nextId, refused, bufferSize, maxItems>>
  PROVE  /\ LogsKept' /\ RefusedOnlyFor'
         /\ /\ at' \in {"idle", "items", "footer", "whole", "tooSmall", "answered"}
            /\ offset' \in Nat /\ emitted' \in 0..Capacity /\ status' \in {0, 200, 500}
            => JsonTypeOK'
         /\ pending \in Seq(Entry) /\ maxItems \in Nat
         /\ Shown' = Shown /\ Document' = Document /\ Len(Shown) \in Nat
<1>1. LogsKept' /\ RefusedOnlyFor'
  BY DEF JsonInv, LogsKept, RefusedOnlyFor
<1>2. JsonTypeOK
  BY DEF JsonInv
<1>3. pending \in Seq(Entry) /\ maxItems \in Nat
  BY <1>2, Arguments DEF JsonInv, LogsKept
<1>4. Shown' = Shown /\ Document' = Document
  BY SameDocument
<1>5. Len(Shown) \in Nat
  BY <1>3, ShownLogs
<1> QED
  BY <1>1, <1>2, <1>3, <1>4, <1>5 DEF JsonTypeOK

(* A piece moves from those to do to those written. *)
LEMMA PieceMoves ==
  ASSUME NEW done \in Seq(Piece), todo \in Seq(Piece), todo # <<>>
  PROVE  /\ Head(todo) \in Piece /\ Tail(todo) \in Seq(Piece)
         /\ Head(todo).size \in Nat
         /\ Append(done, Head(todo)) \in Seq(Piece)
         /\ Append(done, Head(todo)) \o Tail(todo) = done \o todo
<1> DEFINE h == Head(todo)
           t == Tail(todo)
<1>1. h \in Piece /\ t \in Seq(Piece) /\ todo = <<h>> \o t
  BY HeadTailProperties
<1> HIDE DEF h, t
<1>2. <<h>> \in Seq(Piece) /\ Append(done, h) = done \o <<h>>
  BY <1>1, Single, AppendIsConcat
<1>3. (done \o <<h>>) \o t = done \o (<<h>> \o t)
  BY <1>1, <1>2, ConcatAssociative
<1>4. h.size \in Nat
  BY <1>1 DEF Piece
<1>5. Append(done, h) \in Seq(Piece)
  BY <1>1, AppendProperties
<1> QED
  BY <1>1, <1>2, <1>3, <1>4, <1>5 DEF h, t

(* The piece fits: it moves to those written and the last byte stays free. *)
LEMMA AppendPieceHolds ==
  ASSUME JsonInv, AppendPiece
  PROVE  JsonInv'
<1>1. /\ todo # <<>> /\ Fits(Head(todo))
      /\ offset' = offset + Head(todo).size
      /\ written' = written \o Head(todo).symbols /\ todo' = Tail(todo)
      /\ UNCHANGED <<pending, nextId, refused, bufferSize, maxItems, at, emitted, status>>
  BY DEF AppendPiece
<1>2. todo \in Seq(Piece) /\ at \in {"items", "footer"}
      /\ bufferSize \in Nat /\ offset \in Nat /\ offset < bufferSize
  BY <1>1, Arguments DEF JsonInv, OnItsWay, StaysInBuffer
<1> DEFINE h == Head(todo)
<1>3. h \in Piece /\ Tail(todo) \in Seq(Piece) /\ h.size \in Nat
  BY <1>1, <1>2, PieceMoves, EmptySeq
<1>4. offset' < bufferSize' /\ offset' \in Nat
  BY <1>1, <1>2, <1>3 DEF Fits
<1>5. LogsKept' /\ RefusedOnlyFor'
  BY <1>1, EncoderFrame
<1>6. JsonTypeOK'
  BY <1>1, <1>4, EncoderFrame DEF JsonInv, JsonTypeOK
<1>7. ASSUME NEW doc, Sent(doc)
      PROVE  \E done \in Seq(Piece) :
               done \o todo' = doc /\ written' = Text(done) /\ offset' = Size(done)
  <2>1. PICK done \in Seq(Piece) :
          done \o todo = doc /\ written = Text(done) /\ offset = Size(done)
    BY <1>7 DEF Sent
  <2> DEFINE more == Append(done, h)
  <2>2. more \in Seq(Piece) /\ more \o Tail(todo) = doc
    BY <1>1, <1>2, <2>1, PieceMoves
  <2>3. Text(more) = Text(done) \o h.symbols /\ Size(more) = Size(done) + h.size
    BY <1>3, TextAppend, SizeAppend
  <2> HIDE DEF more
  <2>4. more \o todo' = doc /\ written' = Text(more) /\ offset' = Size(more)
    BY <1>1, <2>1, <2>2, <2>3
  <2> QED
    BY <2>2, <2>4
<1>8. OnItsWay'
  <2>1. Shown' = Shown /\ Document' = Document /\ Upto(emitted)' = Upto(emitted)
    <3>1. Upto(emitted)' = Upto(emitted)
      BY <1>1, SameDocument DEF Upto
    <3> QED
      BY <1>1, <3>1, EncoderFrame
  <2>2. Sent(Upto(emitted)) => Sent(Upto(emitted))'
    BY <1>7, <2>1 DEF Sent
  <2>3. Sent(Document) => Sent(Document)'
    BY <1>7, <2>1 DEF Sent
  <2> QED
    BY <1>1, <1>2, <1>3, <2>1, <2>2, <2>3 DEF JsonInv, OnItsWay
<1>9. WholeOrError' /\ FailsOnlyFor'
  BY <1>1, <1>2 DEF WholeOrError, FailsOnlyFor
<1>10. StaysInBuffer'
  BY <1>4 DEF StaysInBuffer
<1> QED
  BY <1>5, <1>6, <1>8, <1>9, <1>10 DEF JsonInv

(* The piece that does not fit is one of the document's. *)
LEMMA OverflowHolds ==
  ASSUME JsonInv, Overflow
  PROVE  JsonInv'
<1>1. /\ todo # <<>> /\ ~Fits(Head(todo)) /\ at' = "tooSmall"
      /\ todo' = <<>> /\ written' = <<"error">>
      /\ UNCHANGED <<pending, nextId, refused, bufferSize, maxItems, offset, emitted, status>>
  BY DEF Overflow
<1>2. todo \in Seq(Piece) /\ at \in {"items", "footer"}
      /\ bufferSize \in Nat /\ offset \in Nat /\ offset < bufferSize
  BY <1>1, Arguments DEF JsonInv, OnItsWay, StaysInBuffer
<1> DEFINE h == Head(todo)
<1>3. h \in Piece /\ h.size \in Nat
  BY <1>1, <1>2, PieceMoves, EmptySeq
<1>4. LogsKept' /\ RefusedOnlyFor' /\ Document' = Document
      /\ pending \in Seq(Entry) /\ maxItems \in Nat /\ Len(Shown) \in Nat
  BY <1>1, EncoderFrame
<1>5. JsonTypeOK'
  BY <1>1, EncoderFrame DEF JsonInv, JsonTypeOK
<1>6. ASSUME NEW doc \in Seq(Piece), Sent(doc)
      PROVE  Size(doc) >= bufferSize /\ Size(doc) \in Nat
  <2>1. PICK done \in Seq(Piece) :
          done \o todo = doc /\ written = Text(done) /\ offset = Size(done)
    BY <1>6 DEF Sent
  <2> DEFINE more == Append(done, h)
             rest == Tail(todo)
  <2>2. more \in Seq(Piece) /\ rest \in Seq(Piece) /\ more \o rest = doc
    BY <1>1, <1>2, <2>1, PieceMoves
  <2>3. Size(more) = offset + h.size
    BY <1>3, <2>1, SizeAppend
  <2>4. offset + h.size >= bufferSize
    BY <1>1, <1>2, <1>3 DEF Fits
  <2> HIDE DEF more, rest
  <2>5. Size(more) <= Size(doc)
    BY <2>2, SizeGrows
  <2>6. Size(doc) \in Nat
    BY <1>3, SizeAppend
  <2> HIDE DEF h
  <2> QED
    BY <1>2, <1>3, <2>3, <2>4, <2>5, <2>6
<1>7. Size(Document) >= bufferSize
  <2>1. CASE at = "items"
    <3> DEFINE doc == Upto(emitted)
    <3>1. emitted \in 0..Len(Shown) /\ Sent(doc)
      BY <1>4, <2>1, Arguments DEF JsonInv, OnItsWay
    <3>2. doc \in Seq(Piece) /\ Size(doc) <= Size(Document) /\ Document \in Seq(Piece)
      BY <1>4, <3>1, DocumentIs
    <3> HIDE DEF doc
    <3>3. Size(doc) >= bufferSize /\ Size(doc) \in Nat
      BY <1>6, <3>1, <3>2
    <3>4. Size(Document) \in Nat
      BY <1>3, <3>2, SizeAppend
    <3> QED
      BY <1>2, <3>2, <3>3, <3>4
  <2>2. CASE at = "footer"
    <3>1. Sent(Document)
      BY <2>2 DEF JsonInv, OnItsWay
    <3>2. Document \in Seq(Piece)
      BY <1>4, DocumentIs
    <3> QED
      BY <1>6, <3>1, <3>2
  <2> QED
    BY <1>2, <2>1, <2>2
<1>8. OnItsWay'
  BY <1>1, EmptySeq DEF OnItsWay
<1>9. WholeOrError' /\ FailsOnlyFor'
  BY <1>1, <1>4, <1>7 DEF WholeOrError, FailsOnlyFor
<1>10. StaysInBuffer'
  BY <1>1, <1>2 DEF StaysInBuffer
<1> QED
  BY <1>4, <1>5, <1>8, <1>9, <1>10 DEF JsonInv

(* Everything up to here is written; the next item is to do.               *)
LEMMA NextItemHolds ==
  ASSUME JsonInv, NextItem
  PROVE  JsonInv'
<1>1. /\ at = "items" /\ todo = <<>> /\ MoreItems
      /\ todo' = (IF emitted > 0 THEN <<Comma>> ELSE <<>>) \o ItemPieces(pending[emitted + 1])
      /\ emitted' = emitted + 1
      /\ UNCHANGED <<pending, nextId, refused, bufferSize, maxItems, at, offset, written, status>>
  BY DEF NextItem
<1>2. LogsKept' /\ RefusedOnlyFor' /\ Shown' = Shown
      /\ pending \in Seq(Entry) /\ maxItems \in Nat /\ Len(Shown) \in Nat
  BY <1>1, EncoderFrame
<1>3. emitted \in Nat /\ emitted < Len(Shown) /\ Len(Shown) <= Len(pending)
      /\ Len(pending) \in Nat /\ Len(pending) <= Capacity /\ Capacity \in Nat
  BY <1>1, <1>2, ShownLogs, Arguments DEF MoreItems, JsonInv, LogsKept
<1> DEFINE k == emitted + 1
<1>4. k \in 1..Len(Shown) /\ k \in 0..Capacity /\ (k > 1 <=> emitted > 0)
  BY <1>2, <1>3
<1>5. todo' = Item(k)
  BY <1>1, <1>2, <1>4, ShownLogs DEF Item
<1>6. JsonTypeOK'
  BY <1>1, <1>4, EncoderFrame DEF JsonInv, JsonTypeOK
<1>7. Item(k) \in Seq(Piece)
  BY <1>2, <1>4, ItemType
<1>8. Upto(k) = Upto(emitted) \o Item(k) /\ Upto(emitted) \in Seq(Piece)
  BY <1>2, <1>3, UptoNext
<1>9. Upto(emitted)' = Upto(k)
  <2>1. ASSUME NEW j, j = emitted' PROVE Upto(emitted)' = Upto(j)'
    BY <2>1 DEF Upto
  <2>2. \A j : Upto(j)' = Upto(j)
    BY <1>1, SameDocument
  <2>3. Upto(emitted)' = Upto(emitted')
    BY <2>1, <2>2
  <2> QED
    BY <1>1, <2>3
<1>10. Sent(Upto(emitted))'
  <2>1. PICK done \in Seq(Piece) :
          done \o todo = Upto(emitted) /\ written = Text(done) /\ offset = Size(done)
    BY <1>1 DEF JsonInv, OnItsWay, Sent
  <2>2. done = Upto(emitted)
    BY <1>1, <2>1, ConcatEmptySeq
  <2>3. done \o todo' = Upto(emitted)' /\ written' = Text(done) /\ offset' = Size(done)
    BY <1>1, <1>5, <1>8, <1>9, <2>1, <2>2
  <2> QED
    BY <2>3 DEF Sent
<1>11. OnItsWay'
  <2>1. todo' \in Seq(Piece)
    BY <1>5, <1>7
  <2>2. at' = "items"
    BY <1>1
  <2>3. emitted' <= Len(Shown')
    <3>1. emitted' = k /\ k <= Len(Shown)
      BY <1>1, <1>2, <1>4
    <3> HIDE DEF k
    <3> QED
      BY <1>2, <3>1
  <2> QED
    BY <1>10, <2>1, <2>2, <2>3 DEF OnItsWay
<1>12. WholeOrError' /\ FailsOnlyFor'
  BY <1>1 DEF WholeOrError, FailsOnlyFor
<1>13. StaysInBuffer'
  BY <1>1 DEF JsonInv, StaysInBuffer
<1> QED
  BY <1>2, <1>6, <1>11, <1>12, <1>13 DEF JsonInv

(* All items to show are written; the footer is to do.                     *)
LEMMA EndItemsHolds ==
  ASSUME JsonInv, EndItems
  PROVE  JsonInv'
<1>1. /\ at = "items" /\ todo = <<>> /\ ~MoreItems
      /\ todo' = <<Footer(emitted)>> /\ at' = "footer"
      /\ UNCHANGED <<pending, nextId, refused, bufferSize, maxItems, offset, written, emitted, status>>
  BY DEF EndItems
<1>2. LogsKept' /\ RefusedOnlyFor' /\ Document' = Document
      /\ pending \in Seq(Entry) /\ maxItems \in Nat /\ Len(Shown) \in Nat
  BY <1>1, EncoderFrame
<1>3. emitted = Len(Shown)
  <2>1. emitted \in Nat /\ emitted <= Len(Shown) /\ Len(pending) \in Nat
        /\ Len(Shown) = IF Len(pending) < maxItems THEN Len(pending) ELSE maxItems
    BY <1>1, <1>2, ShownLogs, Arguments DEF JsonInv, OnItsWay
  <2> QED
    BY <1>1, <1>2, <2>1 DEF MoreItems
<1>4. JsonTypeOK'
  BY <1>1, EncoderFrame DEF JsonInv, JsonTypeOK
<1>5. Document = Upto(emitted) \o <<Footer(emitted)>> /\ Upto(emitted) \in Seq(Piece)
  BY <1>2, <1>3, DocumentIs
<1>6. todo' \in Seq(Piece)
  BY <1>1, <1>2, <1>3, FooterType
<1>7. Sent(Document)'
  <2>1. PICK done \in Seq(Piece) :
          done \o todo = Upto(emitted) /\ written = Text(done) /\ offset = Size(done)
    BY <1>1 DEF JsonInv, OnItsWay, Sent
  <2>2. done = Upto(emitted)
    BY <1>1, <2>1, ConcatEmptySeq
  <2>3. done \o todo' = Document' /\ written' = Text(done) /\ offset' = Size(done)
    BY <1>1, <1>2, <1>5, <2>1, <2>2
  <2> QED
    BY <2>3 DEF Sent
<1>8. OnItsWay'
  BY <1>1, <1>6, <1>7 DEF OnItsWay
<1>9. WholeOrError' /\ FailsOnlyFor'
  BY <1>1 DEF WholeOrError, FailsOnlyFor
<1>10. StaysInBuffer'
  BY <1>1 DEF JsonInv, StaysInBuffer
<1> QED
  BY <1>2, <1>4, <1>8, <1>9, <1>10 DEF JsonInv

(* Nothing is left to do: the document is written.                         *)
LEMMA EndFooterHolds ==
  ASSUME JsonInv, EndFooter
  PROVE  JsonInv'
<1>1. /\ at = "footer" /\ todo = <<>> /\ at' = "whole"
      /\ UNCHANGED <<pending, nextId, refused, bufferSize, maxItems, todo, offset, written,
                     emitted, status>>
  BY DEF EndFooter, encoderVars
<1>2. LogsKept' /\ RefusedOnlyFor' /\ Document' = Document
  BY <1>1, EncoderFrame
<1>3. JsonTypeOK'
  BY <1>1, EncoderFrame DEF JsonInv, JsonTypeOK
<1>4. written = Text(Document) /\ offset = Size(Document)
  <2>1. PICK done \in Seq(Piece) :
          done \o todo = Document /\ written = Text(done) /\ offset = Size(done)
    BY <1>1 DEF JsonInv, OnItsWay, Sent
  <2>2. done = Document
    BY <1>1, <2>1, ConcatEmptySeq
  <2> QED
    BY <2>1, <2>2
<1>5. OnItsWay'
  BY <1>1, EmptySeq DEF OnItsWay
<1>6. WholeOrError' /\ FailsOnlyFor'
  <2>1. Text(Document)' = Text(Document) /\ Size(Document)' = Size(Document)
    BY <1>2 DEF Text, Size
  <2> QED
    BY <1>1, <1>4, <2>1 DEF WholeOrError, FailsOnlyFor
<1>7. StaysInBuffer'
  BY <1>1 DEF JsonInv, StaysInBuffer
<1> QED
  BY <1>2, <1>3, <1>5, <1>6, <1>7 DEF JsonInv

(* The status tells whether the document was written and can be decoded.   *)
LEMMA AnswerHolds ==
  ASSUME JsonInv, Answer
  PROVE  JsonInv'
<1>1. /\ at \in {"whole", "tooSmall"} /\ at' = "answered"
      /\ status' = IF Decodes THEN 200 ELSE 500
      /\ UNCHANGED <<pending, nextId, refused, bufferSize, maxItems, todo, offset, written,
                     emitted>>
      /\ todo = <<>>
  BY DEF Answer, encoderVars, JsonInv, OnItsWay
<1>2. LogsKept' /\ RefusedOnlyFor' /\ Document' = Document /\ Shown' = Shown
      /\ pending \in Seq(Entry) /\ maxItems \in Nat
  BY <1>1, EncoderFrame
<1>3. JsonTypeOK'
  BY <1>1, EncoderFrame DEF JsonInv, JsonTypeOK
<1>4. OnItsWay'
  BY <1>1, EmptySeq DEF OnItsWay
<1>5. FailsOnlyFor'
  <2> DEFINE control == \E i \in 1..Len(Shown), f \in Fields : Contains(Shown[i].text[f], "control")
             big == Size(Document) >= bufferSize
  <2>1. Contains(Text(Document), "control") <=> control
    BY <1>2, ControlInDocument
  <2>2. at = "whole" => written = Text(Document) /\ ~big
    <3>1. at = "whole" => written = Text(Document) /\ offset = Size(Document)
      BY DEF JsonInv, WholeOrError
    <3>2. bufferSize \in Nat /\ offset \in Nat /\ offset < bufferSize
      BY Arguments DEF JsonInv, StaysInBuffer
    <3> QED
      BY <3>1, <3>2
  <2>3. at = "tooSmall" => big
    BY DEF JsonInv, WholeOrError
  <2>4. status' = 500 <=> big \/ control
    BY <1>1, <2>1, <2>2, <2>3 DEF Decodes
  <2>5. big' = big /\ control' = control
    BY <1>1, <1>2
  <2> HIDE DEF big, control
  <2>6. (big \/ control)' <=> big \/ control
    BY <2>5
  <2> QED
    BY <2>4, <2>6 DEF FailsOnlyFor, big, control
<1>6. WholeOrError'
  BY <1>1 DEF WholeOrError
<1>7. StaysInBuffer'
  BY <1>1 DEF JsonInv, StaysInBuffer
<1> QED
  BY <1>2, <1>3, <1>4, <1>5, <1>6, <1>7 DEF JsonInv

(* Every step keeps the invariant. *)
LEMMA NextHolds == JsonInv /\ [Next]_jsonVars => JsonInv'
<1> SUFFICES ASSUME JsonInv, [Next]_jsonVars PROVE JsonInv'
  OBVIOUS
<1>1. ASSUME NEW r \in Requests, Post(r) PROVE JsonInv'
  BY <1>1, PostHolds
<1>2. CASE Take
  BY <1>2, TakeHolds
<1>3. CASE Begin
  BY <1>3, BeginHolds
<1>4. CASE AppendPiece
  BY <1>4, AppendPieceHolds
<1>5. CASE Overflow
  BY <1>5, OverflowHolds
<1>6. CASE NextItem
  BY <1>6, NextItemHolds
<1>7. CASE EndItems
  BY <1>7, EndItemsHolds
<1>8. CASE EndFooter
  BY <1>8, EndFooterHolds
<1>9. CASE Answer
  BY <1>9, AnswerHolds
<1>10. CASE UNCHANGED jsonVars
  <2>1. /\ UNCHANGED <<pending, nextId, refused, bufferSize, maxItems>>
        /\ UNCHANGED <<at, todo, offset, written, emitted, status>>
    BY <1>10 DEF jsonVars, encoderVars
  <2>2. LogsKept' /\ RefusedOnlyFor' /\ Shown' = Shown /\ Document' = Document
    BY <2>1, EncoderFrame
  <2>3. JsonTypeOK'
    BY <2>1, EncoderFrame DEF JsonInv, JsonTypeOK
  <2>4. Upto(emitted)' = Upto(emitted)
    BY <2>1, SameDocument DEF Upto
  <2>5. OnItsWay' /\ StaysInBuffer'
    BY <2>1, <2>2, <2>4 DEF JsonInv, OnItsWay, Sent, StaysInBuffer
  <2>6. Text(Document)' = Text(Document) /\ Size(Document)' = Size(Document)
    BY <2>2 DEF Text, Size
  <2>7. WholeOrError' /\ FailsOnlyFor'
    BY <2>1, <2>2, <2>6 DEF JsonInv, WholeOrError, FailsOnlyFor
  <2> QED
    BY <2>2, <2>3, <2>5, <2>7 DEF JsonInv
<1> QED
  BY <1>1, <1>2, <1>3, <1>4, <1>5, <1>6, <1>7, <1>8, <1>9, <1>10 DEF Next

(* The invariant holds in every behaviour.                                 *)
LEMMA Invariant == Spec => []JsonInv
  BY InitHolds, NextHolds, PTL DEF Spec

(* Every field in the buffer has from one byte to one less than its array  *)
(* (log_entry_init), and the encoder is where it can be.                   *)
THEOREM JsonTypes == Spec => []JsonTypeOK
<1>1. JsonInv => JsonTypeOK
  BY DEF JsonInv
<1> QED
  BY <1>1, Invariant, PTL

(* append_raw never writes the last byte of the buffer, nor beyond it, for *)
(* any logs and any size of it.                                            *)
THEOREM BufferHolds == Spec => []StaysInBuffer
<1>1. JsonInv => StaysInBuffer
  BY DEF JsonInv
<1> QED
  BY <1>1, Invariant, PTL

(* buffer_engine_pending_json answers the whole document, or an error when *)
(* the document and its NUL do not fit.                                    *)
THEOREM AnswersWhole == Spec => []WholeOrError
<1>1. JsonInv => WholeOrError
  BY DEF JsonInv
<1> QED
  BY <1>1, Invariant, PTL

(* get_logs fails if and only if the document does not fit or shows a log  *)
(* with a control character append_escaped has no escape for.              *)
THEOREM FailuresExplained == Spec => []FailsOnlyFor
<1>1. JsonInv => FailsOnlyFor
  BY DEF JsonInv
<1> QED
  BY <1>1, Invariant, PTL

(* A request that is valid for LogRequest is refused by log_entry_init and *)
(* buffer_engine_add_log for the three reasons only.                       *)
THEOREM RefusalsExplained == Spec => []RefusedOnlyFor
<1>1. JsonInv => RefusedOnlyFor
  BY DEF JsonInv
<1> QED
  BY <1>1, Invariant, PTL

-----------------------------------------------------------------------------
(* Reading the answer back                                                 *)

(* From r the reader comes to q with the symbols s. *)
Reads(r, s, q) ==
  \E f : f[0] = r /\ f[Len(s)] = q /\ \A i \in 1..Len(s) : f[i] = Read(f[i - 1], s[i])

Closed(field, found) == [open |-> FALSE, escape |-> FALSE, field |-> field, found |-> found]
Open(field, found) == [open |-> TRUE, escape |-> FALSE, field |-> field, found |-> found]
Escaping(field, found) == [open |-> TRUE, escape |-> TRUE, field |-> field, found |-> found]

(* One symbol, in each of the three states. *)
LEMMA ReadOne ==
  ASSUME NEW x, NEW found, NEW s
  PROVE  /\ s # "quote" => Read(Closed(x, found), s) = Closed(x, found)
         /\ Read(Closed(x, found), "quote") = Open(<<>>, found)
         /\ s \notin {"quote", "backslash"} => Read(Open(x, found), s) = Open(Append(x, s), found)
         /\ Read(Open(x, found), "backslash") = Escaping(x, found)
         /\ Read(Open(x, found), "quote") = Closed(x, Append(found, x))
         /\ s # "n" => Read(Escaping(x, found), s) = Open(Append(x, s), found)
         /\ Read(Escaping(x, found), "n") = Open(Append(x, "newline"), found)
<1>1. s # "quote" => Read(Closed(x, found), s) = Closed(x, found)
  BY DEF Read, Closed
<1>2. Read(Closed(x, found), "quote") = Open(<<>>, found)
  BY DEF Read, Closed, Open
<1>3. s \notin {"quote", "backslash"} => Read(Open(x, found), s) = Open(Append(x, s), found)
  BY DEF Read, Open
<1>4. Read(Open(x, found), "backslash") = Escaping(x, found)
  BY DEF Read, Open, Escaping
<1>5. Read(Open(x, found), "quote") = Closed(x, Append(found, x))
  BY DEF Read, Open, Closed
<1>6. s # "n" => Read(Escaping(x, found), s) = Open(Append(x, s), found)
  BY DEF Read, Escaping, Open
<1>7. Read(Escaping(x, found), "n") = Open(Append(x, "newline"), found)
  BY DEF Read, Escaping, Open
<1> QED
  BY <1>1, <1>2, <1>3, <1>4, <1>5, <1>6, <1>7

(* A reader that has come to q from its first state is the one of          *)
(* ReadStrings.                                                            *)
LEMMA ReadsValue ==
  ASSUME NEW X, NEW s \in Seq(X), NEW q, Reads(Closed(<<>>, <<>>), s, q)
  PROVE  ReadStrings(s) = q
<1> DEFINE n == Len(s)
           first == [open |-> FALSE, escape |-> FALSE, field |-> <<>>, found |-> <<>>]
           Solves(g) == g = [i \in 0..n |-> IF i = 0 THEN first ELSE Read(g[i - 1], s[i])]
           after == CHOOSE g : Solves(g)
<1>1. n \in Nat
  BY LenProperties
<1>2. PICK f : f[0] = first /\ f[n] = q /\ \A i \in 1..n : f[i] = Read(f[i - 1], s[i])
  BY Zenon DEF Reads, Closed
<1>3. ReadStrings(s) = after[n]
  BY Zenon DEF ReadStrings
<1> DEFINE h == [i \in 0..n |-> f[i]]
<1> HIDE DEF n, first
<1>4. Solves(h)
  <2>1. ASSUME NEW i \in 0..n PROVE h[i] = IF i = 0 THEN first ELSE Read(h[i - 1], s[i])
    <3>1. CASE i = 0
      BY <1>2, <3>1
    <3>2. CASE i # 0
      <4>1. i \in 1..n /\ i - 1 \in 0..n
        BY <1>1, <3>2
      <4>2. h[i - 1] = f[i - 1] /\ h[i] = f[i]
        BY <4>1
      <4> HIDE DEF h
      <4> QED
        BY <1>2, <3>2, <4>1, <4>2
    <3> QED
      BY <3>1, <3>2
  <2> DEFINE r == [i \in 0..n |-> IF i = 0 THEN first ELSE Read(h[i - 1], s[i])]
  <2>2. \A i \in 0..n : h[i] = r[i]
    BY <2>1
  <2>3. h = [i \in 0..n |-> h[i]] /\ r = [i \in 0..n |-> r[i]]
    OBVIOUS
  <2>4. h = r
    <3> HIDE DEF h, r
    <3> QED
      BY <2>2, <2>3
  <2> QED
    BY <2>4
<1>5. Solves(after)
  <2> HIDE DEF Solves, h
  <2> QED
    BY <1>4, Zenon
<1> HIDE DEF after
<1> DEFINE T == {k \in Nat : k \in 0..n => after[k] = f[k]}
<1>6. 0 \in T
  BY <1>1, <1>2, <1>5
<1>7. ASSUME NEW k \in Nat, k \in T PROVE k + 1 \in T
  <2> SUFFICES ASSUME k + 1 \in 0..n PROVE after[k + 1] = f[k + 1]
    OBVIOUS
  <2>1. k \in 0..n /\ k + 1 \in 1..n /\ (k + 1) - 1 = k /\ k + 1 # 0
    BY <1>1
  <2>2. after[k + 1] = Read(after[k], s[k + 1])
    BY <1>5, <2>1
  <2>3. f[k + 1] = Read(f[k], s[k + 1])
    BY <1>2, <2>1
  <2> QED
    BY <1>7, <2>1, <2>2, <2>3
<1> HIDE DEF T
<1>8. n \in T
  BY <1>1, <1>6, <1>7, Induct
<1> QED
  BY <1>1, <1>2, <1>3, <1>8 DEF T, n

(* No symbols leave the reader where it is.                                *)
LEMMA ReadsNothing ==
  ASSUME NEW r
  PROVE  Reads(r, <<>>, r)
<1> DEFINE f == [i \in 0..0 |-> r]
<1>1. f[0] = r /\ Len(<<>>) = 0
  OBVIOUS
<1> HIDE DEF f
<1>2. f[Len(<<>>)] = r /\ \A i \in 1..Len(<<>>) : f[i] = Read(f[i - 1], <<>>[i])
  BY <1>1
<1> QED
  BY <1>1, <1>2 DEF Reads

(* One symbol is one step of the reader.                                   *)
LEMMA ReadsSymbol ==
  ASSUME NEW r, NEW x
  PROVE  Reads(r, <<x>>, Read(r, x))
<1> DEFINE f == [i \in 0..1 |-> IF i = 0 THEN r ELSE Read(r, x)]
<1>1. f[0] = r /\ f[1] = Read(r, x) /\ Len(<<x>>) = 1 /\ <<x>>[1] = x
  OBVIOUS
<1> HIDE DEF f
<1>2. \A i \in 1..Len(<<x>>) : f[i] = Read(f[i - 1], <<x>>[i])
  <2>1. 1..Len(<<x>>) = {1} /\ 1 - 1 = 0
    BY <1>1
  <2> QED
    BY <1>1, <2>1
<1> QED
  BY <1>1, <1>2 DEF Reads

(* The reader goes on with the second sequence where the first left it.    *)
LEMMA ReadsConcat ==
  ASSUME NEW X, NEW s \in Seq(X), NEW t \in Seq(X), NEW r, NEW p, NEW q,
         Reads(r, s, p), Reads(p, t, q)
  PROVE  Reads(r, s \o t, q)
<1> DEFINE m == Len(s)
           n == Len(t)
           u == s \o t
<1>1. m \in Nat /\ n \in Nat
  BY LenProperties
<1>2. Len(u) = m + n
      /\ \A i \in 1..m + n : u[i] = IF i <= m THEN s[i] ELSE t[i - m]
  BY ConcatProperties
<1>3. PICK f : f[0] = r /\ f[m] = p /\ \A i \in 1..m : f[i] = Read(f[i - 1], s[i])
  BY DEF Reads
<1>4. PICK h : h[0] = p /\ h[n] = q /\ \A i \in 1..n : h[i] = Read(h[i - 1], t[i])
  BY DEF Reads
<1> HIDE DEF m, n, u
<1> DEFINE g == [i \in 0..m + n |-> IF i <= m THEN f[i] ELSE h[i - m]]
<1>5. \A i \in 0..m : g[i] = f[i]
  BY <1>1
<1>6. \A i \in 0..n : g[i + m] = h[i]
  <2> SUFFICES ASSUME NEW i \in 0..n PROVE g[i + m] = h[i]
    OBVIOUS
  <2>1. i + m \in 0..m + n /\ (i + m) - m = i /\ (i + m <= m <=> i = 0)
    BY <1>1
  <2> DEFINE j == i + m
  <2>2. g[j] = IF j <= m THEN f[j] ELSE h[j - m]
    BY <2>1
  <2> HIDE DEF g
  <2>3. CASE i = 0
    BY <1>1, <1>3, <1>4, <2>2, <2>3
  <2>4. CASE i # 0
    BY <2>1, <2>2, <2>4
  <2> QED
    BY <2>3, <2>4
<1> HIDE DEF g
<1>7. ASSUME NEW i \in 1..m + n PROVE g[i] = Read(g[i - 1], u[i])
  <2>1. CASE i <= m
    <3>1. i \in 1..m /\ i \in 0..m /\ i - 1 \in 0..m
      BY <1>1, <2>1
    <3> QED
      BY <1>2, <1>3, <1>5, <2>1, <3>1
  <2>2. CASE ~(i <= m)
    <3> DEFINE j == i - m
    <3>1. j \in 1..n /\ j \in 0..n /\ j - 1 \in 0..n /\ j + m = i /\ (j - 1) + m = i - 1
      BY <1>1, <2>2
    <3>2. u[i] = t[j]
      BY <1>2, <2>2
    <3> HIDE DEF j
    <3>3. g[i] = h[j] /\ g[i - 1] = h[j - 1]
      BY <1>6, <3>1
    <3>4. h[j] = Read(h[j - 1], t[j])
      BY <1>4, <3>1
    <3> QED
      BY <3>2, <3>3, <3>4
  <2> QED
    BY <2>1, <2>2
<1>8. g[0] = r /\ g[m + n] = q
  <2>1. 0 \in 0..m /\ n \in 0..n /\ n + m = m + n
    BY <1>1
  <2> QED
    BY <1>3, <1>4, <1>5, <1>6, <2>1
<1> QED
  BY <1>2, <1>7, <1>8 DEF Reads, u

(* The symbols of pieces put together.                                     *)
LEMMA TextConcat ==
  ASSUME NEW s \in Seq(Piece), NEW t \in Seq(Piece)
  PROVE  Text(s \o t) = Text(s) \o Text(t) /\ Text(s) \in Seq(Symbol)
<1> DEFINE n == Len(t)
           upTo(k) == SubSeq(t, 1, k)
           T == {k \in Nat : k <= n => Text(s \o upTo(k)) = Text(s) \o Text(upTo(k))}
<1>1. n \in Nat /\ \A i \in 1..n : t[i] \in Piece
  BY LenProperties, ElementOfSeq
<1>2. \A k \in 0..n : upTo(k) \in Seq(Piece)
  BY <1>1, SubSeqProperties
<1>3. \A u \in Seq(Piece) : Text(u) \in Seq(Symbol)
  BY TextAppend, FixedParts
<1>4. 0 \in T
  <2>1. upTo(0) = <<>>
    BY SubSeqEmpty
  <2>2. s \o <<>> = s /\ Text(s) \o <<>> = Text(s)
    BY <1>3, ConcatEmptySeq
  <2> HIDE DEF upTo
  <2> QED
    BY <2>1, <2>2, TextEmpty
<1>5. ASSUME NEW k \in Nat, k \in T PROVE k + 1 \in T
  <2> SUFFICES ASSUME k + 1 <= n
               PROVE  Text(s \o upTo(k + 1)) = Text(s) \o Text(upTo(k + 1))
    OBVIOUS
  <2>1. k \in 0..n /\ k + 1 \in 1..n
    BY <1>1
  <2>2. upTo(k + 1) = Append(upTo(k), t[k + 1])
    BY <1>1, <2>1
  <2> DEFINE a == upTo(k)
             p == t[k + 1]
  <2>3. a \in Seq(Piece) /\ p \in Piece
    BY <1>1, <1>2, <2>1
  <2>4. Text(s \o a) = Text(s) \o Text(a)
    BY <1>5, <2>1
  <2> HIDE DEF a, p, T
  <2>5. s \o a \in Seq(Piece) /\ s \o Append(a, p) = Append(s \o a, p)
    <3>1. s \o a \in Seq(Piece)
      BY <2>3, ConcatProperties
    <3>2. <<p>> \in Seq(Piece)
      BY <2>3, Single
    <3>3. Append(a, p) = a \o <<p>> /\ Append(s \o a, p) = (s \o a) \o <<p>>
      BY <2>3, <3>1, AppendIsConcat
    <3> QED
      BY <2>3, <3>1, <3>2, <3>3, ConcatAssociative
  <2>6. Text(Append(a, p)) = Text(a) \o p.symbols
        /\ Text(Append(s \o a, p)) = Text(s \o a) \o p.symbols
    BY <2>3, <2>5, TextAppend
  <2> DEFINE x == Text(s)
             y == Text(a)
             z == p.symbols
  <2>7. x \in Seq(Symbol) /\ y \in Seq(Symbol) /\ z \in Seq(Symbol)
    BY <1>3, <2>3 DEF Piece
  <2>8. (x \o y) \o z = x \o (y \o z)
    <3> HIDE DEF x, y, z
    <3> QED
      BY <2>7, ConcatAssociative
  <2> QED
    BY <2>2, <2>4, <2>5, <2>6, <2>8 DEF a, p
<1> HIDE DEF T
<1>6. n \in T
  BY <1>1, <1>4, <1>5, Induct
<1>7. upTo(n) = t
  BY <1>1
<1> HIDE DEF upTo
<1> QED
  BY <1>1, <1>3, <1>6, <1>7 DEF T

(* The same for pieces. *)
ReadsPieces(r, s, q) == s \in Seq(Piece) /\ Reads(r, Text(s), q)

(* The reader goes from one sequence of pieces on to the next.             *)
LEMMA ReadsPiecesConcat ==
  ASSUME NEW s, NEW t, NEW r, NEW p, NEW q, ReadsPieces(r, s, p), ReadsPieces(p, t, q)
  PROVE  ReadsPieces(r, s \o t, q)
<1>1. s \in Seq(Piece) /\ t \in Seq(Piece)
  BY DEF ReadsPieces
<1>2. Text(s) \in Seq(Symbol) /\ Text(t) \in Seq(Symbol) /\ Text(s \o t) = Text(s) \o Text(t)
  BY <1>1, TextConcat
<1>3. s \o t \in Seq(Piece)
  BY <1>1, ConcatProperties
<1>4. Reads(r, Text(s), p) /\ Reads(p, Text(t), q)
  BY DEF ReadsPieces
<1> DEFINE a == Text(s)
           b == Text(t)
<1> HIDE DEF a, b
<1>5. a \in Seq(Symbol) /\ b \in Seq(Symbol) /\ Reads(r, a, p) /\ Reads(p, b, q)
  BY <1>2, <1>4 DEF a, b
<1>6. Reads(r, a \o b, q)
  BY <1>5, ReadsConcat
<1> QED
  BY <1>2, <1>3, <1>6 DEF ReadsPieces, a, b

(* The reader of a single piece.                                           *)
LEMMA ReadsPiece ==
  ASSUME NEW p \in Piece, NEW r, NEW q, Reads(r, p.symbols, q)
  PROVE  ReadsPieces(r, <<p>>, q)
<1> DEFINE none == <<>>
           s == p.symbols
<1>1. none \in Seq(Piece) /\ <<p>> \in Seq(Piece) /\ s \in Seq(Symbol)
  BY EmptySeq, Single DEF Piece
<1>2. Append(none, p) = <<p>>
  OBVIOUS
<1>3. Text(none) = <<>>
  BY TextEmpty
<1> HIDE DEF none
<1>4. Text(<<p>>) = <<>> \o s
  BY <1>1, <1>2, <1>3, TextAppend
<1>5. <<>> \o s = s
  <2> HIDE DEF s
  <2> QED
    BY <1>1, ConcatEmptySeq
<1> QED
  BY <1>1, <1>4, <1>5 DEF ReadsPieces

(* Outside a string nothing but a quote matters. *)
LEMMA ReadsFixed ==
  ASSUME NEW name, NEW size, Fixed(name, size) \in Piece, name # "quote", NEW x, NEW found
  PROVE  ReadsPieces(Closed(x, found), <<Fixed(name, size)>>, Closed(x, found))
<1>1. Fixed(name, size).symbols = <<name>>
  BY DEF Fixed
<1>2. Read(Closed(x, found), name) = Closed(x, found)
  BY ReadOne
<1>3. Reads(Closed(x, found), <<name>>, Closed(x, found))
  BY <1>2, ReadsSymbol
<1> HIDE DEF Fixed
<1> QED
  BY <1>1, <1>3, ReadsPiece

(* Inside a string an escaped byte is that byte. *)
LEMMA ReadsByte ==
  ASSUME NEW b \in Byte, NEW x, NEW found
  PROVE  Escape(b) \in Seq(Symbol)
         /\ Reads(Open(x, found), Escape(b), Open(Append(x, b), found))
<1>1. b \in Symbol /\ "backslash" \in Symbol /\ "n" \in Symbol /\ b # "n"
  BY DEF Symbol, Byte
<1>2. Reads(Open(x, found), <<"backslash">>, Escaping(x, found))
  BY ReadOne, ReadsSymbol
<1>3. <<"backslash">> \in Seq(Symbol) /\ <<b>> \in Seq(Symbol) /\ <<"n">> \in Seq(Symbol)
  BY <1>1, Single
<1>4. CASE b \in {"quote", "backslash"}
  <2>1. Escape(b) = <<"backslash">> \o <<b>>
    BY <1>4 DEF Escape
  <2>2. Reads(Escaping(x, found), <<b>>, Open(Append(x, b), found))
    <3>1. Read(Escaping(x, found), b) = Open(Append(x, b), found)
      BY <1>1, ReadOne
    <3> QED
      BY <3>1, ReadsSymbol
  <2> QED
    BY <1>2, <1>3, <2>1, <2>2, ConcatProperties, ReadsConcat
<1>5. CASE b = "newline"
  <2>1. Escape(b) = <<"backslash">> \o <<"n">>
    BY <1>5 DEF Escape
  <2>2. Reads(Escaping(x, found), <<"n">>, Open(Append(x, b), found))
    <3>1. Read(Escaping(x, found), "n") = Open(Append(x, b), found)
      BY <1>5, ReadOne
    <3> QED
      BY <3>1, ReadsSymbol
  <2> QED
    BY <1>2, <1>3, <2>1, <2>2, ConcatProperties, ReadsConcat
<1>6. CASE b \notin {"quote", "backslash", "newline"}
  <2>1. Escape(b) = <<b>>
    BY <1>6 DEF Escape
  <2>2. Read(Open(x, found), b) = Open(Append(x, b), found)
    BY <1>6, ReadOne
  <2> QED
    BY <1>3, <2>1, <2>2, ReadsSymbol
<1> QED
  BY <1>4, <1>5, <1>6

(* A field is one string of the document. *)
LEMMA ReadsEscaped ==
  ASSUME NEW bytes \in Seq(Byte), NEW x, NEW found
  PROVE  ReadsPieces(Closed(x, found), Escaped(bytes), Closed(bytes, Append(found, bytes)))
<1> DEFINE n == Len(bytes)
           piece(i) == [symbols |-> Escape(bytes[i]), size |-> Len(Escape(bytes[i]))]
           middle == [i \in 1..n |-> piece(i)]
           upTo(k) == SubSeq(middle, 1, k)
           read(k) == SubSeq(bytes, 1, k)
           T == {k \in Nat : k <= n =>
                   ReadsPieces(Open(<<>>, found), upTo(k), Open(read(k), found))}
<1>1. n \in Nat /\ \A i \in 1..n : bytes[i] \in Byte
  BY LenProperties, ElementOfSeq
<1>2. ASSUME NEW i \in 1..n
      PROVE  piece(i) \in Piece /\ piece(i).symbols = Escape(bytes[i])
  <2> DEFINE b == bytes[i]
             e == Escape(b)
  <2>1. e \in Seq(Symbol)
    BY <1>1, ReadsByte
  <2>2. Len(e) \in Nat
    BY <2>1, LenProperties
  <2> HIDE DEF e
  <2> QED
    BY <2>1, <2>2 DEF Piece, e
<1> HIDE DEF piece
<1>3. middle \in Seq(Piece) /\ Len(middle) = n /\ \A i \in 1..n : middle[i] = piece(i)
  BY <1>1, <1>2
<1> HIDE DEF middle
<1>4. \A k \in 0..n : upTo(k) \in Seq(Piece)
  BY <1>1, <1>3, ElementOfSeq, SubSeqProperties
<1>5. 0 \in T
  <2>1. upTo(0) = <<>> /\ read(0) = <<>>
    BY SubSeqEmpty
  <2>2. Text(<<>>) = <<>> /\ upTo(0) \in Seq(Piece)
    BY <1>1, <1>4, TextEmpty
  <2> HIDE DEF upTo, read
  <2>3. ReadsPieces(Open(<<>>, found), upTo(0), Open(read(0), found))
    BY <2>1, <2>2, ReadsNothing DEF ReadsPieces
  <2> QED
    BY <2>3
<1>6. ASSUME NEW k \in Nat, k \in T PROVE k + 1 \in T
  <2> SUFFICES ASSUME k + 1 <= n
               PROVE  ReadsPieces(Open(<<>>, found), upTo(k + 1), Open(read(k + 1), found))
    OBVIOUS
  <2> DEFINE p == piece(k + 1)
             b == bytes[k + 1]
  <2>1. k \in 0..n /\ k + 1 \in 1..n
    BY <1>1
  <2>2. upTo(k + 1) = upTo(k) \o <<p>>
    BY <1>1, <1>3, <2>1
  <2>3. read(k + 1) = Append(read(k), b)
    BY <1>1, <2>1
  <2>4. p \in Piece /\ p.symbols = Escape(b) /\ b \in Byte
    BY <1>1, <1>2, <2>1
  <2>5. ReadsPieces(Open(<<>>, found), upTo(k), Open(read(k), found))
    BY <1>6, <2>1
  <2> HIDE DEF upTo, read, T, p, b
  <2>6. Reads(Open(read(k), found), p.symbols, Open(Append(read(k), b), found))
    BY <2>4, ReadsByte
  <2>7. ReadsPieces(Open(read(k), found), <<p>>, Open(read(k + 1), found))
    BY <2>3, <2>4, <2>6, ReadsPiece
  <2> QED
    BY <2>2, <2>5, <2>7, ReadsPiecesConcat
<1> HIDE DEF T
<1>7. n \in T
  BY <1>1, <1>5, <1>6, Induct
<1>8. upTo(n) = middle /\ read(n) = bytes
  BY <1>1, <1>3
<1> HIDE DEF upTo, read
<1>9. ReadsPieces(Open(<<>>, found), middle, Open(bytes, found))
  BY <1>1, <1>7, <1>8 DEF T
<1>10. Quote \in Piece /\ Quote.symbols = <<"quote">>
  BY FixedParts DEF Quote, Fixed
<1>11. ReadsPieces(Closed(x, found), <<Quote>>, Open(<<>>, found))
  <2>1. Reads(Closed(x, found), <<"quote">>, Open(<<>>, found))
    BY ReadOne, ReadsSymbol
  <2> HIDE DEF Quote
  <2> QED
    BY <1>10, <2>1, ReadsPiece
<1>12. ReadsPieces(Open(bytes, found), <<Quote>>, Closed(bytes, Append(found, bytes)))
  <2>1. Read(Open(bytes, found), "quote") = Closed(bytes, Append(found, bytes))
    BY ReadOne
  <2>2. Reads(Open(bytes, found), <<"quote">>, Closed(bytes, Append(found, bytes)))
    BY <2>1, ReadsSymbol
  <2> HIDE DEF Quote
  <2> QED
    BY <1>10, <2>2, ReadsPiece
<1>13. Escaped(bytes) = <<Quote>> \o middle \o <<Quote>>
  BY DEF Escaped, middle, piece
<1>14. ReadsPieces(Closed(x, found), <<Quote>> \o middle, Open(bytes, found))
  BY <1>9, <1>11, ReadsPiecesConcat
<1> QED
  BY <1>12, <1>13, <1>14, ReadsPiecesConcat

(* The strings of a log. *)
Strings(entry) == <<entry.text["level"], entry.text["source"], entry.text["message"]>>

(* The reader of an item finds the three strings of its log.               *)
LEMMA ReadsItem ==
  ASSUME NEW entry \in Entry, NEW x, NEW found \in Seq(Seq(Byte))
  PROVE  \E y : ReadsPieces(Closed(x, found), ItemPieces(entry),
                            Closed(y, found \o Strings(entry)))
<1>1. 15 + Digits(entry.id) \in Nat
  <2>1. entry.id \in Nat
    BY DEF Entry
  <2>2. Digits(entry.id) \in Nat
    BY <2>1, DigitsType
  <2> QED
    BY <2>2
<1> DEFINE a == entry.text["level"]
           b == entry.text["source"]
           c == entry.text["message"]
           f1 == Append(found, a)
           f2 == Append(f1, b)
           f3 == Append(f2, c)
           p1 == <<Fixed("id", 15 + Digits(entry.id))>>
           p2 == <<Fixed("source", 10)>>
           p3 == <<Fixed("message", 11)>>
           p4 == <<Fixed("suffix", 32)>>
<1>2. a \in Seq(Byte) /\ b \in Seq(Byte) /\ c \in Seq(Byte)
  BY DEF Entry, Fields
<1>3. /\ \A y, f : ReadsPieces(Closed(y, f), p1, Closed(y, f))
      /\ \A y, f : ReadsPieces(Closed(y, f), p2, Closed(y, f))
      /\ \A y, f : ReadsPieces(Closed(y, f), p3, Closed(y, f))
      /\ \A y, f : ReadsPieces(Closed(y, f), p4, Closed(y, f))
  BY <1>1, FixedParts, ReadsFixed
<1>4. ItemPieces(entry) = p1 \o Escaped(a) \o p2 \o Escaped(b) \o p3 \o Escaped(c) \o p4
  BY DEF ItemPieces
<1>5. f3 = found \o Strings(entry)
  <2> HIDE DEF a, b, c
  <2>1. found \o <<a, b, c>> = Append(Append(Append(found, a), b), c)
    BY <1>2
  <2> QED
    BY <2>1 DEF Strings, a, b, c
<1> HIDE DEF a, b, c, p1, p2, p3, p4, f1, f2, f3
<1>6. ReadsPieces(Closed(x, found), Escaped(a), Closed(a, f1))
  BY <1>2, ReadsEscaped DEF f1
<1>7. ReadsPieces(Closed(a, f1), Escaped(b), Closed(b, f2))
  BY <1>2, ReadsEscaped DEF f2
<1>8. ReadsPieces(Closed(b, f2), Escaped(c), Closed(c, f3))
  BY <1>2, ReadsEscaped DEF f3
<1>9. ReadsPieces(Closed(x, found), p1 \o Escaped(a), Closed(a, f1))
  BY <1>3, <1>6, ReadsPiecesConcat
<1>10. ReadsPieces(Closed(x, found), p1 \o Escaped(a) \o p2, Closed(a, f1))
  BY <1>3, <1>9, ReadsPiecesConcat
<1>11. ReadsPieces(Closed(x, found), p1 \o Escaped(a) \o p2 \o Escaped(b), Closed(b, f2))
  BY <1>7, <1>10, ReadsPiecesConcat
<1>12. ReadsPieces(Closed(x, found), p1 \o Escaped(a) \o p2 \o Escaped(b) \o p3, Closed(b, f2))
  BY <1>3, <1>11, ReadsPiecesConcat
<1>13. ReadsPieces(Closed(x, found), p1 \o Escaped(a) \o p2 \o Escaped(b) \o p3 \o Escaped(c),
                   Closed(c, f3))
  BY <1>8, <1>12, ReadsPiecesConcat
<1>14. ReadsPieces(Closed(x, found),
                   p1 \o Escaped(a) \o p2 \o Escaped(b) \o p3 \o Escaped(c) \o p4, Closed(c, f3))
  BY <1>3, <1>13, ReadsPiecesConcat
<1> QED
  BY <1>4, <1>5, <1>14

(* The strings of the logs shown, one after the other. *)
StringsUpto(k) == FlattenSeq([i \in 1..k |-> Strings(Shown[i])])

(* The strings of one log more.                                            *)
LEMMA StringsNext ==
  ASSUME pending \in Seq(Entry), maxItems \in Nat, NEW k \in Nat, k < Len(Shown)
  PROVE  /\ StringsUpto(0) = <<>>
         /\ StringsUpto(k) \in Seq(Seq(Byte))
         /\ StringsUpto(k + 1) = StringsUpto(k) \o Strings(Shown[k + 1])
<1> DEFINE s == [i \in 1..k |-> Strings(Shown[i])]
           t == [i \in 1..k + 1 |-> Strings(Shown[i])]
           x == Strings(Shown[k + 1])
<1>1. Len(Shown) \in Nat /\ \A i \in 1..Len(Shown) : Shown[i] \in Entry
  BY ShownLogs, ElementOfSeq
<1>2. ASSUME NEW entry \in Entry PROVE Strings(entry) \in Seq(Seq(Byte))
  <2> DEFINE a == entry.text["level"]
             b == entry.text["source"]
             c == entry.text["message"]
  <2>1. a \in Seq(Byte) /\ b \in Seq(Byte) /\ c \in Seq(Byte)
    BY DEF Entry, Fields
  <2> HIDE DEF a, b, c
  <2>2. <<a, b, c>> \in Seq(Seq(Byte))
    BY <2>1
  <2> QED
    BY <2>2 DEF Strings, a, b, c
<1>3. \A i \in 1..k + 1 : Strings(Shown[i]) \in Seq(Seq(Byte))
  BY <1>1, <1>2
<1>4. s \in Seq(Seq(Seq(Byte))) /\ x \in Seq(Seq(Byte)) /\ Len(s) = k
  <2> HIDE DEF Strings
  <2> QED
    BY <1>3
<1>5. t = Append(s, x)
  <2> DEFINE u == Append(s, x)
  <2>1. u \in Seq(Seq(Seq(Byte))) /\ Len(u) = k + 1 /\ u[k + 1] = x
        /\ \A i \in 1..k : u[i] = s[i]
    BY <1>4, AppendProperties
  <2>2. u = [i \in 1..k + 1 |-> u[i]]
    BY <2>1, LenProperties
  <2>3. ASSUME NEW i \in 1..k + 1 PROVE u[i] = Strings(Shown[i])
    <3>1. CASE i = k + 1
      BY <2>1, <3>1
    <3>2. CASE i # k + 1
      <4>1. i \in 1..k
        BY <3>2
      <4> HIDE DEF u
      <4> QED
        BY <2>1, <4>1
    <3> QED
      BY <3>1, <3>2
  <2> HIDE DEF u
  <2>4. u = t
    BY <2>2, <2>3
  <2> QED
    BY <2>4 DEF u
<1> HIDE DEF s, t, x
<1>6. FlattenSeq(s) \in Seq(Seq(Byte)) /\ FlattenSeq(t) = FlattenSeq(s) \o x
  BY <1>4, <1>5, FlattenAppend
<1>7. StringsUpto(0) = <<>>
  <2>1. [i \in 1..0 |-> Strings(Shown[i])] = <<>>
    OBVIOUS
  <2> QED
    BY <2>1 DEF StringsUpto, FlattenSeq
<1> QED
  BY <1>6, <1>7 DEF StringsUpto, s, t, x

(* Everything in the document, up to its k-th item. *)
LEMMA ReadsUpto ==
  ASSUME pending \in Seq(Entry), maxItems \in Nat
  PROVE  \A k \in 0..Len(Shown) :
           \E y : ReadsPieces(Closed(<<>>, <<>>), Upto(k), Closed(y, StringsUpto(k)))
<1> DEFINE m == Len(Shown)
           Done(k) == \E y : ReadsPieces(Closed(<<>>, <<>>), Upto(k), Closed(y, StringsUpto(k)))
           T == {k \in Nat : k <= m => Done(k)}
<1>1. m \in Nat /\ \A i \in 1..m : Shown[i] \in Entry
  BY ShownLogs, ElementOfSeq
<1>2. 0 \in T
  <2>1. Upto(0) = <<Header>>
    BY UptoEmpty
  <2>2. Header \in Piece
    BY HeaderType
  <2>3. StringsUpto(0) = <<>>
    <3>1. [i \in 1..0 |-> Strings(Shown[i])] = <<>>
      OBVIOUS
    <3> QED
      BY <3>1 DEF StringsUpto, FlattenSeq
  <2>4. ReadsPieces(Closed(<<>>, <<>>), <<Header>>, Closed(<<>>, <<>>))
    BY <2>2, ReadsFixed DEF Header
  <2>5. Done(0)
    BY <2>1, <2>3, <2>4
  <2> HIDE DEF Done
  <2> QED
    BY <2>5
<1>3. ASSUME NEW k \in Nat, k \in T PROVE k + 1 \in T
  <2> SUFFICES ASSUME k + 1 <= m PROVE Done(k + 1)
    OBVIOUS
  <2> DEFINE entry == Shown[k + 1]
             found == StringsUpto(k)
             comma == IF k + 1 > 1 THEN <<Comma>> ELSE <<>>
  <2>1. k < m /\ k + 1 \in 1..m /\ k + 1 \in Nat
    BY <1>1
  <2>2. Done(k)
    BY <1>3, <2>1
  <2>3. PICK x : ReadsPieces(Closed(<<>>, <<>>), Upto(k), Closed(x, found))
    BY <2>2
  <2> HIDE DEF T
  <2>4. found \in Seq(Seq(Byte)) /\ StringsUpto(k + 1) = found \o Strings(entry)
    BY <2>1, StringsNext
  <2>5. entry \in Entry
    BY <1>1, <2>1
  <2>6. ReadsPieces(Closed(x, found), comma, Closed(x, found))
    <3>1. ReadsPieces(Closed(x, found), <<Comma>>, Closed(x, found))
      BY FixedParts, ReadsFixed DEF Comma
    <3>2. ReadsPieces(Closed(x, found), <<>>, Closed(x, found))
      <4>1. <<>> \in Seq(Piece)
        BY EmptySeq
      <4> QED
        BY <4>1, TextEmpty, ReadsNothing DEF ReadsPieces
    <3> QED
      BY <3>1, <3>2
  <2>7. Upto(k + 1) = Upto(k) \o (comma \o ItemPieces(entry))
    <3>1. Item(k + 1) = comma \o ItemPieces(entry)
      BY DEF Item
    <3> QED
      BY <2>1, <3>1, UptoNext
  <2> HIDE DEF entry, found, comma
  <2>8. PICK y : ReadsPieces(Closed(x, found), ItemPieces(entry),
                             Closed(y, found \o Strings(entry)))
    BY <2>4, <2>5, ReadsItem
  <2>9. ReadsPieces(Closed(x, found), comma \o ItemPieces(entry),
                    Closed(y, found \o Strings(entry)))
    BY <2>6, <2>8, ReadsPiecesConcat
  <2>10. ReadsPieces(Closed(<<>>, <<>>), Upto(k + 1), Closed(y, StringsUpto(k + 1)))
    BY <2>3, <2>4, <2>7, <2>9, ReadsPiecesConcat
  <2> QED
    BY <2>10
<1> HIDE DEF T, Done
<1>4. \A k \in Nat : k \in T
  BY <1>2, <1>3, Induct
<1>5. \A k \in 0..m : Done(k)
  BY <1>1, <1>4 DEF T
<1> QED
  BY <1>5 DEF Done

(* The reader of the document ends outside of a string, with the strings of*)
(* the logs shown.                                                         *)
LEMMA DocumentReadsBack ==
  ASSUME pending \in Seq(Entry), maxItems \in Nat
  PROVE  LET r == ReadStrings(Text(Document))
         IN  ~r.open /\ r.found = StringsUpto(Len(Shown))
<1> DEFINE m == Len(Shown)
           start == Closed(<<>>, <<>>)
<1>1. m \in Nat
  BY ShownLogs
<1>2. PICK y : ReadsPieces(start, Upto(m), Closed(y, StringsUpto(m)))
  BY <1>1, ReadsUpto
<1> DEFINE q == Closed(y, StringsUpto(m))
<1>3. ReadsPieces(q, <<Footer(m)>>, q)
  <2>1. Footer(m) \in Piece
    BY <1>1, FooterType
  <2> QED
    BY <2>1, ReadsFixed DEF Footer
<1>4. Document = Upto(m) \o <<Footer(m)>>
  BY DocumentIs
<1> HIDE DEF q, start
<1>5. ReadsPieces(start, Document, q)
  BY <1>2, <1>3, <1>4, ReadsPiecesConcat DEF q
<1>6. Document \in Seq(Piece) /\ Reads(start, Text(Document), q)
  BY <1>5 DEF ReadsPieces
<1> DEFINE s == Text(Document)
<1>7. s \in Seq(Symbol)
  BY <1>6, TextConcat
<1> HIDE DEF s
<1>8. ReadStrings(s) = q
  BY <1>6, <1>7, ReadsValue DEF s, start
<1>9. ~q.open /\ q.found = StringsUpto(m)
  BY DEF q, Closed
<1> QED
  BY <1>8, <1>9 DEF s

(* json.loads gets back from a whole answer of append_escaped every field  *)
(* of every log shown, in order, for any texts.                            *)
THEOREM TextsReadBack == Spec => []ReadsBack
<1>1. JsonInv => ReadsBack
  <2> SUFFICES ASSUME JsonInv, at = "whole"
               PROVE  LET r == ReadStrings(written)
                      IN  ~r.open /\ r.found = StringsUpto(Len(Shown))
    BY DEF ReadsBack, StringsUpto, Strings
  <2>1. written = Text(Document)
    BY DEF JsonInv, WholeOrError
  <2>2. pending \in Seq(Entry) /\ maxItems \in Nat
    BY Arguments DEF JsonInv, LogsKept
  <2> QED
    BY <2>1, <2>2, DocumentReadsBack
<1> QED
  BY <1>1, Invariant, PTL

=============================================================================
