------------------------ MODULE BufferClients_proofs ------------------------
(***************************************************************************)
(* The buffer under any number of clients that hold entries at the same    *)
(* time: who owns an entry, and in which order returned entries come out,  *)
(* for every capacity and every bound on logs, errors and held entries.    *)
(***************************************************************************)
EXTENDS BufferClients, BufferEngine_proofs, FiniteSetTheorems, SequenceTheorems

(* The entries of a list, and that none is in it twice. *)
Elements(q) == {q[i] : i \in DOMAIN q}
Once(q) == \A i, j \in DOMAIN q : q[i] = q[j] => i = j

(* The order ReturnedGoFirst asks for, of any list and set of returned entries. *)
Ordered(q, back) ==
  \A i, j \in DOMAIN q :
    i < j => /\ q[j] \in back => q[i] \in back
             /\ q[i] \notin back => q[i] < q[j]

(* Every accepted log is in the list, held or freed, and in only one of    *)
(* these; an entry that was given back had been accepted.                  *)
Shared ==
  /\ nextLogId \in Nat \ {0}
  /\ Elements(queue) \cup held \cup freed = 1..nextLogId - 1
  /\ Elements(queue) \cap held = {}
  /\ Elements(queue) \cap freed = {}
  /\ held \cap freed = {}
  /\ returned \subseteq 1..nextLogId - 1

(* The inductive invariant. *)
ClientInv ==
  /\ BufferTypeOK
  /\ up => Shared
  /\ ~up => queue = <<>> /\ held = {}
  /\ Once(queue)
  /\ Ordered(queue, returned)

(* An entry that is new to the list and put behind it. *)
LEMMA PutBehind ==
  ASSUME NEW q \in Seq(Nat), NEW e \in Nat, NEW back,
         Once(q), Ordered(q, back),
         e \notin back, \A x \in Elements(q) : x < e
  PROVE  /\ Elements(Append(q, e)) = Elements(q) \cup {e}
         /\ Once(Append(q, e))
         /\ Ordered(Append(q, e), back)
<1> DEFINE r == Append(q, e)
<1>1. /\ Len(q) \in Nat /\ DOMAIN q = 1..Len(q) /\ DOMAIN r = 1..Len(q) + 1
      /\ \A i \in 1..Len(q) : r[i] = q[i]
      /\ r[Len(q) + 1] = e
  BY AppendProperties, LenProperties
<1>2. \A i \in 1..Len(q) : r[i] \in Nat /\ r[i] < e
  BY <1>1 DEF Elements
<1> HIDE DEF r
<1>3. Elements(r) = Elements(q) \cup {e}
  <2>1. ASSUME NEW i \in DOMAIN r PROVE r[i] = e \/ (i \in DOMAIN q /\ r[i] = q[i])
    <3>1. CASE i \in 1..Len(q)
      BY <1>1, <3>1
    <3>2. CASE i = Len(q) + 1
      BY <1>1, <3>2
    <3> QED
      BY <1>1, <3>1, <3>2
  <2>2. Elements(r) \subseteq Elements(q) \cup {e}
    BY <2>1 DEF Elements
  <2>3. DOMAIN q \subseteq DOMAIN r /\ Len(q) + 1 \in DOMAIN r
    BY <1>1
  <2>4. Elements(q) \subseteq Elements(r)
    BY <1>1, <2>3 DEF Elements
  <2>5. e \in Elements(r)
    BY <1>1, <2>3 DEF Elements
  <2> QED
    BY <2>2, <2>4, <2>5
<1>4. ASSUME NEW i \in DOMAIN r, NEW j \in DOMAIN r, r[i] = r[j]
      PROVE  i = j
  BY <1>1, <1>2, <1>4 DEF Once
<1>5. ASSUME NEW i \in DOMAIN r, NEW j \in DOMAIN r, i < j
      PROVE  /\ r[j] \in back => r[i] \in back
             /\ r[i] \notin back => r[i] < r[j]
  <2>1. i \in 1..Len(q)
    BY <1>1, <1>5
  <2>2. CASE j \in 1..Len(q)
    BY <1>1, <1>5, <2>1, <2>2 DEF Ordered
  <2>3. CASE j = Len(q) + 1
    BY <1>1, <1>2, <2>1, <2>3
  <2> QED
    BY <1>1, <2>2, <2>3
<1> QED
  BY <1>3, <1>4, <1>5 DEF r, Once, Ordered

(* An entry that is new to the list and put in front of it. *)
LEMMA PutInFront ==
  ASSUME NEW q \in Seq(Nat), NEW e \in Nat, NEW back,
         Once(q), Ordered(q, back), e \notin Elements(q)
  PROVE  /\ Elements(<<e>> \o q) = Elements(q) \cup {e}
         /\ Once(<<e>> \o q)
         /\ Ordered(<<e>> \o q, back \cup {e})
<1> DEFINE r == <<e>> \o q
<1>1. /\ Len(q) \in Nat /\ DOMAIN q = 1..Len(q) /\ DOMAIN r = 1..Len(q) + 1
      /\ \A i \in 2..Len(q) + 1 : r[i] = q[i - 1]
      /\ r[1] = e
  <2>1. <<e>> \in Seq(Nat) /\ Len(<<e>>) = 1 /\ <<e>>[1] = e
    OBVIOUS
  <2>2. /\ r \in Seq(Nat) /\ Len(r) = 1 + Len(q)
        /\ \A i \in 1..1 + Len(q) : r[i] = IF i <= 1 THEN e ELSE q[i - 1]
    BY <2>1, ConcatProperties
  <2> HIDE DEF r
  <2> QED
    BY <2>2, LenProperties
<1> HIDE DEF r
<1>2. \A i \in 1..Len(q) : r[i + 1] = q[i]
  BY <1>1
<1>3. ASSUME NEW i \in 2..Len(q) + 1 PROVE i - 1 \in 1..Len(q) /\ r[i] # e
  <2>1. i - 1 \in 1..Len(q) /\ r[i] = q[i - 1]
    BY <1>1
  <2> QED
    BY <1>1, <2>1 DEF Elements
<1>4. Elements(r) = Elements(q) \cup {e}
  <2>1. Elements(r) \subseteq Elements(q) \cup {e}
    <3>1. ASSUME NEW i \in DOMAIN r PROVE r[i] = e \/ r[i] \in Elements(q)
      <4>1. CASE i = 1
        BY <1>1, <4>1
      <4>2. CASE i \in 2..Len(q) + 1
        <5>1. i - 1 \in DOMAIN q /\ r[i] = q[i - 1]
          BY <1>1, <1>3, <4>2
        <5> QED
          BY <5>1 DEF Elements
      <4> QED
        BY <1>1, <4>1, <4>2
    <3> QED
      BY <3>1 DEF Elements
  <2>2. e \in Elements(r)
    BY <1>1 DEF Elements
  <2>3. ASSUME NEW i \in 1..Len(q) PROVE q[i] \in Elements(r)
    <3>1. i + 1 \in DOMAIN r /\ r[i + 1] = q[i]
      BY <1>1, <1>2
    <3> QED
      BY <3>1 DEF Elements
  <2> QED
    BY <1>1, <2>1, <2>2, <2>3 DEF Elements
<1>5. ASSUME NEW i \in DOMAIN r, NEW j \in DOMAIN r, r[i] = r[j]
      PROVE  i = j
  <2>1. CASE i = 1 \/ j = 1
    BY <1>1, <1>3, <1>5, <2>1
  <2>2. CASE i \in 2..Len(q) + 1 /\ j \in 2..Len(q) + 1
    <3>1. q[i - 1] = q[j - 1]
      BY <1>1, <1>5, <2>2
    <3>2. i - 1 = j - 1
      BY <1>1, <1>3, <2>2, <3>1 DEF Once
    <3> QED
      BY <2>2, <3>2
  <2> QED
    BY <1>1, <2>1, <2>2
<1>6. ASSUME NEW i \in DOMAIN r, NEW j \in DOMAIN r, i < j
      PROVE  /\ r[j] \in back \cup {e} => r[i] \in back \cup {e}
             /\ r[i] \notin back \cup {e} => r[i] < r[j]
  <2>1. j \in 2..Len(q) + 1
    BY <1>1, <1>6
  <2>2. CASE i = 1
    BY <1>1, <2>2
  <2>3. CASE i \in 2..Len(q) + 1
    <3>1. i - 1 < j - 1 /\ i - 1 \in DOMAIN q /\ j - 1 \in DOMAIN q
      BY <1>1, <1>3, <1>6, <2>1, <2>3
    <3>2. /\ q[j - 1] \in back => q[i - 1] \in back
          /\ q[i - 1] \notin back => q[i - 1] < q[j - 1]
      BY <3>1 DEF Ordered
    <3> QED
      BY <1>1, <1>3, <2>1, <2>3, <3>2
  <2> QED
    BY <1>1, <2>2, <2>3
<1> QED
  BY <1>4, <1>5, <1>6 DEF r, Once, Ordered

(* The first entry leaves the list. *)
LEMMA TakeFirst ==
  ASSUME NEW q \in Seq(Nat), NEW back, q # <<>>, Once(q), Ordered(q, back)
  PROVE  /\ Elements(q) = Elements(Tail(q)) \cup {Head(q)}
         /\ Head(q) \notin Elements(Tail(q))
         /\ Once(Tail(q))
         /\ Ordered(Tail(q), back)
<1> DEFINE r == Tail(q)
<1>1. /\ Len(q) \in Nat /\ Len(q) > 0
      /\ DOMAIN q = 1..Len(q) /\ DOMAIN r = 1..Len(q) - 1
      /\ \A i \in 1..Len(q) - 1 : r[i] = q[i + 1]
      /\ Head(q) = q[1]
  BY HeadTailProperties, LenProperties, EmptySeq
<1>2. \A i \in 1..Len(q) - 1 : i + 1 \in DOMAIN q /\ i + 1 # 1
  BY <1>1
<1>3. \A i \in 2..Len(q) : i - 1 \in DOMAIN r /\ r[i - 1] = q[i]
  BY <1>1
<1> HIDE DEF r
<1>4. Elements(q) = Elements(r) \cup {Head(q)}
  <2>1. ASSUME NEW i \in DOMAIN q PROVE q[i] \in Elements(r) \cup {Head(q)}
    <3>1. CASE i = 1
      BY <1>1, <3>1
    <3>2. CASE i \in 2..Len(q)
      BY <1>3, <3>2 DEF Elements
    <3> QED
      BY <1>1, <3>1, <3>2
  <2>2. Elements(r) \subseteq Elements(q)
    BY <1>1, <1>2 DEF Elements
  <2>3. Head(q) \in Elements(q)
    BY <1>1 DEF Elements
  <2> QED
    BY <2>1, <2>2, <2>3 DEF Elements
<1>5. Head(q) \notin Elements(r)
  <2>1. ASSUME NEW i \in DOMAIN r PROVE r[i] # Head(q)
    <3>1. i + 1 \in DOMAIN q /\ i + 1 # 1 /\ 1 \in DOMAIN q
      BY <1>1, <1>2
    <3>2. r[i] = q[i + 1] /\ q[i + 1] # q[1]
      BY <1>1, <3>1 DEF Once
    <3> QED
      BY <1>1, <3>2
  <2> QED
    BY <2>1 DEF Elements
<1>6. ASSUME NEW i \in DOMAIN r, NEW j \in DOMAIN r, r[i] = r[j]
      PROVE  i = j
  <2>1. i + 1 = j + 1
    BY <1>1, <1>2, <1>6 DEF Once
  <2> QED
    BY <1>1, <2>1
<1>7. ASSUME NEW i \in DOMAIN r, NEW j \in DOMAIN r, i < j
      PROVE  /\ r[j] \in back => r[i] \in back
             /\ r[i] \notin back => r[i] < r[j]
  <2>1. i + 1 < j + 1 /\ i + 1 \in DOMAIN q /\ j + 1 \in DOMAIN q
    BY <1>1, <1>2, <1>7
  <2> QED
    BY <1>1, <2>1 DEF Ordered
<1> QED
  BY <1>4, <1>5, <1>6, <1>7 DEF r, Once, Ordered

(* The empty list. *)
LEMMA NothingListed ==
  ASSUME NEW back
  PROVE  Elements(<<>>) = {} /\ Once(<<>>) /\ Ordered(<<>>, back)
  BY DEF Elements, Once, Ordered

(* Whatever a client does is a step of the buffer. *)
LEMMA ClientStepIsBufferStep ==
  ASSUME ClientInv, [ClientNext]_clientVars
  PROVE  [BufferStep]_bufferVars
<1>1. CASE UNCHANGED clientVars
  BY <1>1 DEF clientVars, bufferVars
<1>2. CASE Start \/ Stop \/ Put \/ PutRefused \/ Take
  BY <1>2 DEF Start, Stop, Put, PutRefused, Take, BufferStep
<1>3. ASSUME NEW e \in held, GiveBack(e) \/ GiveBackRefused(e) \/ Consume(e)
      PROVE  BufferStep
  <2>1. up
    BY <1>3 DEF GiveBack, GiveBackRefused, Consume, RequeueFront, RequeueRefused,
                MarkProcessed, MarkError
  <2>2. e \in Nat
    BY <1>3, <2>1 DEF ClientInv, Shared
  <2> QED
    BY <1>3, <2>2 DEF GiveBack, GiveBackRefused, Consume, BufferStep
<1> QED
  BY <1>1, <1>2, <1>3 DEF ClientNext

(* Every step keeps the inductive invariant. *)
LEMMA NextOwners ==
  ASSUME ClientInv, [ClientNext]_clientVars
  PROVE  ClientInv'
<1>0. BufferTypeOK'
  BY ClientStepIsBufferStep, BufferStepTypes DEF ClientInv
<1> DEFINE Rest == /\ up => Shared
                   /\ ~up => queue = <<>> /\ held = {}
                   /\ Once(queue)
                   /\ Ordered(queue, returned)
<1> SUFFICES Rest'
  BY <1>0 DEF ClientInv
<1>q. queue \in Seq(Nat) /\ nextLogId \in Nat
  BY DEF ClientInv, BufferTypeOK
<1>1. CASE UNCHANGED clientVars
  BY <1>1 DEF ClientInv, Shared, clientVars, bufferVars
<1>2. CASE Start
  <2>1. /\ up' /\ queue' = <<>> /\ nextLogId' = 1
        /\ held' = {} /\ freed' = {} /\ returned' = {}
    BY <1>2 DEF Start, BufferInit
  <2>2. Elements(queue') = {} /\ Once(queue') /\ Ordered(queue', returned')
    BY <2>1, NothingListed
  <2> QED
    BY <2>1, <2>2 DEF Shared
<1>3. CASE Stop
  <2>1. ~up' /\ queue' = <<>> /\ held' = {}
    BY <1>3 DEF Stop, BufferShutdown
  <2>2. Once(queue') /\ Ordered(queue', returned')
    BY <2>1, NothingListed
  <2> QED
    BY <2>1, <2>2
<1>4. CASE Put
  <2>1. /\ up /\ up' /\ queue' = Append(queue, nextLogId)
        /\ nextLogId' = nextLogId + 1
        /\ held' = held /\ freed' = freed /\ returned' = returned
    BY <1>4 DEF Put, Enqueue
  <2>2. Shared /\ Once(queue) /\ Ordered(queue, returned)
    BY <2>1 DEF ClientInv
  <2>3. nextLogId \notin returned /\ \A x \in Elements(queue) : x < nextLogId
    BY <2>2 DEF Shared
  <2>4. /\ Elements(queue') = Elements(queue) \cup {nextLogId}
        /\ Once(queue') /\ Ordered(queue', returned)
    BY <1>q, <2>1, <2>2, <2>3, PutBehind
  <2>5. /\ 1..nextLogId' - 1 = (1..nextLogId - 1) \cup {nextLogId}
        /\ nextLogId \notin 1..nextLogId - 1
    BY <2>1, <2>2 DEF Shared
  <2>6. nextLogId' \in Nat \ {0}
    BY <1>q, <2>1
  <2>7. Shared'
    BY <2>1, <2>2, <2>4, <2>5, <2>6, Zenon DEF Shared
  <2> QED
    BY <2>1, <2>4, <2>7
<1>5. CASE PutRefused
  BY <1>5 DEF PutRefused, EnqueueRefused, EnqueueInvalid, bufferVars, ClientInv, Shared
<1>6. CASE Take
  <2>1. CASE queue = <<>>
    BY <1>6, <2>1 DEF Take, Dequeue, DequeueEmpty, ClientInv, Shared
  <2>2. CASE queue # <<>>
    <3>1. /\ up /\ up' /\ queue' = Tail(queue) /\ nextLogId' = nextLogId
          /\ held' = held \cup {Head(queue)} /\ freed' = freed /\ returned' = returned
      BY <1>6, <2>2 DEF Take, Dequeue, DequeueEmpty
    <3>2. Shared /\ Once(queue) /\ Ordered(queue, returned)
      BY <3>1 DEF ClientInv
    <3>3. /\ Elements(queue) = Elements(queue') \cup {Head(queue)}
          /\ Head(queue) \notin Elements(queue')
          /\ Once(queue') /\ Ordered(queue', returned)
      BY <1>q, <2>2, <3>1, <3>2, TakeFirst
    <3>4. Shared'
      BY <3>1, <3>2, <3>3 DEF Shared
    <3> QED
      BY <3>1, <3>3, <3>4
  <2> QED
    BY <2>1, <2>2
<1>7. ASSUME NEW e \in held, GiveBack(e) PROVE Rest'
  <2>1. /\ up /\ up' /\ queue' = <<e>> \o queue /\ nextLogId' = nextLogId
        /\ held' = held \ {e} /\ freed' = freed /\ returned' = returned \cup {e}
    BY <1>7 DEF GiveBack, RequeueFront
  <2>2. Shared /\ Once(queue) /\ Ordered(queue, returned)
    BY <2>1 DEF ClientInv
  <2>3. e \in Nat /\ e \notin Elements(queue) /\ e \in 1..nextLogId - 1
    BY <2>2 DEF Shared
  <2>4. /\ Elements(queue') = Elements(queue) \cup {e}
        /\ Once(queue') /\ Ordered(queue', returned')
    BY <1>q, <2>1, <2>2, <2>3, PutInFront
  <2>5. Shared'
    BY <2>1, <2>2, <2>3, <2>4 DEF Shared
  <2> QED
    BY <2>1, <2>4, <2>5
<1>8. ASSUME NEW e \in held, GiveBackRefused(e) \/ Consume(e) PROVE Rest'
  <2>1. /\ up /\ up' /\ queue' = queue /\ nextLogId' = nextLogId
        /\ held' = held \ {e} /\ freed' = freed \cup {e} /\ returned' = returned
    BY <1>8 DEF GiveBackRefused, RequeueRefused, Consume, MarkProcessed, MarkError, bufferVars
  <2>2. Shared /\ Once(queue) /\ Ordered(queue, returned)
    BY <2>1 DEF ClientInv
  <2>3. Shared'
    BY <2>1, <2>2 DEF Shared
  <2> QED
    BY <2>1, <2>2, <2>3
<1> QED
  BY <1>1, <1>2, <1>3, <1>4, <1>5, <1>6, <1>7, <1>8 DEF ClientNext

(* The invariant holds from the start. *)
LEMMA ClientsStart == ASSUME ClientInit PROVE ClientInv
<1>1. ~up /\ queue = <<>> /\ held = {} /\ BufferTypeOK
  BY EmptyTypes DEF ClientInit, BufferZeroed, BufferTypeOK
<1> QED
  BY <1>1, NothingListed DEF ClientInv

(* Who owns each entry is known at every moment of every execution. *)
LEMMA ClientsInvariant == ClientSpec => []ClientInv
<1>1. ClientInv /\ [ClientNext]_clientVars => ClientInv'
  BY NextOwners
<1> QED
  BY ClientsStart, <1>1, PTL DEF ClientSpec

(* A list without repetitions has as many entries as places. *)
LEMMA AsManyAsPlaces ==
  ASSUME NEW q \in Seq(Nat), Once(q)
  PROVE  Cardinality(Elements(q)) = Len(q)
<1> DEFINE D == 1..Len(q)
           f == [i \in D |-> q[i]]
<1>1. Len(q) \in Nat /\ DOMAIN q = D
  BY LenProperties
<1>2. IsFiniteSet(D) /\ Cardinality(D) = Len(q)
  <2>1. ASSUME NEW k \in Nat PROVE IsFiniteSet(1..k) /\ Cardinality(1..k) = k
    BY FS_Interval
  <2> QED
    BY <1>1, <2>1
<1>3. f \in Bijection(D, Elements(q))
  <2>1. f \in [D -> Elements(q)]
    BY <1>1 DEF Elements
  <2>2. \A i, j \in D : f[i] = f[j] => i = j
    BY <1>1 DEF Once
  <2>3. \A x \in Elements(q) : \E i \in D : f[i] = x
    BY <1>1 DEF Elements
  <2> QED
    BY <2>1, <2>2, <2>3 DEF Bijection, Injection, Surjection, IsInjective
<1>4. ExistsBijection(D, Elements(q))
  BY <1>3 DEF ExistsBijection
<1> QED
  BY <1>2, <1>4, FS_Bijection

(* However many clients hold entries, and in whatever order they dequeue,  *)
(* give back and free, every accepted log has exactly one owner.           *)
THEOREM OneOwner == ClientSpec => []SingleOwner
<1>1. ClientInv => SingleOwner
  BY AsManyAsPlaces DEF ClientInv, BufferTypeOK, Shared, SingleOwner, Queued, Elements
<1> QED
  BY ClientsInvariant, <1>1, PTL

(* Entries that were given back come out before those that never left, and *)
(* these in the order of acceptance.                                       *)
THEOREM ReturnedFirst == ClientSpec => []ReturnedGoFirst
<1>1. ClientInv => ReturnedGoFirst
  BY DEF ClientInv, Ordered, ReturnedGoFirst
<1> QED
  BY ClientsInvariant, <1>1, PTL

(* The buffer stays typed under any clients. *)
THEOREM ClientTypes == ClientSpec => []BufferTypeOK
<1>1. ClientInv => BufferTypeOK
  BY DEF ClientInv
<1> QED
  BY ClientsInvariant, <1>1, PTL

(* The cached depth and the capacity hold under any clients, not only      *)
(* under the runtime and its lock.                                         *)
THEOREM ClientsBounded == ClientSpec => []BufferBounded
<1>1. ClientInit => BufferBounded
  BY CapacityAssumption, EmptyTypes DEF ClientInit, BufferZeroed, BufferBounded, ZeroMetrics
<1>2. ClientInv /\ BufferBounded /\ [ClientNext]_clientVars => BufferBounded'
  BY ClientStepIsBufferStep, BufferStepBounded DEF ClientInv
<1> QED
  BY ClientsInvariant, <1>1, <1>2, PTL DEF ClientSpec

=============================================================================
