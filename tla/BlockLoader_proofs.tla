------------------------- MODULE BlockLoader_proofs -------------------------
(***************************************************************************)
(* Proofs about BlockLoader for any number of slots, generators, blocks    *)
(* and faults, on the host and on the device path.  Who holds a slot       *)
(* (SlotInv) and where a generator stands (IterInv) say which reads write  *)
(* into a slot and which clones still read it (ReadInv, CloneInv): from    *)
(* that, every delivery is the block asked for.                            *)
(***************************************************************************)
EXTENDS BlockLoader, FiniteSetTheorems, SequenceTheorems, TLAPS

(* q has x; q has nothing twice; slot s is with generator i. *)
In(q, x) == \E n \in 1..Len(q) : q[n] = x
Once(q)  == \A a, b \in 1..Len(q) : q[a] = q[b] => a = b

HeldBy(i, s) == In(pending[i], s) \/ cur[i] = s

(* Every slot is in the free queue or with one generator, once. *)
SlotInv ==
    /\ Once(free)
    /\ \A i \in Iters : Once(pending[i])
    /\ \A s \in Slots : In(free, s) \/ \E i \in Iters : HeldBy(i, s)
    /\ \A s \in Slots, i \in Iters : /\ ~(In(free, s) /\ HeldBy(i, s))
                                     /\ ~(In(pending[i], s) /\ cur[i] = s)
    /\ \A s \in Slots : \A i, m \in Iters : HeldBy(i, s) /\ HeldBy(m, s) => i = m

(* Generator i: what it holds at each stage, and how far it has come.      *)
IterOK(i) ==
    /\ pc[i] \in {"idle", "done"} => pending[i] = <<>>
    /\ cur[i] = NoSlot <=> pc[i] \in {"idle", "get", "loop", "done"}
    /\ pc[i] = "idle" => pos[i] = 0 /\ prime[i] = 0 /\ out[i] = <<>>
    /\ pc[i] \in {"get", "loop", "yielded"} => Len(out[i]) = pos[i] - Len(pending[i])
    /\ pc[i] \in {"sync", "decoded"} => Len(out[i]) = pos[i] - Len(pending[i]) - 1
    /\ pos[i] <= Len(ids[i]) /\ Len(out[i]) <= Len(ids[i])
    /\ pc[i] = "get" => pos[i] < Len(ids[i]) /\ prime[i] <= Len(ids[i]) - pos[i]
    /\ pc[i] = "sync" => prime[i] <= Len(ids[i]) - pos[i] + 1
    /\ pc[i] \in {"loop", "decoded", "yielded"} => prime[i] = 0

IterInv == \A i \in Iters : IterOK(i)

Asking == {"get", "sync", "loop", "yielded"}

(* The reads of generator i: no clone still reads their slots; while i is  *)
(* asked for blocks, the n-th pending read is for the n-th next id.        *)
ReadOK(i) ==
    \A n \in 1..Len(pending[i]) :
        /\ event[pending[i][n]] # "recorded"
        /\ read[pending[i][n]] = "ok" => raw[pending[i][n]] = target[pending[i][n]]
        /\ pc[i] \in Asking => target[pending[i][n]] = ids[i][Len(out[i]) + n]
        /\ pc[i] = "decoded" => target[pending[i][n]] = ids[i][Len(out[i]) + 1 + n]

(* What generator i has decoded stays in its slot until it is copied out.  *)
ViewOK(i) ==
    pc[i] = "decoded" =>
        /\ read[cur[i]] = "ok" /\ event[cur[i]] # "recorded"
        /\ raw[cur[i]] = ids[i][Len(out[i]) + 1]
        /\ device = "cpu" => raw[cur[i]] \notin damaged

(* A slot is read for a block.  While clones still read it its event is    *)
(* recorded, no read is under way, and it holds their delivery's block.    *)
SlotOK(s) ==
    /\ read[s] # "idle" => target[s] \in Blocks
    /\ event[s] = "recorded" <=> clone[s] # NoClone
    /\ clone[s] # NoClone =>
         /\ device = "cuda"
         /\ read[s] \notin {"submitted", "running"}
         /\ clone[s][2] \in 1..Len(out[clone[s][1]])
         /\ raw[s] = ids[clone[s][1]][clone[s][2]]

(* The deliveries of generator i. *)
OutOK(i) ==
    \A n \in 1..Len(out[i]) : /\ out[i][n] \in {ids[i][n], InFlight}
                              /\ device = "cpu" => out[i][n] \notin damaged

DataInv ==
    /\ \A i \in Iters : ReadOK(i) /\ ViewOK(i) /\ OutOK(i)
    /\ \A s \in Slots : SlotOK(s)

(* The inductive invariant. *)
IInv == TypeOK /\ SlotInv /\ IterInv /\ DataInv

(* Generators that run one at a time find free what they still have to     *)
(* submit: the whole priming loop, or the slot just put back.              *)
Active(i) == pc[i] \notin {"idle"} \cup Ended

RoomOK(i) ==
    /\ pc[i] = "get" => 1 <= Len(free) /\ prime[i] <= Len(free)
    /\ pc[i] = "sync" => prime[i] <= Len(free) + 1

SoloInv ==
    /\ \A i, m \in Iters : Active(i) /\ Active(m) => i = m
    /\ \A i \in Iters : RoomOK(i)

(***************************************************************************)
(* Queues without repetition.                                              *)
(***************************************************************************)
(* Taking the head of a queue takes one element out of it. *)
LEMMA TailIn ==
    ASSUME NEW S, NEW q \in Seq(S), q # <<>>, Once(q)
    PROVE  /\ Head(q) \in S /\ Tail(q) \in Seq(S) /\ Len(Tail(q)) = Len(q) - 1
           /\ Len(q) \in Nat
           /\ Once(Tail(q)) /\ ~In(Tail(q), Head(q))
           /\ \A x : In(q, x) <=> x = Head(q) \/ In(Tail(q), x)
<1> DEFINE t == Tail(q)
<1>1. /\ t \in Seq(S) /\ Len(t) = Len(q) - 1 /\ Len(q) \in Nat \ {0}
      /\ \A n \in 1..Len(t) : t[n] = q[n + 1]
      /\ Head(q) = q[1] /\ Head(q) \in S
  BY HeadTailProperties
<1> HIDE DEF t
<1>2. \A n \in 1..Len(t) : n + 1 \in 1..Len(q) /\ n + 1 # 1 /\ t[n] = q[n + 1]
  BY <1>1
<1>3. Once(t)
  <2> SUFFICES ASSUME NEW a \in 1..Len(t), NEW b \in 1..Len(t), t[a] = t[b] PROVE a = b
    BY DEF Once
  <2>1. a + 1 = b + 1
    BY <1>2 DEF Once
  <2> QED
    BY <2>1
<1>4. ~In(t, Head(q))
  <2>1. ASSUME NEW n \in 1..Len(t), t[n] = Head(q) PROVE FALSE
    <3>1. n + 1 = 1
      BY <1>1, <1>2, <2>1 DEF Once
    <3> QED
      BY <3>1
  <2> QED
    BY <2>1 DEF In
<1>5. ASSUME NEW x PROVE In(q, x) <=> x = Head(q) \/ In(t, x)
  <2>1. ASSUME NEW n \in 1..Len(q), q[n] = x PROVE x = Head(q) \/ In(t, x)
    <3>1. CASE n = 1
      BY <3>1, <2>1, <1>1
    <3>2. CASE n # 1
      <4>1. n - 1 \in 1..Len(t) /\ (n - 1) + 1 = n
        BY <3>2, <1>1
      <4>2. t[n - 1] = x
        BY <4>1, <1>1, <2>1
      <4> QED
        BY <4>1, <4>2 DEF In
    <3> QED
      BY <3>1, <3>2
  <2>2. In(q, Head(q))
    BY <1>1 DEF In
  <2>3. ASSUME NEW n \in 1..Len(t), t[n] = x PROVE In(q, x)
    BY <1>2, <2>3 DEF In
  <2> QED
    BY <2>1, <2>2, <2>3 DEF In
<1> QED
  BY <1>1, <1>3, <1>4, <1>5 DEF t

(* Appending a new element adds one element to a queue. *)
LEMMA AppendIn ==
    ASSUME NEW S, NEW q \in Seq(S), NEW x \in S, Once(q), ~In(q, x)
    PROVE  /\ Append(q, x) \in Seq(S) /\ Len(Append(q, x)) = Len(q) + 1 /\ Len(q) \in Nat
           /\ Once(Append(q, x))
           /\ \A y : In(Append(q, x), y) <=> y = x \/ In(q, y)
<1> DEFINE t == Append(q, x)
<1>1. /\ t \in Seq(S) /\ Len(t) = Len(q) + 1 /\ Len(q) \in Nat
      /\ \A n \in 1..Len(q) : t[n] = q[n]
      /\ t[Len(q) + 1] = x
  BY AppendProperties
<1> HIDE DEF t
<1>2. \A n \in 1..Len(t) : (n \in 1..Len(q) /\ t[n] = q[n]) \/ (n = Len(q) + 1 /\ t[n] = x)
  BY <1>1
<1>3. \A n \in 1..Len(q) : n \in 1..Len(t) /\ q[n] # x
  BY <1>1 DEF In
<1>4. Once(t)
  BY <1>2, <1>3 DEF Once
<1>5. Len(q) + 1 \in 1..Len(t)
  BY <1>1
<1>6. \A y : In(t, y) <=> y = x \/ In(q, y)
  BY <1>1, <1>2, <1>3, <1>5 DEF In
<1> QED
  BY <1>1, <1>4, <1>6 DEF t

(***************************************************************************)
(* Who holds a slot.                                                       *)
(***************************************************************************)
(* submit takes the head of the free queue. *)
LEMMA GetSlotSlots ==
    ASSUME TypeOK, SlotInv, IterInv, NEW i \in Iters, GetSlot(i)
    PROVE  SlotInv'
<1>1. /\ free \in Seq(Slots) /\ pending \in [Iters -> Seq(Slots)]
      /\ cur \in [Iters -> Slots \cup {NoSlot}]
  BY DEF TypeOK
<1>2. PICK s : s = Head(free)
  OBVIOUS
<1>3. /\ free # <<>> /\ free' = Tail(free) /\ cur' = [cur EXCEPT ![i] = s]
      /\ pending' = pending /\ cur[i] = NoSlot
  BY <1>2 DEF GetSlot, IterInv, IterOK
<1>4. /\ Once(free') /\ ~In(free', s) /\ s \in Slots
      /\ \A x : In(free, x) <=> x = s \/ In(free', x)
  BY <1>1, <1>2, <1>3, TailIn DEF SlotInv
<1>5. /\ cur'[i] = s /\ \A m \in Iters : m # i => cur'[m] = cur[m]
  BY <1>1, <1>3
<1>6. \A m \in Iters, x \in Slots : HeldBy(m, x)' <=> HeldBy(m, x) \/ (m = i /\ x = s)
  BY <1>3, <1>5, ConstantsAssumption DEF HeldBy
<1>7. \A m \in Iters : ~HeldBy(m, s)
  BY <1>4 DEF SlotInv
<1>8. /\ \A x \in Slots, m \in Iters : /\ ~(In(free', x) /\ HeldBy(m, x)')
                                       /\ ~(In(pending'[m], x) /\ cur'[m] = x)
      /\ \A x \in Slots : \A l, m \in Iters : HeldBy(l, x)' /\ HeldBy(m, x)' => l = m
  BY <1>3, <1>4, <1>5, <1>6, <1>7 DEF SlotInv, HeldBy
<1>9. \A x \in Slots : In(free', x) \/ \E m \in Iters : HeldBy(m, x)'
  BY <1>4, <1>6 DEF SlotInv
<1> QED
  BY <1>3, <1>4, <1>8, <1>9 DEF SlotInv

(* An accepted read moves the slot to the generator's pending list. *)
LEMMA AcceptedSlots ==
    ASSUME TypeOK, SlotInv, IterInv, NEW i \in Iters, NEW s \in Slots, cur[i] = s,
           free' = free, Accepted(i, s)
    PROVE  SlotInv'
<1>1. /\ pending \in [Iters -> Seq(Slots)] /\ cur \in [Iters -> Slots \cup {NoSlot}]
  BY DEF TypeOK
<1>2. /\ pending' = [pending EXCEPT ![i] = Append(pending[i], s)]
      /\ cur' = [cur EXCEPT ![i] = NoSlot]
  BY DEF Accepted
<1>3. ~In(pending[i], s) /\ Once(pending[i])
  BY DEF SlotInv
<1>4. Once(pending'[i]) /\ \A x : In(pending'[i], x) <=> x = s \/ In(pending[i], x)
  BY <1>1, <1>2, <1>3, AppendIn
<1>5. /\ cur'[i] = NoSlot
      /\ \A m \in Iters : m # i => cur'[m] = cur[m] /\ pending'[m] = pending[m]
  BY <1>1, <1>2
<1>6. \A m \in Iters, x \in Slots : HeldBy(m, x)' <=> HeldBy(m, x)
  <2> SUFFICES ASSUME NEW m \in Iters, NEW x \in Slots PROVE HeldBy(m, x)' <=> HeldBy(m, x)
    OBVIOUS
  <2>1. CASE m = i
    BY <2>1, <1>4, <1>5, ConstantsAssumption DEF HeldBy
  <2>2. CASE m # i
    BY <2>2, <1>5 DEF HeldBy
  <2> QED
    BY <2>1, <2>2
<1>7. \A x \in Slots, m \in Iters : ~(In(pending'[m], x) /\ cur'[m] = x)
  BY <1>5, ConstantsAssumption DEF SlotInv
<1>8. \A m \in Iters : Once(pending'[m])
  BY <1>4, <1>5 DEF SlotInv
<1> QED
  BY <1>6, <1>7, <1>8 DEF SlotInv

(* pending.pop(0) makes the head of the list the slot in hand. *)
LEMMA PopSlots ==
    ASSUME TypeOK, SlotInv, IterInv, NEW i \in Iters, pc[i] = "loop", pending[i] # <<>>,
           cur' = [cur EXCEPT ![i] = Head(pending[i])],
           pending' = [pending EXCEPT ![i] = Tail(pending[i])],
           free' = free
    PROVE  SlotInv'
<1>1. /\ pending \in [Iters -> Seq(Slots)] /\ cur \in [Iters -> Slots \cup {NoSlot}]
  BY DEF TypeOK
<1>2. PICK s : s = Head(pending[i])
  OBVIOUS
<1>3. cur[i] = NoSlot
  BY DEF IterInv, IterOK
<1>4. /\ s \in Slots /\ Once(pending'[i]) /\ ~In(pending'[i], s)
      /\ \A x : In(pending[i], x) <=> x = s \/ In(pending'[i], x)
  <2>1. pending[i] \in Seq(Slots) /\ Once(pending[i]) /\ pending'[i] = Tail(pending[i])
    BY <1>1 DEF SlotInv
  <2> QED
    BY <2>1, <1>2, TailIn
<1>5. /\ cur'[i] = s
      /\ \A m \in Iters : m # i => cur'[m] = cur[m] /\ pending'[m] = pending[m]
  BY <1>1, <1>2
<1>6. \A m \in Iters, x \in Slots : HeldBy(m, x)' <=> HeldBy(m, x)
  <2> SUFFICES ASSUME NEW m \in Iters, NEW x \in Slots PROVE HeldBy(m, x)' <=> HeldBy(m, x)
    OBVIOUS
  <2>1. CASE m = i
    BY <2>1, <1>3, <1>4, <1>5, ConstantsAssumption DEF HeldBy
  <2>2. CASE m # i
    BY <2>2, <1>5 DEF HeldBy
  <2> QED
    BY <2>1, <2>2
<1>7. \A x \in Slots, m \in Iters : ~(In(pending'[m], x) /\ cur'[m] = x)
  BY <1>4, <1>5 DEF SlotInv
<1>8. \A m \in Iters : Once(pending'[m])
  BY <1>4, <1>5 DEF SlotInv
<1> QED
  BY <1>6, <1>7, <1>8 DEF SlotInv

(* free.put returns the slot in hand to the queue. *)
LEMMA ResumeSlots ==
    ASSUME TypeOK, SlotInv, IterInv, NEW i \in Iters, Resume(i)
    PROVE  SlotInv'
<1>1. /\ free \in Seq(Slots) /\ cur \in [Iters -> Slots \cup {NoSlot}]
  BY DEF TypeOK
<1>2. PICK s : s = cur[i]
  OBVIOUS
<1>3. /\ s \in Slots /\ free' = Append(free, s) /\ cur' = [cur EXCEPT ![i] = NoSlot]
      /\ pending' = pending
  BY <1>1, <1>2 DEF Resume, IterInv, IterOK
<1>4. ~In(free, s) /\ Once(free) /\ ~In(pending[i], s) /\ HeldBy(i, s)
  BY <1>2, <1>3 DEF SlotInv, HeldBy
<1>5. Once(free') /\ \A x : In(free', x) <=> x = s \/ In(free, x)
  BY <1>1, <1>3, <1>4, AppendIn
<1>6. /\ cur'[i] = NoSlot
      /\ \A m \in Iters : m # i => cur'[m] = cur[m]
  BY <1>1, <1>3
<1>7. \A m \in Iters, x \in Slots : HeldBy(m, x)' <=> HeldBy(m, x) /\ x # s
  <2> SUFFICES ASSUME NEW m \in Iters, NEW x \in Slots
               PROVE  HeldBy(m, x)' <=> HeldBy(m, x) /\ x # s
    OBVIOUS
  <2>1. CASE m = i
    BY <2>1, <1>2, <1>3, <1>4, <1>6, ConstantsAssumption DEF HeldBy
  <2>2. CASE m # i
    <3>1. ~HeldBy(m, s)
      BY <2>2, <1>3, <1>4 DEF SlotInv
    <3> QED
      BY <2>2, <3>1, <1>3, <1>6 DEF HeldBy
  <2> QED
    BY <2>1, <2>2
<1>8. \A x \in Slots, m \in Iters : ~(In(pending'[m], x) /\ cur'[m] = x)
  BY <1>3, <1>6, ConstantsAssumption DEF SlotInv
<1> QED
  BY <1>3, <1>5, <1>7, <1>8 DEF SlotInv

(* Every step hands each slot on to exactly one holder. *)
LEMMA SlotStep ==
    ASSUME TypeOK, SlotInv, IterInv, [Next]_vars
    PROVE  SlotInv'
<1>1. ASSUME UNCHANGED <<free, pending, cur>> PROVE SlotInv'
  BY <1>1 DEF SlotInv, HeldBy
<1>2. ASSUME NEW i \in Iters, SubmitRead(i) PROVE SlotInv'
  <2>1. PICK s : s = cur[i]
    OBVIOUS
  <2>2. s \in Slots
    BY <1>2, <2>1 DEF SubmitRead, TypeOK, IterInv, IterOK
  <2>3. free' = free /\ (Fail(i) \/ Accepted(i, s))
    BY <1>2, <2>1 DEF SubmitRead
  <2>4. CASE Fail(i)
    BY <1>1, <2>3, <2>4 DEF Fail
  <2> QED
    BY <2>1, <2>2, <2>3, <2>4, AcceptedSlots
<1>3. ASSUME NEW i \in Iters, Decode(i) \/ ReadRaises(i) PROVE SlotInv'
  BY <1>3, PopSlots DEF Decode, ReadRaises
<1>4. ASSUME NEW i \in Iters,
             (\E list \in IdLists : Start(i, list)) \/ EndOfBlocks(i) \/ Abandon(i) \/ Deliver(i)
      PROVE  SlotInv'
  BY <1>1, <1>4 DEF Start, EndOfBlocks, Abandon, Deliver, iterVars
<1>5. ASSUME NEW s \in Slots, ReadBegins(s) \/ ReadEnds(s) \/ ReadFails(s) \/ StreamClones(s)
      PROVE  SlotInv'
  BY <1>1, <1>5 DEF ReadBegins, ReadEnds, ReadFails, StreamClones, iterVars
<1>6. CASE Close \/ UNCHANGED vars
  BY <1>1, <1>6 DEF Close, vars, iterVars
<1> QED
  BY <1>2, <1>3, <1>4, <1>5, <1>6, GetSlotSlots, ResumeSlots DEF Next

(***************************************************************************)
(* Where the generators stand, and the types.                              *)
(***************************************************************************)
(* A list of block ids is a bounded sequence of ids. *)
LEMMA IdListType ==
    ASSUME NEW list \in IdLists \cup {<<>>}
    PROVE  /\ Len(list) \in 0..MaxLen
           /\ \A n \in 1..Len(list) : list[n] \in Blocks \cup {Missing}
<1>1. CASE list \in IdLists
  <2>1. PICK n \in 1..MaxLen : list \in [1..n -> Blocks \cup {Missing}]
    BY <1>1 DEF IdLists
  <2>2. n \in Nat /\ list \in Seq(Blocks \cup {Missing}) /\ Len(list) = n
    BY <2>1, ConstantsAssumption
  <2> QED
    BY <2>1, <2>2, ConstantsAssumption
<1>2. CASE list = <<>>
  BY <1>2, ConstantsAssumption
<1> QED
  BY <1>1, <1>2

(* The counters of generator i are numbers. *)
LEMMA IterTypes ==
    ASSUME TypeOK, NEW i \in Iters
    PROVE  /\ pos[i] \in Nat /\ prime[i] \in Nat
           /\ Len(out[i]) \in Nat /\ Len(pending[i]) \in Nat /\ Len(ids[i]) \in 0..MaxLen
           /\ MaxLen \in Nat /\ Len(free) \in Nat
           /\ pending[i] = <<>> <=> Len(pending[i]) = 0
           /\ \A n \in 1..Len(ids[i]) : ids[i][n] \in Blocks \cup {Missing}
<1>1. /\ pos[i] \in 0..MaxLen /\ prime[i] \in 0..MaxLen /\ MaxLen \in Nat
      /\ out[i] \in Seq(Bytes \cup {InFlight}) /\ pending[i] \in Seq(Slots)
      /\ ids[i] \in IdLists \cup {<<>>} /\ free \in Seq(Slots)
  BY ConstantsAssumption DEF TypeOK
<1>2. pending[i] = <<>> <=> Len(pending[i]) = 0
  BY <1>1
<1> QED
  BY <1>1, <1>2, IdListType

(* A generator that does not move keeps its place. *)
LEMMA IterFrame ==
    ASSUME NEW i, IterOK(i), pc'[i] = pc[i], pending'[i] = pending[i], cur'[i] = cur[i],
           pos'[i] = pos[i], prime'[i] = prime[i], Len(out'[i]) = Len(out[i]), ids'[i] = ids[i],
           pc[i] = "idle" => out'[i] = out[i]
    PROVE  IterOK(i)'
BY DEF IterOK

(* The priming loop is sized by what is free and by what is asked for. *)
LEMMA PrimeType ==
    ASSUME TypeOK, NEW list \in IdLists
    PROVE  PrimeCount(Len(list)) \in 0..Len(list) /\ PrimeCount(Len(list)) <= Len(free)
<1>1. Len(list) \in Nat /\ Len(free) \in Nat
  BY IdListType, ConstantsAssumption DEF TypeOK
<1> QED
  BY <1>1 DEF PrimeCount

(* The first next() sizes the priming loop. *)
LEMMA StartIter ==
    ASSUME TypeOK, IterInv, NEW i \in Iters, NEW list \in IdLists, Start(i, list)
    PROVE  TypeOK' /\ IterInv'
<1>1. PICK p : p = PrimeCount(Len(list))
  OBVIOUS
<1>2. p \in 0..Len(list) /\ Len(list) \in 0..MaxLen /\ MaxLen \in Nat
  BY <1>1, PrimeType, IdListType, ConstantsAssumption
<1>3. /\ pc[i] = "idle" /\ ids' = [ids EXCEPT ![i] = list]
      /\ prime' = [prime EXCEPT ![i] = p]
      /\ pc' = [pc EXCEPT ![i] = IF p = 0 THEN "loop" ELSE "get"]
      /\ UNCHANGED <<device, damaged, free, raw, read, target, event, clone, closed, pos,
                      pending, cur, out, faults>>
  BY <1>1 DEF Start, Goto, slotVars
<1>4. TypeOK'
  <2>1. prime' \in [Iters -> 0..MaxLen]
    BY <1>2, <1>3 DEF TypeOK
  <2>2. pc' \in [Iters -> Stages] /\ ids' \in [Iters -> IdLists \cup {<<>>}]
    BY <1>3 DEF TypeOK, Stages
  <2> QED
    BY <1>3, <2>1, <2>2 DEF TypeOK
<1>5. /\ pc \in [Iters -> Stages] /\ ids \in [Iters -> IdLists \cup {<<>>}]
      /\ prime \in [Iters -> 0..MaxLen]
  BY DEF TypeOK
<1>6. IterOK(i) /\ pending[i] = <<>> /\ Len(out[i]) = 0 /\ Len(pending[i]) = 0
  <2>1. IterOK(i) /\ pending[i] = <<>> /\ out[i] = <<>>
    BY <1>3 DEF IterInv, IterOK
  <2> QED
    BY <2>1
<1>7. IterOK(i)'
  <2>1. pc'[i] = (IF p = 0 THEN "loop" ELSE "get") /\ ids'[i] = list /\ prime'[i] = p
    BY <1>3, <1>5
  <2>2. pos[i] = 0 /\ cur[i] = NoSlot
    BY <1>3, <1>6 DEF IterOK
  <2>3. /\ UNCHANGED <<pending, cur, pos, out>>
        /\ p <= Len(list) - 0 /\ Len(list) >= 0 /\ (p = 0 \/ Len(list) > 0)
    BY <1>2, <1>3
  <2>4. CASE p = 0
    BY <1>6, <2>1, <2>2, <2>3, <2>4 DEF IterOK
  <2>5. CASE p # 0
    BY <1>6, <2>1, <2>2, <2>3, <2>5 DEF IterOK
  <2> QED
    BY <2>4, <2>5
<1>8. ASSUME NEW m \in Iters, m # i PROVE IterOK(m)'
  BY <1>3, <1>5, <1>8, IterFrame DEF IterInv
<1> QED
  BY <1>4, <1>7, <1>8 DEF IterInv

(* submit takes the next id. *)
LEMMA GetSlotIter ==
    ASSUME TypeOK, IterInv, NEW i \in Iters, GetSlot(i)
    PROVE  TypeOK' /\ IterInv'
<1>1. PICK s : s = Head(free)
  OBVIOUS
<1>2. /\ pc[i] = "get" /\ cur' = [cur EXCEPT ![i] = s]
      /\ pos' = [pos EXCEPT ![i] = pos[i] + 1] /\ pc' = [pc EXCEPT ![i] = "sync"]
      /\ free # <<>> /\ free' = Tail(free)
      /\ UNCHANGED <<device, damaged, raw, read, target, event, clone, closed, ids, prime,
                      pending, out, faults>>
  BY <1>1 DEF GetSlot, Goto, slotVars
<1>3. s \in Slots /\ free' \in Seq(Slots)
  BY <1>1, <1>2, HeadTailProperties DEF TypeOK
<1>4. /\ IterOK(i) /\ pos[i] < Len(ids[i])
      /\ Len(out[i]) = pos[i] - Len(pending[i]) /\ prime[i] <= Len(ids[i]) - pos[i]
      /\ Len(out[i]) <= Len(ids[i])
  BY <1>2 DEF IterInv, IterOK
<1>9. /\ pos[i] \in Nat /\ prime[i] \in Nat /\ Len(ids[i]) \in Nat
      /\ Len(out[i]) \in Nat /\ Len(pending[i]) \in Nat
  BY IterTypes
<1>5. TypeOK'
  <2>1. pos[i] + 1 \in 0..MaxLen
    BY <1>4, IterTypes
  <2> QED
    BY <1>2, <1>3, <2>1 DEF TypeOK, Stages
<1>6. /\ pc \in [Iters -> Stages] /\ cur \in [Iters -> Slots \cup {NoSlot}]
      /\ pos \in [Iters -> 0..MaxLen]
  BY DEF TypeOK
<1>7. IterOK(i)'
  <2>1. pc'[i] = "sync" /\ pos'[i] = pos[i] + 1 /\ cur'[i] = s /\ s # NoSlot
    BY <1>2, <1>3, <1>6, ConstantsAssumption
  <2>2. /\ Len(out[i]) = pos'[i] - Len(pending[i]) - 1 /\ pos'[i] <= Len(ids[i])
        /\ prime[i] <= Len(ids[i]) - pos'[i] + 1
    <3>1. PICK p, l, o, q, r : /\ p = pos[i] /\ l = Len(ids[i]) /\ o = Len(out[i])
                               /\ q = Len(pending[i]) /\ r = prime[i]
      OBVIOUS
    <3>2. /\ p \in Nat /\ l \in Nat /\ o \in Nat /\ q \in Nat /\ r \in Nat
          /\ p < l /\ o = p - q /\ r <= l - p
      BY <1>4, <1>9, <3>1
    <3>3. o = (p + 1) - q - 1 /\ p + 1 <= l /\ r <= l - (p + 1) + 1
      BY ONLY <3>2
    <3> QED
      BY <2>1, <3>1, <3>3
  <2> QED
    BY <1>2, <1>4, <2>1, <2>2 DEF IterOK
<1>8. ASSUME NEW m \in Iters, m # i PROVE IterOK(m)'
  BY <1>2, <1>6, <1>8, IterFrame DEF IterInv
<1> QED
  BY <1>5, <1>7, <1>8 DEF IterInv

(* The id submit works on is one of the list. *)
LEMMA NextId ==
    ASSUME TypeOK, IterInv, NEW i \in Iters, pc[i] = "sync"
    PROVE  ids[i][pos[i]] \in Blocks \cup {Missing}
<1>1. /\ pos[i] \in Nat /\ Len(ids[i]) \in Nat /\ Len(out[i]) \in Nat
      /\ Len(pending[i]) \in Nat
  BY IterTypes
<1>2. pos[i] \in 1..Len(ids[i])
  BY <1>1 DEF IterInv, IterOK
<1> QED
  BY <1>2, IterTypes

(* submit hands the read to the pool or raises. *)
LEMMA SubmitReadIter ==
    ASSUME TypeOK, IterInv, NEW i \in Iters, SubmitRead(i)
    PROVE  TypeOK' /\ IterInv'
<1>0. /\ pc \in [Iters -> Stages] /\ cur \in [Iters -> Slots \cup {NoSlot}]
      /\ prime \in [Iters -> 0..MaxLen] /\ pending \in [Iters -> Seq(Slots)]
  BY DEF TypeOK
<1>1. PICK s, b : s = cur[i] /\ b = ids[i][pos[i]]
  OBVIOUS
<1>2. /\ pc[i] = "sync" /\ event' = [event EXCEPT ![s] = "unset"]
      /\ \/ Fail(i) /\ UNCHANGED <<read, target>>
         \/ /\ read' = [read EXCEPT ![s] = "submitted"]
            /\ target' = [target EXCEPT ![s] = b]
            /\ Accepted(i, s)
      /\ UNCHANGED <<device, damaged, free, raw, clone, closed, ids, pos, out, faults>>
  BY <1>1 DEF SubmitRead
<1>3. IterOK(i) /\ s \in Slots
  BY <1>0, <1>1, <1>2 DEF IterInv, IterOK
<1>4. b \in Blocks \cup {Missing}
  BY <1>1, <1>2, NextId
<1>5. CASE Fail(i) /\ UNCHANGED <<read, target>>
  <2>1. pc' = [pc EXCEPT ![i] = "failed"] /\ UNCHANGED <<prime, pending, cur>>
    BY <1>5 DEF Fail, Goto
  <2>2. TypeOK'
    BY <1>2, <1>3, <1>5, <2>1 DEF TypeOK, Stages
  <2>3. IterOK(i)'
    BY <1>0, <1>2, <1>3, <2>1 DEF IterOK
  <2>4. ASSUME NEW m \in Iters, m # i PROVE IterOK(m)'
    BY <1>0, <1>2, <2>1, <2>4, IterFrame DEF IterInv
  <2> QED
    BY <2>2, <2>3, <2>4 DEF IterInv
<1>6. CASE /\ read' = [read EXCEPT ![s] = "submitted"]
           /\ target' = [target EXCEPT ![s] = b]
           /\ Accepted(i, s)
  <2>1. PICK p, q, next : /\ p = IF prime[i] = 0 THEN 0 ELSE prime[i] - 1
                          /\ q = Append(pending[i], s)
                          /\ next = IF prime[i] > 1 THEN "get" ELSE "loop"
    OBVIOUS
  <2>2. /\ pending' = [pending EXCEPT ![i] = q] /\ cur' = [cur EXCEPT ![i] = NoSlot]
        /\ prime' = [prime EXCEPT ![i] = p] /\ pc' = [pc EXCEPT ![i] = next]
    BY <1>6, <2>1 DEF Accepted, Goto
  <2>3. q \in Seq(Slots) /\ Len(q) = Len(pending[i]) + 1
    BY <1>0, <1>3, <2>1, AppendProperties
  <2>4. /\ p \in 0..MaxLen /\ p <= prime[i] /\ prime[i] \in 0..MaxLen /\ MaxLen \in Nat
        /\ \/ next = "get" /\ p = prime[i] - 1 /\ prime[i] > 1
           \/ next = "loop" /\ p = 0
    BY <1>0, <2>1, ConstantsAssumption
  <2>5. TypeOK'
    BY <1>2, <1>3, <1>4, <1>6, <2>2, <2>3, <2>4 DEF TypeOK, Stages
  <2>6. IterOK(i)'
    <3>1. pc'[i] = next /\ cur'[i] = NoSlot /\ prime'[i] = p /\ pending'[i] = q
      BY <1>0, <2>2
    <3>2. /\ Len(out[i]) = pos[i] - Len(pending[i]) - 1 /\ pos[i] <= Len(ids[i])
          /\ prime[i] <= Len(ids[i]) - pos[i] + 1 /\ Len(out[i]) <= Len(ids[i])
      BY <1>2, <1>3 DEF IterOK
    <3>3. /\ pos[i] \in Nat /\ Len(ids[i]) \in Nat /\ Len(out[i]) \in Nat
          /\ Len(pending[i]) \in Nat
      BY IterTypes
    <3>4. /\ Len(out[i]) = pos[i] - Len(q) /\ Len(out[i]) <= Len(ids[i]) /\ pos[i] <= Len(ids[i])
          /\ next = "get" => pos[i] < Len(ids[i]) /\ p <= Len(ids[i]) - pos[i]
      <4>1. PICK a, l, o, z, r : /\ a = pos[i] /\ l = Len(ids[i]) /\ o = Len(out[i])
                                 /\ z = Len(pending[i]) /\ r = prime[i]
        OBVIOUS
      <4>2. /\ a \in Nat /\ l \in Nat /\ o \in Nat /\ z \in Nat /\ r \in Nat
            /\ o = a - z - 1 /\ a <= l /\ r <= l - a + 1 /\ o <= l
        BY <2>4, <3>2, <3>3, <4>1
      <4>3. o = a - (z + 1) /\ (r > 1 => a < l /\ r - 1 <= l - a)
        BY ONLY <4>2
      <4> QED
        BY <2>3, <2>4, <4>1, <4>2, <4>3
    <3> QED
      BY <1>2, <2>4, <3>1, <3>4 DEF IterOK
  <2>7. ASSUME NEW m \in Iters, m # i PROVE IterOK(m)'
    BY <1>0, <1>2, <2>2, <2>7, IterFrame DEF IterInv
  <2> QED
    BY <2>5, <2>6, <2>7 DEF IterInv
<1> QED
  BY <1>2, <1>5, <1>6

(* The oldest read raises: the generator ends with its slot in hand. *)
LEMMA ReadRaisesIter ==
    ASSUME TypeOK, IterInv, NEW i \in Iters, ReadRaises(i)
    PROVE  TypeOK' /\ IterInv'
<1>0. /\ pc \in [Iters -> Stages] /\ cur \in [Iters -> Slots \cup {NoSlot}]
      /\ pending \in [Iters -> Seq(Slots)]
  BY DEF TypeOK
<1>1. PICK s, q : s = Head(pending[i]) /\ q = Tail(pending[i])
  OBVIOUS
<1>2. /\ pc[i] = "loop" /\ pending[i] # <<>> /\ pc' = [pc EXCEPT ![i] = "failed"]
      /\ cur' = [cur EXCEPT ![i] = s] /\ pending' = [pending EXCEPT ![i] = q]
      /\ UNCHANGED <<device, damaged, free, raw, read, target, event, clone, closed, ids, pos,
                      prime, out, faults>>
  BY <1>1 DEF ReadRaises, Goto, slotVars
<1>3. s \in Slots /\ q \in Seq(Slots)
  BY <1>0, <1>1, <1>2, HeadTailProperties
<1>4. TypeOK'
  BY <1>2, <1>3 DEF TypeOK, Stages
<1>5. IterOK(i)'
  BY <1>0, <1>2, <1>3, ConstantsAssumption DEF IterInv, IterOK
<1>6. ASSUME NEW m \in Iters, m # i PROVE IterOK(m)'
  BY <1>0, <1>2, <1>6, IterFrame DEF IterInv
<1> QED
  BY <1>4, <1>5, <1>6 DEF IterInv

(* The oldest read is decoded, or its record is rejected. *)
LEMMA DecodeIter ==
    ASSUME TypeOK, IterInv, NEW i \in Iters, Decode(i)
    PROVE  TypeOK' /\ IterInv'
<1>0. /\ pc \in [Iters -> Stages] /\ cur \in [Iters -> Slots \cup {NoSlot}]
      /\ pending \in [Iters -> Seq(Slots)] /\ out \in [Iters -> Seq(Bytes \cup {InFlight})]
  BY DEF TypeOK
<1>1. PICK s, q : s = Head(pending[i]) /\ q = Tail(pending[i])
  OBVIOUS
<1>2. PICK next \in {"failed", "decoded"} :
        /\ pc[i] = "loop" /\ pending[i] # <<>> /\ pc' = [pc EXCEPT ![i] = next]
        /\ cur' = [cur EXCEPT ![i] = s] /\ pending' = [pending EXCEPT ![i] = q]
        /\ UNCHANGED <<device, damaged, free, raw, read, target, event, clone, closed, ids, pos,
                        prime, out, faults>>
  BY <1>1 DEF Decode, Goto, slotVars
<1>3. /\ s \in Slots /\ q \in Seq(Slots) /\ Len(q) = Len(pending[i]) - 1
      /\ Len(pending[i]) \in Nat \ {0}
  BY <1>0, <1>1, <1>2, HeadTailProperties
<1>4. IterOK(i) /\ Len(out[i]) = pos[i] - Len(pending[i]) /\ prime[i] = 0
  BY <1>2 DEF IterInv, IterOK
<1>5. TypeOK'
  BY <1>2, <1>3 DEF TypeOK, Stages
<1>6. IterOK(i)'
  <2>1. pc'[i] = next /\ cur'[i] = s /\ s # NoSlot /\ pending'[i] = q
    BY <1>0, <1>2, <1>3, ConstantsAssumption
  <2>2. Len(out[i]) = pos[i] - Len(q) - 1
    <3>1. PICK a, o, l : a = pos[i] /\ o = Len(out[i]) /\ l = Len(pending[i])
      OBVIOUS
    <3>2. a \in Nat /\ o \in Nat /\ l \in Nat /\ o = a - l
      BY <1>4, <3>1, IterTypes
    <3>3. o = a - (l - 1) - 1
      BY ONLY <3>2
    <3> QED
      BY <1>3, <3>1, <3>3
  <2> QED
    BY <1>2, <1>4, <2>1, <2>2 DEF IterOK
<1>7. ASSUME NEW m \in Iters, m # i PROVE IterOK(m)'
  BY <1>0, <1>2, <1>7, IterFrame DEF IterInv
<1> QED
  BY <1>5, <1>6, <1>7 DEF IterInv

(* The decoded record is copied out and yielded. *)
LEMMA DeliverIter ==
    ASSUME TypeOK, IterInv, NEW i \in Iters, Deliver(i)
    PROVE  TypeOK' /\ IterInv'
<1>0. /\ pc \in [Iters -> Stages] /\ cur \in [Iters -> Slots \cup {NoSlot}]
      /\ out \in [Iters -> Seq(Bytes \cup {InFlight})]
  BY DEF TypeOK
<1>1. PICK s : s = cur[i]
  OBVIOUS
<1>2. /\ pc[i] = "decoded" /\ pc' = [pc EXCEPT ![i] = "yielded"]
      /\ UNCHANGED <<device, damaged, free, raw, read, target, closed, ids, pos, prime,
                      pending, cur, faults>>
  BY DEF Deliver, Goto
<1>3. IterOK(i) /\ s \in Slots
  BY <1>0, <1>1, <1>2 DEF IterInv, IterOK
<1>4. Len(out[i]) = pos[i] - Len(pending[i]) - 1 /\ pos[i] <= Len(ids[i]) /\ prime[i] = 0
  BY <1>2, <1>3 DEF IterOK
<1>5. PICK x \in Bytes \cup {InFlight} :
        /\ out' = [out EXCEPT ![i] = Append(out[i], x)]
        /\ event' = event \/ event' = [event EXCEPT ![s] = "recorded"]
        /\ clone' = clone \/ clone' = [clone EXCEPT ![s] = <<i, Len(out[i]) + 1>>]
  <2>1. raw[s] \in Bytes
    BY <1>3 DEF TypeOK
  <2> QED
    BY <1>1, <2>1 DEF Deliver
<1>6. PICK o : o = Append(out[i], x)
  OBVIOUS
<1>7. o \in Seq(Bytes \cup {InFlight}) /\ Len(o) = Len(out[i]) + 1 /\ Len(out[i]) \in Nat
  BY <1>0, <1>6, AppendProperties
<1>8. /\ Len(o) = pos[i] - Len(pending[i]) /\ Len(o) <= Len(ids[i])
      /\ Len(out[i]) + 1 \in 1..MaxLen
  <2>1. PICK a, l, u, z : a = pos[i] /\ l = Len(ids[i]) /\ u = Len(out[i]) /\ z = Len(pending[i])
    OBVIOUS
  <2>2. /\ a \in Nat /\ l \in 0..MaxLen /\ u \in Nat /\ z \in Nat /\ MaxLen \in Nat
        /\ u = a - z - 1 /\ a <= l
    BY <1>4, <2>1, IterTypes
  <2>3. u + 1 = a - z /\ u + 1 <= l /\ u + 1 \in 1..MaxLen
    BY ONLY <2>2
  <2> QED
    BY <1>7, <2>1, <2>3
<1>9. TypeOK'
  <2>1. out' \in [Iters -> Seq(Bytes \cup {InFlight})]
    BY <1>0, <1>5, <1>6, <1>7
  <2>2. clone' \in [Slots -> {NoClone} \cup (Iters \X (1..MaxLen))]
    <3>1. <<i, Len(out[i]) + 1>> \in Iters \X (1..MaxLen)
      BY <1>8
    <3> QED
      BY <1>3, <1>5, <3>1 DEF TypeOK
  <2>3. event' \in [Slots -> {"unset", "recorded", "passed"}]
    BY <1>3, <1>5 DEF TypeOK
  <2>4. pc' \in [Iters -> Stages]
    BY <1>0, <1>2 DEF Stages
  <2> QED
    BY <1>2, <2>1, <2>2, <2>3, <2>4 DEF TypeOK
<1>10. IterOK(i)'
  <2>1. pc'[i] = "yielded" /\ cur'[i] = s /\ s # NoSlot /\ out'[i] = o
    BY <1>0, <1>1, <1>2, <1>3, <1>5, <1>6, ConstantsAssumption
  <2> QED
    BY <1>2, <1>4, <1>8, <2>1 DEF IterOK
<1>11. ASSUME NEW m \in Iters, m # i PROVE IterOK(m)'
  BY <1>0, <1>2, <1>5, <1>11, IterFrame DEF IterInv
<1> QED
  BY <1>9, <1>10, <1>11 DEF IterInv

(* The consumer asks for the next block. *)
LEMMA ResumeIter ==
    ASSUME TypeOK, IterInv, NEW i \in Iters, Resume(i)
    PROVE  TypeOK' /\ IterInv'
<1>0. pc \in [Iters -> Stages] /\ cur \in [Iters -> Slots \cup {NoSlot}]
  BY DEF TypeOK
<1>1. PICK next : next = IF pos[i] < Len(ids[i]) THEN "get" ELSE "loop"
  OBVIOUS
<1>2. /\ pc[i] = "yielded" /\ free' = Append(free, cur[i]) /\ cur' = [cur EXCEPT ![i] = NoSlot]
      /\ pc' = [pc EXCEPT ![i] = next]
      /\ UNCHANGED <<device, damaged, raw, read, target, event, clone, closed, ids, pos, prime,
                      pending, out, faults>>
  BY <1>1 DEF Resume, Goto, slotVars
<1>3. IterOK(i) /\ cur[i] \in Slots
  BY <1>0, <1>2 DEF IterInv, IterOK
<1>4. TypeOK'
  <2>1. free' \in Seq(Slots)
    BY <1>2, <1>3, AppendProperties DEF TypeOK
  <2>2. next \in Stages
    BY <1>1 DEF Stages
  <2> QED
    BY <1>2, <2>1, <2>2 DEF TypeOK
<1>5. IterOK(i)'
  <2>1. pc'[i] = next /\ cur'[i] = NoSlot
    BY <1>0, <1>2
  <2>2. (next = "get" /\ pos[i] < Len(ids[i])) \/ next = "loop"
    BY <1>1
  <2>3. /\ pos[i] \in Nat /\ Len(ids[i]) \in Nat /\ Len(out[i]) \in Nat
        /\ Len(pending[i]) \in Nat
    BY IterTypes
  <2> QED
    BY <1>2, <1>3, <2>1, <2>2, <2>3 DEF IterOK
<1>6. ASSUME NEW m \in Iters, m # i PROVE IterOK(m)'
  BY <1>0, <1>2, <1>6, IterFrame DEF IterInv
<1> QED
  BY <1>4, <1>5, <1>6 DEF IterInv

(* A generator that returns or is dropped. *)
LEMMA EndIter ==
    ASSUME TypeOK, IterInv, NEW i \in Iters, EndOfBlocks(i) \/ Abandon(i)
    PROVE  TypeOK' /\ IterInv'
<1>0. pc \in [Iters -> Stages]
  BY DEF TypeOK
<1>1. PICK next \in {"done", "abandoned"} :
        /\ pc' = [pc EXCEPT ![i] = next]
        /\ \/ next = "done" /\ pc[i] = "loop" /\ pending[i] = <<>>
           \/ next = "abandoned" /\ pc[i] = "yielded"
        /\ UNCHANGED <<device, damaged, free, raw, read, target, event, clone, closed, ids, pos,
                        prime, pending, cur, out, faults>>
  BY DEF EndOfBlocks, Abandon, Goto, slotVars, iterVars
<1>2. TypeOK'
  BY <1>1 DEF TypeOK, Stages
<1>3. IterOK(i)'
  <2>1. pc'[i] = next
    BY <1>0, <1>1
  <2> QED
    BY <1>1, <2>1 DEF IterInv, IterOK
<1>4. ASSUME NEW m \in Iters, m # i PROVE IterOK(m)'
  BY <1>0, <1>1, <1>4, IterFrame DEF IterInv
<1> QED
  BY <1>2, <1>3, <1>4 DEF IterInv

(* What the stream fills is a delivery that was made. *)
LEMMA StreamType ==
    ASSUME TypeOK, NEW s \in Slots, StreamClones(s),
           clone[s][2] \in 1..Len(out[clone[s][1]])
    PROVE  /\ out' \in [Iters -> Seq(Bytes \cup {InFlight})]
           /\ clone[s][1] \in Iters
           /\ \A m \in Iters : Len(out'[m]) = Len(out[m])
           /\ \A m \in Iters : \A n \in 1..Len(out[m]) :
                 out'[m][n] = IF <<m, n>> = clone[s] THEN raw[s] ELSE out[m][n]
<1>0. /\ out \in [Iters -> Seq(Bytes \cup {InFlight})] /\ raw[s] \in Bytes
      /\ clone \in [Slots -> {NoClone} \cup (Iters \X (1..MaxLen))]
  BY DEF TypeOK
<1>1. PICK i \in Iters, k \in 1..MaxLen : clone[s] = <<i, k>>
  BY <1>0 DEF StreamClones
<1>2. out' = [out EXCEPT ![i] = [out[i] EXCEPT ![k] = raw[s]]] /\ k \in 1..Len(out[i])
  BY <1>1 DEF StreamClones
<1>3. PICK o : o = [out[i] EXCEPT ![k] = raw[s]]
  OBVIOUS
<1>4. /\ o \in Seq(Bytes \cup {InFlight}) /\ Len(o) = Len(out[i])
      /\ \A n \in 1..Len(out[i]) : o[n] = IF n = k THEN raw[s] ELSE out[i][n]
  BY <1>0, <1>2, <1>3
<1>5. out'[i] = o /\ \A m \in Iters \ {i} : out'[m] = out[m]
  BY <1>0, <1>2, <1>3
<1>6. out' \in [Iters -> Seq(Bytes \cup {InFlight})]
  BY <1>0, <1>2, <1>3, <1>4
<1>7. ASSUME NEW m \in Iters
      PROVE  /\ Len(out'[m]) = Len(out[m])
             /\ \A n \in 1..Len(out[m]) :
                   out'[m][n] = IF <<m, n>> = clone[s] THEN raw[s] ELSE out[m][n]
  <2>1. CASE m = i
    BY <2>1, <1>1, <1>4, <1>5
  <2>2. CASE m # i
    BY <2>2, <1>1, <1>5
  <2> QED
    BY <2>1, <2>2
<1> QED
  BY <1>1, <1>6, <1>7

(* Every step keeps the types and the generators' places. *)
LEMMA IterStep ==
    ASSUME TypeOK, IterInv, DataInv, [Next]_vars
    PROVE  TypeOK' /\ IterInv'
<1>1. ASSUME UNCHANGED <<pc, ids, pos, prime, pending, cur>>,
             \A m \in Iters : Len(out'[m]) = Len(out[m]) /\ (pc[m] = "idle" => out'[m] = out[m])
      PROVE  IterInv'
  BY <1>1, IterFrame DEF IterInv
<1>2. ASSUME NEW s \in Slots, ReadBegins(s) \/ ReadEnds(s) \/ ReadFails(s)
      PROVE  TypeOK' /\ IterInv'
  <2>1. UNCHANGED <<pc, ids, pos, prime, pending, cur, out>>
    BY <1>2 DEF ReadBegins, ReadEnds, ReadFails, iterVars
  <2>2. ASSUME ReadBegins(s) PROVE TypeOK'
    BY <2>2 DEF ReadBegins, TypeOK, iterVars, Bytes
  <2>3. ASSUME ReadEnds(s) PROVE TypeOK'
    <3>1. target[s] \in Bytes
      BY <2>3 DEF ReadEnds, DataInv, SlotOK, Bytes
    <3> QED
      BY <2>3, <3>1 DEF ReadEnds, TypeOK, iterVars
  <2>4. ASSUME ReadFails(s) PROVE TypeOK'
    <3>1. faults' \in 0..MaxFaults
      BY <2>4, ConstantsAssumption DEF ReadFails, TypeOK
    <3> QED
      BY <2>4, <3>1 DEF ReadFails, TypeOK, iterVars
  <2> QED
    BY <1>1, <1>2, <2>1, <2>2, <2>3, <2>4
<1>3. ASSUME NEW s \in Slots, StreamClones(s) PROVE TypeOK' /\ IterInv'
  <2>1. clone[s][2] \in 1..Len(out[clone[s][1]])
    BY <1>3 DEF StreamClones, DataInv, SlotOK
  <2>2. TypeOK'
    BY <1>3, <2>1, StreamType DEF StreamClones, TypeOK
  <2>3. \A m \in Iters : pc[m] = "idle" => Len(out[m]) = 0
    BY DEF IterInv, IterOK
  <2>4. \A m \in Iters : out[m] \in Seq(Bytes \cup {InFlight}) /\ out'[m] \in Seq(Bytes \cup {InFlight})
                         /\ Len(out'[m]) = Len(out[m])
    BY <1>3, <2>1, StreamType DEF TypeOK
  <2>5. \A m \in Iters : pc[m] = "idle" => out'[m] = out[m]
    BY <2>3, <2>4
  <2> QED
    BY <1>1, <1>3, <2>2, <2>4, <2>5 DEF StreamClones
<1>4. CASE Close
  BY <1>1, <1>4 DEF Close, TypeOK, slotVars, iterVars
<1>5. CASE UNCHANGED vars
  BY <1>1, <1>5 DEF vars, TypeOK
<1> QED
  BY <1>2, <1>3, <1>4, <1>5, StartIter, GetSlotIter, SubmitReadIter, ReadRaisesIter,
     DecodeIter, DeliverIter, ResumeIter, EndIter DEF Next

(***************************************************************************)
(* What slots and deliveries hold.                                         *)
(***************************************************************************)
(* Generator i's reads stay right when its slots are left alone. *)
LEMMA ReadFrame ==
    ASSUME NEW i, ReadOK(i), pending'[i] = pending[i], Len(out'[i]) = Len(out[i]),
           ids'[i] = ids[i], pc'[i] \in Asking => pc[i] \in Asking,
           pc'[i] = "decoded" => pc[i] = "decoded",
           \A s : In(pending[i], s) =>
                 /\ event'[s] = event[s] \/ event'[s] # "recorded"
                 /\ read'[s] = read[s] /\ raw'[s] = raw[s] /\ target'[s] = target[s]
    PROVE  ReadOK(i)'
<1>1. \A n \in 1..Len(pending[i]) : In(pending[i], pending[i][n])
  BY DEF In
<1> QED
  BY <1>1 DEF ReadOK

(* A generator's deliveries stay right when they are left alone. *)
LEMMA OutFrame ==
    ASSUME NEW i, OutOK(i), out'[i] = out[i], ids'[i] = ids[i], UNCHANGED <<device, damaged>>
    PROVE  OutOK(i)'
BY DEF OutOK

(* A slot's clones stay right when no delivery is taken back. *)
LEMMA CloneFrame ==
    ASSUME TypeOK, NEW s \in Slots, SlotOK(s), UNCHANGED <<device, ids>>,
           event'[s] = event[s], clone'[s] = clone[s], read'[s] = read[s], raw'[s] = raw[s],
           target'[s] = target[s],
           \A i \in Iters : Len(out[i]) <= Len(out'[i]) /\ Len(out'[i]) \in Nat
    PROVE  SlotOK(s)'
<1>1. CASE clone[s] = NoClone
  BY <1>1 DEF SlotOK
<1>2. CASE clone[s] # NoClone
  <2>0. clone[s] \in Iters \X (1..MaxLen)
    BY <1>2 DEF TypeOK
  <2>1. PICK i \in Iters, k \in 1..MaxLen : clone[s] = <<i, k>>
    BY <2>0
  <2>2. k \in 1..Len(out[i]) /\ Len(out[i]) \in Nat
    BY <1>2, <2>1 DEF SlotOK, TypeOK
  <2>3. k \in 1..Len(out'[i])
    BY <2>2
  <2> QED
    BY <1>2, <2>1, <2>3 DEF SlotOK
<1> QED
  BY <1>1, <1>2

(* What a generator does to nobody's slots changes no data.                *)
LEMMA DataFrame ==
    ASSUME TypeOK, DataInv, UNCHANGED <<device, damaged, raw, read, target, event, clone, ids, out, pending>>,
           \A i \in Iters : /\ pc'[i] \in Asking => pc[i] \in Asking
                            /\ pc'[i] = "decoded" => pc[i] = "decoded" /\ cur'[i] = cur[i]
    PROVE  DataInv'
<1>1. ASSUME NEW i \in Iters PROVE ReadOK(i)' /\ ViewOK(i)' /\ OutOK(i)'
  <2>1. ReadOK(i) /\ ViewOK(i) /\ OutOK(i)
    BY DEF DataInv
  <2>2. ReadOK(i)'
    BY <2>1 DEF ReadOK
  <2>3. ViewOK(i)'
    BY <2>1 DEF ViewOK
  <2>4. OutOK(i)'
    BY <2>1 DEF OutOK
  <2> QED
    BY <2>2, <2>3, <2>4
<1>2. ASSUME NEW s \in Slots PROVE SlotOK(s)'
  BY DEF DataInv, SlotOK
<1> QED
  BY <1>1, <1>2 DEF DataInv

(* A new generator has nothing yet. *)
LEMMA StartData ==
    ASSUME TypeOK, IterInv, DataInv, NEW i \in Iters, NEW list \in IdLists, Start(i, list)
    PROVE  DataInv'
<1>1. /\ pc[i] = "idle" /\ ids' = [ids EXCEPT ![i] = list]
      /\ UNCHANGED <<device, damaged, raw, read, target, event, clone, pending, cur, out>>
      /\ pc'[i] # "decoded" /\ \A m \in Iters : m # i => pc'[m] = pc[m]
  BY DEF Start, Goto, slotVars, TypeOK
<1>2. /\ pending[i] = <<>> /\ out[i] = <<>>
  BY <1>1 DEF IterInv, IterOK
<1>3. Len(pending[i]) = 0 /\ Len(out[i]) = 0
  BY <1>2
<1>4. \A m \in Iters : m # i => ids'[m] = ids[m]
  BY <1>1 DEF TypeOK
<1>5. ReadOK(i)' /\ ViewOK(i)' /\ OutOK(i)'
  BY <1>1, <1>3 DEF ReadOK, ViewOK, OutOK
<1>6. ASSUME NEW m \in Iters, m # i PROVE ReadOK(m)' /\ ViewOK(m)' /\ OutOK(m)'
  <2>1. ReadOK(m) /\ ViewOK(m) /\ OutOK(m)
    BY DEF DataInv
  <2>2. ids'[m] = ids[m] /\ pc'[m] = pc[m]
    BY <1>1, <1>4, <1>6
  <2> QED
    BY <1>1, <2>1, <2>2 DEF ReadOK, ViewOK, OutOK
<1>7. ASSUME NEW s \in Slots PROVE SlotOK(s)'
  <2>1. clone[s] # NoClone => clone[s][1] \in Iters /\ clone[s][1] # i
    BY <1>3 DEF DataInv, SlotOK, TypeOK
  <2> QED
    BY <1>1, <1>4, <2>1 DEF DataInv, SlotOK
<1> QED
  BY <1>5, <1>6, <1>7 DEF DataInv

(* A read is submitted for the next id, into a slot nothing reads.         *)
LEMMA SubmitReadData ==
    ASSUME TypeOK, SlotInv, IterInv, DataInv, NEW i \in Iters, SubmitRead(i)
    PROVE  DataInv'
<1>0. /\ pc \in [Iters -> Stages] /\ cur \in [Iters -> Slots \cup {NoSlot}]
      /\ pending \in [Iters -> Seq(Slots)]
      /\ event \in [Slots -> {"unset", "recorded", "passed"}]
      /\ read \in [Slots -> {"idle", "submitted", "running", "ok", "error"}]
      /\ target \in [Slots -> Blocks \cup {Missing}]
  BY DEF TypeOK
<1>1. PICK s, b : s = cur[i] /\ b = ids[i][pos[i]]
  OBVIOUS
<1>2. /\ pc[i] = "sync" /\ event' = [event EXCEPT ![s] = "unset"] /\ event[s] # "recorded"
      /\ \/ Fail(i) /\ UNCHANGED <<read, target>>
         \/ /\ read' = [read EXCEPT ![s] = "submitted"]
            /\ target' = [target EXCEPT ![s] = b] /\ b # Missing
            /\ Accepted(i, s)
      /\ UNCHANGED <<device, damaged, free, raw, clone, closed, ids, pos, out, faults>>
  BY <1>1 DEF SubmitRead
<1>3. IterOK(i) /\ s \in Slots
  BY <1>0, <1>1, <1>2 DEF IterInv, IterOK
<1>4. clone[s] = NoClone /\ (b # Missing => b \in Blocks)
  BY <1>1, <1>2, <1>3, NextId DEF DataInv, SlotOK
<1>5. /\ event'[s] = "unset" /\ \A t \in Slots : t # s => event'[t] = event[t]
      /\ \A t \in Slots : t # s => read'[t] = read[t] /\ target'[t] = target[t]
  BY <1>0, <1>2, <1>3
<1>6. \A m \in Iters : ~In(pending[m], s)
  BY <1>1, <1>3 DEF SlotInv, HeldBy
<1>7. \A m \in Iters : \A t : In(pending[m], t) => t \in Slots /\ t # s
  BY <1>0, <1>6 DEF In
<1>8. ASSUME NEW t \in Slots PROVE SlotOK(t)'
  <2>1. CASE t = s
    <3>1. event'[s] = "unset" /\ clone'[s] = NoClone
      BY <1>2, <1>4, <1>5
    <3>2. read'[s] # "idle" => target'[s] \in Blocks
      BY <1>0, <1>2, <1>3, <1>4 DEF DataInv, SlotOK
    <3> QED
      BY <2>1, <3>1, <3>2 DEF SlotOK
  <2>2. CASE t # s
    BY <1>2, <1>5, <2>2 DEF SlotOK, DataInv
  <2> QED
    BY <2>1, <2>2
<1>9. ASSUME NEW m \in Iters PROVE OutOK(m)'
  BY <1>2, OutFrame DEF DataInv
<1>10. ASSUME NEW m \in Iters, m # i PROVE ReadOK(m)' /\ ViewOK(m)'
  <2>1. pc'[m] = pc[m] /\ pending'[m] = pending[m] /\ cur'[m] = cur[m]
    BY <1>0, <1>2, <1>10 DEF Fail, Accepted, Goto
  <2>2. ReadOK(m)'
    BY <1>2, <1>5, <1>7, <2>1, ReadFrame DEF DataInv
  <2>3. pc[m] = "decoded" => cur[m] \in Slots /\ cur[m] # s
    BY <1>0, <1>1, <1>3, <1>10 DEF SlotInv, HeldBy, IterInv, IterOK
  <2>4. ViewOK(m)
    BY DEF DataInv
  <2>5. ViewOK(m)'
    BY <1>2, <1>5, <2>1, <2>3, <2>4 DEF ViewOK
  <2> QED
    BY <2>2, <2>5
<1>11. pc'[i] # "decoded" /\ ViewOK(i)'
  BY <1>0, <1>2 DEF Fail, Accepted, Goto, ViewOK
<1>12. ReadOK(i)'
  <2>1. CASE Fail(i) /\ UNCHANGED <<read, target>>
    <3>1. pc'[i] = "failed" /\ pending' = pending
      BY <1>0, <2>1 DEF Fail, Goto
    <3> QED
      BY <1>2, <1>5, <1>7, <2>1, <3>1, ReadFrame DEF DataInv, Asking
  <2>2. CASE /\ read' = [read EXCEPT ![s] = "submitted"]
             /\ target' = [target EXCEPT ![s] = b]
             /\ Accepted(i, s)
    <3>1. PICK q : q = Append(pending[i], s)
      OBVIOUS
    <3>2. pending'[i] = q
      BY <1>0, <2>2, <3>1 DEF Accepted
    <3>3. /\ Len(q) = Len(pending[i]) + 1 /\ Len(pending[i]) \in Nat
          /\ \A n \in 1..Len(pending[i]) : q[n] = pending[i][n]
          /\ q[Len(pending[i]) + 1] = s
      BY <1>0, <1>3, <3>1, AppendProperties
    <3>4. read'[s] = "submitted" /\ target'[s] = b
      BY <1>0, <1>3, <2>2
    <3> SUFFICES ASSUME NEW n \in 1..Len(q)
                 PROVE  /\ event'[q[n]] # "recorded"
                        /\ read'[q[n]] = "ok" => raw'[q[n]] = target'[q[n]]
                        /\ target'[q[n]] = ids[i][Len(out[i]) + n]
      BY <1>2, <1>11, <3>2 DEF ReadOK
    <3>5. CASE n \in 1..Len(pending[i])
      <4>1. q[n] = pending[i][n] /\ q[n] \in Slots /\ q[n] # s
        BY <1>7, <3>3, <3>5 DEF In
      <4>2. /\ event[q[n]] # "recorded"
            /\ read[q[n]] = "ok" => raw[q[n]] = target[q[n]]
            /\ target[q[n]] = ids[i][Len(out[i]) + n]
        BY <1>2, <3>5, <4>1 DEF DataInv, ReadOK, Asking
      <4> QED
        BY <1>2, <1>5, <4>1, <4>2
    <3>6. CASE n = Len(pending[i]) + 1
      <4>1. /\ Len(out[i]) = pos[i] - Len(pending[i]) - 1
            /\ pos[i] \in Nat /\ Len(out[i]) \in Nat
        BY <1>2, <1>3, IterTypes DEF IterOK
      <4>2. Len(out[i]) + n = pos[i]
        <5>1. PICK a, o, l : a = pos[i] /\ o = Len(out[i]) /\ l = Len(pending[i])
          OBVIOUS
        <5>2. /\ a \in Nat /\ o \in Nat /\ l \in Nat /\ o = a - l - 1
          BY <3>3, <4>1, <5>1
        <5>3. o + (l + 1) = a
          BY ONLY <5>2
        <5> QED
          BY <3>6, <5>1, <5>3
      <4> QED
        BY <1>1, <1>5, <3>3, <3>4, <3>6, <4>2
    <3> QED
      BY <3>3, <3>5, <3>6
  <2> QED
    BY <1>2, <2>1, <2>2
<1> QED
  BY <1>8, <1>9, <1>10, <1>11, <1>12 DEF DataInv

(* The head of the pending list leaves it; the others move up.             *)
LEMMA PopReads ==
    ASSUME TypeOK, SlotInv, DataInv, NEW i \in Iters, pending[i] # <<>>
    PROVE  LET s == Head(pending[i])
               q == Tail(pending[i])
           IN /\ s = pending[i][1] /\ s \in Slots /\ 1 \in 1..Len(pending[i])
              /\ \A m \in Iters \ {i} : ~In(pending[m], s)
              /\ ~In(q, s)
              /\ \A n \in 1..Len(q) : /\ n \in Nat /\ n + 1 \in 1..Len(pending[i])
                                       /\ q[n] = pending[i][n + 1] /\ q[n] \in Slots
<1>1. /\ pending[i] \in Seq(Slots) /\ Once(pending[i])
  BY DEF TypeOK, SlotInv
<1>2. PICK s, q : s = Head(pending[i]) /\ q = Tail(pending[i])
  OBVIOUS
<1>3. /\ s \in Slots /\ q \in Seq(Slots) /\ Len(q) = Len(pending[i]) - 1
      /\ Len(pending[i]) \in Nat \ {0} /\ s = pending[i][1]
      /\ \A n \in 1..Len(q) : q[n] = pending[i][n + 1]
  BY <1>1, <1>2, HeadTailProperties
<1>4. ~In(q, s)
  BY <1>1, <1>2, TailIn
<1>5. HeldBy(i, s)
  BY <1>3 DEF HeldBy, In
<1>6. \A m \in Iters \ {i} : ~In(pending[m], s)
  BY <1>3, <1>5 DEF SlotInv, HeldBy
<1>7. \A n \in 1..Len(q) : n \in Nat /\ n + 1 \in 1..Len(pending[i])
  BY <1>3
<1> QED
  BY <1>2, <1>3, <1>4, <1>6, <1>7

(* A read that raises takes its slot out of the list. *)
LEMMA ReadRaisesData ==
    ASSUME TypeOK, SlotInv, DataInv, NEW i \in Iters, ReadRaises(i)
    PROVE  DataInv'
<1>0. pc \in [Iters -> Stages] /\ pending \in [Iters -> Seq(Slots)]
  BY DEF TypeOK
<1>1. PICK q : q = Tail(pending[i])
  OBVIOUS
<1>2. /\ pending[i] # <<>> /\ pc' = [pc EXCEPT ![i] = "failed"]
      /\ pending' = [pending EXCEPT ![i] = q]
      /\ \A m \in Iters : m # i => cur'[m] = cur[m]
      /\ UNCHANGED <<device, damaged, raw, read, target, event, clone, ids, out>>
  BY <1>1 DEF ReadRaises, Goto, slotVars, TypeOK
<1>3. \A n \in 1..Len(q) : n + 1 \in 1..Len(pending[i]) /\ q[n] = pending[i][n + 1]
  BY <1>1, <1>2, PopReads
<1>4. ReadOK(i)'
  <2>1. pc'[i] = "failed" /\ pending'[i] = q
    BY <1>0, <1>2
  <2> SUFFICES ASSUME NEW n \in 1..Len(q)
               PROVE  /\ event[q[n]] # "recorded"
                      /\ read[q[n]] = "ok" => raw[q[n]] = target[q[n]]
    BY <1>2, <2>1 DEF ReadOK, Asking
  <2>2. ReadOK(i)
    BY DEF DataInv
  <2> QED
    BY <1>3, <2>2 DEF ReadOK
<1>5. ASSUME NEW m \in Iters, m # i PROVE ReadOK(m)' /\ ViewOK(m)'
  <2>1. pc'[m] = pc[m] /\ pending'[m] = pending[m] /\ cur'[m] = cur[m]
    BY <1>0, <1>2, <1>5
  <2>2. ReadOK(m) /\ ViewOK(m)
    BY DEF DataInv
  <2> QED
    BY <1>2, <2>1, <2>2 DEF ReadOK, ViewOK
<1>6. ASSUME NEW m \in Iters PROVE OutOK(m)'
  BY <1>2, OutFrame DEF DataInv
<1>7. ASSUME NEW s \in Slots PROVE SlotOK(s)'
  BY <1>2 DEF DataInv, SlotOK
<1>8. ViewOK(i)'
  BY <1>0, <1>2 DEF ViewOK
<1> QED
  BY <1>4, <1>5, <1>6, <1>7, <1>8 DEF DataInv

(* What is decoded is the record of the block asked for, whole and, on the *)
(* host path, with a right CRC.                                            *)
LEMMA DecodeData ==
    ASSUME TypeOK, SlotInv, IterInv, DataInv, NEW i \in Iters, Decode(i)
    PROVE  DataInv'
<1>0. pc \in [Iters -> Stages] /\ pending \in [Iters -> Seq(Slots)]
      /\ cur \in [Iters -> Slots \cup {NoSlot}]
  BY DEF TypeOK
<1>1. PICK s, q : s = Head(pending[i]) /\ q = Tail(pending[i])
  OBVIOUS
<1>2. PICK next \in {"failed", "decoded"} :
        /\ pc[i] = "loop" /\ pending[i] # <<>> /\ read[s] = "ok"
        /\ pc' = [pc EXCEPT ![i] = next]
        /\ next = "decoded" /\ device = "cpu" => raw[s] \notin damaged
        /\ cur' = [cur EXCEPT ![i] = s] /\ pending' = [pending EXCEPT ![i] = q]
        /\ UNCHANGED <<device, damaged, raw, read, target, event, clone, ids, out>>
  BY <1>1 DEF Decode, Goto, Rejects, slotVars
<1>3. /\ s = pending[i][1] /\ s \in Slots /\ 1 \in 1..Len(pending[i])
      /\ \A n \in 1..Len(q) : /\ n \in Nat /\ n + 1 \in 1..Len(pending[i])
                               /\ q[n] = pending[i][n + 1]
  BY <1>1, <1>2, PopReads
<1>4. event[s] # "recorded" /\ raw[s] = target[s] /\ target[s] = ids[i][Len(out[i]) + 1]
  BY <1>2, <1>3 DEF DataInv, ReadOK, Asking
<1>5. pc'[i] = next /\ pending'[i] = q /\ cur'[i] = s
  BY <1>0, <1>2
<1>6. ReadOK(i)'
  <2>0. ReadOK(i)
    BY DEF DataInv
  <2> SUFFICES ASSUME NEW n \in 1..Len(q)
               PROVE  /\ event[q[n]] # "recorded"
                      /\ read[q[n]] = "ok" => raw[q[n]] = target[q[n]]
                      /\ target[q[n]] = ids[i][Len(out[i]) + 1 + n]
    BY <1>2, <1>5 DEF ReadOK, Asking
  <2>1. /\ event[q[n]] # "recorded"
        /\ read[q[n]] = "ok" => raw[q[n]] = target[q[n]]
        /\ target[q[n]] = ids[i][Len(out[i]) + (n + 1)]
    BY <1>2, <1>3, <2>0 DEF ReadOK, Asking
  <2>2. Len(out[i]) + (n + 1) = Len(out[i]) + 1 + n
    <3>1. PICK l : l = Len(out[i])
      OBVIOUS
    <3>2. l \in Nat /\ n \in Nat
      BY <1>3, <3>1, IterTypes
    <3>3. l + (n + 1) = l + 1 + n
      BY ONLY <3>2
    <3> QED
      BY <3>1, <3>3
  <2> QED
    BY <2>1, <2>2
<1>7. ViewOK(i)'
  BY <1>2, <1>4, <1>5 DEF ViewOK
<1>8. ASSUME NEW m \in Iters, m # i PROVE ReadOK(m)' /\ ViewOK(m)'
  <2>1. pc'[m] = pc[m] /\ pending'[m] = pending[m] /\ cur'[m] = cur[m]
    BY <1>0, <1>2, <1>8
  <2>2. ReadOK(m) /\ ViewOK(m)
    BY DEF DataInv
  <2> QED
    BY <1>2, <2>1, <2>2 DEF ReadOK, ViewOK
<1>9. ASSUME NEW m \in Iters PROVE OutOK(m)'
  BY <1>2, OutFrame DEF DataInv
<1>10. ASSUME NEW t \in Slots PROVE SlotOK(t)'
  BY <1>2 DEF DataInv, SlotOK
<1> QED
  BY <1>6, <1>7, <1>8, <1>9, <1>10 DEF DataInv

(* What is yielded, now or by the clones, is the block asked for.          *)
LEMMA DeliverData ==
    ASSUME TypeOK, SlotInv, IterInv, DataInv, NEW i \in Iters, Deliver(i)
    PROVE  DataInv'
<1>0. /\ pc \in [Iters -> Stages] /\ pending \in [Iters -> Seq(Slots)]
      /\ cur \in [Iters -> Slots \cup {NoSlot}]
      /\ out \in [Iters -> Seq(Bytes \cup {InFlight})]
      /\ event \in [Slots -> {"unset", "recorded", "passed"}]
      /\ clone \in [Slots -> {NoClone} \cup (Iters \X (1..MaxLen))]
  BY DEF TypeOK
<1>1. PICK s : s = cur[i]
  OBVIOUS
<1>2. /\ pc[i] = "decoded" /\ pc' = [pc EXCEPT ![i] = "yielded"]
      /\ UNCHANGED <<device, damaged, raw, read, target, ids, pos, pending, cur>>
  BY DEF Deliver, Goto
<1>3. s \in Slots
  BY <1>0, <1>1, <1>2 DEF IterInv, IterOK
<1>4. /\ read[s] = "ok" /\ event[s] # "recorded" /\ raw[s] = ids[i][Len(out[i]) + 1]
      /\ device = "cpu" => raw[s] \notin damaged
  BY <1>1, <1>2 DEF DataInv, ViewOK
<1>5. clone[s] = NoClone
  BY <1>3, <1>4 DEF DataInv, SlotOK
<1>6. Len(out[i]) \in Nat /\ Len(out[i]) + 1 \in 1..MaxLen
  <2>1. PICK a, l, o, z : a = pos[i] /\ l = Len(ids[i]) /\ o = Len(out[i]) /\ z = Len(pending[i])
    OBVIOUS
  <2>2. /\ a \in Nat /\ l \in 0..MaxLen /\ o \in Nat /\ z \in Nat /\ MaxLen \in Nat
        /\ o = a - z - 1 /\ a <= l
    BY <1>2, <2>1, IterTypes DEF IterInv, IterOK
  <2>3. o + 1 \in 1..MaxLen
    BY ONLY <2>2
  <2> QED
    BY <2>1, <2>2, <2>3
<1>7. \A m \in Iters : \A n \in 1..Len(pending[m]) : pending[m][n] \in Slots /\ pending[m][n] # s
  <2>1. ASSUME NEW m \in Iters, In(pending[m], s) PROVE FALSE
    <3>1. HeldBy(i, s) /\ HeldBy(m, s)
      BY <1>1, <2>1 DEF HeldBy
    <3> QED
      BY <1>1, <1>3, <2>1, <3>1 DEF SlotInv
  <2> QED
    BY <1>0, <2>1 DEF In
<1>8. \A m \in Iters : m # i => cur[m] # s
  BY <1>1, <1>3 DEF SlotInv, HeldBy
<1>9. PICK x, k : k = Len(out[i]) + 1 /\ x = IF device = "cpu" THEN raw[s] ELSE InFlight
  OBVIOUS
<1>10. /\ out' = [out EXCEPT ![i] = Append(out[i], x)]
       /\ IF device = "cpu" THEN UNCHANGED <<event, clone>>
          ELSE /\ event' = [event EXCEPT ![s] = "recorded"]
               /\ clone' = [clone EXCEPT ![s] = <<i, k>>]
  BY <1>1, <1>9 DEF Deliver
<1>11. x \in Bytes \cup {InFlight}
  BY <1>3, <1>9 DEF TypeOK
<1>12. PICK o : o = Append(out[i], x)
  OBVIOUS
<1>13. /\ Len(o) = k /\ k = Len(out[i]) + 1 /\ k \in Nat
       /\ \A n \in 1..Len(out[i]) : o[n] = out[i][n]
       /\ o[k] = x
  BY <1>0, <1>6, <1>9, <1>11, <1>12, AppendProperties
<1>14. /\ out'[i] = o /\ pc'[i] = "yielded"
       /\ \A m \in Iters : m # i => out'[m] = out[m] /\ pc'[m] = pc[m]
  BY <1>0, <1>2, <1>10, <1>12
<1>15. \A t \in Slots : t # s => event'[t] = event[t] /\ clone'[t] = clone[t]
  BY <1>0, <1>10
<1>16. OutOK(i)'
  <2> SUFFICES ASSUME NEW n \in 1..Len(o)
               PROVE  /\ o[n] \in {ids[i][n], InFlight}
                      /\ device = "cpu" => o[n] \notin damaged
    BY <1>2, <1>14 DEF OutOK
  <2>1. CASE n = k
    BY <1>4, <1>9, <1>13, <2>1
  <2>2. CASE n # k
    <3>1. n \in 1..Len(out[i])
      BY <1>6, <1>13, <2>2
    <3> QED
      BY <1>13, <3>1 DEF DataInv, OutOK
  <2> QED
    BY <2>1, <2>2
<1>17. ASSUME NEW m \in Iters, m # i PROVE OutOK(m)'
  BY <1>2, <1>14, <1>17, OutFrame DEF DataInv
<1>18. ReadOK(i)' /\ ViewOK(i)'
  <2>1. ViewOK(i)'
    BY <1>14 DEF ViewOK
  <2> SUFFICES ASSUME NEW n \in 1..Len(pending[i])
               PROVE  /\ event'[pending[i][n]] # "recorded"
                      /\ read[pending[i][n]] = "ok" => raw[pending[i][n]] = target[pending[i][n]]
                      /\ target[pending[i][n]] = ids[i][Len(o) + n]
    BY <1>2, <1>14, <2>1 DEF ReadOK
  <2>2. event'[pending[i][n]] = event[pending[i][n]]
    BY <1>7, <1>15
  <2>3. /\ event[pending[i][n]] # "recorded"
        /\ read[pending[i][n]] = "ok" => raw[pending[i][n]] = target[pending[i][n]]
        /\ target[pending[i][n]] = ids[i][Len(out[i]) + 1 + n]
    BY <1>2 DEF DataInv, ReadOK
  <2> QED
    BY <1>13, <2>2, <2>3
<1>19. ASSUME NEW m \in Iters, m # i PROVE ReadOK(m)' /\ ViewOK(m)'
  <2>1. ASSUME NEW t, In(pending[m], t) PROVE t \in Slots /\ t # s
    BY <1>7, <2>1 DEF In
  <2>2. /\ ReadOK(m) /\ pending'[m] = pending[m] /\ out'[m] = out[m] /\ pc'[m] = pc[m]
        /\ ViewOK(m) /\ cur'[m] = cur[m]
    BY <1>2, <1>14, <1>19 DEF DataInv
  <2>3. ReadOK(m)'
    BY <1>2, <1>15, <2>1, <2>2, ReadFrame
  <2>4. ViewOK(m)'
    <3>1. pc[m] = "decoded" => cur[m] \in Slots /\ cur[m] # s
      BY <1>0, <1>8, <1>19 DEF IterInv, IterOK
    <3> QED
      BY <1>2, <1>15, <2>2, <3>1 DEF ViewOK
  <2> QED
    BY <2>3, <2>4
<1>20. ASSUME NEW t \in Slots PROVE SlotOK(t)'
  <2>1. CASE t # s
    <3>1. ASSUME NEW m \in Iters PROVE Len(out[m]) <= Len(out'[m]) /\ Len(out'[m]) \in Nat
      <4>1. CASE m = i
        <5>1. PICK l : l = Len(out[i])
          OBVIOUS
        <5>2. l \in Nat /\ k = l + 1 /\ Len(out'[m]) = k
          BY <1>6, <1>13, <1>14, <4>1, <5>1
        <5>3. l <= k /\ k \in Nat
          BY ONLY <5>2
        <5> QED
          BY <4>1, <5>1, <5>2, <5>3
      <4>2. CASE m # i
        <5>1. out'[m] = out[m] /\ Len(out[m]) \in Nat
          BY <1>0, <1>14, <4>2, LenProperties
        <5> QED
          BY <5>1
      <4> QED
        BY <4>1, <4>2
    <3> QED
      BY <1>2, <1>15, <2>1, <3>1, CloneFrame DEF DataInv
  <2>2. CASE t = s /\ device = "cpu"
    BY <1>2, <1>4, <1>5, <1>10, <2>2 DEF DataInv, SlotOK
  <2>3. CASE t = s /\ device # "cpu"
    <3>1. device = "cuda"
      BY <2>3 DEF TypeOK
    <3>2. event'[s] = "recorded" /\ clone'[s] = <<i, k>>
      BY <1>0, <1>3, <1>10, <2>3
    <3>3. <<i, k>> # NoClone /\ k \in 1..Len(out'[i])
      BY <1>6, <1>13, <1>14, ConstantsAssumption
    <3>4. target[s] \in Blocks
      BY <1>3, <1>4 DEF DataInv, SlotOK
    <3> QED
      BY <1>2, <1>4, <1>9, <2>3, <3>1, <3>2, <3>3, <3>4 DEF SlotOK
  <2> QED
    BY <2>1, <2>2, <2>3
<1> QED
  BY <1>16, <1>17, <1>18, <1>19, <1>20 DEF DataInv

(* A pool thread writes only into slots that no clone reads.               *)
LEMMA ReadData ==
    ASSUME TypeOK, IterInv, DataInv, NEW s \in Slots,
           ReadBegins(s) \/ ReadEnds(s) \/ ReadFails(s)
    PROVE  DataInv'
<1>0. /\ raw \in [Slots -> Bytes]
      /\ read \in [Slots -> {"idle", "submitted", "running", "ok", "error"}]
      /\ pending \in [Iters -> Seq(Slots)] /\ cur \in [Iters -> Slots \cup {NoSlot}]
  BY DEF TypeOK
<1>1. /\ read[s] \in {"submitted", "running"}
      /\ UNCHANGED <<device, damaged, target, event, clone, pc, ids, pending, cur, out>>
      /\ \/ read'[s] = "ok" /\ raw'[s] = target[s]
         \/ read'[s] \in {"running", "error"}
      /\ \A t \in Slots : t # s => read'[t] = read[t] /\ raw'[t] = raw[t]
  BY <1>0 DEF ReadBegins, ReadEnds, ReadFails, iterVars
<1>2. clone[s] = NoClone /\ target[s] \in Blocks
  BY <1>1 DEF DataInv, SlotOK
<1>3. ASSUME NEW i \in Iters PROVE ReadOK(i)' /\ ViewOK(i)' /\ OutOK(i)'
  <2>1. OutOK(i)'
    BY <1>1 DEF DataInv, OutOK
  <2>4. ViewOK(i)'
    <3>1. ViewOK(i)
      BY DEF DataInv
    <3>2. pc[i] = "decoded" => cur[i] \in Slots /\ cur[i] # s
      BY <1>0, <1>1, <3>1 DEF IterInv, IterOK, ViewOK
    <3> QED
      BY <1>1, <3>1, <3>2 DEF ViewOK
  <2>2. ASSUME NEW n \in 1..Len(pending[i]), read'[pending[i][n]] = "ok"
        PROVE  raw'[pending[i][n]] = target[pending[i][n]]
    <3>1. CASE pending[i][n] = s
      BY <1>1, <2>2, <3>1
    <3>2. CASE pending[i][n] # s
      <4>1. pending[i][n] \in Slots
        BY <1>0
      <4> QED
        BY <1>1, <2>2, <3>2, <4>1 DEF DataInv, ReadOK
    <3> QED
      BY <3>1, <3>2
  <2>3. ReadOK(i)'
    BY <1>1, <2>2 DEF DataInv, ReadOK
  <2> QED
    BY <2>1, <2>3, <2>4
<1>4. ASSUME NEW t \in Slots PROVE SlotOK(t)'
  <2>1. CASE t = s
    BY <1>1, <1>2, <2>1 DEF DataInv, SlotOK
  <2>2. CASE t # s
    BY <1>1, <2>2 DEF DataInv, SlotOK
  <2> QED
    BY <2>1, <2>2
<1> QED
  BY <1>3, <1>4 DEF DataInv

(* The clones of a slot fill their delivery with the block it asked for.   *)
LEMMA StreamData ==
    ASSUME TypeOK, IterInv, DataInv, NEW s \in Slots, StreamClones(s)
    PROVE  DataInv'
<1>0. /\ event \in [Slots -> {"unset", "recorded", "passed"}]
      /\ clone \in [Slots -> {NoClone} \cup (Iters \X (1..MaxLen))]
      /\ out \in [Iters -> Seq(Bytes \cup {InFlight})]
      /\ pending \in [Iters -> Seq(Slots)] /\ cur \in [Iters -> Slots \cup {NoSlot}]
  BY DEF TypeOK
<1>1. /\ clone[s] # NoClone /\ clone' = [clone EXCEPT ![s] = NoClone]
      /\ event' = [event EXCEPT ![s] = "passed"]
      /\ UNCHANGED <<device, damaged, raw, read, target, pc, ids, pending, cur>>
  BY DEF StreamClones
<1>2. /\ device = "cuda" /\ clone[s][2] \in 1..Len(out[clone[s][1]])
      /\ raw[s] = ids[clone[s][1]][clone[s][2]]
  BY <1>1 DEF DataInv, SlotOK
<1>3. /\ \A m \in Iters : Len(out'[m]) = Len(out[m]) /\ Len(out[m]) \in Nat
      /\ \A m \in Iters : \A n \in 1..Len(out[m]) :
            out'[m][n] = IF <<m, n>> = clone[s] THEN raw[s] ELSE out[m][n]
  BY <1>0, <1>2, StreamType
<1>4. /\ event'[s] = "passed" /\ clone'[s] = NoClone
      /\ \A t \in Slots : t # s => event'[t] = event[t] /\ clone'[t] = clone[t]
  BY <1>0, <1>1
<1>5. ASSUME NEW i \in Iters PROVE ReadOK(i)' /\ ViewOK(i)' /\ OutOK(i)'
  <2>5. ViewOK(i)'
    <3>1. ViewOK(i)
      BY DEF DataInv
    <3>2. pc[i] = "decoded" => cur[i] \in Slots
      BY <1>0 DEF IterInv, IterOK
    <3> QED
      BY <1>1, <1>3, <1>4, <3>1, <3>2 DEF ViewOK
  <2>1. \A t : In(pending[i], t) => event'[t] = event[t] \/ event'[t] # "recorded"
    BY <1>0, <1>4 DEF In
  <2>2. ReadOK(i)'
    BY <1>1, <1>3, <2>1, ReadFrame DEF DataInv
  <2>3. ASSUME NEW n \in 1..Len(out[i])
        PROVE  out'[i][n] \in {ids[i][n], InFlight}
    <3>1. out[i][n] \in {ids[i][n], InFlight}
      BY DEF DataInv, OutOK
    <3>2. CASE <<i, n>> = clone[s]
      BY <1>2, <1>3, <3>2
    <3>3. CASE <<i, n>> # clone[s]
      BY <1>3, <3>1, <3>3
    <3> QED
      BY <3>2, <3>3
  <2>4. OutOK(i)'
    BY <1>1, <1>2, <1>3, <2>3 DEF OutOK
  <2> QED
    BY <2>2, <2>4, <2>5
<1>6. ASSUME NEW t \in Slots PROVE SlotOK(t)'
  <2>1. CASE t = s
    BY <1>1, <1>4, <2>1 DEF DataInv, SlotOK
  <2>2. CASE t # s
    <3>1. \A m \in Iters : Len(out[m]) <= Len(out'[m]) /\ Len(out'[m]) \in Nat
      BY <1>3
    <3> QED
      BY <1>1, <1>4, <2>2, <3>1, CloneFrame DEF DataInv
  <2> QED
    BY <2>1, <2>2
<1> QED
  BY <1>5, <1>6 DEF DataInv

(* Every step keeps slots and deliveries right. *)
LEMMA DataStep ==
    ASSUME TypeOK, SlotInv, IterInv, DataInv, [Next]_vars
    PROVE  DataInv'
<1>1. ASSUME NEW i \in Iters, GetSlot(i) \/ EndOfBlocks(i) \/ Resume(i) \/ Abandon(i)
      PROVE  DataInv'
  <2>1. UNCHANGED <<device, damaged, raw, read, target, event, clone, ids, out, pending>>
    BY <1>1 DEF GetSlot, EndOfBlocks, Resume, Abandon, slotVars, iterVars
  <2>2. /\ pc[i] \in Asking /\ pc'[i] # "decoded"
        /\ \A m \in Iters : m # i => pc'[m] = pc[m] /\ cur'[m] = cur[m]
    BY <1>1 DEF GetSlot, EndOfBlocks, Resume, Abandon, Goto, Asking, TypeOK, iterVars
  <2> QED
    BY <2>1, <2>2, DataFrame
<1>2. CASE Close
  BY <1>2, DataFrame DEF Close, slotVars, iterVars
<1>3. CASE UNCHANGED vars
  BY <1>3, DataFrame DEF vars
<1> QED
  BY <1>1, <1>2, <1>3, StartData, SubmitReadData, ReadRaisesData, DecodeData,
     DeliverData, ReadData, StreamData DEF Next

(***************************************************************************)
(* The inductive invariant.                                                *)
(***************************************************************************)
(* At first every slot is free, each once. *)
LEMMA InitFree ==
    ASSUME Init
    PROVE  /\ free \in Seq(Slots) /\ Len(free) = Cardinality(Slots)
           /\ Once(free) /\ \A s \in Slots : In(free, s)
<1> DEFINE n == Cardinality(Slots)
<1>1. IsFiniteSet(Slots) /\ n \in Nat
  BY FS_CardinalityType, ConstantsAssumption
<1>2. free \in [1..n -> Slots] /\ \A a, b \in DOMAIN free : free[a] = free[b] => a = b
  BY DEF Init
<1>3. IsFiniteSet(1..n) /\ Cardinality(1..n) = n
  BY <1>1, FS_Interval
<1>4. free \in Injection(1..n, Slots)
  BY <1>2 DEF Injection, IsInjective
<1>5. free \in Surjection(1..n, Slots)
  BY <1>1, <1>3, <1>4, FS_Injection
<1>6. \A s \in Slots : \E k \in 1..n : free[k] = s
  BY <1>5 DEF Surjection
<1> HIDE DEF n
<1>7. free \in Seq(Slots) /\ Len(free) = n
  BY <1>1, <1>2
<1>8. Once(free)
  BY <1>2, <1>7 DEF Once
<1>9. \A s \in Slots : In(free, s)
  BY <1>6, <1>7 DEF In
<1> QED
  BY <1>7, <1>8, <1>9 DEF n

(* The invariant holds at first. *)
LEMMA InvInit == Init => IInv
<1> SUFFICES ASSUME Init PROVE IInv
  OBVIOUS
<1>1. /\ free \in Seq(Slots) /\ Once(free) /\ \A s \in Slots : In(free, s)
  BY InitFree
<1>2. /\ \A i \in Iters : /\ pc[i] = "idle" /\ ids[i] = <<>> /\ pos[i] = 0 /\ prime[i] = 0
                          /\ pending[i] = <<>> /\ cur[i] = NoSlot /\ out[i] = <<>>
      /\ \A s \in Slots : /\ read[s] = "idle" /\ event[s] = "unset" /\ clone[s] = NoClone
                          /\ raw[s] = Blank /\ target[s] = Missing
  BY DEF Init
<1>3. TypeOK
  <2>1. /\ MaxLen \in Nat /\ MaxFaults \in Nat /\ Blank \in Bytes /\ 0 \in 0..MaxLen
        /\ "idle" \in Stages /\ 0 \in 0..MaxFaults
    BY ConstantsAssumption DEF Bytes, Stages
  <2>2. <<>> \in Seq(Slots) /\ <<>> \in Seq(Bytes \cup {InFlight})
    OBVIOUS
  <2> QED
    BY <1>1, <2>1, <2>2 DEF TypeOK, Init
<1>4. Len(<<>>) = 0 /\ 1..0 = {}
  OBVIOUS
<1>5. SlotInv
  <2>1. \A i \in Iters : Once(pending[i])
    BY <1>2, <1>4 DEF Once
  <2>2. \A i \in Iters, s \in Slots : ~In(pending[i], s) /\ ~HeldBy(i, s)
    BY <1>2, <1>4, ConstantsAssumption DEF In, HeldBy
  <2> QED
    BY <1>1, <2>1, <2>2 DEF SlotInv
<1>6. IterInv
  BY <1>2, <1>4 DEF IterInv, IterOK
<1>7. DataInv
  BY <1>2, <1>4 DEF DataInv, ReadOK, ViewOK, OutOK, SlotOK
<1> QED
  BY <1>3, <1>5, <1>6, <1>7 DEF IInv

(* The invariant holds in every reachable state. *)
LEMMA Invariance == Spec => []IInv
<1>1. IInv /\ [Next]_vars => IInv'
  BY SlotStep, IterStep, DataStep DEF IInv
<1> QED
  BY InvInit, <1>1, PTL DEF Spec

(* Every variable keeps its type. *)
THEOREM TypeCorrect == Spec => []TypeOK
<1>1. IInv => TypeOK
  BY DEF IInv
<1> QED
  BY Invariance, <1>1, PTL

(* Every yielded block is the one asked for at its place, whole, also      *)
(* after its slot was read into again.                                     *)
THEOREM DeliveriesIntact == Spec => []DeliveredIntact
<1>1. IInv => DeliveredIntact
  BY DEF IInv, DataInv, OutOK, DeliveredIntact
<1> QED
  BY Invariance, <1>1, PTL

(* A slot has one place. *)
LEMMA OnePlace ==
    ASSUME TypeOK, SlotInv, NEW s \in Slots
    PROVE  Cardinality(Places(s)) = 1
<1> DEFINE F == {<<"free", n>> : n \in {m \in 1..Len(free) : free[m] = s}}
           P(i) == {<<i, n>> : n \in {m \in 1..Len(pending[i]) : pending[i][m] = s}}
           C == {<<i, 0>> : i \in {m \in Iters : cur[m] = s}}
<1>0. Places(s) = F \cup (UNION {P(i) : i \in Iters}) \cup C
  BY DEF Places
<1>1. \A x : x \in Places(s) <=> x \in F \/ (\E i \in Iters : x \in P(i)) \/ x \in C
  <2> HIDE DEF F, P, C
  <2> QED
    BY <1>0
<1>2. SUFFICES \E x : Places(s) = {x}
  BY FS_Singleton
<1>3. F = {} <=> ~In(free, s)
  BY DEF In
<1>4. ASSUME NEW i \in Iters PROVE P(i) = {} <=> ~In(pending[i], s)
  BY DEF In
<1>5. ASSUME NEW i \in Iters, HeldBy(i, s), NEW m \in Iters, HeldBy(m, s) PROVE m = i
  BY <1>5 DEF SlotInv
<1>6. CASE In(free, s)
  <2>1. PICK n \in 1..Len(free) : free[n] = s
    BY <1>6 DEF In
  <2>2. {m \in 1..Len(free) : free[m] = s} = {n}
    BY <2>1 DEF SlotInv, Once
  <2>3. F = {<<"free", n>>}
    BY <2>2
  <2>4. \A i \in Iters : ~In(pending[i], s) /\ cur[i] # s
    BY <1>6 DEF SlotInv, HeldBy
  <2>5. (\A i \in Iters : P(i) = {}) /\ C = {}
    BY <1>4, <2>4
  <2> HIDE DEF F, P, C
  <2> QED
    BY <1>1, <2>3, <2>5
<1>7. ASSUME NEW i \in Iters, In(pending[i], s) PROVE \E x : Places(s) = {x}
  <2>1. PICK n \in 1..Len(pending[i]) : pending[i][n] = s
    BY <1>7 DEF In
  <2>2. {m \in 1..Len(pending[i]) : pending[i][m] = s} = {n}
    BY <2>1 DEF SlotInv, Once
  <2>3. P(i) = {<<i, n>>}
    BY <2>2
  <2>4. HeldBy(i, s) /\ ~In(free, s) /\ cur[i] # s
    BY <1>7 DEF SlotInv, HeldBy
  <2>5. \A m \in Iters : m # i => ~In(pending[m], s) /\ cur[m] # s
    BY <2>4 DEF SlotInv, HeldBy
  <2>6. \A m \in Iters : m # i => P(m) = {}
    BY <1>4, <2>5
  <2>7. C = {} /\ F = {}
    BY <1>3, <2>4, <2>5
  <2> HIDE DEF F, P, C
  <2> QED
    BY <1>1, <2>3, <2>6, <2>7
<1>8. ASSUME NEW i \in Iters, cur[i] = s PROVE \E x : Places(s) = {x}
  <2>1. HeldBy(i, s) /\ ~In(free, s) /\ ~In(pending[i], s)
    BY <1>8 DEF SlotInv, HeldBy
  <2>2. \A m \in Iters : m # i => ~In(pending[m], s) /\ cur[m] # s
    BY <2>1 DEF SlotInv, HeldBy
  <2>3. (\A m \in Iters : P(m) = {}) /\ F = {}
    BY <1>3, <1>4, <2>1, <2>2
  <2>4. C = {<<i, 0>>}
    BY <1>8, <2>2
  <2> HIDE DEF F, P, C
  <2> QED
    BY <1>1, <2>3, <2>4
<1> QED
  BY <1>6, <1>7, <1>8 DEF SlotInv, HeldBy

(* No slot is handed out twice or lost by a generator that still runs. *)
THEOREM SlotsConserved == Spec => []SlotConservation
<1>1. ASSUME IInv, NEW i \in Iters, pc[i] \in {"idle", "done"}
      PROVE  pending[i] = <<>> /\ cur[i] = NoSlot
  BY <1>1 DEF IInv, IterInv, IterOK
<1>2. IInv => SlotConservation
  BY <1>1, OnePlace DEF IInv, SlotConservation
<1> QED
  BY Invariance, <1>2, PTL

(***************************************************************************)
(* One generator at a time.                                                *)
(***************************************************************************)
(* A step of the only active generator that leaves it room.                *)
LEMMA SoloFrame ==
    ASSUME SoloInv, NEW i \in Iters, RoomOK(i)', \A m \in Iters : m # i => ~Active(m),
           \A m \in Iters : m # i => pc'[m] = pc[m]
    PROVE  SoloInv'
<1>1. ASSUME NEW m \in Iters, m # i PROVE ~Active(m)' /\ RoomOK(m)'
  BY <1>1 DEF Active, Ended, RoomOK
<1> QED
  BY <1>1 DEF SoloInv

(* A generator that runs alone keeps finding room in the free queue. *)
LEMMA SoloStep ==
    ASSUME ~Concurrent, TypeOK, IterInv, SoloInv, [Next]_vars
    PROVE  SoloInv'
<1>0. /\ pc \in [Iters -> Stages] /\ prime \in [Iters -> 0..MaxLen]
      /\ free \in Seq(Slots) /\ cur \in [Iters -> Slots \cup {NoSlot}]
  BY DEF TypeOK
<1>1. ASSUME NEW i \in Iters, Active(i) PROVE \A m \in Iters : m # i => ~Active(m)
  BY <1>1 DEF SoloInv
<1>2. ASSUME NEW i \in Iters, NEW list \in IdLists, Start(i, list) PROVE SoloInv'
  <2>1. PICK p : p = PrimeCount(Len(list))
    OBVIOUS
  <2>2. p \in Nat /\ p <= Len(free)
    BY <2>1, PrimeType
  <2>3. /\ free' = free /\ prime'[i] = p /\ pc'[i] = IF p = 0 THEN "loop" ELSE "get"
        /\ \A m \in Iters : m # i => pc'[m] = pc[m] /\ ~Active(m)
    BY <1>0, <1>2, <2>1 DEF Start, Goto, Active
  <2>4. RoomOK(i)'
    BY <2>2, <2>3 DEF RoomOK
  <2> QED
    BY <2>3, <2>4, SoloFrame
<1>3. ASSUME NEW i \in Iters, GetSlot(i) PROVE SoloInv'
  <2>1. Len(free') = Len(free) - 1 /\ Len(free) \in Nat
    BY <1>0, <1>3, HeadTailProperties DEF GetSlot
  <2>2. /\ prime' = prime /\ pc'[i] = "sync" /\ pc[i] = "get"
        /\ \A m \in Iters : m # i => pc'[m] = pc[m]
    BY <1>0, <1>3 DEF GetSlot, Goto
  <2>3. prime[i] \in Nat /\ prime[i] <= Len(free)
    BY <1>0, <2>2, IterTypes DEF SoloInv, RoomOK
  <2>4. RoomOK(i)'
    BY <2>1, <2>2, <2>3 DEF RoomOK
  <2> QED
    BY <1>1, <2>2, <2>4, SoloFrame DEF Active, Ended
<1>4. ASSUME NEW i \in Iters, SubmitRead(i) PROVE SoloInv'
  <2>1. /\ free' = free /\ pc[i] = "sync"
        /\ \/ pc' = [pc EXCEPT ![i] = "failed"]
           \/ Accepted(i, cur[i])
    BY <1>4 DEF SubmitRead, Fail, Goto
  <2>2. \A m \in Iters : m # i => pc'[m] = pc[m]
    BY <1>0, <2>1 DEF Accepted, Goto
  <2>3. prime[i] \in Nat /\ Len(free) \in Nat /\ prime[i] <= Len(free) + 1
    BY <2>1, IterTypes DEF SoloInv, RoomOK
  <2>4. CASE pc' = [pc EXCEPT ![i] = "failed"]
    <3>1. RoomOK(i)'
      BY <1>0, <2>4 DEF RoomOK
    <3> QED
      BY <1>1, <2>1, <2>2, <3>1, SoloFrame DEF Active, Ended
  <2>5. CASE Accepted(i, cur[i])
    <3>1. /\ prime'[i] = IF prime[i] = 0 THEN 0 ELSE prime[i] - 1
          /\ pc'[i] = IF prime[i] > 1 THEN "get" ELSE "loop"
      BY <1>0, <2>5 DEF Accepted, Goto
    <3>2. RoomOK(i)'
      BY <2>1, <2>3, <3>1 DEF RoomOK
    <3> QED
      BY <1>1, <2>1, <2>2, <3>2, SoloFrame DEF Active, Ended
  <2> QED
    BY <2>1, <2>4, <2>5
<1>5. ASSUME NEW i \in Iters, Resume(i) PROVE SoloInv'
  <2>1. /\ pc[i] = "yielded" /\ free' = Append(free, cur[i]) /\ prime' = prime
        /\ pc'[i] \in {"get", "loop"}
        /\ \A m \in Iters : m # i => pc'[m] = pc[m]
    BY <1>0, <1>5 DEF Resume, Goto
  <2>2. cur[i] \in Slots /\ prime[i] = 0
    BY <1>0, <2>1 DEF IterInv, IterOK
  <2>3. Len(free') = Len(free) + 1 /\ Len(free) \in Nat
    BY <1>0, <2>1, <2>2, AppendProperties
  <2>4. RoomOK(i)'
    BY <2>1, <2>2, <2>3 DEF RoomOK
  <2> QED
    BY <1>1, <2>1, <2>4, SoloFrame DEF Active, Ended
<1>6. ASSUME NEW i \in Iters,
             EndOfBlocks(i) \/ ReadRaises(i) \/ Decode(i) \/ Deliver(i) \/ Abandon(i)
      PROVE  SoloInv'
  <2>1. /\ pc[i] \in {"loop", "decoded", "yielded"}
        /\ pc'[i] \in {"done", "failed", "decoded", "yielded", "abandoned"}
        /\ \A m \in Iters : m # i => pc'[m] = pc[m]
    BY <1>0, <1>6 DEF EndOfBlocks, ReadRaises, Decode, Deliver, Abandon, Goto
  <2>2. RoomOK(i)'
    BY <2>1 DEF RoomOK
  <2> QED
    BY <1>1, <2>1, <2>2, SoloFrame DEF Active, Ended
<1>7. ASSUME UNCHANGED <<pc, prime, free>> PROVE SoloInv'
  BY <1>7 DEF SoloInv, RoomOK, Active
<1>8. ASSUME NEW s \in Slots, ReadBegins(s) \/ ReadEnds(s) \/ ReadFails(s) \/ StreamClones(s)
      PROVE  SoloInv'
  BY <1>7, <1>8 DEF ReadBegins, ReadEnds, ReadFails, StreamClones, iterVars
<1>9. CASE Close \/ UNCHANGED vars
  BY <1>7, <1>9 DEF Close, vars, iterVars
<1> QED
  BY <1>2, <1>3, <1>4, <1>5, <1>6, <1>8, <1>9 DEF Next

(* Where generators run one at a time, free.get() in submit never blocks:  *)
(* also after earlier generators failed or were dropped with their slots.  *)
THEOREM SubmitFindsSlot ==
    ASSUME ~Concurrent
    PROVE  Spec => []GetNeverBlocks
<1>1. Init => IInv /\ SoloInv
  <2>1. Init => SoloInv
    BY DEF Init, SoloInv, RoomOK, Active, Ended
  <2> QED
    BY <2>1, InvInit
<1>2. IInv /\ SoloInv /\ [Next]_vars => IInv' /\ SoloInv'
  BY SlotStep, IterStep, DataStep, SoloStep DEF IInv
<1>3. IInv /\ SoloInv => GetNeverBlocks
  <2> SUFFICES ASSUME IInv, SoloInv, NEW i \in Iters, pc[i] = "get", free = <<>> PROVE FALSE
    BY DEF GetNeverBlocks
  <2>1. 1 <= Len(free) /\ Len(free) = 0
    BY DEF SoloInv, RoomOK
  <2> QED
    BY <2>1
<1> QED
  BY <1>1, <1>2, <1>3, PTL DEF Spec
=============================================================================
