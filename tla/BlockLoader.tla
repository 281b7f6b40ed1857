----------------------------- MODULE BlockLoader -----------------------------
(***************************************************************************)
(* AsyncBlockLoader (loader.py): a fixed set of record-sized buffers       *)
(* ("slots"), pool threads that read records into them, and generators     *)
(* (iter_blocks) that keep the free slots busy, detach each record and     *)
(* yield it in the order asked for.  With "cuda" slots the detaching       *)
(* clones run later, on the stream, and an event guards the slot's reuse.  *)
(*                                                                         *)
(* A slot's bytes are the block they came from, Torn while a read is under *)
(* way, or Blank.  A damaged block is one whose bytes on the medium do not *)
(* match its CRC.                                                          *)
(***************************************************************************)
EXTENDS Integers, Sequences, FiniteSets

CONSTANTS Slots,             \* one per unit of io_depth
          Iters,             \* generators, each used once
          Blocks,            \* block ids in the store's manifest
          Missing,           \* a block id that is not in the manifest
          Torn, Blank, InFlight, NoSlot, NoClone,
          Concurrent,        \* TRUE: two generators may be active at once
          MaxLen,            \* bound: block ids of one iteration
          MaxFaults          \* bound: reads that raise

ASSUME ConstantsAssumption ==
    /\ IsFiniteSet(Slots) /\ Slots # {}
    /\ NoSlot \notin Slots /\ NoClone \notin Iters \X (1..MaxLen)
    /\ {Torn, Blank, InFlight, Missing} \cap Blocks = {}
    /\ Cardinality({Torn, Blank, InFlight}) = 3
    /\ Concurrent \in BOOLEAN
    /\ MaxLen \in Nat /\ MaxFaults \in Nat

VARIABLES device,            \* "cpu" (pinned or not) or "cuda" (GPUDirect)
          damaged,           \* blocks damaged on the medium
          free,              \* self.free, a FIFO queue
          raw,               \* raw[s]: the bytes of slot s
          read, target,      \* read[s]: s's future; target[s]: its block
          event,             \* event[s]: reuse_event unset, or not yet passed
          clone,             \* clone[s]: the delivery the stream will fill from s
          closed,            \* the executor is shut down
          pc,                \* pc[i]: where generator i stands
          ids,               \* ids[i]: the block ids asked for
          pos,               \* pos[i]: block ids taken from source
          prime,             \* prime[i]: submissions left in the priming loop
          pending,           \* pending[i]: slots with a submitted read
          cur,               \* cur[i]: the slot generator i works on
          out,               \* out[i]: the bytes of the blocks yielded so far
          faults

slotVars == <<raw, read, target, event, clone>>
iterVars == <<ids, pos, prime, pending, cur, out>>
vars == <<device, damaged, free, raw, read, target, event, clone, closed,
          pc, ids, pos, prime, pending, cur, out, faults>>

Stages == {"idle", "get", "sync", "loop", "decoded", "yielded", "done", "failed", "abandoned"}
Ended  == {"done", "failed", "abandoned"}
Bytes  == Blocks \cup {Torn, Blank}

(* The lists a selector returns: ids of the layer, each at most once. *)
IdLists ==
    {s \in UNION {[1..n -> Blocks \cup {Missing}] : n \in 1..MaxLen} :
        \A a, b \in DOMAIN s : s[a] = s[b] => a = b}

TypeOK ==
    /\ device \in {"cpu", "cuda"}
    /\ damaged \subseteq Blocks
    /\ free \in Seq(Slots)
    /\ raw \in [Slots -> Bytes]
    /\ read \in [Slots -> {"idle", "submitted", "running", "ok", "error"}]
    /\ target \in [Slots -> Blocks \cup {Missing}]
    /\ event \in [Slots -> {"unset", "recorded", "passed"}]
    /\ clone \in [Slots -> {NoClone} \cup (Iters \X (1..MaxLen))]
    /\ closed \in BOOLEAN
    /\ pc \in [Iters -> Stages]
    /\ ids \in [Iters -> IdLists \cup {<<>>}]
    /\ pos \in [Iters -> 0..MaxLen]
    /\ prime \in [Iters -> 0..MaxLen]
    /\ pending \in [Iters -> Seq(Slots)]
    /\ cur \in [Iters -> Slots \cup {NoSlot}]
    /\ out \in [Iters -> Seq(Bytes \cup {InFlight})]
    /\ faults \in 0..MaxFaults

Init ==
    /\ device \in {"cpu", "cuda"}
    /\ damaged \in SUBSET Blocks
    /\ free \in [1..Cardinality(Slots) -> Slots]
    /\ \A a, b \in DOMAIN free : free[a] = free[b] => a = b
    /\ raw = [s \in Slots |-> Blank]
    /\ read = [s \in Slots |-> "idle"]
    /\ target = [s \in Slots |-> Missing]
    /\ event = [s \in Slots |-> "unset"]
    /\ clone = [s \in Slots |-> NoClone]
    /\ closed = FALSE
    /\ pc = [i \in Iters |-> "idle"]
    /\ ids = [i \in Iters |-> <<>>]
    /\ pos = [i \in Iters |-> 0]
    /\ prime = [i \in Iters |-> 0]
    /\ pending = [i \in Iters |-> <<>>]
    /\ cur = [i \in Iters |-> NoSlot]
    /\ out = [i \in Iters |-> <<>>]
    /\ faults = 0

Goto(i, stage) == pc' = [pc EXCEPT ![i] = stage]

(***************************************************************************)
(* The generator.                                                          *)
(***************************************************************************)
PrimeWholeDepth(n) == IF n < Cardinality(Slots) THEN n ELSE Cardinality(Slots)

(* min(free.qsize(), len(block_ids)) *)
PrimeCount(n) == IF n < Len(free) THEN n ELSE Len(free)

(* The first next() enters the body and sizes the priming loop. *)
Start(i, list) ==
    /\ pc[i] = "idle"
    /\ Concurrent \/ \A m \in Iters : pc[m] = "idle" \/ pc[m] \in Ended
    /\ ids' = [ids EXCEPT ![i] = list]
    /\ prime' = [prime EXCEPT ![i] = PrimeCount(Len(list))]
    /\ IF PrimeCount(Len(list)) = 0 THEN Goto(i, "loop") ELSE Goto(i, "get")
    /\ UNCHANGED <<device, damaged, free, slotVars, closed, pos, pending, cur, out, faults>>

(* submit: free.get() blocks until a slot is there. *)
GetSlot(i) ==
    /\ pc[i] = "get"
    /\ free # <<>>
    /\ cur' = [cur EXCEPT ![i] = Head(free)]
    /\ free' = Tail(free)
    /\ pos' = [pos EXCEPT ![i] = pos[i] + 1]
    /\ Goto(i, "sync")
    /\ UNCHANGED <<device, damaged, slotVars, closed, ids, prime, pending, out, faults>>

(* The exception leaves the generator; its slots stay where they are. *)
Fail(i) == Goto(i, "failed") /\ UNCHANGED <<prime, pending, cur>>

AcceptedCountsPast(i, s) ==
    /\ pending' = [pending EXCEPT ![i] = Append(pending[i], s)]
    /\ cur' = [cur EXCEPT ![i] = NoSlot]
    /\ prime' = [prime EXCEPT ![i] = prime[i] - 1]
    /\ Goto(i, IF prime[i] > 1 THEN "get" ELSE "loop")

Accepted(i, s) ==
    /\ pending' = [pending EXCEPT ![i] = Append(pending[i], s)]
    /\ cur' = [cur EXCEPT ![i] = NoSlot]
    /\ prime' = [prime EXCEPT ![i] = IF prime[i] = 0 THEN 0 ELSE prime[i] - 1]
    /\ Goto(i, IF prime[i] > 1 THEN "get" ELSE "loop")

(* submit, continued: wait for the slot's event, look the entry up (raises *)
(* KeyError), hand the read to the executor (raises once it is shut down). *)
SubmitReadNoWait(i) ==
    /\ pc[i] = "sync"
    /\ LET s == cur[i]
           b == ids[i][pos[i]]
       IN /\ event' = [event EXCEPT ![s] = "unset"]
          /\ IF b = Missing \/ closed
               THEN Fail(i) /\ UNCHANGED <<read, target>>
               ELSE /\ read' = [read EXCEPT ![s] = "submitted"]
                    /\ target' = [target EXCEPT ![s] = b]
                    /\ Accepted(i, s)
    /\ UNCHANGED <<device, damaged, free, raw, clone, closed, ids, pos, out, faults>>

SubmitRead(i) ==
    /\ pc[i] = "sync"
    /\ event[cur[i]] # "recorded"
    /\ LET s == cur[i]
           b == ids[i][pos[i]]
       IN /\ event' = [event EXCEPT ![s] = "unset"]
          /\ IF b = Missing \/ closed
               THEN Fail(i) /\ UNCHANGED <<read, target>>
               ELSE /\ read' = [read EXCEPT ![s] = "submitted"]
                    /\ target' = [target EXCEPT ![s] = b]
                    /\ Accepted(i, s)
    /\ UNCHANGED <<device, damaged, free, raw, clone, closed, ids, pos, out, faults>>

(* while pending: the generator returns when no read is left. *)
EndOfBlocks(i) ==
    /\ pc[i] = "loop"
    /\ pending[i] = <<>>
    /\ Goto(i, "done")
    /\ UNCHANGED <<device, damaged, free, slotVars, closed, iterVars, faults>>

(* pending.pop(0), and future.result() raises the read's exception. *)
ReadRaises(i) ==
    /\ pc[i] = "loop"
    /\ pending[i] # <<>>
    /\ read[Head(pending[i])] = "error"
    /\ Goto(i, "failed")
    /\ cur' = [cur EXCEPT ![i] = Head(pending[i])]
    /\ pending' = [pending EXCEPT ![i] = Tail(pending[i])]
    /\ UNCHANGED <<device, damaged, free, slotVars, closed, ids, pos, prime, out, faults>>

(* decode_record checks a host slot's CRC; device slots are not checked.   *)
Rejects(s) == device = "cpu" /\ raw[s] \in damaged

(* pending.pop(0), future.result(), decode: what follows are views into    *)
(* the slot, which other threads could still write.                        *)
Decode(i) ==
    /\ pc[i] = "loop"
    /\ pending[i] # <<>>
    /\ LET s == Head(pending[i]) IN
         /\ read[s] = "ok"
         /\ cur' = [cur EXCEPT ![i] = s]
         /\ Goto(i, IF Rejects(s) THEN "failed" ELSE "decoded")
    /\ pending' = [pending EXCEPT ![i] = Tail(pending[i])]
    /\ UNCHANGED <<device, damaged, free, slotVars, closed, ids, pos, prime, out, faults>>

(* Clone the views, yield.  The clones of a device slot are only enqueued; *)
(* the event is recorded behind them.                                      *)
Deliver(i) ==
    /\ pc[i] = "decoded"
    /\ Goto(i, "yielded")
    /\ LET s == cur[i] IN
         IF device = "cpu"
           THEN /\ out' = [out EXCEPT ![i] = Append(out[i], raw[s])]
                /\ UNCHANGED <<event, clone>>
           ELSE /\ out' = [out EXCEPT ![i] = Append(out[i], InFlight)]
                /\ event' = [event EXCEPT ![s] = "recorded"]
                /\ clone' = [clone EXCEPT ![s] = <<i, Len(out[i]) + 1>>]
    /\ UNCHANGED <<device, damaged, free, raw, read, target, closed, ids, pos, prime,
                   pending, cur, faults>>

(* The consumer asks for the next block: the slot goes back to the queue,  *)
(* and the next id is submitted.                                           *)
ResumeKeepsLast(i) ==
    /\ pc[i] = "yielded"
    /\ free' = IF pos[i] < Len(ids[i]) THEN Append(free, cur[i]) ELSE free
    /\ cur' = [cur EXCEPT ![i] = NoSlot]
    /\ Goto(i, IF pos[i] < Len(ids[i]) THEN "get" ELSE "loop")
    /\ UNCHANGED <<device, damaged, slotVars, closed, ids, pos, prime, pending, out, faults>>

Resume(i) ==
    /\ pc[i] = "yielded"
    /\ free' = Append(free, cur[i])
    /\ cur' = [cur EXCEPT ![i] = NoSlot]
    /\ Goto(i, IF pos[i] < Len(ids[i]) THEN "get" ELSE "loop")
    /\ UNCHANGED <<device, damaged, slotVars, closed, ids, pos, prime, pending, out, faults>>

(* The consumer drops the generator: it is closed at its yield. *)
Abandon(i) ==
    /\ pc[i] = "yielded"
    /\ Goto(i, "abandoned")
    /\ UNCHANGED <<device, damaged, free, slotVars, closed, iterVars, faults>>

(***************************************************************************)
(* Pool threads, the CUDA stream, close.                                   *)
(***************************************************************************)
ReadBegins(s) ==
    /\ read[s] = "submitted"
    /\ read' = [read EXCEPT ![s] = "running"]
    /\ raw' = [raw EXCEPT ![s] = Torn]
    /\ UNCHANGED <<device, damaged, free, target, event, clone, closed, pc, iterVars, faults>>

ReadEnds(s) ==
    /\ read[s] = "running"
    /\ read' = [read EXCEPT ![s] = "ok"]
    /\ raw' = [raw EXCEPT ![s] = target[s]]
    /\ UNCHANGED <<device, damaged, free, target, event, clone, closed, pc, iterVars, faults>>

(* An OS error or a short read, with the buffer partly written. *)
ReadFails(s) ==
    /\ read[s] = "running"
    /\ faults < MaxFaults
    /\ faults' = faults + 1
    /\ read' = [read EXCEPT ![s] = "error"]
    /\ UNCHANGED <<device, damaged, free, raw, target, event, clone, closed, pc, iterVars>>

(* The stream reaches the clones of slot s and the event behind them. *)
StreamClones(s) ==
    /\ clone[s] # NoClone
    /\ out' = [out EXCEPT ![clone[s][1]][clone[s][2]] = raw[s]]
    /\ clone' = [clone EXCEPT ![s] = NoClone]
    /\ event' = [event EXCEPT ![s] = "passed"]
    /\ UNCHANGED <<device, damaged, free, raw, read, target, closed, pc, ids, pos,
                   prime, pending, cur, faults>>

Close ==
    /\ ~closed
    /\ closed' = TRUE
    /\ UNCHANGED <<device, damaged, free, slotVars, pc, iterVars, faults>>

GeneratorStep(i) == \/ GetSlot(i) \/ SubmitRead(i) \/ EndOfBlocks(i)
                    \/ ReadRaises(i) \/ Decode(i) \/ Deliver(i)

ReadStep(s) == ReadBegins(s) \/ ReadEnds(s)

Next ==
    \/ \E i \in Iters :
         \/ \E list \in IdLists : Start(i, list)
         \/ GetSlot(i) \/ SubmitRead(i) \/ EndOfBlocks(i) \/ ReadRaises(i)
         \/ Decode(i) \/ Deliver(i) \/ Resume(i) \/ Abandon(i)
    \/ \E s \in Slots : ReadBegins(s) \/ ReadEnds(s) \/ ReadFails(s) \/ StreamClones(s)
    \/ Close

Spec == Init /\ [][Next]_vars

(* The generator's thread, the pool's threads and the stream keep running. *)
FairSpec ==
    /\ Spec
    /\ \A i \in Iters : WF_vars(GeneratorStep(i))
    /\ \A s \in Slots : WF_vars(ReadStep(s)) /\ WF_vars(StreamClones(s))

(***************************************************************************)
(* Properties.                                                             *)
(***************************************************************************)
(* Every yielded block is the one asked for at its place, whole, also      *)
(* after its slot was reused: the n-th delivery of a generator holds the   *)
(* n-th id (or its clone is still on the stream).  On the host path the    *)
(* bytes that were copied out are those the CRC check passed.              *)
DeliveredIntact ==
    \A i \in Iters : \A n \in 1..Len(out[i]) :
        /\ out[i][n] \in {ids[i][n], InFlight}
        /\ device = "cpu" => out[i][n] \notin damaged

Places(s) == {<<"free", n>> : n \in {m \in 1..Len(free) : free[m] = s}}
             \cup (UNION {{<<i, n>> : n \in {m \in 1..Len(pending[i]) : pending[i][m] = s}}
                             : i \in Iters})
             \cup {<<i, 0>> : i \in {m \in Iters : cur[m] = s}}

(* No slot is ever handed out twice or dropped by a live generator: each   *)
(* is once in the free queue or once with one generator.  A failed or      *)
(* abandoned generator keeps what it held, one that returned holds none.   *)
SlotConservation ==
    /\ \A s \in Slots : Cardinality(Places(s)) = 1
    /\ \A i \in Iters : pc[i] \in {"idle", "done"} => pending[i] = <<>> /\ cur[i] = NoSlot

(* Where one generator runs at a time, free.get() never blocks: the        *)
(* priming loop is sized by what is free, and each later submit follows a  *)
(* put.  A generator thus never waits for a slot that was lost earlier.    *)
GetNeverBlocks == \A i \in Iters : pc[i] = "get" => free # <<>>

(* A generator whose consumer asked for a block answers: it yields, ends   *)
(* or raises, also after earlier generators failed or were dropped.        *)
EveryNextAnswers ==
    \A i \in Iters : pc[i] \in {"get", "sync", "loop", "decoded"} ~> pc[i] \in {"yielded", "done", "failed"}

(* loader.py, class docstring: "slots provide backpressure by              *)
(* construction".  A generator that ends normally has yielded every block  *)
(* it was asked for.                                                       *)
DoneMeansComplete ==
    \A i \in Iters : pc[i] = "done" => Len(out[i]) = Len(ids[i])
=============================================================================
