------------------------- MODULE StreamedDecode_proofs -------------------------
(***************************************************************************)
(* Proofs about StreamedDecode, for any pools of cells and any number of   *)
(* calls, chunks, slots and faults.  HeldInv says who holds a cell and     *)
(* which mark in a queue will free it, FenceInv which wait keeps a stream  *)
(* behind the work it depends on, and DataInv what a cell will hold when   *)
(* a stream reaches the work that reads it; WaitInv says that waits are    *)
(* not circular, and LeakInv that no cell is lost.                         *)
(***************************************************************************)
EXTENDS StreamedDecode, SequenceTheorems, TLAPS

(***************************************************************************)
(* Work in a queue.                                                        *)
(***************************************************************************)
IsSeq(q) == q \in Seq({q[i] : i \in 1..Len(q)})

(* Place i of queue q: what it does and what it is about, whether it frees, *)
(* reads or writes cell x.                                                  *)
At(q, i, do, about) == i \in 1..Len(q) /\ q[i].do = do /\ q[i].about = about
Frees(q, i, x)  == i \in 1..Len(q) /\ q[i].do = "mark" /\ x \in q[i].writes
Reads(q, i, x)  == i \in 1..Len(q) /\ \E k \in 1..Len(q[i].reads) : q[i].reads[k] = x
Writes(q, i, x) == i \in 1..Len(q) /\ q[i].do # "mark" /\ x \in q[i].writes

(* Work (do, about) in queue p comes before the event; while it is not     *)
(* done the event has not happened, and work (for, on) in queue q is       *)
(* behind a wait for it.                                                   *)
Fenced(happened, p, do, about, event, q, for, on) ==
    \A i \in 1..Len(p) : At(p, i, do, about) =>
        /\ event \notin happened
        /\ \A j \in 1..Len(p) : At(p, j, "record", event) => i < j
        /\ \A j \in 1..Len(q) : At(q, j, for, on) =>
              \E k \in 1..(j - 1) : At(q, k, "wait", event)

(* When queue q is done up to place n, cell x, that holds v now, holds     *)
(* what work (do, about) writes: it will be the last to write it, or was.  *)
Here(v, q, n, x, do, about, values) ==
    \/ \E i \in 1..n : /\ At(q, i, do, about) /\ Writes(q, i, x)
                       /\ \A j \in (i + 1)..n : ~Writes(q, j, x)
    \/ v \in values /\ \A j \in 1..n : ~Writes(q, j, x)

(***************************************************************************)
(* The inductive invariant.                                                *)
(***************************************************************************)
(* Chunks of the call that were staged, and that were given to compute;    *)
(* the calls that were given their result.                                 *)
StagedSoFar == IF pc = "stage" THEN chunk - 1 ELSE chunk
RunSoFar    == IF pc \in {"stage", "sync", "rebind", "run"} THEN chunk - 1 ELSE chunk
ClosedCalls  == IF pc = "idle" THEN call ELSE call - 1

(* A chunk of a call so far, of the present one among the first c. *)
Upto(k, c) == k \in Chunks /\ k[1] <= call /\ (k[1] = call => k[2] <= c)

(* The variables of the Python thread. *)
HostTypeOK ==
    /\ direct \in BOOLEAN
    /\ DOMAIN queue = Streams /\ \A s \in Streams : IsSeq(queue[s])
    /\ DOMAIN mem = Cells /\ free \subseteq Cells
    /\ user \in [Cells -> Streams \cup {"none"}]
    /\ pc \in {"idle", "next", "stage", "sync", "rebind", "run", "finish"}
    /\ call \in 0..MaxCalls /\ chunks \in 0..MaxChunks /\ chunk \in 0..chunks
    /\ {query, clone} \subseteq CallerCells \cup {NoCell}
    /\ {tensors, current} \subseteq TransferCells \cup {NoCell}
    /\ merged \in ComputeCells \cup {NoCell}
    /\ faults \in 0..MaxFaults

(* Which cells it holds at each step, and the streams named for them. *)
HostInv ==
    /\ pc = "idle" <=> query = NoCell
    /\ pc # "idle" => call > 0 /\ chunks > 0
    /\ pc \in {"stage", "sync", "rebind", "run"} => chunk > 0
    /\ pc = "finish" => chunk = chunks
    /\ pc = "sync" => direct
    /\ clone # NoCell <=> direct /\ pc # "idle" /\ chunk > 0
    /\ current # NoCell <=> pc \in {"sync", "rebind"}
    /\ merged # NoCell <=> pc # "idle" /\ RunSoFar > 0
    /\ tensors # NoCell <=> merged # NoCell \/ pc = "run"
    /\ clone # NoCell => clone # query /\ user[clone] = "none"
    /\ current # NoCell => current # tensors /\ user[current] = "none"
    /\ query # NoCell => user[query] = IF merged = NoCell THEN "none" ELSE "compute"
    /\ tensors # NoCell => user[tensors] = IF pc = "run" THEN "none" ELSE "compute"
    /\ merged # NoCell => user[merged] = "none"

(* The work on each stream. *)
CallerWork(op) ==
    \/ op.do = "query" /\ op.about \in 1..call /\ op.reads = <<>>
         /\ \E x \in CallerCells : op.writes = {x}
    \/ op.do = "clone" /\ op.reads = <<>> /\ \E x \in CallerCells : op.writes = {x}
    \/ op.do = "record" /\ op.reads = <<>> /\ op.writes = {}
         /\ \E n \in 1..call : op.about = <<"query", n>>
    \/ op.do = "wait" /\ op.reads = <<>> /\ op.writes = {}
         /\ \E n \in 1..ClosedCalls : op.about = <<"done", n>>
    \/ op.do = "convert" /\ op.about \in 1..ClosedCalls /\ op.writes = {}
         /\ \E x \in ComputeCells : op.reads = <<x>>
    \/ op.do = "mark" /\ op.reads = <<>> /\ op.writes \subseteq ComputeCells

TransferWork(op) ==
    \/ op.do = "record" /\ op.reads = <<>> /\ op.writes = {}
         /\ \E k \in Chunks : /\ Upto(k, StagedSoFar)
                             /\ op.about \in {<<"own", k>>, <<"ready", k>>}
    \/ op.do = "wait" /\ op.reads = <<>> /\ op.writes = {}
         /\ \E k \in Chunks : op.about = <<"own", k>>
    \/ op.do = "stack" /\ Upto(op.about, StagedSoFar)
         /\ op.reads = (IF direct THEN <<clone>> ELSE <<>>) /\ (direct => pc = "sync")
         /\ \E x \in TransferCells : op.writes = {x}

ComputeWorks(op) ==
    \/ op.do = "record" /\ op.reads = <<>> /\ op.writes = {}
         /\ \E n \in 1..ClosedCalls : op.about = <<"done", n>>
    \/ op.do = "wait" /\ op.reads = <<>> /\ op.writes = {}
         /\ \/ \E n \in Calls : op.about = <<"query", n>>
            \/ \E k \in Chunks : op.about = <<"ready", k>>
    \/ op.do = "attend" /\ Upto(op.about, RunSoFar)
         /\ \E x \in ComputeCells : op.writes = {x}
         /\ \E q \in CallerCells, t \in TransferCells :
              IF op.about[2] = 1 THEN op.reads = <<q, t>>
              ELSE \E m \in ComputeCells : op.reads = <<q, t, m>>
    \/ op.do = "mark" /\ op.reads = <<>> /\ op.writes \subseteq CallerCells \cup TransferCells

WorkInv ==
    /\ \A i \in 1..Len(queue["caller"])   : CallerWork(queue["caller"][i])
    /\ \A i \in 1..Len(queue["transfer"]) : TransferWork(queue["transfer"][i])
    /\ \A i \in 1..Len(queue["compute"])  : ComputeWorks(queue["compute"][i])
    /\ \A e \in passed :
         \/ \E n \in 1..call : e = <<"query", n>>
         \/ \E n \in 1..ClosedCalls : e = <<"done", n>>
         \/ \E k \in Chunks : Upto(k, StagedSoFar) /\ e \in {<<"own", k>>, <<"ready", k>>}

(* A cell is free, held by the Python thread or given back by one mark;    *)
(* what a stream still reads of another one's cells is not free: it is     *)
(* held, or its mark is behind the read.                                   *)
Held == {query, clone, tensors, current, merged} \ {NoCell}

HeldInv ==
    /\ \A x \in Held : x \notin free
    /\ \A s \in Streams : \A i \in 1..Len(queue[s]) : \A x \in Cells :
         Frees(queue[s], i, x) =>
            /\ x \notin free /\ x \notin Held
            /\ \A r \in Streams : \A j \in 1..Len(queue[r]) :
                 Frees(queue[r], j, x) => r = s /\ j = i
    /\ \A i \in 1..Len(queue["compute"]) : \A x \in CallerCells \cup TransferCells :
         Reads(queue["compute"], i, x) =>
            \/ merged # NoCell /\ x \in {query, tensors}
            \/ \E j \in (i + 1)..Len(queue["compute"]) : Frees(queue["compute"], j, x)
    /\ \A i \in 1..Len(queue["caller"]) : \A x \in ComputeCells :
         Reads(queue["caller"], i, x) =>
            \E j \in (i + 1)..Len(queue["caller"]) : Frees(queue["caller"], j, x)

(* Queries are written before they are attended to, chunks are stacked     *)
(* before, and merged before the result is converted.                      *)
FenceInv ==
    /\ \A k \in Chunks :
         /\ Fenced(passed, queue["caller"], "query", k[1], <<"query", k[1]>>,
                   queue["compute"], "attend", k)
         /\ Fenced(passed, queue["transfer"], "stack", k, <<"ready", k>>,
                   queue["compute"], "attend", k)
         /\ Fenced(passed, queue["compute"], "attend", k, <<"done", k[1]>>,
                   queue["caller"], "convert", k[1])
    /\ merged # NoCell =>
         \A i \in 1..Len(queue["caller"]) : At(queue["caller"], i, "query", call) =>
            \E j \in 1..Len(queue["compute"]) :
                At(queue["compute"], j, "wait", <<"query", call>>)

(* What the cells hold: a query, a stacked chunk, the merge of chunks 1..c. *)
QueryOf(n)  == {<<"query", n>>}
StackOf(k)  == {"staged", "spoiled"} \X {k}
MergeOf(n, c) ==
    {m \in {"merge"} \X Seq({<<"query", n>>} \X Staged) :
        Len(m[2]) = c /\ \A i \in 1..c : m[2][i][2][2] = <<n, i>>}

(* For memory g and queues c, t and p: what the call's work will find.     *)
QueryIn(g, c, x, n) == Here(g[x], c, Len(c), x, "query", n, QueryOf(n))
StackIn(g, t, x, k) == Here(g[x], t, Len(t), x, "stack", k, StackOf(k))
MergeIn(g, p, x, n, h, i) == Here(g[x], p, i, x, "attend", <<n, h>>, MergeOf(n, h))

AttendIn(g, c, t, p, op, i) ==
    /\ QueryIn(g, c, op.reads[1], op.about[1])
    /\ StackIn(g, t, op.reads[2], op.about)
    /\ op.about[2] > 1 => MergeIn(g, p, op.reads[3], op.about[1], op.about[2] - 1, i - 1)

ConvertIn(g, p, op, n, total) ==
    \E h \in 1..MaxChunks : /\ MergeIn(g, p, op.reads[1], op.about, h, Len(p))
                            /\ op.about = n => h = total

(* The result r of call i, when n calls were made, the last of total chunks. *)
ResultIn(r, i, n, total) ==
    \/ r = <<>>
    \/ i <= n /\ \E h \in 1..MaxChunks : /\ <<"merge", r>> \in MergeOf(i, h)
                                         /\ i = n => h = total

(* The cell of a chunk that was staged and not yet attended to. *)
StagedCell == IF pc = "run" THEN tensors ELSE current

DataInv ==
    /\ query # NoCell => QueryIn(mem, queue["caller"], query, call)
    /\ StagedCell # NoCell => StackIn(mem, queue["transfer"], StagedCell, <<call, chunk>>)
    /\ merged # NoCell =>
         MergeIn(mem, queue["compute"], merged, call, RunSoFar, Len(queue["compute"]))
    /\ \A i \in 1..Len(queue["compute"]) : queue["compute"][i].do = "attend" =>
         AttendIn(mem, queue["caller"], queue["transfer"], queue["compute"],
                  queue["compute"][i], i)
    /\ \A i \in 1..Len(queue["caller"]) : queue["caller"][i].do = "convert" =>
         ConvertIn(mem, queue["compute"], queue["caller"][i], call, chunks)
    /\ result \in [Calls -> Seq(Queries \X Staged)]
    /\ \A n \in Calls : ResultIn(result[n], n, call, chunks)

IInv == HostTypeOK /\ HostInv /\ WorkInv /\ HeldInv /\ FenceInv /\ DataInv

(***************************************************************************)
(* Queues that grow at the end and shrink at the front.                    *)
(***************************************************************************)
Grown(q, r, k) ==
    /\ IsSeq(r) /\ Len(q) \in Nat /\ k \in Nat /\ Len(r) = Len(q) + k
    /\ \A i \in 1..Len(q) : r[i] = q[i]
Shrunk(q, r) ==
    /\ IsSeq(r) /\ Len(q) \in Nat \ {0} /\ Len(r) = Len(q) - 1
    /\ \A i \in 1..Len(r) : r[i] = q[i + 1]

(* A queue is a sequence over any set of its elements. *)
LEMMA SeqOver ==
    ASSUME NEW q, IsSeq(q), NEW S, \A i \in 1..Len(q) : q[i] \in S
    PROVE  q \in Seq(S)
<1>1. q \in Seq({q[i] : i \in 1..Len(q)})
  BY DEF IsSeq
<1>2. {q[i] : i \in 1..Len(q)} \subseteq S
  OBVIOUS
<1> QED
  BY <1>1, <1>2, SeqMonotonic

(* Sequences over any set are queues. *)
LEMMA SeqIs ==
    ASSUME NEW S, NEW q \in Seq(S)
    PROVE  IsSeq(q)
<1>1. Len(q) \in Nat /\ q \in [1..Len(q) -> S]
  OBVIOUS
<1>2. PICK T : T = {q[i] : i \in 1..Len(q)}
  OBVIOUS
<1>3. q \in [1..Len(q) -> T]
  BY <1>1, <1>2
<1>4. q \in Seq(T)
  BY <1>1, <1>3, SeqDef
<1> QED
  BY <1>2, <1>4 DEF IsSeq

(* What comes after what. *)
Joins(q, w, r) == IsSeq(q) /\ IsSeq(w) /\ r = q \o w

(* A queue with more work behind it: every place keeps its work. *)
LEMMA Joined ==
    ASSUME NEW q, NEW w, NEW r, Joins(q, w, r)
    PROVE  /\ Grown(q, r, Len(w)) /\ Len(q) \in Nat /\ Len(w) \in Nat
           /\ \A i \in 1..Len(w) : r[Len(q) + i] = w[i]
<1> DEFINE S == {q[i] : i \in 1..Len(q)} \cup {w[i] : i \in 1..Len(w)}
<1>1. q \in Seq(S) /\ w \in Seq(S)
  BY SeqOver DEF Joins
<1> HIDE DEF S
<1>2. /\ r \in Seq(S) /\ Len(r) = Len(q) + Len(w) /\ Len(q) \in Nat /\ Len(w) \in Nat
      /\ \A i \in 1..Len(q) : r[i] = q[i]
      /\ \A i \in 1..Len(w) : r[Len(q) + i] = w[i]
  BY <1>1, ConcatProperties DEF Joins
<1>3. IsSeq(r)
  BY <1>2, SeqIs
<1> QED
  BY <1>2, <1>3 DEF Grown

(* What is left when the first is done. *)
LEMMA Popped ==
    ASSUME NEW q, IsSeq(q), q # <<>>
    PROVE  Shrunk(q, Tail(q)) /\ Head(q) = q[1]
<1> DEFINE S == {q[i] : i \in 1..Len(q)}
<1>1. q \in Seq(S)
  BY DEF IsSeq
<1> HIDE DEF S
<1>2. /\ Tail(q) \in Seq(S) /\ Len(Tail(q)) = Len(q) - 1 /\ Head(q) = q[1]
      /\ Len(q) \in Nat \ {0} /\ \A i \in 1..Len(Tail(q)) : Tail(q)[i] = q[i + 1]
  BY <1>1, HeadTailProperties
<1> QED
  BY <1>2, SeqIs DEF Shrunk

(* Places in a queue that grew. *)
LEMMA GrownPlaces ==
    ASSUME NEW q, NEW r, NEW k, Grown(q, r, k), NEW i \in 1..Len(q)
    PROVE  /\ i \in 1..Len(r) /\ r[i] = q[i]
           /\ \A do, about : At(r, i, do, about) <=> At(q, i, do, about)
           /\ \A x : /\ Frees(r, i, x) <=> Frees(q, i, x)
                     /\ Reads(r, i, x) <=> Reads(q, i, x)
                     /\ Writes(r, i, x) <=> Writes(q, i, x)
<1>1. i \in 1..Len(r) /\ r[i] = q[i]
  BY DEF Grown
<1> QED
  BY <1>1 DEF At, Frees, Reads, Writes

(* Places in a queue that shrank. *)
LEMMA ShrunkPlaces ==
    ASSUME NEW q, NEW r, Shrunk(q, r), NEW i \in Nat
    PROVE  /\ i \in 1..Len(r) <=> i >= 1 /\ i + 1 \in 1..Len(q)
           /\ i \in 1..Len(r) => r[i] = q[i + 1]
           /\ \A do, about : At(r, i, do, about) <=> i >= 1 /\ At(q, i + 1, do, about)
           /\ \A x : /\ Frees(r, i, x) <=> i >= 1 /\ Frees(q, i + 1, x)
                     /\ Reads(r, i, x) <=> i >= 1 /\ Reads(q, i + 1, x)
                     /\ Writes(r, i, x) <=> i >= 1 /\ Writes(q, i + 1, x)
<1>1. /\ i \in 1..Len(r) <=> i >= 1 /\ i + 1 \in 1..Len(q)
      /\ i \in 1..Len(r) => r[i] = q[i + 1]
  BY DEF Shrunk
<1> QED
  BY <1>1 DEF At, Frees, Reads, Writes

(***************************************************************************)
(* Fences.                                                                 *)
(***************************************************************************)
(* No new work to wait for, and what is behind a wait is behind it.        *)
LEMMA FenceGrows ==
    ASSUME NEW happened, NEW p, NEW p2, NEW kp, NEW q, NEW q2, NEW kq,
           NEW do, NEW about, NEW event, NEW for, NEW on,
           Fenced(happened, p, do, about, event, q, for, on),
           Grown(p, p2, kp), Grown(q, q2, kq),
           \A i \in Len(p) + 1..Len(p2) : ~At(p2, i, do, about),
           \A j \in Len(q) + 1..Len(q2) :
               At(q2, j, for, on) /\ (\E i \in 1..Len(p) : At(p, i, do, about)) =>
                   \E k \in 1..(j - 1) : At(q2, k, "wait", event)
    PROVE  Fenced(happened, p2, do, about, event, q2, for, on)
<1> SUFFICES ASSUME NEW i \in 1..Len(p2), At(p2, i, do, about)
             PROVE  /\ event \notin happened
                    /\ \A j \in 1..Len(p2) : At(p2, j, "record", event) => i < j
                    /\ \A j \in 1..Len(q2) : At(q2, j, for, on) =>
                          \E k \in 1..(j - 1) : At(q2, k, "wait", event)
  BY DEF Fenced
<1>1. Len(p) \in Nat /\ Len(p2) \in Nat /\ Len(q) \in Nat /\ Len(q2) \in Nat
  BY DEF Grown
<1>2. i \in 1..Len(p)
  BY <1>1
<1>3. At(p, i, do, about)
  BY <1>2, GrownPlaces
<1>4. /\ event \notin happened
      /\ \A j \in 1..Len(p) : At(p, j, "record", event) => i < j
      /\ \A j \in 1..Len(q) : At(q, j, for, on) =>
            \E k \in 1..(j - 1) : At(q, k, "wait", event)
  BY <1>2, <1>3 DEF Fenced
<1>5. ASSUME NEW j \in 1..Len(p2), At(p2, j, "record", event) PROVE i < j
  <2>1. CASE j \in 1..Len(p)
    BY <1>4, <1>5, <2>1, GrownPlaces
  <2>2. CASE j \notin 1..Len(p)
    BY <1>1, <1>2, <2>2
  <2> QED
    BY <2>1, <2>2
<1>6. ASSUME NEW j \in 1..Len(q2), At(q2, j, for, on)
      PROVE  \E k \in 1..(j - 1) : At(q2, k, "wait", event)
  <2>1. CASE j \in 1..Len(q)
    <3>1. At(q, j, for, on)
      BY <1>6, <2>1, GrownPlaces
    <3>2. PICK k \in 1..(j - 1) : At(q, k, "wait", event)
      BY <1>4, <2>1, <3>1
    <3>3. k \in 1..Len(q)
      BY <1>1, <2>1
    <3> QED
      BY <3>2, <3>3, GrownPlaces
  <2>2. CASE j \notin 1..Len(q)
    <3>1. j \in Len(q) + 1..Len(q2)
      BY <1>1, <2>2
    <3> QED
      BY <1>2, <1>3, <1>6, <3>1
  <2> QED
    BY <2>1, <2>2
<1> QED
  BY <1>4, <1>5, <1>6

(* Work for which nothing has recorded the event or waits yet. *)
LEMMA FenceStarts ==
    ASSUME NEW happened, NEW p, NEW p2, NEW kp, NEW q,
           NEW do, NEW about, NEW event, NEW for, NEW on,
           event \notin happened, Grown(p, p2, kp),
           \A j \in 1..Len(p) : ~At(p, j, "record", event),
           \A i, j \in Len(p) + 1..Len(p2) :
               At(p2, i, do, about) /\ At(p2, j, "record", event) => i < j,
           \A j \in 1..Len(q) : ~At(q, j, for, on)
    PROVE  Fenced(happened, p2, do, about, event, q, for, on)
<1>1. Len(p) \in Nat /\ Len(p2) \in Nat
  BY DEF Grown
<1>2. ASSUME NEW i \in 1..Len(p2), At(p2, i, do, about),
             NEW j \in 1..Len(p2), At(p2, j, "record", event)
      PROVE  i < j
  <2>1. j \notin 1..Len(p)
    BY <1>2, GrownPlaces
  <2>2. j \in Len(p) + 1..Len(p2)
    BY <1>1, <2>1
  <2>3. CASE i \in 1..Len(p)
    BY <1>1, <2>2, <2>3
  <2>4. CASE i \notin 1..Len(p)
    <3>1. i \in Len(p) + 1..Len(p2)
      BY <1>1, <2>4
    <3> QED
      BY <1>2, <2>2, <3>1
  <2> QED
    BY <2>3, <2>4
<1> QED
  BY <1>2 DEF Fenced

(* The queues shrink, the event happens when the work is done and not      *)
(* before, and who waits for it goes on when it has happened.              *)
LEMMA FencePops ==
    ASSUME NEW happened, NEW after, NEW p, NEW p2, NEW q, NEW q2,
           NEW do, NEW about, NEW event, NEW for, NEW on,
           Fenced(happened, p, do, about, event, q, for, on),
           p2 = p \/ Shrunk(p, p2), q2 = q \/ Shrunk(q, q2),
           event \in after => \/ event \in happened
                              \/ Shrunk(p, p2) /\ At(p, 1, "record", event),
           Shrunk(q, q2) /\ At(q, 1, "wait", event) => event \in happened
    PROVE  Fenced(after, p2, do, about, event, q2, for, on)
<1> SUFFICES ASSUME NEW i \in 1..Len(p2), At(p2, i, do, about)
             PROVE  /\ event \notin after
                    /\ \A j \in 1..Len(p2) : At(p2, j, "record", event) => i < j
                    /\ \A j \in 1..Len(q2) : At(q2, j, for, on) =>
                          \E k \in 1..(j - 1) : At(q2, k, "wait", event)
  BY DEF Fenced
<1>1. PICK h \in 1..Len(p) :
        /\ At(p, h, do, about) /\ (Shrunk(p, p2) => h = i + 1) /\ (~Shrunk(p, p2) => h = i)
  <2>1. CASE Shrunk(p, p2)
    <3>1. At(p, i + 1, do, about) /\ i + 1 \in 1..Len(p)
      BY <2>1, ShrunkPlaces
    <3> QED
      BY <2>1, <3>1
  <2>2. CASE ~Shrunk(p, p2)
    BY <2>2
  <2> QED
    BY <2>1, <2>2
<1>2. /\ event \notin happened
      /\ \A j \in 1..Len(p) : At(p, j, "record", event) => h < j
      /\ \A j \in 1..Len(q) : At(q, j, for, on) =>
            \E k \in 1..(j - 1) : At(q, k, "wait", event)
  BY <1>1 DEF Fenced
<1>3. event \notin after
  <2> SUFFICES ASSUME Shrunk(p, p2), At(p, 1, "record", event) PROVE FALSE
    BY <1>2
  <2>1. 1 \in 1..Len(p)
    BY DEF At
  <2>2. h < 1
    BY <1>2, <2>1
  <2> QED
    BY <2>2
<1>4. ASSUME NEW j \in 1..Len(p2), At(p2, j, "record", event) PROVE i < j
  <2>1. CASE Shrunk(p, p2)
    <3>1. At(p, j + 1, "record", event) /\ j + 1 \in 1..Len(p)
      BY <1>4, <2>1, ShrunkPlaces
    <3>2. h < j + 1 /\ h = i + 1
      BY <1>1, <1>2, <2>1, <3>1
    <3> QED
      BY <3>2
  <2>2. CASE ~Shrunk(p, p2)
    BY <1>1, <1>2, <1>4, <2>2
  <2> QED
    BY <2>1, <2>2
<1>5. ASSUME NEW j \in 1..Len(q2), At(q2, j, for, on)
      PROVE  \E k \in 1..(j - 1) : At(q2, k, "wait", event)
  <2>1. CASE Shrunk(q, q2)
    <3>1. At(q, j + 1, for, on) /\ j + 1 \in 1..Len(q)
      BY <1>5, <2>1, ShrunkPlaces
    <3>2. PICK k \in 1..j : At(q, k, "wait", event)
      <4>1. (j + 1) - 1 = j
        OBVIOUS
      <4> QED
        BY <1>2, <3>1, <4>1
    <3>3. k # 1
      BY <1>2, <2>1, <3>2
    <3>4. PICK l \in Nat : l + 1 = k /\ l \in 1..(j - 1)
      <4>1. k - 1 \in Nat /\ (k - 1) + 1 = k /\ k - 1 \in 1..(j - 1)
        BY <3>3
      <4> QED
        BY <4>1
    <3>5. At(q2, l, "wait", event)
      BY <2>1, <3>2, <3>4, ShrunkPlaces
    <3> QED
      BY <3>4, <3>5
  <2>2. CASE ~Shrunk(q, q2)
    BY <1>2, <1>5, <2>2
  <2> QED
    BY <2>1, <2>2
<1> QED
  BY <1>3, <1>4, <1>5

(***************************************************************************)
(* What a cell will hold.                                                  *)
(***************************************************************************)
(* Work that does not write the cell is added, or passed over. *)
LEMMA HereGrows ==
    ASSUME NEW v, NEW q, NEW q2, NEW k, NEW n \in 0..Len(q), NEW m \in n..Len(q2), NEW x,
           NEW do, NEW about, NEW values,
           Here(v, q, n, x, do, about, values), Grown(q, q2, k),
           \A j \in (n + 1)..m : ~Writes(q2, j, x)
    PROVE  Here(v, q2, m, x, do, about, values)
<1>1. Len(q) \in Nat /\ Len(q2) \in Nat /\ n \in Nat /\ m \in Nat
  BY DEF Grown
<1>2. ASSUME NEW i \in 1..n, At(q, i, do, about), Writes(q, i, x),
             \A j \in (i + 1)..n : ~Writes(q, j, x)
      PROVE  Here(v, q2, m, x, do, about, values)
  <2>1. i \in 1..Len(q) /\ i \in 1..m
    BY <1>1
  <2>2. At(q2, i, do, about) /\ Writes(q2, i, x)
    BY <1>2, <2>1, GrownPlaces
  <2>3. ASSUME NEW j \in (i + 1)..m PROVE ~Writes(q2, j, x)
    <3>1. CASE j <= n
      <4>1. j \in (i + 1)..n /\ j \in 1..Len(q)
        BY <1>1, <3>1
      <4> QED
        BY <1>2, <4>1, GrownPlaces
    <3>2. CASE ~(j <= n)
      <4>1. j \in (n + 1)..m
        BY <1>1, <3>2
      <4> QED
        BY <4>1
    <3> QED
      BY <3>1, <3>2
  <2> QED
    BY <2>1, <2>2, <2>3 DEF Here
<1>3. ASSUME v \in values, \A j \in 1..n : ~Writes(q, j, x)
      PROVE  Here(v, q2, m, x, do, about, values)
  <2>1. ASSUME NEW j \in 1..m PROVE ~Writes(q2, j, x)
    <3>1. CASE j <= n
      <4>1. j \in 1..n /\ j \in 1..Len(q)
        BY <1>1, <3>1
      <4> QED
        BY <1>3, <4>1, GrownPlaces
    <3>2. CASE ~(j <= n)
      <4>1. j \in (n + 1)..m
        BY <1>1, <3>2
      <4> QED
        BY <4>1
    <3> QED
      BY <3>1, <3>2
  <2> QED
    BY <1>3, <2>1 DEF Here
<1> QED
  BY <1>2, <1>3 DEF Here

(* The first work of the queue is done. *)
LEMMA HerePops ==
    ASSUME NEW v, NEW w, NEW q, NEW q2, NEW n \in 1..Len(q), NEW x,
           NEW do, NEW about, NEW values,
           Here(v, q, n, x, do, about, values), Shrunk(q, q2),
           At(q, 1, do, about) /\ Writes(q, 1, x) => w \in values,
           ~Writes(q, 1, x) => w = v
    PROVE  Here(w, q2, n - 1, x, do, about, values)
<1>1. Len(q) \in Nat /\ Len(q2) \in Nat /\ n \in Nat /\ n - 1 \in Nat /\ (n - 1) + 1 = n
  BY DEF Shrunk
<1>2. ASSUME NEW i \in 1..n, At(q, i, do, about), Writes(q, i, x),
             \A j \in (i + 1)..n : ~Writes(q, j, x)
      PROVE  Here(w, q2, n - 1, x, do, about, values)
  <2>1. ASSUME NEW j \in i..(n - 1) PROVE ~Writes(q2, j, x)
    <3>1. j \in Nat /\ j + 1 \in (i + 1)..n
      BY <1>1
    <3> QED
      BY <1>2, <3>1, ShrunkPlaces
  <2>2. CASE i = 1
    BY <1>2, <2>1, <2>2 DEF Here
  <2>3. CASE i # 1
    <3>1. PICK l \in Nat : l + 1 = i /\ l \in 1..(n - 1)
      <4>1. i - 1 \in Nat /\ (i - 1) + 1 = i /\ i - 1 \in 1..(n - 1)
        BY <1>1, <2>3
      <4> QED
        BY <4>1
    <3>2. At(q2, l, do, about) /\ Writes(q2, l, x)
      BY <1>2, <3>1, ShrunkPlaces
    <3> QED
      BY <2>1, <3>1, <3>2 DEF Here
  <2> QED
    BY <2>2, <2>3
<1>3. ASSUME v \in values, \A j \in 1..n : ~Writes(q, j, x)
      PROVE  Here(w, q2, n - 1, x, do, about, values)
  <2>1. ASSUME NEW j \in 1..(n - 1) PROVE ~Writes(q2, j, x)
    <3>1. j \in Nat /\ j + 1 \in 1..n
      BY <1>1
    <3> QED
      BY <1>3, <3>1, ShrunkPlaces
  <2>2. 1 \in 1..n
    BY <1>1
  <2> QED
    BY <1>3, <2>1, <2>2 DEF Here
<1> QED
  BY <1>2, <1>3 DEF Here

(***************************************************************************)
(* The Python thread.                                                      *)
(***************************************************************************)
(* What streams and the frame are named. *)
LEMMA Names ==
    /\ Streams = {"caller", "transfer", "compute"} /\ "none" \notin Streams
    /\ Pool("caller") = CallerCells /\ Pool("transfer") = TransferCells
    /\ Pool("compute") = ComputeCells
    /\ Cells = CallerCells \cup TransferCells \cup ComputeCells
    /\ NoCell \notin Cells
BY ConstantsAssumption DEF Streams, Pool, Cells

(* The short sequences of work. *)
LEMMA Short ==
    /\ IsSeq(<<>>) /\ Len(<<>>) = 0
    /\ \A a : IsSeq(<<a>>) /\ Len(<<a>>) = 1 /\ <<a>>[1] = a
    /\ \A a, b : IsSeq(<<a, b>>) /\ Len(<<a, b>>) = 2 /\ <<a, b>>[1] = a /\ <<a, b>>[2] = b
    /\ \A a, b, c : /\ IsSeq(<<a, b, c>>) /\ Len(<<a, b, c>>) = 3
                    /\ <<a, b, c>>[1] = a /\ <<a, b, c>>[2] = b /\ <<a, b, c>>[3] = c
    /\ \A a, b, c, d :
         /\ IsSeq(<<a, b, c, d>>) /\ Len(<<a, b, c, d>>) = 4
         /\ <<a, b, c, d>>[1] = a /\ <<a, b, c, d>>[2] = b
         /\ <<a, b, c, d>>[3] = c /\ <<a, b, c, d>>[4] = d
<1>1. ASSUME NEW a PROVE IsSeq(<<a>>)
  <2>1. <<a>> \in Seq({a})
    OBVIOUS
  <2> QED
    BY <2>1, SeqIs
<1>2. ASSUME NEW a, NEW b PROVE IsSeq(<<a, b>>)
  <2>1. <<a, b>> \in Seq({a, b})
    OBVIOUS
  <2> QED
    BY <2>1, SeqIs
<1>3. ASSUME NEW a, NEW b, NEW c PROVE IsSeq(<<a, b, c>>)
  <2>1. <<a, b, c>> \in Seq({a, b, c})
    OBVIOUS
  <2> QED
    BY <2>1, SeqIs
<1>4. ASSUME NEW a, NEW b, NEW c, NEW d PROVE IsSeq(<<a, b, c, d>>)
  <2>1. <<a, b, c, d>> \in Seq({a, b, c, d})
    OBVIOUS
  <2> QED
    BY <2>1, SeqIs
<1>5. IsSeq(<<>>)
  <2>1. <<>> \in Seq({})
    OBVIOUS
  <2> QED
    BY <2>1, SeqIs
<1> QED
  BY <1>1, <1>2, <1>3, <1>4, <1>5

(* Work enqueued comes behind what there is, and the marks behind it. *)
Extends(q, w, m, r) == IsSeq(q) /\ IsSeq(w) /\ IsSeq(m) /\ r = (q \o w) \o m

(* The places of the old work, the new work and the marks. *)
LEMMA Extended ==
    ASSUME NEW q, NEW w, NEW m, NEW r, Extends(q, w, m, r)
    PROVE  /\ Len(q) \in Nat /\ Len(w) \in Nat /\ Len(m) \in Nat
           /\ Grown(q, r, Len(w) + Len(m))
           /\ \A i \in 1..Len(w) : r[Len(q) + i] = w[i]
           /\ \A i \in 1..Len(m) : r[Len(q) + Len(w) + i] = m[i]
           /\ Len(w) = 0 /\ Len(m) = 0 => r = q
<1>1. PICK qw : qw = q \o w
  OBVIOUS
<1>2. Joins(q, w, qw)
  BY <1>1 DEF Extends, Joins
<1>3. /\ Grown(q, qw, Len(w)) /\ Len(q) \in Nat /\ Len(w) \in Nat
      /\ \A i \in 1..Len(w) : qw[Len(q) + i] = w[i]
  BY <1>2, Joined
<1>4. Joins(qw, m, r)
  BY <1>1, <1>3 DEF Extends, Joins, Grown
<1>5. /\ Grown(qw, r, Len(m)) /\ Len(m) \in Nat
      /\ \A i \in 1..Len(m) : r[Len(qw) + i] = m[i]
  BY <1>4, Joined
<1>6. /\ IsSeq(r) /\ Len(qw) = Len(q) + Len(w) /\ Len(r) = Len(qw) + Len(m)
      /\ \A i \in 1..Len(q) : qw[i] = q[i]
      /\ \A i \in 1..Len(qw) : r[i] = qw[i]
  BY <1>3, <1>5 DEF Grown
<1>7. Grown(q, r, Len(w) + Len(m))
  <2>1. \A i \in 1..Len(q) : r[i] = q[i]
    BY <1>3, <1>6
  <2> QED
    BY <1>3, <1>5, <1>6, <2>1 DEF Grown
<1>8. \A i \in 1..Len(w) : r[Len(q) + i] = w[i]
  BY <1>3, <1>6
<1>9. ASSUME Len(w) = 0, Len(m) = 0 PROVE r = q
  <2> DEFINE S == {q[i] : i \in 1..Len(q)} \cup {r[i] : i \in 1..Len(r)}
  <2>1. IsSeq(q) /\ IsSeq(r)
    BY <1>6 DEF Extends
  <2>2. q \in Seq(S) /\ r \in Seq(S)
    BY <2>1, SeqOver
  <2> HIDE DEF S
  <2>3. Len(r) = Len(q) /\ \A i \in 1..Len(q) : r[i] = q[i]
    BY <1>3, <1>6, <1>9
  <2> QED
    BY <2>2, <2>3, SeqEqual
<1> QED
  BY <1>3, <1>5, <1>6, <1>7, <1>8, <1>9

(* The same, place by place. *)
LEMMA Ends ==
    ASSUME NEW q, NEW w, NEW m, NEW r, Extends(q, w, m, r)
    PROVE  /\ Len(q) \in Nat /\ Grown(q, r, Len(w) + Len(m))
           /\ Len(w) >= 1 => r[Len(q) + 1] = w[1]
           /\ Len(w) >= 2 => r[Len(q) + 2] = w[2]
           /\ Len(w) >= 3 => r[Len(q) + 3] = w[3]
           /\ Len(w) >= 4 => r[Len(q) + 4] = w[4]
           /\ Len(m) >= 1 => r[Len(q) + Len(w) + 1] = m[1]
           /\ Len(w) = 0 /\ Len(m) = 0 => r = q
BY Extended

(* No work and no mark. *)
LEMMA EndsNone ==
    ASSUME NEW q, NEW r, Extends(q, <<>>, <<>>, r)
    PROVE  r = q
BY Ends, Short

(* A mark, behind work or not. *)
LEMMA EndsMark ==
    ASSUME NEW q, NEW w, NEW m, NEW r, Extends(q, w, m, r), Len(m) = 1
    PROVE  /\ Len(q) \in Nat
           /\ Len(w) = 0 => /\ Grown(q, r, 1) /\ r[Len(q) + 1] = m[1]
           /\ Len(w) = 1 => /\ Grown(q, r, 2) /\ r[Len(q) + 1] = w[1] /\ r[Len(q) + 2] = m[1]
           /\ Len(w) = 2 => /\ Grown(q, r, 3) /\ r[Len(q) + 1] = w[1] /\ r[Len(q) + 2] = w[2]
                            /\ r[Len(q) + 3] = m[1]
<1>1. PICK n, k : n = Len(q) /\ k = Len(w)
  OBVIOUS
<1>2. /\ n \in Nat /\ Grown(q, r, k + 1)
      /\ k >= 1 => r[n + 1] = w[1]
      /\ k >= 2 => r[n + 2] = w[2]
      /\ r[n + k + 1] = m[1]
  <2>1. Len(q) \in Nat /\ Grown(q, r, Len(w) + Len(m))
    BY Ends
  <2>2. Len(w) >= 1 => r[Len(q) + 1] = w[1]
    BY Ends
  <2>3. Len(w) >= 2 => r[Len(q) + 2] = w[2]
    BY Ends
  <2>4. r[Len(q) + Len(w) + 1] = m[1]
    BY Ends
  <2> QED
    BY <1>1, <2>1, <2>2, <2>3, <2>4
<1>3. /\ n + 0 + 1 = n + 1 /\ n + 1 + 1 = n + 2 /\ n + 2 + 1 = n + 3
      /\ 0 + 1 = 1 /\ 1 + 1 = 2 /\ 2 + 1 = 3
  BY <1>2
<1>4. /\ k = 0 => Grown(q, r, 1) /\ r[n + 1] = m[1]
      /\ k = 1 => Grown(q, r, 2) /\ r[n + 1] = w[1] /\ r[n + 2] = m[1]
      /\ k = 2 => /\ Grown(q, r, 3) /\ r[n + 1] = w[1] /\ r[n + 2] = w[2]
                  /\ r[n + 3] = m[1]
  BY ONLY <1>2, <1>3
<1> QED
  BY <1>1, <1>2, <1>4

(* One more piece of work. *)
Appends(q, op, r) == IsSeq(q) /\ r = Append(q, op)

(* It comes last, and every other place keeps its work. *)
LEMMA Appended ==
    ASSUME NEW q, NEW op, NEW r, Appends(q, op, r)
    PROVE  Grown(q, r, 1) /\ Len(q) \in Nat /\ r[Len(q) + 1] = op
<1> DEFINE S == {q[i] : i \in 1..Len(q)} \cup {op}
<1>1. q \in Seq(S) /\ op \in S
  BY SeqOver DEF Appends
<1> HIDE DEF S
<1>2. /\ r \in Seq(S) /\ Len(r) = Len(q) + 1 /\ Len(q) \in Nat /\ r[Len(q) + 1] = op
      /\ \A i \in 1..Len(q) : r[i] = q[i]
  BY <1>1, AppendProperties, LenProperties DEF Appends
<1> QED
  BY <1>2, SeqIs DEF Grown

(* Short sequences of work, joined. *)
LEMMA Joined02 ==
    ASSUME NEW c, NEW d
    PROVE  <<>> \o <<c, d>> = <<c, d>>
OBVIOUS

(* The same, for other lengths. *)
LEMMA Joined12 ==
    ASSUME NEW a, NEW b, NEW c
    PROVE  <<a>> \o <<b, c>> = <<a, b, c>>
<1>1. PICK S, u, v, r, t : /\ S = {a, b, c} /\ u = <<a>> /\ v = <<b, c>>
                           /\ r = u \o v /\ t = <<a, b, c>>
  OBVIOUS
<1>2. u \in Seq(S) /\ v \in Seq(S) /\ t \in Seq(S)
  BY <1>1
<1>3. /\ Len(u) = 1 /\ Len(v) = 2 /\ Len(t) = 3 /\ u[1] = a /\ v[1] = b /\ v[2] = c
      /\ t[1] = a /\ t[2] = b /\ t[3] = c
  BY <1>1
<1>4. /\ r \in Seq(S) /\ Len(r) = Len(u) + Len(v)
      /\ \A i \in 1..Len(u) + Len(v) : r[i] = IF i <= Len(u) THEN u[i] ELSE v[i - Len(u)]
  BY <1>1, <1>2, ConcatProperties
<1>5. Len(r) = 3 /\ r[1] = a /\ r[2] = b /\ r[3] = c
  BY ONLY <1>3, <1>4
<1>6. r = t
  <2>1. \A i \in 1..Len(r) : r[i] = t[i]
    BY ONLY <1>3, <1>5
  <2> QED
    BY ONLY <1>2, <1>3, <1>4, <1>5, <2>1, SeqEqual
<1> QED
  BY <1>1, <1>6

(* The same, for other lengths. *)
LEMMA Joined22 ==
    ASSUME NEW a, NEW b, NEW c, NEW d
    PROVE  <<a, b>> \o <<c, d>> = <<a, b, c, d>>
<1>1. PICK S, u, v, r, t : /\ S = {a, b, c, d} /\ u = <<a, b>> /\ v = <<c, d>>
                           /\ r = u \o v /\ t = <<a, b, c, d>>
  OBVIOUS
<1>2. u \in Seq(S) /\ v \in Seq(S) /\ t \in Seq(S)
  BY <1>1
<1>3. /\ Len(u) = 2 /\ Len(v) = 2 /\ Len(t) = 4
      /\ u[1] = a /\ u[2] = b /\ v[1] = c /\ v[2] = d
      /\ t[1] = a /\ t[2] = b /\ t[3] = c /\ t[4] = d
  BY <1>1
<1>4. /\ r \in Seq(S) /\ Len(r) = Len(u) + Len(v)
      /\ \A i \in 1..Len(u) + Len(v) : r[i] = IF i <= Len(u) THEN u[i] ELSE v[i - Len(u)]
  BY <1>1, <1>2, ConcatProperties
<1>5. Len(r) = 4 /\ r[1] = a /\ r[2] = b /\ r[3] = c /\ r[4] = d
  BY ONLY <1>3, <1>4
<1>6. r = t
  <2>1. \A i \in 1..Len(r) : r[i] = t[i]
    BY ONLY <1>3, <1>5
  <2> QED
    BY ONLY <1>2, <1>3, <1>4, <1>5, <2>1, SeqEqual
<1> QED
  BY <1>1, <1>6

(* The same, for other lengths. *)
LEMMA Joined21 ==
    ASSUME NEW a, NEW b, NEW c
    PROVE  <<a, b>> \o <<c>> = <<a, b, c>>
<1>1. PICK S, u, v, r, t : /\ S = {a, b, c} /\ u = <<a, b>> /\ v = <<c>>
                           /\ r = u \o v /\ t = <<a, b, c>>
  OBVIOUS
<1>2. u \in Seq(S) /\ v \in Seq(S) /\ t \in Seq(S)
  BY <1>1
<1>3. /\ Len(u) = 2 /\ Len(v) = 1 /\ Len(t) = 3 /\ u[1] = a /\ u[2] = b /\ v[1] = c
      /\ t[1] = a /\ t[2] = b /\ t[3] = c
  BY <1>1
<1>4. /\ r \in Seq(S) /\ Len(r) = Len(u) + Len(v)
      /\ \A i \in 1..Len(u) + Len(v) : r[i] = IF i <= Len(u) THEN u[i] ELSE v[i - Len(u)]
  BY <1>1, <1>2, ConcatProperties
<1>5. Len(r) = 3 /\ r[1] = a /\ r[2] = b /\ r[3] = c
  BY ONLY <1>3, <1>4
<1>6. r = t
  <2>1. \A i \in 1..Len(r) : r[i] = t[i]
    BY ONLY <1>3, <1>5
  <2> QED
    BY ONLY <1>2, <1>3, <1>4, <1>5, <2>1, SeqEqual
<1> QED
  BY <1>1, <1>6

(* The same, for other lengths. *)
LEMMA Joined20 ==
    ASSUME NEW a, NEW b
    PROVE  <<a, b>> \o <<>> = <<a, b>>
OBVIOUS

(* Work and no mark. *)
LEMMA EndsPlain ==
    ASSUME NEW q, NEW w, NEW r, Extends(q, w, <<>>, r)
    PROVE  /\ Len(q) \in Nat
           /\ Len(w) = 1 => /\ Grown(q, r, 1) /\ r[Len(q) + 1] = w[1]
           /\ Len(w) = 2 => /\ Grown(q, r, 2) /\ r[Len(q) + 1] = w[1] /\ r[Len(q) + 2] = w[2]
           /\ Len(w) = 3 => /\ Grown(q, r, 3) /\ r[Len(q) + 1] = w[1] /\ r[Len(q) + 2] = w[2]
                            /\ r[Len(q) + 3] = w[3]
           /\ Len(w) = 4 => /\ Grown(q, r, 4) /\ r[Len(q) + 1] = w[1] /\ r[Len(q) + 2] = w[2]
                            /\ r[Len(q) + 3] = w[3] /\ r[Len(q) + 4] = w[4]
<1>1. PICK n, k : n = Len(q) /\ k = Len(w)
  OBVIOUS
<1>2. /\ n \in Nat /\ Grown(q, r, k + 0)
      /\ k >= 1 => r[n + 1] = w[1]
      /\ k >= 2 => r[n + 2] = w[2]
      /\ k >= 3 => r[n + 3] = w[3]
      /\ k >= 4 => r[n + 4] = w[4]
  <2>1. Len(q) \in Nat /\ Grown(q, r, Len(w) + 0)
    <3>1. Len(q) \in Nat /\ Grown(q, r, Len(w) + Len(<<>>))
      BY Ends
    <3> QED
      BY <3>1, Short
  <2>2. Len(w) >= 1 => r[Len(q) + 1] = w[1]
    BY Ends
  <2>3. Len(w) >= 2 => r[Len(q) + 2] = w[2]
    BY Ends
  <2>4. Len(w) >= 3 => r[Len(q) + 3] = w[3]
    BY Ends
  <2>5. Len(w) >= 4 => r[Len(q) + 4] = w[4]
    BY Ends
  <2> QED
    BY <1>1, <2>1, <2>2, <2>3, <2>4, <2>5
<1>3. 1 + 0 = 1 /\ 2 + 0 = 2 /\ 3 + 0 = 3 /\ 4 + 0 = 4
  OBVIOUS
<1>4. /\ k = 1 => Grown(q, r, 1) /\ r[n + 1] = w[1]
      /\ k = 2 => Grown(q, r, 2) /\ r[n + 1] = w[1] /\ r[n + 2] = w[2]
      /\ k = 3 => Grown(q, r, 3) /\ r[n + 1] = w[1] /\ r[n + 2] = w[2] /\ r[n + 3] = w[3]
      /\ k = 4 => /\ Grown(q, r, 4) /\ r[n + 1] = w[1] /\ r[n + 2] = w[2]
                  /\ r[n + 3] = w[3] /\ r[n + 4] = w[4]
  BY ONLY <1>2, <1>3
<1> QED
  BY <1>1, <1>2, <1>4

(* The released cells that stream s uses, and the work that marks them. *)
Marked(released, used, s) == {x \in released \ {NoCell} : used[x] = s}
MarkOf(op, xs) == op.do = "mark" /\ op.reads = <<>> /\ op.writes = xs

(* Released cells that a stream uses are marked there. *)
LEMMA MarkWorks ==
    /\ MarkWork({}) = <<>>
    /\ \A xs : xs # {} => /\ IsSeq(MarkWork(xs)) /\ Len(MarkWork(xs)) = 1
                          /\ MarkOf(MarkWork(xs)[1], xs)
<1>1. MarkWork({}) = <<>>
  BY DEF MarkWork
<1>2. ASSUME NEW xs, xs # {}
      PROVE  /\ IsSeq(MarkWork(xs)) /\ Len(MarkWork(xs)) = 1 /\ MarkOf(MarkWork(xs)[1], xs)
  <2>1. MarkWork(xs) = <<Work("mark", <<>>, xs, This)>>
    BY <1>2 DEF MarkWork
  <2>2. PICK op : op = Work("mark", <<>>, xs, This)
    OBVIOUS
  <2>3. MarkOf(op, xs)
    BY <2>2 DEF MarkOf, Work
  <2> QED
    BY <2>1, <2>2, <2>3, Short
<1> QED
  BY <1>1, <1>2

(* The caller's query is enqueued. *)
LEMMA DecodeQueues ==
    ASSUME HostTypeOK, \E n \in 1..MaxChunks : Decode(n)
    PROVE  /\ pc = "idle" /\ pc' = "next" /\ call < MaxCalls /\ call' = call + 1
           /\ chunks' \in 1..MaxChunks /\ chunk' = 0
           /\ UNCHANGED <<direct, passed, mem, clone, tensors, current, merged, result,
                          faults>>
           /\ Grown(queue["caller"], queue'["caller"], 1) /\ Len(queue["caller"]) \in Nat
           /\ queue'["caller"][Len(queue["caller"]) + 1]
                 = Work("query", <<>>, {query'}, call + 1)
           /\ queue'["transfer"] = queue["transfer"] /\ queue'["compute"] = queue["compute"]
           /\ DOMAIN queue' = Streams
           /\ query' \in free \cap CallerCells /\ free' = free \ {query'}
           /\ user' = [user EXCEPT ![query'] = "none"]
<1>1. PICK q : /\ q \in free \cap CallerCells /\ query' = q
               /\ Enqueue(On("caller", <<Work("query", <<>>, {q}, call + 1)>>), {q}, {},
                          [user EXCEPT ![q] = "none"])
  BY DEF Decode
<1>2. PICK op : op = Work("query", <<>>, {q}, call + 1)
  OBVIOUS
<1>3. \A s : Marks({}, [user EXCEPT ![q] = "none"])[s] = {} \/ s \notin Streams
  BY DEF Marks
<1>4. /\ queue'["caller"] = queue["caller"] \o <<op>> \o <<>>
      /\ queue'["transfer"] = queue["transfer"] \o <<>> \o <<>>
      /\ queue'["compute"] = queue["compute"] \o <<>> \o <<>>
  BY <1>1, <1>2, <1>3, Names, MarkWorks DEF Enqueue, On
<1>5. IsSeq(queue["caller"]) /\ IsSeq(queue["transfer"]) /\ IsSeq(queue["compute"])
  BY Names DEF HostTypeOK
<1>6. /\ Extends(queue["caller"], <<op>>, <<>>, queue'["caller"])
      /\ Extends(queue["transfer"], <<>>, <<>>, queue'["transfer"])
      /\ Extends(queue["compute"], <<>>, <<>>, queue'["compute"])
  BY <1>4, <1>5, Short DEF Extends
<1>7. queue'["transfer"] = queue["transfer"] /\ queue'["compute"] = queue["compute"]
  BY <1>6, Extended, Short
<1>8. /\ Grown(queue["caller"], queue'["caller"], 1) /\ Len(queue["caller"]) \in Nat
      /\ queue'["caller"][Len(queue["caller"]) + 1] = op
  <2>1. PICK w, m : w = <<op>> /\ m = <<>>
    OBVIOUS
  <2>2. /\ Extends(queue["caller"], w, m, queue'["caller"])
        /\ Len(w) = 1 /\ w[1] = op /\ Len(m) = 0
    BY <1>6, <2>1, Short
  <2>3. PICK b, c : b = queue["caller"] /\ c = queue'["caller"]
    OBVIOUS
  <2>4. Extends(b, w, m, c) /\ Len(w) + Len(m) = 1 /\ Len(w) >= 1
    BY <2>2, <2>3
  <2>5. Len(b) \in Nat /\ Grown(b, c, Len(w) + Len(m))
    BY <2>4, Ends
  <2>6. c[Len(b) + 1] = w[1]
    BY <2>4, Ends
  <2> QED
    BY <2>2, <2>3, <2>4, <2>5, <2>6
<1>9. /\ DOMAIN queue' = Streams /\ free' = free \ {q}
      /\ user' = [user EXCEPT ![q] = "none"]
  BY <1>1 DEF Enqueue
<1>10. /\ pc = "idle" /\ pc' = "next" /\ call < MaxCalls /\ call' = call + 1
       /\ chunks' \in 1..MaxChunks /\ chunk' = 0
       /\ UNCHANGED <<direct, passed, mem, clone, tensors, current, merged, result, faults>>
  BY DEF Decode
<1> QED
  BY <1>1, <1>2, <1>7, <1>8, <1>9, <1>10

(* The loader delivers a chunk, of clones when direct. *)
LEMMA NextChunkQueues ==
    ASSUME HostTypeOK, NextChunk
    PROVE  /\ pc = "next" /\ pc' = "stage" /\ chunk < chunks /\ chunk' = chunk + 1
           /\ UNCHANGED <<direct, passed, mem, call, chunks, query, tensors, current, merged,
                          result, faults>>
           /\ queue'["transfer"] = queue["transfer"] /\ queue'["compute"] = queue["compute"]
           /\ DOMAIN queue' = Streams
           /\ direct =>
                /\ Grown(queue["caller"], queue'["caller"], 1) /\ Len(queue["caller"]) \in Nat
                /\ queue'["caller"][Len(queue["caller"]) + 1]
                      = Work("clone", <<>>, {clone'}, <<call, chunk + 1>>)
                /\ clone' \in (free \cup ({clone} \ {NoCell})) \cap CallerCells
                /\ free' = (free \cup ({clone} \ {NoCell})) \ {clone'}
                /\ user' = [user EXCEPT ![clone'] = "none"]
           /\ ~direct => UNCHANGED <<clone, queue, free, user>>
<1>1. /\ pc = "next" /\ pc' = "stage" /\ chunk < chunks /\ chunk' = chunk + 1
      /\ UNCHANGED <<direct, passed, mem, call, chunks, query, tensors, current, merged,
                     result, faults>>
  BY DEF NextChunk, MoreChunks
<1>2. CASE ~direct
  BY <1>1, <1>2 DEF NextChunk, HostTypeOK
<1>3. CASE direct
  <2>1. PICK b : /\ clone' = b /\ b \in (free \cup ({clone} \ {NoCell})) \cap CallerCells
                 /\ queue' = [queue EXCEPT !["caller"] =
                       Append(@, Work("clone", <<>>, {b}, <<call, chunk + 1>>))]
                 /\ free' = (free \cup ({clone} \ {NoCell})) \ {b}
                 /\ user' = [user EXCEPT ![b] = "none"]
    BY <1>3 DEF NextChunk
  <2>2. PICK op : op = Work("clone", <<>>, {b}, <<call, chunk + 1>>)
    OBVIOUS
  <2>3. /\ DOMAIN queue = Streams /\ IsSeq(queue["caller"])
    BY Names DEF HostTypeOK
  <2>4. /\ queue'["caller"] = Append(queue["caller"], op) /\ DOMAIN queue' = Streams
        /\ queue'["transfer"] = queue["transfer"] /\ queue'["compute"] = queue["compute"]
    BY <2>1, <2>2, <2>3, Names
  <2>5. /\ Grown(queue["caller"], queue'["caller"], 1) /\ Len(queue["caller"]) \in Nat
        /\ queue'["caller"][Len(queue["caller"]) + 1] = op
    <3>1. Appends(queue["caller"], op, queue'["caller"])
      BY <2>3, <2>4 DEF Appends
    <3> QED
      BY <3>1, Appended
  <2> QED
    BY <1>1, <1>3, <2>1, <2>2, <2>4, <2>5
<1> QED
  BY <1>2, <1>3

(* Enqueue, queue by queue. *)
LEMMA EnqueueExtends ==
    ASSUME HostTypeOK, NEW work, NEW taken, NEW released, NEW used,
           Enqueue(work, taken, released, used),
           IsSeq(work["caller"]), IsSeq(work["transfer"]), IsSeq(work["compute"])
    PROVE  /\ Extends(queue["caller"], work["caller"],
                      MarkWork(Marked(released, used, "caller")), queue'["caller"])
           /\ Extends(queue["transfer"], work["transfer"],
                      MarkWork(Marked(released, used, "transfer")), queue'["transfer"])
           /\ Extends(queue["compute"], work["compute"],
                      MarkWork(Marked(released, used, "compute")), queue'["compute"])
           /\ DOMAIN queue' = Streams
<1>1. \A s \in Streams : Marks(released, used)[s] = Marked(released, used, s)
  BY DEF Marks, Marked
<1>2. \A xs : IsSeq(MarkWork(xs))
  BY MarkWorks, Short
<1>3. IsSeq(queue["caller"]) /\ IsSeq(queue["transfer"]) /\ IsSeq(queue["compute"])
  BY Names DEF HostTypeOK
<1>4. /\ DOMAIN queue' = Streams
      /\ \A s \in Streams :
            queue'[s] = queue[s] \o work[s] \o MarkWork(Marked(released, used, s))
  BY <1>1 DEF Enqueue
<1> QED
  BY <1>2, <1>3, <1>4, Names DEF Extends

(* The loader raises: what compute was given is marked there. *)
LEMMA LoaderRaisesQueues ==
    ASSUME HostTypeOK, HostInv, LoaderRaises
    PROVE  /\ pc = "next" /\ pc' = "idle" /\ faults' \in 0..MaxFaults
           /\ UNCHANGED <<direct, passed, mem, user, call, chunks, chunk, result>>
           /\ query' = NoCell /\ clone' = NoCell
           /\ tensors' = NoCell /\ current' = NoCell /\ merged' = NoCell
           /\ queue'["caller"] = queue["caller"] /\ queue'["transfer"] = queue["transfer"]
           /\ DOMAIN queue' = Streams
           /\ merged = NoCell => /\ queue'["compute"] = queue["compute"]
                                 /\ free' = free \cup ({query, clone} \ {NoCell})
           /\ merged # NoCell =>
                /\ Grown(queue["compute"], queue'["compute"], 1)
                /\ Len(queue["compute"]) \in Nat
                /\ MarkOf(queue'["compute"][Len(queue["compute"]) + 1], {query, tensors})
                /\ free' = free \cup ({clone, merged} \ {NoCell})
<1>1. /\ pc = "next" /\ pc' = "idle" /\ faults' \in 0..MaxFaults
      /\ UNCHANGED <<direct, passed, mem, user, call, chunks, chunk, result>>
      /\ query' = NoCell /\ clone' = NoCell
      /\ tensors' = NoCell /\ current' = NoCell /\ merged' = NoCell
  BY ConstantsAssumption DEF LoaderRaises, Enqueue, HostTypeOK
<1>2. PICK w, released :
        /\ w = On("caller", <<>>) /\ released = {query, clone, tensors, current, merged}
        /\ Enqueue(w, {}, released, user)
  BY DEF LoaderRaises
<1>3. w["caller"] = <<>> /\ w["transfer"] = <<>> /\ w["compute"] = <<>>
  BY <1>2, Names DEF On
<1>4. /\ Extends(queue["caller"], <<>>, MarkWork(Marked(released, user, "caller")),
                 queue'["caller"])
      /\ Extends(queue["transfer"], <<>>, MarkWork(Marked(released, user, "transfer")),
                 queue'["transfer"])
      /\ Extends(queue["compute"], <<>>, MarkWork(Marked(released, user, "compute")),
                 queue'["compute"])
      /\ DOMAIN queue' = Streams
  BY <1>2, <1>3, EnqueueExtends, Short
<1>5. /\ current = NoCell /\ query # NoCell
      /\ clone # NoCell => user[clone] = "none"
      /\ merged = NoCell => tensors = NoCell /\ user[query] = "none"
      /\ merged # NoCell => /\ tensors # NoCell /\ user[merged] = "none"
                            /\ user[query] = "compute" /\ user[tensors] = "compute"
  BY <1>1 DEF HostInv
<1>6. /\ Marked(released, user, "caller") = {} /\ Marked(released, user, "transfer") = {}
      /\ merged = NoCell => Marked(released, user, "compute") = {}
      /\ merged # NoCell => Marked(released, user, "compute") = {query, tensors}
  BY <1>2, <1>5 DEF Marked
<1>7. queue'["caller"] = queue["caller"] /\ queue'["transfer"] = queue["transfer"]
  <2>1. /\ Extends(queue["caller"], <<>>, <<>>, queue'["caller"])
        /\ Extends(queue["transfer"], <<>>, <<>>, queue'["transfer"])
    BY <1>4, <1>6, MarkWorks
  <2> QED
    BY <2>1, EndsNone
<1>8. ASSUME merged = NoCell PROVE queue'["compute"] = queue["compute"]
  <2>1. Extends(queue["compute"], <<>>, <<>>, queue'["compute"])
    BY <1>4, <1>6, <1>8, MarkWorks
  <2> QED
    BY <2>1, EndsNone
<1>9. ASSUME merged # NoCell
      PROVE  /\ Grown(queue["compute"], queue'["compute"], 1)
             /\ Len(queue["compute"]) \in Nat
             /\ MarkOf(queue'["compute"][Len(queue["compute"]) + 1], {query, tensors})
  <2>1. PICK w0, m : w0 = <<>> /\ m = MarkWork({query, tensors})
    OBVIOUS
  <2>2. /\ Extends(queue["compute"], w0, m, queue'["compute"])
        /\ Len(w0) = 0 /\ Len(m) = 1 /\ MarkOf(m[1], {query, tensors})
    <3>1. {query, tensors} # {}
      OBVIOUS
    <3>2. Len(m) = 1 /\ MarkOf(m[1], {query, tensors})
      BY <2>1, <3>1, MarkWorks
    <3>3. Extends(queue["compute"], w0, m, queue'["compute"])
      BY <1>4, <1>6, <1>9, <2>1
    <3> QED
      BY <2>1, <3>2, <3>3, Short
  <2> QED
    BY <2>2, EndsMark
<1>10. /\ merged = NoCell => free' = free \cup ({query, clone} \ {NoCell})
       /\ merged # NoCell => free' = free \cup ({clone, merged} \ {NoCell})
  <2>1. free' = free \cup {x \in {query, clone, tensors, current, merged} \ {NoCell} :
                               user[x] = "none"}
    BY DEF LoaderRaises, Enqueue
  <2> QED
    BY <1>5, <2>1
<1> QED
  BY <1>1, <1>4, <1>7, <1>8, <1>9, <1>10

(* A chunk is staged. *)
LEMMA StageQueues ==
    ASSUME HostTypeOK, Stage
    PROVE  /\ pc = "stage" /\ pc' = IF direct THEN "sync" ELSE "rebind"
           /\ UNCHANGED <<direct, passed, mem, call, chunks, chunk, query, clone, tensors,
                          merged, result, faults>>
           /\ queue'["caller"] = queue["caller"] /\ queue'["compute"] = queue["compute"]
           /\ DOMAIN queue' = Streams
           /\ current' \in free \cap TransferCells /\ free' = free \ {current'}
           /\ user' = [user EXCEPT ![current'] = "none"]
           /\ Len(queue["transfer"]) \in Nat
           /\ direct =>
                /\ Grown(queue["transfer"], queue'["transfer"], 4)
                /\ queue'["transfer"][Len(queue["transfer"]) + 1] = Record(<<"own", This>>)
                /\ queue'["transfer"][Len(queue["transfer"]) + 2] = Wait(<<"own", This>>)
                /\ queue'["transfer"][Len(queue["transfer"]) + 3]
                      = Work("stack", <<clone>>, {current'}, This)
                /\ queue'["transfer"][Len(queue["transfer"]) + 4] = Record(<<"ready", This>>)
           /\ ~direct =>
                /\ Grown(queue["transfer"], queue'["transfer"], 2)
                /\ queue'["transfer"][Len(queue["transfer"]) + 1]
                      = Work("stack", <<>>, {current'}, This)
                /\ queue'["transfer"][Len(queue["transfer"]) + 2] = Record(<<"ready", This>>)
<1>1. /\ pc = "stage" /\ pc' = IF direct THEN "sync" ELSE "rebind"
      /\ UNCHANGED <<direct, passed, mem, call, chunks, chunk, query, clone, tensors,
                     merged, result, faults>>
  BY DEF Stage
<1>2. PICK t, w, used :
        /\ t \in free \cap TransferCells /\ current' = t
        /\ w = On("transfer", StageWork(t)) /\ used = [user EXCEPT ![t] = "none"]
        /\ Enqueue(w, {t}, {}, used)
  BY DEF Stage
<1>3. w["caller"] = <<>> /\ w["transfer"] = StageWork(t) /\ w["compute"] = <<>>
  BY <1>2, Names DEF On
<1>4. PICK a, b, c, d :
        /\ a = Record(<<"own", This>>) /\ b = Wait(<<"own", This>>)
        /\ c = Work("stack", IF direct THEN <<clone>> ELSE <<>>, {t}, This)
        /\ d = Record(<<"ready", This>>)
  OBVIOUS
<1>5. /\ direct => StageWork(t) = <<a, b, c, d>>
      /\ ~direct => StageWork(t) = <<c, d>>
  <2>1. StageWork(t) = (IF direct THEN <<a, b>> ELSE <<>>) \o <<c, d>>
    BY <1>4 DEF StageWork
  <2>2. <<>> \o <<c, d>> = <<c, d>> /\ <<a, b>> \o <<c, d>> = <<a, b, c, d>>
    BY Joined02, Joined22
  <2> QED
    BY <2>1, <2>2
<1>6. \A s : Marked({}, used, s) = {}
  BY DEF Marked
<1>7. /\ Extends(queue["caller"], <<>>, <<>>, queue'["caller"])
      /\ Extends(queue["transfer"], StageWork(t), <<>>, queue'["transfer"])
      /\ Extends(queue["compute"], <<>>, <<>>, queue'["compute"])
      /\ DOMAIN queue' = Streams
  <2>1. IsSeq(<<>>) /\ IsSeq(StageWork(t))
    BY <1>5, Short
  <2> QED
    BY <1>2, <1>3, <1>6, <2>1, EnqueueExtends, MarkWorks
<1>8. queue'["caller"] = queue["caller"] /\ queue'["compute"] = queue["compute"]
  BY <1>7, EndsNone
<1>9. Len(queue["transfer"]) \in Nat
  BY <1>7, EndsPlain
<1>10. ASSUME direct
       PROVE  /\ Grown(queue["transfer"], queue'["transfer"], 4)
              /\ queue'["transfer"][Len(queue["transfer"]) + 1] = a
              /\ queue'["transfer"][Len(queue["transfer"]) + 2] = b
              /\ queue'["transfer"][Len(queue["transfer"]) + 3] = c
              /\ queue'["transfer"][Len(queue["transfer"]) + 4] = d
  <2>1. PICK v : v = <<a, b, c, d>>
    OBVIOUS
  <2>2. Len(v) = 4 /\ v[1] = a /\ v[2] = b /\ v[3] = c /\ v[4] = d
    BY <2>1, Short
  <2>3. Extends(queue["transfer"], v, <<>>, queue'["transfer"])
    BY <1>5, <1>7, <1>10, <2>1
  <2> QED
    BY <2>2, <2>3, EndsPlain
<1>11. ASSUME ~direct
       PROVE  /\ Grown(queue["transfer"], queue'["transfer"], 2)
              /\ queue'["transfer"][Len(queue["transfer"]) + 1] = c
              /\ queue'["transfer"][Len(queue["transfer"]) + 2] = d
  <2>1. PICK v : v = <<c, d>>
    OBVIOUS
  <2>2. Len(v) = 2 /\ v[1] = c /\ v[2] = d
    BY <2>1, Short
  <2>3. Extends(queue["transfer"], v, <<>>, queue'["transfer"])
    BY <1>5, <1>7, <1>11, <2>1
  <2> QED
    BY <2>2, <2>3, EndsPlain
<1>12. free' = free \ {t} /\ user' = used
  BY <1>2 DEF Enqueue
<1>13. /\ direct => c = Work("stack", <<clone>>, {t}, This)
       /\ ~direct => c = Work("stack", <<>>, {t}, This)
  BY <1>4
<1> QED
  BY <1>1, <1>2, <1>4, <1>7, <1>8, <1>9, <1>10, <1>11, <1>12, <1>13

(* The tensors of the chunk before are let go behind its attention. *)
LEMMA RebindQueues ==
    ASSUME HostTypeOK, HostInv, Rebind
    PROVE  /\ pc = "rebind" /\ pc' = "run" /\ tensors' = current /\ current' = NoCell
           /\ UNCHANGED <<direct, passed, mem, free, user, call, chunks, chunk, query, clone,
                          merged, result, faults>>
           /\ queue'["caller"] = queue["caller"] /\ queue'["transfer"] = queue["transfer"]
           /\ DOMAIN queue' = Streams
           /\ merged = NoCell <=> tensors = NoCell
           /\ merged = NoCell => queue'["compute"] = queue["compute"]
           /\ merged # NoCell =>
                /\ Grown(queue["compute"], queue'["compute"], 1)
                /\ Len(queue["compute"]) \in Nat
                /\ MarkOf(queue'["compute"][Len(queue["compute"]) + 1], {tensors})
<1>1. /\ pc = "rebind" /\ pc' = "run" /\ tensors' = current /\ current' = NoCell
      /\ UNCHANGED <<direct, passed, mem, user, call, chunks, chunk, query, clone,
                     merged, result, faults>>
  BY DEF Rebind, Enqueue
<1>2. PICK w, released :
        /\ w = On("compute", <<>>) /\ released = {tensors}
        /\ Enqueue(w, {}, released, user)
  BY DEF Rebind, Rebound
<1>3. w["caller"] = <<>> /\ w["transfer"] = <<>> /\ w["compute"] = <<>>
  BY <1>2, Names DEF On
<1>4. /\ Extends(queue["caller"], <<>>, MarkWork(Marked(released, user, "caller")),
                 queue'["caller"])
      /\ Extends(queue["transfer"], <<>>, MarkWork(Marked(released, user, "transfer")),
                 queue'["transfer"])
      /\ Extends(queue["compute"], <<>>, MarkWork(Marked(released, user, "compute")),
                 queue'["compute"])
      /\ DOMAIN queue' = Streams
  BY <1>2, <1>3, EnqueueExtends, Short
<1>5. /\ merged = NoCell <=> tensors = NoCell
      /\ tensors # NoCell => user[tensors] = "compute"
  BY <1>1 DEF HostInv
<1>6. /\ Marked(released, user, "caller") = {} /\ Marked(released, user, "transfer") = {}
      /\ merged = NoCell => Marked(released, user, "compute") = {}
      /\ merged # NoCell => Marked(released, user, "compute") = {tensors}
  BY <1>2, <1>5 DEF Marked
<1>7. queue'["caller"] = queue["caller"] /\ queue'["transfer"] = queue["transfer"]
  <2>1. /\ Extends(queue["caller"], <<>>, <<>>, queue'["caller"])
        /\ Extends(queue["transfer"], <<>>, <<>>, queue'["transfer"])
    BY <1>4, <1>6, MarkWorks
  <2> QED
    BY <2>1, EndsNone
<1>8. ASSUME merged = NoCell PROVE queue'["compute"] = queue["compute"]
  <2>1. Extends(queue["compute"], <<>>, <<>>, queue'["compute"])
    BY <1>4, <1>6, <1>8, MarkWorks
  <2> QED
    BY <2>1, EndsNone
<1>9. ASSUME merged # NoCell
      PROVE  /\ Grown(queue["compute"], queue'["compute"], 1)
             /\ Len(queue["compute"]) \in Nat
             /\ MarkOf(queue'["compute"][Len(queue["compute"]) + 1], {tensors})
  <2>1. PICK w0, m : w0 = <<>> /\ m = MarkWork({tensors})
    OBVIOUS
  <2>2. /\ Extends(queue["compute"], w0, m, queue'["compute"])
        /\ Len(w0) = 0 /\ Len(m) = 1 /\ MarkOf(m[1], {tensors})
    <3>1. {tensors} # {}
      OBVIOUS
    <3>2. Len(m) = 1 /\ MarkOf(m[1], {tensors})
      BY <2>1, <3>1, MarkWorks
    <3>3. Extends(queue["compute"], w0, m, queue'["compute"])
      BY <1>4, <1>6, <1>9, <2>1
    <3> QED
      BY <2>1, <3>2, <3>3, Short
  <2> QED
    BY <2>2, EndsMark
<1>10. free' = free
  <2>1. free' = free \cup {x \in {tensors} \ {NoCell} : user[x] = "none"}
    BY <1>2 DEF Enqueue
  <2> QED
    BY <1>5, <2>1, Names
<1> QED
  BY <1>1, <1>4, <1>5, <1>7, <1>8, <1>9, <1>10

(* Attention to the chunk is enqueued, behind what it waits for. *)
LEMMA RunChunkQueues ==
    ASSUME HostTypeOK, HostInv, HeldInv, RunChunk
    PROVE  /\ pc = "run" /\ pc' = "next" /\ tensors # NoCell
           /\ UNCHANGED <<direct, passed, mem, call, chunks, chunk, query, clone, tensors,
                          current, result, faults>>
           /\ queue'["transfer"] = queue["transfer"] /\ DOMAIN queue' = Streams
           /\ merged' \in free \cap ComputeCells
           /\ free' = (free \ {merged'}) \cup ({merged} \ {NoCell})
           /\ user' = [user EXCEPT ![merged'] = "none", ![tensors] = "compute",
                                   ![query] = "compute"]
           /\ chunk = 1 <=> merged = NoCell
           /\ Len(queue["caller"]) \in Nat /\ Len(queue["compute"]) \in Nat
           /\ chunk = 1 =>
                /\ Grown(queue["caller"], queue'["caller"], 1)
                /\ Grown(queue["compute"], queue'["compute"], 3)
                /\ queue'["caller"][Len(queue["caller"]) + 1] = Record(<<"query", call>>)
                /\ queue'["compute"][Len(queue["compute"]) + 1] = Wait(<<"query", call>>)
                /\ queue'["compute"][Len(queue["compute"]) + 2] = Wait(<<"ready", This>>)
                /\ queue'["compute"][Len(queue["compute"]) + 3]
                      = Work("attend", <<query, tensors>>, {merged'}, This)
           /\ chunk # 1 =>
                /\ queue'["caller"] = queue["caller"]
                /\ Grown(queue["compute"], queue'["compute"], 2)
                /\ queue'["compute"][Len(queue["compute"]) + 1] = Wait(<<"ready", This>>)
                /\ queue'["compute"][Len(queue["compute"]) + 2]
                      = Work("attend", <<query, tensors, merged>>, {merged'}, This)
<1>1. /\ pc = "run" /\ pc' = "next"
      /\ UNCHANGED <<direct, passed, mem, call, chunks, chunk, query, clone, tensors,
                     current, result, faults>>
  BY DEF RunChunk
<1>2. PICK m, w, used :
        /\ m \in free \cap ComputeCells /\ merged' = m
        /\ w = [s \in Streams |-> CASE s = "caller"  -> CallerReady
                                     [] s = "compute" -> ComputeWork(m)
                                     [] OTHER         -> <<>>]
        /\ used = [user EXCEPT ![m] = "none", ![tensors] = "compute", ![query] = "compute"]
        /\ Enqueue(w, {m}, {merged}, used)
  BY DEF RunChunk, Users
<1>3. /\ w["caller"] = CallerReady /\ w["transfer"] = <<>> /\ w["compute"] = ComputeWork(m)
  BY <1>2, Names
<1>4. /\ chunk = 1 <=> merged = NoCell
      /\ tensors # NoCell /\ query # NoCell
      /\ merged # NoCell => user[merged] = "none"
      /\ chunk \in Nat /\ chunk > 0
  BY <1>1, ConstantsAssumption DEF HostInv, HostTypeOK, RunSoFar
<1>5. merged # NoCell => used[merged] = "none"
  <2>1. /\ user \in [Cells -> Streams \cup {"none"}]
        /\ {query, clone} \subseteq CallerCells \cup {NoCell}
        /\ {tensors, current} \subseteq TransferCells \cup {NoCell}
        /\ merged \in ComputeCells \cup {NoCell}
    BY DEF HostTypeOK
  <2>2. m # merged
    BY <1>2, Names DEF HeldInv, Held
  <2> QED
    BY <1>2, <1>4, <2>1, <2>2, Names, ConstantsAssumption
<1>6. /\ Marked({merged}, used, "caller") = {}
      /\ Marked({merged}, used, "transfer") = {}
      /\ Marked({merged}, used, "compute") = {}
  BY <1>5 DEF Marked
<1>7. PICK a, b, c : /\ a = Wait(<<"query", call>>) /\ b = Wait(<<"ready", This>>)
                     /\ c = Work("attend", IF chunk = 1 THEN <<query, tensors>>
                                            ELSE <<query, tensors, merged>>, {m}, This)
  OBVIOUS
<1>8. /\ chunk = 1 => ComputeWork(m) = <<a, b, c>>
      /\ chunk # 1 => ComputeWork(m) = <<b, c>>
  <2>1. <<>> \o <<b, c>> = <<b, c>> /\ <<a>> \o <<b, c>> = <<a, b, c>>
    BY Joined02, Joined12
  <2>4. /\ <<query, tensors>> \o <<>> = <<query, tensors>>
        /\ <<query, tensors>> \o <<merged>> = <<query, tensors, merged>>
    BY Joined20, Joined21
  <2>2. c = Work("attend", <<query, tensors>> \o (IF merged = NoCell THEN <<>> ELSE <<merged>>),
                 {m}, This)
    BY <1>4, <1>7, <2>4
  <2>3. ComputeWork(m) = (IF chunk = 1 THEN <<a>> ELSE <<>>) \o <<b, c>>
    BY <1>7, <2>2 DEF ComputeWork
  <2> QED
    BY <2>1, <2>3
<1>9. /\ Extends(queue["caller"], CallerReady, <<>>, queue'["caller"])
      /\ Extends(queue["transfer"], <<>>, <<>>, queue'["transfer"])
      /\ Extends(queue["compute"], ComputeWork(m), <<>>, queue'["compute"])
      /\ DOMAIN queue' = Streams
  <2>1. IsSeq(<<>>) /\ IsSeq(CallerReady) /\ IsSeq(ComputeWork(m))
    BY <1>8, Short DEF CallerReady
  <2>2. /\ Extends(queue["caller"], CallerReady,
                   MarkWork(Marked({merged}, used, "caller")), queue'["caller"])
        /\ Extends(queue["transfer"], <<>>,
                   MarkWork(Marked({merged}, used, "transfer")), queue'["transfer"])
        /\ Extends(queue["compute"], ComputeWork(m),
                   MarkWork(Marked({merged}, used, "compute")), queue'["compute"])
        /\ DOMAIN queue' = Streams
    BY <1>2, <1>3, <2>1, EnqueueExtends
  <2> QED
    BY <1>6, <2>2, MarkWorks
<1>10. queue'["transfer"] = queue["transfer"]
  BY <1>9, EndsNone
<1>11. Len(queue["caller"]) \in Nat /\ Len(queue["compute"]) \in Nat
  <2>1. Len(queue["caller"]) \in Nat
    BY <1>9, EndsPlain
  <2>2. Len(queue["compute"]) \in Nat
    BY <1>9, EndsPlain
  <2> QED
    BY <2>1, <2>2
<1>12. ASSUME chunk = 1
       PROVE  /\ Grown(queue["caller"], queue'["caller"], 1)
              /\ queue'["caller"][Len(queue["caller"]) + 1] = Record(<<"query", call>>)
  <2>1. PICK op, v : op = Record(<<"query", call>>) /\ v = <<op>>
    OBVIOUS
  <2>2. Len(v) = 1 /\ v[1] = op
    BY <2>1, Short
  <2>3. Extends(queue["caller"], v, <<>>, queue'["caller"])
    BY <1>9, <1>12, <2>1 DEF CallerReady
  <2>4. /\ Grown(queue["caller"], queue'["caller"], 1)
        /\ queue'["caller"][Len(queue["caller"]) + 1] = v[1]
    BY <2>2, <2>3, EndsPlain
  <2> QED
    BY <2>1, <2>2, <2>4
<1>13. ASSUME chunk # 1 PROVE queue'["caller"] = queue["caller"]
  <2>1. Extends(queue["caller"], <<>>, <<>>, queue'["caller"])
    BY <1>9, <1>13 DEF CallerReady
  <2> QED
    BY <2>1, EndsNone
<1>14. ASSUME chunk = 1
       PROVE  /\ Grown(queue["compute"], queue'["compute"], 3)
              /\ queue'["compute"][Len(queue["compute"]) + 1] = a
              /\ queue'["compute"][Len(queue["compute"]) + 2] = b
              /\ queue'["compute"][Len(queue["compute"]) + 3] = c
  <2>1. PICK v : v = <<a, b, c>>
    OBVIOUS
  <2>2. Len(v) = 3 /\ v[1] = a /\ v[2] = b /\ v[3] = c
    BY <2>1, Short
  <2>3. Extends(queue["compute"], v, <<>>, queue'["compute"])
    BY <1>8, <1>9, <1>14, <2>1
  <2> QED
    BY <2>2, <2>3, EndsPlain
<1>15. ASSUME chunk # 1
       PROVE  /\ Grown(queue["compute"], queue'["compute"], 2)
              /\ queue'["compute"][Len(queue["compute"]) + 1] = b
              /\ queue'["compute"][Len(queue["compute"]) + 2] = c
  <2>1. PICK v : v = <<b, c>>
    OBVIOUS
  <2>2. Len(v) = 2 /\ v[1] = b /\ v[2] = c
    BY <2>1, Short
  <2>3. Extends(queue["compute"], v, <<>>, queue'["compute"])
    BY <1>8, <1>9, <1>15, <2>1
  <2> QED
    BY <2>2, <2>3, EndsPlain
<1>16. user' = used /\ free' = (free \ {m}) \cup ({merged} \ {NoCell})
  <2>1. /\ user' = used
        /\ free' = (free \ {m}) \cup {x \in {merged} \ {NoCell} : used[x] = "none"}
    BY <1>2 DEF Enqueue
  <2> QED
    BY <1>5, <2>1
<1>17. /\ chunk = 1 => c = Work("attend", <<query, tensors>>, {m}, This)
       /\ chunk # 1 => c = Work("attend", <<query, tensors, merged>>, {m}, This)
  BY <1>7
<1> QED
  BY <1>1, <1>2, <1>4, <1>7, <1>9, <1>10, <1>11, <1>12, <1>13, <1>14, <1>15,
     <1>16, <1>17

(* The result is converted behind all of the call's work. *)
LEMMA FinishQueues ==
    ASSUME HostTypeOK, HostInv, Finish
    PROVE  /\ pc = "finish" /\ pc' = "idle"
           /\ UNCHANGED <<direct, passed, mem, call, chunks, chunk, result, faults>>
           /\ query' = NoCell /\ clone' = NoCell
           /\ tensors' = NoCell /\ current' = NoCell /\ merged' = NoCell
           /\ queue'["transfer"] = queue["transfer"] /\ DOMAIN queue' = Streams
           /\ merged # NoCell /\ chunk = chunks
           /\ user' = [user EXCEPT ![merged] = "caller"]
           /\ free' = free \cup ({clone} \ {NoCell})
           /\ Len(queue["caller"]) \in Nat /\ Len(queue["compute"]) \in Nat
           /\ Grown(queue["compute"], queue'["compute"], 2)
           /\ queue'["compute"][Len(queue["compute"]) + 1] = Record(<<"done", call>>)
           /\ MarkOf(queue'["compute"][Len(queue["compute"]) + 2], {query, tensors})
           /\ Grown(queue["caller"], queue'["caller"], 3)
           /\ queue'["caller"][Len(queue["caller"]) + 1] = Wait(<<"done", call>>)
           /\ queue'["caller"][Len(queue["caller"]) + 2]
                 = Work("convert", <<merged>>, {}, call)
           /\ MarkOf(queue'["caller"][Len(queue["caller"]) + 3], {merged})
<1>1. /\ pc = "finish" /\ pc' = "idle"
      /\ UNCHANGED <<direct, passed, mem, call, chunks, chunk, result, faults>>
      /\ query' = NoCell /\ clone' = NoCell
      /\ tensors' = NoCell /\ current' = NoCell /\ merged' = NoCell
  BY DEF Finish
<1>2. PICK a, b, c : /\ a = Record(<<"done", call>>) /\ b = Wait(<<"done", call>>)
                     /\ c = Work("convert", <<merged>>, {}, call)
  OBVIOUS
<1>3. PICK w, released, used :
        /\ w = [s \in Streams |-> CASE s = "compute" -> <<a>>
                                     [] s = "caller"  -> <<b, c>>
                                     [] OTHER         -> <<>>]
        /\ released = {query, clone, tensors, current, merged}
        /\ used = [user EXCEPT ![merged] = "caller"]
        /\ Enqueue(w, {}, released, used)
  BY <1>2 DEF Finish
<1>4. w["caller"] = <<b, c>> /\ w["transfer"] = <<>> /\ w["compute"] = <<a>>
  BY <1>3, Names
<1>5. /\ chunk = chunks /\ current = NoCell /\ query # NoCell
      /\ merged # NoCell /\ tensors # NoCell
      /\ clone # NoCell => user[clone] = "none"
      /\ user[query] = "compute" /\ user[tensors] = "compute"
  BY <1>1, ConstantsAssumption DEF HostInv, HostTypeOK, RunSoFar
<1>6. /\ used[merged] = "caller" /\ used[query] = "compute" /\ used[tensors] = "compute"
      /\ clone # NoCell => used[clone] = "none"
  <2>1. /\ user \in [Cells -> Streams \cup {"none"}]
        /\ {query, clone} \subseteq CallerCells \cup {NoCell}
        /\ {tensors, current} \subseteq TransferCells \cup {NoCell}
        /\ merged \in ComputeCells \cup {NoCell}
    BY DEF HostTypeOK
  <2> QED
    BY <1>3, <1>5, <2>1, Names, ConstantsAssumption
<1>7. /\ Marked(released, used, "caller") = {merged}
      /\ Marked(released, used, "transfer") = {}
      /\ Marked(released, used, "compute") = {query, tensors}
  BY <1>3, <1>5, <1>6 DEF Marked
<1>8. /\ Extends(queue["caller"], <<b, c>>, MarkWork({merged}), queue'["caller"])
      /\ Extends(queue["transfer"], <<>>, <<>>, queue'["transfer"])
      /\ Extends(queue["compute"], <<a>>, MarkWork({query, tensors}), queue'["compute"])
      /\ DOMAIN queue' = Streams
  <2>1. IsSeq(<<>>) /\ IsSeq(<<a>>) /\ IsSeq(<<b, c>>)
    BY Short
  <2>2. /\ Extends(queue["caller"], <<b, c>>,
                   MarkWork(Marked(released, used, "caller")), queue'["caller"])
        /\ Extends(queue["transfer"], <<>>,
                   MarkWork(Marked(released, used, "transfer")), queue'["transfer"])
        /\ Extends(queue["compute"], <<a>>,
                   MarkWork(Marked(released, used, "compute")), queue'["compute"])
        /\ DOMAIN queue' = Streams
    BY <1>3, <1>4, <2>1, EnqueueExtends
  <2> QED
    BY <1>7, <2>2, MarkWorks
<1>9. queue'["transfer"] = queue["transfer"]
  BY <1>8, EndsNone
<1>10. /\ Len(queue["compute"]) \in Nat /\ Grown(queue["compute"], queue'["compute"], 2)
       /\ queue'["compute"][Len(queue["compute"]) + 1] = a
       /\ MarkOf(queue'["compute"][Len(queue["compute"]) + 2], {query, tensors})
  <2>1. PICK v, k : v = <<a>> /\ k = MarkWork({query, tensors})
    OBVIOUS
  <2>2. Len(v) = 1 /\ v[1] = a
    BY <2>1, Short
  <2>3. Len(k) = 1 /\ MarkOf(k[1], {query, tensors})
    <3>1. {query, tensors} # {}
      OBVIOUS
    <3> QED
      BY <2>1, <3>1, MarkWorks
  <2>4. Extends(queue["compute"], v, k, queue'["compute"])
    BY <1>8, <2>1
  <2>5. /\ Len(queue["compute"]) \in Nat /\ Grown(queue["compute"], queue'["compute"], 2)
        /\ queue'["compute"][Len(queue["compute"]) + 1] = v[1]
        /\ queue'["compute"][Len(queue["compute"]) + 2] = k[1]
    BY <2>2, <2>3, <2>4, EndsMark
  <2> QED
    BY <2>2, <2>3, <2>5
<1>11. /\ Len(queue["caller"]) \in Nat /\ Grown(queue["caller"], queue'["caller"], 3)
       /\ queue'["caller"][Len(queue["caller"]) + 1] = b
       /\ queue'["caller"][Len(queue["caller"]) + 2] = c
       /\ MarkOf(queue'["caller"][Len(queue["caller"]) + 3], {merged})
  <2>1. PICK v, k : v = <<b, c>> /\ k = MarkWork({merged})
    OBVIOUS
  <2>2. Len(v) = 2 /\ v[1] = b /\ v[2] = c
    BY <2>1, Short
  <2>3. Len(k) = 1 /\ MarkOf(k[1], {merged})
    <3>1. {merged} # {}
      OBVIOUS
    <3> QED
      BY <2>1, <3>1, MarkWorks
  <2>4. Extends(queue["caller"], v, k, queue'["caller"])
    BY <1>8, <2>1
  <2>5. /\ Len(queue["caller"]) \in Nat /\ Grown(queue["caller"], queue'["caller"], 3)
        /\ queue'["caller"][Len(queue["caller"]) + 1] = v[1]
        /\ queue'["caller"][Len(queue["caller"]) + 2] = v[2]
        /\ queue'["caller"][Len(queue["caller"]) + 3] = k[1]
    BY <2>2, <2>3, <2>4, EndsMark
  <2> QED
    BY <2>2, <2>3, <2>5
<1>12. user' = used /\ free' = free \cup ({clone} \ {NoCell})
  <2>1. user' = used /\ free' = free \cup {x \in released \ {NoCell} : used[x] = "none"}
    BY <1>3 DEF Enqueue
  <2> QED
    BY <1>3, <1>5, <1>6, <2>1
<1> QED
  BY <1>1, <1>2, <1>3, <1>5, <1>8, <1>9, <1>10, <1>11, <1>12

(* The next step of the loop is reached, or staging is waited for. *)
LEMMA QuietQueues ==
    ASSUME HostTypeOK, NoMoreChunks \/ StageSync
    PROVE  /\ UNCHANGED <<direct, queue, passed, mem, free, user, result, call, chunks, chunk,
                          query, clone, tensors, current, merged, faults>>
           /\ \/ pc = "next" /\ pc' = "finish" /\ ~(chunk < chunks)
              \/ pc = "sync" /\ pc' = "rebind" /\ queue["transfer"] = <<>>
BY DEF NoMoreChunks, StageSync, MoreChunks, gpuVars

(* A stream does its first work. *)
LEMMA ExecuteQueues ==
    ASSUME HostTypeOK, NEW s \in Streams, Execute(s)
    PROVE  /\ UNCHANGED <<direct, user, hostVars, faults>>
           /\ DOMAIN queue' = Streams /\ Shrunk(queue[s], queue'[s])
           /\ \A r \in Streams \ {s} : queue'[r] = queue[r]
           /\ 1 \in 1..Len(queue[s])
           /\ queue[s][1].do = "wait" => queue[s][1].about \in passed
           /\ passed' = CASE queue[s][1].do = "record" -> passed \cup {queue[s][1].about}
                          [] queue[s][1].do = "wait"   -> passed \ {queue[s][1].about}
                          [] OTHER                     -> passed
           /\ free' = IF queue[s][1].do = "mark" THEN free \cup queue[s][1].writes ELSE free
           /\ mem' = IF queue[s][1].do = "mark" THEN mem
                     ELSE [x \in Cells |-> IF x \in queue[s][1].writes
                                             THEN Written(queue[s][1]) ELSE mem[x]]
           /\ result' = IF queue[s][1].do = "convert"
                          THEN [result EXCEPT ![queue[s][1].about] = mem[queue[s][1].reads[1]][2]]
                          ELSE result
<1>1. queue[s] # <<>> /\ IsSeq(queue[s]) /\ DOMAIN queue = Streams
  BY DEF Execute, HostTypeOK
<1>2. Shrunk(queue[s], Tail(queue[s])) /\ Head(queue[s]) = queue[s][1]
  BY <1>1, Popped
<1>3. PICK op : op = queue[s][1] /\ op = Head(queue[s])
  BY <1>2
<1>4. 1 \in 1..Len(queue[s])
  BY <1>2 DEF Shrunk
<1>5. /\ op.do = "wait" => op.about \in passed
      /\ passed' = CASE op.do = "record" -> passed \cup {op.about}
                     [] op.do = "wait"   -> passed \ {op.about}
                     [] OTHER            -> passed
      /\ free' = IF op.do = "mark" THEN free \cup op.writes ELSE free
      /\ mem' = IF op.do = "mark" THEN mem
                ELSE [x \in Cells |-> IF x \in op.writes THEN Written(op) ELSE mem[x]]
      /\ result' = IF op.do = "convert"
                     THEN [result EXCEPT ![op.about] = mem[op.reads[1]][2]] ELSE result
  BY <1>3 DEF Execute
<1>6. /\ queue' = [queue EXCEPT ![s] = Tail(queue[s])]
      /\ UNCHANGED <<direct, user, hostVars, faults>>
  BY DEF Execute
<1>7. /\ DOMAIN queue' = Streams /\ queue'[s] = Tail(queue[s])
      /\ \A r \in Streams \ {s} : queue'[r] = queue[r]
  BY <1>1, <1>6
<1> QED
  BY <1>2, <1>3, <1>4, <1>5, <1>6, <1>7

(* Queues that were extended or shortened are queues. *)
LEMMA QueuesKept ==
    ASSUME HostTypeOK, DOMAIN queue' = Streams,
           \/ queue'["caller"] = queue["caller"] \/ IsSeq(queue'["caller"]),
           \/ queue'["transfer"] = queue["transfer"] \/ IsSeq(queue'["transfer"]),
           \/ queue'["compute"] = queue["compute"] \/ IsSeq(queue'["compute"])
    PROVE  (DOMAIN queue = Streams /\ \A s \in Streams : IsSeq(queue[s]))'
BY Names DEF HostTypeOK

(* The Python thread's variables keep their types. *)
LEMMA HostTypeKept ==
    ASSUME HostTypeOK, HostInv, WorkInv, HeldInv, Next
    PROVE  HostTypeOK'
<1> USE ConstantsAssumption
<1> DEFINE Queues == DOMAIN queue = Streams /\ \A s \in Streams : IsSeq(queue[s])
           Rest == /\ direct \in BOOLEAN
                   /\ DOMAIN mem = Cells /\ free \subseteq Cells
                   /\ user \in [Cells -> Streams \cup {"none"}]
                   /\ pc \in {"idle", "next", "stage", "sync", "rebind", "run", "finish"}
                   /\ call \in 0..MaxCalls /\ chunks \in 0..MaxChunks /\ chunk \in 0..chunks
                   /\ {query, clone} \subseteq CallerCells \cup {NoCell}
                   /\ {tensors, current} \subseteq TransferCells \cup {NoCell}
                   /\ merged \in ComputeCells \cup {NoCell}
                   /\ faults \in 0..MaxFaults
<1>0. Rest
  BY DEF HostTypeOK
<1>1. ASSUME \E n \in 1..MaxChunks : Decode(n) PROVE Queues' /\ Rest'
  <2>1. Queues'
    BY <1>1, DecodeQueues, QueuesKept DEF Grown
  <2>2. Rest'
    BY <1>0, <1>1, DecodeQueues, Names
  <2> QED
    BY <2>1, <2>2
<1>2. ASSUME NextChunk PROVE Queues' /\ Rest'
  <2>1. Queues'
    BY <1>2, NextChunkQueues, QueuesKept DEF Grown
  <2>2. Rest'
    BY <1>0, <1>2, NextChunkQueues, Names
  <2> QED
    BY <2>1, <2>2
<1>3. ASSUME NoMoreChunks \/ StageSync PROVE Queues' /\ Rest'
  BY <1>0, <1>3, QuietQueues, Names DEF HostTypeOK
<1>4. ASSUME LoaderRaises PROVE Queues' /\ Rest'
  <2>1. Queues'
    BY <1>4, LoaderRaisesQueues, QueuesKept DEF Grown
  <2>2. Rest'
    BY <1>0, <1>4, LoaderRaisesQueues, Names
  <2> QED
    BY <2>1, <2>2
<1>5. ASSUME Stage PROVE Queues' /\ Rest'
  <2>1. Queues'
    BY <1>5, StageQueues, QueuesKept DEF Grown
  <2>2. Rest'
    BY <1>0, <1>5, StageQueues, Names
  <2> QED
    BY <2>1, <2>2
<1>6. ASSUME RunChunk PROVE Queues' /\ Rest'
  <2>1. Queues'
    BY <1>6, RunChunkQueues, QueuesKept DEF Grown
  <2>2. Rest'
    BY <1>0, <1>6, RunChunkQueues, Names
  <2> QED
    BY <2>1, <2>2
<1>7. ASSUME Finish PROVE Queues' /\ Rest'
  <2>1. Queues'
    BY <1>7, FinishQueues, QueuesKept DEF Grown
  <2>2. Rest'
    BY <1>0, <1>7, FinishQueues, Names
  <2> QED
    BY <2>1, <2>2
<1>8. ASSUME NEW s \in Streams, Execute(s) PROVE Queues' /\ Rest'
  <2>1. Queues'
    BY <1>8, ExecuteQueues DEF HostTypeOK, Shrunk
  <2>2. queue[s][1].do = "mark" => queue[s][1].writes \subseteq Cells
    BY <1>8, ExecuteQueues, Names DEF WorkInv, CallerWork, TransferWork, ComputeWorks
  <2>3. Rest'
    BY <1>0, <1>8, <2>2, ExecuteQueues DEF hostVars
  <2> QED
    BY <2>1, <2>3
<1>10. ASSUME Rebind PROVE Queues' /\ Rest'
  <2>1. Queues'
    BY <1>10, RebindQueues, QueuesKept DEF Grown
  <2>2. Rest'
    BY <1>0, <1>10, RebindQueues, Names
  <2> QED
    BY <2>1, <2>2
<1>9. Queues' /\ Rest'
  BY <1>1, <1>2, <1>3, <1>4, <1>5, <1>6, <1>7, <1>8, <1>10 DEF Next
<1> QED
  BY <1>9 DEF HostTypeOK

(* Cells the Python thread holds are not free. *)
LEMMA HeldNotFree ==
    ASSUME HeldInv
    PROVE  /\ query # NoCell => query \notin free
           /\ clone # NoCell => clone \notin free
           /\ tensors # NoCell => tensors \notin free
           /\ current # NoCell => current \notin free
           /\ merged # NoCell => merged \notin free
BY DEF HeldInv, Held

(* It holds the same cells at the same steps. *)
LEMMA HostInvKept ==
    ASSUME HostTypeOK, HostInv, HeldInv, Next
    PROVE  HostInv'
<1> USE ConstantsAssumption DEF RunSoFar
<1>0. /\ user \in [Cells -> Streams \cup {"none"}] /\ free \subseteq Cells
      /\ chunks \in Nat /\ chunk \in Nat /\ chunk <= chunks /\ call \in Nat
      /\ {query, clone} \subseteq CallerCells \cup {NoCell}
      /\ {tensors, current} \subseteq TransferCells \cup {NoCell}
      /\ merged \in ComputeCells \cup {NoCell} /\ direct \in BOOLEAN
  BY DEF HostTypeOK
<1>1. ASSUME \E n \in 1..MaxChunks : Decode(n) PROVE HostInv'
  BY <1>0, <1>1, DecodeQueues, HeldNotFree, Names DEF HostInv
<1>2. ASSUME NextChunk PROVE HostInv'
  BY <1>0, <1>2, NextChunkQueues, HeldNotFree, Names DEF HostInv
<1>3. ASSUME NoMoreChunks \/ StageSync PROVE HostInv'
  BY <1>0, <1>3, QuietQueues, Names DEF HostInv
<1>4. ASSUME LoaderRaises PROVE HostInv'
  BY <1>0, <1>4, LoaderRaisesQueues, Names DEF HostInv
<1>5. ASSUME Stage PROVE HostInv'
  BY <1>0, <1>5, StageQueues, HeldNotFree, Names DEF HostInv
<1>6. ASSUME RunChunk PROVE HostInv'
  BY <1>0, <1>6, RunChunkQueues, HeldNotFree, Names DEF HostInv
<1>7. ASSUME Finish PROVE HostInv'
  BY <1>0, <1>7, FinishQueues, Names DEF HostInv
<1>8. ASSUME NEW s \in Streams, Execute(s) PROVE HostInv'
  BY <1>8 DEF Execute, HostInv, hostVars
<1>9. ASSUME Rebind PROVE HostInv'
  BY <1>0, <1>9, RebindQueues, HeldNotFree, Names DEF HostInv
<1> QED
  BY <1>1, <1>2, <1>3, <1>4, <1>5, <1>6, <1>7, <1>8, <1>9 DEF Next

(* Calls and chunks only go on. *)
LEMMA Progress ==
    ASSUME HostTypeOK, HostInv, Next
    PROVE  /\ direct' = direct /\ call' >= call /\ ClosedCalls' >= ClosedCalls
           /\ call \in Nat /\ call' \in Nat /\ ClosedCalls \in Int /\ ClosedCalls' \in Int
           /\ \A k \in Chunks : Upto(k, StagedSoFar) => Upto(k, StagedSoFar)'
           /\ \A k \in Chunks : Upto(k, RunSoFar) => Upto(k, RunSoFar)'
<1> USE ConstantsAssumption DEF ClosedCalls, StagedSoFar, RunSoFar, Upto
<1>0. /\ chunks \in Nat /\ chunk \in Nat /\ chunk <= chunks /\ call \in Nat
      /\ direct \in BOOLEAN
      /\ \A k \in Chunks : k[1] \in Nat /\ k[2] \in Nat
  BY DEF HostTypeOK, Chunks, Calls
<1>1. CASE \E n \in 1..MaxChunks : Decode(n)
  BY <1>0, <1>1, DecodeQueues
<1>2. CASE NextChunk
  BY <1>0, <1>2, NextChunkQueues
<1>3. CASE NoMoreChunks \/ StageSync
  BY <1>0, <1>3, QuietQueues
<1>4. CASE LoaderRaises
  BY <1>0, <1>4, LoaderRaisesQueues
<1>5. CASE Stage
  BY <1>0, <1>5, StageQueues
<1>6. CASE RunChunk
  BY <1>0, <1>6 DEF RunChunk
<1>7. CASE Finish
  BY <1>0, <1>7, FinishQueues
<1>8. CASE \E s \in Streams : Execute(s)
  BY <1>0, <1>8 DEF Execute, hostVars
<1>9. CASE Rebind
  BY <1>0, <1>9, RebindQueues
<1> QED
  BY <1>1, <1>2, <1>3, <1>4, <1>5, <1>6, <1>7, <1>8, <1>9 DEF Next

(* Work that was on a stream may be there. *)
LEMMA CallerStill ==
    ASSUME HostTypeOK, HostInv, Next, NEW op, CallerWork(op)
    PROVE  CallerWork(op)'
<1>1. /\ \A n : n \in 1..call => n \in 1..call'
      /\ \A n : n \in 1..ClosedCalls => n \in 1..ClosedCalls'
  BY Progress
<1> QED
  BY <1>1 DEF CallerWork

(* The same for the compute stream. *)
LEMMA ComputeStill ==
    ASSUME HostTypeOK, HostInv, Next, NEW op, ComputeWorks(op)
    PROVE  ComputeWorks(op)'
<1>1. /\ \A n : n \in 1..ClosedCalls => n \in 1..ClosedCalls'
      /\ \A k : Upto(k, RunSoFar) => Upto(k, RunSoFar)'
  BY Progress DEF Upto
<1> QED
  BY <1>1 DEF ComputeWorks

(* The same for the transfer stream. *)
LEMMA TransferStill ==
    ASSUME HostTypeOK, HostInv, WorkInv, Next,
           NEW i \in 1..Len(queue["transfer"]), NEW op, op = queue["transfer"][i]
    PROVE  TransferWork(op)'
<1>1. /\ direct' = direct
      /\ \A k : Upto(k, StagedSoFar) => Upto(k, StagedSoFar)'
  BY Progress DEF Upto
<1>2. TransferWork(op)
  BY DEF WorkInv
<1>3. op.do = "stack" /\ direct => pc' = pc /\ clone' = clone
  <2> SUFFICES ASSUME op.do = "stack", direct PROVE pc' = pc /\ clone' = clone
    OBVIOUS
  <2>1. pc = "sync"
    BY <1>2 DEF TransferWork
  <2>2. queue["transfer"] # <<>>
    BY Short
  <2> QED
    BY <2>1, <2>2 DEF Next, Decode, NextChunk, NoMoreChunks, LoaderRaises, Stage, StageSync,
                      Rebind, RunChunk, Finish, Execute, hostVars
<1> QED
  BY <1>1, <1>2, <1>3 DEF TransferWork

(* New work is what the caller's stream may be given, if it is given any.    *)
LEMMA CallerKept ==
    ASSUME HostTypeOK, HostInv, WorkInv, Next, NEW r, NEW k,
           \/ /\ Grown(queue["caller"], r, k)
              /\ \A i \in Len(queue["caller"]) + 1..Len(r) : CallerWork(r[i])'
           \/ Shrunk(queue["caller"], r)
           \/ r = queue["caller"]
    PROVE  \A i \in 1..Len(r) : CallerWork(r[i])'
<1> SUFFICES ASSUME NEW i \in 1..Len(r) PROVE CallerWork(r[i])'
  OBVIOUS
<1>1. PICK q : q = queue["caller"]
  OBVIOUS
<1>2. ASSUME NEW j \in 1..Len(q), NEW op, op = q[j] PROVE CallerWork(op)'
  <2>1. j \in 1..Len(queue["caller"]) /\ op = queue["caller"][j]
    BY <1>1, <1>2
  <2> QED
    BY <2>1, CallerStill DEF WorkInv
<1>3. CASE Grown(q, r, k) /\ \A j \in Len(q) + 1..Len(r) : CallerWork(r[j])'
  <2>1. CASE i \in 1..Len(q)
    <3>1. PICK op : op = q[i] /\ op = r[i]
      BY <1>3, <2>1 DEF Grown
    <3>2. CallerWork(op)'
      BY <1>2, <2>1, <3>1
    <3> QED
      BY <3>1, <3>2 DEF CallerWork
  <2>2. CASE i \notin 1..Len(q)
    <3>1. i \in Len(q) + 1..Len(r)
      BY <1>3, <2>2 DEF Grown
    <3> QED
      BY <1>3, <3>1
  <2> QED
    BY <2>1, <2>2
<1>4. CASE Shrunk(q, r)
  <2>1. i + 1 \in 1..Len(q) /\ r[i] = q[i + 1]
    BY <1>4, ShrunkPlaces
  <2>2. PICK op : op = q[i + 1] /\ op = r[i]
    BY <2>1
  <2>3. CallerWork(op)'
    BY <1>2, <2>1, <2>2
  <2> QED
    BY <2>2, <2>3 DEF CallerWork
<1>5. CASE r = q
  <2>1. PICK op : op = q[i]
    OBVIOUS
  <2>2. CallerWork(op)'
    BY <1>2, <1>5, <2>1
  <2> QED
    BY <1>5, <2>1, <2>2 DEF CallerWork
<1> QED
  BY <1>1, <1>3, <1>4, <1>5

(* The same for the transfer stream.  *)
LEMMA TransferKept ==
    ASSUME HostTypeOK, HostInv, WorkInv, Next, NEW r, NEW k,
           \/ /\ Grown(queue["transfer"], r, k)
              /\ \A i \in Len(queue["transfer"]) + 1..Len(r) : TransferWork(r[i])'
           \/ Shrunk(queue["transfer"], r)
           \/ r = queue["transfer"]
    PROVE  \A i \in 1..Len(r) : TransferWork(r[i])'
<1> SUFFICES ASSUME NEW i \in 1..Len(r) PROVE TransferWork(r[i])'
  OBVIOUS
<1>1. PICK q : q = queue["transfer"]
  OBVIOUS
<1>2. ASSUME NEW j \in 1..Len(q), NEW op, op = q[j] PROVE TransferWork(op)'
  <2>1. j \in 1..Len(queue["transfer"]) /\ op = queue["transfer"][j]
    BY <1>1, <1>2
  <2> QED
    BY <2>1, TransferStill
<1>3. CASE Grown(q, r, k) /\ \A j \in Len(q) + 1..Len(r) : TransferWork(r[j])'
  <2>1. CASE i \in 1..Len(q)
    <3>1. PICK op : op = q[i] /\ op = r[i]
      BY <1>3, <2>1 DEF Grown
    <3>2. TransferWork(op)'
      BY <1>2, <2>1, <3>1
    <3> QED
      BY <3>1, <3>2 DEF TransferWork
  <2>2. CASE i \notin 1..Len(q)
    <3>1. i \in Len(q) + 1..Len(r)
      BY <1>3, <2>2 DEF Grown
    <3> QED
      BY <1>3, <3>1
  <2> QED
    BY <2>1, <2>2
<1>4. CASE Shrunk(q, r)
  <2>1. i + 1 \in 1..Len(q) /\ r[i] = q[i + 1]
    BY <1>4, ShrunkPlaces
  <2>2. PICK op : op = q[i + 1] /\ op = r[i]
    BY <2>1
  <2>3. TransferWork(op)'
    BY <1>2, <2>1, <2>2
  <2> QED
    BY <2>2, <2>3 DEF TransferWork
<1>5. CASE r = q
  <2>1. PICK op : op = q[i]
    OBVIOUS
  <2>2. TransferWork(op)'
    BY <1>2, <1>5, <2>1
  <2> QED
    BY <1>5, <2>1, <2>2 DEF TransferWork
<1> QED
  BY <1>1, <1>3, <1>4, <1>5

(* The same for the compute stream.  *)
LEMMA ComputeKept ==
    ASSUME HostTypeOK, HostInv, WorkInv, Next, NEW r, NEW k,
           \/ /\ Grown(queue["compute"], r, k)
              /\ \A i \in Len(queue["compute"]) + 1..Len(r) : ComputeWorks(r[i])'
           \/ Shrunk(queue["compute"], r)
           \/ r = queue["compute"]
    PROVE  \A i \in 1..Len(r) : ComputeWorks(r[i])'
<1> SUFFICES ASSUME NEW i \in 1..Len(r) PROVE ComputeWorks(r[i])'
  OBVIOUS
<1>1. PICK q : q = queue["compute"]
  OBVIOUS
<1>2. ASSUME NEW j \in 1..Len(q), NEW op, op = q[j] PROVE ComputeWorks(op)'
  <2>1. j \in 1..Len(queue["compute"]) /\ op = queue["compute"][j]
    BY <1>1, <1>2
  <2> QED
    BY <2>1, ComputeStill DEF WorkInv
<1>3. CASE Grown(q, r, k) /\ \A j \in Len(q) + 1..Len(r) : ComputeWorks(r[j])'
  <2>1. CASE i \in 1..Len(q)
    <3>1. PICK op : op = q[i] /\ op = r[i]
      BY <1>3, <2>1 DEF Grown
    <3>2. ComputeWorks(op)'
      BY <1>2, <2>1, <3>1
    <3> QED
      BY <3>1, <3>2 DEF ComputeWorks
  <2>2. CASE i \notin 1..Len(q)
    <3>1. i \in Len(q) + 1..Len(r)
      BY <1>3, <2>2 DEF Grown
    <3> QED
      BY <1>3, <3>1
  <2> QED
    BY <2>1, <2>2
<1>4. CASE Shrunk(q, r)
  <2>1. i + 1 \in 1..Len(q) /\ r[i] = q[i + 1]
    BY <1>4, ShrunkPlaces
  <2>2. PICK op : op = q[i + 1] /\ op = r[i]
    BY <2>1
  <2>3. ComputeWorks(op)'
    BY <1>2, <2>1, <2>2
  <2> QED
    BY <2>2, <2>3 DEF ComputeWorks
<1>5. CASE r = q
  <2>1. PICK op : op = q[i]
    OBVIOUS
  <2>2. ComputeWorks(op)'
    BY <1>2, <1>5, <2>1
  <2> QED
    BY <1>5, <2>1, <2>2 DEF ComputeWorks
<1> QED
  BY <1>1, <1>3, <1>4, <1>5

(* Together. *)
LEMMA WorkTogether ==
    ASSUME NEW c, c = queue'["caller"], NEW t, t = queue'["transfer"],
           NEW p, p = queue'["compute"],
           \A i \in 1..Len(c) : CallerWork(c[i])',
           \A i \in 1..Len(t) : TransferWork(t[i])',
           \A i \in 1..Len(p) : ComputeWorks(p[i])',
           (\A e \in passed :
              \/ \E n \in 1..call : e = <<"query", n>>
              \/ \E n \in 1..ClosedCalls : e = <<"done", n>>
              \/ \E k \in Chunks : Upto(k, StagedSoFar) /\ e \in {<<"own", k>>, <<"ready", k>>})'
    PROVE  WorkInv'
<1>1. (\A i \in 1..Len(queue["caller"]) : CallerWork(queue["caller"][i]))'
  BY DEF CallerWork
<1>2. (\A i \in 1..Len(queue["transfer"]) : TransferWork(queue["transfer"][i]))'
  BY DEF TransferWork
<1>3. (\A i \in 1..Len(queue["compute"]) : ComputeWorks(queue["compute"][i]))'
  BY DEF ComputeWorks
<1> QED
  BY <1>1, <1>2, <1>3 DEF WorkInv

(* Streams are only given the work they are meant to do. *)
LEMMA WorkInvKept ==
    ASSUME HostTypeOK, HostInv, WorkInv, HeldInv, Next
    PROVE  WorkInv'
<1> DEFINE Past(e) == \/ \E n \in 1..call : e = <<"query", n>>
                      \/ \E n \in 1..ClosedCalls : e = <<"done", n>>
                      \/ \E k \in Chunks : Upto(k, StagedSoFar)
                                             /\ e \in {<<"own", k>>, <<"ready", k>>}
<1>1. PICK c, t, p : c = queue'["caller"] /\ t = queue'["transfer"] /\ p = queue'["compute"]
  OBVIOUS
<1>2. ASSUME NEW e, Past(e) PROVE Past(e)'
  <2>1. /\ \A n : n \in 1..call => n \in 1..call'
        /\ \A n : n \in 1..ClosedCalls => n \in 1..ClosedCalls'
        /\ \A k \in Chunks : Upto(k, StagedSoFar) => Upto(k, StagedSoFar)'
    BY Progress
  <2> QED
    BY <1>2, <2>1
<1>3. \A e \in passed : Past(e)
  BY DEF WorkInv
<1>4. passed' = passed => (\A e \in passed : Past(e))'
  BY <1>2, <1>3
<1> HIDE DEF Past
<1>5. ASSUME /\ \A i \in 1..Len(c) : CallerWork(c[i])'
             /\ \A i \in 1..Len(t) : TransferWork(t[i])'
             /\ \A i \in 1..Len(p) : ComputeWorks(p[i])'
             /\ (\A e \in passed : Past(e))'
      PROVE  WorkInv'
  BY <1>1, <1>5, WorkTogether DEF Past
<1>6. /\ call \in Nat /\ call <= MaxCalls /\ chunks <= MaxChunks /\ chunk \in Nat /\ chunk <= chunks
      /\ chunks \in Nat /\ MaxCalls \in Nat /\ MaxChunks \in Nat
      /\ pc # "idle" => call > 0
  BY ConstantsAssumption DEF HostTypeOK, HostInv
<1>7. /\ c = queue["caller"] => \A i \in 1..Len(c) : CallerWork(c[i])'
      /\ t = queue["transfer"] => \A i \in 1..Len(t) : TransferWork(t[i])'
      /\ p = queue["compute"] => \A i \in 1..Len(p) : ComputeWorks(p[i])'
  BY CallerKept, TransferKept, ComputeKept
<1>8. CASE \E n \in 1..MaxChunks : Decode(n)
  <2>1. PICK q : q = queue["caller"]
    OBVIOUS
  <2>2. /\ Grown(q, c, 1) /\ Len(q) \in Nat
        /\ c[Len(q) + 1] = Work("query", <<>>, {query'}, call + 1)
        /\ t = queue["transfer"] /\ p = queue["compute"]
        /\ query' \in CallerCells /\ call' = call + 1 /\ passed' = passed
    BY <1>1, <1>8, <2>1, DecodeQueues
  <2>3. ASSUME NEW i \in Len(q) + 1..Len(c) PROVE CallerWork(c[i])'
    <3>1. i = Len(q) + 1
      BY <2>2 DEF Grown
    <3>2. PICK op : op = c[i] /\ op = Work("query", <<>>, {query'}, call + 1)
      BY <2>2, <3>1
    <3>3. op.do = "query" /\ op.about \in 1..call' /\ op.reads = <<>> /\ op.writes = {query'}
      BY <1>6, <2>2, <3>2 DEF Work
    <3> QED
      BY <2>2, <3>2, <3>3 DEF CallerWork
  <2>4. \A i \in 1..Len(c) : CallerWork(c[i])'
    BY <2>1, <2>2, <2>3, CallerKept
  <2> QED
    BY <1>4, <1>5, <1>7, <2>2, <2>4
<1>9. CASE NextChunk
  <2>1. PICK q : q = queue["caller"]
    OBVIOUS
  <2>2. /\ direct => /\ Grown(q, c, 1) /\ Len(q) \in Nat /\ clone' \in CallerCells
                     /\ c[Len(q) + 1] = Work("clone", <<>>, {clone'}, <<call, chunk + 1>>)
        /\ ~direct => c = q
        /\ t = queue["transfer"] /\ p = queue["compute"] /\ passed' = passed
    BY <1>1, <1>9, <2>1, NextChunkQueues
  <2>3. ASSUME direct, NEW i \in Len(q) + 1..Len(c) PROVE CallerWork(c[i])'
    <3>1. i = Len(q) + 1
      BY <2>2, <2>3 DEF Grown
    <3>2. PICK op : op = c[i] /\ op = Work("clone", <<>>, {clone'}, <<call, chunk + 1>>)
      BY <2>2, <2>3, <3>1
    <3>3. op.do = "clone" /\ op.reads = <<>> /\ op.writes = {clone'}
      BY <3>2 DEF Work
    <3> QED
      BY <2>2, <2>3, <3>2, <3>3 DEF CallerWork
  <2>4. \A i \in 1..Len(c) : CallerWork(c[i])'
    <3>1. CASE direct
      BY <2>1, <2>2, <2>3, <3>1, CallerKept
    <3>2. CASE ~direct
      BY <1>7, <2>1, <2>2, <3>2
    <3> QED
      BY <3>1, <3>2
  <2> QED
    BY <1>4, <1>5, <1>7, <2>2, <2>4
<1>10. CASE NoMoreChunks \/ StageSync
  <2>1. /\ c = queue["caller"] /\ t = queue["transfer"] /\ p = queue["compute"]
        /\ passed' = passed
    BY <1>1, <1>10, QuietQueues
  <2> QED
    BY <1>4, <1>5, <1>7, <2>1
<1>11. CASE LoaderRaises
  <2>1. PICK q : q = queue["compute"]
    OBVIOUS
  <2>2. /\ c = queue["caller"] /\ t = queue["transfer"] /\ passed' = passed
        /\ merged = NoCell => p = q
        /\ merged # NoCell => /\ Grown(q, p, 1) /\ Len(q) \in Nat
                              /\ MarkOf(p[Len(q) + 1], {query, tensors})
    BY <1>1, <1>11, <2>1, LoaderRaisesQueues
  <2>3. ASSUME merged # NoCell, NEW i \in Len(q) + 1..Len(p) PROVE ComputeWorks(p[i])'
    <3>1. i = Len(q) + 1
      BY <2>2, <2>3 DEF Grown
    <3>2. PICK op : op = p[i] /\ MarkOf(op, {query, tensors})
      BY <2>2, <2>3, <3>1
    <3>3. {query, tensors} \subseteq CallerCells \cup TransferCells
      <4>1. pc = "next" /\ query # NoCell /\ tensors # NoCell
        BY <1>11, <2>3, LoaderRaisesQueues DEF HostInv
      <4> QED
        BY <4>1 DEF HostTypeOK
    <3> QED
      BY <3>2, <3>3 DEF ComputeWorks, MarkOf
  <2>4. \A i \in 1..Len(p) : ComputeWorks(p[i])'
    <3>1. CASE merged # NoCell
      BY <2>1, <2>2, <2>3, <3>1, ComputeKept
    <3>2. CASE merged = NoCell
      BY <1>7, <2>1, <2>2, <3>2
    <3> QED
      BY <3>1, <3>2
  <2> QED
    BY <1>4, <1>5, <1>7, <2>2, <2>4
<1>12. CASE Stage
  <2>1. PICK q, this, x : q = queue["transfer"] /\ this = This /\ x = current'
    OBVIOUS
  <2>2. /\ c = queue["caller"] /\ p = queue["compute"] /\ passed' = passed
        /\ pc = "stage" /\ pc' = (IF direct THEN "sync" ELSE "rebind") /\ x \in TransferCells
        /\ call' = call /\ chunk' = chunk /\ clone' = clone /\ direct' = direct
        /\ Len(q) \in Nat /\ direct \in BOOLEAN
    BY <1>1, <1>12, <2>1, StageQueues DEF HostTypeOK
  <2>3. direct => /\ Grown(q, t, 4)
                  /\ t[Len(q) + 1] = Record(<<"own", this>>)
                  /\ t[Len(q) + 2] = Wait(<<"own", this>>)
                  /\ t[Len(q) + 3] = Work("stack", <<clone>>, {x}, this)
                  /\ t[Len(q) + 4] = Record(<<"ready", this>>)
    BY <1>1, <1>12, <2>1, StageQueues
  <2>4. ~direct => /\ Grown(q, t, 2)
                   /\ t[Len(q) + 1] = Work("stack", <<>>, {x}, this)
                   /\ t[Len(q) + 2] = Record(<<"ready", this>>)
    BY <1>1, <1>12, <2>1, StageQueues
  <2>5. this \in Chunks /\ Upto(this, StagedSoFar)'
    BY <1>6, <2>1, <2>2 DEF HostInv, This, Chunks, Calls, Upto, StagedSoFar
  <2>6. ASSUME NEW op,
               \/ op = Record(<<"own", this>>) \/ op = Wait(<<"own", this>>)
               \/ op = Work("stack", IF direct THEN <<clone>> ELSE <<>>, {x}, this)
               \/ op = Record(<<"ready", this>>)
        PROVE  TransferWork(op)'
    <3>1. CASE op = Record(<<"own", this>>)
      BY <2>5, <3>1 DEF TransferWork, Record, Work
    <3>2. CASE op = Wait(<<"own", this>>)
      BY <2>5, <3>2 DEF TransferWork, Wait, Work
    <3>3. CASE op = Work("stack", IF direct THEN <<clone>> ELSE <<>>, {x}, this)
      <4>1. /\ op.do = "stack" /\ op.about = this /\ op.writes = {x}
            /\ op.reads = IF direct THEN <<clone>> ELSE <<>>
        BY <3>3 DEF Work
      <4> QED
        BY <2>2, <2>5, <4>1 DEF TransferWork
    <3>4. CASE op = Record(<<"ready", this>>)
      BY <2>5, <3>4 DEF TransferWork, Record, Work
    <3> QED
      BY <2>6, <3>1, <3>2, <3>3, <3>4
  <2>7. ASSUME direct, NEW i \in Len(q) + 1..Len(t) PROVE TransferWork(t[i])'
    <3>1. i = Len(q) + 1 \/ i = Len(q) + 2 \/ i = Len(q) + 3 \/ i = Len(q) + 4
      BY <2>2, <2>3, <2>7 DEF Grown
    <3>2. PICK op : op = t[i]
      OBVIOUS
    <3>3. TransferWork(op)'
      BY <2>3, <2>6, <2>7, <3>1, <3>2
    <3> QED
      BY <3>2, <3>3 DEF TransferWork
  <2>8. ASSUME ~direct, NEW i \in Len(q) + 1..Len(t) PROVE TransferWork(t[i])'
    <3>1. i = Len(q) + 1 \/ i = Len(q) + 2
      BY <2>2, <2>4, <2>8 DEF Grown
    <3>2. PICK op : op = t[i]
      OBVIOUS
    <3>3. TransferWork(op)'
      BY <2>4, <2>6, <2>8, <3>1, <3>2
    <3> QED
      BY <3>2, <3>3 DEF TransferWork
  <2>9. \A i \in 1..Len(t) : TransferWork(t[i])'
    <3>1. CASE direct
      BY <2>1, <2>3, <2>7, <3>1, TransferKept
    <3>2. CASE ~direct
      BY <2>1, <2>4, <2>8, <3>2, TransferKept
    <3> QED
      BY <3>1, <3>2
  <2> QED
    BY <1>4, <1>5, <1>7, <2>2, <2>9
<1>13. CASE RunChunk
  <2>1. PICK q, b, this, x : /\ q = queue["compute"] /\ b = queue["caller"]
                             /\ this = This /\ x = merged'
    OBVIOUS
  <2>2. /\ t = queue["transfer"] /\ passed' = passed /\ x \in ComputeCells
        /\ pc = "run" /\ pc' = "next" /\ call' = call /\ chunk' = chunk
        /\ Len(q) \in Nat /\ Len(b) \in Nat /\ tensors # NoCell
        /\ chunk = 1 <=> merged = NoCell
    BY <1>1, <1>13, <2>1, RunChunkQueues
  <2>3. chunk = 1 => /\ Grown(b, c, 1) /\ Grown(q, p, 3)
                     /\ c[Len(b) + 1] = Record(<<"query", call>>)
                     /\ p[Len(q) + 1] = Wait(<<"query", call>>)
                     /\ p[Len(q) + 2] = Wait(<<"ready", this>>)
                     /\ p[Len(q) + 3] = Work("attend", <<query, tensors>>, {x}, this)
    BY <1>1, <1>13, <2>1, RunChunkQueues
  <2>4. chunk # 1 => /\ c = b /\ Grown(q, p, 2)
                     /\ p[Len(q) + 1] = Wait(<<"ready", this>>)
                     /\ p[Len(q) + 2] = Work("attend", <<query, tensors, merged>>, {x}, this)
    BY <1>1, <1>13, <2>1, RunChunkQueues
  <2>5. /\ this \in Chunks /\ Upto(this, RunSoFar)' /\ this[2] = chunk
        /\ call \in Calls /\ call \in 1..call'
    BY <1>6, <2>1, <2>2 DEF HostInv, This, Chunks, Calls, Upto, RunSoFar
  <2>6. /\ query \in CallerCells /\ tensors \in TransferCells
        /\ merged # NoCell => merged \in ComputeCells
    BY <2>2 DEF HostInv, HostTypeOK
  <2>7. ASSUME NEW i \in Len(b) + 1..Len(c), chunk = 1 PROVE CallerWork(c[i])'
    <3>1. i = Len(b) + 1
      BY <2>2, <2>3, <2>7 DEF Grown
    <3>2. PICK op : op = c[i] /\ op = Record(<<"query", call>>)
      BY <2>3, <2>7, <3>1
    <3> QED
      BY <2>5, <3>2 DEF CallerWork, Record, Work
  <2>8. \A i \in 1..Len(c) : CallerWork(c[i])'
    <3>1. CASE chunk = 1
      BY <2>1, <2>3, <2>7, <3>1, CallerKept
    <3>2. CASE chunk # 1
      BY <1>7, <2>1, <2>4, <3>2
    <3> QED
      BY <3>1, <3>2
  <2>9. ASSUME NEW op,
               \/ op = Wait(<<"query", call>>) \/ op = Wait(<<"ready", this>>)
               \/ chunk = 1 /\ op = Work("attend", <<query, tensors>>, {x}, this)
               \/ chunk # 1 /\ op = Work("attend", <<query, tensors, merged>>, {x}, this)
        PROVE  ComputeWorks(op)'
    <3>1. CASE op = Wait(<<"query", call>>)
      BY <2>5, <3>1 DEF ComputeWorks, Wait, Work
    <3>2. CASE op = Wait(<<"ready", this>>)
      BY <2>5, <3>2 DEF ComputeWorks, Wait, Work
    <3>3. CASE chunk = 1 /\ op = Work("attend", <<query, tensors>>, {x}, this)
      <4>1. /\ op.do = "attend" /\ op.about = this /\ op.writes = {x}
            /\ op.reads = <<query, tensors>>
        BY <3>3 DEF Work
      <4> QED
        BY <2>2, <2>5, <2>6, <3>3, <4>1 DEF ComputeWorks
    <3>4. CASE chunk # 1 /\ op = Work("attend", <<query, tensors, merged>>, {x}, this)
      <4>1. /\ op.do = "attend" /\ op.about = this /\ op.writes = {x}
            /\ op.reads = <<query, tensors, merged>>
        BY <3>4 DEF Work
      <4> QED
        BY <2>2, <2>5, <2>6, <3>4, <4>1 DEF ComputeWorks
    <3> QED
      BY <2>9, <3>1, <3>2, <3>3, <3>4
  <2>10. ASSUME NEW i \in Len(q) + 1..Len(p) PROVE ComputeWorks(p[i])'
    <3>1. \/ chunk = 1 /\ (i = Len(q) + 1 \/ i = Len(q) + 2 \/ i = Len(q) + 3)
          \/ chunk # 1 /\ (i = Len(q) + 1 \/ i = Len(q) + 2)
      BY <2>2, <2>3, <2>4, <2>10 DEF Grown
    <3>2. PICK op : op = p[i]
      OBVIOUS
    <3>3. ComputeWorks(op)'
      BY <2>3, <2>4, <2>9, <3>1, <3>2
    <3> QED
      BY <3>2, <3>3 DEF ComputeWorks
  <2>11. \A i \in 1..Len(p) : ComputeWorks(p[i])'
    BY <2>1, <2>2, <2>3, <2>4, <2>10, ComputeKept
  <2> QED
    BY <1>4, <1>5, <1>7, <2>2, <2>8, <2>11
<1>14. CASE Finish
  <2>1. PICK q, b : q = queue["compute"] /\ b = queue["caller"]
    OBVIOUS
  <2>2. /\ t = queue["transfer"] /\ passed' = passed /\ merged # NoCell
        /\ pc = "finish" /\ pc' = "idle" /\ call' = call
        /\ Len(q) \in Nat /\ Len(b) \in Nat /\ Grown(q, p, 2) /\ Grown(b, c, 3)
        /\ p[Len(q) + 1] = Record(<<"done", call>>)
        /\ MarkOf(p[Len(q) + 2], {query, tensors})
        /\ c[Len(b) + 1] = Wait(<<"done", call>>)
        /\ c[Len(b) + 2] = Work("convert", <<merged>>, {}, call)
        /\ MarkOf(c[Len(b) + 3], {merged})
    BY <1>1, <1>14, <2>1, FinishQueues
  <2>3. /\ call \in 1..ClosedCalls' /\ merged \in ComputeCells
        /\ query \in CallerCells /\ tensors \in TransferCells
    BY <1>6, <2>2 DEF HostInv, HostTypeOK, ClosedCalls
  <2>4. ASSUME NEW i \in Len(b) + 1..Len(c) PROVE CallerWork(c[i])'
    <3>1. i = Len(b) + 1 \/ i = Len(b) + 2 \/ i = Len(b) + 3
      BY <2>2, <2>4 DEF Grown
    <3>2. PICK op : op = c[i]
      OBVIOUS
    <3>3. CASE op = Wait(<<"done", call>>)
      BY <2>3, <3>2, <3>3 DEF CallerWork, Wait, Work
    <3>4. CASE op = Work("convert", <<merged>>, {}, call)
      <4>1. /\ op.do = "convert" /\ op.reads = <<merged>> /\ op.writes = {}
            /\ op.about = call
        BY <3>4 DEF Work
      <4> QED
        BY <2>3, <3>2, <4>1 DEF CallerWork
    <3>5. CASE MarkOf(op, {merged})
      BY <2>3, <3>2, <3>5 DEF CallerWork, MarkOf
    <3> QED
      BY <2>2, <3>1, <3>2, <3>3, <3>4, <3>5
  <2>5. ASSUME NEW i \in Len(q) + 1..Len(p) PROVE ComputeWorks(p[i])'
    <3>1. i = Len(q) + 1 \/ i = Len(q) + 2
      BY <2>2, <2>5 DEF Grown
    <3>2. PICK op : op = p[i]
      OBVIOUS
    <3>3. CASE op = Record(<<"done", call>>)
      BY <2>3, <3>2, <3>3 DEF ComputeWorks, Record, Work
    <3>4. CASE MarkOf(op, {query, tensors})
      BY <2>3, <3>2, <3>4 DEF ComputeWorks, MarkOf
    <3> QED
      BY <2>2, <3>1, <3>2, <3>3, <3>4
  <2>6. \A i \in 1..Len(c) : CallerWork(c[i])'
    BY <2>1, <2>2, <2>4, CallerKept
  <2>7. \A i \in 1..Len(p) : ComputeWorks(p[i])'
    BY <2>1, <2>2, <2>5, ComputeKept
  <2> QED
    BY <1>4, <1>5, <1>7, <2>2, <2>6, <2>7
<1>15. ASSUME NEW s \in Streams, Execute(s) PROVE WorkInv'
  <2>1. /\ c = queue["caller"] \/ Shrunk(queue["caller"], c)
        /\ t = queue["transfer"] \/ Shrunk(queue["transfer"], t)
        /\ p = queue["compute"] \/ Shrunk(queue["compute"], p)
    BY <1>1, <1>15, ExecuteQueues, Names
  <2>2. PICK op : op = queue[s][1] /\ 1 \in 1..Len(queue[s])
    BY <1>15, ExecuteQueues
  <2>3. \A e : e \in passed' => e \in passed \/ (op.do = "record" /\ e = op.about)
    <3>1. passed' = CASE op.do = "record" -> passed \cup {op.about}
                      [] op.do = "wait"   -> passed \ {op.about}
                      [] OTHER            -> passed
      BY <1>15, <2>2, ExecuteQueues
    <3>2. CASE op.do = "record"
      BY <3>1, <3>2
    <3>3. CASE op.do = "wait"
      BY <3>1, <3>3
    <3>4. CASE op.do # "record" /\ op.do # "wait"
      BY <3>1, <3>4
    <3> QED
      BY <3>2, <3>3, <3>4
  <2>4. op.do = "record" => Past(op.about)
    BY <2>2, Names DEF WorkInv, CallerWork, TransferWork, ComputeWorks, Past
  <2>5. (\A e \in passed : Past(e))'
    <3>1. ASSUME NEW e, e \in passed' PROVE Past(e)'
      BY <1>2, <1>3, <2>3, <2>4, <3>1
    <3> QED
      BY <3>1
  <2> QED
    BY <1>5, <1>7, <2>1, <2>5, CallerKept, TransferKept, ComputeKept
<1>16. CASE Rebind
  <2>1. PICK q : q = queue["compute"]
    OBVIOUS
  <2>2. /\ c = queue["caller"] /\ t = queue["transfer"] /\ passed' = passed
        /\ merged = NoCell <=> tensors = NoCell
        /\ merged = NoCell => p = q
        /\ merged # NoCell => /\ Grown(q, p, 1) /\ Len(q) \in Nat
                              /\ MarkOf(p[Len(q) + 1], {tensors})
    BY <1>1, <1>16, <2>1, RebindQueues
  <2>3. ASSUME merged # NoCell, NEW i \in Len(q) + 1..Len(p) PROVE ComputeWorks(p[i])'
    <3>1. i = Len(q) + 1
      BY <2>2, <2>3 DEF Grown
    <3>2. PICK op : op = p[i] /\ MarkOf(op, {tensors})
      BY <2>2, <2>3, <3>1
    <3>3. {tensors} \subseteq CallerCells \cup TransferCells
      BY <2>2, <2>3 DEF HostTypeOK
    <3> QED
      BY <3>2, <3>3 DEF ComputeWorks, MarkOf
  <2>4. \A i \in 1..Len(p) : ComputeWorks(p[i])'
    <3>1. CASE merged # NoCell
      BY <2>1, <2>2, <2>3, <3>1, ComputeKept
    <3>2. CASE merged = NoCell
      BY <1>7, <2>1, <2>2, <3>2
    <3> QED
      BY <3>1, <3>2
  <2> QED
    BY <1>4, <1>5, <1>7, <2>2, <2>4
<1> QED
  BY <1>8, <1>9, <1>10, <1>11, <1>12, <1>13, <1>14, <1>15, <1>16 DEF Next

(***************************************************************************)
(* Who holds a cell.                                                       *)
(***************************************************************************)
(* The parts of HeldInv, for queues q. *)
MarkedOnce(q, held, avail) ==
    \A s \in Streams : \A i \in 1..Len(q[s]) : \A x \in Cells :
        Frees(q[s], i, x) =>
           /\ x \notin avail /\ x \notin held
           /\ \A r \in Streams : \A j \in 1..Len(q[r]) :
                Frees(q[r], j, x) => r = s /\ j = i
MarkBehind(q, i, x) == \E j \in (i + 1)..Len(q) : Frees(q, j, x)
ReadsHeld(q, held) ==
    \A i \in 1..Len(q) : \A x \in CallerCells \cup TransferCells :
        Reads(q, i, x) => x \in held \/ MarkBehind(q, i, x)
ReadsMarked(q) ==
    \A i \in 1..Len(q) : \A x \in ComputeCells : Reads(q, i, x) => MarkBehind(q, i, x)
Given == IF merged = NoCell THEN {} ELSE {query, tensors}

(* HeldInv is their conjunction. *)
LEMMA HeldParts ==
    HeldInv <=> /\ \A x \in Held : x \notin free
                /\ MarkedOnce(queue, Held, free)
                /\ ReadsHeld(queue["compute"], Given)
                /\ ReadsMarked(queue["caller"])
BY DEF HeldInv, MarkedOnce, ReadsHeld, ReadsMarked, MarkBehind, Given

(* A queue that stays is one grown by nothing. *)
LEMMA GrownSame ==
    ASSUME NEW q, IsSeq(q)
    PROVE  Grown(q, q, 0)
<1>1. Len(q) \in Nat
  BY DEF IsSeq
<1> QED
  BY <1>1 DEF Grown

(* New marks, at the ends of the queues, are for cells let go. *)
LEMMA MarkedOnceGrows ==
    ASSUME NEW q, NEW r, NEW k, NEW xs, NEW held, NEW held2, NEW avail, NEW avail2,
           MarkedOnce(q, held, avail),
           \A s \in Streams : Grown(q[s], r[s], k[s]),
           \A s \in Streams : \A i \in Len(q[s]) + 1..Len(r[s]) : \A x \in Cells :
               Frees(r[s], i, x) => x \in xs[s] /\ i = Len(r[s]),
           \A s, u \in Streams : \A x : x \in xs[s] /\ x \in xs[u] => s = u,
           \A s \in Streams : \A x \in xs[s] : x \in held /\ x \notin held2 /\ x \notin avail2,
           \A x \in held2 \cup avail2 : x \in held \/ x \in avail
    PROVE  MarkedOnce(r, held2, avail2)
<1>1. ASSUME NEW s \in Streams, NEW i \in 1..Len(r[s]), NEW x \in Cells, Frees(r[s], i, x)
      PROVE  \/ i \in 1..Len(q[s]) /\ Frees(q[s], i, x)
             \/ x \in xs[s] /\ i = Len(r[s])
  <2>1. CASE i \in 1..Len(q[s])
    BY <1>1, <2>1, GrownPlaces
  <2>2. CASE i \notin 1..Len(q[s])
    <3>1. Grown(q[s], r[s], k[s])
      OBVIOUS
    <3>2. i \in Len(q[s]) + 1..Len(r[s])
      BY <2>2, <3>1 DEF Grown
    <3> QED
      BY <1>1, <3>2
  <2> QED
    BY <2>1, <2>2
<1>2. ASSUME NEW s \in Streams, NEW i \in 1..Len(q[s]), NEW x \in Cells, Frees(q[s], i, x)
      PROVE  /\ x \notin avail /\ x \notin held
             /\ \A u \in Streams : \A j \in 1..Len(q[u]) :
                  Frees(q[u], j, x) => u = s /\ j = i
  BY <1>2 DEF MarkedOnce
<1> SUFFICES ASSUME NEW s \in Streams, NEW i \in 1..Len(r[s]), NEW x \in Cells,
                    Frees(r[s], i, x)
             PROVE  /\ x \notin avail2 /\ x \notin held2
                    /\ \A u \in Streams : \A j \in 1..Len(r[u]) :
                         Frees(r[u], j, x) => u = s /\ j = i
  BY DEF MarkedOnce
<1>3. CASE i \in 1..Len(q[s]) /\ Frees(q[s], i, x)
  <2>1. x \notin avail /\ x \notin held
    BY <1>2, <1>3
  <2>2. ASSUME NEW u \in Streams, NEW j \in 1..Len(r[u]), Frees(r[u], j, x)
        PROVE  u = s /\ j = i
    BY <1>1, <1>2, <1>3, <2>1, <2>2
  <2> QED
    BY <2>1, <2>2
<1>4. CASE x \in xs[s] /\ i = Len(r[s])
  <2>1. x \in held /\ x \notin avail2 /\ x \notin held2
    BY <1>4
  <2>2. ASSUME NEW u \in Streams, NEW j \in 1..Len(r[u]), Frees(r[u], j, x)
        PROVE  u = s /\ j = i
    BY <1>1, <1>2, <1>4, <2>1, <2>2
  <2> QED
    BY <2>1, <2>2
<1> QED
  BY <1>1, <1>3, <1>4

(* The first work of a queue is done: what a mark frees is marked nowhere  *)
(* else.                                                                   *)
LEMMA MarkedOncePops ==
    ASSUME NEW q, NEW r, NEW s \in Streams, NEW held, NEW avail, NEW avail2,
           MarkedOnce(q, held, avail), Shrunk(q[s], r[s]),
           \A u \in Streams \ {s} : r[u] = q[u],
           \A x \in avail2 : x \in avail \/ Frees(q[s], 1, x)
    PROVE  MarkedOnce(r, held, avail2)
<1>1. ASSUME NEW u \in Streams, NEW i \in 1..Len(r[u]), NEW x \in Cells, Frees(r[u], i, x)
      PROVE  \/ u = s /\ i + 1 \in 1..Len(q[u]) /\ Frees(q[u], i + 1, x)
             \/ u # s /\ i \in 1..Len(q[u]) /\ Frees(q[u], i, x)
  BY <1>1, ShrunkPlaces
<1>2. \A u \in Streams : \A i \in 1..Len(q[u]) : \A x \in Cells : Frees(q[u], i, x) =>
         /\ x \notin avail /\ x \notin held
         /\ \A v \in Streams : \A j \in 1..Len(q[v]) : Frees(q[v], j, x) => v = u /\ j = i
  BY DEF MarkedOnce
<1>3. 1 \in 1..Len(q[s])
  BY DEF Shrunk
<1> SUFFICES ASSUME NEW u \in Streams, NEW i \in 1..Len(r[u]), NEW x \in Cells,
                    Frees(r[u], i, x)
             PROVE  /\ x \notin avail2 /\ x \notin held
                    /\ \A v \in Streams : \A j \in 1..Len(r[v]) :
                         Frees(r[v], j, x) => v = u /\ j = i
  BY DEF MarkedOnce
<1>4. PICK h \in 1..Len(q[u]) : Frees(q[u], h, x) /\ h = IF u = s THEN i + 1 ELSE i
  BY <1>1
<1>5. /\ x \notin avail /\ x \notin held
      /\ \A v \in Streams : \A j \in 1..Len(q[v]) : Frees(q[v], j, x) => v = u /\ j = h
  BY <1>2, <1>4
<1>6. x \notin avail2
  <2> SUFFICES ASSUME Frees(q[s], 1, x) PROVE FALSE
    BY <1>5
  <2>1. u = s /\ h = 1
    BY <1>3, <1>5
  <2> QED
    BY <1>4, <2>1
<1>7. ASSUME NEW v \in Streams, NEW j \in 1..Len(r[v]), Frees(r[v], j, x)
      PROVE  v = u /\ j = i
  <2>1. PICK g \in 1..Len(q[v]) : Frees(q[v], g, x) /\ g = IF v = s THEN j + 1 ELSE j
    BY <1>1, <1>7
  <2>2. v = u /\ g = h
    BY <1>5, <2>1
  <2> QED
    BY <1>4, <2>1, <2>2
<1> QED
  BY <1>5, <1>6, <1>7

(* A mark behind a place stays behind it. *)
LEMMA MarkBehindGrows ==
    ASSUME NEW q, NEW r, NEW k, Grown(q, r, k), NEW i \in 1..Len(q), NEW x, MarkBehind(q, i, x)
    PROVE  MarkBehind(r, i, x)
<1>1. Len(q) \in Nat /\ Len(r) \in Nat
  BY DEF Grown
<1>2. PICK j \in (i + 1)..Len(q) : Frees(q, j, x)
  BY DEF MarkBehind
<1>3. j \in 1..Len(q)
  BY <1>1, <1>2
<1>4. j \in 1..Len(r) /\ Frees(r, j, x)
  BY <1>2, <1>3, GrownPlaces
<1>5. j \in (i + 1)..Len(r)
  BY <1>1, <1>2, <1>4
<1> QED
  BY <1>4, <1>5 DEF MarkBehind

(* And a new mark is behind every place there was. *)
LEMMA MarkBehindNew ==
    ASSUME NEW q, NEW r, NEW k, Grown(q, r, k), NEW i \in 1..Len(q), NEW x,
           NEW j \in Len(q) + 1..Len(r), Frees(r, j, x)
    PROVE  MarkBehind(r, i, x)
<1>1. Len(q) \in Nat /\ Len(r) \in Nat
  BY DEF Grown
<1>2. j \in (i + 1)..Len(r)
  BY <1>1
<1> QED
  BY <1>2 DEF MarkBehind

(* It moves with the place when the first work is done. *)
LEMMA MarkBehindPops ==
    ASSUME NEW q, NEW r, Shrunk(q, r), NEW i \in 1..Len(r), NEW x, MarkBehind(q, i + 1, x)
    PROVE  MarkBehind(r, i, x)
<1>1. Len(q) \in Nat /\ Len(r) \in Nat /\ Len(q) = Len(r) + 1
  BY DEF Shrunk
<1>2. PICK j \in (i + 2)..Len(q) : Frees(q, j, x)
  <2>1. (i + 1) + 1 = i + 2
    OBVIOUS
  <2> QED
    BY <2>1 DEF MarkBehind
<1>3. PICK l \in Nat : l + 1 = j /\ l \in (i + 1)..Len(r) /\ l >= 1
  <2>1. j - 1 \in Nat /\ (j - 1) + 1 = j /\ j - 1 \in (i + 1)..Len(r) /\ j - 1 >= 1
    BY <1>1, <1>2
  <2> QED
    BY <2>1
<1>4. Frees(r, l, x)
  BY <1>2, <1>3, ShrunkPlaces
<1> QED
  BY <1>3, <1>4 DEF MarkBehind

(* What compute reads stays held, or is marked behind the read. *)
LEMMA ReadsHeldGrows ==
    ASSUME NEW q, NEW r, NEW k, NEW held, NEW held2, Grown(q, r, k), ReadsHeld(q, held),
           \A i \in Len(q) + 1..Len(r) : \A x \in CallerCells \cup TransferCells :
               Reads(r, i, x) => x \in held2 \/ MarkBehind(r, i, x),
           \A x \in held : x \in held2 \/ \E j \in Len(q) + 1..Len(r) : Frees(r, j, x)
    PROVE  ReadsHeld(r, held2)
<1> SUFFICES ASSUME NEW i \in 1..Len(r), NEW x \in CallerCells \cup TransferCells, Reads(r, i, x)
             PROVE  x \in held2 \/ MarkBehind(r, i, x)
  BY DEF ReadsHeld
<1>1. CASE i \in 1..Len(q)
  <2>1. Reads(q, i, x)
    BY <1>1, GrownPlaces
  <2>2. x \in held \/ MarkBehind(q, i, x)
    BY <1>1, <2>1 DEF ReadsHeld
  <2>3. CASE MarkBehind(q, i, x)
    BY <1>1, <2>3, MarkBehindGrows
  <2>4. CASE x \in held
    BY <1>1, <2>4, MarkBehindNew
  <2> QED
    BY <2>2, <2>3, <2>4
<1>2. CASE i \notin 1..Len(q)
  <2>1. i \in Len(q) + 1..Len(r)
    BY <1>2 DEF Grown
  <2> QED
    BY <2>1
<1> QED
  BY <1>1, <1>2

(* So does what the caller's stream reads of compute's cells. *)
LEMMA ReadsMarkedGrows ==
    ASSUME NEW q, NEW r, NEW k, Grown(q, r, k), ReadsMarked(q),
           \A i \in Len(q) + 1..Len(r) : \A x \in ComputeCells :
               Reads(r, i, x) => MarkBehind(r, i, x)
    PROVE  ReadsMarked(r)
<1> SUFFICES ASSUME NEW i \in 1..Len(r), NEW x \in ComputeCells, Reads(r, i, x)
             PROVE  MarkBehind(r, i, x)
  BY DEF ReadsMarked
<1>1. CASE i \in 1..Len(q)
  <2>1. Reads(q, i, x)
    BY <1>1, GrownPlaces
  <2>2. MarkBehind(q, i, x)
    BY <1>1, <2>1 DEF ReadsMarked
  <2> QED
    BY <1>1, <2>2, MarkBehindGrows
<1>2. CASE i \notin 1..Len(q)
  <2>1. i \in Len(q) + 1..Len(r)
    BY <1>2 DEF Grown
  <2> QED
    BY <2>1
<1> QED
  BY <1>1, <1>2

(* Both hold for the work that is left when the first is done. *)
LEMMA ReadsPop ==
    ASSUME NEW q, NEW r, NEW held, Shrunk(q, r)
    PROVE  /\ ReadsHeld(q, held) => ReadsHeld(r, held)
           /\ ReadsMarked(q) => ReadsMarked(r)
<1>1. ASSUME NEW i \in 1..Len(r), NEW x, Reads(r, i, x)
      PROVE  i + 1 \in 1..Len(q) /\ Reads(q, i + 1, x)
  BY <1>1, ShrunkPlaces
<1>2. ASSUME ReadsHeld(q, held) PROVE ReadsHeld(r, held)
  <2> SUFFICES ASSUME NEW i \in 1..Len(r), NEW x \in CallerCells \cup TransferCells,
                      Reads(r, i, x)
               PROVE  x \in held \/ MarkBehind(r, i, x)
    BY DEF ReadsHeld
  <2>1. x \in held \/ MarkBehind(q, i + 1, x)
    BY <1>1, <1>2 DEF ReadsHeld
  <2> QED
    BY <2>1, MarkBehindPops
<1>3. ASSUME ReadsMarked(q) PROVE ReadsMarked(r)
  <2> SUFFICES ASSUME NEW i \in 1..Len(r), NEW x \in ComputeCells, Reads(r, i, x)
               PROVE  MarkBehind(r, i, x)
    BY DEF ReadsMarked
  <2>1. MarkBehind(q, i + 1, x)
    BY <1>1, <1>3 DEF ReadsMarked
  <2> QED
    BY <2>1, MarkBehindPops
<1> QED
  BY <1>2, <1>3

(* The parts of HeldInv after a step. *)
LEMMA HeldTogether ==
    ASSUME NEW r, r = queue', NEW held, held = Held', NEW avail, avail = free',
           NEW given, given = Given',
           \A x \in held : x \notin avail, MarkedOnce(r, held, avail),
           ReadsHeld(r["compute"], given), ReadsMarked(r["caller"])
    PROVE  HeldInv'
<1>1. (\A x \in Held : x \notin free)'
  OBVIOUS
<1>2. MarkedOnce(queue, Held, free)'
  OBVIOUS
<1>3. ReadsHeld(queue["compute"], Given)'
  OBVIOUS
<1>4. ReadsMarked(queue["caller"])'
  OBVIOUS
<1> QED
  BY <1>1, <1>2, <1>3, <1>4, HeldParts, PTL

(* Work grows the queues to c, t and p; marks of the cells xc and xp, which *)
(* are let go, may come last.                                              *)
LetGo(c, t, p, kc, kt, kp, xc, xp) ==
    /\ c = queue'["caller"] /\ t = queue'["transfer"] /\ p = queue'["compute"]
    /\ Grown(queue["caller"], c, kc) /\ Grown(queue["transfer"], t, kt)
    /\ Grown(queue["compute"], p, kp)
    /\ \A i \in Len(queue["caller"]) + 1..Len(c) : \A x \in Cells :
          Frees(c, i, x) => x \in xc /\ i = Len(c)
    /\ \A i \in Len(queue["transfer"]) + 1..Len(t) : \A x \in Cells : ~Frees(t, i, x)
    /\ \A i \in Len(queue["compute"]) + 1..Len(p) : \A x \in Cells :
          Frees(p, i, x) => x \in xp /\ i = Len(p)
    /\ \A x \in xc : x \notin xp
    /\ \A x \in xc \cup xp : x \in Held /\ x \notin Held' /\ x \notin free'
    /\ \A x \in Held' : (x \in Held \/ x \in free) /\ x \notin free'
    /\ \A x \in free' : x \in Held \/ x \in free
    /\ \A i \in Len(queue["compute"]) + 1..Len(p) : \A x \in CallerCells \cup TransferCells :
          Reads(p, i, x) => x \in Given' \/ MarkBehind(p, i, x)
    /\ \A x \in Given : \/ x \in Given'
                        \/ \E j \in Len(queue["compute"]) + 1..Len(p) : Frees(p, j, x)
    /\ \A i \in Len(queue["caller"]) + 1..Len(c) : \A x \in ComputeCells :
          Reads(c, i, x) => MarkBehind(c, i, x)

(* Steps of the Python thread keep HeldInv: a cell it lets go of is free   *)
(* or has its one mark, behind the reads that are left.                    *)
LEMMA HeldGrows ==
    ASSUME HostTypeOK, HeldInv, NEW c, NEW t, NEW p, NEW kc, NEW kt, NEW kp, NEW xc, NEW xp,
           LetGo(c, t, p, kc, kt, kp, xc, xp)
    PROVE  HeldInv'
<1>1. /\ MarkedOnce(queue, Held, free)
      /\ ReadsHeld(queue["compute"], Given) /\ ReadsMarked(queue["caller"])
  BY HeldParts
<1>2. PICK q, h, a, g, r, held, avail, given :
        /\ q = queue /\ h = Held /\ a = free /\ g = Given
        /\ r = queue' /\ held = Held' /\ avail = free' /\ given = Given'
  OBVIOUS
<1>3. /\ r["caller"] = c /\ r["transfer"] = t /\ r["compute"] = p
      /\ Grown(q["caller"], c, kc) /\ Grown(q["transfer"], t, kt) /\ Grown(q["compute"], p, kp)
      /\ \A x \in held : x \notin avail
  BY <1>2 DEF LetGo
<1>4. MarkedOnce(r, held, avail)
  <2>1. MarkedOnce(q, h, a)
    BY <1>1, <1>2
  <2>2. PICK k, xs : /\ k = [s \in Streams |-> CASE s = "caller"  -> kc
                                               [] s = "compute" -> kp
                                               [] OTHER         -> kt]
                     /\ xs = [s \in Streams |-> CASE s = "caller"  -> xc
                                                [] s = "compute" -> xp
                                                [] OTHER         -> {}]
    OBVIOUS
  <2>3. /\ k["caller"] = kc /\ k["transfer"] = kt /\ k["compute"] = kp
        /\ xs["caller"] = xc /\ xs["transfer"] = {} /\ xs["compute"] = xp
    BY <2>2, Names
  <2>4. \A s \in Streams : Grown(q[s], r[s], k[s])
    BY <1>3, <2>3, Names
  <2>5. \A s \in Streams : \A i \in Len(q[s]) + 1..Len(r[s]) : \A x \in Cells :
              Frees(r[s], i, x) => x \in xs[s] /\ i = Len(r[s])
    <3>1. /\ \A i \in Len(q["caller"]) + 1..Len(c) : \A x \in Cells :
                Frees(c, i, x) => x \in xc /\ i = Len(c)
          /\ \A i \in Len(q["transfer"]) + 1..Len(t) : \A x \in Cells : ~Frees(t, i, x)
          /\ \A i \in Len(q["compute"]) + 1..Len(p) : \A x \in Cells :
                Frees(p, i, x) => x \in xp /\ i = Len(p)
      BY <1>2 DEF LetGo
    <3> QED
      BY <1>3, <2>3, <3>1, Names
  <2>6. \A s, u \in Streams : \A x : x \in xs[s] /\ x \in xs[u] => s = u
    <3>1. \A x \in xc : x \notin xp
      BY DEF LetGo
    <3> QED
      BY <2>3, <3>1, Names
  <2>7. \A s \in Streams : \A x \in xs[s] : x \in h /\ x \notin held /\ x \notin avail
    <3>1. \A x \in xc \cup xp : x \in h /\ x \notin held /\ x \notin avail
      BY <1>2 DEF LetGo
    <3> QED
      BY <2>3, <3>1, Names
  <2>8. \A x \in held \cup avail : x \in h \/ x \in a
    BY <1>2 DEF LetGo
  <2> QED
    BY <2>1, <2>4, <2>5, <2>6, <2>7, <2>8, MarkedOnceGrows
<1>5. ReadsHeld(p, given)
  <2>1. ReadsHeld(q["compute"], g)
    BY <1>1, <1>2
  <2>2. \A x \in g : \/ x \in given
                     \/ \E j \in Len(q["compute"]) + 1..Len(p) : Frees(p, j, x)
    BY <1>2 DEF LetGo
  <2>3. \A i \in Len(q["compute"]) + 1..Len(p) : \A x \in CallerCells \cup TransferCells :
            Reads(p, i, x) => x \in given \/ MarkBehind(p, i, x)
    BY <1>2 DEF LetGo
  <2> QED
    BY <1>3, <2>1, <2>2, <2>3, ReadsHeldGrows
<1>6. ReadsMarked(c)
  <2>1. ReadsMarked(q["caller"])
    BY <1>1, <1>2
  <2>2. \A i \in Len(q["caller"]) + 1..Len(c) : \A x \in ComputeCells :
          Reads(c, i, x) => MarkBehind(c, i, x)
    BY <1>2 DEF LetGo
  <2> QED
    BY <1>3, <2>1, <2>2, ReadsMarkedGrows
<1> QED
  BY <1>2, <1>3, <1>4, <1>5, <1>6, HeldTogether

(* A stream does its first work. *)
LEMMA HeldExecute ==
    ASSUME HostTypeOK, WorkInv, HeldInv, NEW s \in Streams, Execute(s)
    PROVE  HeldInv'
<1>1. /\ MarkedOnce(queue, Held, free)
      /\ ReadsHeld(queue["compute"], Given) /\ ReadsMarked(queue["caller"])
      /\ \A x \in Held : x \notin free
  BY HeldParts
<1>2. PICK q, r, h, a, a2, g :
        q = queue /\ r = queue' /\ h = Held /\ a = free /\ a2 = free' /\ g = Given
  OBVIOUS
<1>3. /\ Shrunk(q[s], r[s]) /\ \A u \in Streams \ {s} : r[u] = q[u]
      /\ a2 = IF q[s][1].do = "mark" THEN a \cup q[s][1].writes ELSE a
      /\ 1 \in 1..Len(q[s])
  BY <1>2, ExecuteQueues
<1>4. h = Held' /\ g = Given'
  BY <1>2 DEF Execute, hostVars, Held, Given
<1>5. \A x \in a2 : x \in a \/ Frees(q[s], 1, x)
  BY <1>3 DEF Frees
<1>6. MarkedOnce(r, h, a2)
  BY <1>1, <1>2, <1>3, <1>5, MarkedOncePops
<1>7. \A x \in h : x \notin a2
  <2> SUFFICES ASSUME NEW x \in h, Frees(q[s], 1, x) PROVE FALSE
    BY <1>1, <1>2, <1>5
  <2>1. x \in Cells
    BY <1>2, Names DEF Held, HostTypeOK
  <2> QED
    BY <1>1, <1>2, <1>3, <2>1 DEF MarkedOnce
<1>8. ReadsHeld(r["compute"], g) /\ ReadsMarked(r["caller"])
  <2>1. r["compute"] = q["compute"] \/ Shrunk(q["compute"], r["compute"])
    BY <1>3, Names
  <2>2. r["caller"] = q["caller"] \/ Shrunk(q["caller"], r["caller"])
    BY <1>3, Names
  <2>3. ReadsHeld(q["compute"], g) /\ ReadsMarked(q["caller"])
    BY <1>1, <1>2
  <2> QED
    BY <2>1, <2>2, <2>3, ReadsPop
<1> QED
  BY <1>2, <1>4, <1>6, <1>7, <1>8, HeldTogether

(* One piece of work at the end of a queue frees or reads what it says. *)
LEMMA EndPlaces ==
    ASSUME NEW q, NEW r, NEW k, Grown(q, r, k)
    PROVE  /\ Len(q) \in Nat /\ k \in Nat /\ Len(r) = Len(q) + k
           /\ \A i \in Len(q) + 1..Len(r) : i \in 1..Len(r)
           /\ \A i, x : Frees(r, i, x) => r[i].do = "mark" /\ x \in r[i].writes
           /\ \A i, x : Reads(r, i, x) => r[i].reads # <<>>
<1>1. Len(q) \in Nat /\ k \in Nat /\ Len(r) = Len(q) + k
  BY DEF Grown
<1>2. \A i, x : Reads(r, i, x) => r[i].reads # <<>>
  BY Short DEF Reads
<1> QED
  BY <1>1, <1>2 DEF Frees

(* Held cells keep their marks and reads when a query is enqueued. *)
LEMMA HeldDecode ==
    ASSUME HostTypeOK, HostInv, HeldInv, \E n \in 1..MaxChunks : Decode(n)
    PROVE  HeldInv'
<1>1. PICK b, q, c, t, p : /\ b = queue["caller"] /\ q = queue["compute"]
                           /\ c = queue'["caller"] /\ t = queue'["transfer"]
                           /\ p = queue'["compute"]
  OBVIOUS
<1>2. /\ Grown(b, c, 1) /\ c[Len(b) + 1] = Work("query", <<>>, {query'}, call + 1)
      /\ t = queue["transfer"] /\ p = q
      /\ pc = "idle" /\ query' \in free \cap CallerCells /\ free' = free \ {query'}
      /\ UNCHANGED <<clone, tensors, current, merged>>
  BY <1>1, DecodeQueues
<1>3. /\ query = NoCell /\ clone = NoCell /\ tensors = NoCell /\ current = NoCell
      /\ merged = NoCell
  BY <1>2 DEF HostInv
<1>4. Held = {} /\ Held' = {query'} /\ Given = {} /\ Given' = {}
  BY <1>2, <1>3, Names DEF Held, Given
<1>5. Grown(queue["transfer"], t, 0) /\ Grown(q, p, 0)
  BY <1>1, <1>2, GrownSame, Names DEF HostTypeOK
<1>6. \A i \in Len(b) + 1..Len(c) : c[i].do = "query" /\ c[i].reads = <<>>
  <2>1. \A i \in Len(b) + 1..Len(c) : i = Len(b) + 1
    BY <1>2, EndPlaces
  <2> QED
    BY <1>2, <2>1 DEF Work
<1>7. LetGo(c, t, p, 1, 0, 0, {}, {})
  <2>1. \A i \in Len(queue["caller"]) + 1..Len(c) : \A x : ~Frees(c, i, x) /\ ~Reads(c, i, x)
    BY <1>1, <1>2, <1>6, EndPlaces
  <2>2. /\ \A i \in Len(queue["transfer"]) + 1..Len(t) : FALSE
        /\ \A i \in Len(queue["compute"]) + 1..Len(p) : FALSE
    BY <1>1, <1>5, EndPlaces
  <2> QED
    BY <1>1, <1>2, <1>4, <1>5, <2>1, <2>2 DEF LetGo
<1> QED
  BY <1>7, HeldGrows

(* When a chunk is delivered, into new clones when direct. *)
LEMMA HeldNextChunk ==
    ASSUME HostTypeOK, HostInv, HeldInv, NextChunk
    PROVE  HeldInv'
<1>1. PICK b, q, c, t, p : /\ b = queue["caller"] /\ q = queue["compute"]
                           /\ c = queue'["caller"] /\ t = queue'["transfer"]
                           /\ p = queue'["compute"]
  OBVIOUS
<1>2. /\ direct => /\ Grown(b, c, 1)
                   /\ c[Len(b) + 1] = Work("clone", <<>>, {clone'}, <<call, chunk + 1>>)
                   /\ clone' \in (free \cup ({clone} \ {NoCell})) \cap CallerCells
                   /\ free' = (free \cup ({clone} \ {NoCell})) \ {clone'}
      /\ ~direct => c = b /\ clone' = clone /\ free' = free
      /\ t = queue["transfer"] /\ p = q /\ pc = "next" /\ direct \in BOOLEAN
      /\ UNCHANGED <<query, tensors, current, merged>>
  BY <1>1, NextChunkQueues DEF HostTypeOK
<1>3. /\ query # NoCell /\ query \notin free
      /\ clone # NoCell => clone # query
      /\ {tensors, current} \subseteq TransferCells \cup {NoCell}
      /\ merged \in ComputeCells \cup {NoCell}
      /\ \A x \in Held : x \notin free
  BY <1>2 DEF HostInv, HostTypeOK, HeldInv, Held
<1>4. \A x \in Held' : x \in Held \/ x = clone'
  BY <1>2 DEF Held
<1>5. \A x \in Held' : (x \in Held \/ x \in free) /\ x \notin free'
  <2>1. CASE ~direct
    BY <1>2, <1>3, <2>1 DEF Held
  <2>2. CASE direct
    <3>1. \A x \in Held' : x # clone' => x \in {query, tensors, current, merged} \ {NoCell}
      BY <1>2 DEF Held
    <3>2. \A x \in {query, tensors, current, merged} \ {NoCell} : x \in Held /\ x # clone
      BY <1>3, Names, ConstantsAssumption DEF Held, HostTypeOK
    <3>3. clone' \in Held \/ clone' \in free
      BY <1>2, <2>2 DEF Held
    <3> QED
      BY <1>2, <1>3, <2>2, <3>1, <3>2, <3>3
  <2> QED
    BY <1>2, <2>1, <2>2
<1>6. Given' = Given
  BY <1>2 DEF Given
<1>7. \A x \in free' : x \in Held \/ x \in free
  BY <1>2 DEF Held
<1>8. Grown(queue["transfer"], t, 0) /\ Grown(q, p, 0)
  BY <1>1, <1>2, GrownSame, Names DEF HostTypeOK
<1>9. /\ \A i \in Len(queue["transfer"]) + 1..Len(t) : FALSE
      /\ \A i \in Len(queue["compute"]) + 1..Len(p) : FALSE
  BY <1>1, <1>8, EndPlaces
<1>10. PICK k : /\ Grown(b, c, k)
                /\ \A i \in Len(b) + 1..Len(c) : c[i].do = "clone" /\ c[i].reads = <<>>
  <2>1. CASE ~direct
    <3>1. Grown(b, c, 0)
      BY <1>1, <1>2, <2>1, GrownSame, Names DEF HostTypeOK
    <3>2. \A i \in Len(b) + 1..Len(c) : FALSE
      BY <3>1, EndPlaces
    <3> QED
      BY <3>1, <3>2
  <2>2. CASE direct
    <3>1. \A i \in Len(b) + 1..Len(c) : i = Len(b) + 1
      BY <1>2, <2>2, EndPlaces
    <3>2. \A i \in Len(b) + 1..Len(c) : c[i].do = "clone" /\ c[i].reads = <<>>
      BY <1>2, <2>2, <3>1 DEF Work
    <3> QED
      BY <1>2, <2>2, <3>2
  <2> QED
    BY <1>2, <2>1, <2>2
<1>11. \A i \in Len(queue["caller"]) + 1..Len(c) : \A x : ~Frees(c, i, x) /\ ~Reads(c, i, x)
  BY <1>1, <1>10, EndPlaces
<1>12. LetGo(c, t, p, k, 0, 0, {}, {})
  BY <1>1, <1>5, <1>6, <1>7, <1>8, <1>9, <1>10, <1>11 DEF LetGo
<1> QED
  BY <1>12, HeldGrows

(* When the loop ends and when staging was waited for. *)
LEMMA HeldQuiet ==
    ASSUME HostTypeOK, HeldInv, NoMoreChunks \/ StageSync
    PROVE  HeldInv'
<1>1. /\ queue' = queue /\ free' = free
      /\ UNCHANGED <<query, clone, tensors, current, merged>>
  BY QuietQueues
<1> QED
  BY <1>1 DEF HeldInv, Held

(* When the loader raises and everything is let go. *)
LEMMA HeldLoaderRaises ==
    ASSUME HostTypeOK, HostInv, HeldInv, LoaderRaises
    PROVE  HeldInv'
<1>1. PICK b, q, c, t, p : /\ b = queue["caller"] /\ q = queue["compute"]
                           /\ c = queue'["caller"] /\ t = queue'["transfer"]
                           /\ p = queue'["compute"]
  OBVIOUS
<1>2. /\ c = b /\ t = queue["transfer"] /\ pc = "next"
      /\ query' = NoCell /\ clone' = NoCell
      /\ tensors' = NoCell /\ current' = NoCell /\ merged' = NoCell
      /\ merged = NoCell => p = q /\ free' = free \cup ({query, clone} \ {NoCell})
      /\ merged # NoCell => /\ Grown(q, p, 1)
                            /\ MarkOf(p[Len(q) + 1], {query, tensors})
                            /\ free' = free \cup ({clone, merged} \ {NoCell})
  BY <1>1, LoaderRaisesQueues
<1>3. /\ query # NoCell /\ query \notin free
      /\ clone # NoCell => clone # query
      /\ merged # NoCell => tensors # NoCell /\ tensors \notin free
  BY <1>2, HeldNotFree DEF HostInv
<1>4. /\ {query, clone} \subseteq CallerCells \cup {NoCell}
      /\ tensors \in TransferCells \cup {NoCell}
      /\ merged \in ComputeCells \cup {NoCell}
  BY DEF HostTypeOK
<1>5. Held' = {} /\ Given' = {}
  BY <1>2 DEF Held, Given
<1>6. \A x \in free' : x \in Held \/ x \in free
  BY <1>2 DEF Held
<1>7. Grown(queue["caller"], c, 0) /\ Grown(queue["transfer"], t, 0)
  BY <1>1, <1>2, GrownSame, Names DEF HostTypeOK
<1>8. /\ \A i \in Len(queue["caller"]) + 1..Len(c) : FALSE
      /\ \A i \in Len(queue["transfer"]) + 1..Len(t) : FALSE
  BY <1>7, EndPlaces
<1>9. CASE merged = NoCell
  <2>1. Grown(queue["compute"], p, 0)
    BY <1>1, <1>2, <1>9, GrownSame, Names DEF HostTypeOK
  <2>2. \A i \in Len(queue["compute"]) + 1..Len(p) : FALSE
    BY <2>1, EndPlaces
  <2>3. Given = {}
    BY <1>9 DEF Given
  <2>4. LetGo(c, t, p, 0, 0, 0, {}, {})
    BY <1>1, <1>5, <1>6, <1>7, <1>8, <2>1, <2>2, <2>3 DEF LetGo
  <2> QED
    BY <2>4, HeldGrows
<1>10. CASE merged # NoCell
  <2>1. /\ Grown(q, p, 1) /\ Len(q) \in Nat
        /\ \A i \in Len(q) + 1..Len(p) : i = Len(q) + 1 /\ i = Len(p)
        /\ Len(q) + 1 \in Len(q) + 1..Len(p) /\ Len(q) + 1 \in 1..Len(p)
    BY <1>2, <1>10, EndPlaces
  <2>2. /\ p[Len(q) + 1].do = "mark" /\ p[Len(q) + 1].reads = <<>>
        /\ p[Len(q) + 1].writes = {query, tensors}
    BY <1>2, <1>10 DEF MarkOf
  <2>3. \A i \in Len(q) + 1..Len(p) : \A x :
          /\ Frees(p, i, x) => x \in {query, tensors} /\ i = Len(p)
          /\ ~Reads(p, i, x)
    BY <2>1, <2>2, EndPlaces
  <2>4. Given = {query, tensors}
    BY <1>10 DEF Given
  <2>5. \A x \in Given : \E i \in Len(q) + 1..Len(p) : Frees(p, i, x)
    BY <2>1, <2>2, <2>4 DEF Frees
  <2>6. \A x \in {query, tensors} : x \in Held /\ x \notin free'
    <3>1. free' = free \cup ({clone, merged} \ {NoCell})
      BY <1>2, <1>10
    <3>2. query # clone /\ query # merged /\ tensors # clone /\ tensors # merged
      BY <1>3, <1>4, <1>10, ConstantsAssumption
    <3>3. tensors # NoCell
      BY <1>3, <1>10
    <3>4. query \in Held /\ tensors \in Held
      BY <1>3, <3>3 DEF Held
    <3> QED
      BY <1>3, <3>1, <3>2, <3>3, <3>4, <1>10
  <2>7. LetGo(c, t, p, 0, 0, 1, {}, {query, tensors})
    BY <1>1, <1>5, <1>6, <1>7, <1>8, <2>1, <2>3, <2>5, <2>6 DEF LetGo
  <2> QED
    BY <2>7, HeldGrows
<1> QED
  BY <1>9, <1>10

(* When a chunk is staged. *)
LEMMA HeldStage ==
    ASSUME HostTypeOK, HostInv, HeldInv, Stage
    PROVE  HeldInv'
<1>1. PICK b, q, s0, c, t, p :
        /\ b = queue["caller"] /\ q = queue["compute"] /\ s0 = queue["transfer"]
        /\ c = queue'["caller"] /\ t = queue'["transfer"] /\ p = queue'["compute"]
  OBVIOUS
<1>2. /\ c = b /\ p = q /\ pc = "stage"
      /\ UNCHANGED <<query, clone, tensors, merged>>
      /\ current' \in free \cap TransferCells /\ free' = free \ {current'}
  BY <1>1, StageQueues
<1>3. PICK k : /\ Grown(s0, t, k)
               /\ \A i \in Len(s0) + 1..Len(t) : t[i].do # "mark"
  <2>1. CASE direct
    <3>1. /\ Grown(s0, t, 4)
          /\ t[Len(s0) + 1] = Record(<<"own", This>>)
          /\ t[Len(s0) + 2] = Wait(<<"own", This>>)
          /\ t[Len(s0) + 3] = Work("stack", <<clone>>, {current'}, This)
          /\ t[Len(s0) + 4] = Record(<<"ready", This>>)
      BY <1>1, <2>1, StageQueues
    <3>2. \A i \in Len(s0) + 1..Len(t) :
            i = Len(s0) + 1 \/ i = Len(s0) + 2 \/ i = Len(s0) + 3 \/ i = Len(s0) + 4
      BY <3>1, EndPlaces
    <3>3. /\ t[Len(s0) + 1].do # "mark" /\ t[Len(s0) + 2].do # "mark"
          /\ t[Len(s0) + 3].do # "mark" /\ t[Len(s0) + 4].do # "mark"
      BY <3>1 DEF Record, Wait, Work
    <3> QED
      BY <3>1, <3>2, <3>3
  <2>2. CASE ~direct
    <3>1. /\ Grown(s0, t, 2)
          /\ t[Len(s0) + 1] = Work("stack", <<>>, {current'}, This)
          /\ t[Len(s0) + 2] = Record(<<"ready", This>>)
      BY <1>1, <2>2, StageQueues
    <3>2. \A i \in Len(s0) + 1..Len(t) : i = Len(s0) + 1 \/ i = Len(s0) + 2
      BY <3>1, EndPlaces
    <3>3. t[Len(s0) + 1].do # "mark" /\ t[Len(s0) + 2].do # "mark"
      BY <3>1 DEF Record, Work
    <3> QED
      BY <3>1, <3>2, <3>3
  <2> QED
    BY <2>1, <2>2
<1>4. \A i \in Len(queue["transfer"]) + 1..Len(t) : \A x : ~Frees(t, i, x)
  BY <1>1, <1>3, EndPlaces
<1>5. /\ \A x \in Held' : x = current' \/ x \in Held
      /\ Given' = Given
  BY <1>2 DEF Held, Given
<1>6. \A x \in Held' : (x \in Held \/ x \in free) /\ x \notin free'
  BY <1>2, <1>5 DEF HeldInv
<1>7. \A x \in free' : x \in Held \/ x \in free
  BY <1>2
<1>8. Grown(queue["caller"], c, 0) /\ Grown(queue["compute"], p, 0)
  BY <1>1, <1>2, GrownSame, Names DEF HostTypeOK
<1>9. /\ \A i \in Len(queue["caller"]) + 1..Len(c) : FALSE
      /\ \A i \in Len(queue["compute"]) + 1..Len(p) : FALSE
  BY <1>8, EndPlaces
<1>10. LetGo(c, t, p, 0, k, 0, {}, {})
  BY <1>1, <1>3, <1>4, <1>5, <1>6, <1>7, <1>8, <1>9 DEF LetGo
<1> QED
  BY <1>10, HeldGrows

(* When the last chunk's tensors are let go. *)
LEMMA HeldRebind ==
    ASSUME HostTypeOK, HostInv, HeldInv, Rebind
    PROVE  HeldInv'
<1>1. PICK b, q, c, t, p : /\ b = queue["caller"] /\ q = queue["compute"]
                           /\ c = queue'["caller"] /\ t = queue'["transfer"]
                           /\ p = queue'["compute"]
  OBVIOUS
<1>2. /\ c = b /\ t = queue["transfer"] /\ pc = "rebind"
      /\ tensors' = current /\ current' = NoCell /\ free' = free
      /\ UNCHANGED <<query, clone, merged>>
      /\ merged = NoCell <=> tensors = NoCell
      /\ merged = NoCell => p = q
      /\ merged # NoCell => Grown(q, p, 1) /\ MarkOf(p[Len(q) + 1], {tensors})
  BY <1>1, RebindQueues
<1>3. /\ current # NoCell /\ current # tensors /\ query # NoCell
      /\ query \in CallerCells /\ clone \in CallerCells \cup {NoCell}
      /\ tensors \in TransferCells \cup {NoCell} /\ merged \in ComputeCells \cup {NoCell}
      /\ tensors # NoCell => tensors \notin free
  BY <1>2, HeldNotFree DEF HostInv, HostTypeOK
<1>4. /\ \A x \in Held' : x \in Held /\ x \notin free'
      /\ \A x \in free' : x \in Held \/ x \in free
  BY <1>2 DEF Held, HeldInv
<1>5. Grown(queue["caller"], c, 0) /\ Grown(queue["transfer"], t, 0)
  BY <1>1, <1>2, GrownSame, Names DEF HostTypeOK
<1>6. /\ \A i \in Len(queue["caller"]) + 1..Len(c) : FALSE
      /\ \A i \in Len(queue["transfer"]) + 1..Len(t) : FALSE
  BY <1>5, EndPlaces
<1>7. CASE merged = NoCell
  <2>1. Grown(queue["compute"], p, 0)
    BY <1>1, <1>2, <1>7, GrownSame, Names DEF HostTypeOK
  <2>2. \A i \in Len(queue["compute"]) + 1..Len(p) : FALSE
    BY <2>1, EndPlaces
  <2>3. Given = {}
    BY <1>7 DEF Given
  <2>4. LetGo(c, t, p, 0, 0, 0, {}, {})
    BY <1>1, <1>4, <1>5, <1>6, <2>1, <2>2, <2>3 DEF LetGo
  <2> QED
    BY <2>4, HeldGrows
<1>8. CASE merged # NoCell
  <2>1. /\ Grown(q, p, 1)
        /\ \A i \in Len(q) + 1..Len(p) : i = Len(q) + 1 /\ i = Len(p)
        /\ Len(q) + 1 \in Len(q) + 1..Len(p) /\ Len(q) + 1 \in 1..Len(p)
    BY <1>2, <1>8, EndPlaces
  <2>2. /\ p[Len(q) + 1].do = "mark" /\ p[Len(q) + 1].reads = <<>>
        /\ p[Len(q) + 1].writes = {tensors}
    BY <1>2, <1>8 DEF MarkOf
  <2>3. \A i \in Len(q) + 1..Len(p) : \A x :
          /\ Frees(p, i, x) => x \in {tensors} /\ i = Len(p)
          /\ ~Reads(p, i, x)
    BY <2>1, <2>2, EndPlaces
  <2>4. Given = {query, tensors} /\ query \in Given'
    BY <1>2, <1>8 DEF Given
  <2>5. \E i \in Len(q) + 1..Len(p) : Frees(p, i, tensors)
    BY <2>1, <2>2 DEF Frees
  <2>6. tensors \in Held /\ tensors \notin Held' /\ tensors \notin free'
    BY <1>2, <1>3, <1>8, ConstantsAssumption DEF Held
  <2>7. LetGo(c, t, p, 0, 0, 1, {}, {tensors})
    BY <1>1, <1>4, <1>5, <1>6, <2>1, <2>3, <2>4, <2>5, <2>6 DEF LetGo
  <2> QED
    BY <2>7, HeldGrows
<1> QED
  BY <1>7, <1>8

(* When attention is enqueued. *)
LEMMA HeldRunChunk ==
    ASSUME HostTypeOK, HostInv, HeldInv, RunChunk
    PROVE  HeldInv'
<1>1. PICK b, q, c, t, p, m :
        /\ b = queue["caller"] /\ q = queue["compute"]
        /\ c = queue'["caller"] /\ t = queue'["transfer"] /\ p = queue'["compute"]
        /\ m = merged'
  OBVIOUS
<1>2. /\ t = queue["transfer"] /\ pc = "run"
      /\ UNCHANGED <<query, clone, tensors, current>>
      /\ m \in free \cap ComputeCells /\ free' = (free \ {m}) \cup ({merged} \ {NoCell})
      /\ Len(q) \in Nat /\ Len(b) \in Nat
      /\ chunk = 1 <=> merged = NoCell
  BY <1>1, RunChunkQueues
<1>3. chunk = 1 => /\ Grown(b, c, 1) /\ Grown(q, p, 3)
                   /\ c[Len(b) + 1] = Record(<<"query", call>>)
                   /\ p[Len(q) + 1] = Wait(<<"query", call>>)
                   /\ p[Len(q) + 2] = Wait(<<"ready", This>>)
                   /\ p[Len(q) + 3] = Work("attend", <<query, tensors>>, {m}, This)
  BY <1>1, RunChunkQueues
<1>4. chunk # 1 => /\ c = b /\ Grown(q, p, 2)
                   /\ p[Len(q) + 1] = Wait(<<"ready", This>>)
                   /\ p[Len(q) + 2] = Work("attend", <<query, tensors, merged>>, {m}, This)
  BY <1>1, RunChunkQueues
<1>5. /\ query # NoCell /\ tensors # NoCell /\ current = NoCell
      /\ query \in CallerCells /\ clone \in CallerCells \cup {NoCell}
      /\ tensors \in TransferCells
      /\ merged \in ComputeCells \cup {NoCell} /\ m # NoCell
  BY <1>2, ConstantsAssumption DEF HostInv, HostTypeOK
<1>6. /\ query \notin free /\ tensors \notin free
      /\ clone # NoCell => clone \notin free
      /\ merged # NoCell => merged \notin free
  BY <1>5, HeldNotFree
<1>7. /\ Held' = {query, clone, tensors, m} \ {NoCell} /\ Given' = {query, tensors}
      /\ \A x \in Given : x \in Given'
  BY <1>1, <1>2, <1>5 DEF Held, Given
<1>8. \A x \in Held' : (x \in Held \/ x \in free) /\ x \notin free'
  <2>1. \A x \in {query, clone, tensors} \ {NoCell} : x \in Held /\ x \notin free'
    BY <1>2, <1>5, <1>6, ConstantsAssumption DEF Held
  <2>2. m \in free /\ m \notin free'
    BY <1>2, <1>6
  <2> QED
    BY <1>7, <2>1, <2>2
<1>9. \A x \in free' : x \in Held \/ x \in free
  BY <1>2 DEF Held
<1>10. PICK k : /\ Grown(b, c, k)
                /\ \A i \in Len(b) + 1..Len(c) : c[i].do = "record" /\ c[i].reads = <<>>
  <2>1. CASE chunk # 1
    <3>1. Grown(b, c, 0)
      BY <1>1, <1>4, <2>1, GrownSame, Names DEF HostTypeOK
    <3>2. \A i \in Len(b) + 1..Len(c) : FALSE
      BY <3>1, EndPlaces
    <3> QED
      BY <3>1, <3>2
  <2>2. CASE chunk = 1
    <3>1. \A i \in Len(b) + 1..Len(c) : i = Len(b) + 1
      BY <1>3, <2>2, EndPlaces
    <3>2. \A i \in Len(b) + 1..Len(c) : c[i].do = "record" /\ c[i].reads = <<>>
      BY <1>3, <2>2, <3>1 DEF Record, Work
    <3> QED
      BY <1>3, <2>2, <3>2
  <2> QED
    BY <2>1, <2>2
<1>11. \A i \in Len(queue["caller"]) + 1..Len(c) : \A x : ~Frees(c, i, x) /\ ~Reads(c, i, x)
  BY <1>1, <1>10, EndPlaces
<1>12. Grown(queue["transfer"], t, 0) /\ \A i \in Len(queue["transfer"]) + 1..Len(t) : FALSE
  <2>1. Grown(queue["transfer"], t, 0)
    BY <1>1, <1>2, GrownSame, Names DEF HostTypeOK
  <2> QED
    BY <2>1, EndPlaces
<1>14. CASE chunk = 1
  <2>5. \A i \in Len(q) + 1..Len(p) : i = Len(q) + 1 \/ i = Len(q) + 2 \/ i = Len(q) + 3
    BY <1>3, <1>14, EndPlaces
  <2>1. /\ p[Len(q) + 1].do = "wait" /\ p[Len(q) + 1].reads = <<>>
        /\ p[Len(q) + 2].do = "wait" /\ p[Len(q) + 2].reads = <<>>
        /\ p[Len(q) + 3].do = "attend" /\ p[Len(q) + 3].reads = <<query, tensors>>
    BY <1>3, <1>14 DEF Wait, Work
  <2>2. \A i \in Len(q) + 1..Len(p) : \A x : ~Frees(p, i, x)
    BY <1>3, <1>14, <2>5, <2>1, EndPlaces
  <2>3. ASSUME NEW i \in Len(q) + 1..Len(p), NEW x, Reads(p, i, x)
        PROVE  x \in {query, tensors}
    <3>1. i = Len(q) + 1 \/ i = Len(q) + 2 \/ i = Len(q) + 3
      BY <2>5, <2>3
    <3>2. p[i].reads = <<>> \/ p[i].reads = <<query, tensors>>
      BY <2>1, <3>1
    <3>3. PICK r : r = p[i].reads /\ \E j \in 1..Len(r) : r[j] = x
      BY <2>3 DEF Reads
    <3>4. CASE r = <<>>
      <4>1. Len(r) = 0
        BY ONLY <3>4
      <4> QED
        BY <3>3, <4>1
    <3>5. CASE r = <<query, tensors>>
      <4>1. \A j \in 1..Len(r) : r[j] \in {query, tensors}
        BY ONLY <3>5
      <4> QED
        BY <3>3, <4>1
    <3> QED
      BY <3>2, <3>3, <3>4, <3>5
  <2>4. LetGo(c, t, p, k, 0, 3, {}, {})
    BY <1>1, <1>3, <1>7, <1>8, <1>9, <1>10, <1>11, <1>12, <1>14, <2>2, <2>3 DEF LetGo
  <2> QED
    BY <2>4, HeldGrows
<1>15. CASE chunk # 1
  <2>5. \A i \in Len(q) + 1..Len(p) : i = Len(q) + 1 \/ i = Len(q) + 2
    BY <1>4, <1>15, EndPlaces
  <2>1. /\ p[Len(q) + 1].do = "wait" /\ p[Len(q) + 1].reads = <<>>
        /\ p[Len(q) + 2].do = "attend" /\ p[Len(q) + 2].reads = <<query, tensors, merged>>
    BY <1>4, <1>15 DEF Wait, Work
  <2>2. \A i \in Len(q) + 1..Len(p) : \A x : ~Frees(p, i, x)
    BY <1>4, <1>15, <2>5, <2>1, EndPlaces
  <2>3. \A i \in Len(q) + 1..Len(p) : \A x \in CallerCells \cup TransferCells :
          Reads(p, i, x) => x \in {query, tensors}
    <3>1. \A i \in Len(q) + 1..Len(p) : \A x : Reads(p, i, x) => x \in {query, tensors, merged}
      BY <1>4, <1>15, <2>5, <2>1, EndPlaces DEF Reads
    <3> QED
      BY <1>5, <3>1, ConstantsAssumption
  <2>4. LetGo(c, t, p, k, 0, 2, {}, {})
    BY <1>1, <1>4, <1>7, <1>8, <1>9, <1>10, <1>11, <1>12, <1>15, <2>2, <2>3 DEF LetGo
  <2> QED
    BY <2>4, HeldGrows
<1> QED
  BY <1>14, <1>15

(* When the call ends and everything is let go. *)
LEMMA HeldFinish ==
    ASSUME HostTypeOK, HostInv, HeldInv, Finish
    PROVE  HeldInv'
<1>1. PICK b, q, c, t, p :
        /\ b = queue["caller"] /\ q = queue["compute"]
        /\ c = queue'["caller"] /\ t = queue'["transfer"] /\ p = queue'["compute"]
  OBVIOUS
<1>2. /\ t = queue["transfer"] /\ pc = "finish" /\ merged # NoCell
      /\ query' = NoCell /\ clone' = NoCell
      /\ tensors' = NoCell /\ current' = NoCell /\ merged' = NoCell
      /\ free' = free \cup ({clone} \ {NoCell})
      /\ Grown(q, p, 2) /\ Grown(b, c, 3) /\ Len(q) \in Nat /\ Len(b) \in Nat
      /\ p[Len(q) + 1] = Record(<<"done", call>>)
      /\ MarkOf(p[Len(q) + 2], {query, tensors})
      /\ c[Len(b) + 1] = Wait(<<"done", call>>)
      /\ c[Len(b) + 2] = Work("convert", <<merged>>, {}, call)
      /\ MarkOf(c[Len(b) + 3], {merged})
  BY <1>1, FinishQueues
<1>3. /\ query # NoCell /\ tensors # NoCell
      /\ clone # NoCell => clone # query
      /\ query \in CallerCells /\ clone \in CallerCells \cup {NoCell}
      /\ tensors \in TransferCells /\ merged \in ComputeCells
  BY <1>2 DEF HostInv, HostTypeOK
<1>4. query \notin free /\ tensors \notin free /\ merged \notin free
  BY <1>2, <1>3, HeldNotFree
<1>5. Held' = {} /\ Given' = {} /\ Given = {query, tensors}
  BY <1>2 DEF Held, Given
<1>6. \A x \in free' : x \in Held \/ x \in free
  BY <1>2 DEF Held
<1>7. Grown(queue["transfer"], t, 0) /\ \A i \in Len(queue["transfer"]) + 1..Len(t) : FALSE
  <2>1. Grown(queue["transfer"], t, 0)
    BY <1>1, <1>2, GrownSame, Names DEF HostTypeOK
  <2> QED
    BY <2>1, EndPlaces
<1>8. /\ \A i \in Len(q) + 1..Len(p) : i = Len(q) + 1 \/ i = Len(q) + 2
      /\ Len(p) = Len(q) + 2 /\ Len(q) + 2 \in Len(q) + 1..Len(p) /\ Len(q) + 2 \in 1..Len(p)
  BY <1>2, EndPlaces
<1>81. PICK n : n = Len(b)
  OBVIOUS
<1>82. n \in Nat /\ Len(c) = n + 3
  BY <1>2, <1>81, EndPlaces
<1>83. /\ \A i \in n + 1..n + 3 : i = n + 1 \/ i = n + 2 \/ i = n + 3
       /\ n + 3 \in 1..n + 3 /\ n + 3 \in (n + 2) + 1..n + 3
  BY ONLY <1>82
<1>84. /\ \A i \in n + 1..Len(c) : i = n + 1 \/ i = n + 2 \/ i = n + 3
       /\ n + 3 \in 1..Len(c) /\ n + 3 \in (n + 2) + 1..Len(c)
  BY <1>82, <1>83
<1>9. /\ p[Len(q) + 1].do = "record" /\ p[Len(q) + 1].reads = <<>>
      /\ p[Len(q) + 2].do = "mark" /\ p[Len(q) + 2].reads = <<>>
      /\ p[Len(q) + 2].writes = {query, tensors}
      /\ c[Len(b) + 1].do = "wait" /\ c[Len(b) + 1].reads = <<>>
      /\ c[Len(b) + 2].do = "convert" /\ c[Len(b) + 2].reads = <<merged>>
      /\ c[Len(b) + 3].do = "mark" /\ c[Len(b) + 3].reads = <<>>
      /\ c[Len(b) + 3].writes = {merged}
  BY <1>2 DEF Record, Wait, Work, MarkOf
<1>10. \A i \in Len(q) + 1..Len(p) : \A x :
         /\ Frees(p, i, x) => x \in {query, tensors} /\ i = Len(p)
         /\ ~Reads(p, i, x)
  <2>1. \A i \in Len(q) + 1..Len(p) : p[i].reads = <<>>
    BY <1>8, <1>9
  <2>2. \A i \in Len(q) + 1..Len(p) : p[i].do = "mark" =>
          i = Len(p) /\ p[i].writes = {query, tensors}
    BY <1>8, <1>9
  <2> QED
    BY <1>2, <2>1, <2>2, EndPlaces
<1>11. \A i \in Len(b) + 1..Len(c) : \A x : Frees(c, i, x) => x \in {merged} /\ i = Len(c)
  <2>1. \A i \in n + 1..Len(c) : c[i].do = "mark" => i = Len(c) /\ c[i].writes = {merged}
    BY <1>81, <1>82, <1>84, <1>9
  <2> QED
    BY <1>2, <1>81, <2>1, EndPlaces
<1>12. \A i \in Len(b) + 1..Len(c) : \A x : Reads(c, i, x) => MarkBehind(c, i, x)
  <2>1. \A i \in n + 1..Len(c) : c[i].reads # <<>> => i = n + 2
    BY <1>81, <1>84, <1>9
  <2>2. \A x : Reads(c, n + 2, x) => x = merged
    <3>1. c[n + 2].reads = <<merged>>
      BY <1>81, <1>9
    <3> QED
      BY <3>1, Short DEF Reads
  <2>3. Frees(c, n + 3, merged)
    BY <1>81, <1>84, <1>9 DEF Frees
  <2>4. MarkBehind(c, n + 2, merged)
    BY <1>84, <2>3 DEF MarkBehind
  <2>5. \A i \in n + 1..Len(c) : \A x : Reads(c, i, x) => i = n + 2 /\ x = merged
    BY <1>2, <2>1, <2>2, EndPlaces
  <2> QED
    BY <1>81, <2>4, <2>5
<1>13. \A x \in Given : \E i \in Len(q) + 1..Len(p) : Frees(p, i, x)
  BY <1>5, <1>8, <1>9 DEF Frees
<1>14. \A x \in {merged} \cup {query, tensors} : x \in Held /\ x \notin free'
  <2>1. query # clone /\ tensors # clone /\ merged # clone
    BY <1>2, <1>3, ConstantsAssumption
  <2> QED
    BY <1>2, <1>3, <1>4, <2>1 DEF Held
<1>15. \A x \in {merged} : x \notin {query, tensors}
  BY <1>3, ConstantsAssumption
<1>16. LetGo(c, t, p, 3, 0, 2, {merged}, {query, tensors})
  BY <1>1, <1>2, <1>5, <1>6, <1>7, <1>10, <1>11, <1>12, <1>13, <1>14, <1>15 DEF LetGo
<1> QED
  BY <1>16, HeldGrows

(* Cells are held or marked as they should in every step. *)
LEMMA HeldInvKept ==
    ASSUME HostTypeOK, HostInv, WorkInv, HeldInv, Next
    PROVE  HeldInv'
BY HeldDecode, HeldNextChunk, HeldQuiet, HeldLoaderRaises, HeldStage, HeldRebind, HeldRunChunk,
   HeldFinish, HeldExecute DEF Next

(***************************************************************************)
(* Fences in every step.                                                   *)
(***************************************************************************)
(* The parts of FenceInv about chunk k, for queues c, t and p.             *)
QueryFence(happened, c, p, k) ==
    Fenced(happened, c, "query", k[1], <<"query", k[1]>>, p, "attend", k)
ReadyFence(happened, t, p, k) ==
    Fenced(happened, t, "stack", k, <<"ready", k>>, p, "attend", k)
DoneFence(happened, p, c, k) ==
    Fenced(happened, p, "attend", k, <<"done", k[1]>>, c, "convert", k[1])
WaitLeft(c, p, m, n) ==
    m # NoCell => \A i \in 1..Len(c) : At(c, i, "query", n) =>
                     \E j \in 1..Len(p) : At(p, j, "wait", <<"query", n>>)

(* FenceInv is their conjunction. *)
LEMMA FenceParts ==
    FenceInv <=> /\ \A k \in Chunks :
                      /\ QueryFence(passed, queue["caller"], queue["compute"], k)
                      /\ ReadyFence(passed, queue["transfer"], queue["compute"], k)
                      /\ DoneFence(passed, queue["compute"], queue["caller"], k)
                 /\ WaitLeft(queue["caller"], queue["compute"], merged, call)
BY DEF FenceInv, QueryFence, ReadyFence, DoneFence, WaitLeft

(* FenceInv after a step. *)
LEMMA FenceTogether ==
    ASSUME NEW c, c = queue'["caller"], NEW t, t = queue'["transfer"],
           NEW p, p = queue'["compute"], NEW e, e = passed', NEW m, m = merged',
           NEW n, n = call',
           \A k \in Chunks : QueryFence(e, c, p, k) /\ ReadyFence(e, t, p, k)
                             /\ DoneFence(e, p, c, k),
           WaitLeft(c, p, m, n)
    PROVE  FenceInv'
<1>1. (\A k \in Chunks :
          /\ QueryFence(passed, queue["caller"], queue["compute"], k)
          /\ ReadyFence(passed, queue["transfer"], queue["compute"], k)
          /\ DoneFence(passed, queue["compute"], queue["caller"], k))'
  BY DEF QueryFence, ReadyFence, DoneFence
<1>2. WaitLeft(queue["caller"], queue["compute"], merged, call)'
  OBVIOUS
<1> QED
  BY <1>1, <1>2, FenceParts, PTL

(* Nothing but queries, stacks, attention and conversions matters to a     *)
(* fence, and conversions that come behind their wait.                     *)
Follows(c, t, p, kc, kt, kp) ==
    /\ c = queue'["caller"] /\ t = queue'["transfer"] /\ p = queue'["compute"]
    /\ Grown(queue["caller"], c, kc) /\ Grown(queue["transfer"], t, kt)
    /\ Grown(queue["compute"], p, kp)
    /\ passed' = passed
    /\ \A i \in Len(queue["caller"]) + 1..Len(c) : c[i].do # "query"
    /\ \A i \in Len(queue["transfer"]) + 1..Len(t) : t[i].do # "stack"
    /\ \A i \in Len(queue["compute"]) + 1..Len(p) : p[i].do # "attend"
    /\ \A i \in Len(queue["caller"]) + 1..Len(c) : \A n : At(c, i, "convert", n) =>
          \E j \in 1..(i - 1) : At(c, j, "wait", <<"done", n>>)
    /\ merged' # NoCell => merged # NoCell /\ call' = call

(* What comes before in a grown queue. *)
LEMMA WaitLeftGrows ==
    ASSUME NEW c, NEW c2, NEW kc, NEW p, NEW p2, NEW kp, NEW m, NEW n,
           Grown(c, c2, kc), Grown(p, p2, kp), WaitLeft(c, p, m, n),
           \A i \in Len(c) + 1..Len(c2) : c2[i].do # "query"
    PROVE  WaitLeft(c2, p2, m, n)
<1> SUFFICES ASSUME m # NoCell, NEW i \in 1..Len(c2), At(c2, i, "query", n)
             PROVE  \E j \in 1..Len(p2) : At(p2, j, "wait", <<"query", n>>)
  BY DEF WaitLeft
<1>1. Len(c) \in Nat /\ Len(c2) \in Nat
  BY DEF Grown
<1>2. i \in 1..Len(c)
  BY <1>1 DEF At
<1>3. At(c, i, "query", n)
  BY <1>2, GrownPlaces
<1>4. PICK j \in 1..Len(p) : At(p, j, "wait", <<"query", n>>)
  BY <1>2, <1>3 DEF WaitLeft
<1> QED
  BY <1>4, GrownPlaces

(* Steps that only add such work keep the fences. *)
LEMMA FencesFollow ==
    ASSUME FenceInv, NEW c, NEW t, NEW p, NEW kc, NEW kt, NEW kp, Follows(c, t, p, kc, kt, kp)
    PROVE  FenceInv'
<1>1. PICK b, s, q, e, m, n : /\ b = queue["caller"] /\ s = queue["transfer"]
                              /\ q = queue["compute"] /\ e = passed' /\ m = merged' /\ n = call'
  OBVIOUS
<1>2. /\ c = queue'["caller"] /\ t = queue'["transfer"] /\ p = queue'["compute"]
      /\ Grown(b, c, kc) /\ Grown(s, t, kt) /\ Grown(q, p, kp) /\ e = passed
      /\ \A i \in Len(b) + 1..Len(c) : c[i].do # "query"
      /\ \A i \in Len(s) + 1..Len(t) : t[i].do # "stack"
      /\ \A i \in Len(q) + 1..Len(p) : p[i].do # "attend"
      /\ \A i \in Len(b) + 1..Len(c) : \A l : At(c, i, "convert", l) =>
            \E j \in 1..(i - 1) : At(c, j, "wait", <<"done", l>>)
      /\ m # NoCell => merged # NoCell /\ n = call
  BY <1>1 DEF Follows
<1>3. /\ \A k \in Chunks : QueryFence(e, b, q, k) /\ ReadyFence(e, s, q, k)
                           /\ DoneFence(e, q, b, k)
      /\ WaitLeft(b, q, merged, call)
  BY <1>1, <1>2, FenceParts
<1>4. ASSUME NEW k \in Chunks PROVE QueryFence(e, c, p, k)
  <2>1. \A i \in Len(b) + 1..Len(c) : ~At(c, i, "query", k[1])
    BY <1>2 DEF At
  <2>2. \A i \in Len(q) + 1..Len(p) : ~At(p, i, "attend", k)
    BY <1>2 DEF At
  <2> QED
    BY <1>2, <1>3, <2>1, <2>2, FenceGrows DEF QueryFence
<1>5. ASSUME NEW k \in Chunks PROVE ReadyFence(e, t, p, k)
  <2>1. \A i \in Len(s) + 1..Len(t) : ~At(t, i, "stack", k)
    BY <1>2 DEF At
  <2>2. \A i \in Len(q) + 1..Len(p) : ~At(p, i, "attend", k)
    BY <1>2 DEF At
  <2> QED
    BY <1>2, <1>3, <2>1, <2>2, FenceGrows DEF ReadyFence
<1>6. ASSUME NEW k \in Chunks PROVE DoneFence(e, p, c, k)
  <2>1. \A i \in Len(q) + 1..Len(p) : ~At(p, i, "attend", k)
    BY <1>2 DEF At
  <2>2. \A i \in Len(b) + 1..Len(c) : At(c, i, "convert", k[1]) =>
            \E j \in 1..(i - 1) : At(c, j, "wait", <<"done", k[1]>>)
    BY <1>2
  <2> QED
    BY <1>2, <1>3, <2>1, <2>2, FenceGrows DEF DoneFence
<1>7. WaitLeft(c, p, m, n)
  <2>1. WaitLeft(b, q, m, n)
    BY <1>2, <1>3 DEF WaitLeft
  <2> QED
    BY <1>2, <2>1, WaitLeftGrows
<1> QED
  BY <1>1, <1>2, <1>4, <1>5, <1>6, <1>7, FenceTogether

(* Work that was not given yet, and events that have not happened. *)
LEMMA NotYet ==
    ASSUME HostTypeOK, HostInv, WorkInv
    PROVE  /\ \A n : n \notin 1..call =>
                /\ <<"query", n>> \notin passed
                /\ \A i : ~At(queue["caller"], i, "query", n)
                /\ \A i : ~At(queue["caller"], i, "record", <<"query", n>>)
                /\ \A i, k : At(queue["compute"], i, "attend", k) => k[1] # n
           /\ \A k : ~Upto(k, StagedSoFar) =>
                /\ <<"ready", k>> \notin passed
                /\ \A i : ~At(queue["transfer"], i, "record", <<"ready", k>>)
           /\ \A k : ~Upto(k, RunSoFar) => \A i : ~At(queue["compute"], i, "attend", k)
           /\ \A n : n \notin 1..ClosedCalls =>
                /\ <<"done", n>> \notin passed
                /\ \A i : ~At(queue["compute"], i, "record", <<"done", n>>)
                /\ \A i : ~At(queue["caller"], i, "convert", n)
<1>1. PICK c, t, p : /\ c = queue["caller"] /\ t = queue["transfer"] /\ p = queue["compute"]
                     /\ \A i \in 1..Len(c) : CallerWork(c[i])
                     /\ \A i \in 1..Len(t) : TransferWork(t[i])
                     /\ \A i \in 1..Len(p) : ComputeWorks(p[i])
  BY DEF WorkInv
<1>2. \A e \in passed :
         \/ \E n \in 1..call : e = <<"query", n>>
         \/ \E n \in 1..ClosedCalls : e = <<"done", n>>
         \/ \E k \in Chunks : Upto(k, StagedSoFar) /\ e \in {<<"own", k>>, <<"ready", k>>}
  BY DEF WorkInv
<1>3. \A n : n \notin 1..call => <<"query", n>> \notin passed
  BY <1>2
<1>4. \A n : n \notin 1..ClosedCalls => <<"done", n>> \notin passed
  BY <1>2
<1>5. \A k : ~Upto(k, StagedSoFar) => <<"ready", k>> \notin passed
  BY <1>2
<1>6. ASSUME NEW n, NEW i, At(c, i, "query", n) PROVE n \in 1..call
  BY <1>1, <1>6 DEF At, CallerWork
<1>7. ASSUME NEW n, NEW i, At(c, i, "record", <<"query", n>>) PROVE n \in 1..call
  BY <1>1, <1>7 DEF At, CallerWork
<1>8. ASSUME NEW k, NEW i, At(p, i, "attend", k) PROVE Upto(k, RunSoFar) /\ k[1] \in 1..call
  <2>1. Upto(k, RunSoFar)
    BY <1>1, <1>8 DEF At, ComputeWorks
  <2>2. k[1] \in 1..call
    BY <2>1 DEF Upto, Chunks, Calls
  <2> QED
    BY <2>1, <2>2
<1>9. ASSUME NEW k, NEW i, At(t, i, "record", <<"ready", k>>) PROVE Upto(k, StagedSoFar)
  BY <1>1, <1>9 DEF At, TransferWork
<1>10. ASSUME NEW n, NEW i, At(p, i, "record", <<"done", n>>) PROVE n \in 1..ClosedCalls
  BY <1>1, <1>10 DEF At, ComputeWorks
<1>11. ASSUME NEW n, NEW i, At(c, i, "convert", n) PROVE n \in 1..ClosedCalls
  BY <1>1, <1>11 DEF At, CallerWork
<1> QED
  BY <1>1, <1>3, <1>4, <1>5, <1>6, <1>7, <1>8, <1>9, <1>10, <1>11

(* Fences when a query is enqueued. *)
LEMMA FenceDecode ==
    ASSUME HostTypeOK, HostInv, WorkInv, FenceInv, \E n \in 1..MaxChunks : Decode(n)
    PROVE  FenceInv'
<1>1. PICK b, s, q, c, t, p, e, m, n :
        /\ b = queue["caller"] /\ s = queue["transfer"] /\ q = queue["compute"]
        /\ c = queue'["caller"] /\ t = queue'["transfer"] /\ p = queue'["compute"]
        /\ e = passed' /\ m = merged' /\ n = call'
  OBVIOUS
<1>2. /\ Grown(b, c, 1) /\ c[Len(b) + 1] = Work("query", <<>>, {query'}, n) /\ n = call + 1
      /\ t = s /\ p = q /\ pc = "idle" /\ e = passed /\ m = merged
  BY <1>1, DecodeQueues
<1>3. merged = NoCell /\ n \notin 1..call
  BY <1>2 DEF HostInv, HostTypeOK
<1>4. \A k \in Chunks : QueryFence(e, b, q, k) /\ ReadyFence(e, s, q, k) /\ DoneFence(e, q, b, k)
  BY <1>1, <1>2, FenceParts
<1>5. \A i \in Len(b) + 1..Len(c) : i = Len(b) + 1 /\ c[i].do = "query" /\ c[i].about = n
  <2>1. \A i \in Len(b) + 1..Len(c) : i = Len(b) + 1
    BY <1>2, EndPlaces
  <2> QED
    BY <1>2, <2>1 DEF Work
<1>6. Grown(q, q, 0) /\ \A i \in Len(q) + 1..Len(q) : FALSE
  <2>1. Grown(q, q, 0)
    BY <1>1, GrownSame, Names DEF HostTypeOK
  <2> QED
    BY <2>1, EndPlaces
<1>7. ASSUME NEW k \in Chunks PROVE QueryFence(e, c, q, k)
  <2>1. CASE k[1] # n
    <3>1. \A i \in Len(b) + 1..Len(c) : ~At(c, i, "query", k[1])
      BY <1>5, <2>1 DEF At
    <3>2. \A i \in Len(q) + 1..Len(q) : ~At(q, i, "attend", k)
      BY <1>6
    <3> QED
      BY <1>2, <1>4, <1>6, <3>1, <3>2, FenceGrows DEF QueryFence
  <2>2. CASE k[1] = n
    <3>1. /\ <<"query", n>> \notin e
          /\ \A i : ~At(b, i, "record", <<"query", n>>)
          /\ \A i : ~At(q, i, "attend", k)
      BY <1>1, <1>2, <1>3, <2>2, NotYet
    <3>2. \A i, j \in Len(b) + 1..Len(c) :
            At(c, i, "query", k[1]) /\ At(c, j, "record", <<"query", k[1]>>) => i < j
      BY <1>5 DEF At
    <3> QED
      BY <1>2, <2>2, <3>1, <3>2, FenceStarts DEF QueryFence
  <2> QED
    BY <2>1, <2>2
<1>8. ASSUME NEW k \in Chunks PROVE DoneFence(e, q, c, k)
  <2>1. \A i \in Len(b) + 1..Len(c) : ~At(c, i, "convert", k[1])
    BY <1>5 DEF At
  <2>2. \A i \in Len(q) + 1..Len(q) : ~At(q, i, "attend", k)
    BY <1>6
  <2> QED
    BY <1>2, <1>4, <1>6, <2>1, <2>2, FenceGrows DEF DoneFence
<1>9. WaitLeft(c, q, m, n)
  BY <1>2, <1>3 DEF WaitLeft
<1> QED
  BY <1>1, <1>2, <1>4, <1>7, <1>8, <1>9, FenceTogether

(* When a chunk is delivered, the loop ends or staging was waited for. *)
LEMMA FenceQuiet ==
    ASSUME HostTypeOK, FenceInv, NextChunk \/ NoMoreChunks \/ StageSync
    PROVE  FenceInv'
<1>1. PICK b, s, q, c, t, p :
        /\ b = queue["caller"] /\ s = queue["transfer"] /\ q = queue["compute"]
        /\ c = queue'["caller"] /\ t = queue'["transfer"] /\ p = queue'["compute"]
  OBVIOUS
<1>2. Grown(b, b, 0) /\ Grown(s, s, 0) /\ Grown(q, q, 0)
  BY <1>1, GrownSame, Names DEF HostTypeOK
<1>3. /\ \A i \in Len(b) + 1..Len(b) : FALSE
      /\ \A i \in Len(s) + 1..Len(s) : FALSE
      /\ \A i \in Len(q) + 1..Len(q) : FALSE
  BY <1>2, EndPlaces
<1>4. CASE NextChunk
  <2>1. /\ direct => /\ Grown(b, c, 1)
                     /\ c[Len(b) + 1] = Work("clone", <<>>, {clone'}, <<call, chunk + 1>>)
        /\ ~direct => c = b
        /\ t = s /\ p = q /\ passed' = passed /\ merged' = merged /\ call' = call
    BY <1>1, <1>4, NextChunkQueues
  <2>2. PICK k : /\ Grown(b, c, k)
                 /\ \A i \in Len(b) + 1..Len(c) : c[i].do = "clone"
    <3>1. CASE direct
      <4>1. \A i \in Len(b) + 1..Len(c) : i = Len(b) + 1
        BY <2>1, <3>1, EndPlaces
      <4>2. \A i \in Len(b) + 1..Len(c) : c[i].do = "clone"
        BY <2>1, <3>1, <4>1 DEF Work
      <4> QED
        BY <2>1, <3>1, <4>2
    <3>2. CASE ~direct
      BY <1>2, <1>3, <2>1, <3>2
    <3> QED
      BY <3>1, <3>2
  <2>3. /\ \A i \in Len(b) + 1..Len(c) : c[i].do # "query"
        /\ \A i \in Len(b) + 1..Len(c) : \A l : ~At(c, i, "convert", l)
    BY <2>2 DEF At
  <2>4. Follows(c, t, p, k, 0, 0)
    BY <1>1, <1>2, <1>3, <2>1, <2>2, <2>3 DEF Follows
  <2> QED
    BY <2>4, FencesFollow
<1>5. CASE NoMoreChunks \/ StageSync
  <2>1. /\ c = b /\ t = s /\ p = q /\ passed' = passed /\ merged' = merged /\ call' = call
    BY <1>1, <1>5, QuietQueues
  <2>2. Follows(c, t, p, 0, 0, 0)
    BY <1>1, <1>2, <1>3, <2>1 DEF Follows
  <2> QED
    BY <2>2, FencesFollow
<1> QED
  BY <1>4, <1>5

(* When the loader raises. *)
LEMMA FenceLoaderRaises ==
    ASSUME HostTypeOK, HostInv, FenceInv, LoaderRaises
    PROVE  FenceInv'
<1>1. PICK b, s, q, c, t, p :
        /\ b = queue["caller"] /\ s = queue["transfer"] /\ q = queue["compute"]
        /\ c = queue'["caller"] /\ t = queue'["transfer"] /\ p = queue'["compute"]
  OBVIOUS
<1>2. Grown(b, b, 0) /\ Grown(s, s, 0) /\ Grown(q, q, 0)
  BY <1>1, GrownSame, Names DEF HostTypeOK
<1>3. /\ \A i \in Len(b) + 1..Len(b) : FALSE
      /\ \A i \in Len(s) + 1..Len(s) : FALSE
      /\ \A i \in Len(q) + 1..Len(q) : FALSE
  BY <1>2, EndPlaces
<1>4. /\ c = b /\ t = s /\ passed' = passed /\ merged' = NoCell
      /\ merged = NoCell => p = q
      /\ merged # NoCell => Grown(q, p, 1) /\ MarkOf(p[Len(q) + 1], {query, tensors})
  BY <1>1, LoaderRaisesQueues
<1>5. PICK k : Grown(q, p, k) /\ \A i \in Len(q) + 1..Len(p) : p[i].do = "mark"
  <2>1. CASE merged = NoCell
    BY <1>2, <1>3, <1>4, <2>1
  <2>2. CASE merged # NoCell
    <3>1. \A i \in Len(q) + 1..Len(p) : i = Len(q) + 1
      BY <1>4, <2>2, EndPlaces
    <3>2. \A i \in Len(q) + 1..Len(p) : p[i].do = "mark"
      BY <1>4, <2>2, <3>1 DEF MarkOf
    <3> QED
      BY <1>4, <2>2, <3>2
  <2> QED
    BY <2>1, <2>2
<1>6. Follows(c, t, p, 0, 0, k)
  BY <1>1, <1>2, <1>3, <1>4, <1>5 DEF Follows
<1> QED
  BY <1>6, FencesFollow

(* When the call ends: the conversion is behind its wait. *)
LEMMA FenceFinish ==
    ASSUME HostTypeOK, HostInv, FenceInv, Finish
    PROVE  FenceInv'
<1>1. PICK b, s, q, c, t, p :
        /\ b = queue["caller"] /\ s = queue["transfer"] /\ q = queue["compute"]
        /\ c = queue'["caller"] /\ t = queue'["transfer"] /\ p = queue'["compute"]
  OBVIOUS
<1>2. /\ t = s /\ passed' = passed /\ merged' = NoCell
      /\ Grown(q, p, 2) /\ Grown(b, c, 3)
      /\ p[Len(q) + 1] = Record(<<"done", call>>)
      /\ MarkOf(p[Len(q) + 2], {query, tensors})
      /\ c[Len(b) + 1] = Wait(<<"done", call>>)
      /\ c[Len(b) + 2] = Work("convert", <<merged>>, {}, call)
      /\ MarkOf(c[Len(b) + 3], {merged})
  BY <1>1, FinishQueues
<1>3. Grown(s, t, 0) /\ \A i \in Len(s) + 1..Len(t) : FALSE
  <2>1. Grown(s, t, 0)
    BY <1>1, <1>2, GrownSame, Names DEF HostTypeOK
  <2> QED
    BY <2>1, EndPlaces
<1>4. \A i \in Len(q) + 1..Len(p) : p[i].do # "attend"
  <2>1. \A i \in Len(q) + 1..Len(p) : i = Len(q) + 1 \/ i = Len(q) + 2
    BY <1>2, EndPlaces
  <2> QED
    BY <1>2, <2>1 DEF MarkOf, Record, Work
<1>5. PICK n : /\ n = Len(b) /\ n \in Nat /\ Len(c) = n + 3
  BY <1>2, EndPlaces
<1>6. /\ \A i \in n + 1..n + 3 : i = n + 1 \/ i = n + 2 \/ i = n + 3
      /\ n + 1 \in 1..n + 3 /\ n + 1 \in 1..((n + 2) - 1)
  BY ONLY <1>5
<1>7. /\ c[n + 1].do = "wait" /\ c[n + 1].about = <<"done", call>>
      /\ c[n + 2].do = "convert" /\ c[n + 2].about = call
      /\ c[n + 3].do = "mark"
  BY <1>2, <1>5 DEF Wait, Work, MarkOf
<1>8. \A i \in Len(b) + 1..Len(c) : c[i].do # "query"
  BY <1>5, <1>6, <1>7
<1>9. ASSUME NEW i \in Len(b) + 1..Len(c), NEW l, At(c, i, "convert", l)
      PROVE  \E j \in 1..(i - 1) : At(c, j, "wait", <<"done", l>>)
  <2>1. c[i].do = "convert" /\ c[i].about = l
    BY <1>9 DEF At
  <2>2. i = n + 2 /\ l = call
    BY <1>5, <1>6, <1>7, <1>9, <2>1
  <2>3. At(c, n + 1, "wait", <<"done", call>>)
    BY <1>5, <1>6, <1>7 DEF At
  <2> QED
    BY <1>6, <2>2, <2>3
<1>10. Follows(c, t, p, 3, 0, 2)
  BY <1>1, <1>2, <1>3, <1>4, <1>8, <1>9 DEF Follows
<1> QED
  BY <1>10, FencesFollow

(* Fences when a chunk is staged. *)
LEMMA FenceStage ==
    ASSUME HostTypeOK, HostInv, WorkInv, FenceInv, Stage
    PROVE  FenceInv'
<1>1. PICK b, s, q, c, t, p, e, m, n, this :
        /\ b = queue["caller"] /\ s = queue["transfer"] /\ q = queue["compute"]
        /\ c = queue'["caller"] /\ t = queue'["transfer"] /\ p = queue'["compute"]
        /\ e = passed' /\ m = merged' /\ n = call' /\ this = This
  OBVIOUS
<1>2. /\ c = b /\ p = q /\ e = passed /\ m = merged /\ n = call /\ pc = "stage"
      /\ direct \in BOOLEAN
  BY <1>1, StageQueues DEF HostTypeOK
<1>3. /\ \A k \in Chunks : QueryFence(e, b, q, k) /\ ReadyFence(e, s, q, k)
                           /\ DoneFence(e, q, b, k)
      /\ WaitLeft(b, q, m, n)
  BY <1>1, <1>2, FenceParts
<1>4. PICK l : /\ Grown(s, t, l)
               /\ \A i \in Len(s) + 1..Len(t) : \A k : At(t, i, "stack", k) => k = this
               /\ \A i, j \in Len(s) + 1..Len(t) : \A k :
                    At(t, i, "stack", k) /\ At(t, j, "record", <<"ready", k>>) => i < j
  <2>1. CASE direct
    <3>1. /\ Grown(s, t, 4)
          /\ t[Len(s) + 1] = Record(<<"own", this>>) /\ t[Len(s) + 2] = Wait(<<"own", this>>)
          /\ t[Len(s) + 3] = Work("stack", <<clone>>, {current'}, this)
          /\ t[Len(s) + 4] = Record(<<"ready", this>>)
      BY <1>1, <2>1, StageQueues
    <3>2. PICK h : h = Len(s) /\ h \in Nat /\ Len(t) = h + 4
      BY <3>1, EndPlaces
    <3>3. \A i \in h + 1..h + 4 : i = h + 1 \/ i = h + 2 \/ i = h + 3 \/ i = h + 4
      BY ONLY <3>2
    <3>4. /\ t[h + 1].do = "record" /\ t[h + 1].about = <<"own", this>> /\ t[h + 2].do = "wait"
          /\ t[h + 3].do = "stack" /\ t[h + 3].about = this /\ t[h + 4].do = "record"
      BY <3>1, <3>2 DEF Record, Wait, Work
    <3>5. \A i \in h + 1..h + 4 : \A k : At(t, i, "stack", k) => i = h + 3 /\ k = this
      BY <3>3, <3>4 DEF At
    <3>6. \A i \in h + 1..h + 4 : \A k : At(t, i, "record", <<"ready", k>>) => i = h + 4
      BY <3>3, <3>4 DEF At
    <3>7. h + 3 < h + 4
      BY ONLY <3>2
    <3> QED
      BY <3>1, <3>2, <3>5, <3>6, <3>7
  <2>2. CASE ~direct
    <3>1. /\ Grown(s, t, 2)
          /\ t[Len(s) + 1] = Work("stack", <<>>, {current'}, this)
          /\ t[Len(s) + 2] = Record(<<"ready", this>>)
      BY <1>1, <2>2, StageQueues
    <3>2. PICK h : h = Len(s) /\ h \in Nat /\ Len(t) = h + 2
      BY <3>1, EndPlaces
    <3>3. \A i \in h + 1..h + 2 : i = h + 1 \/ i = h + 2
      BY ONLY <3>2
    <3>4. t[h + 1].do = "stack" /\ t[h + 1].about = this /\ t[h + 2].do = "record"
      BY <3>1, <3>2 DEF Record, Work
    <3>5. \A i \in h + 1..h + 2 : \A k : At(t, i, "stack", k) => i = h + 1 /\ k = this
      BY <3>3, <3>4 DEF At
    <3>6. \A i \in h + 1..h + 2 : \A k : At(t, i, "record", <<"ready", k>>) => i = h + 2
      BY <3>3, <3>4 DEF At
    <3>7. h + 1 < h + 2
      BY ONLY <3>2
    <3> QED
      BY <3>1, <3>2, <3>5, <3>6, <3>7
  <2> QED
    BY <1>2, <2>1, <2>2
<1>5. Grown(q, q, 0) /\ \A i \in Len(q) + 1..Len(q) : FALSE
  <2>1. Grown(q, q, 0)
    BY <1>1, GrownSame, Names DEF HostTypeOK
  <2> QED
    BY <2>1, EndPlaces
<1>6. ASSUME NEW k \in Chunks PROVE ReadyFence(e, t, q, k)
  <2>1. CASE k # this
    <3>1. \A i \in Len(s) + 1..Len(t) : ~At(t, i, "stack", k)
      BY <1>4, <2>1
    <3>2. \A i \in Len(q) + 1..Len(q) : ~At(q, i, "attend", k)
      BY <1>5
    <3> QED
      BY <1>3, <1>4, <1>5, <3>1, <3>2, FenceGrows DEF ReadyFence
  <2>2. CASE k = this
    <3>1. ~Upto(this, StagedSoFar) /\ ~Upto(this, RunSoFar)
      BY <1>1, <1>2 DEF Upto, StagedSoFar, RunSoFar, This, HostTypeOK
    <3>2. /\ <<"ready", this>> \notin e
          /\ \A i : ~At(s, i, "record", <<"ready", this>>)
      BY <1>1, <1>2, <3>1, NotYet
    <3>3. \A i : ~At(q, i, "attend", this)
      BY <1>1, <3>1, NotYet
    <3> QED
      BY <1>4, <2>2, <3>2, <3>3, FenceStarts DEF ReadyFence
  <2> QED
    BY <2>1, <2>2
<1> QED
  BY <1>1, <1>2, <1>3, <1>6, FenceTogether

(* When the last chunk's tensors are let go. *)
LEMMA FenceRebind ==
    ASSUME HostTypeOK, HostInv, FenceInv, Rebind
    PROVE  FenceInv'
<1>1. PICK b, s, q, c, t, p :
        /\ b = queue["caller"] /\ s = queue["transfer"] /\ q = queue["compute"]
        /\ c = queue'["caller"] /\ t = queue'["transfer"] /\ p = queue'["compute"]
  OBVIOUS
<1>2. Grown(b, b, 0) /\ Grown(s, s, 0) /\ Grown(q, q, 0)
  BY <1>1, GrownSame, Names DEF HostTypeOK
<1>3. /\ \A i \in Len(b) + 1..Len(b) : FALSE
      /\ \A i \in Len(s) + 1..Len(s) : FALSE
      /\ \A i \in Len(q) + 1..Len(q) : FALSE
  BY <1>2, EndPlaces
<1>4. /\ c = b /\ t = s /\ passed' = passed /\ merged' = merged /\ call' = call
      /\ merged = NoCell => p = q
      /\ merged # NoCell => Grown(q, p, 1) /\ MarkOf(p[Len(q) + 1], {tensors})
  BY <1>1, RebindQueues
<1>5. PICK k : Grown(q, p, k) /\ \A i \in Len(q) + 1..Len(p) : p[i].do = "mark"
  <2>1. CASE merged = NoCell
    BY <1>2, <1>3, <1>4, <2>1
  <2>2. CASE merged # NoCell
    <3>1. \A i \in Len(q) + 1..Len(p) : i = Len(q) + 1
      BY <1>4, <2>2, EndPlaces
    <3>2. \A i \in Len(q) + 1..Len(p) : p[i].do = "mark"
      BY <1>4, <2>2, <3>1 DEF MarkOf
    <3> QED
      BY <1>4, <2>2, <3>2
  <2> QED
    BY <2>1, <2>2
<1>6. Follows(c, t, p, 0, 0, k)
  BY <1>1, <1>2, <1>3, <1>4, <1>5 DEF Follows
<1> QED
  BY <1>6, FencesFollow

(* When attention is enqueued, behind its waits. *)
LEMMA FenceRunChunk ==
    ASSUME HostTypeOK, HostInv, WorkInv, HeldInv, FenceInv, RunChunk
    PROVE  FenceInv'
<1>1. PICK b, s, q, c, t, p, e, m, n, this :
        /\ b = queue["caller"] /\ s = queue["transfer"] /\ q = queue["compute"]
        /\ c = queue'["caller"] /\ t = queue'["transfer"] /\ p = queue'["compute"]
        /\ e = passed' /\ m = merged' /\ n = call' /\ this = This
  OBVIOUS
<1>2. /\ t = s /\ e = passed /\ n = call /\ pc = "run"
      /\ chunk = 1 <=> merged = NoCell
  BY <1>1, RunChunkQueues
<1>3. /\ \A k \in Chunks : QueryFence(e, b, q, k) /\ ReadyFence(e, s, q, k)
                           /\ DoneFence(e, q, b, k)
      /\ WaitLeft(b, q, merged, n)
  BY <1>1, <1>2, FenceParts
<1>4. chunk = 1 => /\ Grown(b, c, 1) /\ Grown(q, p, 3)
                   /\ c[Len(b) + 1] = Record(<<"query", n>>)
                   /\ p[Len(q) + 1] = Wait(<<"query", n>>)
                   /\ p[Len(q) + 2] = Wait(<<"ready", this>>)
                   /\ p[Len(q) + 3] = Work("attend", <<query, tensors>>, {m}, this)
  BY <1>1, <1>2, RunChunkQueues
<1>5. chunk # 1 => /\ c = b /\ Grown(q, p, 2)
                   /\ p[Len(q) + 1] = Wait(<<"ready", this>>)
                   /\ p[Len(q) + 2] = Work("attend", <<query, tensors, merged>>, {m}, this)
  BY <1>1, RunChunkQueues
<1>6. PICK h, z : /\ h = Len(q) /\ h \in Nat /\ Len(p) = h + z /\ Grown(q, p, z)
                   /\ z = IF chunk = 1 THEN 3 ELSE 2
  <2>1. CASE chunk = 1
    <3>1. Grown(q, p, 3) /\ Len(q) \in Nat /\ Len(p) = Len(q) + 3
      BY <1>4, <2>1, EndPlaces
    <3> QED
      BY <2>1, <3>1
  <2>2. CASE chunk # 1
    <3>1. Grown(q, p, 2) /\ Len(q) \in Nat /\ Len(p) = Len(q) + 2
      BY <1>5, <2>2, EndPlaces
    <3> QED
      BY <2>2, <3>1
  <2> QED
    BY <2>1, <2>2
<1>7. /\ \A i \in h + 1..h + z : i = h + 1 \/ i = h + 2 \/ (chunk = 1 /\ i = h + 3)
      /\ h + 1 \in 1..h + z /\ h + 2 \in 1..h + z /\ chunk = 1 => h + 3 \in 1..h + z
      /\ h + 1 \in 1..((h + 2) - 1) /\ h + 1 \in 1..((h + 3) - 1) /\ h + 2 \in 1..((h + 3) - 1)
      /\ \A j \in 1..h : j \in 1..((h + 2) - 1)
  <2>1. h \in Nat /\ z = IF chunk = 1 THEN 3 ELSE 2
    BY <1>6
  <2> QED
    BY ONLY <2>1
<1>8. PICK l : /\ Grown(b, c, l) /\ \A i \in Len(b) + 1..Len(c) : c[i].do = "record"
  <2>1. CASE chunk = 1
    <3>1. \A i \in Len(b) + 1..Len(c) : i = Len(b) + 1
      BY <1>4, <2>1, EndPlaces
    <3>2. \A i \in Len(b) + 1..Len(c) : c[i].do = "record"
      BY <1>4, <2>1, <3>1 DEF Record, Work
    <3> QED
      BY <1>4, <2>1, <3>2
  <2>2. CASE chunk # 1
    <3>1. Grown(b, c, 0)
      BY <1>1, <1>5, <2>2, GrownSame, Names DEF HostTypeOK
    <3>2. \A i \in Len(b) + 1..Len(c) : FALSE
      BY <3>1, EndPlaces
    <3> QED
      BY <3>1, <3>2
  <2> QED
    BY <2>1, <2>2
<1>9. Grown(s, s, 0) /\ \A i \in Len(s) + 1..Len(s) : FALSE
  <2>1. Grown(s, s, 0)
    BY <1>1, GrownSame, Names DEF HostTypeOK
  <2> QED
    BY <2>1, EndPlaces
<1>10. this[1] = n
  BY <1>1, <1>2 DEF This
<1>11. \A i \in h + 1..h + z : \A k : At(p, i, "attend", k) => k = this
  <2>1. CASE chunk = 1
    <3>1. /\ p[h + 1].do = "wait" /\ p[h + 2].do = "wait" /\ p[h + 3].about = this
      BY <1>4, <1>6, <2>1 DEF Wait, Work
    <3> QED
      BY <1>7, <3>1 DEF At
  <2>2. CASE chunk # 1
    <3>1. /\ p[h + 1].do = "wait" /\ p[h + 2].about = this
      BY <1>5, <1>6, <2>2 DEF Wait, Work
    <3> QED
      BY <1>7, <2>2, <3>1 DEF At
  <2> QED
    BY <2>1, <2>2
<1>12. ASSUME NEW i \in h + 1..h + z, NEW k, At(p, i, "attend", k)
       PROVE  /\ k = this
              /\ \E j \in 1..(i - 1) : At(p, j, "wait", <<"ready", k>>)
              /\ (\E j \in 1..Len(b) : At(b, j, "query", n)) =>
                    \E j \in 1..(i - 1) : At(p, j, "wait", <<"query", n>>)
  <2>1. p[i].do = "attend" /\ p[i].about = k
    BY <1>12 DEF At
  <2>2. CASE chunk = 1
    <3>1. /\ p[h + 1].do = "wait" /\ p[h + 1].about = <<"query", n>>
          /\ p[h + 2].do = "wait" /\ p[h + 2].about = <<"ready", this>>
          /\ p[h + 3].do = "attend" /\ p[h + 3].about = this
      BY <1>4, <1>6, <2>2 DEF Wait, Work
    <3>2. i = h + 3 /\ k = this
      BY <1>7, <2>1, <3>1
    <3>3. At(p, h + 1, "wait", <<"query", n>>) /\ At(p, h + 2, "wait", <<"ready", this>>)
      BY <1>6, <1>7, <2>2, <3>1 DEF At
    <3> QED
      BY <1>7, <3>2, <3>3
  <2>3. CASE chunk # 1
    <3>1. /\ p[h + 1].do = "wait" /\ p[h + 1].about = <<"ready", this>>
          /\ p[h + 2].do = "attend" /\ p[h + 2].about = this
      BY <1>5, <1>6, <2>3 DEF Wait, Work
    <3>2. i = h + 2 /\ k = this
      BY <1>7, <2>1, <2>3, <3>1
    <3>3. At(p, h + 1, "wait", <<"ready", this>>)
      BY <1>6, <1>7, <3>1 DEF At
    <3>4. ASSUME NEW j \in 1..Len(b), At(b, j, "query", n)
          PROVE  \E r \in 1..(i - 1) : At(p, r, "wait", <<"query", n>>)
      <4>1. PICK r \in 1..Len(q) : At(q, r, "wait", <<"query", n>>)
        BY <1>2, <1>3, <2>3, <3>4 DEF WaitLeft
      <4>2. At(p, r, "wait", <<"query", n>>)
        BY <1>6, <4>1, GrownPlaces
      <4> QED
        BY <1>6, <1>7, <3>2, <4>1, <4>2
    <3> QED
      BY <1>7, <3>2, <3>3, <3>4
  <2> QED
    BY <2>2, <2>3
<1>13. ASSUME NEW k \in Chunks PROVE QueryFence(e, c, p, k)
  <2>1. \A i \in Len(b) + 1..Len(c) : ~At(c, i, "query", k[1])
    BY <1>8 DEF At
  <2>2. \A i \in Len(q) + 1..Len(p) :
          At(p, i, "attend", k) /\ (\E j \in 1..Len(b) : At(b, j, "query", k[1])) =>
            \E j \in 1..(i - 1) : At(p, j, "wait", <<"query", k[1]>>)
    <3> SUFFICES ASSUME NEW i \in Len(q) + 1..Len(p), At(p, i, "attend", k),
                        NEW j \in 1..Len(b), At(b, j, "query", k[1])
                 PROVE  \E r \in 1..(i - 1) : At(p, r, "wait", <<"query", k[1]>>)
      OBVIOUS
    <3>1. i \in h + 1..h + z
      BY <1>6
    <3>2. k[1] = n
      BY <1>10, <1>11, <3>1
    <3> QED
      BY <1>12, <3>1, <3>2
  <2> QED
    BY <1>6, <1>3, <1>8, <2>1, <2>2, FenceGrows DEF QueryFence
<1>14. ASSUME NEW k \in Chunks PROVE ReadyFence(e, s, p, k)
  <2>1. \A i \in Len(s) + 1..Len(s) : ~At(s, i, "stack", k)
    BY <1>9
  <2>2. \A i \in Len(q) + 1..Len(p) : At(p, i, "attend", k) =>
            \E j \in 1..(i - 1) : At(p, j, "wait", <<"ready", k>>)
    BY <1>6, <1>12
  <2> QED
    BY <1>6, <1>3, <1>9, <2>1, <2>2, FenceGrows DEF ReadyFence
<1>15. ASSUME NEW k \in Chunks PROVE DoneFence(e, p, c, k)
  <2>1. \A i \in Len(b) + 1..Len(c) : \A j : ~At(c, i, "convert", j)
    BY <1>8 DEF At
  <2>2. CASE k # this
    <3>1. ASSUME NEW i \in Len(q) + 1..Len(p), At(p, i, "attend", k) PROVE FALSE
      <4>1. i \in h + 1..h + z
        BY <1>6
      <4> QED
        BY <1>11, <2>2, <3>1, <4>1
    <3> QED
      BY <1>6, <1>3, <1>8, <2>1, <3>1, FenceGrows DEF DoneFence
  <2>3. CASE k = this
    <3>1. n \notin 1..ClosedCalls
      BY <1>2 DEF ClosedCalls, HostTypeOK
    <3>2. /\ <<"done", n>> \notin e
          /\ \A i : ~At(q, i, "record", <<"done", n>>)
          /\ \A i : ~At(b, i, "convert", n)
      BY <1>1, <1>2, <3>1, NotYet
    <3>3. \A i : ~At(c, i, "convert", n)
      <4> SUFFICES ASSUME NEW i, At(c, i, "convert", n) PROVE FALSE
        OBVIOUS
      <4>1. CASE i \in 1..Len(b)
        BY <1>8, <3>2, <4>1, GrownPlaces
      <4>2. CASE i \notin 1..Len(b)
        <5>1. i \in 1..Len(c) /\ Len(b) \in Nat /\ Len(c) \in Nat
          BY <1>8, EndPlaces DEF At
        <5>2. i \in Len(b) + 1..Len(c)
          BY <4>2, <5>1
        <5> QED
          BY <2>1, <5>2
      <4> QED
        BY <4>1, <4>2
    <3>4. \A i, j \in Len(q) + 1..Len(p) :
            At(p, i, "attend", this) /\ At(p, j, "record", <<"done", n>>) => i < j
      <4>1. \A j \in h + 1..h + z : p[j].do # "record"
        <5>1. CASE chunk = 1
          BY <1>4, <1>6, <1>7, <5>1 DEF Wait, Work
        <5>2. CASE chunk # 1
          BY <1>5, <1>6, <1>7, <5>2 DEF Wait, Work
        <5> QED
          BY <5>1, <5>2
      <4> QED
        BY <1>6, <4>1 DEF At
    <3> QED
      BY <1>6, <1>10, <2>3, <3>2, <3>3, <3>4, FenceStarts DEF DoneFence
  <2> QED
    BY <2>2, <2>3
<1>16. WaitLeft(c, p, m, n)
  <2>1. CASE chunk = 1
    <3>1. At(p, h + 1, "wait", <<"query", n>>)
      BY <1>4, <1>6, <1>7, <2>1 DEF At, Wait, Work
    <3> QED
      BY <1>6, <1>7, <3>1 DEF WaitLeft
  <2>2. CASE chunk # 1
    <3>1. WaitLeft(b, q, m, n)
      BY <1>2, <1>3, <2>2 DEF WaitLeft
    <3>2. \A i \in Len(b) + 1..Len(c) : c[i].do # "query"
      BY <1>8
    <3> QED
      BY <1>6, <1>8, <3>1, <3>2, WaitLeftGrows
  <2> QED
    BY <2>1, <2>2
<1> QED
  BY <1>1, <1>2, <1>13, <1>14, <1>15, <1>16, FenceTogether

(* Which events a stream records. *)
LEMMA Recorders ==
    ASSUME WorkInv, HostTypeOK, NEW s \in Streams, 1 \in 1..Len(queue[s]),
           queue[s][1].do = "record"
    PROVE  /\ \A n : queue[s][1].about = <<"query", n>> => s = "caller"
           /\ \A k : queue[s][1].about = <<"ready", k>> => s = "transfer"
           /\ \A n : queue[s][1].about = <<"done", n>> => s = "compute"
BY Names DEF WorkInv, CallerWork, TransferWork, ComputeWorks

(* Fences when a stream does its first work. *)
LEMMA FenceExecute ==
    ASSUME HostTypeOK, HostInv, WorkInv, FenceInv, NEW s \in Streams, Execute(s)
    PROVE  FenceInv'
<1>1. PICK b, u, q, c, t, p, e, m, n, op :
        /\ b = queue["caller"] /\ u = queue["transfer"] /\ q = queue["compute"]
        /\ c = queue'["caller"] /\ t = queue'["transfer"] /\ p = queue'["compute"]
        /\ e = passed' /\ m = merged' /\ n = call' /\ op = queue[s][1]
  OBVIOUS
<1>2. /\ s = "caller"   => Shrunk(b, c) /\ op = b[1] /\ 1 \in 1..Len(b)
      /\ s = "transfer" => Shrunk(u, t) /\ op = u[1] /\ 1 \in 1..Len(u)
      /\ s = "compute"  => Shrunk(q, p) /\ op = q[1] /\ 1 \in 1..Len(q)
      /\ s # "caller" => c = b
      /\ s # "transfer" => t = u
      /\ s # "compute" => p = q
  BY <1>1, ExecuteQueues, Names
<1>3. /\ m = merged /\ n = call
      /\ op.do = "wait" => op.about \in passed
      /\ 1 \in 1..Len(queue[s])
  BY <1>1, ExecuteQueues DEF hostVars
<1>4. \A v : v \in e => v \in passed \/ (op.do = "record" /\ v = op.about)
  <2>1. e = CASE op.do = "record" -> passed \cup {op.about}
              [] op.do = "wait"   -> passed \ {op.about}
              [] OTHER            -> passed
    BY <1>1, ExecuteQueues
  <2>2. CASE op.do = "record"
    BY <2>1, <2>2
  <2>3. CASE op.do = "wait"
    BY <2>1, <2>3
  <2>4. CASE op.do # "record" /\ op.do # "wait"
    BY <2>1, <2>4
  <2> QED
    BY <2>2, <2>3, <2>4
<1>5. /\ \A k \in Chunks : QueryFence(passed, b, q, k) /\ ReadyFence(passed, u, q, k)
                           /\ DoneFence(passed, q, b, k)
      /\ WaitLeft(b, q, merged, call)
  BY <1>1, FenceParts
<1>6. \A r : ~Shrunk(r, r)
  BY DEF Shrunk
<1>7. op.do = "record" =>
        /\ \A k : op.about = <<"query", k>> => s = "caller"
        /\ \A k : op.about = <<"ready", k>> => s = "transfer"
        /\ \A k : op.about = <<"done", k>> => s = "compute"
  BY <1>1, <1>3, Recorders
<1>8. /\ c = b \/ Shrunk(b, c)
      /\ t = u \/ Shrunk(u, t)
      /\ p = q \/ Shrunk(q, p)
  BY <1>2, Names
<1>9. \A v : Shrunk(q, p) /\ At(q, 1, "wait", v) => v \in passed
  BY <1>2, <1>3, <1>6 DEF At
<1>10. \A v : Shrunk(b, c) /\ At(b, 1, "wait", v) => v \in passed
  BY <1>2, <1>3, <1>6 DEF At
<1>11. ASSUME NEW k \in Chunks PROVE QueryFence(e, c, p, k)
  <2>1. <<"query", k[1]>> \in e => \/ <<"query", k[1]>> \in passed
                                   \/ Shrunk(b, c) /\ At(b, 1, "record", <<"query", k[1]>>)
    BY <1>2, <1>4, <1>7 DEF At
  <2> QED
    BY <1>5, <1>8, <1>9, <2>1, FencePops DEF QueryFence
<1>12. ASSUME NEW k \in Chunks PROVE ReadyFence(e, t, p, k)
  <2>1. <<"ready", k>> \in e => \/ <<"ready", k>> \in passed
                                \/ Shrunk(u, t) /\ At(u, 1, "record", <<"ready", k>>)
    BY <1>2, <1>4, <1>7 DEF At
  <2> QED
    BY <1>5, <1>8, <1>9, <2>1, FencePops DEF ReadyFence
<1>13. ASSUME NEW k \in Chunks PROVE DoneFence(e, p, c, k)
  <2>1. <<"done", k[1]>> \in e => \/ <<"done", k[1]>> \in passed
                                  \/ Shrunk(q, p) /\ At(q, 1, "record", <<"done", k[1]>>)
    BY <1>2, <1>4, <1>7 DEF At
  <2> QED
    BY <1>5, <1>8, <1>10, <2>1, FencePops DEF DoneFence
<1>14. WaitLeft(c, p, m, n)
  <2> SUFFICES ASSUME m # NoCell, NEW i \in 1..Len(c), At(c, i, "query", n)
               PROVE  \E j \in 1..Len(p) : At(p, j, "wait", <<"query", n>>)
    BY DEF WaitLeft
  <2>1. PICK h \in 1..Len(b) : At(b, h, "query", n)
    <3>1. CASE c = b
      BY <3>1
    <3>2. CASE Shrunk(b, c)
      <4>1. At(b, i + 1, "query", n) /\ i + 1 \in 1..Len(b)
        BY <3>2, ShrunkPlaces
      <4> QED
        BY <4>1
    <3> QED
      BY <1>8, <3>1, <3>2
  <2>2. PICK j \in 1..Len(q) : At(q, j, "wait", <<"query", n>>)
    BY <1>3, <1>5, <2>1 DEF WaitLeft
  <2>3. CASE p = q
    BY <2>2, <2>3
  <2>4. CASE Shrunk(q, p)
    <3>1. j # 1
      <4>1. <<n, 1>> \in Chunks
        <5>1. n \in 1..MaxCalls
          BY <1>3, ConstantsAssumption DEF HostInv, HostTypeOK
        <5>2. 1 \in 1..MaxChunks
          BY <1>3, ConstantsAssumption DEF HostInv, HostTypeOK
        <5> QED
          BY <5>1, <5>2 DEF Chunks, Calls
      <4>2. <<"query", n>> \notin passed
        BY <1>5, <2>1, <4>1 DEF QueryFence, Fenced
      <4> QED
        BY <1>9, <2>2, <2>4, <4>2
    <3>2. PICK l \in Nat : l + 1 = j /\ l \in 1..Len(p)
      <4>1. Len(q) \in Nat /\ Len(p) = Len(q) - 1
        BY <2>4 DEF Shrunk
      <4>2. j - 1 \in Nat /\ (j - 1) + 1 = j /\ j - 1 \in 1..Len(p)
        BY <3>1, <4>1
      <4> QED
        BY <4>2
    <3>3. At(p, l, "wait", <<"query", n>>)
      BY <2>2, <2>4, <3>2, ShrunkPlaces
    <3> QED
      BY <3>2, <3>3
  <2> QED
    BY <1>8, <2>3, <2>4
<1> QED
  BY <1>1, <1>11, <1>12, <1>13, <1>14, FenceTogether

(* Work stays behind its fences in every step. *)
LEMMA FenceInvKept ==
    ASSUME HostTypeOK, HostInv, WorkInv, HeldInv, FenceInv, Next
    PROVE  FenceInv'
BY FenceDecode, FenceQuiet, FenceLoaderRaises, FenceFinish, FenceStage, FenceRebind, FenceRunChunk,
   FenceExecute DEF Next

(***************************************************************************)
(* What the cells hold in every step.                                      *)
(***************************************************************************)
(* DataInv for rigid memory, queues, frame and results. *)
DataFor(g, c, t, p, q, cur, m, n, h, run, total, res) ==
    /\ q # NoCell => QueryIn(g, c, q, n)
    /\ cur # NoCell => StackIn(g, t, cur, <<n, h>>)
    /\ m # NoCell => MergeIn(g, p, m, n, run, Len(p))
    /\ \A i \in 1..Len(p) : p[i].do = "attend" => AttendIn(g, c, t, p, p[i], i)
    /\ \A i \in 1..Len(c) : c[i].do = "convert" => ConvertIn(g, p, c[i], n, total)
    /\ res \in [Calls -> Seq(Queries \X Staged)]
    /\ \A i \in Calls : ResultIn(res[i], i, n, total)

(* It is DataInv when they are those of the state. *)
LEMMA DataParts ==
    DataInv <=> DataFor(mem, queue["caller"], queue["transfer"], queue["compute"], query,
                        StagedCell, merged, call, chunk, RunSoFar, chunks, result)
BY DEF DataInv, DataFor

(* Names for the state after a step. *)
After(g, c, t, p, q, cur, m, n, h, run, total, res) ==
    /\ g = mem' /\ c = queue'["caller"] /\ t = queue'["transfer"] /\ p = queue'["compute"]
    /\ q = query' /\ cur = StagedCell' /\ m = merged' /\ n = call' /\ h = chunk'
    /\ run = RunSoFar' /\ total = chunks' /\ res = result'

(* DataInv after a step. *)
LEMMA DataTogether ==
    ASSUME NEW g, NEW c, NEW t, NEW p, NEW q, NEW cur, NEW m, NEW n, NEW h, NEW run,
           NEW total, NEW res, After(g, c, t, p, q, cur, m, n, h, run, total, res),
           DataFor(g, c, t, p, q, cur, m, n, h, run, total, res)
    PROVE  DataInv'
<1>1. DataFor(mem, queue["caller"], queue["transfer"], queue["compute"], query,
              StagedCell, merged, call, chunk, RunSoFar, chunks, result)'
  BY DEF After
<1> QED
  BY <1>1, DataParts, PTL

(* Cells that new work may write. *)
Fresh == free \cup ({clone} \ {NoCell})

(* What is held or still read, of other streams' cells, is not among them. *)
LEMMA NotFresh ==
    ASSUME HostTypeOK, HostInv, WorkInv, HeldInv
    PROVE  /\ query # NoCell => query \notin Fresh
           /\ StagedCell # NoCell => StagedCell \notin Fresh
           /\ merged # NoCell => merged \notin Fresh
           /\ \A i \in 1..Len(queue["compute"]) : queue["compute"][i].do = "attend" =>
                queue["compute"][i].reads[1] \notin Fresh
                  /\ queue["compute"][i].reads[2] \notin Fresh
           /\ \A i \in 1..Len(queue["caller"]) : queue["caller"][i].do = "convert" =>
                queue["caller"][i].reads[1] \notin Fresh
<1>1. /\ query # NoCell => query \notin free
      /\ StagedCell # NoCell => StagedCell \notin free
      /\ merged # NoCell => merged \notin free
      /\ clone # NoCell => clone # query
      /\ query \in CallerCells \cup {NoCell} /\ clone \in CallerCells \cup {NoCell}
      /\ tensors \in TransferCells \cup {NoCell} /\ StagedCell \in TransferCells \cup {NoCell}
      /\ merged \in ComputeCells \cup {NoCell}
  BY HeldNotFree DEF HostInv, HostTypeOK, StagedCell
<1>2. /\ query # NoCell => query \notin Fresh
      /\ StagedCell # NoCell => StagedCell \notin Fresh
      /\ merged # NoCell => merged \notin Fresh
  BY <1>1, ConstantsAssumption DEF Fresh
<1>3. /\ MarkedOnce(queue, Held, free)
      /\ ReadsHeld(queue["compute"], Given) /\ ReadsMarked(queue["caller"])
      /\ \A x \in Held : x \notin free
  BY HeldParts
<1>4. PICK c, p : c = queue["caller"] /\ p = queue["compute"]
  OBVIOUS
<1>5. IsSeq(c) /\ IsSeq(p)
  BY <1>4, Names DEF HostTypeOK
<1>6. /\ \A i \in 1..Len(c) : \A x \in Cells : Frees(c, i, x) => x \notin free /\ x \notin Held
      /\ \A i \in 1..Len(p) : \A x \in Cells : Frees(p, i, x) => x \notin free /\ x \notin Held
  BY <1>3, <1>4, Names DEF MarkedOnce
<1>7. ASSUME NEW x \in Cells, x \notin free, x \notin Held PROVE x \notin Fresh
  BY <1>7 DEF Fresh, Held
<1>8. ASSUME NEW q, q \in {c, p}, NEW i \in 1..Len(q), NEW x \in Cells, MarkBehind(q, i, x)
      PROVE  x \notin Fresh
  <2>1. PICK j \in (i + 1)..Len(q) : Frees(q, j, x)
    BY <1>8 DEF MarkBehind
  <2>2. j \in 1..Len(q)
    BY <2>1 DEF Frees
  <2> QED
    BY <1>6, <1>7, <1>8, <2>1, <2>2
<1>9. ASSUME NEW i \in 1..Len(p), NEW x \in CallerCells \cup TransferCells, Reads(p, i, x)
      PROVE  x \notin Fresh
  <2>1. x \in Given \/ MarkBehind(p, i, x)
    BY <1>3, <1>4, <1>9 DEF ReadsHeld
  <2>2. CASE MarkBehind(p, i, x)
    BY <1>8, <2>2, Names
  <2>3. CASE x \in Given
    <3>1. x = query \/ x = tensors
      BY <2>3 DEF Given
    <3>2. x # NoCell
      BY Names, <1>9
    <3>3. x \in Held /\ x # clone
      BY <1>1, <1>9, <3>1, <3>2, ConstantsAssumption DEF Held
    <3> QED
      BY <1>3, <3>3 DEF Fresh
  <2> QED
    BY <2>1, <2>2, <2>3
<1>10. ASSUME NEW i \in 1..Len(c), NEW x \in ComputeCells, Reads(c, i, x)
       PROVE  x \notin Fresh
  <2>1. MarkBehind(c, i, x)
    BY <1>3, <1>4, <1>10 DEF ReadsMarked
  <2> QED
    BY <1>8, <2>1, Names
<1>11. ASSUME NEW i \in 1..Len(p), p[i].do = "attend"
       PROVE  p[i].reads[1] \notin Fresh /\ p[i].reads[2] \notin Fresh
  <2>1. PICK op : op = p[i]
    OBVIOUS
  <2>2. ComputeWorks(op)
    BY <1>4, <2>1 DEF WorkInv
  <2>3. PICK q \in CallerCells, t \in TransferCells :
          op.reads = <<q, t>> \/ \E m \in ComputeCells : op.reads = <<q, t, m>>
    BY <1>11, <2>1, <2>2 DEF ComputeWorks
  <2>4. Len(op.reads) \in Nat /\ Len(op.reads) >= 2 /\ op.reads[1] = q /\ op.reads[2] = t
    <3>1. CASE op.reads = <<q, t>>
      BY <3>1
    <3>2. CASE \E m \in ComputeCells : op.reads = <<q, t, m>>
      <4>1. PICK m : op.reads = <<q, t, m>>
        BY <3>2
      <4> QED
        BY <4>1
    <3> QED
      BY <2>3, <3>1, <3>2
  <2>5. Reads(p, i, q) /\ Reads(p, i, t)
    BY <2>1, <2>4 DEF Reads
  <2> QED
    BY <1>9, <2>1, <2>4, <2>5
<1>12. ASSUME NEW i \in 1..Len(c), c[i].do = "convert"
       PROVE  c[i].reads[1] \notin Fresh
  <2>1. PICK op : op = c[i]
    OBVIOUS
  <2>2. CallerWork(op)
    BY <1>4, <2>1 DEF WorkInv
  <2>3. PICK x \in ComputeCells : op.reads = <<x>>
    BY <1>12, <2>1, <2>2 DEF CallerWork
  <2>4. Len(op.reads) = 1 /\ op.reads[1] = x
    BY <2>3, Short
  <2>5. Reads(c, i, x)
    BY <2>1, <2>4 DEF Reads
  <2> QED
    BY <1>10, <2>1, <2>4, <2>5
<1> QED
  BY <1>2, <1>4, <1>11, <1>12

(* New work does not write the cell. *)
LEMMA HereEnds ==
    ASSUME NEW v, NEW q, NEW q2, NEW k, NEW x, NEW do, NEW about, NEW values,
           Grown(q, q2, k), Here(v, q, Len(q), x, do, about, values),
           \A i \in Len(q) + 1..Len(q2) : ~Writes(q2, i, x), NEW m \in Len(q)..Len(q2)
    PROVE  Here(v, q2, m, x, do, about, values)
<1>1. Len(q) \in Nat /\ Len(q2) \in Nat
  BY DEF Grown
<1>2. Len(q) \in 0..Len(q) /\ \A i \in Len(q) + 1..m : i \in Len(q) + 1..Len(q2)
  BY <1>1
<1> QED
  BY <1>2, HereGrows

(* Work before a place stays. *)
LEMMA HereBefore ==
    ASSUME NEW v, NEW q, NEW q2, NEW k, NEW x, NEW do, NEW about, NEW values,
           Grown(q, q2, k), NEW n \in 0..Len(q), Here(v, q, n, x, do, about, values)
    PROVE  Here(v, q2, n, x, do, about, values)
<1>1. Len(q) \in Nat /\ Len(q2) \in Nat /\ Len(q) <= Len(q2)
  BY DEF Grown
<1>2. n \in n..Len(q2) /\ \A i \in n + 1..n : FALSE
  BY <1>1
<1> QED
  BY <1>2, HereGrows

(* New work only writes fresh cells. *)
WritesFresh(c, t, p, kc, kt, kp) ==
    /\ c = queue'["caller"] /\ t = queue'["transfer"] /\ p = queue'["compute"]
    /\ Grown(queue["caller"], c, kc) /\ Grown(queue["transfer"], t, kt)
    /\ Grown(queue["compute"], p, kp)
    /\ \A i \in Len(queue["caller"]) + 1..Len(c) : \A x : Writes(c, i, x) => x \in Fresh
    /\ \A i \in Len(queue["transfer"]) + 1..Len(t) : \A x : Writes(t, i, x) => x \in Fresh
    /\ \A i \in Len(queue["compute"]) + 1..Len(p) : \A x : Writes(p, i, x) => x \in Fresh

(* Then the work and the cells there were are as they should be. *)
LEMMA DataGrows ==
    ASSUME HostTypeOK, HostInv, WorkInv, HeldInv, DataInv,
           NEW c, NEW t, NEW p, NEW kc, NEW kt, NEW kp, WritesFresh(c, t, p, kc, kt, kp)
    PROVE  /\ query # NoCell => QueryIn(mem, c, query, call)
           /\ StagedCell # NoCell => StackIn(mem, t, StagedCell, <<call, chunk>>)
           /\ merged # NoCell => \A i \in Len(queue["compute"])..Len(p) :
                                    MergeIn(mem, p, merged, call, RunSoFar, i)
           /\ \A i \in 1..Len(queue["compute"]) : p[i].do = "attend" =>
                 AttendIn(mem, c, t, p, p[i], i)
           /\ \A i \in 1..Len(queue["caller"]) : c[i].do = "convert" =>
                 ConvertIn(mem, p, c[i], call, chunks)
<1>1. PICK b, s, q : b = queue["caller"] /\ s = queue["transfer"] /\ q = queue["compute"]
  OBVIOUS
<1>2. /\ Grown(b, c, kc) /\ Grown(s, t, kt) /\ Grown(q, p, kp)
      /\ \A i \in Len(b) + 1..Len(c) : \A x : Writes(c, i, x) => x \in Fresh
      /\ \A i \in Len(s) + 1..Len(t) : \A x : Writes(t, i, x) => x \in Fresh
      /\ \A i \in Len(q) + 1..Len(p) : \A x : Writes(p, i, x) => x \in Fresh
  BY <1>1 DEF WritesFresh
<1>3. /\ Len(b) \in Nat /\ Len(c) \in Nat /\ Len(s) \in Nat /\ Len(t) \in Nat
      /\ Len(q) \in Nat /\ Len(p) \in Nat
      /\ Len(c) \in Len(b)..Len(c) /\ Len(t) \in Len(s)..Len(t) /\ Len(p) \in Len(q)..Len(p)
  BY <1>2 DEF Grown
<1>4. /\ query # NoCell => QueryIn(mem, b, query, call)
      /\ StagedCell # NoCell => StackIn(mem, s, StagedCell, <<call, chunk>>)
      /\ merged # NoCell => MergeIn(mem, q, merged, call, RunSoFar, Len(q))
      /\ \A i \in 1..Len(q) : q[i].do = "attend" => AttendIn(mem, b, s, q, q[i], i)
      /\ \A i \in 1..Len(b) : b[i].do = "convert" => ConvertIn(mem, q, b[i], call, chunks)
  BY <1>1 DEF DataInv
<1>5. /\ query # NoCell => query \notin Fresh
      /\ StagedCell # NoCell => StagedCell \notin Fresh
      /\ merged # NoCell => merged \notin Fresh
      /\ \A i \in 1..Len(q) : q[i].do = "attend" =>
           q[i].reads[1] \notin Fresh /\ q[i].reads[2] \notin Fresh
      /\ \A i \in 1..Len(b) : b[i].do = "convert" => b[i].reads[1] \notin Fresh
  BY <1>1, NotFresh
<1>6. ASSUME NEW x, x \notin Fresh, NEW n, QueryIn(mem, b, x, n) PROVE QueryIn(mem, c, x, n)
  <2>1. \A i \in Len(b) + 1..Len(c) : ~Writes(c, i, x)
    BY <1>2, <1>6
  <2> QED
    BY <1>2, <1>3, <1>6, <2>1, HereEnds DEF QueryIn
<1>7. ASSUME NEW x, x \notin Fresh, NEW k, StackIn(mem, s, x, k) PROVE StackIn(mem, t, x, k)
  <2>1. \A i \in Len(s) + 1..Len(t) : ~Writes(t, i, x)
    BY <1>2, <1>7
  <2> QED
    BY <1>2, <1>3, <1>7, <2>1, HereEnds DEF StackIn
<1>8. ASSUME NEW x, x \notin Fresh, NEW n, NEW h, MergeIn(mem, q, x, n, h, Len(q)),
             NEW i \in Len(q)..Len(p)
      PROVE  MergeIn(mem, p, x, n, h, i)
  <2>1. \A j \in Len(q) + 1..Len(p) : ~Writes(p, j, x)
    BY <1>2, <1>8
  <2> QED
    BY <1>2, <1>3, <1>8, <2>1, HereEnds DEF MergeIn
<1>9. ASSUME NEW i \in 1..Len(q), p[i].do = "attend" PROVE AttendIn(mem, c, t, p, p[i], i)
  <2>1. PICK op : op = q[i] /\ p[i] = op
    BY <1>2, GrownPlaces
  <2>2. AttendIn(mem, b, s, q, op, i) /\ op.reads[1] \notin Fresh /\ op.reads[2] \notin Fresh
    BY <1>4, <1>5, <1>9, <2>1
  <2>3. QueryIn(mem, c, op.reads[1], op.about[1]) /\ StackIn(mem, t, op.reads[2], op.about)
    BY <1>6, <1>7, <2>2 DEF AttendIn
  <2>4. ASSUME op.about[2] > 1
        PROVE  MergeIn(mem, p, op.reads[3], op.about[1], op.about[2] - 1, i - 1)
    <3>1. i - 1 \in 0..Len(q)
      BY <1>3
    <3>2. MergeIn(mem, q, op.reads[3], op.about[1], op.about[2] - 1, i - 1)
      BY <2>2, <2>4 DEF AttendIn
    <3> QED
      BY <1>2, <3>1, <3>2, HereBefore DEF MergeIn
  <2> QED
    BY <2>1, <2>3, <2>4 DEF AttendIn
<1>10. ASSUME NEW i \in 1..Len(b), c[i].do = "convert" PROVE ConvertIn(mem, p, c[i], call, chunks)
  <2>1. PICK op : op = b[i] /\ c[i] = op
    BY <1>2, GrownPlaces
  <2>2. ConvertIn(mem, q, op, call, chunks) /\ op.reads[1] \notin Fresh
    BY <1>4, <1>5, <1>10, <2>1
  <2>3. PICK h \in 1..MaxChunks : /\ MergeIn(mem, q, op.reads[1], op.about, h, Len(q))
                                  /\ op.about = call => h = chunks
    BY <2>2 DEF ConvertIn
  <2>4. MergeIn(mem, p, op.reads[1], op.about, h, Len(p))
    BY <1>3, <1>8, <2>2, <2>3
  <2> QED
    BY <2>1, <2>3, <2>4 DEF ConvertIn
<1> QED
  BY <1>1, <1>4, <1>5, <1>6, <1>7, <1>8, <1>9, <1>10

(* A step of the Python thread: the cells of the frame and new work are as *)
(* they should be.                                                         *)
LEMMA DataHost ==
    ASSUME HostTypeOK, HostInv, WorkInv, HeldInv, DataInv,
           NEW c, NEW t, NEW p, NEW kc, NEW kt, NEW kp, WritesFresh(c, t, p, kc, kt, kp),
           NEW q, NEW cur, NEW m, NEW n, NEW h, NEW run, NEW total,
           After(mem, c, t, p, q, cur, m, n, h, run, total, result),
           q # NoCell => QueryIn(mem, c, q, n),
           cur # NoCell => StackIn(mem, t, cur, <<n, h>>),
           m # NoCell => MergeIn(mem, p, m, n, run, Len(p)),
           \A i \in Len(queue["compute"]) + 1..Len(p) : p[i].do = "attend" =>
               AttendIn(mem, c, t, p, p[i], i),
           \A i \in Len(queue["caller"]) + 1..Len(c) : c[i].do = "convert" =>
               ConvertIn(mem, p, c[i], n, total),
           (n = call /\ total = chunks) \/ n = call + 1
    PROVE  DataInv'
<1>1. PICK b, s : b = queue["caller"] /\ s = queue["compute"]
  OBVIOUS
<1>2. /\ Grown(b, c, kc) /\ Grown(s, p, kp)
      /\ Len(b) \in Nat /\ Len(c) \in Nat /\ Len(s) \in Nat /\ Len(p) \in Nat
  BY <1>1 DEF WritesFresh, Grown
<1>3. /\ \A i \in 1..Len(s) : p[i].do = "attend" => AttendIn(mem, c, t, p, p[i], i)
      /\ \A i \in 1..Len(b) : c[i].do = "convert" => ConvertIn(mem, p, c[i], call, chunks)
  BY <1>1, DataGrows
<1>4. call \in Nat
  BY DEF HostTypeOK
<1>5. ASSUME NEW i \in 1..Len(p), p[i].do = "attend" PROVE AttendIn(mem, c, t, p, p[i], i)
  <2>1. CASE i \in 1..Len(s)
    BY <1>3, <1>5, <2>1
  <2>2. CASE i \notin 1..Len(s)
    <3>1. i \in Len(s) + 1..Len(p)
      BY <1>2, <2>2
    <3> QED
      BY <1>1, <1>5, <3>1
  <2> QED
    BY <2>1, <2>2
<1>6. ASSUME NEW i \in 1..Len(c), c[i].do = "convert" PROVE ConvertIn(mem, p, c[i], n, total)
  <2>1. CASE i \in 1..Len(b)
    <3>1. PICK op : op = b[i] /\ op = c[i]
      BY <1>2, <2>1, GrownPlaces
    <3>2. ConvertIn(mem, p, op, call, chunks)
      BY <1>3, <1>6, <2>1, <3>1
    <3>3. op.about \in 1..ClosedCalls
      <4>1. CallerWork(op)
        BY <1>1, <2>1, <3>1 DEF WorkInv
      <4> QED
        BY <1>6, <3>1, <4>1 DEF CallerWork
    <3>4. op.about = n => n = call /\ total = chunks
      BY <1>4, <3>3 DEF ClosedCalls
    <3> QED
      BY <3>1, <3>2, <3>4 DEF ConvertIn
  <2>2. CASE i \notin 1..Len(b)
    <3>1. i \in Len(b) + 1..Len(c)
      BY <1>2, <2>2
    <3> QED
      BY <1>1, <1>6, <3>1
  <2> QED
    BY <2>1, <2>2
<1>7. result \in [Calls -> Seq(Queries \X Staged)]
  BY DEF DataInv
<1>8. ASSUME NEW i \in Calls PROVE ResultIn(result[i], i, n, total)
  <2>1. ResultIn(result[i], i, call, chunks)
    BY DEF DataInv
  <2>2. i <= call => i <= n /\ (i = n => total = chunks /\ n = call)
    BY <1>4 DEF Calls
  <2> QED
    BY <2>1, <2>2 DEF ResultIn
<1>9. DataFor(mem, c, t, p, q, cur, m, n, h, run, total, result)
  BY <1>5, <1>6, <1>7, <1>8 DEF DataFor
<1> QED
  BY <1>9, DataTogether

(* What the cells hold when a query is enqueued. *)
LEMMA DataDecode ==
    ASSUME HostTypeOK, HostInv, WorkInv, HeldInv, DataInv, \E n \in 1..MaxChunks : Decode(n)
    PROVE  DataInv'
<1>1. PICK b, s, u, c, t, p, q, cur, m, n, h, run, total :
        /\ b = queue["caller"] /\ s = queue["transfer"] /\ u = queue["compute"]
        /\ c = queue'["caller"] /\ t = queue'["transfer"] /\ p = queue'["compute"]
        /\ q = query' /\ cur = StagedCell' /\ m = merged' /\ n = call' /\ h = chunk'
        /\ run = RunSoFar' /\ total = chunks'
  OBVIOUS
<1>2. /\ Grown(b, c, 1) /\ c[Len(b) + 1] = Work("query", <<>>, {q}, n) /\ n = call + 1
      /\ t = s /\ p = u /\ pc = "idle" /\ mem' = mem /\ result' = result
      /\ cur = current /\ m = merged /\ q \in free
  BY <1>1, DecodeQueues DEF StagedCell
<1>3. cur = NoCell /\ m = NoCell
  BY <1>2 DEF HostInv
<1>4. After(mem, c, t, p, q, cur, m, n, h, run, total, result)
  BY <1>1, <1>2 DEF After
<1>5. /\ Grown(s, t, 0) /\ \A i \in Len(s) + 1..Len(t) : FALSE
      /\ Grown(u, p, 0) /\ \A i \in Len(u) + 1..Len(p) : FALSE
  <2>1. Grown(s, t, 0) /\ Grown(u, p, 0)
    BY <1>1, <1>2, GrownSame, Names DEF HostTypeOK
  <2> QED
    BY <2>1, EndPlaces
<1>6. PICK l : l = Len(b) + 1 /\ l \in 1..Len(c) /\ l = Len(c) /\ Len(b) \in Nat
               /\ \A i \in Len(b) + 1..Len(c) : i = l
  BY <1>2, EndPlaces
<1>7. c[l].do = "query" /\ c[l].about = n /\ c[l].writes = {q}
  BY <1>2, <1>6 DEF Work
<1>8. WritesFresh(c, t, p, 1, 0, 0)
  <2>1. \A i \in Len(b) + 1..Len(c) : \A x : Writes(c, i, x) => x \in Fresh
    BY <1>2, <1>6, <1>7 DEF Writes, Fresh
  <2> QED
    BY <1>1, <1>2, <1>5, <2>1 DEF WritesFresh
<1>9. QueryIn(mem, c, q, n)
  <2>1. At(c, l, "query", n) /\ Writes(c, l, q)
    BY <1>6, <1>7 DEF At, Writes
  <2>2. \A j \in (l + 1)..Len(c) : FALSE
    BY <1>6
  <2> QED
    BY <1>6, <2>1, <2>2 DEF QueryIn, Here
<1>10. \A i \in Len(b) + 1..Len(c) : c[i].do # "convert"
  BY <1>6, <1>7
<1>11. /\ q # NoCell => QueryIn(mem, c, q, n)
       /\ cur # NoCell => StackIn(mem, t, cur, <<n, h>>)
       /\ m # NoCell => MergeIn(mem, p, m, n, run, Len(p))
  BY <1>3, <1>9
<1>12. /\ \A i \in Len(queue["compute"]) + 1..Len(p) : p[i].do = "attend" =>
              AttendIn(mem, c, t, p, p[i], i)
       /\ \A i \in Len(queue["caller"]) + 1..Len(c) : c[i].do = "convert" =>
              ConvertIn(mem, p, c[i], n, total)
  BY <1>1, <1>5, <1>10
<1> QED
  BY <1>2, <1>4, <1>8, <1>11, <1>12, DataHost

(* When a chunk is delivered, into clones if direct. *)
LEMMA DataNextChunk ==
    ASSUME HostTypeOK, HostInv, WorkInv, HeldInv, DataInv, NextChunk
    PROVE  DataInv'
<1>1. PICK b, s, u, c, t, p, q, cur, m, n, h, run, total :
        /\ b = queue["caller"] /\ s = queue["transfer"] /\ u = queue["compute"]
        /\ c = queue'["caller"] /\ t = queue'["transfer"] /\ p = queue'["compute"]
        /\ q = query' /\ cur = StagedCell' /\ m = merged' /\ n = call' /\ h = chunk'
        /\ run = RunSoFar' /\ total = chunks'
  OBVIOUS
<1>2. /\ direct => /\ Grown(b, c, 1)
                   /\ c[Len(b) + 1] = Work("clone", <<>>, {clone'}, <<call, chunk + 1>>)
                   /\ clone' \in free \cup ({clone} \ {NoCell})
      /\ ~direct => c = b
      /\ t = s /\ p = u /\ pc = "next" /\ pc' = "stage" /\ mem' = mem /\ result' = result
      /\ q = query /\ cur = current /\ m = merged /\ n = call /\ total = chunks
      /\ h = chunk + 1
  BY <1>1, NextChunkQueues DEF StagedCell
<1>3. cur = NoCell /\ run = RunSoFar
  <2>1. chunk \in Nat
    BY DEF HostTypeOK
  <2>2. run = IF pc' \in {"stage", "sync", "rebind", "run"} THEN chunk' - 1 ELSE chunk'
    BY <1>1 DEF RunSoFar
  <2> QED
    BY <1>1, <1>2, <2>1, <2>2 DEF HostInv, RunSoFar
<1>4. After(mem, c, t, p, q, cur, m, n, h, run, total, result)
  BY <1>1, <1>2 DEF After
<1>5. /\ Grown(s, t, 0) /\ \A i \in Len(s) + 1..Len(t) : FALSE
      /\ Grown(u, p, 0) /\ \A i \in Len(u) + 1..Len(p) : FALSE
      /\ Grown(b, b, 0) /\ \A i \in Len(b) + 1..Len(b) : FALSE
  <2>1. Grown(s, t, 0) /\ Grown(u, p, 0) /\ Grown(b, b, 0)
    BY <1>1, <1>2, GrownSame, Names DEF HostTypeOK
  <2> QED
    BY <2>1, EndPlaces
<1>6. PICK k : /\ Grown(b, c, k)
               /\ \A i \in Len(b) + 1..Len(c) :
                    /\ c[i].do = "clone"
                    /\ \A x \in c[i].writes : x \in Fresh
  <2>1. CASE direct
    <3>1. \A i \in Len(b) + 1..Len(c) : i = Len(b) + 1
      BY <1>2, <2>1, EndPlaces
    <3>2. c[Len(b) + 1].do = "clone" /\ c[Len(b) + 1].writes = {clone'}
      BY <1>2, <2>1 DEF Work
    <3>3. clone' \in Fresh
      BY <1>2, <2>1 DEF Fresh
    <3> QED
      BY <1>2, <2>1, <3>1, <3>2, <3>3
  <2>2. CASE ~direct
    BY <1>2, <1>5, <2>2
  <2> QED
    BY <2>1, <2>2
<1>7. WritesFresh(c, t, p, k, 0, 0)
  <2>1. \A i \in Len(b) + 1..Len(c) : \A x : Writes(c, i, x) => x \in Fresh
    BY <1>6 DEF Writes
  <2> QED
    BY <1>1, <1>2, <1>5, <1>6, <2>1 DEF WritesFresh
<1>8. /\ query # NoCell => QueryIn(mem, c, query, call)
      /\ merged # NoCell => \A i \in Len(u)..Len(p) : MergeIn(mem, p, merged, call, RunSoFar, i)
  BY <1>1, <1>7, DataGrows
<1>9. Len(p) \in Len(u)..Len(p)
  BY <1>5 DEF Grown
<1>10. \A i \in Len(b) + 1..Len(c) : c[i].do # "convert"
  BY <1>6
<1> QED
  BY <1>1, <1>2, <1>3, <1>4, <1>5, <1>7, <1>8, <1>9, <1>10, DataHost

(* When the loop ends and when staging was waited for. *)
LEMMA DataQuiet ==
    ASSUME HostTypeOK, HostInv, DataInv, NoMoreChunks \/ StageSync
    PROVE  DataInv'
<1>1. /\ UNCHANGED <<direct, queue, passed, mem, free, user, result, call, chunks, chunk,
                     query, clone, tensors, current, merged, faults>>
      /\ \/ pc = "next" /\ pc' = "finish"
         \/ pc = "sync" /\ pc' = "rebind"
  BY QuietQueues
<1>2. RunSoFar' = RunSoFar /\ StagedCell' = StagedCell
  BY <1>1 DEF RunSoFar, StagedCell
<1> QED
  BY <1>1, <1>2 DEF DataInv

(* When the loader raises. *)
LEMMA DataLoaderRaises ==
    ASSUME HostTypeOK, HostInv, WorkInv, HeldInv, DataInv, LoaderRaises
    PROVE  DataInv'
<1>1. PICK b, s, u, c, t, p, q, cur, m, n, h, run, total :
        /\ b = queue["caller"] /\ s = queue["transfer"] /\ u = queue["compute"]
        /\ c = queue'["caller"] /\ t = queue'["transfer"] /\ p = queue'["compute"]
        /\ q = query' /\ cur = StagedCell' /\ m = merged' /\ n = call' /\ h = chunk'
        /\ run = RunSoFar' /\ total = chunks'
  OBVIOUS
<1>2. /\ c = b /\ t = s /\ mem' = mem /\ result' = result
      /\ q = NoCell /\ cur = NoCell /\ m = NoCell /\ n = call /\ total = chunks
      /\ merged = NoCell => p = u
      /\ merged # NoCell => Grown(u, p, 1) /\ MarkOf(p[Len(u) + 1], {query, tensors})
  BY <1>1, LoaderRaisesQueues DEF StagedCell
<1>3. After(mem, c, t, p, q, cur, m, n, h, run, total, result)
  BY <1>1, <1>2 DEF After
<1>4. /\ Grown(s, t, 0) /\ \A i \in Len(s) + 1..Len(t) : FALSE
      /\ Grown(b, c, 0) /\ \A i \in Len(b) + 1..Len(c) : FALSE
      /\ Grown(u, u, 0) /\ \A i \in Len(u) + 1..Len(u) : FALSE
  <2>1. Grown(s, t, 0) /\ Grown(b, c, 0) /\ Grown(u, u, 0)
    BY <1>1, <1>2, GrownSame, Names DEF HostTypeOK
  <2> QED
    BY <2>1, EndPlaces
<1>5. PICK k : Grown(u, p, k) /\ \A i \in Len(u) + 1..Len(p) : p[i].do = "mark"
  <2>1. CASE merged = NoCell
    BY <1>2, <1>4, <2>1
  <2>2. CASE merged # NoCell
    <3>1. \A i \in Len(u) + 1..Len(p) : i = Len(u) + 1
      BY <1>2, <2>2, EndPlaces
    <3>2. \A i \in Len(u) + 1..Len(p) : p[i].do = "mark"
      BY <1>2, <2>2, <3>1 DEF MarkOf
    <3> QED
      BY <1>2, <2>2, <3>2
  <2> QED
    BY <2>1, <2>2
<1>6. WritesFresh(c, t, p, 0, 0, k)
  <2>1. \A i \in Len(u) + 1..Len(p) : \A x : Writes(p, i, x) => x \in Fresh
    BY <1>5 DEF Writes
  <2> QED
    BY <1>1, <1>4, <1>5, <2>1 DEF WritesFresh
<1>7. \A i \in Len(u) + 1..Len(p) : p[i].do # "attend"
  BY <1>5
<1>8. /\ q # NoCell => QueryIn(mem, c, q, n)
      /\ cur # NoCell => StackIn(mem, t, cur, <<n, h>>)
      /\ m # NoCell => MergeIn(mem, p, m, n, run, Len(p))
  BY <1>2
<1>9. /\ \A i \in Len(queue["compute"]) + 1..Len(p) : p[i].do = "attend" =>
             AttendIn(mem, c, t, p, p[i], i)
      /\ \A i \in Len(queue["caller"]) + 1..Len(c) : c[i].do = "convert" =>
             ConvertIn(mem, p, c[i], n, total)
  BY <1>1, <1>4, <1>7
<1> QED
  BY <1>2, <1>3, <1>6, <1>8, <1>9, DataHost

(* When a chunk is staged. *)
LEMMA DataStage ==
    ASSUME HostTypeOK, HostInv, WorkInv, HeldInv, DataInv, Stage
    PROVE  DataInv'
<1>1. PICK b, s, u, c, t, p, q, cur, m, n, h, run, total, this :
        /\ b = queue["caller"] /\ s = queue["transfer"] /\ u = queue["compute"]
        /\ c = queue'["caller"] /\ t = queue'["transfer"] /\ p = queue'["compute"]
        /\ q = query' /\ cur = StagedCell' /\ m = merged' /\ n = call' /\ h = chunk'
        /\ run = RunSoFar' /\ total = chunks' /\ this = This
  OBVIOUS
<1>2. /\ c = b /\ p = u /\ pc = "stage" /\ pc' = (IF direct THEN "sync" ELSE "rebind")
      /\ mem' = mem /\ result' = result /\ q = query /\ m = merged /\ n = call /\ h = chunk
      /\ total = chunks /\ cur \in free /\ direct \in BOOLEAN
  BY <1>1, StageQueues DEF HostTypeOK, StagedCell
<1>3. run = RunSoFar /\ current' = cur
  <2>1. run = IF pc' \in {"stage", "sync", "rebind", "run"} THEN chunk' - 1 ELSE chunk'
    BY <1>1 DEF RunSoFar
  <2>2. run = RunSoFar
    BY <1>1, <1>2, <2>1 DEF RunSoFar
  <2>3. pc' # "run"
    BY <1>2
  <2> QED
    BY <1>1, <2>2, <2>3 DEF StagedCell
<1>4. After(mem, c, t, p, q, cur, m, n, h, run, total, result)
  BY <1>1, <1>2 DEF After
<1>5. /\ Grown(b, c, 0) /\ \A i \in Len(b) + 1..Len(c) : FALSE
      /\ Grown(u, p, 0) /\ \A i \in Len(u) + 1..Len(p) : FALSE
  <2>1. Grown(b, c, 0) /\ Grown(u, p, 0)
    BY <1>1, <1>2, GrownSame, Names DEF HostTypeOK
  <2> QED
    BY <2>1, EndPlaces
<1>6. PICK k, l : /\ Grown(s, t, k) /\ Len(s) \in Nat /\ Len(t) \in Nat
                  /\ l \in Len(s) + 1..Len(t) /\ l \in 1..Len(t)
                  /\ t[l].do = "stack" /\ t[l].about = this /\ t[l].writes = {cur}
                  /\ \A i \in Len(s) + 1..Len(t) : i # l => t[i].writes = {}
  <2>1. CASE direct
    <3>1. /\ Grown(s, t, 4)
          /\ t[Len(s) + 1] = Record(<<"own", this>>) /\ t[Len(s) + 2] = Wait(<<"own", this>>)
          /\ t[Len(s) + 3] = Work("stack", <<clone>>, {current'}, this)
          /\ t[Len(s) + 4] = Record(<<"ready", this>>)
      BY <1>1, <2>1, StageQueues
    <3>2. PICK d : d = Len(s) /\ d \in Nat /\ Len(t) = d + 4
      BY <3>1, EndPlaces
    <3>3. /\ \A i \in d + 1..d + 4 : i = d + 1 \/ i = d + 2 \/ i = d + 3 \/ i = d + 4
          /\ d + 3 \in d + 1..d + 4 /\ d + 3 \in 1..d + 4 /\ d + 4 \in Nat
      BY ONLY <3>2
    <3>4. /\ t[d + 1].writes = {} /\ t[d + 2].writes = {}
          /\ t[d + 3].do = "stack" /\ t[d + 3].about = this /\ t[d + 3].writes = {cur}
          /\ t[d + 4].writes = {}
      BY <1>3, <3>1, <3>2 DEF Record, Wait, Work
    <3> QED
      BY <3>1, <3>2, <3>3, <3>4
  <2>2. CASE ~direct
    <3>1. /\ Grown(s, t, 2)
          /\ t[Len(s) + 1] = Work("stack", <<>>, {current'}, this)
          /\ t[Len(s) + 2] = Record(<<"ready", this>>)
      BY <1>1, <2>2, StageQueues
    <3>2. PICK d : d = Len(s) /\ d \in Nat /\ Len(t) = d + 2
      BY <3>1, EndPlaces
    <3>3. /\ \A i \in d + 1..d + 2 : i = d + 1 \/ i = d + 2
          /\ d + 1 \in d + 1..d + 2 /\ d + 1 \in 1..d + 2 /\ d + 2 \in Nat
      BY ONLY <3>2
    <3>4. /\ t[d + 1].do = "stack" /\ t[d + 1].about = this /\ t[d + 1].writes = {cur}
          /\ t[d + 2].writes = {}
      BY <1>3, <3>1, <3>2 DEF Record, Work
    <3> QED
      BY <3>1, <3>2, <3>3, <3>4
  <2> QED
    BY <1>2, <2>1, <2>2
<1>7. WritesFresh(c, t, p, 0, k, 0)
  <2>1. \A i \in Len(s) + 1..Len(t) : \A x : Writes(t, i, x) => x \in Fresh
    BY <1>2, <1>6 DEF Writes, Fresh
  <2> QED
    BY <1>1, <1>5, <1>6, <2>1 DEF WritesFresh
<1>8. /\ query # NoCell => QueryIn(mem, c, query, call)
      /\ merged # NoCell => \A i \in Len(u)..Len(p) : MergeIn(mem, p, merged, call, RunSoFar, i)
  BY <1>1, <1>7, DataGrows
<1>9. StackIn(mem, t, cur, this)
  <2>1. At(t, l, "stack", this) /\ Writes(t, l, cur)
    BY <1>6 DEF At, Writes
  <2>2. \A j \in (l + 1)..Len(t) : ~Writes(t, j, cur)
    <3>1. \A j \in (l + 1)..Len(t) : j \in Len(s) + 1..Len(t) /\ j # l
      BY <1>6
    <3> QED
      BY <1>6, <3>1 DEF Writes
  <2> QED
    BY <1>6, <2>1, <2>2 DEF StackIn, Here
<1>10. /\ q # NoCell => QueryIn(mem, c, q, n)
       /\ cur # NoCell => StackIn(mem, t, cur, <<n, h>>)
       /\ m # NoCell => MergeIn(mem, p, m, n, run, Len(p))
  <2>1. Len(p) \in Len(u)..Len(p)
    BY <1>5 DEF Grown
  <2>2. this = <<n, h>>
    BY <1>1, <1>2 DEF This
  <2> QED
    BY <1>2, <1>3, <1>8, <1>9, <2>1, <2>2
<1>11. /\ \A i \in Len(queue["compute"]) + 1..Len(p) : p[i].do = "attend" =>
              AttendIn(mem, c, t, p, p[i], i)
       /\ \A i \in Len(queue["caller"]) + 1..Len(c) : c[i].do = "convert" =>
              ConvertIn(mem, p, c[i], n, total)
  BY <1>1, <1>5
<1> QED
  BY <1>2, <1>4, <1>7, <1>10, <1>11, DataHost

(* When the call ends. *)
LEMMA DataFinish ==
    ASSUME HostTypeOK, HostInv, WorkInv, HeldInv, DataInv, Finish
    PROVE  DataInv'
<1>1. PICK b, s, u, c, t, p, q, cur, m, n, h, run, total :
        /\ b = queue["caller"] /\ s = queue["transfer"] /\ u = queue["compute"]
        /\ c = queue'["caller"] /\ t = queue'["transfer"] /\ p = queue'["compute"]
        /\ q = query' /\ cur = StagedCell' /\ m = merged' /\ n = call' /\ h = chunk'
        /\ run = RunSoFar' /\ total = chunks'
  OBVIOUS
<1>2. /\ t = s /\ pc = "finish" /\ merged # NoCell /\ chunk = chunks
      /\ mem' = mem /\ result' = result
      /\ q = NoCell /\ cur = NoCell /\ m = NoCell /\ n = call /\ total = chunks
      /\ Grown(u, p, 2) /\ Grown(b, c, 3)
      /\ p[Len(u) + 1] = Record(<<"done", call>>)
      /\ MarkOf(p[Len(u) + 2], {query, tensors})
      /\ c[Len(b) + 1] = Wait(<<"done", call>>)
      /\ c[Len(b) + 2] = Work("convert", <<merged>>, {}, call)
      /\ MarkOf(c[Len(b) + 3], {merged})
  BY <1>1, FinishQueues DEF StagedCell
<1>3. After(mem, c, t, p, q, cur, m, n, h, run, total, result)
  BY <1>1, <1>2 DEF After
<1>4. Grown(s, t, 0) /\ \A i \in Len(s) + 1..Len(t) : FALSE
  <2>1. Grown(s, t, 0)
    BY <1>1, <1>2, GrownSame, Names DEF HostTypeOK
  <2> QED
    BY <2>1, EndPlaces
<1>5. \A i \in Len(u) + 1..Len(p) : p[i].do # "attend" /\ (p[i].do = "mark" \/ p[i].writes = {})
  <2>1. \A i \in Len(u) + 1..Len(p) : i = Len(u) + 1 \/ i = Len(u) + 2
    BY <1>2, EndPlaces
  <2> QED
    BY <1>2, <2>1 DEF MarkOf, Record, Work
<1>6. PICK d : /\ d = Len(b) /\ d \in Nat /\ Len(c) = d + 3
  BY <1>2, EndPlaces
<1>7. \A i \in d + 1..d + 3 : i = d + 1 \/ i = d + 2 \/ i = d + 3
  BY ONLY <1>6
<1>8. /\ c[d + 1].do = "wait" /\ c[d + 1].writes = {}
      /\ c[d + 2].do = "convert" /\ c[d + 2].about = call /\ c[d + 2].writes = {}
      /\ c[d + 2].reads = <<merged>> /\ c[d + 3].do = "mark"
  BY <1>2, <1>6 DEF Wait, Work, MarkOf
<1>9. \A i \in Len(b) + 1..Len(c) : c[i].do = "mark" \/ c[i].writes = {}
  BY <1>6, <1>7, <1>8
<1>10. WritesFresh(c, t, p, 3, 0, 2)
  <2>1. /\ \A i \in Len(b) + 1..Len(c) : \A x : ~Writes(c, i, x)
        /\ \A i \in Len(u) + 1..Len(p) : \A x : ~Writes(p, i, x)
    BY <1>5, <1>9 DEF Writes
  <2> QED
    BY <1>1, <1>2, <1>4, <2>1 DEF WritesFresh
<1>11. MergeIn(mem, p, merged, call, chunks, Len(p))
  <2>1. Len(p) \in Len(u)..Len(p)
    BY <1>2 DEF Grown
  <2>2. RunSoFar = chunks
    BY <1>2 DEF RunSoFar
  <2> QED
    BY <1>1, <1>2, <1>10, <2>1, <2>2, DataGrows
<1>12. ASSUME NEW i \in Len(b) + 1..Len(c), c[i].do = "convert"
       PROVE  ConvertIn(mem, p, c[i], n, total)
  <2>1. i = d + 2
    BY <1>6, <1>7, <1>8, <1>12
  <2>2. c[i].reads[1] = merged /\ c[i].about = call
    BY <1>8, <2>1
  <2>3. chunks \in 1..MaxChunks
    BY <1>2, ConstantsAssumption DEF HostInv, HostTypeOK
  <2> QED
    BY <1>2, <1>11, <2>2, <2>3 DEF ConvertIn
<1>13. /\ q # NoCell => QueryIn(mem, c, q, n)
       /\ cur # NoCell => StackIn(mem, t, cur, <<n, h>>)
       /\ m # NoCell => MergeIn(mem, p, m, n, run, Len(p))
  BY <1>2
<1>14. /\ \A i \in Len(queue["compute"]) + 1..Len(p) : p[i].do = "attend" =>
              AttendIn(mem, c, t, p, p[i], i)
       /\ \A i \in Len(queue["caller"]) + 1..Len(c) : c[i].do = "convert" =>
              ConvertIn(mem, p, c[i], n, total)
  BY <1>1, <1>5, <1>12
<1> QED
  BY <1>2, <1>3, <1>10, <1>13, <1>14, DataHost

(* When the last chunk's tensors are let go. *)
LEMMA DataRebind ==
    ASSUME HostTypeOK, HostInv, WorkInv, HeldInv, DataInv, Rebind
    PROVE  DataInv'
<1>1. PICK b, s, u, c, t, p, q, cur, m, n, h, run, total :
        /\ b = queue["caller"] /\ s = queue["transfer"] /\ u = queue["compute"]
        /\ c = queue'["caller"] /\ t = queue'["transfer"] /\ p = queue'["compute"]
        /\ q = query' /\ cur = StagedCell' /\ m = merged' /\ n = call' /\ h = chunk'
        /\ run = RunSoFar' /\ total = chunks'
  OBVIOUS
<1>2. /\ c = b /\ t = s /\ mem' = mem /\ result' = result
      /\ q = query /\ cur = StagedCell /\ m = merged /\ n = call /\ h = chunk
      /\ total = chunks
      /\ merged = NoCell => p = u
      /\ merged # NoCell => Grown(u, p, 1) /\ MarkOf(p[Len(u) + 1], {tensors})
  <2>1. /\ c = b /\ t = s /\ mem' = mem /\ result' = result
        /\ q = query /\ m = merged /\ n = call /\ h = chunk /\ total = chunks
        /\ merged = NoCell => p = u
        /\ merged # NoCell => Grown(u, p, 1) /\ MarkOf(p[Len(u) + 1], {tensors})
    BY <1>1, RebindQueues
  <2>2. pc = "rebind" /\ pc' = "run" /\ tensors' = current
    BY RebindQueues
  <2>3. StagedCell' = StagedCell
    BY <2>2 DEF StagedCell
  <2> QED
    BY <1>1, <2>1, <2>3
<1>3. run = RunSoFar
  <2>1. pc = "rebind" /\ pc' = "run" /\ chunk' = chunk
    BY RebindQueues
  <2> QED
    BY <1>1, <2>1 DEF RunSoFar
<1>4. After(mem, c, t, p, q, cur, m, n, h, run, total, result)
  BY <1>1, <1>2 DEF After
<1>5. /\ Grown(s, t, 0) /\ \A i \in Len(s) + 1..Len(t) : FALSE
      /\ Grown(b, c, 0) /\ \A i \in Len(b) + 1..Len(c) : FALSE
      /\ Grown(u, u, 0) /\ \A i \in Len(u) + 1..Len(u) : FALSE
  <2>1. Grown(s, t, 0) /\ Grown(b, c, 0) /\ Grown(u, u, 0)
    BY <1>1, <1>2, GrownSame, Names DEF HostTypeOK
  <2> QED
    BY <2>1, EndPlaces
<1>6. PICK k : Grown(u, p, k) /\ \A i \in Len(u) + 1..Len(p) : p[i].do = "mark"
  <2>1. CASE merged = NoCell
    BY <1>2, <1>5, <2>1
  <2>2. CASE merged # NoCell
    <3>1. \A i \in Len(u) + 1..Len(p) : i = Len(u) + 1
      BY <1>2, <2>2, EndPlaces
    <3>2. \A i \in Len(u) + 1..Len(p) : p[i].do = "mark"
      BY <1>2, <2>2, <3>1 DEF MarkOf
    <3> QED
      BY <1>2, <2>2, <3>2
  <2> QED
    BY <2>1, <2>2
<1>7. WritesFresh(c, t, p, 0, 0, k)
  <2>1. \A i \in Len(u) + 1..Len(p) : \A x : Writes(p, i, x) => x \in Fresh
    BY <1>6 DEF Writes
  <2> QED
    BY <1>1, <1>5, <1>6, <2>1 DEF WritesFresh
<1>8. \A i \in Len(u) + 1..Len(p) : p[i].do # "attend"
  BY <1>6
<1>9. /\ query # NoCell => QueryIn(mem, c, query, call)
      /\ StagedCell # NoCell => StackIn(mem, t, StagedCell, <<call, chunk>>)
      /\ merged # NoCell => \A i \in Len(u)..Len(p) : MergeIn(mem, p, merged, call, RunSoFar, i)
  BY <1>1, <1>7, DataGrows
<1>10. /\ q # NoCell => QueryIn(mem, c, q, n)
       /\ cur # NoCell => StackIn(mem, t, cur, <<n, h>>)
       /\ m # NoCell => MergeIn(mem, p, m, n, run, Len(p))
  <2>1. Len(p) \in Len(u)..Len(p)
    BY <1>6 DEF Grown
  <2> QED
    BY <1>2, <1>3, <1>9, <2>1
<1>11. /\ \A i \in Len(queue["compute"]) + 1..Len(p) : p[i].do = "attend" =>
              AttendIn(mem, c, t, p, p[i], i)
       /\ \A i \in Len(queue["caller"]) + 1..Len(c) : c[i].do = "convert" =>
              ConvertIn(mem, p, c[i], n, total)
  BY <1>1, <1>5, <1>8
<1> QED
  BY <1>2, <1>4, <1>7, <1>10, <1>11, DataHost

(* When attention is enqueued. *)
LEMMA DataRunChunk ==
    ASSUME HostTypeOK, HostInv, WorkInv, HeldInv, DataInv, RunChunk
    PROVE  DataInv'
<1>1. PICK b, s, u, c, t, p, q, cur, m, n, h, run, total, this :
        /\ b = queue["caller"] /\ s = queue["transfer"] /\ u = queue["compute"]
        /\ c = queue'["caller"] /\ t = queue'["transfer"] /\ p = queue'["compute"]
        /\ q = query' /\ cur = StagedCell' /\ m = merged' /\ n = call' /\ h = chunk'
        /\ run = RunSoFar' /\ total = chunks' /\ this = This
  OBVIOUS
<1>2. /\ t = s /\ pc = "run" /\ pc' = "next" /\ mem' = mem /\ result' = result
      /\ q = query /\ cur = NoCell /\ n = call /\ h = chunk /\ total = chunks
      /\ m \in free /\ tensors # NoCell /\ StagedCell = tensors
      /\ chunk = 1 <=> merged = NoCell
  <2>1. /\ pc = "run" /\ pc' = "next" /\ current = NoCell /\ current' = current
    BY <1>1, RunChunkQueues DEF HostInv
  <2> QED
    BY <1>1, <2>1, RunChunkQueues DEF StagedCell
<1>3. /\ run = chunk /\ RunSoFar = chunk - 1 /\ chunk \in Nat /\ chunk > 0
      /\ query # NoCell /\ this = <<n, chunk>>
      /\ this[1] = n /\ this[2] = chunk
  <2>1. run = IF pc' \in {"stage", "sync", "rebind", "run"} THEN chunk' - 1 ELSE chunk'
    BY <1>1 DEF RunSoFar
  <2>2. run = chunk
    BY <1>1, <1>2, <2>1
  <2> QED
    BY <1>1, <1>2, <2>2 DEF RunSoFar, HostInv, HostTypeOK, This
<1>4. After(mem, c, t, p, q, cur, m, n, h, run, total, result)
  BY <1>1, <1>2 DEF After
<1>5. chunk = 1 => /\ Grown(b, c, 1) /\ Grown(u, p, 3)
                   /\ c[Len(b) + 1] = Record(<<"query", call>>)
                   /\ p[Len(u) + 1] = Wait(<<"query", call>>)
                   /\ p[Len(u) + 2] = Wait(<<"ready", this>>)
                   /\ p[Len(u) + 3] = Work("attend", <<query, tensors>>, {m}, this)
  BY <1>1, RunChunkQueues
<1>6. chunk # 1 => /\ c = b /\ Grown(u, p, 2)
                   /\ p[Len(u) + 1] = Wait(<<"ready", this>>)
                   /\ p[Len(u) + 2] = Work("attend", <<query, tensors, merged>>, {m}, this)
  BY <1>1, RunChunkQueues
<1>7. PICK k : /\ Grown(b, c, k)
               /\ \A i \in Len(b) + 1..Len(c) : c[i].do = "record" /\ c[i].writes = {}
  <2>1. CASE chunk = 1
    <3>1. \A i \in Len(b) + 1..Len(c) : i = Len(b) + 1
      BY <1>5, <2>1, EndPlaces
    <3>2. \A i \in Len(b) + 1..Len(c) : c[i].do = "record" /\ c[i].writes = {}
      BY <1>5, <2>1, <3>1 DEF Record, Work
    <3> QED
      BY <1>5, <2>1, <3>2
  <2>2. CASE chunk # 1
    <3>1. Grown(b, c, 0)
      BY <1>1, <1>6, <2>2, GrownSame, Names DEF HostTypeOK
    <3>2. \A i \in Len(b) + 1..Len(c) : FALSE
      BY <3>1, EndPlaces
    <3> QED
      BY <3>1, <3>2
  <2> QED
    BY <2>1, <2>2
<1>8. Grown(s, t, 0) /\ \A i \in Len(s) + 1..Len(t) : FALSE
  <2>1. Grown(s, t, 0)
    BY <1>1, <1>2, GrownSame, Names DEF HostTypeOK
  <2> QED
    BY <2>1, EndPlaces
(* Attention comes last. *)
<1>9. PICK d, l : /\ d = Len(u) /\ d \in Nat /\ Grown(u, p, l - d) /\ Len(p) = l
                  /\ l = IF chunk = 1 THEN d + 3 ELSE d + 2
  <2>1. CASE chunk = 1
    <3>1. PICK d : d = Len(u) /\ d \in Nat /\ Grown(u, p, 3) /\ Len(p) = d + 3
      BY <1>5, <2>1, EndPlaces
    <3>2. (d + 3) - d = 3
      BY ONLY <3>1
    <3> QED
      BY <2>1, <3>1, <3>2
  <2>2. CASE chunk # 1
    <3>1. PICK d : d = Len(u) /\ d \in Nat /\ Grown(u, p, 2) /\ Len(p) = d + 2
      BY <1>6, <2>2, EndPlaces
    <3>2. (d + 2) - d = 2
      BY ONLY <3>1
    <3> QED
      BY <2>2, <3>1, <3>2
  <2> QED
    BY <2>1, <2>2
<1>10. /\ \A i \in d + 1..l : i = d + 1 \/ (chunk = 1 /\ i = d + 2) \/ i = l
       /\ l \in d + 1..l /\ l \in 1..l /\ l - 1 \in d..l
       /\ \A i \in (l + 1)..l : FALSE
  <2>1. d \in Nat /\ l = IF chunk = 1 THEN d + 3 ELSE d + 2
    BY <1>9
  <2> QED
    BY ONLY <2>1
<1>11. /\ p[l].do = "attend" /\ p[l].about = this /\ p[l].writes = {m}
       /\ p[l].reads[1] = query /\ p[l].reads[2] = tensors
       /\ chunk # 1 => p[l].reads[3] = merged
       /\ \A i \in d + 1..l : i # l => p[i].do # "attend" /\ p[i].writes = {}
  <2>1. CASE chunk = 1
    <3>1. /\ p[d + 1].do = "wait" /\ p[d + 1].writes = {}
          /\ p[d + 2].do = "wait" /\ p[d + 2].writes = {}
          /\ p[l].do = "attend" /\ p[l].about = this /\ p[l].writes = {m}
          /\ p[l].reads = <<query, tensors>>
      BY <1>5, <1>9, <2>1 DEF Wait, Work
    <3>2. p[l].reads[1] = query /\ p[l].reads[2] = tensors
      BY <3>1
    <3>3. \A i \in d + 1..l : i # l => p[i].do # "attend" /\ p[i].writes = {}
      BY <1>10, <3>1
    <3> QED
      BY <2>1, <3>1, <3>2, <3>3
  <2>2. CASE chunk # 1
    <3>1. /\ p[d + 1].do = "wait" /\ p[d + 1].writes = {}
          /\ p[l].do = "attend" /\ p[l].about = this /\ p[l].writes = {m}
          /\ p[l].reads = <<query, tensors, merged>>
      BY <1>6, <1>9, <2>2 DEF Wait, Work
    <3>2. /\ p[l].reads[1] = query /\ p[l].reads[2] = tensors
          /\ p[l].reads[3] = merged
      BY <3>1
    <3>3. \A i \in d + 1..l : i # l => p[i].do # "attend" /\ p[i].writes = {}
      BY <1>10, <2>2, <3>1
    <3> QED
      BY <3>1, <3>2, <3>3
  <2> QED
    BY <2>1, <2>2
<1>12. WritesFresh(c, t, p, k, 0, l - d)
  <2>1. \A i \in Len(b) + 1..Len(c) : \A x : ~Writes(c, i, x)
    BY <1>7 DEF Writes
  <2>2. \A i \in Len(u) + 1..Len(p) : \A x : Writes(p, i, x) => x \in Fresh
    BY <1>2, <1>9, <1>11 DEF Writes, Fresh
  <2> QED
    BY <1>1, <1>2, <1>7, <1>8, <1>9, <2>1, <2>2 DEF WritesFresh
<1>13. /\ QueryIn(mem, c, query, call)
       /\ StackIn(mem, t, tensors, <<call, chunk>>)
       /\ merged # NoCell => \A i \in Len(u)..Len(p) : MergeIn(mem, p, merged, call, chunk - 1, i)
  BY <1>1, <1>2, <1>3, <1>12, DataGrows
<1>14. ASSUME NEW i \in Len(u) + 1..Len(p), p[i].do = "attend"
       PROVE  AttendIn(mem, c, t, p, p[i], i)
  <2>1. i = l
    BY <1>9, <1>11, <1>14
  <2>2. PICK op : /\ op = p[l] /\ op.reads[1] = query /\ op.reads[2] = tensors
                  /\ op.about = this
    BY <1>11
  <2>3. QueryIn(mem, c, op.reads[1], op.about[1]) /\ StackIn(mem, t, op.reads[2], op.about)
    BY <1>2, <1>3, <1>13, <2>2
  <2>4. ASSUME op.about[2] > 1
        PROVE  MergeIn(mem, p, op.reads[3], op.about[1], op.about[2] - 1, l - 1)
    <3>1. chunk # 1
      BY <1>3, <2>2, <2>4
    <3>2. op.reads[3] = merged /\ l - 1 \in Len(u)..Len(p)
      BY <1>9, <1>10, <1>11, <2>2, <3>1
    <3>3. MergeIn(mem, p, merged, call, chunk - 1, l - 1)
      BY <1>2, <1>13, <3>1, <3>2
    <3> QED
      BY <1>2, <1>3, <2>2, <3>2, <3>3
  <2> QED
    BY <2>1, <2>2, <2>3, <2>4 DEF AttendIn
<1>15. MergeIn(mem, p, m, n, run, Len(p))
  <2>1. At(p, l, "attend", <<n, run>>) /\ Writes(p, l, m)
    BY <1>3, <1>9, <1>10, <1>11 DEF At, Writes
  <2>2. \A j \in (l + 1)..Len(p) : ~Writes(p, j, m)
    BY <1>9, <1>10
  <2>3. l \in 1..Len(p)
    BY <1>9, <1>10
  <2> QED
    BY <2>1, <2>2, <2>3 DEF MergeIn, Here
<1>16. /\ q # NoCell => QueryIn(mem, c, q, n)
       /\ cur # NoCell => StackIn(mem, t, cur, <<n, h>>)
       /\ m # NoCell => MergeIn(mem, p, m, n, run, Len(p))
  BY <1>2, <1>13, <1>15
<1>17. /\ \A i \in Len(queue["compute"]) + 1..Len(p) : p[i].do = "attend" =>
              AttendIn(mem, c, t, p, p[i], i)
       /\ \A i \in Len(queue["caller"]) + 1..Len(c) : c[i].do = "convert" =>
              ConvertIn(mem, p, c[i], n, total)
  BY <1>1, <1>7, <1>14
<1> QED
  BY <1>2, <1>4, <1>12, <1>16, <1>17, DataHost

(* What a stream writes is in its own pool, and what memory holds then. *)
LEMMA OwnWrites ==
    ASSUME HostTypeOK, WorkInv, NEW s \in Streams, Execute(s),
           NEW op, op = queue[s][1], NEW g, g = mem'
    PROVE  /\ op.do # "mark" => op.writes \subseteq Pool(s)
           /\ \A x \in Cells : g[x] = IF op.do # "mark" /\ x \in op.writes
                                        THEN Written(op) ELSE mem[x]
<1>1. /\ 1 \in 1..Len(queue[s])
      /\ g = IF op.do = "mark" THEN mem
             ELSE [x \in Cells |-> IF x \in op.writes THEN Written(op) ELSE mem[x]]
  BY ExecuteQueues
<1>2. op.do # "mark" => op.writes \subseteq Pool(s)
  <2>1. CASE s = "caller"
    BY <1>1, <2>1, Names DEF WorkInv, CallerWork
  <2>2. CASE s = "transfer"
    BY <1>1, <2>2, Names DEF WorkInv, TransferWork
  <2>3. CASE s = "compute"
    BY <1>1, <2>3, Names DEF WorkInv, ComputeWorks
  <2> QED
    BY <2>1, <2>2, <2>3, Names
<1> QED
  BY <1>1, <1>2

(* Whoever reaches work finds done what is behind its fence. *)
LEMMA Settled ==
    ASSUME NEW happened, NEW p, NEW do, NEW about, NEW event, NEW q, NEW for, NEW on,
           Fenced(happened, p, do, about, event, q, for, on), At(q, 1, for, on),
           NEW v, NEW n, NEW x, NEW values, n = Len(p), Here(v, p, n, x, do, about, values)
    PROVE  v \in values
<1>1. \A i \in 1..Len(p) : ~At(p, i, do, about)
  <2> SUFFICES ASSUME NEW i \in 1..Len(p), At(p, i, do, about) PROVE FALSE
    OBVIOUS
  <2>1. \A j \in 1..Len(q) : At(q, j, for, on) => \E k \in 1..(j - 1) : At(q, k, "wait", event)
    BY DEF Fenced
  <2>2. 1 \in 1..Len(q)
    BY DEF At
  <2>3. \E k \in 1..(1 - 1) : At(q, k, "wait", event)
    BY <2>1, <2>2
  <2> QED
    BY <2>3
<1> QED
  BY <1>1 DEF Here

(* Attention over the next chunk of a call adds it to what was merged. *)
LEMMA MergeAdds ==
    ASSUME NEW n \in Calls, NEW h \in 1..MaxChunks, NEW l, NEW a, NEW b,
           a \in QueryOf(n), b \in StackOf(<<n, h>>),
           h = 1 => l = <<>>,
           h > 1 => <<"merge", l>> \in MergeOf(n, h - 1)
    PROVE  <<"merge", l \o << <<a, b>> >> >> \in MergeOf(n, h)
<1>1. PICK S : S = {<<"query", n>>} \X Staged
  OBVIOUS
<1>2. l \in Seq(S) /\ Len(l) = h - 1 /\ \A i \in 1..h - 1 : l[i][2][2] = <<n, i>>
  <2>1. CASE h = 1
    BY <2>1
  <2>2. CASE h # 1
    <3>1. PICK e : e = <<"merge", l>> /\ e \in MergeOf(n, h - 1) /\ e[2] = l
      BY <2>2
    <3> QED
      BY <1>1, <3>1 DEF MergeOf
  <2> QED
    BY <2>1, <2>2
<1>3. PICK y : y = <<a, b>> /\ y \in S /\ y[2][2] = <<n, h>>
  <2>1. <<n, h>> \in Chunks
    BY DEF Chunks
  <2>2. b \in Staged /\ b[2] = <<n, h>>
    BY <2>1 DEF StackOf, Staged
  <2>3. a = <<"query", n>>
    BY DEF QueryOf
  <2>4. PICK y : y = <<a, b>>
    OBVIOUS
  <2>5. y[2] = b
    BY <2>4
  <2>6. y \in S
    BY <1>1, <2>2, <2>3, <2>4
  <2> QED
    BY <2>2, <2>4, <2>5, <2>6
<1>4. PICK w, r : w = <<y>> /\ r = l \o w
  OBVIOUS
<1>5. w \in Seq(S) /\ Len(w) = 1 /\ w[1] = y
  BY <1>3, <1>4
<1>6. /\ r \in Seq(S) /\ Len(r) = Len(l) + Len(w)
      /\ \A i \in 1..Len(l) : r[i] = l[i]
      /\ \A i \in 1..Len(w) : r[Len(l) + i] = w[i]
  BY <1>2, <1>4, <1>5, ConcatProperties
<1>7. PICK d : d = Len(l) /\ d \in Nat /\ d + 1 = h
  BY <1>2
<1>8. Len(r) = h /\ r[h] = y
  BY <1>5, <1>6, <1>7
<1>9. \A i \in 1..h : r[i][2][2] = <<n, i>>
  <2> SUFFICES ASSUME NEW i \in 1..h PROVE r[i][2][2] = <<n, i>>
    OBVIOUS
  <2>1. CASE i = h
    BY <1>3, <1>8, <2>1
  <2>2. CASE i # h
    <3>1. i \in 1..h - 1 /\ i \in 1..Len(l)
      BY <1>2, <2>2
    <3> QED
      BY <1>2, <1>6, <3>1
  <2> QED
    BY <2>1, <2>2
<1>10. PICK e : e = <<"merge", r>> /\ e[2] = r /\ e \in {"merge"} \X Seq(S)
  <2>1. PICK e : e = <<"merge", r>>
    OBVIOUS
  <2>2. e[2] = r
    BY <2>1
  <2>3. e \in {"merge"} \X Seq(S)
    BY <1>6, <2>1
  <2> QED
    BY <2>1, <2>2, <2>3
<1>11. e \in MergeOf(n, h)
  BY <1>1, <1>8, <1>9, <1>10 DEF MergeOf
<1> QED
  BY <1>3, <1>4, <1>10, <1>11

(* What compute attends to is there when it reaches the work. *)
LEMMA AttendedOf ==
    ASSUME HostTypeOK, WorkInv, FenceInv, DataInv, NEW op, op = queue["compute"][1],
           1 \in 1..Len(queue["compute"]), op.do = "attend"
    PROVE  op.about \in Chunks /\ Attended(op) \in MergeOf(op.about[1], op.about[2])
<1>1. PICK c, t, p, k : /\ c = queue["caller"] /\ t = queue["transfer"] /\ p = queue["compute"]
                        /\ k = op.about
  OBVIOUS
<1>2. ComputeWorks(op)
  BY DEF WorkInv
<1>3. k \in Chunks /\ k[1] \in Calls /\ k[2] \in 1..MaxChunks /\ k = <<k[1], k[2]>>
  BY <1>1, <1>2 DEF ComputeWorks, Upto, Chunks
<1>4. AttendIn(mem, c, t, p, op, 1) /\ At(p, 1, "attend", k)
  BY <1>1 DEF DataInv, At
<1>5. mem[op.reads[1]] \in QueryOf(k[1])
  <2>1. QueryFence(passed, c, p, k)
    BY <1>1, <1>3, FenceParts
  <2>2. Here(mem[op.reads[1]], c, Len(c), op.reads[1], "query", k[1], QueryOf(k[1]))
    BY <1>1, <1>4 DEF AttendIn, QueryIn
  <2> QED
    BY <1>4, <2>1, <2>2, Settled DEF QueryFence
<1>6. mem[op.reads[2]] \in StackOf(k)
  <2>1. ReadyFence(passed, t, p, k)
    BY <1>1, <1>3, FenceParts
  <2>2. Here(mem[op.reads[2]], t, Len(t), op.reads[2], "stack", k, StackOf(k))
    BY <1>1, <1>4 DEF AttendIn, StackIn
  <2> QED
    BY <1>4, <2>1, <2>2, Settled DEF ReadyFence
<1>7. PICK l : /\ l = IF Len(op.reads) = 3 THEN mem[op.reads[3]][2] ELSE <<>>
               /\ Attended(op) = <<"merge", l \o << <<mem[op.reads[1]], mem[op.reads[2]]>> >> >>
  BY DEF Attended
<1>8. k[2] = 1 => l = <<>>
  <2> SUFFICES ASSUME k[2] = 1 PROVE l = <<>>
    OBVIOUS
  <2>1. PICK q \in CallerCells, x \in TransferCells : op.reads = <<q, x>>
    BY <1>1, <1>2 DEF ComputeWorks
  <2>2. Len(op.reads) = 2
    BY <2>1
  <2> QED
    BY <1>7, <2>2
<1>9. k[2] > 1 => <<"merge", l>> \in MergeOf(k[1], k[2] - 1)
  <2> SUFFICES ASSUME k[2] > 1 PROVE <<"merge", l>> \in MergeOf(k[1], k[2] - 1)
    OBVIOUS
  <2>1. PICK q \in CallerCells, x \in TransferCells, m \in ComputeCells : op.reads = <<q, x, m>>
    BY <1>1, <1>2, <1>3 DEF ComputeWorks
  <2>2. Len(op.reads) = 3
    BY <2>1
  <2>3. PICK v : v = mem[op.reads[3]]
    OBVIOUS
  <2>4. v \in MergeOf(k[1], k[2] - 1)
    <3>1. 1 - 1 = 0 /\ \A i \in 1..0 : FALSE
      OBVIOUS
    <3> QED
      BY <1>1, <1>4, <2>3, <3>1 DEF AttendIn, MergeIn, Here
  <2>5. v = <<"merge", v[2]>>
    BY <2>4 DEF MergeOf
  <2> QED
    BY <1>7, <2>2, <2>3, <2>4, <2>5
<1>10. Attended(op) \in MergeOf(k[1], k[2])
  BY <1>3, <1>5, <1>6, <1>7, <1>8, <1>9, MergeAdds
<1> QED
  BY <1>1, <1>3, <1>10

(* What work writes is what its cell should hold. *)
LEMMA RightWrites ==
    ASSUME HostTypeOK, WorkInv, FenceInv, DataInv, NEW s \in Streams, NEW op, op = queue[s][1],
           1 \in 1..Len(queue[s])
    PROVE  /\ op.do = "query" => Written(op) \in QueryOf(op.about)
           /\ op.do = "stack" => Written(op) \in StackOf(op.about)
           /\ op.do = "attend" =>
                op.about \in Chunks /\ Written(op) \in MergeOf(op.about[1], op.about[2])
<1>1. op.do = "query" => Written(op) \in QueryOf(op.about)
  BY DEF Written, QueryOf
<1>2. op.do = "stack" => Written(op) \in StackOf(op.about)
  BY DEF Written, Stacked, StackOf
<1>3. ASSUME op.do = "attend"
      PROVE  op.about \in Chunks /\ Written(op) \in MergeOf(op.about[1], op.about[2])
  <2>1. s = "compute"
    BY <1>3, Names DEF WorkInv, CallerWork, TransferWork
  <2>2. Written(op) = Attended(op)
    BY <1>3 DEF Written
  <2> QED
    BY <1>3, <2>1, <2>2, AttendedOf
<1> QED
  BY <1>1, <1>2, <1>3

(* When a stream does its first work, cells hold what they should. *)
LEMMA HereExecute ==
    ASSUME HostTypeOK, WorkInv, FenceInv, DataInv, NEW s \in Streams, Execute(s),
           NEW g, g = mem',
           NEW c, c = queue'["caller"], NEW t, t = queue'["transfer"],
           NEW p, p = queue'["compute"], NEW b, b = queue["caller"],
           NEW u, u = queue["transfer"], NEW q, q = queue["compute"]
    PROVE  /\ \A x \in CallerCells : \A n : QueryIn(mem, b, x, n) => QueryIn(g, c, x, n)
           /\ \A x \in TransferCells : \A k : StackIn(mem, u, x, k) => StackIn(g, t, x, k)
           /\ s # "compute" => \A x \in ComputeCells : \A n, h, i :
                MergeIn(mem, q, x, n, h, i) => MergeIn(g, p, x, n, h, i)
           /\ s = "compute" => \A x \in ComputeCells : \A n, h : \A i \in 1..Len(q) :
                MergeIn(mem, q, x, n, h, i) => MergeIn(g, p, x, n, h, i - 1)
           /\ \A x \in ComputeCells : \A n, h :
                MergeIn(mem, q, x, n, h, Len(q)) => MergeIn(g, p, x, n, h, Len(p))
<1>1. PICK op : op = queue[s][1] /\ 1 \in 1..Len(queue[s])
  BY ExecuteQueues
<1>2. /\ s = "caller"   => Shrunk(b, c) /\ op = b[1] /\ 1 \in 1..Len(b)
      /\ s = "transfer" => Shrunk(u, t) /\ op = u[1] /\ 1 \in 1..Len(u)
      /\ s = "compute"  => Shrunk(q, p) /\ op = q[1] /\ 1 \in 1..Len(q)
      /\ s # "caller" => c = b
      /\ s # "transfer" => t = u
      /\ s # "compute" => p = q
  BY <1>1, ExecuteQueues, Names
<1>3. /\ op.do # "mark" => op.writes \subseteq Pool(s)
      /\ \A x \in Cells : g[x] = IF op.do # "mark" /\ x \in op.writes
                                   THEN Written(op) ELSE mem[x]
  BY <1>1, OwnWrites
<1>4. /\ op.do = "query" => Written(op) \in QueryOf(op.about)
      /\ op.do = "stack" => Written(op) \in StackOf(op.about)
      /\ op.do = "attend" =>
           op.about \in Chunks /\ Written(op) \in MergeOf(op.about[1], op.about[2])
  BY <1>1, RightWrites
<1>5. /\ \A x \in CallerCells : x \in Cells /\ (s # "caller" => x \notin Pool(s))
      /\ \A x \in TransferCells : x \in Cells /\ (s # "transfer" => x \notin Pool(s))
      /\ \A x \in ComputeCells : x \in Cells /\ (s # "compute" => x \notin Pool(s))
  BY Names, ConstantsAssumption
<1>6. ASSUME NEW x \in CallerCells, NEW n, QueryIn(mem, b, x, n) PROVE QueryIn(g, c, x, n)
  <2>1. CASE s # "caller"
    <3>1. g[x] = mem[x]
      BY <1>3, <1>5, <2>1
    <3> QED
      BY <1>2, <1>6, <2>1, <3>1 DEF QueryIn
  <2>2. CASE s = "caller"
    <3>1. At(b, 1, "query", n) /\ Writes(b, 1, x) => g[x] \in QueryOf(n)
      BY <1>2, <1>3, <1>4, <1>5, <2>2 DEF At, Writes
    <3>2. ~Writes(b, 1, x) => g[x] = mem[x]
      BY <1>2, <1>3, <1>5, <2>2 DEF Writes
    <3>3. Shrunk(b, c) /\ Len(b) \in 1..Len(b) /\ Len(c) = Len(b) - 1
      BY <1>2, <2>2 DEF Shrunk
    <3>4. Here(mem[x], b, Len(b), x, "query", n, QueryOf(n))
      BY <1>6 DEF QueryIn
    <3>5. Here(g[x], c, Len(b) - 1, x, "query", n, QueryOf(n))
      BY <3>1, <3>2, <3>3, <3>4, HerePops
    <3> QED
      BY <3>3, <3>5 DEF QueryIn
  <2> QED
    BY <2>1, <2>2
<1>7. ASSUME NEW x \in TransferCells, NEW k, StackIn(mem, u, x, k) PROVE StackIn(g, t, x, k)
  <2>1. CASE s # "transfer"
    <3>1. g[x] = mem[x]
      BY <1>3, <1>5, <2>1
    <3> QED
      BY <1>2, <1>7, <2>1, <3>1 DEF StackIn
  <2>2. CASE s = "transfer"
    <3>1. At(u, 1, "stack", k) /\ Writes(u, 1, x) => g[x] \in StackOf(k)
      BY <1>2, <1>3, <1>4, <1>5, <2>2 DEF At, Writes
    <3>2. ~Writes(u, 1, x) => g[x] = mem[x]
      BY <1>2, <1>3, <1>5, <2>2 DEF Writes
    <3>3. Shrunk(u, t) /\ Len(u) \in 1..Len(u) /\ Len(t) = Len(u) - 1
      BY <1>2, <2>2 DEF Shrunk
    <3>4. Here(mem[x], u, Len(u), x, "stack", k, StackOf(k))
      BY <1>7 DEF StackIn
    <3>5. Here(g[x], t, Len(u) - 1, x, "stack", k, StackOf(k))
      BY <3>1, <3>2, <3>3, <3>4, HerePops
    <3> QED
      BY <3>3, <3>5 DEF StackIn
  <2> QED
    BY <2>1, <2>2
<1>8. ASSUME NEW x \in ComputeCells, NEW n, NEW h, s # "compute", NEW i,
             MergeIn(mem, q, x, n, h, i)
      PROVE  MergeIn(g, p, x, n, h, i)
  <2>1. g[x] = mem[x]
    BY <1>3, <1>5, <1>8
  <2> QED
    BY <1>2, <1>8, <2>1 DEF MergeIn
<1>9. ASSUME NEW x \in ComputeCells, NEW n, NEW h, s = "compute", NEW i \in 1..Len(q),
             MergeIn(mem, q, x, n, h, i)
      PROVE  MergeIn(g, p, x, n, h, i - 1)
  <2>1. At(q, 1, "attend", <<n, h>>) /\ Writes(q, 1, x) => g[x] \in MergeOf(n, h)
    <3> SUFFICES ASSUME At(q, 1, "attend", <<n, h>>), Writes(q, 1, x)
                 PROVE  g[x] \in MergeOf(n, h)
      OBVIOUS
    <3>1. op.do = "attend" /\ op.about = <<n, h>> /\ x \in op.writes
      BY <1>2, <1>9 DEF At, Writes
    <3>2. g[x] = Written(op)
      BY <1>3, <1>5, <3>1
    <3> QED
      BY <1>4, <3>1, <3>2
  <2>2. ~Writes(q, 1, x) => g[x] = mem[x]
    BY <1>2, <1>3, <1>5, <1>9 DEF Writes
  <2>3. Here(mem[x], q, i, x, "attend", <<n, h>>, MergeOf(n, h))
    BY <1>9 DEF MergeIn
  <2>4. Shrunk(q, p)
    BY <1>2, <1>9
  <2>5. Here(g[x], p, i - 1, x, "attend", <<n, h>>, MergeOf(n, h))
    BY <2>1, <2>2, <2>3, <2>4, HerePops
  <2> QED
    BY <2>5 DEF MergeIn
<1>10. ASSUME NEW x \in ComputeCells, NEW n, NEW h, MergeIn(mem, q, x, n, h, Len(q))
       PROVE  MergeIn(g, p, x, n, h, Len(p))
  <2>1. CASE s # "compute"
    BY <1>2, <1>8, <1>10, <2>1
  <2>2. CASE s = "compute"
    <3>1. Len(q) \in 1..Len(q) /\ Len(p) = Len(q) - 1
      BY <1>2, <2>2 DEF Shrunk
    <3>2. MergeIn(g, p, x, n, h, Len(q) - 1)
      BY <1>9, <1>10, <2>2, <3>1
    <3> QED
      BY <3>1, <3>2
  <2> QED
    BY <2>1, <2>2
<1> QED
  BY <1>6, <1>7, <1>8, <1>9, <1>10

(* What the caller is given as its result. *)
LEMMA ResultGiven ==
    ASSUME HostTypeOK, HostInv, WorkInv, FenceInv, DataInv, Execute("caller"),
           NEW op, op = queue["caller"][1], op.do = "convert",
           NEW v, v = mem[op.reads[1]]
    PROVE  /\ op.about \in Calls /\ v[2] \in Seq(Queries \X Staged)
           /\ ResultIn(v[2], op.about, call, chunks)
<1>1. PICK c, p, n : c = queue["caller"] /\ p = queue["compute"] /\ n = op.about
  OBVIOUS
<1>2. 1 \in 1..Len(c)
  BY <1>1, ExecuteQueues, Names
<1>3. CallerWork(op)
  BY <1>1, <1>2 DEF WorkInv
<1>4. n \in 1..ClosedCalls /\ n \in Calls /\ n <= call
  BY <1>1, <1>3, ConstantsAssumption DEF CallerWork, ClosedCalls, Calls, HostTypeOK, HostInv
<1>5. PICK h \in 1..MaxChunks : /\ MergeIn(mem, p, op.reads[1], n, h, Len(p))
                                /\ n = call => h = chunks
  <2>1. ConvertIn(mem, p, op, call, chunks)
    BY <1>1, <1>2 DEF DataInv
  <2> QED
    BY <1>1, <2>1 DEF ConvertIn
<1>6. PICK k : k = <<n, h>> /\ k \in Chunks /\ k[1] = n
  <2>1. PICK k : k = <<n, h>>
    OBVIOUS
  <2>2. k[1] = n
    BY <2>1
  <2>3. k \in Chunks
    BY <1>4, <2>1 DEF Chunks
  <2> QED
    BY <2>1, <2>2, <2>3
<1>7. v \in MergeOf(n, h)
  <2>1. DoneFence(passed, p, c, k)
    BY <1>1, <1>6, FenceParts
  <2>2. Fenced(passed, p, "attend", k, <<"done", n>>, c, "convert", n)
    BY <1>6, <2>1 DEF DoneFence
  <2>3. At(c, 1, "convert", n)
    BY <1>1, <1>2 DEF At
  <2>4. Here(v, p, Len(p), op.reads[1], "attend", k, MergeOf(n, h))
    BY <1>5, <1>6 DEF MergeIn
  <2> QED
    BY <2>2, <2>3, <2>4, Settled
<1>8. v = <<"merge", v[2]>> /\ v[2] \in Seq({<<"query", n>>} \X Staged)
  <2>1. PICK w, S : w = v /\ S = Seq({<<"query", n>>} \X Staged)
    OBVIOUS
  <2>2. w \in {"merge"} \X S
    BY <1>7, <2>1 DEF MergeOf
  <2>3. w = <<"merge", w[2]>> /\ w[2] \in S
    BY ONLY <2>2
  <2> QED
    BY <2>1, <2>3
<1>9. v[2] \in Seq(Queries \X Staged)
  <2>1. {<<"query", n>>} \X Staged \subseteq Queries \X Staged
    BY <1>4 DEF Queries
  <2> QED
    BY <1>8, <2>1, SeqMonotonic
<1> QED
  BY <1>1, <1>4, <1>5, <1>7, <1>8, <1>9 DEF ResultIn

(* When a stream does its first work. *)
LEMMA DataExecute ==
    ASSUME HostTypeOK, HostInv, WorkInv, FenceInv, DataInv, NEW s \in Streams, Execute(s)
    PROVE  DataInv'
<1>1. PICK b, u, w, c, t, p, g, res, op :
        /\ b = queue["caller"] /\ u = queue["transfer"] /\ w = queue["compute"]
        /\ c = queue'["caller"] /\ t = queue'["transfer"] /\ p = queue'["compute"]
        /\ g = mem' /\ res = result' /\ op = queue[s][1]
  OBVIOUS
<1>2. /\ s = "caller"   => Shrunk(b, c) /\ op = b[1] /\ 1 \in 1..Len(b)
      /\ s = "compute"  => Shrunk(w, p) /\ op = w[1] /\ 1 \in 1..Len(w)
      /\ s # "caller" => c = b
      /\ s # "compute" => p = w
  BY <1>1, ExecuteQueues, Names
<1>3. /\ UNCHANGED <<query, current, tensors, merged, call, chunk, chunks, pc>>
      /\ res = IF op.do = "convert" THEN [result EXCEPT ![op.about] = mem[op.reads[1]][2]]
               ELSE result
      /\ 1 \in 1..Len(queue[s])
  BY <1>1, ExecuteQueues DEF hostVars
<1>4. After(g, c, t, p, query, StagedCell, merged, call, chunk, RunSoFar, chunks, res)
  BY <1>1, <1>3 DEF After, RunSoFar, StagedCell
<1>5. /\ \A x \in CallerCells : \A n : QueryIn(mem, b, x, n) => QueryIn(g, c, x, n)
      /\ \A x \in TransferCells : \A k : StackIn(mem, u, x, k) => StackIn(g, t, x, k)
      /\ \A x \in ComputeCells : \A n, h :
           MergeIn(mem, w, x, n, h, Len(w)) => MergeIn(g, p, x, n, h, Len(p))
  BY <1>1, HereExecute
<1>6. /\ s # "compute" => \A x \in ComputeCells : \A n, h, i :
           MergeIn(mem, w, x, n, h, i) => MergeIn(g, p, x, n, h, i)
      /\ s = "compute" => \A x \in ComputeCells : \A n, h : \A i \in 1..Len(w) :
           MergeIn(mem, w, x, n, h, i) => MergeIn(g, p, x, n, h, i - 1)
  BY <1>1, HereExecute
<1>7. /\ query # NoCell => QueryIn(g, c, query, call)
      /\ StagedCell # NoCell => StackIn(g, t, StagedCell, <<call, chunk>>)
      /\ merged # NoCell => MergeIn(g, p, merged, call, RunSoFar, Len(p))
  <2>1. StagedCell \in TransferCells \cup {NoCell}
    BY DEF StagedCell, HostTypeOK
  <2> QED
    BY <1>1, <1>5, <2>1 DEF DataInv, HostTypeOK
<1>8. ASSUME NEW i \in 1..Len(p), p[i].do = "attend" PROVE AttendIn(g, c, t, p, p[i], i)
  <2>1. PICK j \in 1..Len(w) : /\ p[i] = w[j]
                               /\ s = "compute" => j = i + 1
                               /\ s # "compute" => j = i
    <3>1. CASE s # "compute"
      BY <1>2, <3>1
    <3>2. CASE s = "compute"
      <4>1. Shrunk(w, p) /\ i \in Nat
        BY <1>2, <3>2
      <4>2. p[i] = w[i + 1] /\ i + 1 \in 1..Len(w)
        BY <4>1, ShrunkPlaces
      <4> QED
        BY <3>2, <4>2
    <3> QED
      BY <3>1, <3>2
  <2>2. PICK a : a = w[j] /\ a = p[i]
    BY <2>1
  <2>3. AttendIn(mem, b, u, w, a, j) /\ ComputeWorks(a)
    BY <1>1, <1>8, <2>2 DEF DataInv, WorkInv
  <2>4. /\ a.reads[1] \in CallerCells /\ a.reads[2] \in TransferCells
        /\ a.about[2] > 1 => a.reads[3] \in ComputeCells
    <3>1. PICK q \in CallerCells, x \in TransferCells :
            IF a.about[2] = 1 THEN a.reads = <<q, x>>
            ELSE \E m \in ComputeCells : a.reads = <<q, x, m>>
      BY <1>8, <2>2, <2>3 DEF ComputeWorks
    <3>2. CASE a.about[2] = 1
      BY <3>1, <3>2
    <3>3. CASE a.about[2] # 1
      <4>1. PICK m \in ComputeCells : a.reads = <<q, x, m>>
        BY <3>1, <3>3
      <4> QED
        BY <4>1
    <3> QED
      BY <3>2, <3>3
  <2>5. QueryIn(g, c, a.reads[1], a.about[1]) /\ StackIn(g, t, a.reads[2], a.about)
    BY <1>5, <2>3, <2>4 DEF AttendIn
  <2>6. ASSUME a.about[2] > 1
        PROVE  MergeIn(g, p, a.reads[3], a.about[1], a.about[2] - 1, i - 1)
    <3>1. MergeIn(mem, w, a.reads[3], a.about[1], a.about[2] - 1, j - 1)
      BY <2>3, <2>6 DEF AttendIn
    <3>2. CASE s # "compute"
      BY <1>6, <2>1, <2>4, <2>6, <3>1, <3>2
    <3>3. CASE s = "compute"
      <4>1. j - 1 = i /\ i \in 1..Len(w)
        <5>1. Len(w) \in Nat
          BY <1>2, <3>3 DEF Shrunk
        <5> QED
          BY <2>1, <3>3, <5>1
      <4> QED
        BY <1>6, <2>4, <2>6, <3>1, <3>3, <4>1
    <3> QED
      BY <3>2, <3>3
  <2> QED
    BY <2>2, <2>5, <2>6 DEF AttendIn
<1>9. ASSUME NEW i \in 1..Len(c), c[i].do = "convert" PROVE ConvertIn(g, p, c[i], call, chunks)
  <2>1. PICK j \in 1..Len(b) : c[i] = b[j]
    <3>1. CASE s # "caller"
      BY <1>2, <3>1
    <3>2. CASE s = "caller"
      <4>1. Shrunk(b, c) /\ i \in Nat
        BY <1>2, <3>2
      <4>2. c[i] = b[i + 1] /\ i + 1 \in 1..Len(b)
        BY <4>1, ShrunkPlaces
      <4> QED
        BY <4>2
    <3> QED
      BY <3>1, <3>2
  <2>2. PICK a : a = b[j] /\ a = c[i]
    BY <2>1
  <2>3. ConvertIn(mem, w, a, call, chunks) /\ CallerWork(a)
    BY <1>1, <1>9, <2>2 DEF DataInv, WorkInv
  <2>4. a.reads[1] \in ComputeCells
    BY <1>9, <2>2, <2>3 DEF CallerWork
  <2> QED
    BY <1>5, <2>2, <2>3, <2>4 DEF ConvertIn
<1>10. /\ result \in [Calls -> Seq(Queries \X Staged)]
       /\ \A i \in Calls : ResultIn(result[i], i, call, chunks)
  BY DEF DataInv
<1>11. /\ res \in [Calls -> Seq(Queries \X Staged)]
       /\ \A i \in Calls : ResultIn(res[i], i, call, chunks)
  <2>1. CASE op.do # "convert"
    BY <1>3, <1>10, <2>1
  <2>2. CASE op.do = "convert"
    <3>1. s = "caller"
      BY <1>1, <1>3, <2>2, Names DEF WorkInv, TransferWork, ComputeWorks
    <3>2. PICK v : v = mem[op.reads[1]]
      OBVIOUS
    <3>3. /\ op.about \in Calls /\ v[2] \in Seq(Queries \X Staged)
          /\ ResultIn(v[2], op.about, call, chunks)
      BY <1>1, <2>2, <3>1, <3>2, ResultGiven
    <3>4. res = [result EXCEPT ![op.about] = v[2]]
      BY <1>3, <2>2, <3>2
    <3> QED
      BY <1>10, <3>3, <3>4
  <2> QED
    BY <2>1, <2>2
<1>12. DataFor(g, c, t, p, query, StagedCell, merged, call, chunk, RunSoFar, chunks, res)
  BY <1>7, <1>8, <1>9, <1>11 DEF DataFor
<1> QED
  BY <1>4, <1>12, DataTogether

(* What the cells hold in every step. *)
LEMMA DataInvKept ==
    ASSUME HostTypeOK, HostInv, WorkInv, HeldInv, FenceInv, DataInv, Next
    PROVE  DataInv'
BY DataDecode, DataNextChunk, DataQuiet, DataLoaderRaises, DataStage, DataRebind, DataRunChunk,
   DataFinish, DataExecute DEF Next

(***************************************************************************)
(* The theorems.                                                           *)
(***************************************************************************)
(* Nothing is queued or held yet. *)
LEMMA InitIInv ==
    ASSUME Init PROVE IInv
<1>1. \A s \in Streams : queue[s] = <<>> /\ Len(queue[s]) = 0 /\ IsSeq(queue[s])
  <2>1. IsSeq(<<>>)
    BY DEF IsSeq
  <2> QED
    BY <2>1 DEF Init
<1>2. /\ Len(queue["caller"]) = 0 /\ Len(queue["transfer"]) = 0
      /\ Len(queue["compute"]) = 0
  BY <1>1, Names
<1>3. HostTypeOK
  BY <1>1, ConstantsAssumption DEF Init, HostTypeOK
<1>4. HostInv
  BY DEF Init, HostInv, RunSoFar
<1>5. WorkInv
  BY <1>2 DEF Init, WorkInv
<1>6. HeldInv
  BY <1>1, <1>2 DEF Init, HeldInv, Held, Frees
<1>7. FenceInv
  BY <1>2 DEF Init, FenceInv, Fenced
<1>8. DataInv
  BY <1>2 DEF Init, DataInv, ResultIn, StagedCell
<1> QED
  BY <1>3, <1>4, <1>5, <1>6, <1>7, <1>8 DEF IInv

(* Every step keeps the invariant, and so does a step of nothing. *)
LEMMA NextIInv ==
    ASSUME IInv, [Next]_vars PROVE IInv'
<1>1. HostTypeOK /\ HostInv /\ WorkInv /\ HeldInv /\ FenceInv /\ DataInv
  BY DEF IInv
<1>2. CASE Next
  BY <1>1, <1>2, HostTypeKept, HostInvKept, WorkInvKept, HeldInvKept, FenceInvKept,
     DataInvKept DEF IInv
<1>3. CASE UNCHANGED vars
  <2>1. HostTypeOK'
    BY <1>1, <1>3 DEF vars, HostTypeOK
  <2>2. HostInv'
    BY <1>1, <1>3 DEF vars, HostInv, RunSoFar
  <2>3. WorkInv'
    <3>1. /\ StagedSoFar' = StagedSoFar /\ RunSoFar' = RunSoFar /\ ClosedCalls' = ClosedCalls
          /\ queue' = queue /\ passed' = passed /\ call' = call /\ direct' = direct
          /\ clone' = clone /\ pc' = pc
      BY <1>3 DEF vars, StagedSoFar, RunSoFar, ClosedCalls
    <3>2. \A k : /\ Upto(k, StagedSoFar)' <=> Upto(k, StagedSoFar)
                 /\ Upto(k, RunSoFar)' <=> Upto(k, RunSoFar)
      BY <3>1 DEF Upto
    <3>3. \A op : CallerWork(op)' <=> CallerWork(op)
      BY <3>1 DEF CallerWork
    <3>4. \A op : TransferWork(op)' <=> TransferWork(op)
      BY <3>1, <3>2 DEF TransferWork
    <3>5. \A op : ComputeWorks(op)' <=> ComputeWorks(op)
      BY <3>1, <3>2 DEF ComputeWorks
    <3> QED
      BY <1>1, <3>1, <3>2, <3>3, <3>4, <3>5 DEF WorkInv
  <2>4. HeldInv'
    BY <1>1, <1>3 DEF vars, HeldInv, Held
  <2>5. FenceInv'
    BY <1>1, <1>3 DEF vars, FenceInv
  <2>6. DataInv'
    BY <1>1, <1>3 DEF vars, DataInv, RunSoFar, StagedCell
  <2> QED
    BY <2>1, <2>2, <2>3, <2>4, <2>5, <2>6 DEF IInv
<1> QED
  BY <1>2, <1>3

(* Work is of its kinds and writes cells; what has passed are events. *)
LEMMA InvTypeOK ==
    ASSUME IInv PROVE TypeOK
<1>1. HostTypeOK /\ WorkInv /\ DataInv
  BY DEF IInv
<1>2. \A s \in Streams : \A i \in 1..Len(queue[s]) :
         queue[s][i].do \in Kinds /\ queue[s][i].writes \subseteq Cells
  <2> SUFFICES ASSUME NEW s \in Streams, NEW i \in 1..Len(queue[s])
               PROVE  queue[s][i].do \in Kinds /\ queue[s][i].writes \subseteq Cells
    OBVIOUS
  <2>1. CASE s = "caller"
    <3>1. CallerWork(queue[s][i])
      BY <1>1, <2>1 DEF WorkInv
    <3> QED
      BY <3>1, Names DEF CallerWork, Kinds
  <2>2. CASE s = "transfer"
    <3>1. TransferWork(queue[s][i])
      BY <1>1, <2>2 DEF WorkInv
    <3> QED
      BY <3>1, Names DEF TransferWork, Kinds
  <2>3. CASE s = "compute"
    <3>1. ComputeWorks(queue[s][i])
      BY <1>1, <2>3 DEF WorkInv
    <3> QED
      BY <3>1, Names DEF ComputeWorks, Kinds
  <2> QED
    BY <2>1, <2>2, <2>3, Names
<1>3. passed \subseteq Events
  <2> SUFFICES ASSUME NEW e \in passed PROVE e \in Events
    OBVIOUS
  <2>1. call \in 0..MaxCalls /\ \A n \in 1..call : n \in Calls
    BY <1>1, ConstantsAssumption DEF HostTypeOK, Calls
  <2>2. \A n \in 1..ClosedCalls : n \in 1..call
    BY <2>1, ConstantsAssumption DEF ClosedCalls
  <2>3. CASE \E n \in 1..call : e = <<"query", n>>
    BY <2>1, <2>3 DEF Events
  <2>4. CASE \E n \in 1..ClosedCalls : e = <<"done", n>>
    BY <2>1, <2>2, <2>4 DEF Events
  <2>5. CASE \E k \in Chunks : e \in {<<"own", k>>, <<"ready", k>>}
    BY <2>5 DEF Events
  <2> QED
    BY <1>1, <2>3, <2>4, <2>5 DEF WorkInv
<1>4. /\ {query, clone, tensors, current, merged} \subseteq Cells \cup {NoCell}
      /\ result \in [Calls -> Seq(Queries \X Staged)]
  BY <1>1, Names DEF HostTypeOK, DataInv
<1> QED
  BY <1>1, <1>2, <1>3, <1>4 DEF TypeOK, HostTypeOK

(* What a stream reads of another one's pool is held or waits for a mark. *)
LEMMA InvPendingReadsHeld ==
    ASSUME IInv PROVE PendingReadsHeld
<1>1. HostTypeOK /\ HostInv /\ WorkInv /\ HeldInv
  BY DEF IInv
<1> SUFFICES ASSUME NEW s \in Streams, NEW i \in 1..Len(queue[s]),
                    NEW k \in 1..Len(queue[s][i].reads), queue[s][i].reads[k] \in free
             PROVE  queue[s][i].reads[k] \in Pool(s)
  BY DEF PendingReadsHeld
<1>2. PICK op, x : op = queue[s][i] /\ x = op.reads[k] /\ Reads(queue[s], i, x)
  BY DEF Reads
<1>3. CASE s = "caller"
  <2>1. CallerWork(op)
    BY <1>1, <1>2, <1>3 DEF WorkInv
  <2>2. x \in ComputeCells
    BY <1>2, <2>1 DEF CallerWork
  <2>3. \E j \in (i + 1)..Len(queue[s]) : Frees(queue[s], j, x)
    BY <1>1, <1>2, <1>3, <2>2 DEF HeldInv
  <2>4. PICK j \in 1..Len(queue[s]) : Frees(queue[s], j, x)
    BY <2>3 DEF Frees
  <2>5. x \notin free
    BY <1>1, <2>2, <2>4, Names DEF HeldInv
  <2> QED
    BY <1>2, <2>5
<1>4. CASE s = "transfer"
  <2>1. TransferWork(op)
    BY <1>1, <1>2, <1>4 DEF WorkInv
  <2>2. x = clone /\ direct /\ pc = "sync"
    BY <1>2, <2>1 DEF TransferWork
  <2>3. clone # NoCell
    BY <1>1, <2>2 DEF HostInv
  <2>4. clone \notin free
    BY <1>1, <2>3 DEF HeldInv, Held
  <2> QED
    BY <1>2, <2>2, <2>4
<1>5. CASE s = "compute"
  <2>1. ComputeWorks(op)
    BY <1>1, <1>2, <1>5 DEF WorkInv
  <2>2. x \in Cells
    BY <1>2, <2>1, Names DEF ComputeWorks
  <2> SUFFICES ASSUME x \in CallerCells \cup TransferCells PROVE x \notin free
    BY <1>2, <1>5, <2>2, Names
  <2>3. \/ merged # NoCell /\ x \in {query, tensors}
        \/ \E j \in (i + 1)..Len(queue[s]) : Frees(queue[s], j, x)
    BY <1>1, <1>2, <1>5 DEF HeldInv
  <2>4. CASE merged # NoCell /\ x \in {query, tensors}
    <3>1. x \in Held
      BY <2>2, <2>4, Names DEF Held
    <3> QED
      BY <1>1, <3>1 DEF HeldInv
  <2>5. CASE \E j \in (i + 1)..Len(queue[s]) : Frees(queue[s], j, x)
    <3>1. PICK j \in 1..Len(queue[s]) : Frees(queue[s], j, x)
      BY <2>5 DEF Frees
    <3> QED
      BY <1>1, <2>2, <3>1 DEF HeldInv
  <2> QED
    BY <2>3, <2>4, <2>5
<1> QED
  BY <1>3, <1>4, <1>5, Names

(* A result is the merge of attention over its own call's chunks. *)
LEMMA InvResultsExact ==
    ASSUME IInv PROVE ResultsExact
<1> SUFFICES ASSUME NEW n \in Calls
             PROVE  ResultExact(n) /\ (n = call /\ result[n] # <<>> => Len(result[n]) = chunks)
  BY DEF ResultsExact
<1>1. PICK r : r = result[n] /\ ResultIn(r, n, call, chunks)
  BY DEF IInv, DataInv
<1>2. CASE r = <<>>
  BY <1>1, <1>2 DEF ResultExact
<1>3. CASE r # <<>>
  <2>1. PICK h \in 1..MaxChunks : <<"merge", r>> \in MergeOf(n, h) /\ (n = call => h = chunks)
    BY <1>1, <1>3 DEF ResultIn
  <2>2. PICK S, m : S = {<<"query", n>>} \X Staged /\ m = <<"merge", r>>
    OBVIOUS
  <2>3. m[2] = r
    BY <2>2
  <2>4. r \in Seq(S) /\ Len(r) = h /\ \A i \in 1..h : r[i][2][2] = <<n, i>>
    BY <2>1, <2>2, <2>3 DEF MergeOf
  <2>5. ASSUME NEW i \in 1..Len(r)
        PROVE  r[i][1] = <<"query", n>> /\ r[i][2] \in {"staged", "spoiled"} \X {<<n, i>>}
    <3>1. PICK e : e = r[i] /\ e \in S /\ e[2][2] = <<n, i>>
      BY <2>4, <2>5
    <3>2. e[1] = <<"query", n>> /\ e[2] \in Staged
      BY <2>2, <3>1
    <3>3. PICK b : b = e[2] /\ b \in {"staged", "spoiled"} \X Chunks /\ b[2] = <<n, i>>
      BY <3>1, <3>2 DEF Staged
    <3>4. b \in {"staged", "spoiled"} \X {<<n, i>>}
      BY <3>3
    <3> QED
      BY <3>1, <3>2, <3>3, <3>4
  <2> QED
    BY <1>1, <2>1, <2>4, <2>5 DEF ResultExact
<1> QED
  BY <1>2, <1>3

(* The invariant holds throughout. *)
THEOREM Invariant == Spec => []IInv
<1>1. Init => IInv
  BY InitIInv
<1>2. IInv /\ [Next]_vars => IInv'
  BY NextIInv
<1> QED
  BY <1>1, <1>2, PTL DEF Spec

(* Queues hold work of the kinds there are, events are those of calls and  *)
(* chunks so far, and results are lists of what attention has read.        *)
THEOREM TypeCorrect == Spec => []TypeOK
<1>1. IInv => TypeOK
  BY InvTypeOK
<1> QED
  BY <1>1, Invariant, PTL

(* Whatever the streams' progress, memory of another stream that enqueued  *)
(* work (attention, conversion, stacking) will read has not been handed    *)
(* back to the allocator (pipeline.py's record_stream calls).              *)
THEOREM ReadsAreHeld == Spec => []PendingReadsHeld
<1>1. IInv => PendingReadsHeld
  BY InvPendingReadsHeld
<1> QED
  BY <1>1, Invariant, PTL

(* What the caller reads is the merge, in order, of attention of its own   *)
(* query over every chunk of its own call, and over all of them.           *)
THEOREM ResultsAreExact == Spec => []ResultsExact
<1>1. IInv => ResultsExact
  BY InvResultsExact
<1> QED
  BY <1>1, Invariant, PTL

(***************************************************************************)
(* What streams wait for.                                                  *)
(***************************************************************************)
(* Queue q waits for the event once at most; it has happened or queue p    *)
(* still records it.                                                       *)
Awaited(happened, p, q, event) ==
    \A j \in 1..Len(q) : At(q, j, "wait", event) =>
        /\ event \in happened \/ \E i \in 1..Len(p) : At(p, i, "record", event)
        /\ \A k \in 1..Len(q) : At(q, k, "wait", event) => k = j

(* No record of the event comes behind a wait for the other event.         *)
RecordsFirst(q, event, other) ==
    \A i, j \in 1..Len(q) :
        At(q, j, "record", event) /\ At(q, i, "wait", other) => j < i

(* The events of calls, the events of chunks, and their order.             *)
CallWaits(happened, c, p, n) ==
    Awaited(happened, c, p, <<"query", n>>) /\ Awaited(happened, p, c, <<"done", n>>)
ChunkWaits(happened, t, p, k) ==
    /\ Awaited(happened, t, p, <<"ready", k>>) /\ Awaited(happened, t, t, <<"own", k>>)
    /\ RecordsFirst(t, <<"own", k>>, <<"own", k>>)
CallOrder(c, p, m, n) ==
    /\ m <= n => RecordsFirst(c, <<"query", m>>, <<"done", n>>)
    /\ m < n => RecordsFirst(p, <<"done", m>>, <<"query", n>>)

(* All of that for queues c, t and p.                                      *)
OrderedWaits(happened, c, t, p) ==
    /\ \A n \in Calls : CallWaits(happened, c, p, n)
    /\ \A k \in Chunks : ChunkWaits(happened, t, p, k)
    /\ \A m, n \in Calls : CallOrder(c, p, m, n)

(* The compute stream waits for nothing of a chunk it was not given, the   *)
(* transfer stream for nothing of one that was not staged.                 *)
WaitsFor(q, events) == \A i \in 1..Len(q) : q[i].do = "wait" => q[i].about \in events

RunChunks    == {k \in Chunks : Upto(k, RunSoFar)}
StagedChunks == {k \in Chunks : Upto(k, StagedSoFar)}

ComputeEvents  == {<<"query", k[1]>> : k \in RunChunks} \cup {<<"ready", k>> : k \in RunChunks}
TransferEvents == {<<"own", k>> : k \in StagedChunks}

(* A staged chunk is ready, or its record is on the transfer stream.       *)
ReadyComes(happened, t, chk) ==
    <<"ready", chk>> \in happened \/ \E i \in 1..Len(t) : At(t, i, "record", <<"ready", chk>>)

WaitInv ==
    /\ OrderedWaits(passed, queue["caller"], queue["transfer"], queue["compute"])
    /\ WaitsFor(queue["compute"], ComputeEvents)
    /\ WaitsFor(queue["transfer"], TransferEvents)
    /\ pc \in {"sync", "rebind", "run"} => ReadyComes(passed, queue["transfer"], This)

(* No new waits: the old ones are answered as they were.                   *)
LEMMA AwaitedGrows ==
    ASSUME NEW happened, NEW p, NEW p2, NEW kp, NEW q, NEW q2, NEW kq, NEW event,
           Awaited(happened, p, q, event), Grown(p, p2, kp), Grown(q, q2, kq),
           \A j \in Len(q) + 1..Len(q2) : ~At(q2, j, "wait", event)
    PROVE  Awaited(happened, p2, q2, event)
<1>1. Len(p) \in Nat /\ Len(p2) \in Nat /\ Len(q) \in Nat /\ Len(q2) \in Nat
  BY DEF Grown
<1>2. ASSUME NEW j \in 1..Len(q2), At(q2, j, "wait", event)
      PROVE  j \in 1..Len(q) /\ At(q, j, "wait", event)
  <2>1. j \in 1..Len(q)
    <3> SUFFICES ASSUME j \notin 1..Len(q) PROVE FALSE
      OBVIOUS
    <3>1. j \in Len(q) + 1..Len(q2)
      BY <1>1
    <3> QED
      BY <1>2, <3>1
  <2> QED
    BY <1>2, <2>1, GrownPlaces
<1> SUFFICES ASSUME NEW j \in 1..Len(q2), At(q2, j, "wait", event)
             PROVE  /\ event \in happened \/ \E i \in 1..Len(p2) : At(p2, i, "record", event)
                    /\ \A k \in 1..Len(q2) : At(q2, k, "wait", event) => k = j
  BY DEF Awaited
<1>3. /\ event \in happened \/ \E i \in 1..Len(p) : At(p, i, "record", event)
      /\ \A k \in 1..Len(q) : At(q, k, "wait", event) => k = j
  BY <1>2 DEF Awaited
<1>4. event \in happened \/ \E i \in 1..Len(p2) : At(p2, i, "record", event)
  <2> SUFFICES ASSUME NEW i \in 1..Len(p), At(p, i, "record", event)
               PROVE  \E l \in 1..Len(p2) : At(p2, l, "record", event)
    BY <1>3
  <2>1. i \in 1..Len(p2) /\ At(p2, i, "record", event)
    BY GrownPlaces
  <2> QED
    BY <2>1
<1> QED
  BY <1>2, <1>3, <1>4

(* The first wait for an event, with its record.                           *)
LEMMA AwaitedStarts ==
    ASSUME NEW happened, NEW p, NEW q, NEW q2, NEW kq, NEW event,
           Grown(q, q2, kq), \A j \in 1..Len(q) : ~At(q, j, "wait", event),
           \A i, j \in Len(q) + 1..Len(q2) :
               At(q2, i, "wait", event) /\ At(q2, j, "wait", event) => i = j,
           event \in happened \/ \E i \in 1..Len(p) : At(p, i, "record", event)
    PROVE  Awaited(happened, p, q2, event)
<1>1. Len(q) \in Nat /\ Len(q2) \in Nat
  BY DEF Grown
<1>2. ASSUME NEW j \in 1..Len(q2), At(q2, j, "wait", event)
      PROVE  j \in Len(q) + 1..Len(q2)
  <2>1. j \notin 1..Len(q)
    BY <1>2, GrownPlaces
  <2> QED
    BY <1>1, <2>1
<1> QED
  BY <1>2 DEF Awaited

(* A record stays on its queue until the event happens.                    *)
LEMMA RecordPops ==
    ASSUME NEW after, NEW p, NEW p2, NEW event, NEW i \in 1..Len(p), At(p, i, "record", event),
           p2 = p \/ Shrunk(p, p2),
           Shrunk(p, p2) /\ At(p, 1, "record", event) => event \in after
    PROVE  event \in after \/ \E l \in 1..Len(p2) : At(p2, l, "record", event)
<1>1. CASE p2 = p
  BY <1>1
<1>2. CASE Shrunk(p, p2) /\ i = 1
  BY <1>2
<1>3. CASE Shrunk(p, p2) /\ i # 1
  <2>1. PICK l \in Nat : l + 1 = i /\ l \in 1..Len(p2)
    <3>1. Len(p) \in Nat /\ Len(p2) = Len(p) - 1
      BY <1>3 DEF Shrunk
    <3>2. i - 1 \in Nat /\ (i - 1) + 1 = i /\ i - 1 \in 1..Len(p2)
      BY <1>3, <3>1
    <3> QED
      BY <3>2
  <2>2. At(p2, l, "record", event)
    BY <1>3, <2>1, ShrunkPlaces
  <2> QED
    BY <2>1, <2>2
<1> QED
  BY <1>1, <1>2, <1>3

(* A wait that was answered is gone when its event is used up, and a       *)
(* record that is gone has let the event happen.                           *)
LEMMA AwaitedPops ==
    ASSUME NEW happened, NEW after, NEW p, NEW p2, NEW q, NEW q2, NEW event,
           Awaited(happened, p, q, event),
           p2 = p \/ Shrunk(p, p2), q2 = q \/ Shrunk(q, q2),
           Shrunk(p, p2) /\ At(p, 1, "record", event) => event \in after,
           event \in happened => \/ event \in after
                                 \/ Shrunk(q, q2) /\ At(q, 1, "wait", event)
    PROVE  Awaited(after, p2, q2, event)
<1> SUFFICES ASSUME NEW j \in 1..Len(q2), At(q2, j, "wait", event)
             PROVE  /\ event \in after \/ \E i \in 1..Len(p2) : At(p2, i, "record", event)
                    /\ \A k \in 1..Len(q2) : At(q2, k, "wait", event) => k = j
  BY DEF Awaited
<1>1. ASSUME NEW k \in 1..Len(q2), At(q2, k, "wait", event)
      PROVE  \E h \in 1..Len(q) : /\ At(q, h, "wait", event)
                                  /\ (Shrunk(q, q2) => h = k + 1) /\ (~Shrunk(q, q2) => h = k)
  <2>1. CASE Shrunk(q, q2)
    <3>1. At(q, k + 1, "wait", event) /\ k + 1 \in 1..Len(q)
      BY <1>1, <2>1, ShrunkPlaces
    <3> QED
      BY <2>1, <3>1
  <2>2. CASE ~Shrunk(q, q2)
    BY <1>1, <2>2
  <2> QED
    BY <2>1, <2>2
<1>2. PICK h \in 1..Len(q) : /\ At(q, h, "wait", event)
                             /\ (Shrunk(q, q2) => h = j + 1) /\ (~Shrunk(q, q2) => h = j)
  BY <1>1
<1>3. /\ event \in happened \/ \E i \in 1..Len(p) : At(p, i, "record", event)
      /\ \A k \in 1..Len(q) : At(q, k, "wait", event) => k = h
  BY <1>2 DEF Awaited
<1>4. event \in happened => event \in after
  <2> SUFFICES ASSUME Shrunk(q, q2), At(q, 1, "wait", event) PROVE FALSE
    OBVIOUS
  <2>1. 1 \in 1..Len(q)
    BY DEF At
  <2>2. h = 1 /\ h = j + 1
    BY <1>2, <1>3, <2>1
  <2> QED
    BY <2>2
<1>5. ASSUME NEW i \in 1..Len(p), At(p, i, "record", event)
      PROVE  event \in after \/ \E l \in 1..Len(p2) : At(p2, l, "record", event)
  BY <1>5, RecordPops
<1>6. ASSUME NEW k \in 1..Len(q2), At(q2, k, "wait", event)
      PROVE  k = j
  <2>1. PICK i \in 1..Len(q) : /\ At(q, i, "wait", event)
                               /\ (Shrunk(q, q2) => i = k + 1) /\ (~Shrunk(q, q2) => i = k)
    BY <1>1, <1>6
  <2>2. i = h
    BY <1>3, <2>1
  <2> QED
    BY <1>2, <2>1, <2>2
<1> QED
  BY <1>3, <1>4, <1>5, <1>6

(* Records at the end of a queue without a wait before them.               *)
LEMMA RecordsFirstGrows ==
    ASSUME NEW q, NEW q2, NEW k, NEW event, NEW other,
           RecordsFirst(q, event, other), Grown(q, q2, k),
           \A j \in Len(q) + 1..Len(q2) : At(q2, j, "record", event) =>
               /\ \A i \in 1..Len(q) : ~At(q, i, "wait", other)
               /\ \A i \in Len(q) + 1..Len(q2) : At(q2, i, "wait", other) => j < i
    PROVE  RecordsFirst(q2, event, other)
<1>1. Len(q) \in Nat /\ Len(q2) \in Nat
  BY DEF Grown
<1> SUFFICES ASSUME NEW i \in 1..Len(q2), NEW j \in 1..Len(q2),
                    At(q2, j, "record", event), At(q2, i, "wait", other)
             PROVE  j < i
  BY DEF RecordsFirst
<1>2. CASE j \in 1..Len(q) /\ i \in 1..Len(q)
  <2>1. At(q, j, "record", event) /\ At(q, i, "wait", other)
    BY <1>2, GrownPlaces
  <2> QED
    BY <1>2, <2>1 DEF RecordsFirst
<1>3. CASE j \in 1..Len(q) /\ i \notin 1..Len(q)
  BY <1>1, <1>3
<1>4. CASE j \notin 1..Len(q)
  <2>1. j \in Len(q) + 1..Len(q2)
    BY <1>1, <1>4
  <2>2. i \notin 1..Len(q)
    BY <2>1, GrownPlaces
  <2>3. i \in Len(q) + 1..Len(q2)
    BY <1>1, <2>2
  <2> QED
    BY <2>1, <2>3
<1> QED
  BY <1>2, <1>3, <1>4

(* The first work is done: what comes first still does.                    *)
LEMMA RecordsFirstPops ==
    ASSUME NEW q, NEW q2, NEW event, NEW other,
           RecordsFirst(q, event, other), q2 = q \/ Shrunk(q, q2)
    PROVE  RecordsFirst(q2, event, other)
<1>1. CASE Shrunk(q, q2)
  <2> SUFFICES ASSUME NEW i \in 1..Len(q2), NEW j \in 1..Len(q2),
                      At(q2, j, "record", event), At(q2, i, "wait", other)
               PROVE  j < i
    BY DEF RecordsFirst
  <2>1. /\ At(q, j + 1, "record", event) /\ j + 1 \in 1..Len(q)
        /\ At(q, i + 1, "wait", other) /\ i + 1 \in 1..Len(q)
    BY <1>1, ShrunkPlaces
  <2>2. j + 1 < i + 1
    BY <2>1 DEF RecordsFirst
  <2> QED
    BY <2>2
<1>2. CASE q2 = q
  BY <1>2
<1> QED
  BY <1>1, <1>2

(* More may be waited for.                                                 *)
LEMMA WaitsForGrows ==
    ASSUME NEW q, NEW q2, NEW k, NEW events, NEW more, WaitsFor(q, events), Grown(q, q2, k),
           events \subseteq more,
           \A i \in Len(q) + 1..Len(q2) : q2[i].do = "wait" => q2[i].about \in more
    PROVE  WaitsFor(q2, more)
<1> SUFFICES ASSUME NEW i \in 1..Len(q2), q2[i].do = "wait" PROVE q2[i].about \in more
  BY DEF WaitsFor
<1>1. CASE i \in 1..Len(q)
  BY <1>1, GrownPlaces DEF WaitsFor
<1>2. CASE i \notin 1..Len(q)
  <2>1. i \in Len(q) + 1..Len(q2)
    BY <1>2 DEF Grown
  <2> QED
    BY <2>1
<1> QED
  BY <1>1, <1>2

(* And less is.                                                            *)
LEMMA WaitsForPops ==
    ASSUME NEW q, NEW q2, NEW events, NEW more, WaitsFor(q, events), q2 = q \/ Shrunk(q, q2),
           events \subseteq more
    PROVE  WaitsFor(q2, more)
<1> SUFFICES ASSUME NEW i \in 1..Len(q2), q2[i].do = "wait" PROVE q2[i].about \in more
  BY DEF WaitsFor
<1>1. CASE q2 = q
  BY <1>1 DEF WaitsFor
<1>2. CASE Shrunk(q, q2)
  <2>1. i + 1 \in 1..Len(q) /\ q2[i] = q[i + 1]
    BY <1>2, ShrunkPlaces
  <2> QED
    BY <2>1 DEF WaitsFor
<1> QED
  BY <1>1, <1>2

(* What was not given to a stream is not waited for.                       *)
LEMMA NotWaited ==
    ASSUME HostTypeOK, WorkInv, WaitInv
    PROVE  /\ \A k : ~Upto(k, RunSoFar) =>
                \A i : ~At(queue["compute"], i, "wait", <<"ready", k>>)
           /\ \A n : (\A k \in Chunks : k[1] = n => ~Upto(k, RunSoFar)) =>
                \A i : ~At(queue["compute"], i, "wait", <<"query", n>>)
           /\ \A k : ~Upto(k, StagedSoFar) =>
                \A i : ~At(queue["transfer"], i, "wait", <<"own", k>>)
           /\ \A n : n \notin 1..ClosedCalls =>
                \A i : ~At(queue["caller"], i, "wait", <<"done", n>>)
<1>1. PICK c, t, p : c = queue["caller"] /\ t = queue["transfer"] /\ p = queue["compute"]
  OBVIOUS
<1>2. /\ \A i \in 1..Len(p) : p[i].do = "wait" => p[i].about \in ComputeEvents
      /\ \A i \in 1..Len(t) : t[i].do = "wait" => t[i].about \in TransferEvents
      /\ \A i \in 1..Len(c) : CallerWork(c[i])
  BY <1>1 DEF WaitInv, WaitsFor, WorkInv
<1>3. ASSUME NEW k, NEW i, At(p, i, "wait", <<"ready", k>>) PROVE Upto(k, RunSoFar)
  <2>1. <<"ready", k>> \in ComputeEvents
    BY <1>2, <1>3 DEF At
  <2> QED
    BY <2>1 DEF ComputeEvents, RunChunks
<1>4. ASSUME NEW n, NEW i, At(p, i, "wait", <<"query", n>>)
      PROVE  \E k \in Chunks : k[1] = n /\ Upto(k, RunSoFar)
  <2>1. <<"query", n>> \in ComputeEvents
    BY <1>2, <1>4 DEF At
  <2> QED
    BY <2>1 DEF ComputeEvents, RunChunks
<1>5. ASSUME NEW k, NEW i, At(t, i, "wait", <<"own", k>>) PROVE Upto(k, StagedSoFar)
  <2>1. <<"own", k>> \in TransferEvents
    BY <1>2, <1>5 DEF At
  <2> QED
    BY <2>1 DEF TransferEvents, StagedChunks
<1>6. ASSUME NEW n, NEW i, At(c, i, "wait", <<"done", n>>) PROVE n \in 1..ClosedCalls
  BY <1>2, <1>6 DEF At, CallerWork
<1> QED
  BY <1>1, <1>3, <1>4, <1>5, <1>6

(* What may be waited for grows with every step.                           *)
LEMMA EventsGrow ==
    ASSUME HostTypeOK, HostInv, Next
    PROVE  ComputeEvents \subseteq ComputeEvents' /\ TransferEvents \subseteq TransferEvents'
<1>1. PICK r, s, r2, s2 : /\ r = RunChunks /\ s = StagedChunks
                          /\ r2 = RunChunks' /\ s2 = StagedChunks'
  OBVIOUS
<1>2. r \subseteq r2
  <2>1. \A k \in Chunks : Upto(k, RunSoFar) => Upto(k, RunSoFar)'
    BY Progress
  <2>2. RunChunks \subseteq RunChunks'
    BY <2>1 DEF RunChunks
  <2> QED
    BY <1>1, <2>2
<1>3. s \subseteq s2
  <2>1. \A k \in Chunks : Upto(k, StagedSoFar) => Upto(k, StagedSoFar)'
    BY Progress
  <2>2. StagedChunks \subseteq StagedChunks'
    BY <2>1 DEF StagedChunks
  <2> QED
    BY <1>1, <2>2
<1>4. /\ ComputeEvents = {<<"query", k[1]>> : k \in r} \cup {<<"ready", k>> : k \in r}
      /\ ComputeEvents' = {<<"query", k[1]>> : k \in r2} \cup {<<"ready", k>> : k \in r2}
  BY <1>1 DEF ComputeEvents
<1>5. /\ TransferEvents = {<<"own", k>> : k \in s} /\ TransferEvents' = {<<"own", k>> : k \in s2}
  BY <1>1 DEF TransferEvents
<1> QED
  BY <1>2, <1>3, <1>4, <1>5

(* WaitInv after a step.                                                   *)
LEMMA WaitTogether ==
    ASSUME NEW c, c = queue'["caller"], NEW t, t = queue'["transfer"],
           NEW p, p = queue'["compute"], NEW e, e = passed',
           OrderedWaits(e, c, t, p), WaitsFor(p, ComputeEvents'), WaitsFor(t, TransferEvents'),
           pc' \in {"sync", "rebind", "run"} => ReadyComes(e, t, This')
    PROVE  WaitInv'
<1>1. OrderedWaits(passed, queue["caller"], queue["transfer"], queue["compute"])'
  BY DEF OrderedWaits, CallWaits, ChunkWaits, CallOrder
<1>2. WaitsFor(queue["compute"], ComputeEvents)' /\ WaitsFor(queue["transfer"], TransferEvents)'
  BY DEF WaitsFor
<1>3. (pc \in {"sync", "rebind", "run"} => ReadyComes(passed, queue["transfer"], This))'
  BY DEF ReadyComes
<1> QED
  BY <1>1, <1>2, <1>3 DEF WaitInv

(* Neither waits nor records are added, and no chunk is staged.            *)
Indifferent(q, q2, k) ==
    /\ Grown(q, q2, k)
    /\ \A i \in Len(q) + 1..Len(q2) : q2[i].do # "wait" /\ q2[i].do # "record"

(* Such work leaves the waits as they are.                                 *)
LEMMA IndifferentKeeps ==
    ASSUME NEW happened, NEW c, NEW t, NEW p, NEW c2, NEW t2, NEW p2, NEW kc, NEW kt, NEW kp,
           OrderedWaits(happened, c, t, p),
           Indifferent(c, c2, kc), Indifferent(t, t2, kt), Indifferent(p, p2, kp)
    PROVE  OrderedWaits(happened, c2, t2, p2)
<1>1. /\ Grown(c, c2, kc) /\ Grown(t, t2, kt) /\ Grown(p, p2, kp)
      /\ \A i \in Len(c) + 1..Len(c2) : \A e : ~At(c2, i, "wait", e) /\ ~At(c2, i, "record", e)
      /\ \A i \in Len(t) + 1..Len(t2) : \A e : ~At(t2, i, "wait", e) /\ ~At(t2, i, "record", e)
      /\ \A i \in Len(p) + 1..Len(p2) : \A e : ~At(p2, i, "wait", e) /\ ~At(p2, i, "record", e)
  BY DEF Indifferent, At
<1>2. ASSUME NEW n \in Calls PROVE CallWaits(happened, c2, p2, n)
  <2>1. CallWaits(happened, c, p, n)
    BY DEF OrderedWaits
  <2> QED
    BY <1>1, <2>1, AwaitedGrows DEF CallWaits
<1>3. ASSUME NEW k \in Chunks PROVE ChunkWaits(happened, t2, p2, k)
  <2>1. ChunkWaits(happened, t, p, k)
    BY DEF OrderedWaits
  <2>2. Awaited(happened, t2, p2, <<"ready", k>>) /\ Awaited(happened, t2, t2, <<"own", k>>)
    BY <1>1, <2>1, AwaitedGrows DEF ChunkWaits
  <2>3. RecordsFirst(t2, <<"own", k>>, <<"own", k>>)
    BY <1>1, <2>1, RecordsFirstGrows DEF ChunkWaits
  <2> QED
    BY <2>2, <2>3 DEF ChunkWaits
<1>4. ASSUME NEW m \in Calls, NEW n \in Calls PROVE CallOrder(c2, p2, m, n)
  <2>1. CallOrder(c, p, m, n)
    BY DEF OrderedWaits
  <2> QED
    BY <1>1, <2>1, RecordsFirstGrows DEF CallOrder
<1> QED
  BY <1>2, <1>3, <1>4 DEF OrderedWaits

(* A step that adds such work and stages nothing.                          *)
LEMMA WaitFollow ==
    ASSUME HostTypeOK, HostInv, WaitInv, Next,
           NEW c, NEW t, NEW p, NEW kc, NEW kt, NEW kp,
           c = queue'["caller"], t = queue'["transfer"], p = queue'["compute"],
           Indifferent(queue["caller"], c, kc), Indifferent(queue["transfer"], t, kt),
           Indifferent(queue["compute"], p, kp), passed' = passed,
           \/ pc' \notin {"sync", "rebind", "run"}
           \/ pc \in {"sync", "rebind", "run"} /\ This' = This /\ t = queue["transfer"]
    PROVE  WaitInv'
<1>1. PICK b, s, q, e : /\ b = queue["caller"] /\ s = queue["transfer"]
                        /\ q = queue["compute"] /\ e = passed' /\ e = passed
  OBVIOUS
<1>2. /\ OrderedWaits(e, b, s, q) /\ WaitsFor(q, ComputeEvents) /\ WaitsFor(s, TransferEvents)
      /\ pc \in {"sync", "rebind", "run"} => ReadyComes(e, s, This)
  BY <1>1 DEF WaitInv
<1>3. Indifferent(b, c, kc) /\ Indifferent(s, t, kt) /\ Indifferent(q, p, kp)
  BY <1>1
<1>4. OrderedWaits(e, c, t, p)
  BY <1>2, <1>3, IndifferentKeeps
<1>5. WaitsFor(p, ComputeEvents')
  BY <1>2, <1>3, EventsGrow, WaitsForGrows DEF Indifferent
<1>6. WaitsFor(t, TransferEvents')
  BY <1>2, <1>3, EventsGrow, WaitsForGrows DEF Indifferent
<1>7. pc' \in {"sync", "rebind", "run"} => ReadyComes(e, t, This')
  BY <1>1, <1>2
<1> QED
  BY <1>1, <1>4, <1>5, <1>6, <1>7, WaitTogether

(* Nothing is added.                                                       *)
LEMMA IndifferentSame ==
    ASSUME NEW q, IsSeq(q) PROVE Indifferent(q, q, 0)
<1>1. Grown(q, q, 0)
  BY GrownSame
<1> QED
  BY <1>1, EndPlaces DEF Indifferent

(* One piece of work is added.                                             *)
LEMMA IndifferentOne ==
    ASSUME NEW q, NEW r, Grown(q, r, 1), r[Len(q) + 1].do \notin {"wait", "record"}
    PROVE  Indifferent(q, r, 1)
<1>1. \A i \in Len(q) + 1..Len(r) : i = Len(q) + 1
  BY EndPlaces
<1> QED
  BY <1>1 DEF Indifferent

(* Decode, the loader and the ends of the loop and of staging.             *)
LEMMA WaitHost ==
    ASSUME HostTypeOK, HostInv, WaitInv, Next,
           \/ \E n \in 1..MaxChunks : Decode(n)
           \/ NextChunk \/ NoMoreChunks \/ StageSync \/ Rebind \/ LoaderRaises
    PROVE  WaitInv'
<1>1. PICK b, s, q, c, t, p :
        /\ b = queue["caller"] /\ s = queue["transfer"] /\ q = queue["compute"]
        /\ c = queue'["caller"] /\ t = queue'["transfer"] /\ p = queue'["compute"]
  OBVIOUS
<1>2. Indifferent(b, b, 0) /\ Indifferent(s, s, 0) /\ Indifferent(q, q, 0)
  BY <1>1, IndifferentSame, Names DEF HostTypeOK
<1>3. CASE \E n \in 1..MaxChunks : Decode(n)
  <2>1. /\ Grown(b, c, 1) /\ c[Len(b) + 1] = Work("query", <<>>, {query'}, call + 1)
        /\ t = s /\ p = q /\ passed' = passed /\ pc' = "next"
    BY <1>1, <1>3, DecodeQueues
  <2>2. Indifferent(b, c, 1)
    BY <2>1, IndifferentOne DEF Work
  <2> QED
    BY <1>1, <1>2, <2>1, <2>2, WaitFollow
<1>4. CASE NextChunk
  <2>1. /\ direct => /\ Grown(b, c, 1)
                     /\ c[Len(b) + 1] = Work("clone", <<>>, {clone'}, <<call, chunk + 1>>)
        /\ ~direct => c = b
        /\ t = s /\ p = q /\ passed' = passed /\ pc' = "stage"
    BY <1>1, <1>4, NextChunkQueues
  <2>2. CASE direct
    <3>1. Indifferent(b, c, 1)
      BY <2>1, <2>2, IndifferentOne DEF Work
    <3> QED
      BY <1>1, <1>2, <2>1, <3>1, WaitFollow
  <2>3. CASE ~direct
    BY <1>1, <1>2, <2>1, <2>3, WaitFollow
  <2> QED
    BY <2>2, <2>3
<1>5. CASE NoMoreChunks \/ StageSync
  <2>1. /\ c = b /\ t = s /\ p = q /\ passed' = passed /\ This' = This
        /\ pc' = "finish" \/ pc \in {"sync", "rebind", "run"}
    BY <1>1, <1>5, QuietQueues DEF This
  <2> QED
    BY <1>1, <1>2, <2>1, WaitFollow
<1>6. CASE LoaderRaises
  <2>1. /\ c = b /\ t = s /\ passed' = passed /\ pc' = "idle"
        /\ merged = NoCell => p = q
        /\ merged # NoCell => Grown(q, p, 1) /\ MarkOf(p[Len(q) + 1], {query, tensors})
    BY <1>1, <1>6, LoaderRaisesQueues
  <2>2. CASE merged = NoCell
    BY <1>1, <1>2, <2>1, <2>2, WaitFollow
  <2>3. CASE merged # NoCell
    <3>1. Indifferent(q, p, 1)
      BY <2>1, <2>3, IndifferentOne DEF MarkOf
    <3> QED
      BY <1>1, <1>2, <2>1, <3>1, WaitFollow
  <2> QED
    BY <2>2, <2>3
<1>7. CASE Rebind
  <2>1. /\ c = b /\ t = s /\ passed' = passed /\ This' = This
        /\ pc \in {"sync", "rebind", "run"}
        /\ merged = NoCell => p = q
        /\ merged # NoCell => Grown(q, p, 1) /\ MarkOf(p[Len(q) + 1], {tensors})
    BY <1>1, <1>7, RebindQueues DEF This
  <2>2. CASE merged = NoCell
    BY <1>1, <1>2, <2>1, <2>2, WaitFollow
  <2>3. CASE merged # NoCell
    <3>1. Indifferent(q, p, 1)
      BY <2>1, <2>3, IndifferentOne DEF MarkOf
    <3> QED
      BY <1>1, <1>2, <2>1, <3>1, WaitFollow
  <2> QED
    BY <2>2, <2>3
<1> QED
  BY <1>3, <1>4, <1>5, <1>6, <1>7

(* A chunk is staged.                                                      *)
LEMMA WaitStage ==
    ASSUME HostTypeOK, HostInv, WorkInv, WaitInv, Next, Stage
    PROVE  WaitInv'
<1>1. PICK b, s, q, c, t, p, e, chk :
        /\ b = queue["caller"] /\ s = queue["transfer"] /\ q = queue["compute"]
        /\ c = queue'["caller"] /\ t = queue'["transfer"] /\ p = queue'["compute"]
        /\ e = passed' /\ chk = This
  OBVIOUS
<1>2. /\ c = b /\ p = q /\ e = passed /\ This' = chk /\ pc = "stage" /\ call' = call
      /\ chunk' = chunk /\ pc' \in {"sync", "rebind", "run"} /\ direct \in BOOLEAN
  BY <1>1, StageQueues DEF HostTypeOK, This
<1>3. /\ OrderedWaits(e, b, s, q) /\ WaitsFor(q, ComputeEvents) /\ WaitsFor(s, TransferEvents)
  BY <1>1, <1>2 DEF WaitInv
<1>4. Grown(q, q, 0) /\ \A i \in Len(q) + 1..Len(q) : FALSE
  <2>1. Grown(q, q, 0)
    BY <1>1, GrownSame, Names DEF HostTypeOK
  <2> QED
    BY <2>1, EndPlaces
<1>5. chk \in Chunks /\ ~Upto(chk, StagedSoFar) /\ <<"own", chk>> \in TransferEvents'
  <2>1. chk \in Chunks
    BY <1>1, <1>2, ConstantsAssumption DEF HostTypeOK, HostInv, This, Chunks, Calls
  <2>2. ~Upto(chk, StagedSoFar)
    BY <1>1, <1>2 DEF Upto, StagedSoFar, This, HostTypeOK
  <2>3. Upto(chk, StagedSoFar)'
    BY <1>1, <1>2, <2>1 DEF Upto, StagedSoFar, This, HostTypeOK
  <2> QED
    BY <2>1, <2>2, <2>3 DEF TransferEvents, StagedChunks
<1>6. \A i : ~At(s, i, "wait", <<"own", chk>>)
  BY <1>1, <1>5, NotWaited
<1>7. PICK l : /\ Grown(s, t, l)
               /\ \E i \in 1..Len(t) : At(t, i, "record", <<"ready", chk>>)
               /\ \A i \in Len(s) + 1..Len(t) : t[i].do = "wait" => t[i].about = <<"own", chk>>
               /\ \A i, j \in Len(s) + 1..Len(t) : t[i].do = "wait" /\ t[j].do = "wait" => i = j
               /\ \A i \in Len(s) + 1..Len(t) : t[i].do = "wait" =>
                     \E j \in 1..Len(t) : At(t, j, "record", <<"own", chk>>)
               /\ \A i, j \in Len(s) + 1..Len(t) : \A k :
                     At(t, j, "record", <<"own", k>>) => /\ k = chk
                                                         /\ t[i].do = "wait" => j < i
  <2>1. CASE direct
    <3>1. /\ Grown(s, t, 4)
          /\ t[Len(s) + 1] = Record(<<"own", chk>>) /\ t[Len(s) + 2] = Wait(<<"own", chk>>)
          /\ t[Len(s) + 3] = Work("stack", <<clone>>, {current'}, chk)
          /\ t[Len(s) + 4] = Record(<<"ready", chk>>)
      BY <1>1, <2>1, StageQueues
    <3>2. PICK h : h = Len(s) /\ h \in Nat /\ Len(t) = h + 4
      BY <3>1, EndPlaces
    <3>3. /\ \A i \in h + 1..h + 4 : i = h + 1 \/ i = h + 2 \/ i = h + 3 \/ i = h + 4
          /\ h + 1 \in 1..h + 4 /\ h + 4 \in 1..h + 4 /\ h + 1 < h + 2
      BY ONLY <3>2
    <3>4. /\ t[h + 1].do = "record" /\ t[h + 1].about = <<"own", chk>>
          /\ t[h + 2].do = "wait" /\ t[h + 2].about = <<"own", chk>>
          /\ t[h + 3].do = "stack"
          /\ t[h + 4].do = "record" /\ t[h + 4].about = <<"ready", chk>>
      BY <3>1, <3>2 DEF Record, Wait, Work
    <3>5. At(t, h + 1, "record", <<"own", chk>>) /\ At(t, h + 4, "record", <<"ready", chk>>)
      BY <3>2, <3>3, <3>4 DEF At
    <3>6. \A i \in h + 1..h + 4 : t[i].do = "wait" => i = h + 2
      BY <3>3, <3>4
    <3>7. \A j \in h + 1..h + 4 : \A k : At(t, j, "record", <<"own", k>>) => j = h + 1 /\ k = chk
      BY <3>3, <3>4 DEF At
    <3> QED
      BY <3>1, <3>2, <3>3, <3>4, <3>5, <3>6, <3>7
  <2>2. CASE ~direct
    <3>1. /\ Grown(s, t, 2)
          /\ t[Len(s) + 1] = Work("stack", <<>>, {current'}, chk)
          /\ t[Len(s) + 2] = Record(<<"ready", chk>>)
      BY <1>1, <2>2, StageQueues
    <3>2. PICK h : h = Len(s) /\ h \in Nat /\ Len(t) = h + 2
      BY <3>1, EndPlaces
    <3>3. /\ \A i \in h + 1..h + 2 : i = h + 1 \/ i = h + 2
          /\ h + 2 \in 1..h + 2
      BY ONLY <3>2
    <3>4. /\ t[h + 1].do = "stack"
          /\ t[h + 2].do = "record" /\ t[h + 2].about = <<"ready", chk>>
      BY <3>1, <3>2 DEF Record, Work
    <3>5. At(t, h + 2, "record", <<"ready", chk>>)
      BY <3>2, <3>3, <3>4 DEF At
    <3>6. \A i \in h + 1..h + 2 : t[i].do # "wait"
      BY <3>3, <3>4
    <3>7. \A j \in h + 1..h + 2 : \A k : ~At(t, j, "record", <<"own", k>>)
      BY <3>3, <3>4 DEF At
    <3> QED
      BY <3>1, <3>2, <3>3, <3>5, <3>6, <3>7
  <2> QED
    BY <1>2, <2>1, <2>2
<1>8. ASSUME NEW k \in Chunks PROVE ChunkWaits(e, t, q, k)
  <2>1. ChunkWaits(e, s, q, k)
    BY <1>3 DEF OrderedWaits
  <2>2. Awaited(e, t, q, <<"ready", k>>)
    BY <1>4, <1>7, <2>1, AwaitedGrows DEF ChunkWaits
  <2>3. CASE k # chk
    <3>1. \A i \in Len(s) + 1..Len(t) : /\ ~At(t, i, "wait", <<"own", k>>)
                                        /\ ~At(t, i, "record", <<"own", k>>)
      BY <1>7, <2>3 DEF At
    <3>2. Awaited(e, t, t, <<"own", k>>)
      BY <1>7, <2>1, <3>1, AwaitedGrows DEF ChunkWaits
    <3>3. RecordsFirst(t, <<"own", k>>, <<"own", k>>)
      BY <1>7, <2>1, <3>1, RecordsFirstGrows DEF ChunkWaits
    <3> QED
      BY <2>2, <3>2, <3>3 DEF ChunkWaits
  <2>4. CASE k = chk
    <3>1. Awaited(e, t, t, <<"own", k>>)
      <4>1. CASE \E i \in Len(s) + 1..Len(t) : t[i].do = "wait"
        <5>1. \E j \in 1..Len(t) : At(t, j, "record", <<"own", chk>>)
          BY <1>7, <4>1
        <5>2. \A i, j \in Len(s) + 1..Len(t) :
                 At(t, i, "wait", <<"own", k>>) /\ At(t, j, "wait", <<"own", k>>) => i = j
          BY <1>7 DEF At
        <5> QED
          BY <1>6, <1>7, <2>4, <5>1, <5>2, AwaitedStarts
      <4>2. CASE \A i \in Len(s) + 1..Len(t) : t[i].do # "wait"
        <5>1. \A i \in Len(s) + 1..Len(t) : ~At(t, i, "wait", <<"own", k>>)
          BY <4>2 DEF At
        <5> QED
          BY <1>7, <2>1, <5>1, AwaitedGrows DEF ChunkWaits
      <4> QED
        BY <4>1, <4>2
    <3>2. RecordsFirst(t, <<"own", k>>, <<"own", k>>)
      <4>1. \A j \in Len(s) + 1..Len(t) : At(t, j, "record", <<"own", k>>) =>
               /\ \A i \in 1..Len(s) : ~At(s, i, "wait", <<"own", k>>)
               /\ \A i \in Len(s) + 1..Len(t) : At(t, i, "wait", <<"own", k>>) => j < i
        BY <1>6, <1>7, <2>4 DEF At
      <4> QED
        BY <1>7, <2>1, <4>1, RecordsFirstGrows DEF ChunkWaits
    <3> QED
      BY <2>2, <3>1, <3>2 DEF ChunkWaits
  <2> QED
    BY <2>3, <2>4
<1>9. OrderedWaits(e, b, t, q)
  BY <1>3, <1>8 DEF OrderedWaits
<1>10. WaitsFor(q, ComputeEvents')
  BY <1>3, <1>4, EventsGrow, WaitsForGrows
<1>11. WaitsFor(t, TransferEvents')
  <2>1. TransferEvents \subseteq TransferEvents'
    BY EventsGrow
  <2> QED
    BY <1>3, <1>5, <1>7, <2>1, WaitsForGrows
<1>12. ReadyComes(e, t, This')
  BY <1>2, <1>7 DEF ReadyComes
<1> QED
  BY <1>1, <1>2, <1>9, <1>10, <1>11, <1>12, WaitTogether

(* The chunk is given to compute, which waits for it and for the query.    *)
LEMMA WaitRunChunk ==
    ASSUME HostTypeOK, HostInv, WorkInv, HeldInv, WaitInv, Next, RunChunk
    PROVE  WaitInv'
<1>1. PICK b, s, q, c, t, p, e, n, this :
        /\ b = queue["caller"] /\ s = queue["transfer"] /\ q = queue["compute"]
        /\ c = queue'["caller"] /\ t = queue'["transfer"] /\ p = queue'["compute"]
        /\ e = passed' /\ n = call /\ this = This
  OBVIOUS
<1>2. /\ t = s /\ e = passed /\ pc = "run" /\ pc' = "next"
      /\ call' = call /\ chunk' = chunk
  BY <1>1, RunChunkQueues
<1>3. /\ OrderedWaits(e, b, s, q) /\ WaitsFor(q, ComputeEvents) /\ WaitsFor(s, TransferEvents)
      /\ ReadyComes(e, s, this)
  BY <1>1, <1>2 DEF WaitInv
<1>4. chunk = 1 => /\ Grown(b, c, 1) /\ Grown(q, p, 3)
                   /\ c[Len(b) + 1] = Record(<<"query", n>>)
                   /\ p[Len(q) + 1] = Wait(<<"query", n>>)
                   /\ p[Len(q) + 2] = Wait(<<"ready", this>>)
                   /\ p[Len(q) + 3] = Work("attend", <<query, tensors>>, {merged'}, this)
  BY <1>1, <1>2, RunChunkQueues
<1>5. chunk # 1 => /\ c = b /\ Grown(q, p, 2)
                   /\ p[Len(q) + 1] = Wait(<<"ready", this>>)
                   /\ p[Len(q) + 2] = Work("attend", <<query, tensors, merged>>, {merged'}, this)
  BY <1>1, RunChunkQueues
<1>6. PICK h, z : /\ h = Len(q) /\ h \in Nat /\ Len(p) = h + z /\ Grown(q, p, z)
                  /\ z = IF chunk = 1 THEN 3 ELSE 2
  <2>1. CASE chunk = 1
    <3>1. Grown(q, p, 3) /\ Len(q) \in Nat /\ Len(p) = Len(q) + 3
      BY <1>4, <2>1, EndPlaces
    <3> QED
      BY <2>1, <3>1
  <2>2. CASE chunk # 1
    <3>1. Grown(q, p, 2) /\ Len(q) \in Nat /\ Len(p) = Len(q) + 2
      BY <1>5, <2>2, EndPlaces
    <3> QED
      BY <2>2, <3>1
  <2> QED
    BY <2>1, <2>2
<1>7. \A i \in h + 1..h + z : i = h + 1 \/ i = h + 2 \/ (chunk = 1 /\ i = h + 3)
  <2>1. h \in Nat /\ z = IF chunk = 1 THEN 3 ELSE 2
    BY <1>6
  <2> QED
    BY ONLY <2>1
<1>8. /\ \A i \in h + 1..h + z : /\ p[i].do # "record"
                                 /\ p[i].do = "wait" => \/ p[i].about = <<"ready", this>>
                                                        \/ chunk = 1 /\ p[i].about = <<"query", n>>
      /\ \A i, j \in h + 1..h + z :
           p[i].do = "wait" /\ p[j].do = "wait" /\ p[i].about = p[j].about => i = j
  <2>1. CASE chunk = 1
    <3>1. /\ p[h + 1].do = "wait" /\ p[h + 1].about = <<"query", n>>
          /\ p[h + 2].do = "wait" /\ p[h + 2].about = <<"ready", this>>
          /\ p[h + 3].do = "attend"
      BY <1>4, <1>6, <2>1 DEF Wait, Work
    <3> QED
      BY <1>7, <2>1, <3>1
  <2>2. CASE chunk # 1
    <3>1. /\ p[h + 1].do = "wait" /\ p[h + 1].about = <<"ready", this>>
          /\ p[h + 2].do = "attend"
      BY <1>5, <1>6, <2>2 DEF Wait, Work
    <3> QED
      BY <1>7, <2>2, <3>1
  <2> QED
    BY <2>1, <2>2
<1>9. PICK l : /\ Grown(b, c, l)
               /\ \A i \in Len(b) + 1..Len(c) : c[i].do = "record" /\ c[i].about = <<"query", n>>
               /\ chunk = 1 => \E i \in 1..Len(c) : At(c, i, "record", <<"query", n>>)
  <2>1. CASE chunk = 1
    <3>1. /\ \A i \in Len(b) + 1..Len(c) : i = Len(b) + 1
          /\ Len(b) + 1 \in 1..Len(c)
      BY <1>4, <2>1, EndPlaces
    <3>2. c[Len(b) + 1].do = "record" /\ c[Len(b) + 1].about = <<"query", n>>
      BY <1>4, <2>1 DEF Record, Work
    <3>3. At(c, Len(b) + 1, "record", <<"query", n>>)
      BY <3>1, <3>2 DEF At
    <3> QED
      BY <1>4, <2>1, <3>1, <3>2, <3>3
  <2>2. CASE chunk # 1
    <3>1. Grown(b, c, 0)
      BY <1>1, <1>5, <2>2, GrownSame, Names DEF HostTypeOK
    <3>2. \A i \in Len(b) + 1..Len(c) : FALSE
      BY <3>1, EndPlaces
    <3> QED
      BY <2>2, <3>1, <3>2
  <2> QED
    BY <2>1, <2>2
<1>10. Grown(s, s, 0) /\ \A i \in Len(s) + 1..Len(s) : FALSE
  <2>1. Grown(s, s, 0)
    BY <1>1, GrownSame, Names DEF HostTypeOK
  <2> QED
    BY <2>1, EndPlaces
<1>11. /\ this \in Chunks /\ this[1] = n /\ ~Upto(this, RunSoFar)
       /\ <<"ready", this>> \in ComputeEvents' /\ <<"query", n>> \in ComputeEvents'
       /\ chunk = 1 => \A k \in Chunks : k[1] = n => ~Upto(k, RunSoFar)
  <2>1. this \in Chunks /\ this[1] = n /\ this[2] = chunk /\ chunk \in Nat
    BY <1>1, <1>2, ConstantsAssumption DEF HostTypeOK, HostInv, This, Chunks, Calls
  <2>2. RunSoFar = chunk - 1 /\ (RunSoFar)' = chunk
    BY <1>2 DEF RunSoFar
  <2>3. ~Upto(this, RunSoFar) /\ Upto(this, RunSoFar)'
    <3>1. ~Upto(this, RunSoFar)
      BY <1>1, <2>1, <2>2 DEF Upto
    <3>2. Upto(this, RunSoFar)'
      BY <1>1, <1>2, <2>1, <2>2 DEF Upto, HostTypeOK
    <3> QED
      BY <3>1, <3>2
  <2>4. this \in RunChunks'
    BY <2>1, <2>3 DEF RunChunks
  <2>5. chunk = 1 => \A k \in Chunks : k[1] = n => ~Upto(k, RunSoFar)
    BY <1>1, <2>2 DEF Upto, Chunks
  <2>6. <<"ready", this>> \in ComputeEvents' /\ <<"query", this[1]>> \in ComputeEvents'
    BY <2>4 DEF ComputeEvents
  <2> QED
    BY <2>1, <2>3, <2>5, <2>6
<1>12. /\ \A i : ~At(q, i, "wait", <<"ready", this>>)
       /\ chunk = 1 => \A i : ~At(q, i, "wait", <<"query", n>>)
       /\ \A k : k \notin 1..ClosedCalls => \A i : ~At(b, i, "wait", <<"done", k>>)
  BY <1>1, <1>11, NotWaited
<1>13. ASSUME NEW k \in Calls PROVE CallWaits(e, c, p, k)
  <2>1. CallWaits(e, b, q, k)
    BY <1>3 DEF OrderedWaits
  <2>2. Awaited(e, p, c, <<"done", k>>)
    <3>1. \A i \in Len(b) + 1..Len(c) : ~At(c, i, "wait", <<"done", k>>)
      BY <1>9 DEF At
    <3> QED
      BY <1>2, <1>6, <1>9, <2>1, <3>1, AwaitedGrows DEF CallWaits
  <2>3. CASE chunk = 1 /\ k = n
    <3>1. \A i, j \in Len(q) + 1..Len(p) :
             At(p, i, "wait", <<"query", k>>) /\ At(p, j, "wait", <<"query", k>>) => i = j
      BY <1>6, <1>8 DEF At
    <3>2. Awaited(e, c, p, <<"query", k>>)
      BY <1>2, <1>6, <1>9, <1>12, <2>3, <3>1, AwaitedStarts
    <3> QED
      BY <2>2, <3>2 DEF CallWaits
  <2>4. CASE chunk # 1 \/ k # n
    <3>1. \A i \in Len(q) + 1..Len(p) : ~At(p, i, "wait", <<"query", k>>)
      BY <1>6, <1>8, <2>4 DEF At
    <3>2. Awaited(e, c, p, <<"query", k>>)
      BY <1>2, <1>6, <1>9, <2>1, <3>1, AwaitedGrows DEF CallWaits
    <3> QED
      BY <2>2, <3>2 DEF CallWaits
  <2> QED
    BY <2>3, <2>4
<1>14. ASSUME NEW k \in Chunks PROVE ChunkWaits(e, s, p, k)
  <2>1. ChunkWaits(e, s, q, k)
    BY <1>3 DEF OrderedWaits
  <2>2. CASE k = this
    <3>1. \A i, j \in Len(q) + 1..Len(p) :
             At(p, i, "wait", <<"ready", k>>) /\ At(p, j, "wait", <<"ready", k>>) => i = j
      BY <1>6, <1>8 DEF At
    <3>2. Awaited(e, s, p, <<"ready", k>>)
      BY <1>2, <1>6, <1>3, <1>12, <2>2, <3>1, AwaitedStarts DEF ReadyComes
    <3> QED
      BY <2>1, <3>2 DEF ChunkWaits
  <2>3. CASE k # this
    <3>1. \A i \in Len(q) + 1..Len(p) : ~At(p, i, "wait", <<"ready", k>>)
      BY <1>6, <1>8, <2>3 DEF At
    <3>2. Awaited(e, s, p, <<"ready", k>>)
      BY <1>2, <1>6, <1>10, <2>1, <3>1, AwaitedGrows DEF ChunkWaits
    <3> QED
      BY <2>1, <3>2 DEF ChunkWaits
  <2> QED
    BY <2>2, <2>3
<1>15. ASSUME NEW m \in Calls, NEW k \in Calls PROVE CallOrder(c, p, m, k)
  <2>1. CallOrder(b, q, m, k)
    BY <1>3 DEF OrderedWaits
  <2>2. ASSUME m <= k PROVE RecordsFirst(c, <<"query", m>>, <<"done", k>>)
    <3>1. RecordsFirst(b, <<"query", m>>, <<"done", k>>)
      BY <2>1, <2>2 DEF CallOrder
    <3>2. \A j \in Len(b) + 1..Len(c) : At(c, j, "record", <<"query", m>>) => m = n
      BY <1>9 DEF At
    <3>3. m = n => k \notin 1..ClosedCalls
      BY <1>1, <1>2, <2>2 DEF ClosedCalls, HostTypeOK, Calls
    <3>4. \A i \in Len(b) + 1..Len(c) : ~At(c, i, "wait", <<"done", k>>)
      BY <1>9 DEF At
    <3> QED
      BY <1>9, <1>12, <3>1, <3>2, <3>3, <3>4, RecordsFirstGrows
  <2>3. ASSUME m < k PROVE RecordsFirst(p, <<"done", m>>, <<"query", k>>)
    <3>1. RecordsFirst(q, <<"done", m>>, <<"query", k>>)
      BY <2>1, <2>3 DEF CallOrder
    <3>2. \A j \in Len(q) + 1..Len(p) : ~At(p, j, "record", <<"done", m>>)
      BY <1>6, <1>8 DEF At
    <3> QED
      BY <1>2, <1>6, <3>1, <3>2, RecordsFirstGrows
  <2> QED
    BY <2>2, <2>3 DEF CallOrder
<1>16. OrderedWaits(e, c, s, p)
  BY <1>13, <1>14, <1>15 DEF OrderedWaits
<1>17. WaitsFor(p, ComputeEvents')
  <2>1. ComputeEvents \subseteq ComputeEvents'
    BY EventsGrow
  <2>2. \A i \in Len(q) + 1..Len(p) : p[i].do = "wait" => p[i].about \in ComputeEvents'
    BY <1>6, <1>8, <1>11
  <2> QED
    BY <1>2, <1>6, <1>3, <2>1, <2>2, WaitsForGrows
<1>18. WaitsFor(s, TransferEvents')
  BY <1>3, <1>10, EventsGrow, WaitsForGrows
<1> QED
  BY <1>1, <1>2, <1>16, <1>17, <1>18, WaitTogether

(* The caller's stream waits for the end of the call, which compute will   *)
(* record.                                                                 *)
LEMMA WaitFinish ==
    ASSUME HostTypeOK, HostInv, WorkInv, WaitInv, Next, Finish
    PROVE  WaitInv'
<1>1. PICK b, s, q, c, t, p, e, n :
        /\ b = queue["caller"] /\ s = queue["transfer"] /\ q = queue["compute"]
        /\ c = queue'["caller"] /\ t = queue'["transfer"] /\ p = queue'["compute"]
        /\ e = passed' /\ n = call
  OBVIOUS
<1>2. /\ t = s /\ e = passed /\ pc = "finish" /\ pc' = "idle"
      /\ Grown(q, p, 2) /\ Grown(b, c, 3)
      /\ p[Len(q) + 1] = Record(<<"done", n>>) /\ MarkOf(p[Len(q) + 2], {query, tensors})
      /\ c[Len(b) + 1] = Wait(<<"done", n>>)
      /\ c[Len(b) + 2] = Work("convert", <<merged>>, {}, n)
      /\ MarkOf(c[Len(b) + 3], {merged})
  BY <1>1, FinishQueues
<1>3. OrderedWaits(e, b, s, q) /\ WaitsFor(q, ComputeEvents) /\ WaitsFor(s, TransferEvents)
  BY <1>1, <1>2 DEF WaitInv
<1>4. /\ \A i \in Len(q) + 1..Len(p) : p[i].do # "wait"
                                         /\ (p[i].do = "record" => p[i].about = <<"done", n>>)
      /\ \E i \in 1..Len(p) : At(p, i, "record", <<"done", n>>)
  <2>1. PICK h : h = Len(q) /\ h \in Nat /\ Len(p) = h + 2
    BY <1>2, EndPlaces
  <2>2. (\A i \in h + 1..h + 2 : i = h + 1 \/ i = h + 2) /\ h + 1 \in 1..h + 2
    BY ONLY <2>1
  <2>3. /\ p[h + 1].do = "record" /\ p[h + 1].about = <<"done", n>> /\ p[h + 2].do = "mark"
    BY <1>2, <2>1 DEF Record, Work, MarkOf
  <2>4. At(p, h + 1, "record", <<"done", n>>)
    BY <2>1, <2>2, <2>3 DEF At
  <2> QED
    BY <2>1, <2>2, <2>3, <2>4
<1>5. /\ \A i \in Len(b) + 1..Len(c) : c[i].do # "record"
                                         /\ (c[i].do = "wait" => c[i].about = <<"done", n>>)
      /\ \A i, j \in Len(b) + 1..Len(c) : c[i].do = "wait" /\ c[j].do = "wait" => i = j
  <2>1. PICK h : h = Len(b) /\ h \in Nat /\ Len(c) = h + 3
    BY <1>2, EndPlaces
  <2>2. \A i \in h + 1..h + 3 : i = h + 1 \/ i = h + 2 \/ i = h + 3
    BY ONLY <2>1
  <2>3. /\ c[h + 1].do = "wait" /\ c[h + 1].about = <<"done", n>>
        /\ c[h + 2].do = "convert" /\ c[h + 3].do = "mark"
    BY <1>2, <2>1 DEF Wait, Work, MarkOf
  <2> QED
    BY <2>1, <2>2, <2>3
<1>6. Grown(s, s, 0) /\ \A i \in Len(s) + 1..Len(s) : FALSE
  <2>1. Grown(s, s, 0)
    BY <1>1, GrownSame, Names DEF HostTypeOK
  <2> QED
    BY <2>1, EndPlaces
<1>7. /\ \A i : ~At(b, i, "wait", <<"done", n>>)
      /\ \A k \in Calls : k > n => \A i : ~At(q, i, "wait", <<"query", k>>)
  <2>1. n \notin 1..ClosedCalls
    BY <1>1, <1>2 DEF ClosedCalls, HostTypeOK
  <2>2. ASSUME NEW k \in Calls, k > n PROVE \A i : ~At(q, i, "wait", <<"query", k>>)
    <3>1. \A j \in Chunks : j[1] = k => ~Upto(j, RunSoFar)
      BY <1>1, <2>2 DEF Upto, HostTypeOK, Calls
    <3> QED
      BY <1>1, <3>1, NotWaited
  <2> QED
    BY <1>1, <2>1, <2>2, NotWaited
<1>8. ASSUME NEW k \in Calls PROVE CallWaits(e, c, p, k)
  <2>1. CallWaits(e, b, q, k)
    BY <1>3 DEF OrderedWaits
  <2>2. Awaited(e, c, p, <<"query", k>>)
    <3>1. \A i \in Len(q) + 1..Len(p) : ~At(p, i, "wait", <<"query", k>>)
      BY <1>4 DEF At
    <3> QED
      BY <1>2, <2>1, <3>1, AwaitedGrows DEF CallWaits
  <2>3. CASE k = n
    <3>1. \A i, j \in Len(b) + 1..Len(c) :
             At(c, i, "wait", <<"done", k>>) /\ At(c, j, "wait", <<"done", k>>) => i = j
      BY <1>5 DEF At
    <3>2. Awaited(e, p, c, <<"done", k>>)
      BY <1>2, <1>4, <1>7, <2>3, <3>1, AwaitedStarts
    <3> QED
      BY <2>2, <3>2 DEF CallWaits
  <2>4. CASE k # n
    <3>1. \A i \in Len(b) + 1..Len(c) : ~At(c, i, "wait", <<"done", k>>)
      BY <1>5, <2>4 DEF At
    <3>2. Awaited(e, p, c, <<"done", k>>)
      BY <1>2, <2>1, <3>1, AwaitedGrows DEF CallWaits
    <3> QED
      BY <2>2, <3>2 DEF CallWaits
  <2> QED
    BY <2>3, <2>4
<1>9. ASSUME NEW k \in Chunks PROVE ChunkWaits(e, s, p, k)
  <2>1. ChunkWaits(e, s, q, k)
    BY <1>3 DEF OrderedWaits
  <2>2. \A i \in Len(q) + 1..Len(p) : ~At(p, i, "wait", <<"ready", k>>)
    BY <1>4 DEF At
  <2>3. Awaited(e, s, p, <<"ready", k>>)
    BY <1>2, <1>6, <2>1, <2>2, AwaitedGrows DEF ChunkWaits
  <2> QED
    BY <2>1, <2>3 DEF ChunkWaits
<1>10. ASSUME NEW m \in Calls, NEW k \in Calls PROVE CallOrder(c, p, m, k)
  <2>1. CallOrder(b, q, m, k)
    BY <1>3 DEF OrderedWaits
  <2>2. ASSUME m <= k PROVE RecordsFirst(c, <<"query", m>>, <<"done", k>>)
    <3>1. RecordsFirst(b, <<"query", m>>, <<"done", k>>)
      BY <2>1, <2>2 DEF CallOrder
    <3>2. \A j \in Len(b) + 1..Len(c) : ~At(c, j, "record", <<"query", m>>)
      BY <1>5 DEF At
    <3> QED
      BY <1>2, <3>1, <3>2, RecordsFirstGrows
  <2>3. ASSUME m < k PROVE RecordsFirst(p, <<"done", m>>, <<"query", k>>)
    <3>1. RecordsFirst(q, <<"done", m>>, <<"query", k>>)
      BY <2>1, <2>3 DEF CallOrder
    <3>2. \A j \in Len(q) + 1..Len(p) : At(p, j, "record", <<"done", m>>) => m = n
      BY <1>4 DEF At
    <3>3. \A i \in Len(q) + 1..Len(p) : ~At(p, i, "wait", <<"query", k>>)
      BY <1>4 DEF At
    <3>4. m = n => k > n
      BY <2>3 DEF Calls
    <3> QED
      BY <1>2, <1>7, <3>1, <3>2, <3>3, <3>4, RecordsFirstGrows
  <2> QED
    BY <2>2, <2>3 DEF CallOrder
<1>11. OrderedWaits(e, c, s, p)
  BY <1>8, <1>9, <1>10 DEF OrderedWaits
<1>12. WaitsFor(p, ComputeEvents')
  <2>1. ComputeEvents \subseteq ComputeEvents'
    BY EventsGrow
  <2> QED
    BY <1>2, <1>3, <1>4, <2>1, WaitsForGrows
<1>13. WaitsFor(s, TransferEvents')
  BY <1>3, <1>6, EventsGrow, WaitsForGrows
<1> QED
  BY <1>1, <1>2, <1>11, <1>12, <1>13, WaitTogether

(* Which streams wait for an event.                                        *)
LEMMA Waiters ==
    ASSUME WorkInv, HostTypeOK, NEW s \in Streams, 1 \in 1..Len(queue[s]),
           queue[s][1].do = "wait"
    PROVE  /\ \A n : queue[s][1].about = <<"query", n>> => s = "compute"
           /\ \A k : queue[s][1].about = <<"ready", k>> => s = "compute"
           /\ \A n : queue[s][1].about = <<"done", n>> => s = "caller"
           /\ \A k : queue[s][1].about = <<"own", k>> => s = "transfer"
BY Names DEF WorkInv, CallerWork, TransferWork, ComputeWorks

(* A stream does its first work.                                           *)
LEMMA WaitExecute ==
    ASSUME HostTypeOK, HostInv, WorkInv, WaitInv, Next, NEW s \in Streams, Execute(s)
    PROVE  WaitInv'
<1>1. PICK b, u, q, c, t, p, e, op, this :
        /\ b = queue["caller"] /\ u = queue["transfer"] /\ q = queue["compute"]
        /\ c = queue'["caller"] /\ t = queue'["transfer"] /\ p = queue'["compute"]
        /\ e = passed' /\ op = queue[s][1] /\ this = This
  OBVIOUS
<1>2. /\ s = "caller"   => Shrunk(b, c) /\ op = b[1] /\ 1 \in 1..Len(b)
      /\ s = "transfer" => Shrunk(u, t) /\ op = u[1] /\ 1 \in 1..Len(u)
      /\ s = "compute"  => Shrunk(q, p) /\ op = q[1] /\ 1 \in 1..Len(q)
      /\ s # "caller" => c = b
      /\ s # "transfer" => t = u
      /\ s # "compute" => p = q
  BY <1>1, ExecuteQueues, Names
<1>3. pc' = pc /\ call' = call /\ chunk' = chunk /\ This' = this /\ 1 \in 1..Len(queue[s])
  BY <1>1, ExecuteQueues DEF hostVars, This
<1>4. /\ op.do = "record" => op.about \in e
      /\ \A v : v \in passed => v \in e \/ (op.do = "wait" /\ v = op.about)
  <2>1. e = CASE op.do = "record" -> passed \cup {op.about}
              [] op.do = "wait"   -> passed \ {op.about}
              [] OTHER            -> passed
    BY <1>1, ExecuteQueues
  <2>2. CASE op.do = "record"
    BY <2>1, <2>2
  <2>3. CASE op.do = "wait"
    BY <2>1, <2>3
  <2>4. CASE op.do # "record" /\ op.do # "wait"
    BY <2>1, <2>4
  <2> QED
    BY <2>2, <2>3, <2>4
<1>5. \A r : ~Shrunk(r, r)
  BY DEF Shrunk
<1>6. /\ c = b \/ Shrunk(b, c)
      /\ t = u \/ Shrunk(u, t)
      /\ p = q \/ Shrunk(q, p)
  BY <1>2, Names
<1>7. \A v : /\ Shrunk(b, c) /\ At(b, 1, "record", v) => v \in e
             /\ Shrunk(u, t) /\ At(u, 1, "record", v) => v \in e
             /\ Shrunk(q, p) /\ At(q, 1, "record", v) => v \in e
  BY <1>2, <1>4, <1>5 DEF At
<1>8. op.do = "wait" =>
        /\ \A k : op.about = <<"query", k>> => s = "compute"
        /\ \A k : op.about = <<"ready", k>> => s = "compute"
        /\ \A k : op.about = <<"done", k>> => s = "caller"
        /\ \A k : op.about = <<"own", k>> => s = "transfer"
  BY <1>1, <1>3, Waiters
<1>9. \A k : /\ <<"query", k>> \in passed => \/ <<"query", k>> \in e
                                             \/ Shrunk(q, p) /\ At(q, 1, "wait", <<"query", k>>)
             /\ <<"ready", k>> \in passed => \/ <<"ready", k>> \in e
                                             \/ Shrunk(q, p) /\ At(q, 1, "wait", <<"ready", k>>)
             /\ <<"done", k>> \in passed => \/ <<"done", k>> \in e
                                            \/ Shrunk(b, c) /\ At(b, 1, "wait", <<"done", k>>)
             /\ <<"own", k>> \in passed => \/ <<"own", k>> \in e
                                           \/ Shrunk(u, t) /\ At(u, 1, "wait", <<"own", k>>)
  BY <1>2, <1>4, <1>8 DEF At
<1>10. /\ OrderedWaits(passed, b, u, q) /\ WaitsFor(q, ComputeEvents)
       /\ WaitsFor(u, TransferEvents)
       /\ pc \in {"sync", "rebind", "run"} => ReadyComes(passed, u, this)
  BY <1>1 DEF WaitInv
<1>11. ASSUME NEW k \in Calls PROVE CallWaits(e, c, p, k)
  <2>1. CallWaits(passed, b, q, k)
    BY <1>10 DEF OrderedWaits
  <2>2. Awaited(e, c, p, <<"query", k>>)
    BY <1>6, <1>7, <1>9, <2>1, AwaitedPops DEF CallWaits
  <2>3. Awaited(e, p, c, <<"done", k>>)
    BY <1>6, <1>7, <1>9, <2>1, AwaitedPops DEF CallWaits
  <2> QED
    BY <2>2, <2>3 DEF CallWaits
<1>12. ASSUME NEW k \in Chunks PROVE ChunkWaits(e, t, p, k)
  <2>1. ChunkWaits(passed, u, q, k)
    BY <1>10 DEF OrderedWaits
  <2>2. Awaited(e, t, p, <<"ready", k>>)
    BY <1>6, <1>7, <1>9, <2>1, AwaitedPops DEF ChunkWaits
  <2>3. Awaited(e, t, t, <<"own", k>>)
    BY <1>6, <1>7, <1>9, <2>1, AwaitedPops DEF ChunkWaits
  <2>4. RecordsFirst(t, <<"own", k>>, <<"own", k>>)
    BY <1>6, <2>1, RecordsFirstPops DEF ChunkWaits
  <2> QED
    BY <2>2, <2>3, <2>4 DEF ChunkWaits
<1>13. ASSUME NEW m \in Calls, NEW k \in Calls PROVE CallOrder(c, p, m, k)
  <2>1. CallOrder(b, q, m, k)
    BY <1>10 DEF OrderedWaits
  <2> QED
    BY <1>6, <2>1, RecordsFirstPops DEF CallOrder
<1>14. OrderedWaits(e, c, t, p)
  BY <1>11, <1>12, <1>13 DEF OrderedWaits
<1>15. WaitsFor(p, ComputeEvents') /\ WaitsFor(t, TransferEvents')
  <2>1. ComputeEvents \subseteq ComputeEvents' /\ TransferEvents \subseteq TransferEvents'
    BY EventsGrow
  <2>2. WaitsFor(p, ComputeEvents')
    BY <1>6, <1>10, <2>1, WaitsForPops
  <2>3. WaitsFor(t, TransferEvents')
    BY <1>6, <1>10, <2>1, WaitsForPops
  <2> QED
    BY <2>2, <2>3
<1>16. pc' \in {"sync", "rebind", "run"} => ReadyComes(e, t, This')
  <2> SUFFICES ASSUME pc \in {"sync", "rebind", "run"} PROVE ReadyComes(e, t, this)
    BY <1>3
  <2>1. ReadyComes(passed, u, this)
    BY <1>10
  <2>2. ~Upto(this, RunSoFar)
    BY <1>1 DEF Upto, RunSoFar, This, HostTypeOK
  <2>3. \A i : ~At(q, i, "wait", <<"ready", this>>)
    BY <1>1, <2>2, NotWaited
  <2>4. CASE <<"ready", this>> \in passed
    <3>1. <<"ready", this>> \in e
      BY <1>9, <2>3, <2>4
    <3> QED
      BY <3>1 DEF ReadyComes
  <2>5. CASE \E i \in 1..Len(u) : At(u, i, "record", <<"ready", this>>)
    <3>1. PICK i \in 1..Len(u) : At(u, i, "record", <<"ready", this>>)
      BY <2>5
    <3> QED
      BY <1>6, <1>7, <3>1, RecordPops DEF ReadyComes
  <2> QED
    BY <2>1, <2>4, <2>5 DEF ReadyComes
<1> QED
  BY <1>1, <1>14, <1>15, <1>16, WaitTogether

(* What is waited for still comes after a step, and after a step of        *)
(* nothing.                                                                *)
LEMMA WaitInvKept ==
    ASSUME IInv, WaitInv, [Next]_vars PROVE WaitInv'
<1>1. HostTypeOK /\ HostInv /\ WorkInv /\ HeldInv /\ FenceInv /\ DataInv
  BY DEF IInv
<1>2. CASE Next
  BY <1>1, <1>2, WaitHost, WaitStage, WaitRunChunk, WaitFinish, WaitExecute DEF Next
<1>3. CASE UNCHANGED vars
  <2>1. RunChunks' = RunChunks /\ StagedChunks' = StagedChunks
    BY <1>3 DEF vars, RunChunks, StagedChunks, Upto, RunSoFar, StagedSoFar
  <2>2. ComputeEvents' = ComputeEvents /\ TransferEvents' = TransferEvents
    BY <2>1 DEF ComputeEvents, TransferEvents
  <2>3. queue' = queue /\ passed' = passed /\ pc' = pc /\ This' = This
    BY <1>3 DEF vars, This
  <2> QED
    BY <2>2, <2>3, WaitTogether DEF WaitInv
<1> QED
  BY <1>2, <1>3

(* Nothing is waited for yet.                                              *)
LEMMA InitWaitInv ==
    ASSUME Init PROVE WaitInv
<1>1. /\ Len(queue["caller"]) = 0 /\ Len(queue["transfer"]) = 0
      /\ Len(queue["compute"]) = 0 /\ pc = "idle"
  BY Names DEF Init
<1>2. OrderedWaits(passed, queue["caller"], queue["transfer"], queue["compute"])
  BY <1>1 DEF OrderedWaits, CallWaits, ChunkWaits, CallOrder, Awaited, RecordsFirst
<1> QED
  BY <1>1, <1>2 DEF WaitInv, WaitsFor

(* A stream that has work and cannot go on waits for what has not happened.*)
LEMMA Blocked ==
    ASSUME HostTypeOK, NEW s \in Streams, ~Runnable(s)
    PROVE  \/ Len(queue[s]) = 0
           \/ /\ 1 \in 1..Len(queue[s]) /\ queue[s][1].do = "wait"
              /\ queue[s][1].about \notin passed
<1>1. CASE queue[s] = <<>>
  BY <1>1
<1>2. CASE queue[s] # <<>>
  <2>1. Head(queue[s]) = queue[s][1] /\ Shrunk(queue[s], Tail(queue[s]))
    BY <1>2, Popped DEF HostTypeOK
  <2> QED
    BY <1>2, <2>1 DEF Runnable, Shrunk
<1> QED
  BY <1>1, <1>2

(* Follow the waits: the transfer stream waits for nothing it will record, *)
(* compute for the transfer stream or for the caller's, the caller's for   *)
(* an earlier call's end on compute, which comes before that wait.         *)
LEMMA InvNoCircularWait ==
    ASSUME IInv, WaitInv PROVE NoCircularWait
<1>1. PICK b, u, q : b = queue["caller"] /\ u = queue["transfer"] /\ q = queue["compute"]
  OBVIOUS
<1>2. HostTypeOK /\ WorkInv /\ OrderedWaits(passed, b, u, q)
  BY <1>1 DEF IInv, WaitInv
<1> SUFFICES ASSUME \A s \in Streams : ~Runnable(s)
             PROVE  \A s \in Streams : queue[s] = <<>>
  BY DEF NoCircularWait
<1>3. /\ Len(b) = 0 \/ (1 \in 1..Len(b) /\ b[1].do = "wait" /\ b[1].about \notin passed)
      /\ Len(u) = 0 \/ (1 \in 1..Len(u) /\ u[1].do = "wait" /\ u[1].about \notin passed)
      /\ Len(q) = 0 \/ (1 \in 1..Len(q) /\ q[1].do = "wait" /\ q[1].about \notin passed)
  BY <1>1, <1>2, Blocked, Names
<1>4. Len(u) = 0
  <2> SUFFICES ASSUME Len(u) # 0 PROVE FALSE
    OBVIOUS
  <2>1. PICK k \in Chunks : At(u, 1, "wait", <<"own", k>>)
    BY <1>1, <1>2, <1>3 DEF WorkInv, TransferWork, At
  <2>2. Awaited(passed, u, u, <<"own", k>>) /\ RecordsFirst(u, <<"own", k>>, <<"own", k>>)
    BY <1>2 DEF OrderedWaits, ChunkWaits
  <2>3. PICK i \in 1..Len(u) : At(u, i, "record", <<"own", k>>)
    BY <1>3, <2>1, <2>2 DEF Awaited, At
  <2>4. i < 1
    BY <1>3, <2>1, <2>2, <2>3 DEF RecordsFirst
  <2> QED
    BY <2>4
<1>5. Len(q) = 0
  <2> SUFFICES ASSUME Len(q) # 0 PROVE FALSE
    OBVIOUS
  <2>1. \/ \E n \in Calls : At(q, 1, "wait", <<"query", n>>)
        \/ \E k \in Chunks : At(q, 1, "wait", <<"ready", k>>)
    BY <1>1, <1>2, <1>3 DEF WorkInv, ComputeWorks, At
  <2>2. ASSUME NEW k \in Chunks, At(q, 1, "wait", <<"ready", k>>) PROVE FALSE
    <3>1. Awaited(passed, u, q, <<"ready", k>>)
      BY <1>2 DEF OrderedWaits, ChunkWaits
    <3>2. \E i \in 1..Len(u) : At(u, i, "record", <<"ready", k>>)
      BY <1>3, <2>2, <3>1 DEF Awaited, At
    <3> QED
      BY <1>4, <3>2
  <2>3. ASSUME NEW n \in Calls, At(q, 1, "wait", <<"query", n>>) PROVE FALSE
    <3>1. Awaited(passed, b, q, <<"query", n>>)
      BY <1>2 DEF OrderedWaits, CallWaits
    <3>2. PICK i \in 1..Len(b) : At(b, i, "record", <<"query", n>>)
      BY <1>3, <2>3, <3>1 DEF Awaited, At
    <3>3. 1 \in 1..Len(b) /\ b[1].do = "wait" /\ b[1].about \notin passed
      BY <1>3, <3>2
    <3>4. PICK m \in 1..ClosedCalls : At(b, 1, "wait", <<"done", m>>)
      BY <1>1, <1>2, <3>3 DEF WorkInv, CallerWork, At
    <3>5. m \in Calls
      BY <1>2, <3>4, ConstantsAssumption DEF ClosedCalls, HostTypeOK, Calls
    <3>6. CallOrder(b, q, n, m) /\ CallOrder(b, q, m, n)
      BY <1>2, <3>5 DEF OrderedWaits
    <3>7. m < n
      <4> SUFFICES ASSUME n <= m PROVE FALSE
        BY <3>5 DEF Calls
      <4>1. i < 1
        BY <3>2, <3>3, <3>4, <3>6 DEF CallOrder, RecordsFirst
      <4> QED
        BY <4>1
    <3>8. Awaited(passed, q, b, <<"done", m>>)
      BY <1>2, <3>5 DEF OrderedWaits, CallWaits
    <3>9. PICK j \in 1..Len(q) : At(q, j, "record", <<"done", m>>)
      BY <3>3, <3>4, <3>8 DEF Awaited, At
    <3>10. j < 1
      BY <1>3, <2>3, <3>6, <3>7, <3>9 DEF CallOrder, RecordsFirst
    <3> QED
      BY <3>10
  <2> QED
    BY <2>1, <2>2, <2>3
<1>6. Len(b) = 0
  <2> SUFFICES ASSUME Len(b) # 0 PROVE FALSE
    OBVIOUS
  <2>1. PICK m \in 1..ClosedCalls : At(b, 1, "wait", <<"done", m>>)
    BY <1>1, <1>2, <1>3 DEF WorkInv, CallerWork, At
  <2>2. m \in Calls
    BY <1>2, <2>1, ConstantsAssumption DEF ClosedCalls, HostTypeOK, Calls
  <2>3. Awaited(passed, q, b, <<"done", m>>)
    BY <1>2, <2>2 DEF OrderedWaits, CallWaits
  <2>4. \E j \in 1..Len(q) : At(q, j, "record", <<"done", m>>)
    BY <1>3, <2>1, <2>3 DEF Awaited, At
  <2> QED
    BY <1>5, <2>4
<1> SUFFICES ASSUME NEW s \in Streams, queue[s] # <<>> PROVE FALSE
  OBVIOUS
<1>7. Len(queue[s]) = 0
  BY <1>1, <1>4, <1>5, <1>6, Names
<1>8. Shrunk(queue[s], Tail(queue[s]))
  BY <1>2, Popped DEF HostTypeOK
<1> QED
  BY <1>7, <1>8 DEF Shrunk

(* What is waited for has happened or will, in an order without circles.   *)
THEOREM WaitsAreOrdered == Spec => []WaitInv
<1>1. Init => WaitInv
  BY InitWaitInv
<1>2. IInv /\ WaitInv /\ [Next]_vars => WaitInv'
  BY WaitInvKept
<1> QED
  BY <1>1, <1>2, Invariant, PTL DEF Spec

(* However the streams' work and events interleave, over any number of     *)
(* calls and chunks and after calls that raised half way: while a stream   *)
(* has work left, one of them can go on.                                   *)
THEOREM StreamsGoOn == Spec => []NoCircularWait
<1>1. IInv /\ WaitInv => NoCircularWait
  BY InvNoCircularWait
<1> QED
  BY <1>1, Invariant, WaitsAreOrdered, PTL

(***************************************************************************)
(* No cell is lost.                                                        *)
(***************************************************************************)
(* A mark in queue q will free cell x; one in the queues c, t and p will.  *)
FreedBy(q, x)     == \E i \in 1..Len(q) : Frees(q, i, x)
Freed(c, t, p, x) == FreedBy(c, x) \/ FreedBy(t, x) \/ FreedBy(p, x)

(* The Python thread has it, the allocator has it, or will have it.        *)
LeakInv ==
    \A x \in Cells :
        \/ x \in free \/ x \in Held
        \/ Freed(queue["caller"], queue["transfer"], queue["compute"], x)

(* A mark stays when work is added, and one at the end is a mark.          *)
LEMMA FreedGrows ==
    ASSUME NEW q, NEW r, NEW k, Grown(q, r, k), NEW x
    PROVE  /\ FreedBy(q, x) => FreedBy(r, x)
           /\ \A i \in 1..k : r[Len(q) + i].do = "mark" /\ x \in r[Len(q) + i].writes
                                  => FreedBy(r, x)
<1>1. FreedBy(q, x) => FreedBy(r, x)
  <2> SUFFICES ASSUME NEW i \in 1..Len(q), Frees(q, i, x) PROVE FreedBy(r, x)
    BY DEF FreedBy
  <2>1. i \in 1..Len(r) /\ Frees(r, i, x)
    BY GrownPlaces
  <2> QED
    BY <2>1 DEF FreedBy
<1>2. ASSUME NEW i \in 1..k, r[Len(q) + i].do = "mark", x \in r[Len(q) + i].writes
      PROVE  FreedBy(r, x)
  <2>1. Len(q) + i \in 1..Len(r)
    BY EndPlaces
  <2>2. Frees(r, Len(q) + i, x)
    BY <1>2, <2>1 DEF Frees
  <2> QED
    BY <2>1, <2>2 DEF FreedBy
<1> QED
  BY <1>1, <1>2

(* When the first work is done, a mark stays or was that work.             *)
LEMMA FreedPops ==
    ASSUME NEW q, NEW r, r = q \/ Shrunk(q, r), NEW x, FreedBy(q, x)
    PROVE  \/ FreedBy(r, x)
           \/ Shrunk(q, r) /\ Frees(q, 1, x)
<1>1. PICK i \in 1..Len(q) : Frees(q, i, x)
  BY DEF FreedBy
<1>2. CASE r = q
  BY <1>2
<1>3. CASE Shrunk(q, r) /\ i = 1
  BY <1>1, <1>3
<1>4. CASE Shrunk(q, r) /\ i # 1
  <2>1. PICK l \in Nat : l + 1 = i /\ l \in 1..Len(r) /\ l >= 1
    <3>1. Len(q) \in Nat /\ Len(r) = Len(q) - 1
      BY <1>4 DEF Shrunk
    <3>2. i - 1 \in Nat /\ (i - 1) + 1 = i /\ i - 1 \in 1..Len(r) /\ i - 1 >= 1
      BY <1>4, <3>1
    <3> QED
      BY <3>2
  <2>2. Frees(r, l, x)
    BY <1>1, <1>4, <2>1, ShrunkPlaces
  <2> QED
    BY <2>1, <2>2 DEF FreedBy
<1> QED
  BY <1>2, <1>3, <1>4

(* LeakInv after a step of the Python thread, which adds work.             *)
LEMMA LeakGrows ==
    ASSUME LeakInv, NEW c, c = queue'["caller"], NEW t, t = queue'["transfer"],
           NEW p, p = queue'["compute"], NEW kc, NEW kt, NEW kp,
           c = queue["caller"] \/ Grown(queue["caller"], c, kc),
           t = queue["transfer"] \/ Grown(queue["transfer"], t, kt),
           p = queue["compute"] \/ Grown(queue["compute"], p, kp),
           \A x \in Cells : x \in free \/ x \in Held =>
               x \in free' \/ x \in Held' \/ Freed(c, t, p, x)
    PROVE  LeakInv'
<1>1. PICK b, u, q : b = queue["caller"] /\ u = queue["transfer"] /\ q = queue["compute"]
  OBVIOUS
<1>2. ASSUME NEW x \in Cells PROVE x \in free' \/ x \in Held' \/ Freed(c, t, p, x)
  <2>1. CASE Freed(b, u, q, x)
    <3>1. FreedBy(b, x) => FreedBy(c, x)
      BY <1>1, FreedGrows
    <3>2. FreedBy(u, x) => FreedBy(t, x)
      BY <1>1, FreedGrows
    <3>3. FreedBy(q, x) => FreedBy(p, x)
      BY <1>1, FreedGrows
    <3> QED
      BY <2>1, <3>1, <3>2, <3>3 DEF Freed
  <2>2. CASE x \in free \/ x \in Held
    BY <2>2
  <2> QED
    BY <1>1, <2>1, <2>2 DEF LeakInv
<1> QED
  BY <1>2 DEF LeakInv, Freed, FreedBy

(* What the Python thread lets go of is free, or its mark is enqueued.     *)
LEMMA LeakHost ==
    ASSUME HostTypeOK, HostInv, HeldInv, LeakInv,
           \/ \E n \in 1..MaxChunks : Decode(n)
           \/ NextChunk \/ NoMoreChunks \/ LoaderRaises
           \/ Stage \/ StageSync \/ Rebind \/ RunChunk \/ Finish
    PROVE  LeakInv'
<1>1. PICK b, u, q, c, t, p :
        /\ b = queue["caller"] /\ u = queue["transfer"] /\ q = queue["compute"]
        /\ c = queue'["caller"] /\ t = queue'["transfer"] /\ p = queue'["compute"]
  OBVIOUS
<1> DEFINE Passes == \A x \in Cells : x \in free \/ x \in Held =>
                         x \in free' \/ x \in Held' \/ Freed(c, t, p, x)
<1>2. CASE \E n \in 1..MaxChunks : Decode(n)
  <2>1. /\ Grown(b, c, 1) /\ t = u /\ p = q
        /\ UNCHANGED <<clone, tensors, current, merged>>
        /\ pc = "idle" /\ query' \in free \cap CallerCells /\ free' = free \ {query'}
    BY <1>1, <1>2, DecodeQueues
  <2>2. query = NoCell /\ query' # NoCell
    BY <2>1, Names DEF HostInv
  <2>3. Passes
    BY <2>1, <2>2 DEF Held
  <2> QED
    BY <1>1, <2>1, <2>3, LeakGrows
<1>3. CASE NextChunk
  <2>1. /\ t = u /\ p = q
        /\ UNCHANGED <<query, tensors, current, merged>>
        /\ direct => /\ Grown(b, c, 1)
                     /\ clone' \in (free \cup ({clone} \ {NoCell})) \cap CallerCells
                     /\ free' = (free \cup ({clone} \ {NoCell})) \ {clone'}
        /\ ~direct => c = b /\ clone' = clone /\ free' = free
    BY <1>1, <1>3, NextChunkQueues
  <2>2. CASE direct
    <3>1. clone' # NoCell
      BY <2>1, <2>2, Names
    <3>2. Passes
      BY <2>1, <2>2, <3>1 DEF Held
    <3> QED
      BY <1>1, <2>1, <2>2, <3>2, LeakGrows
  <2>3. CASE ~direct
    <3>1. Passes
      BY <2>1, <2>3 DEF Held
    <3> QED
      BY <1>1, <2>1, <2>3, <3>1, LeakGrows
  <2> QED
    BY <2>2, <2>3
<1>4. CASE NoMoreChunks \/ StageSync
  <2>1. /\ c = b /\ t = u /\ p = q
        /\ UNCHANGED <<free, query, clone, tensors, current, merged>>
    BY <1>1, <1>4, QuietQueues
  <2>2. Passes
    BY <2>1 DEF Held
  <2> QED
    BY <1>1, <2>1, <2>2, LeakGrows
<1>5. CASE LoaderRaises
  <2>1. /\ c = b /\ t = u /\ pc = "next"
        /\ merged = NoCell => p = q /\ free' = free \cup ({query, clone} \ {NoCell})
        /\ merged # NoCell =>
             /\ Grown(q, p, 1) /\ MarkOf(p[Len(q) + 1], {query, tensors})
             /\ free' = free \cup ({clone, merged} \ {NoCell})
    BY <1>1, <1>5, LoaderRaisesQueues
  <2>2. current = NoCell /\ (merged = NoCell => tensors = NoCell)
    BY <2>1 DEF HostInv
  <2>3. CASE merged = NoCell
    <3>1. Passes
      BY <2>1, <2>2, <2>3 DEF Held
    <3> QED
      BY <1>1, <2>1, <2>3, <3>1, LeakGrows
  <2>4. CASE merged # NoCell
    <3>1. \A x \in {query, tensors} : FreedBy(p, x)
      <4>1. 1 \in 1..1 /\ p[Len(q) + 1].do = "mark" /\ p[Len(q) + 1].writes = {query, tensors}
        BY <2>1, <2>4 DEF MarkOf
      <4> QED
        BY <2>1, <2>4, <4>1, FreedGrows
    <3>2. Passes
      BY <2>1, <2>2, <2>4, <3>1 DEF Held, Freed
    <3> QED
      BY <1>1, <2>1, <2>4, <3>2, LeakGrows
  <2> QED
    BY <2>3, <2>4
<1>6. CASE Stage
  <2>1. /\ c = b /\ p = q /\ pc = "stage"
        /\ UNCHANGED <<query, clone, tensors, merged>>
        /\ current' \in free \cap TransferCells /\ free' = free \ {current'}
        /\ direct => Grown(u, t, 4)
        /\ ~direct => Grown(u, t, 2)
    BY <1>1, <1>6, StageQueues
  <2>2. current = NoCell /\ current' # NoCell
    BY <2>1, Names DEF HostInv
  <2>3. Passes
    BY <2>1, <2>2 DEF Held
  <2> QED
    BY <1>1, <2>1, <2>3, LeakGrows
<1>7. CASE RunChunk
  <2>1. /\ t = u /\ UNCHANGED <<query, clone, tensors, current>>
        /\ merged' \in free \cap ComputeCells
        /\ free' = (free \ {merged'}) \cup ({merged} \ {NoCell})
        /\ chunk = 1 => Grown(b, c, 1) /\ Grown(q, p, 3)
        /\ chunk # 1 => c = b /\ Grown(q, p, 2)
    BY <1>1, <1>7, RunChunkQueues
  <2>2. merged' # NoCell
    BY <2>1, Names
  <2>3. Passes
    BY <2>1, <2>2 DEF Held
  <2>4. CASE chunk = 1
    BY <1>1, <2>1, <2>3, <2>4, LeakGrows
  <2>5. CASE chunk # 1
    BY <1>1, <2>1, <2>3, <2>5, LeakGrows
  <2> QED
    BY <2>4, <2>5
<1>8. CASE Finish
  <2>1. /\ t = u /\ pc = "finish"
        /\ free' = free \cup ({clone} \ {NoCell})
        /\ Grown(q, p, 2) /\ MarkOf(p[Len(q) + 2], {query, tensors})
        /\ Grown(b, c, 3) /\ MarkOf(c[Len(b) + 3], {merged})
    BY <1>1, <1>8, FinishQueues
  <2>2. current = NoCell
    BY <2>1 DEF HostInv
  <2>3. \A x \in {query, tensors} : FreedBy(p, x)
    <3>1. 2 \in 1..2 /\ p[Len(q) + 2].do = "mark" /\ p[Len(q) + 2].writes = {query, tensors}
      BY <2>1 DEF MarkOf
    <3> QED
      BY <2>1, <3>1, FreedGrows
  <2>4. FreedBy(c, merged)
    <3>1. 3 \in 1..3 /\ c[Len(b) + 3].do = "mark" /\ merged \in c[Len(b) + 3].writes
      BY <2>1 DEF MarkOf
    <3> QED
      BY <2>1, <3>1, FreedGrows
  <2>5. Passes
    BY <2>1, <2>2, <2>3, <2>4 DEF Held, Freed
  <2> QED
    BY <1>1, <2>1, <2>5, LeakGrows
<1>9. CASE Rebind
  <2>1. /\ c = b /\ t = u /\ tensors' = current
        /\ UNCHANGED <<free, query, clone, merged>>
        /\ merged = NoCell <=> tensors = NoCell
        /\ merged = NoCell => p = q
        /\ merged # NoCell => Grown(q, p, 1) /\ MarkOf(p[Len(q) + 1], {tensors})
    BY <1>1, <1>9, RebindQueues
  <2>2. CASE merged = NoCell
    <3>1. Passes
      BY <2>1, <2>2 DEF Held
    <3> QED
      BY <1>1, <2>1, <2>2, <3>1, LeakGrows
  <2>3. CASE merged # NoCell
    <3>1. FreedBy(p, tensors)
      <4>1. 1 \in 1..1 /\ p[Len(q) + 1].do = "mark" /\ tensors \in p[Len(q) + 1].writes
        BY <2>1, <2>3 DEF MarkOf
      <4> QED
        BY <2>1, <2>3, <4>1, FreedGrows
    <3>2. Passes
      BY <2>1, <3>1 DEF Held, Freed
    <3> QED
      BY <1>1, <2>1, <2>3, <3>2, LeakGrows
  <2> QED
    BY <2>2, <2>3
<1> QED
  BY <1>2, <1>3, <1>4, <1>5, <1>6, <1>7, <1>8, <1>9

(* A mark that is done frees its cells.                                    *)
LEMMA LeakExecute ==
    ASSUME HostTypeOK, LeakInv, NEW s \in Streams, Execute(s)
    PROVE  LeakInv'
<1>1. PICK b, u, q, c, t, p, op :
        /\ b = queue["caller"] /\ u = queue["transfer"] /\ q = queue["compute"]
        /\ c = queue'["caller"] /\ t = queue'["transfer"] /\ p = queue'["compute"]
        /\ op = queue[s][1]
  OBVIOUS
<1>2. /\ s = "caller"   => Shrunk(b, c) /\ op = b[1]
      /\ s = "transfer" => Shrunk(u, t) /\ op = u[1]
      /\ s = "compute"  => Shrunk(q, p) /\ op = q[1]
      /\ s # "caller" => c = b
      /\ s # "transfer" => t = u
      /\ s # "compute" => p = q
  BY <1>1, ExecuteQueues, Names
<1>3. /\ free' = IF op.do = "mark" THEN free \cup op.writes ELSE free
      /\ UNCHANGED <<query, clone, tensors, current, merged>>
  BY <1>1, ExecuteQueues DEF hostVars
<1>4. free \subseteq free' /\ Held' = Held
  BY <1>3 DEF Held
<1>5. /\ c = b \/ Shrunk(b, c)
      /\ t = u \/ Shrunk(u, t)
      /\ p = q \/ Shrunk(q, p)
      /\ \A r : ~Shrunk(r, r)
  <2>1. \A r : ~Shrunk(r, r)
    BY DEF Shrunk
  <2> QED
    BY <1>2, <2>1, Names
<1>6. \A x : op.do = "mark" /\ x \in op.writes => x \in free'
  BY <1>3
<1>7. ASSUME NEW x \in Cells PROVE x \in free' \/ x \in Held' \/ Freed(c, t, p, x)
  <2>1. ASSUME FreedBy(b, x) PROVE FreedBy(c, x) \/ x \in free'
    <3>1. CASE Shrunk(b, c) /\ Frees(b, 1, x)
      BY <1>2, <1>5, <1>6, <3>1 DEF Frees
    <3> QED
      BY <1>5, <2>1, <3>1, FreedPops
  <2>2. ASSUME FreedBy(u, x) PROVE FreedBy(t, x) \/ x \in free'
    <3>1. CASE Shrunk(u, t) /\ Frees(u, 1, x)
      BY <1>2, <1>5, <1>6, <3>1 DEF Frees
    <3> QED
      BY <1>5, <2>2, <3>1, FreedPops
  <2>3. ASSUME FreedBy(q, x) PROVE FreedBy(p, x) \/ x \in free'
    <3>1. CASE Shrunk(q, p) /\ Frees(q, 1, x)
      BY <1>2, <1>5, <1>6, <3>1 DEF Frees
    <3> QED
      BY <1>5, <2>3, <3>1, FreedPops
  <2>4. x \in free \/ x \in Held \/ FreedBy(b, x) \/ FreedBy(u, x) \/ FreedBy(q, x)
    BY <1>1 DEF LeakInv, Freed
  <2> QED
    BY <1>4, <2>1, <2>2, <2>3, <2>4 DEF Freed
<1> QED
  BY <1>1, <1>7 DEF LeakInv, Freed, FreedBy

(* No step loses a cell.                                                   *)
LEMMA LeakInvKept ==
    ASSUME IInv, LeakInv, [Next]_vars PROVE LeakInv'
<1>1. HostTypeOK /\ HostInv /\ HeldInv
  BY DEF IInv
<1>2. CASE Next
  BY <1>1, <1>2, LeakHost, LeakExecute DEF Next
<1>3. CASE UNCHANGED vars
  BY <1>3 DEF vars, LeakInv, Held
<1> QED
  BY <1>2, <1>3

(* With two cells in each pool, one is free when the Python thread needs   *)
(* one: it keeps one of each at most, and none is lost.                    *)
LEMMA InvHostFindsMemory ==
    ASSUME IInv, LeakInv, \A s \in Streams : \E x, y \in Pool(s) : x # y
    PROVE  HostFindsMemory
<1>1. HostTypeOK /\ HostInv
  BY DEF IInv
<1> SUFFICES ASSUME \A s \in Streams : queue[s] = <<>> PROVE HostCanGo
  BY DEF HostFindsMemory
<1>2. \A x \in Cells : x \in free \/ x \in Held
  <2>1. /\ Len(queue["caller"]) = 0 /\ Len(queue["transfer"]) = 0
        /\ Len(queue["compute"]) = 0
    BY Names
  <2> QED
    BY <2>1 DEF LeakInv, Freed, FreedBy
<1>3. /\ \A x \in CallerCells   : x \in Held => x \in {query, clone}
      /\ \A x \in TransferCells : x \in Held => x \in {tensors, current}
      /\ \A x \in ComputeCells  : x \in Held => x = merged
  BY <1>1, ConstantsAssumption DEF Held, HostTypeOK
<1>4. \E x \in CallerCells : x # query
  <2>1. PICK x, y \in CallerCells : x # y
    BY Names
  <2> QED
    BY <2>1
<1>5. \E x \in TransferCells : x # tensors
  <2>1. PICK x, y \in TransferCells : x # y
    BY Names
  <2> QED
    BY <2>1
<1>6. \E x \in ComputeCells : x # merged
  <2>1. PICK x, y \in ComputeCells : x # y
    BY Names
  <2> QED
    BY <2>1
<1>7. (free \cup {clone}) \cap CallerCells # {}
  BY <1>2, <1>3, <1>4, Names
<1>8. pc = "stage" => free \cap TransferCells # {}
  <2> SUFFICES ASSUME pc = "stage" PROVE free \cap TransferCells # {}
    OBVIOUS
  <2>1. current = NoCell
    BY <1>1 DEF HostInv
  <2> QED
    BY <1>2, <1>3, <1>5, <2>1, Names
<1>9. free \cap ComputeCells # {}
  BY <1>2, <1>3, <1>6, Names
<1> QED
  BY <1>7, <1>8, <1>9 DEF HostCanGo

(* No cell is lost: the Python thread has it, or the allocator, or a mark  *)
(* on a stream that will give it back, also when the loader raises.        *)
THEOREM NoCellIsLost == Spec => []LeakInv
<1>1. Init => LeakInv
  BY DEF Init, LeakInv
<1>2. IInv /\ LeakInv /\ [Next]_vars => LeakInv'
  BY LeakInvKept
<1> QED
  BY <1>1, <1>2, Invariant, PTL DEF Spec

(* Staging is bounded: two cells of each pool are enough, over any number  *)
(* of calls and chunks and after calls that raised half way.               *)
THEOREM MemoryIsFound ==
    ASSUME \A s \in Streams : \E x, y \in Pool(s) : x # y
    PROVE  Spec => []HostFindsMemory
<1>1. IInv /\ LeakInv => HostFindsMemory
  BY InvHostFindsMemory
<1> QED
  BY <1>1, Invariant, NoCellIsLost, PTL

(* Nobody waits for everybody: with two cells in each pool a decode, or    *)
(* the streams it left work on, can always go on.                          *)
THEOREM NobodyIsStuck ==
    ASSUME \A s \in Streams : \E x, y \in Pool(s) : x # y
    PROVE  Spec => []NeverStuck
<1>1. NoCircularWait /\ HostFindsMemory => NeverStuck
  BY DEF NeverStuck
<1> QED
  BY <1>1, StreamsGoOn, MemoryIsFound, PTL
===============================================================================
