---------------------------- MODULE StreamedDecode ----------------------------
(***************************************************************************)
(* KVSSDPipeline on a CUDA device (pipeline.py): the Python thread stages  *)
(* chunk after chunk and enqueues work on three streams that run behind    *)
(* it.  Device memory is a set of cells per stream; the caching allocator  *)
(* hands a released cell out again at once, or, when record_stream named   *)
(* another stream, once that stream has done the work it was given before  *)
(* the release.                                                            *)
(*                                                                         *)
(* With `direct` the loader's blocks are device clones (GPUDirect), made   *)
(* on the caller's stream; otherwise they are host tensors.  A chunk's     *)
(* four tensors share one cell, and attention and merge are one kernel:    *)
(* its temporaries never leave the compute stream.  A chunk is one block   *)
(* where the loader's slots matter (stage_blocks = 1).  Pinned host memory *)
(* is kept by the host allocator until its copies are done and left out.   *)
(***************************************************************************)
EXTENDS Naturals, Sequences, FiniteSets

CONSTANTS CallerCells, TransferCells, ComputeCells,  \* one pool per stream
          NoCell,
          Depth,             \* slots of the loader (io_depth)
          MaxCalls,          \* bound: decode calls
          MaxChunks,         \* bound: chunks of one call
          MaxFaults          \* bound: reads that raise

ASSUME ConstantsAssumption ==
    /\ NoCell \notin CallerCells \cup TransferCells \cup ComputeCells
    /\ CallerCells \cap TransferCells = {} /\ CallerCells \cap ComputeCells = {}
    /\ TransferCells \cap ComputeCells = {}
    /\ Depth \in Nat \ {0} /\ MaxCalls \in Nat /\ MaxChunks \in Nat /\ MaxFaults \in Nat

VARIABLES direct,            \* the storage backend reads into device memory
          queue,             \* queue[s]: work stream s has not done yet, in order
          passed,            \* events that have happened and were not yet waited for
          mem,               \* mem[x]: what cell x holds
          free,              \* cells the allocator may hand out
          user,              \* user[x]: the stream record_stream named, or "none"
          pc,                \* the Python thread's next step
          call,              \* decode calls so far
          chunks, chunk,     \* the call's number of chunks; chunks staged
          query, clone,      \* cells of the query and of the newest chunk's clones
          tensors, current,  \* cells of the chunk computed and of the chunk staged
          merged,            \* cell of merged_out and merged_lse
          result,            \* result[n]: what call n's caller reads, or <<>>
          faults

gpuVars  == <<queue, passed, mem, free, user, result>>
hostVars == <<pc, call, chunks, chunk, query, clone, tensors, current, merged>>
vars == <<direct, queue, passed, mem, free, user, pc, call, chunks, chunk, query,
          clone, tensors, current, merged, result, faults>>

Streams == {"caller", "transfer", "compute"}
Cells   == CallerCells \cup TransferCells \cup ComputeCells
Pool(s) == CASE s = "caller"   -> CallerCells
             [] s = "transfer" -> TransferCells
             [] s = "compute"  -> ComputeCells
Calls   == 1..MaxCalls
Chunks  == Calls \X (1..MaxChunks)

(* What a cell holds: nothing yet, a call's query, a chunk's blocks, a     *)
(* stacked chunk (whole, or spoiled because the blocks were not there), or *)
(* the merge of attention results, as the list of what each one has read.  *)
Nothing    == <<"nothing", <<>>>>
Queries    == {<<"query", n>> : n \in Calls}
Staged     == {"staged", "spoiled"} \X Chunks
Events     == ({"query", "done"} \X Calls) \cup ({"ready", "own"} \X Chunks)

(* Work on a stream: what it does, the cells it reads, the cell it writes  *)
(* (or, for a mark, gives back), the call, chunk or event it is about.     *)
Work(do, reads, writes, about) ==
    [do |-> do, reads |-> reads, writes |-> writes, about |-> about]

Record(event) == Work("record", <<>>, {}, event)
Wait(event)   == Work("wait", <<>>, {}, event)

Kinds == {"record", "wait", "mark", "query", "clone", "stack", "attend", "convert"}

TypeOK ==
    /\ direct \in BOOLEAN
    /\ \A s \in Streams : \A i \in 1..Len(queue[s]) :
         /\ queue[s][i].do \in Kinds
         /\ queue[s][i].writes \subseteq Cells
    /\ DOMAIN queue = Streams
    /\ passed \subseteq Events
    /\ DOMAIN mem = Cells
    /\ free \subseteq Cells
    /\ user \in [Cells -> Streams \cup {"none"}]
    /\ pc \in {"idle", "next", "stage", "sync", "rebind", "run", "finish"}
    /\ call \in 0..MaxCalls
    /\ chunks \in 0..MaxChunks /\ chunk \in 0..chunks
    /\ {query, clone, tensors, current, merged} \subseteq Cells \cup {NoCell}
    /\ result \in [Calls -> Seq(Queries \X Staged)]
    /\ faults \in 0..MaxFaults

Init ==
    /\ direct \in BOOLEAN
    /\ queue = [s \in Streams |-> <<>>]
    /\ passed = {}
    /\ mem = [x \in Cells |-> Nothing]
    /\ free = Cells
    /\ user = [x \in Cells |-> "none"]
    /\ pc = "idle"
    /\ call = 0 /\ chunks = 0 /\ chunk = 0
    /\ query = NoCell /\ clone = NoCell
    /\ tensors = NoCell /\ current = NoCell /\ merged = NoCell
    /\ result = [n \in Calls |-> <<>>]
    /\ faults = 0

This == <<call, chunk>>

(***************************************************************************)
(* The caching allocator.  Released cells whose user is another stream     *)
(* are marked there: the cell is free when the stream reaches the mark.    *)
(***************************************************************************)
Marks(released, used) ==
    [s \in Streams |-> {x \in released \ {NoCell} : used[x] = s}]

MarkWork(xs) == IF xs = {} THEN <<>> ELSE <<Work("mark", <<>>, xs, This)>>

(* The Python thread enqueues work[s] on every stream s and then lets go   *)
(* of the cells in `released`; `taken` are the cells it has allocated.     *)
Enqueue(work, taken, released, used) ==
    /\ queue' = [s \in Streams |-> queue[s] \o work[s] \o MarkWork(Marks(released, used)[s])]
    /\ free' = (free \ taken) \cup {x \in released \ {NoCell} : used[x] = "none"}
    /\ user' = used

On(s, work) == [r \in Streams |-> IF r = s THEN work ELSE <<>>]

(***************************************************************************)
(* decode, and _decode_cuda_streamed, in the order of its calls.           *)
(***************************************************************************)
(* The caller produces its query on its own stream and calls decode.       *)
Decode(n) ==
    /\ pc = "idle"
    /\ call < MaxCalls
    /\ call' = call + 1
    /\ chunks' = n
    /\ chunk' = 0
    /\ \E q \in free \cap CallerCells :
         /\ query' = q
         /\ Enqueue(On("caller", <<Work("query", <<>>, {q}, call + 1)>>), {q}, {},
                    [user EXCEPT ![q] = "none"])
    /\ pc' = "next"
    /\ UNCHANGED <<direct, passed, mem, clone, tensors, current, merged, result, faults>>

(* Resuming the loader gives the last block's slot back; if a read is left *)
(* to submit, it waits until the slot's clones are done (reuse_event).     *)
CloneDone == \A i \in 1..Len(queue["caller"]) : queue["caller"][i].do # "clone"
SlotReady == direct /\ chunk > 0 /\ chunk + Depth <= chunks => CloneDone

(* _chunks yields another chunk. *)
MoreChunksOffByOne == chunk <= chunks
MoreChunks == chunk < chunks

(* next(chunks): the loader delivers; its old clones are let go before or  *)
(* after the new ones are allocated.                                       *)
NextChunk ==
    /\ pc = "next"
    /\ MoreChunks
    /\ SlotReady
    /\ chunk' = chunk + 1
    /\ IF direct
         THEN \E before \in BOOLEAN :
              \E b \in (IF before THEN free \cup ({clone} \ {NoCell}) ELSE free) \cap CallerCells :
                /\ clone' = b
                /\ queue' = [queue EXCEPT !["caller"] =
                       Append(@, Work("clone", <<>>, {b}, <<call, chunk + 1>>))]
                /\ free' = (free \cup ({clone} \ {NoCell})) \ {b}
                /\ user' = [user EXCEPT ![b] = "none"]
         ELSE UNCHANGED <<clone, queue, free, user>>
    /\ pc' = "stage"
    /\ UNCHANGED <<direct, passed, mem, call, chunks, query, tensors, current, merged,
                   result, faults>>

NoMoreChunks ==
    /\ pc = "next"
    /\ ~MoreChunks
    /\ pc' = "finish"
    /\ UNCHANGED <<direct, gpuVars, call, chunks, chunk, query, clone, tensors,
                   current, merged, faults>>

(* The loader raises; the frame and the caller's query are let go. *)
LoaderRaises ==
    /\ pc = "next"
    /\ MoreChunks
    /\ faults < MaxFaults
    /\ faults' = faults + 1
    /\ Enqueue(On("caller", <<>>), {}, {query, clone, tensors, current, merged}, user)
    /\ query' = NoCell /\ clone' = NoCell
    /\ tensors' = NoCell /\ current' = NoCell /\ merged' = NoCell
    /\ pc' = "idle"
    /\ UNCHANGED <<direct, passed, mem, call, chunks, chunk, result>>

(* _stage.  The wait_stream of the direct path is called with the transfer *)
(* stream current, so the transfer stream waits for itself.  The tensor of *)
(* valid_tokens is then copied synchronously.                              *)
StageWork(t) ==
    (IF direct THEN <<Record(<<"own", This>>), Wait(<<"own", This>>)>> ELSE <<>>)
        \o <<Work("stack", IF direct THEN <<clone>> ELSE <<>>, {t}, This), Record(<<"ready", This>>)>>

Stage ==
    /\ pc = "stage"
    /\ \E t \in free \cap TransferCells :
         /\ current' = t
         /\ Enqueue(On("transfer", StageWork(t)), {t}, {}, [user EXCEPT ![t] = "none"])
    /\ pc' = IF direct THEN "sync" ELSE "rebind"
    /\ UNCHANGED <<direct, passed, mem, call, chunks, chunk, query, clone, tensors,
                   merged, result, faults>>

StageSync ==
    /\ pc = "sync"
    /\ queue["transfer"] = <<>>
    /\ pc' = "rebind"
    /\ UNCHANGED <<direct, gpuVars, call, chunks, chunk, query, clone, tensors,
                   current, merged, faults>>

(* tensors, ready = current: the tensors of the chunk before are let go    *)
(* right behind their attention, before any work of the new chunk is       *)
(* enqueued; their memory may come back while that work is pending.        *)
ReboundKeepsTensors == {}
Rebound == {tensors}

Rebind ==
    /\ pc = "rebind"
    /\ Enqueue(On("compute", <<>>), {}, Rebound, user)
    /\ tensors' = current
    /\ current' = NoCell
    /\ pc' = "run"
    /\ UNCHANGED <<direct, passed, mem, call, chunks, chunk, query, clone, merged,
                   result, faults>>

(* The rest of the loop body: wait for the chunk, attend and merge on the  *)
(* compute stream, name that stream as a user of the chunk's tensors.      *)
(* merged_out is bound to the new merge.                                   *)
CallerReady == IF chunk = 1 THEN <<Record(<<"query", call>>)>> ELSE <<>>

ComputeWorkNoWait(m) ==
    (IF chunk = 1 THEN <<Wait(<<"query", call>>)>> ELSE <<>>)
        \o <<Work("attend", <<query, tensors>> \o (IF merged = NoCell THEN <<>> ELSE <<merged>>),
                  {m}, This)>>

ComputeWork(m) ==
    (IF chunk = 1 THEN <<Wait(<<"query", call>>)>> ELSE <<>>)
        \o <<Wait(<<"ready", This>>),
             Work("attend", <<query, tensors>> \o (IF merged = NoCell THEN <<>> ELSE <<merged>>),
                  {m}, This)>>

(* record_stream *)
UsersForgetTensors(m) == [user EXCEPT ![m] = "none", ![query] = "compute"]
Users(m) == [user EXCEPT ![m] = "none", ![tensors] = "compute", ![query] = "compute"]

RunChunk ==
    /\ pc = "run"
    /\ \E m \in free \cap ComputeCells :
         /\ merged' = m
         /\ Enqueue([s \in Streams |-> CASE s = "caller"  -> CallerReady
                                         [] s = "compute" -> ComputeWork(m)
                                         [] OTHER         -> <<>>],
                    {m}, {merged}, Users(m))
    /\ pc' = "next"
    /\ UNCHANGED <<direct, passed, mem, call, chunks, chunk, query, clone, tensors, current,
                   result, faults>>

(* The caller's stream waits for the compute stream and converts the       *)
(* result; the frame and the caller's query are let go.                    *)
Finish ==
    /\ pc = "finish"
    /\ Enqueue([s \in Streams |->
                  CASE s = "compute" -> <<Record(<<"done", call>>)>>
                    [] s = "caller"  -> <<Wait(<<"done", call>>),
                                          Work("convert", <<merged>>, {}, call)>>
                    [] OTHER         -> <<>>],
               {}, {query, clone, tensors, current, merged},
               [user EXCEPT ![merged] = "caller"])
    /\ query' = NoCell /\ clone' = NoCell
    /\ tensors' = NoCell /\ current' = NoCell /\ merged' = NoCell
    /\ pc' = "idle"
    /\ UNCHANGED <<direct, passed, mem, call, chunks, chunk, result, faults>>

(***************************************************************************)
(* A stream does its next piece of work.  Each event has one waiter.       *)
(***************************************************************************)
Stacked(op) ==
    IF direct /\ mem[op.reads[1]] # <<"blocks", op.about>>
      THEN <<"spoiled", op.about>> ELSE <<"staged", op.about>>

Attended(op) ==
    <<"merge", (IF Len(op.reads) = 3 THEN mem[op.reads[3]][2] ELSE <<>>)
                   \o << <<mem[op.reads[1]], mem[op.reads[2]]>> >> >>

Written(op) == CASE op.do = "query"  -> <<"query", op.about>>
                 [] op.do = "clone"  -> <<"blocks", op.about>>
                 [] op.do = "stack"  -> Stacked(op)
                 [] op.do = "attend" -> Attended(op)

Execute(s) ==
    /\ queue[s] # <<>>
    /\ LET op == Head(queue[s]) IN
         /\ op.do = "wait" => op.about \in passed
         /\ passed' = CASE op.do = "record" -> passed \cup {op.about}
                        [] op.do = "wait"   -> passed \ {op.about}
                        [] OTHER            -> passed
         /\ free' = IF op.do = "mark" THEN free \cup op.writes ELSE free
         /\ mem' = IF op.do = "mark" THEN mem
                    ELSE [x \in Cells |-> IF x \in op.writes THEN Written(op) ELSE mem[x]]
         /\ result' = IF op.do = "convert"
                        THEN [result EXCEPT ![op.about] = mem[op.reads[1]][2]] ELSE result
    /\ queue' = [queue EXCEPT ![s] = Tail(@)]
    /\ UNCHANGED <<direct, user, hostVars, faults>>

(***************************************************************************)
(* The specification.                                                      *)
(***************************************************************************)
Next ==
    \/ \E n \in 1..MaxChunks : Decode(n)
    \/ NextChunk \/ NoMoreChunks \/ LoaderRaises
    \/ Stage \/ StageSync \/ Rebind \/ RunChunk \/ Finish
    \/ \E s \in Streams : Execute(s)

Spec == Init /\ [][Next]_vars

(***************************************************************************)
(* Properties.                                                             *)
(***************************************************************************)
(* What the caller reads on its stream is the merge, in order, of          *)
(* attention of its own query over every chunk of its own call: no stream  *)
(* overtook another and no tensor's memory was handed out too early, also  *)
(* after an earlier call raised half way.                                  *)
ResultExact(n) ==
    \A i \in 1..Len(result[n]) :
        /\ result[n][i][1] = <<"query", n>>
        /\ result[n][i][2] \in {"staged", "spoiled"} \X {<<n, i>>}

ResultsExact ==
    \A n \in Calls : ResultExact(n) /\ (n = call /\ result[n] # <<>> => Len(result[n]) = chunks)

(* Memory of another stream that enqueued work is still going to read has  *)
(* not been handed back: each tensor that crosses streams carries its      *)
(* record_stream, and clones are stacked before they are let go.           *)
PendingReadsHeld ==
    \A s \in Streams : \A i \in 1..Len(queue[s]) : \A k \in 1..Len(queue[s][i].reads) :
        queue[s][i].reads[k] \in free => queue[s][i].reads[k] \in Pool(s)

Runnable(s) ==
    /\ queue[s] # <<>>
    /\ Head(queue[s]).do = "wait" => Head(queue[s]).about \in passed

HostCanGo ==
    CASE pc = "next"  -> direct /\ MoreChunks => (free \cup {clone}) \cap CallerCells # {}
      [] pc = "stage" -> free \cap TransferCells # {}
      [] pc = "run"   -> free \cap ComputeCells # {}
      [] OTHER        -> TRUE

(* No wait is circular: while a stream has work left, one of them can go   *)
(* on, however far behind it is and also after a call that raised half way *)
(* (pipeline.py: wait_event, wait_stream).                                 *)
NoCircularWait == (\E s \in Streams : queue[s] # <<>>) => \E s \in Streams : Runnable(s)

(* Staging is bounded: once the streams are done, the Python thread finds  *)
(* the memory its next step needs in the instance's small pools.           *)
HostFindsMemory == (\A s \in Streams : queue[s] = <<>>) => HostCanGo

(* Nobody waits for everybody: a stream with work can go on, or the Python *)
(* thread can.                                                             *)
NeverStuck == NoCircularWait /\ HostFindsMemory

(* docs/release-notes/v0.2.0.md: "fused attention consumes GPU payload     *)
(* views after a stream-safe coalescing step".                             *)
CoalescingSafe ==
    \A n \in Calls : \A i \in 1..Len(result[n]) : result[n][i][2][1] = "staged"
=============================================================================
