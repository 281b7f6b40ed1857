------------------------------ MODULE FusedKernel ------------------------------
(***************************************************************************)
(* csrc/fused_decode.cu: the threads of one CUDA block, which works for    *)
(* one query head.  They share reduce and state and meet at barriers       *)
(* (__syncthreads); between two barriers they run in any order.  The       *)
(* blocks of the grid share nothing, so they are run one after the other.  *)
(***************************************************************************)
EXTENDS Attention

CONSTANT MinThreads          \* the block size the launch begins with (32 in the code)

ASSUME KernelAssumption == MinThreads \in {2, 4, 8, 16, 32}

VARIABLES head,              \* the query head, 0 when no kernel runs
          at,                \* at[tid]: the statement thread tid is about to run
          row, stride,       \* row[tid], stride[tid]: its loop variables
          acc,               \* acc[tid]: out_acc
          reduce, state,     \* shared memory
          running            \* running_m and running_l of thread 0

kernelVars == <<head, at, row, stride, acc, reduce, state, running>>

(* The smallest power of two from MinThreads on that covers head_dim. *)
BlockDim(dim) ==
    LET sizes == {n \in {2, 4, 8, 16, 32, 64, 128, 256} : n >= MinThreads /\ n >= dim}
    IN  CHOOSE n \in sizes : \A m \in sizes : n <= m

(* fused_decode_cuda's checks on the host. *)
CudaAccepts(query, batch) ==
    /\ BatchAccepts(query, batch)
    /\ Len(query[1]) <= 256
    /\ batch.groups = Len(query[1]) \div batch.group_size

KernelIdle ==
    /\ head = 0
    /\ at = <<>> /\ row = <<>> /\ stride = <<>> /\ acc = <<>>
    /\ reduce = <<>> /\ state = <<>> /\ running = <<>>

Tids == DOMAIN at            \* 1..blockDim; thread tid of the code is tid + 1 here

(* A thread that arrives waits for all of the block, then goes on. *)
Ready(statement)   == [next |-> statement, waits |-> FALSE]
Barrier(statement) == [next |-> statement, waits |-> TRUE]

(* What shared memory holds at the start stands for itself as a NaN: a     *)
(* result it enters never loses it.                                        *)
Launch(h, dim, rows) ==
    LET tids == 1..BlockDim(dim)
    IN  /\ head' = h
        /\ at' = [i \in tids |-> Ready(IF rows = <<>> THEN "store" ELSE "partial")]
        /\ row' = [i \in tids |-> 1]
        /\ stride' = [i \in tids |-> BlockDim(dim) \div 2]
        /\ acc' = [i \in tids |-> 0]
        /\ reduce' = [i \in tids |-> NaN]
        /\ state' = <<NaN, NaN, NaN>>
        /\ running' = [m |-> NegInf, l |-> 0]

Released ==
    /\ Tids # {} /\ \A i \in Tids : at[i].waits
    /\ at' = [i \in Tids |-> Ready(at[i].next)]
    /\ UNCHANGED <<head, row, stride, acc, reduce, state, running>>

(* reduce[tid] = the thread's share of the dot product. *)
Partial(i, vector, batch, rows, h) ==
    /\ at[i] = Ready("partial")
    /\ reduce' = [reduce EXCEPT ![i] =
            IF i <= Len(vector)
            THEN vector[i] * Element(batch.key[rows[row[i]][1]], batch, rows[row[i]][2], h, i - 1)
            ELSE 0]
    /\ stride' = [stride EXCEPT ![i] = Len(at) \div 2]
    /\ at' = [at EXCEPT ![i] = Barrier("add")]
    /\ UNCHANGED <<head, row, acc, state, running>>

(* One turn of the tree reduction. *)
Add(i) ==
    /\ at[i] = Ready("add")
    /\ reduce' = IF i <= stride[i] THEN [reduce EXCEPT ![i] = Plus(@, reduce[i + stride[i]])]
                 ELSE reduce
    /\ stride' = [stride EXCEPT ![i] = @ \div 2]
    /\ at' = [at EXCEPT ![i] = IF stride[i] > 1 THEN Barrier("add") ELSE Barrier("state")]
    /\ UNCHANGED <<head, row, acc, state, running>>

(* Without the barrier behind it. *)
StateUnsynchronized(i, bits) ==
    /\ at[i] = Ready("state")
    /\ IF i = 1
       THEN LET score == Whole(reduce[1], bits)
                next  == Larger(running.m, score)
                old   == Exp(running.m, next)
                new   == Exp(score, next)
                sum   == Scaled(running.l, old) + new
            IN  running' = [m |-> next, l |-> sum] /\ state' = <<old, new, sum>>
       ELSE UNCHANGED <<running, state>>
    /\ at' = [at EXCEPT ![i] = Ready("weigh")]
    /\ UNCHANGED <<head, row, stride, acc, reduce>>

(* if (tid == 0): the online softmax, shared with the others. *)
State(i, bits) ==
    /\ at[i] = Ready("state")
    /\ IF i = 1
       THEN LET score == Whole(reduce[1], bits)
                next  == Larger(running.m, score)
                old   == Exp(running.m, next)
                new   == Exp(score, next)
                sum   == Scaled(running.l, old) + new
            IN  running' = [m |-> next, l |-> sum] /\ state' = <<old, new, sum>>
       ELSE UNCHANGED <<running, state>>
    /\ at' = [at EXCEPT ![i] = Barrier("weigh")]
    /\ UNCHANGED <<head, row, stride, acc, reduce>>

(* if (tid < head_dim): the thread's element of the output, then the next  *)
(* token.                                                                  *)
Weigh(i, batch, rows, h, dim) ==
    /\ at[i] = Ready("weigh")
    /\ acc' = IF i <= dim
              THEN [acc EXCEPT ![i] =
                      Plus(Scaled(@, state[1]),
                           Scaled(Unit * Value(batch, rows[row[i]][1], rows[row[i]][2], h, i - 1),
                                  state[2]))]
              ELSE acc
    /\ row' = [row EXCEPT ![i] = @ + 1]
    /\ at' = [at EXCEPT ![i] = Barrier(IF row[i] = Len(rows) THEN "store" ELSE "partial")]
    /\ UNCHANGED <<head, stride, reduce, state, running>>

(* out_acc / state[2] and running_m + log(running_l): all have arrived. *)
Stored == Tids # {} /\ \A i \in Tids : at[i] = Ready("store")

KernelResult(dim) ==
    [num |-> [d \in 1..dim |-> acc[d]], den |-> state[3],
     lse |-> Finish(running.m, running.l, <<>>).lse]

KernelStep(query, batch) ==
    LET rows == ValidRows(batch)
        h    == KVHead(head - 1, Len(query), batch.kv_heads)
    IN  \/ Released
        \/ \E i \in Tids :
              \/ Partial(i, query[head], batch, rows, h)
              \/ Add(i)
              \/ State(i, batch.bits)
              \/ Weigh(i, batch, rows, h, Len(query[head]))
===============================================================================
