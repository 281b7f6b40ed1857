------------------------------- MODULE Attention -------------------------------
(***************************************************************************)
(* Decode attention over packed blocks: attention.py, the reference and    *)
(* the Triton backend, the merge of chunks, the block selectors.           *)
(*                                                                         *)
(* exp is a power of two: with sm_scale = 1 a score is an integer between  *)
(* -MaxScore and MaxScore, and everything is exact.  A weight is in units  *)
(* of 1 / Unit.  A result is a vector num over the common denominator den, *)
(* and lse stands for exp(lse), the sum of the weights 2^score, in units   *)
(* of 2^-MaxScore.                                                         *)
(***************************************************************************)
EXTENDS Format

CONSTANTS MaxScore,          \* bound of the scores' magnitude
          NegInf

ASSUME AttentionAssumption == MaxScore \in Nat /\ NegInf \notin Int /\ NegInf # NaN

Unit == Power[2 * MaxScore]

Total(terms) ==
    LET sum[i \in 0..Len(terms)] == IF i = 0 THEN 0 ELSE sum[i - 1] + terms[i]
    IN  sum[Len(terms)]

(***************************************************************************)
(* PackedBatch and stack_blocks.                                           *)
(***************************************************************************)
StackBlocks(blocks, s) ==
    [key   |-> [b \in DOMAIN blocks |-> blocks[b].key],
     value |-> [b \in DOMAIN blocks |-> blocks[b].value],
     valid |-> [b \in DOMAIN blocks |-> blocks[b].valid],
     tokens |-> s.block_tokens, kv_heads |-> s.kv_heads,
     packed_dim |-> PackedDim(s), groups |-> s.head_dim \div s.group_size,
     bits |-> s.bits, group_size |-> s.group_size]

(* PackedBatch.validate; a query is one vector per query head. *)
BatchAccepts(query, batch) ==
    LET dim == Len(query[1])
    IN  /\ Len(batch.valid) = Len(batch.key)
        /\ batch.bits \in {2, 4}
        /\ dim % batch.group_size = 0
        /\ batch.packed_dim = (dim * batch.bits) \div 8
        /\ Len(query) % batch.kv_heads = 0

(* Grouped queries: consecutive query heads share a KV head. *)
KVHeadInterleaved(h, query_heads, kv_heads) == h % kv_heads

KVHead(h, query_heads, kv_heads) == h \div (query_heads \div kv_heads)

(* Element d of a row, unpacked by the kernels' index arithmetic. *)
Element(q, batch, t, h, d) ==
    LET row   == t * batch.kv_heads + h
        per   == PerByte(batch.bits)
        byte  == q.packed[row * batch.packed_dim + d \div per + 1]
        scale == q.scales[row * batch.groups + d \div batch.group_size + 1]
    IN  Times(CodeIn(byte, batch.bits, d % per) - Midpoint(batch.bits), scale)

(* The values the instance attends over are whole multiples of a unit of   *)
(* PositiveMax spacings.                                                   *)
Whole(x, bits) == x \div PositiveMax(bits)

Score(vector, batch, b, t, h) ==
    Whole(Total([d \in DOMAIN vector |->
                    vector[d] * Element(batch.key[b], batch, t, h, d - 1)]), batch.bits)

Value(batch, b, t, h, d) == Whole(Element(batch.value[b], batch, t, h, d), batch.bits)

(***************************************************************************)
(* The reference: concatenate the valid rows, softmax, weighted sum.       *)
(***************************************************************************)
ValidRows(batch) ==
    LET rows[b \in 0..Len(batch.valid)] ==
            IF b = 0 THEN <<>>
            ELSE rows[b - 1] \o [t \in 1..batch.valid[b] |-> <<b, t - 1>>]
    IN  rows[Len(batch.valid)]

Weight(score) == Power[score + MaxScore]

SoftmaxOver(scores, values, dim) ==
    LET weights == [i \in DOMAIN scores |-> Weight(scores[i])]
    IN  [num |-> [d \in 1..dim |->
                    Total([i \in DOMAIN scores |-> weights[i] * values[i][d]])],
         den |-> Total(weights),
         lse |-> Total(weights)]

ReferenceRun(query, batch) ==
    LET rows == ValidRows(batch)
        dim  == Len(query[1])
        KV(h) == KVHead(h - 1, Len(query), batch.kv_heads)
    IN  [h \in DOMAIN query |->
            SoftmaxOver([i \in DOMAIN rows |->
                            Score(query[h], batch, rows[i][1], rows[i][2], KV(h))],
                        [i \in DOMAIN rows |-> [d \in 1..dim |->
                            Value(batch, rows[i][1], rows[i][2], KV(h), d - 1)]], dim)]

(***************************************************************************)
(* The online softmax of the kernels.  exp(a - b) for a <= b; exp of       *)
(* -inf - -inf is a NaN, which every later product keeps.                  *)
(***************************************************************************)
Exp(a, b) ==
    CASE a = NegInf /\ b = NegInf -> NaN
      [] a = NegInf               -> 0
      [] OTHER                    -> Unit \div Power[b - a]

Scaled(x, w) == IF x = NaN \/ w = NaN THEN NaN ELSE (x * w) \div Unit
Plus(x, y)   == IF x = NaN \/ y = NaN THEN NaN ELSE x + y

Larger(a, b) == IF a = NegInf THEN b ELSE IF b = NegInf THEN a ELSE IF a < b THEN b ELSE a

(* The running sum is divided by at the end, the log normalizer is taken   *)
(* of it: exp(m + log l).                                                  *)
Finish(m, l, acc) ==
    [num |-> acc, den |-> l,
     lse |-> IF l = NaN THEN NaN ELSE (l * Power[m + MaxScore]) \div Unit]

(* Triton: every token of every block, those beyond the valid ones with a  *)
(* score of -inf.                                                          *)
MaskedScore(score, t, valid) == IF t < valid THEN score ELSE NegInf

TritonToken(run, vector, batch, h, b, t) ==
    LET score == MaskedScore(Score(vector, batch, b, t, h), t, batch.valid[b])
        next  == Larger(run.m, score)
        old   == Exp(run.m, next)
        new   == Exp(score, next)
    IN  [m |-> next,
         l |-> Plus(Scaled(run.l, old), new),
         acc |-> [d \in DOMAIN run.acc |->
             Plus(Scaled(run.acc[d], old),
                  IF new = NaN THEN NaN ELSE Value(batch, b, t, h, d - 1) * new)]]

TritonHead(vector, batch, h) ==
    LET T == batch.tokens
        fold[i \in 0..(Len(batch.valid) * T)] ==
            IF i = 0 THEN [m |-> NegInf, l |-> 0, acc |-> [d \in DOMAIN vector |-> 0]]
            ELSE TritonToken(fold[i - 1], vector, batch, h, (i - 1) \div T + 1, (i - 1) % T)
        last == fold[Len(batch.valid) * T]
    IN  Finish(last.m, last.l, last.acc)

(* run refuses a block without a valid token: its mask would begin with    *)
(* -inf - -inf.                                                            *)
TritonAccepts(query, batch) ==
    /\ BatchAccepts(query, batch)
    /\ Len(query[1]) <= 256
    /\ \A b \in DOMAIN batch.valid : batch.valid[b] > 0

TritonRun(query, batch) ==
    [h \in DOMAIN query |->
        TritonHead(query[h], batch, KVHead(h - 1, Len(query), batch.kv_heads))]

(***************************************************************************)
(* merge_attention_chunks: logaddexp is the sum of the weights.            *)
(***************************************************************************)
MergeEqually(left, right) ==
    [num |-> [d \in DOMAIN left.num |-> left.num[d] * right.den + right.num[d] * left.den],
     den |-> 2 * left.den * right.den,
     lse |-> left.lse + right.lse]

Merge(left, right) ==
    [num |-> [d \in DOMAIN left.num |-> left.num[d] * left.lse * right.den
                                        + right.num[d] * right.lse * left.den],
     den |-> left.den * right.den * (left.lse + right.lse),
     lse |-> left.lse + right.lse]

(***************************************************************************)
(* Selectors, over the ids blocks_for_layer returns in order.              *)
(***************************************************************************)
AllBlocks(available) == available

FirstOf(available, n) == SubSeq(available, 1, IF n < Len(available) THEN n ELSE Len(available))

(* available[-n:] is the whole list for n = 0, so the code tests for zero. *)
LastOf(available, n) ==
    IF n = 0 THEN <<>>
    ELSE SubSeq(available, IF n < Len(available) THEN Len(available) - n + 1 ELSE 1,
                Len(available))

(* With the repeats left in. *)
WithRepeats(chosen) == chosen

(* list(dict.fromkeys(chosen)) *)
WithoutRepeats(chosen) ==
    LET kept[i \in 0..Len(chosen)] ==
            IF i = 0 THEN <<>>
            ELSE IF \E j \in 1..(i - 1) : chosen[j] = chosen[i] THEN kept[i - 1]
            ELSE Append(kept[i - 1], chosen[i])
    IN  kept[Len(chosen)]

(* A negative count raises. *)
SelectorAccepts(sink, recent) == sink >= 0 /\ recent >= 0

RecentSinkBlocks(available, sink, recent) ==
    WithoutRepeats(FirstOf(available, sink) \o LastOf(available, recent))
================================================================================
