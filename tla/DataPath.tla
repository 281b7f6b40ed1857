-------------------------------- MODULE DataPath --------------------------------
(***************************************************************************)
(* What becomes of the numbers.  One lane: a tensor is quantized and cut   *)
(* into records by create, a record may be damaged on the medium, blocks   *)
(* are selected, read and decoded, a pipeline is constructed and attends   *)
(* with the backend it resolved, whole or chunk by chunk; the CUDA backend *)
(* runs thread by thread.  The other lane: a vLLM server stores a block,   *)
(* a server of some configuration loads it into a slot.                    *)
(***************************************************************************)
EXTENDS FusedKernel, VllmCodec, Registry

CONSTANTS Specs,             \* the cache specs create and open may get
          Keys(_), Values(_),\* tensors [tokens] -> row for a spec
          Exact(_),          \* tensors that quantize exactly
          Queries(_),        \* queries for a spec
          Selectors,         \* <<>> for AllBlocks, else <<sink, recent>>
          StageSizes,        \* stage_blocks
          Configs,           \* configurations of vLLM servers
          VllmValues(_)      \* contents of a slot

SpecFields == [layers : Int, kv_heads : Int, head_dim : Int, block_tokens : Int,
               bits : Int, group_size : Int]

(* The row of a token: the elements of its heads. *)
Rows(s) == [1..(s.kv_heads * s.head_dim) -> Int]

(* The arguments are of the types the code annotates, a tensor has the     *)
(* shape create checks, a slot is viewed as the elements that fill it,     *)
(* floats of the configured dtype.                                         *)
ASSUME DataAssumption ==
    /\ \A s \in Specs : s \in SpecFields /\ Keys(s) \cup Values(s) \subseteq Seq(Rows(s))
    /\ \A selector \in Selectors : selector = <<>> \/ selector \in Int \X Int
    /\ \A c \in Configs :
          /\ c.group_size \in Int /\ c.block_bytes \in Int
          /\ \A v \in VllmValues(c) :
                /\ v \in Seq(Int) /\ \A i \in DOMAIN v : Cast(v[i], c.dtype) = v[i]
                /\ c.block_bytes % Width(c.dtype) = 0 =>
                     Len(v) * Width(c.dtype) = c.block_bytes

(* The score of a row for the query head that KV head kv (from 0) serves.  *)
Dot(vector, token, kv) ==
    Total([d \in DOMAIN vector |-> vector[d] * token[kv * Len(vector) + d]])

(* The rows of a tensor in the unit of attention's values.                 *)
InUnits(x, s) ==
    [t \in DOMAIN x |-> [i \in 1..(s.kv_heads * s.head_dim) |-> Whole(x[t][i], s.bits)]]

(* A row of whole units that comes back from quantization as it was.       *)
ExactRow(x, units, s) ==
    /\ x = [i \in DOMAIN x |-> PositiveMax(s.bits) * units[i]]
    /\ Dequantize(Quantize(x, s.bits, s.group_size), s.bits, s.group_size) = x

(* What makes the attention of the instance exact: exact rows, and scores  *)
(* that exp is a power of two for.                                         *)
ASSUME ExactAssumption ==
    /\ StageSizes \subseteq Nat \ {0}
    /\ \A s \in {r \in Specs : CreateAccepts(r)} :
          /\ \A x \in Exact(s) : \A t \in DOMAIN x : ExactRow(x[t], InUnits(x, s)[t], s)
          /\ \A q \in Queries(s) :
                /\ q \in Seq([1..s.head_dim -> Int]) \ {<<>>}
                /\ \A k \in Keys(s) \cap Exact(s) : \A t \in DOMAIN k, h \in DOMAIN q :
                      Dot(q[h], InUnits(k, s)[t], ((h - 1) * s.kv_heads) \div Len(q))
                          \in (-MaxScore)..MaxScore

VARIABLES stage,             \* where the lane stands
          spec, keys, values,
          records,           \* blocks.kvssd, or the one vLLM record
          damage,            \* the field damaged on the medium
          selected,          \* block ids
          reader,            \* who read: its path and its spec or configuration
          blocks,            \* the decoded blocks
          backend, streamed, \* the pipeline
          query,
          chunks,            \* blocks still to attend over
          outputs,           \* heads of the chunk the kernel has finished
          merged,            \* the result so far
          request            \* what the constructor was asked for

dataVars == <<spec, keys, values, records, damage, selected, reader, blocks>>
planVars == <<backend, streamed, request>>
workVars == <<query, chunks, outputs, merged>>
vars == <<stage, dataVars, planVars, workVars, kernelVars>>

TypeOK ==
    /\ stage \in {"start", "created", "failed", "raised", "refused", "read", "constructed",
                  "attending", "done", "stored", "absent", "loaded"}
    /\ damage \in {"none", "magic", "version", "layer", "block", "valid", "layout", "length",
                   "crc", "bytes", "cut", "bits", "dtype", "group", "elements"}
    /\ reader # <<>> => reader.path \in {"host", "device", "vllm"}
    /\ backend \in AttentionBackends \cup {NoBackend} /\ streamed \in BOOLEAN
    /\ stage = "created" /\ damage = "none" =>
          \A b \in DOMAIN records : records[b].length = PayloadBytes(spec)
    /\ \A b \in DOMAIN selected : /\ selected[b] \in 0..(Len(records) - 1)
                                  /\ \A c \in DOMAIN selected \ {b} : selected[c] # selected[b]
    /\ head \in 0..Len(query)
    /\ \A i \in Tids : /\ at[i].next \in {"partial", "add", "state", "weigh", "store"}
                       /\ acc[i] \in Int \cup {NaN} /\ reduce[i] \in Int \cup {NaN}

Init ==
    /\ stage = "start"
    /\ spec = <<>> /\ keys = <<>> /\ values = <<>> /\ records = <<>>
    /\ damage = "none" /\ selected = <<>> /\ reader = <<>> /\ blocks = <<>>
    /\ backend = NoBackend /\ streamed = FALSE /\ request = <<>>
    /\ query = <<>> /\ chunks = <<>> /\ outputs = <<>> /\ merged = <<>>
    /\ KernelIdle

Idle == UNCHANGED kernelVars

(***************************************************************************)
(* create, the medium, the loader's reads.                                 *)
(***************************************************************************)
CreateStore(s, k, v) ==
    /\ stage = "start"
    /\ spec' = s /\ keys' = k /\ values' = v
    /\ IF CreateAccepts(s)
       THEN stage' = "created" /\ records' = Create(k, v, 0, s)
       ELSE stage' = "failed" /\ records' = <<>>
    /\ UNCHANGED <<damage, selected, reader, blocks, planVars, workVars>> /\ Idle

Flipped(x) == IF x \in Int \ {0} THEN 0 ELSE 1

Damaged(raw, field) ==
    CASE field = "magic"  -> {[raw EXCEPT !.magic = "KVSSD000"]}
      [] field = "layout" -> {[raw EXCEPT !.layout[i] = @ + d] : i \in 1..5, d \in {-1, 1}}
      [] field = "crc"    -> {[raw EXCEPT !.crc = Append(@, 0)]}
      [] field = "bytes"  -> {[raw EXCEPT !.bytes[i] = Flipped(@)] : i \in DOMAIN raw.bytes}
      [] field = "cut"    -> {[raw EXCEPT !.bytes = SubSeq(@, 1, n)] : n \in 0..(Len(raw.bytes) - 2)}
      [] field = "dtype"  -> {[raw EXCEPT !.dtype = d] : d \in (Dtypes \cup {"?"}) \ {raw.dtype}}
      [] OTHER            -> {[raw EXCEPT ![field] = @ + d] : d \in {-1, 1}}

(* One field of one record changes on the medium. *)
DamageRecord(b, field) ==
    /\ stage = "created" /\ damage = "none"
    /\ \E raw \in Damaged(records[b], field) : records' = [records EXCEPT ![b] = raw]
    /\ damage' = field
    /\ UNCHANGED <<stage, spec, keys, values, selected, reader, blocks, planVars, workVars>> /\ Idle

Select(selector, available) ==
    IF selector = <<>> THEN AllBlocks(available)
    ELSE IF SelectorAccepts(selector[1], selector[2])
    THEN RecentSinkBlocks(available, selector[1], selector[2])
    ELSE <<>>

(* decode selects and the loader reads.  An undamaged record may be read   *)
(* through the manifest of another create, whose spec is s: one fault at a *)
(* time.  Nothing to read raises, as negative counts do.                   *)
Read(selector, s, onPath) ==
    LET ids == Select(selector, [b \in DOMAIN records |-> b - 1])
        Decoded(b) == IF onPath = "device"
                      THEN DecodeDeviceRecord(records[b + 1], s, Entry(Len(keys), 0, b, s))
                      ELSE DecodeRecord(records[b + 1], s, TRUE)
    IN  /\ stage = "created"
        /\ s # spec => damage = "none" /\ onPath = "host"
        /\ selected' = ids /\ reader' = [path |-> onPath, spec |-> s]
        /\ IF ids = <<>> THEN stage' = "raised" /\ blocks' = <<>>
           ELSE IF \E i \in DOMAIN ids : ~Decoded(ids[i]).ok
           THEN stage' = "refused" /\ blocks' = <<>>
           ELSE stage' = "read" /\ blocks' = [i \in DOMAIN ids |-> Decoded(ids[i])]
        /\ UNCHANGED <<spec, keys, values, records, damage, planVars, workVars>> /\ Idle

(***************************************************************************)
(* KVSSDPipeline.__init__: the probes and the choice of a backend.  It     *)
(* touches no data, so it is made here, where its outcome begins to matter.*)
(* Only a CUDA pipeline has records on the device.                         *)
(***************************************************************************)
Available(device, extension, triton) ==
    {"reference"}
    \cup (IF device = "cuda" /\ extension THEN {"cuda"} ELSE {})
    \cup (IF triton = "interpreter" \/ (triton = "gpu" /\ device = "cuda") THEN {"triton"} ELSE {})

Construct(requested, require, device, extension, triton) ==
    LET name   == IF require THEN "cuda" ELSE requested
        chosen == IF require /\ requested \notin {"auto", "cuda"} THEN NoBackend
                  ELSE Resolve(name, AttentionOrder(device), AttentionBackends,
                               Available(device, extension, triton))
    IN  /\ stage = "read" /\ damage = "none" /\ {keys, values} \subseteq Exact(spec)
        /\ reader.path = "device" => device = "cuda"
        /\ backend' = chosen
        /\ streamed' = (device = "cuda" /\ chosen \in {"cuda", "triton"}
                        /\ (chosen = "triton" => triton # "interpreter"))
        /\ request' = [name |-> requested, require |-> require, device |-> device]
        /\ stage' = "constructed"
        /\ UNCHANGED <<dataVars, workVars>> /\ Idle

(***************************************************************************)
(* decode: streamed by chunks of stage_blocks, else in one piece.          *)
(***************************************************************************)
ChunksOf(seq, size) ==
    [c \in 1..((Len(seq) + size - 1) \div size) |->
        SubSeq(seq, (c - 1) * size + 1, IF c * size < Len(seq) THEN c * size ELSE Len(seq))]

Attend(q, size) ==
    /\ stage = "constructed" /\ backend # NoBackend
    /\ query' = q
    /\ chunks' = IF streamed THEN ChunksOf(blocks, size) ELSE <<blocks>>
    /\ request' = <<>>
    /\ stage' = "attending"
    /\ UNCHANGED <<dataVars, backend, streamed, outputs, merged>> /\ Idle

Batch == StackBlocks(Head(chunks), spec)

(* The loop body of _decode_cuda_streamed behind run. *)
MergeChunk(result) ==
    /\ merged' = IF merged = <<>> THEN result
                 ELSE [h \in DOMAIN query |-> Merge(merged[h], result[h])]
    /\ chunks' = Tail(chunks)
    /\ stage' = IF Len(chunks) = 1 THEN "done" ELSE "attending"

RunChunk ==
    /\ stage = "attending" /\ backend \in {"reference", "triton"}
    /\ IF ~(IF backend = "reference" THEN BatchAccepts(query, Batch)
            ELSE TritonAccepts(query, Batch))
       THEN stage' = "raised" /\ UNCHANGED <<chunks, merged>>
       ELSE MergeChunk(IF backend = "reference" THEN ReferenceRun(query, Batch)
                       ELSE TritonRun(query, Batch))
    /\ UNCHANGED <<dataVars, planVars, query, outputs>> /\ Idle

LaunchHead ==
    /\ stage = "attending" /\ backend = "cuda" /\ head = 0
    /\ IF CudaAccepts(query, Batch)
       THEN Launch(Len(outputs) + 1, Len(query[1]), ValidRows(Batch)) /\ UNCHANGED stage
       ELSE stage' = "raised" /\ Idle
    /\ UNCHANGED <<dataVars, planVars, workVars>>

RunThreads ==
    /\ stage = "attending" /\ head # 0
    /\ KernelStep(query, Batch)
    /\ UNCHANGED <<stage, dataVars, planVars, workVars>>

CollectHead ==
    /\ Stored
    /\ LET results == Append(outputs, KernelResult(Len(query[1])))
       IN  IF head < Len(query)
           THEN outputs' = results /\ UNCHANGED <<stage, chunks, merged>>
           ELSE outputs' = <<>> /\ MergeChunk(results)
    /\ head' = 0 /\ at' = <<>> /\ row' = <<>> /\ stride' = <<>> /\ acc' = <<>>
    /\ reduce' = <<>> /\ state' = <<>> /\ running' = <<>>
    /\ UNCHANGED <<dataVars, planVars, query>>

(***************************************************************************)
(* The vLLM lane.                                                          *)
(***************************************************************************)
StoreBlock(c, v) ==
    /\ stage = "start"
    /\ spec' = c /\ values' = v
    /\ IF ConfigAccepted(c) /\ EncodeVllm(v, c).ok
       THEN stage' = "stored" /\ records' = <<EncodeVllm(v, c)>>
       ELSE stage' = "failed" /\ records' = <<>>
    /\ UNCHANGED <<keys, damage, selected, reader, blocks, planVars, workVars>> /\ Idle

DamageBlock(field) ==
    /\ stage = "stored" /\ damage = "none"
    /\ \E raw \in Damaged(records[1], field) : records' = <<raw>>
    /\ damage' = field
    /\ UNCHANGED <<stage, spec, keys, values, selected, reader, blocks, planVars, workVars>> /\ Idle

(* A server of configuration c looks for the key under its namespace; the  *)
(* slot (blocks) stays as it was unless the record decodes.                *)
LoadBlock(c) ==
    LET key     == [hash |-> "h", group |-> 0]
        decoded == DecodeVllm(records[1], c.block_bytes)
    IN  /\ stage = "stored" /\ ConfigAccepted(c)
        /\ IF RecordPath(key, Namespace(c)) # RecordPath(key, Namespace(spec))
           THEN stage' = "absent" /\ blocks' = blocks
           ELSE IF decoded.ok
           THEN stage' = "loaded" /\ blocks' = [dtype |-> decoded.dtype, values |-> decoded.values]
           ELSE stage' = "refused" /\ blocks' = blocks
        /\ reader' = [path |-> "vllm", spec |-> c]
        /\ UNCHANGED <<spec, keys, values, records, damage, selected, planVars, workVars>>
        /\ Idle

Next ==
    \/ \E s \in Specs : \E k \in Keys(s), v \in Values(s) : Len(v) = Len(k) /\ CreateStore(s, k, v)
    \/ \E b \in DOMAIN records : \E field \in {"magic", "version", "layer", "block", "valid",
                                               "layout", "length", "crc", "bytes"} :
          DamageRecord(b, field)
    \/ \E selector \in Selectors, onPath \in {"host", "device"} :
          \E s \in {r \in Specs : CreateAccepts(r)} : Read(selector, s, onPath)
    \/ \E requested \in AttentionBackends \cup {"auto"}, require, extension \in BOOLEAN :
          \E device \in {"cpu", "cuda"}, triton \in {"none", "interpreter", "gpu"} :
             Construct(requested, require, device, extension, triton)
    \/ stage = "constructed" /\ \E q \in Queries(spec), size \in StageSizes : Attend(q, size)
    \/ RunChunk \/ LaunchHead \/ RunThreads \/ CollectHead
    \/ \E c \in Configs : \E v \in VllmValues(c) : StoreBlock(c, v)
    \/ \E field \in {"magic", "version", "bits", "dtype", "group", "elements", "length", "crc",
                     "bytes", "cut"} : DamageBlock(field)
    \/ \E c \in Configs : LoadBlock(c)

Spec == Init /\ [][Next]_vars

(***************************************************************************)
(* Properties.                                                             *)
(***************************************************************************)
(* The spacing of a dtype's floats around v: what a cast may cost.         *)
CastStep(v, dtype) == IF dtype = "float32" THEN 0 ELSE Spacing(v, 1, Significant(dtype))

(* x came back as got from a group of this maximum and a cast to dtype.    *)
Near(x, got, amax, bits, dtype) ==
    LET largest == PositiveMax(bits) * Half(amax, bits)   \* of the dequantized values
        step    == CastStep(largest, dtype)
    IN  IF Half(amax, bits) = Inf THEN got \in {Inf, NaN}
        ELSE IF got = Inf THEN dtype = "float16" /\ 2 * largest + step > 2 * HalfMax
        ELSE 2 * PositiveMax(bits) * Magnitude(x - got)
             <= amax + PositiveMax(bits) * (2 * Magnitude(largest - amax) + step)

NearTensor(x, got, bits, group, dtype) ==
    \A i \in DOMAIN x :
        Near(x[i], got[i], AbsMax(GroupOf(x, group, (i - 1) \div group + 1)), bits, dtype)

(* An element comes back from its record within half a quantization step   *)
(* of itself, plus what rounding the scale to float16 costs and, in a vLLM *)
(* slot, half a spacing of the slot's dtype: through padding, grouping,    *)
(* packing, the payload's four parts and the views.  It is lost where the  *)
(* scale overflows float16, and in a float16 slot where the largest code   *)
(* times a finite scale does.                                              *)
ErrorBounded ==
    /\ stage = "read" /\ damage = "none" =>
        \A b \in DOMAIN selected :
            /\ NearTensor(Padded(keys, selected[b], spec),
                          Dequantize(blocks[b].key, spec.bits, spec.group_size),
                          spec.bits, spec.group_size, "float32")
            /\ NearTensor(Padded(values, selected[b], spec),
                          Dequantize(blocks[b].value, spec.bits, spec.group_size),
                          spec.bits, spec.group_size, "float32")
    /\ stage = "loaded" /\ damage = "none" =>
        NearTensor(values, blocks.values, spec.bits, spec.group_size, spec.dtype)

(* One field of a record changes on the medium, or a store or server of    *)
(* another layout or configuration reads it.  A checked read then either   *)
(* refuses or returns the very tensors that were stored, and it refuses    *)
(* nothing that is sound.  What no check covers is the header's layer,     *)
(* block and valid count, and the code of a vLLM dtype of equal width.     *)
DamageDetected ==
    /\ stage = "read" /\ reader.path = "host" =>
        \A b \in DOMAIN selected :
            LET stored == CreateBlock(keys, values, 0, selected[b], spec)
            IN  /\ blocks[b].key = stored.key /\ blocks[b].value = stored.value
                /\ damage \notin {"layer", "block", "valid"} =>
                     blocks[b].valid = stored.valid /\ blocks[b].block = stored.block
    /\ stage = "loaded" =>
        /\ blocks.values = ToDtype(Dequantize(Quantize(values, spec.bits, spec.group_size),
                                              spec.bits, spec.group_size), blocks.dtype)
        /\ damage # "dtype" => blocks.dtype = spec.dtype
    /\ stage = "refused" =>
        \/ damage # "none"
        \/ reader.path = "host" /\ Layout(reader.spec) # Layout(spec)
    /\ stage = "absent" => reader.spec # spec

(* The attention the definition asks for, over the original tensors: every *)
(* token of a selected block once, no padding, query head h with the KV    *)
(* head that serves it.                                                    *)
Wanted(h) ==
    LET dim    == spec.head_dim
        kv     == ((h - 1) * spec.kv_heads) \div Len(query)
        picked == {t \in DOMAIN keys :
                     \E b \in DOMAIN selected : (t - 1) \div spec.block_tokens = selected[b]}
        weight == [t \in DOMAIN keys |->
                     IF t \in picked THEN Weight(Dot(query[h], InUnits(keys, spec)[t], kv)) ELSE 0]
        value  == InUnits(values, spec)
    IN  [num |-> [d \in 1..dim |->
                    Total([t \in DOMAIN keys |-> weight[t] * value[t][kv * dim + d]])],
         den |-> Total(weight)]

(* Every backend, streamed in chunks of any size or in one piece, and the  *)
(* threads of the CUDA kernel in any order, give the softmax attention     *)
(* over the selected tokens, and the log normalizer chunks merge by.  None *)
(* refuses a batch that a store gave for heads that can be grouped.        *)
AttentionExact ==
    /\ stage = "done" => \A h \in DOMAIN query :
        /\ merged[h].den # NaN /\ merged[h].den > 0
        /\ merged[h].lse = Wanted(h).den
        /\ \A d \in 1..spec.head_dim :
              /\ merged[h].num[d] # NaN
              /\ merged[h].num[d] * Wanted(h).den = Wanted(h).num[d] * merged[h].den
    /\ stage = "raised" => \/ selected = <<>>
                            \/ Len(query) % spec.kv_heads # 0
                            \/ (spec.head_dim > 256 /\ backend # "reference")

(* A backend asked for by name, or required, is used or the constructor    *)
(* raises; auto finds one, the CUDA extension never on a CPU.              *)
FailsClosed ==
    stage = "constructed" =>
        /\ request.require => backend \in {"cuda", NoBackend}
        /\ request.name # "auto" => backend \in {request.name, NoBackend}
        /\ request.name = "auto" /\ ~request.require => backend # NoBackend
        /\ request.device = "cpu" => backend # "cuda"
================================================================================
