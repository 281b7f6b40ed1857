------------------------------- MODULE VllmCodec -------------------------------
(***************************************************************************)
(* The record of a vLLM block (integrations/vllm_codec.py) and the checks  *)
(* of the manager's configuration (integrations/vllm.py).  A block is a    *)
(* flat tensor of the configured dtype in a slot of fixed size.            *)
(***************************************************************************)
EXTENDS Quant

Width(dtype) == IF dtype = "float32" THEN 4 ELSE 2
Dtypes == {"float16", "bfloat16", "float32"}

(* KVSSDSecondaryTierManager.__init__ *)
ConfigAccepted(c) ==
    /\ c.bits \in {2, 4}
    /\ c.group_size > 0 /\ c.group_size % PerByte(c.bits) = 0
    /\ c.n_io_threads >= 1
    /\ c.dtype \in Dtypes

(* What configuration_namespace digests: servers that differ in it share   *)
(* no record.                                                              *)
Namespace(c) == <<c.model, c.dtype, c.bits, c.group_size, c.block_bytes, c.parallel>>

(* hash[:3] / hash[3:5]_g<group> / hash.kvssd *)
RecordPath(key, namespace) == <<namespace, key.hash, key.group>>

Rejected == [ok |-> FALSE]

(* encode_vllm_block of a slot of block_bytes bytes. *)
EncodeVllm(values, c) ==
    IF /\ c.block_bytes % Width(c.dtype) = 0
       /\ QuantizeAccepts(Len(values), c.bits, c.group_size)
    THEN LET q == Quantize(values, c.bits, c.group_size)
             payload == ScaleBytes(q.scales) \o q.packed
         IN  [ok |-> TRUE, magic |-> "KVVLLM02", version |-> 1, bits |-> c.bits,
              dtype |-> c.dtype, group |-> c.group_size, elements |-> Len(values),
              length |-> Len(payload), crc |-> payload, bytes |-> payload \o <<0>>]
    ELSE Rejected

VllmPayload(raw) ==
    SubSeq(raw.bytes, 1, IF raw.length < Len(raw.bytes) THEN raw.length ELSE Len(raw.bytes))

(* The payload has the length the header gives and is what the CRC is of. *)
VllmPayloadPresent(raw) == Len(VllmPayload(raw)) = raw.length

VllmPayloadIntact(raw) == Len(VllmPayload(raw)) = raw.length /\ VllmPayload(raw) = raw.crc

(* The lengths the header promises add up, a row is a number of groups and *)
(* the destination has room for exactly the elements (a division by zero,  *)
(* unpack_codes and a failing reshape raise as well).                      *)
VllmLayoutFits(raw, block_bytes) ==
    /\ raw.group > 0 /\ raw.bits \in {2, 4}
    /\ 2 * (raw.elements \div raw.group) + (raw.elements * raw.bits) \div 8 = raw.length
    /\ block_bytes = raw.elements * Width(raw.dtype)
    /\ raw.elements % raw.group = 0

(* decode_vllm_block: the float32 values are cast to the record's dtype;   *)
(* copy_ into the slot is the last thing it does.                          *)
DecodeVllm(raw, block_bytes) ==
    IF /\ raw.magic = "KVVLLM02" /\ raw.version = 1
       /\ raw.dtype \in Dtypes
       /\ VllmPayloadIntact(raw)
       /\ VllmLayoutFits(raw, block_bytes)
    THEN LET n == 2 * (raw.elements \div raw.group)
             q == [scales |-> ScalesOf(SubSeq(VllmPayload(raw), 1, n)),
                   packed |-> SubSeq(VllmPayload(raw), n + 1, raw.length)]
         IN  [ok |-> TRUE, dtype |-> raw.dtype,
              values |-> ToDtype(Dequantize(q, raw.bits, raw.group), raw.dtype)]
    ELSE Rejected
================================================================================
