--------------------------------- MODULE Format ---------------------------------
(***************************************************************************)
(* format.py and the cutting of a tensor into records in KVCacheStore.     *)
(* create.  A record is its header and the bytes behind it: the scales of  *)
(* keys and values, their packed bytes, then zeros up to a page.  A CRC is *)
(* the content it is taken over; collisions are left out.                  *)
(***************************************************************************)
EXTENDS Quant

Alignment  == 4096
HeaderSize == 52

AlignUp(value, alignment) == ((value + alignment - 1) \div alignment) * alignment

(* CacheSpec.validate.  A group_size of zero divides by zero; a negative   *)
(* one passes and is refused by quantize_tensor, when blocks.kvssd has     *)
(* been emptied already.                                                   *)
ValidSpec(s) ==
    /\ s.layers > 0 /\ s.kv_heads > 0 /\ s.head_dim > 0 /\ s.block_tokens > 0
    /\ s.bits \in {2, 4}
    /\ s.group_size # 0
    /\ s.head_dim % Magnitude(s.group_size) = 0

PackedDim(s)    == (s.head_dim * s.bits) \div 8
ScaleCount(s)   == s.block_tokens * s.kv_heads * (s.head_dim \div s.group_size)
PackedCount(s)  == s.block_tokens * s.kv_heads * PackedDim(s)
PayloadBytes(s) == 2 * ScaleCount(s) * 2 + 2 * PackedCount(s)
RecordBytes(s)  == AlignUp(HeaderSize + PayloadBytes(s), Alignment)

Layout(s) == <<s.bits, s.block_tokens, s.kv_heads, s.head_dim, s.group_size>>

EncodeRecord(block, s) ==
    LET payload == ScaleBytes(block.key.scales) \o ScaleBytes(block.value.scales)
                   \o block.key.packed \o block.value.packed
    IN  [magic |-> "KVSSD001", version |-> 1,
         layer |-> block.layer, block |-> block.block, valid |-> block.valid,
         layout |-> Layout(s), length |-> Len(payload), crc |-> payload,
         bytes |-> payload \o <<0>>]

(* The four views of the payload, where the reader's spec places them. *)
KeyView(raw, s) ==
    LET n == 2 * ScaleCount(s)
    IN  [scales |-> ScalesOf(SubSeq(raw.bytes, 1, n)),
         packed |-> SubSeq(raw.bytes, 2 * n + 1, 2 * n + PackedCount(s))]

ValueView(raw, s) ==
    LET n == 2 * ScaleCount(s)
        m == PackedCount(s)
    IN  [scales |-> ScalesOf(SubSeq(raw.bytes, n + 1, 2 * n)),
         packed |-> SubSeq(raw.bytes, 2 * n + m + 1, 2 * n + 2 * m)]

Covered(raw) ==
    SubSeq(raw.bytes, 1, IF raw.length < Len(raw.bytes) THEN raw.length ELSE Len(raw.bytes))

HeaderFits(raw, s) == raw.magic = "KVSSD001" /\ raw.version = 1 /\ raw.layout = Layout(s)

Refused == [ok |-> FALSE]

(* Layer, block and valid count are the header's, which no CRC covers. *)
DecodeRecord(raw, s, verify) ==
    IF HeaderFits(raw, s) /\ (verify => Covered(raw) = raw.crc)
    THEN [ok |-> TRUE, layer |-> raw.layer, block |-> raw.block, valid |-> raw.valid,
          key |-> KeyView(raw, s), value |-> ValueView(raw, s)]
    ELSE Refused

(* The loader's _decode_device_record trusts the entry of the manifest. *)
DecodeDeviceRecord(raw, s, entry) ==
    [ok |-> TRUE, layer |-> entry.layer, block |-> entry.block, valid |-> entry.valid,
     key |-> KeyView(raw, s), value |-> ValueView(raw, s)]

(***************************************************************************)
(* create: block b of a layer holds block_tokens tokens, the last is       *)
(* padded with zeros.  A token is its rows, head after head.               *)
(***************************************************************************)
BlockCount(n, s) == (n + s.block_tokens - 1) \div s.block_tokens

Padded(rows, b, s) ==
    LET width == s.kv_heads * s.head_dim
    IN  [i \in 1..(s.block_tokens * width) |->
            LET t == b * s.block_tokens + (i - 1) \div width
            IN  IF t < Len(rows) THEN rows[t + 1][((i - 1) % width) + 1] ELSE 0]

ValidTokens(n, b, s) ==
    IF n - b * s.block_tokens < s.block_tokens THEN n - b * s.block_tokens ELSE s.block_tokens

CreateBlock(keys, values, layer, b, s) ==
    [layer |-> layer, block |-> b, valid |-> ValidTokens(Len(keys), b, s),
     key   |-> Quantize(Padded(keys, b, s), s.bits, s.group_size),
     value |-> Quantize(Padded(values, b, s), s.bits, s.group_size)]

CreateAccepts(s) == ValidSpec(s) /\ QuantizeAccepts(s.head_dim, s.bits, s.group_size)

Create(keys, values, layer, s) ==
    [b \in 1..BlockCount(Len(keys), s) |->
        EncodeRecord(CreateBlock(keys, values, layer, b - 1, s), s)]

Entry(n, layer, b, s) == [layer |-> layer, block |-> b, valid |-> ValidTokens(n, b, s)]
================================================================================
