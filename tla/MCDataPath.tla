------------------------------ MODULE MCDataPath ------------------------------
(* A small instance of DataPath: three layouts and the invalid ones, up to *)
(* three tokens, toy floats: a float16 of four bits that overflows above    *)
(* sixty, a bfloat16 of two.                                                *)
EXTENDS DataPath

Layouts(kv, dim, tokens, b, group) ==
    [layers |-> 1, kv_heads |-> kv, head_dim |-> dim, block_tokens |-> tokens,
     bits |-> b, group_size |-> group]

Flat    == Layouts(1, 2, 2, 4, 2)
Grouped == Layouts(2, 4, 2, 2, 4)     \* two KV heads
Split   == Layouts(1, 4, 1, 4, 2)     \* two groups in a row, a token in a block

SomeSpecs ==
    {Flat, Grouped, Split,
     Layouts(1, 2, 2, 3, 2), Layouts(1, 4, 2, 4, 3), Layouts(1, 2, 2, 2, 2),
     Layouts(1, 2, 2, 4, -2), Layouts(1, 2, 2, 4, 0), Layouts(1, 2, 0, 4, 2)}

Tensors(rows, n) == UNION {[1..m -> rows] : m \in 1..n}

ExactRows(s) ==
    CASE s = Grouped -> {<<1, 0, -1, 1, 0, 1, 1, 0>>, <<0, -1, 1, 0, -1, 0, 0, 1>>}
      [] s.head_dim = 4 -> {<<7, 0, -7, 7>>, <<0, -7, 14, 0>>}
      [] OTHER       -> {<<7, -7>>, <<0, 7>>}

RoughRows(s) ==
    CASE s = Grouped -> {<<37, -18, 9, 20, -70, 2, 0, 1>>}
      [] s.head_dim = 4 -> {<<38, -21, 450, 20>>}
      [] OTHER       -> {<<38, -16>>, <<200, 3>>}

ExactKeys(s) == Tensors(ExactRows(s), 3)
AllKeys(s)   == ExactKeys(s) \cup Tensors(RoughRows(s), 2)

(* Every token and head has values of its own. *)
SomeValues(s) ==
    {[t \in 1..n |-> [i \in 1..(s.kv_heads * s.head_dim) |-> PositiveMax(s.bits) *
        (t + (i - 1) \div s.head_dim) * (CASE i % 4 = 1 -> 1 [] i % 4 = 2 -> -1
                                           [] i % 4 = 3 -> 0 [] OTHER -> 1)]] : n \in 1..3}

ExactTensors(s) == ExactKeys(s) \cup SomeValues(s)

SomeQueries(s) ==
    CASE s = Grouped -> {<<<<1, 0, 0, 1>>, <<0, 1, 0, 0>>, <<0, 0, 1, -1>>, <<-1, 1, 0, 0>>>>,
                         <<<<1, 0, 0, 0>>, <<0, 1, 0, 0>>, <<0, 0, 1, 0>>>>}
      [] s = Split   -> {<<<<1, 0, 0, 1>>, <<0, 1, 1, 0>>>>, <<<<-1, 0, 1, 0>>>>}
      [] OTHER       -> {<<<<1, 0>>, <<1, -1>>>>, <<<<0, -1>>>>}

SomeSelectors == {<<>>, <<0, 0>>, <<1, 1>>, <<2, 1>>, <<0, 2>>, <<-1, 1>>}
OneOrTwo      == {1, 2}

Config(dtype, b, group, bytes, parallel, threads) ==
    [model |-> "m", dtype |-> dtype, bits |-> b, group_size |-> group, block_bytes |-> bytes,
     parallel |-> parallel, n_io_threads |-> threads]

SomeConfigs ==
    {Config("float16", 4, 4, 16, 1, 1), Config("float16", 4, 4, 16, 2, 1),
     Config("bfloat16", 4, 4, 16, 1, 1), Config("float32", 4, 2, 16, 1, 8),
     Config("float16", 2, 4, 16, 1, 1), Config("float16", 4, 6, 16, 1, 1),
     Config("float32", 4, 4, 18, 1, 1), Config("float16", 4, 3, 16, 1, 1),
     Config("float16", 4, 0, 16, 1, 1), Config("float16", 3, 4, 16, 1, 1),
     Config("float16", 4, 4, 16, 1, 0), Config("int8", 4, 4, 16, 1, 1)}

(* What fits the slot; the largest of these overflow float16, or their     *)
(* scale does, and in bfloat16 the cast rounds.                            *)
SlotValues(c) ==
    LET n == c.block_bytes \div Width(c.dtype)
    IN  {SubSeq(<<6, 0, -6, 12, 3, -3, 0, 2>>, 1, n),
         CASE c.dtype = "float16"  -> <<60, -20, 1, 3, 22, 1, -13, 2>>
           [] c.dtype = "float32"  -> <<430, -2, 11, 37>>
           [] OTHER                -> <<48, -12, 24, 3, 32, 1, -16, 2>>}
================================================================================
