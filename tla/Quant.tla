--------------------------------- MODULE Quant ---------------------------------
(***************************************************************************)
(* quant.py: symmetric groupwise quantization to 2 or 4 bits.  A tensor is *)
(* the sequence of its elements, row after row; a group never crosses a    *)
(* row.  Elements, scales and what a code and a scale give are whole       *)
(* multiples of the finest spacing of float16.  float16 is a float of      *)
(* HalfBits significant bits that overflows above HalfMax, bfloat16 one of *)
(* BrainBits that does not overflow, float32 arithmetic is exact.          *)
(***************************************************************************)
EXTENDS Integers, Sequences

CONSTANTS HalfBits, HalfMax, \* the float16 of the instance
          BrainBits,         \* its bfloat16
          Binades,           \* bound of the exponents looked at
          Inf, NaN           \* Inf is either infinity

(* 2^n *)
Power[n \in Nat] == IF n = 0 THEN 1 ELSE 2 * Power[n - 1]

ASSUME HalfAssumption ==
    /\ HalfBits \in Nat \ {0} /\ HalfMax \in Nat \ {0} /\ Binades \in Nat
    /\ BrainBits \in 1..HalfBits /\ 8 * HalfMax < Power[Binades + BrainBits]
    /\ Inf \notin Int /\ NaN \notin Int /\ Inf # NaN

PerByte(bits)     == 8 \div bits
Midpoint(bits)    == IF bits = 2 THEN 2 ELSE 8
PositiveMax(bits) == Midpoint(bits) - 1
Levels(bits)      == IF bits = 2 THEN 4 ELSE 16

(* _validate; a group_size of zero or below raises in one of its lines. *)
QuantizeAccepts(n, bits, group) ==
    /\ bits \in {2, 4}
    /\ group > 0 /\ n % group = 0 /\ group % PerByte(bits) = 0

(* One byte of pack_codes: the low bits hold the first code. *)
ByteHighFirst(c, bits) ==
    IF bits = 2 THEN 64 * c[1] + 16 * c[2] + 4 * c[3] + c[4] ELSE 16 * c[1] + c[2]

ByteOf(c, bits) ==
    IF bits = 2 THEN c[1] + 4 * c[2] + 16 * c[3] + 64 * c[4] ELSE c[1] + 16 * c[2]

(* 1 << (position * bits) *)
Shift(bits, position) ==
    IF bits = 2 THEN <<1, 4, 16, 64>>[position + 1] ELSE <<1, 16>>[position + 1]

PackCodes(codes, bits) ==
    LET p == PerByte(bits)
    IN  [b \in 1..(Len(codes) \div p) |-> ByteOf(SubSeq(codes, (b - 1) * p + 1, b * p), bits)]

(* (byte >> shift) & mask *)
CodeIn(byte, bits, position) == (byte \div Shift(bits, position)) % Levels(bits)

UnpackCodes(packed, bits) ==
    LET p == PerByte(bits)
    IN  [e \in 1..(Len(packed) * p) |->
            CodeIn(packed[((e - 1) \div p) + 1], bits, (e - 1) % p)]

(* torch.round: to nearest, ties to even. *)
RoundDown(a, b) == a \div b

RoundEven(a, b) ==
    LET q == a \div b
        r == a % b
    IN  IF 2 * r < b \/ (2 * r = b /\ q % 2 = 0) THEN q ELSE q + 1

Magnitude(x) == IF x < 0 THEN -x ELSE x

AbsMax(x) == CHOOSE m \in {Magnitude(x[i]) : i \in DOMAIN x} :
                \A i \in DOMAIN x : Magnitude(x[i]) <= m

(* a / b rounded to a float of so many significant bits: to a multiple of  *)
(* the spacing of the floats around it.                                    *)
Exponents(a, b, significant) == {e \in 0..Binades : a < b * Power[e + significant]}

Spacing(a, b, significant) ==
    Power[CHOOSE e \in Exponents(a, b, significant) :
             \A f \in Exponents(a, b, significant) : e <= f]

Rounded(a, b, significant) ==
    RoundEven(a, b * Spacing(a, b, significant)) * Spacing(a, b, significant)

(* max|x| / PositiveMax, .to(torch.float16). *)
Half(amax, bits) ==
    LET scale == Rounded(amax, PositiveMax(bits), HalfBits)
    IN  IF Exponents(amax, PositiveMax(bits), HalfBits) = {} \/ scale > HalfMax THEN Inf
        ELSE scale

(* round, clamp to -midpoint..positive_max, shift to unsigned.  A group of *)
(* zeros has the scale clamp_min leaves it: zero in float16.               *)
Code(x, amax, bits) ==
    LET c == IF amax = 0 THEN 0 ELSE RoundEven(PositiveMax(bits) * x, amax)
    IN  Midpoint(bits) + (CASE c < -Midpoint(bits)   -> -Midpoint(bits)
                            [] c > PositiveMax(bits) -> PositiveMax(bits)
                            [] OTHER                 -> c)

GroupOf(x, group, j) == SubSeq(x, (j - 1) * group + 1, j * group)

(* The scales divide in float32 and are rounded to float16 afterwards. *)
Quantize(x, bits, group) ==
    LET amax == [j \in 1..(Len(x) \div group) |-> AbsMax(GroupOf(x, group, j))]
    IN  [packed |-> PackCodes([i \in 1..Len(x) |->
                                  Code(x[i], amax[(i - 1) \div group + 1], bits)], bits),
         scales |-> [j \in DOMAIN amax |-> Half(amax[j], bits)]]

(* .view(torch.uint8) of float16 scales and back: two bytes each. *)
ScaleBytes(scales) ==
    [i \in 1..(2 * Len(scales)) |-> IF i % 2 = 1 THEN scales[(i + 1) \div 2] ELSE 0]

ScalesOf(bytes) ==
    [j \in 1..(Len(bytes) \div 2) |-> IF bytes[2 * j] = 0 THEN bytes[2 * j - 1] ELSE NaN]

(* float32 product of a centred code and a float16 scale. *)
Times(c, scale) ==
    CASE scale \notin {Inf, NaN}   -> c * scale
      [] scale = Inf /\ c # 0      -> Inf
      [] OTHER                     -> NaN

Dequantize(q, bits, group) ==
    LET codes == UnpackCodes(q.packed, bits)
    IN  [i \in DOMAIN codes |->
            Times(codes[i] - Midpoint(bits), q.scales[(i - 1) \div group + 1])]

(* .to(dtype) of a float32. *)
Significant(dtype) == IF dtype = "float16" THEN HalfBits ELSE BrainBits

Cast(v, dtype) ==
    LET size == Rounded(Magnitude(v), 1, Significant(dtype))
    IN  CASE v \in {Inf, NaN} \/ dtype = "float32" -> v
          [] dtype = "float16" /\ v \notin {Inf, NaN} /\ size > HalfMax -> Inf
          [] OTHER -> IF v < 0 THEN -size ELSE size

ToDtype(values, dtype) == [i \in DOMAIN values |-> Cast(values[i], dtype)]
================================================================================
