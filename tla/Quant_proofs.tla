------------------------------ MODULE Quant_proofs ------------------------------
(***************************************************************************)
(* Proofs about the arithmetic of records, for elements, groups, head      *)
(* dimensions and alignments of any size: what an instance of TLC samples. *)
(***************************************************************************)
EXTENDS Format, SequenceTheorems, WellFoundedInduction, TLAPS

(***************************************************************************)
(* Codes in bytes.                                                         *)
(***************************************************************************)
IsCode(c, bits) == c \in 0..(Levels(bits) - 1)

(* The shift and the mask of unpack_codes take out of a byte the code that *)
(* pack_codes put there, at either width and at every position.            *)
THEOREM ByteRoundTrip ==
    ASSUME NEW bits \in {2, 4}, NEW c \in Seq(Int), Len(c) = PerByte(bits),
           \A i \in 1..Len(c) : IsCode(c[i], bits),
           NEW position \in 0..(PerByte(bits) - 1)
    PROVE  CodeIn(ByteOf(c, bits), bits, position) = c[position + 1]
<1>1. CASE bits = 4
  <2>1. PerByte(bits) = 2 /\ Levels(bits) = 16
    BY <1>1 DEF PerByte, Levels
  <2>2. PICK x \in 0..15, y \in 0..15 : x = c[1] /\ y = c[2]
    <3>1. c[1] \in 0..15 /\ c[2] \in 0..15
      BY <2>1 DEF IsCode
    <3>2. QED
      BY <3>1
  <2>3. PICK byte \in Int : byte = ByteOf(c, bits) /\ byte = x + 16 * y
    BY <1>1, <2>2 DEF ByteOf
  <2>4. CASE position = 0
    <3>1. CodeIn(byte, bits, position) = (byte \div 1) % 16
      BY <1>1, <2>1, <2>4 DEF CodeIn, Shift
    <3>2. (byte \div 1) % 16 = x
      BY <2>3
    <3>3. c[position + 1] = x
      BY <2>2, <2>4
    <3>4. QED
      BY <3>1, <3>2, <3>3, <2>3
  <2>5. CASE position = 1
    <3>1. CodeIn(byte, bits, position) = (byte \div 16) % 16
      BY <1>1, <2>1, <2>5 DEF CodeIn, Shift
    <3>2. (byte \div 16) % 16 = y
      BY <2>3
    <3>3. c[position + 1] = y
      BY <2>2, <2>5
    <3>4. QED
      BY <3>1, <3>2, <3>3, <2>3
  <2>6. QED
    BY <2>1, <2>4, <2>5
<1>2. CASE bits = 2
  <2>1. PerByte(bits) = 4 /\ Levels(bits) = 4
    BY <1>2 DEF PerByte, Levels
  <2>2. PICK x \in 0..3, y \in 0..3, z \in 0..3, w \in 0..3 :
            x = c[1] /\ y = c[2] /\ z = c[3] /\ w = c[4]
    BY <2>1 DEF IsCode
  <2>3. PICK byte \in Int : byte = ByteOf(c, bits) /\ byte = x + 4 * y + 16 * z + 64 * w
    <3>1. ByteOf(c, bits) = c[1] + 4 * c[2] + 16 * c[3] + 64 * c[4]
      BY <1>2 DEF ByteOf
    <3>2. x + 4 * y + 16 * z + 64 * w \in Int
      OBVIOUS
    <3>3. QED
      BY <3>1, <3>2, <2>2
  <2>4. CASE position = 0
    <3>1. CodeIn(byte, bits, position) = (byte \div 1) % 4
      BY <1>2, <2>1, <2>4 DEF CodeIn, Shift
    <3>2. (byte \div 1) % 4 = x
      BY <2>3
    <3>3. c[position + 1] = x
      BY <2>2, <2>4
    <3>4. QED
      BY <3>1, <3>2, <3>3, <2>3
  <2>5. CASE position = 1
    <3>1. CodeIn(byte, bits, position) = (byte \div 4) % 4
      BY <1>2, <2>1, <2>5 DEF CodeIn, Shift
    <3>2. (byte \div 4) % 4 = y
      <4>1. byte \div 4 = y + 4 * (z + 4 * w)
        BY ONLY x \in 0..3, y \in 0..3, z \in 0..3, w \in 0..3, <2>3
      <4>2. (y + 4 * (z + 4 * w)) % 4 = y
        BY ONLY y \in 0..3, z \in 0..3, w \in 0..3
      <4>3. QED
        BY <4>1, <4>2
    <3>3. c[position + 1] = y
      BY <2>2, <2>5
    <3>4. QED
      BY <3>1, <3>2, <3>3, <2>3
  <2>6. CASE position = 2
    <3>1. CodeIn(byte, bits, position) = (byte \div 16) % 4
      BY <1>2, <2>1, <2>6 DEF CodeIn, Shift
    <3>2. (byte \div 16) % 4 = z
      <4>1. byte \div 16 = z + 4 * w
        BY ONLY x \in 0..3, y \in 0..3, z \in 0..3, w \in 0..3, <2>3
      <4>2. (z + 4 * w) % 4 = z
        BY ONLY z \in 0..3, w \in 0..3
      <4>3. QED
        BY <4>1, <4>2
    <3>3. c[position + 1] = z
      BY <2>2, <2>6
    <3>4. QED
      BY <3>1, <3>2, <3>3, <2>3
  <2>7. CASE position = 3
    <3>1. CodeIn(byte, bits, position) = (byte \div 64) % 4
      BY <1>2, <2>1, <2>7 DEF CodeIn, Shift
    <3>2. (byte \div 64) % 4 = w
      BY <2>3
    <3>3. c[position + 1] = w
      BY <2>2, <2>7
    <3>4. QED
      BY <3>1, <3>2, <3>3, <2>3
  <2>8. QED
    BY <2>1, <2>4, <2>5, <2>6, <2>7
<1>3. QED
  BY <1>1, <1>2

(* unpack_codes undoes pack_codes, for a sequence of any length that fills *)
(* whole bytes (quant.py).                                                 *)
THEOREM PackRoundTrip ==
    ASSUME NEW bits \in {2, 4}, NEW codes \in Seq(Int), Len(codes) % PerByte(bits) = 0,
           \A i \in 1..Len(codes) : IsCode(codes[i], bits)
    PROVE  UnpackCodes(PackCodes(codes, bits), bits) = codes
<1> DEFINE p == PerByte(bits)
           n == Len(codes) \div p
           Part(b) == SubSeq(codes, (b - 1) * p + 1, b * p)
           packed == PackCodes(codes, bits)
<1>1. p \in {2, 4}
  BY DEF PerByte
<1>2. n \in Nat /\ n * p = Len(codes)
  BY <1>1
<1>3. packed = [b \in 1..n |-> ByteOf(Part(b), bits)]
  BY DEF PackCodes
<1>4. Len(packed) = n
  <2> HIDE DEF n, Part, p, packed
  <2>1. QED
    BY <1>2, <1>3
<1>5. UnpackCodes(packed, bits) =
        [e \in 1..Len(codes) |-> CodeIn(packed[((e - 1) \div p) + 1], bits, (e - 1) % p)]
  BY <1>2, <1>4 DEF UnpackCodes
<1>6. ASSUME NEW e \in 1..Len(codes)
      PROVE  CodeIn(packed[((e - 1) \div p) + 1], bits, (e - 1) % p) = codes[e]
  <2> HIDE DEF n, packed
  <2>1. PICK b \in 1..n, k \in 0..(p - 1) :
            b = ((e - 1) \div p) + 1 /\ k = (e - 1) % p /\ e = (b - 1) * p + k + 1
    <3> HIDE DEF p
    <3>1. PICK m \in Nat : m = e - 1 /\ m < n * p
      BY <1>2
    <3>2. PICK q, r : q = m \div p /\ r = m % p
      OBVIOUS
    <3>3. p \in Nat \ {0}
      BY <1>1
    <3>4. q \in Nat /\ r \in 0..(p - 1) /\ m = p * q + r
      BY ONLY m \in Nat, <3>2, <3>3
    <3>5. q < n
      <4>1. CASE p = 2
        BY <4>1, <1>2, <3>1, <3>4
      <4>2. CASE p = 4
        BY <4>2, <1>2, <3>1, <3>4
      <4>3. QED
        BY <1>1, <4>1, <4>2
    <3>6. q + 1 \in 1..n /\ e = ((q + 1) - 1) * p + r + 1
      <4>1. p * q = q * p
        BY <3>3, <3>4
      <4>2. QED
        BY <4>1, <1>2, <3>1, <3>3, <3>4, <3>5
    <3>7. QED
      BY <3>1, <3>2, <3>4, <3>6
  <2> PICK before \in Nat : before = (b - 1) * p
    BY <1>1
  <2>2. b * p = before + p /\ before + p <= Len(codes) /\ e = before + k + 1
    <3>1. CASE p = 2
      BY <3>1, <1>2, <2>1
    <3>2. CASE p = 4
      BY <3>2, <1>2, <2>1
    <3>3. QED
      BY <1>1, <3>1, <3>2
  <2>3. Part(b) = SubSeq(codes, before + 1, before + p)
    BY <2>2
  <2> HIDE DEF Part
  <2>4. /\ Part(b) \in Seq(Int) /\ Len(Part(b)) = p
        /\ \A i \in 1..p : Part(b)[i] = codes[before + i] /\ IsCode(Part(b)[i], bits)
    <3> HIDE DEF p
    <3>1. Part(b) \in Seq(Int) /\ Len(Part(b)) = p
      BY <1>1, <2>2, <2>3
    <3>2. ASSUME NEW i \in 1..p
          PROVE  Part(b)[i] = codes[before + i]
      BY <1>1, <2>2, <2>3
    <3>3. ASSUME NEW i \in 1..p
          PROVE  before + i \in 1..Len(codes)
      BY <1>1, <2>2
    <3>4. QED
      BY <3>1, <3>2, <3>3
  <2>5. CodeIn(ByteOf(Part(b), bits), bits, k) = Part(b)[k + 1]
    BY <2>4, ByteRoundTrip
  <2>6. Part(b)[k + 1] = codes[e]
    <3>1. k + 1 \in 1..p /\ before + (k + 1) = e
      <4> HIDE DEF p
      <4>1. p \in Nat
        BY <1>1
      <4>2. QED
        BY <4>1, <2>2
    <3>2. QED
      BY <3>1, <2>4
  <2>7. packed[b] = ByteOf(Part(b), bits)
    BY <1>3
  <2>8. QED
    BY <2>1, <2>5, <2>6, <2>7
<1>7. QED
  BY <1>5, <1>6

(***************************************************************************)
(* Rounding.                                                               *)
(***************************************************************************)
(* RoundEven(a, b) is a whole number nearest to a / b.                     *)
LEMMA RoundEvenNear ==
    ASSUME NEW a \in Int, NEW b \in Nat \ {0}
    PROVE  /\ RoundEven(a, b) \in Int
           /\ 2 * (RoundEven(a, b) * b - a) <= b
           /\ 2 * (a - RoundEven(a, b) * b) <= b
<1> DEFINE q == a \div b
           r == a % b
<1>1. q \in Int /\ r \in 0..(b - 1) /\ a = b * q + r
  OBVIOUS
<1>2. b * q = q * b /\ (q + 1) * b = q * b + b
  BY <1>1
<1>3. RoundEven(a, b) = q \/ RoundEven(a, b) = q + 1
  BY DEF RoundEven
<1>4. CASE 2 * r < b \/ (2 * r = b /\ q % 2 = 0)
  <2>1. RoundEven(a, b) = q
    BY <1>4 DEF RoundEven
  <2> HIDE DEF q, r
  <2>2. QED
    BY <2>1, <1>1, <1>2, <1>4
<1>5. CASE ~(2 * r < b \/ (2 * r = b /\ q % 2 = 0))
  <2>1. RoundEven(a, b) = q + 1
    BY <1>5 DEF RoundEven
  <2>2. 2 * r >= b
    BY <1>1, <1>5
  <2> HIDE DEF q, r
  <2>3. QED
    BY <2>1, <2>2, <1>1, <1>2
<1>6. QED
  BY <1>4, <1>5

(***************************************************************************)
(* Codes and their error.                                                  *)
(***************************************************************************)
(* An element at most as large as the magnitude of its group's scale is    *)
(* never clamped, its code fits the width, and the code's multiple of the  *)
(* exact scale is within half a step of it: quantize_tensor before the     *)
(* scale is rounded to float16, for any element and any group maximum.     *)
THEOREM CodeNear ==
    ASSUME NEW bits \in {2, 4}, NEW amax \in Nat, NEW x \in Int, Magnitude(x) <= amax
    PROVE  /\ IsCode(Code(x, amax, bits), bits)
           /\ 2 * Magnitude(PositiveMax(bits) * x - (Code(x, amax, bits) - Midpoint(bits)) * amax)
              <= amax
<1> DEFINE p == PositiveMax(bits)
           c == IF amax = 0 THEN 0 ELSE RoundEven(p * x, amax)
<1>1. /\ p \in {1, 7} /\ Midpoint(bits) = p + 1 /\ Levels(bits) = 2 * p + 2
  BY DEF PositiveMax, Midpoint, Levels
<1>2. -amax <= x /\ x <= amax
  BY DEF Magnitude
<1>3. p * x \in Int /\ -(p * amax) <= p * x /\ p * x <= p * amax
  <2>1. CASE p = 1
    BY <2>1, <1>2
  <2>2. CASE p = 7
    BY <2>2, <1>2
  <2>3. QED
    BY <1>1, <2>1, <2>2
<1>4. /\ c \in Int
      /\ 2 * (c * amax - p * x) <= amax
      /\ 2 * (p * x - c * amax) <= amax
  <2>1. CASE amax = 0
    BY <2>1, <1>1, <1>3
  <2>2. CASE amax # 0
    <3>1. amax \in Nat \ {0} /\ c = RoundEven(p * x, amax)
      BY <2>2
    <3> HIDE DEF c, p
    <3>2. QED
      BY <3>1, <1>3, RoundEvenNear
  <2>3. QED
    BY <2>1, <2>2
<1>5. -p <= c /\ c <= p
  <2> HIDE DEF c
  <2>1. CASE amax = 0
    BY <2>1, <1>1 DEF c
  <2>2. CASE amax > 0
    <3>1. (c - p) * amax = c * amax - p * amax /\ (c + p) * amax = c * amax + p * amax
      BY <1>1, <1>4
    <3>2. 2 * ((c - p) * amax) <= amax /\ 2 * ((c + p) * amax) >= -amax
      <4> HIDE DEF p
      <4>1. c * amax \in Int /\ p * amax \in Int
        BY <1>1, <1>4
      <4>2. QED
        BY <3>1, <4>1, <1>3, <1>4
    <3>3. c - p >= 1 => (c - p) * amax >= amax
      BY <1>1, <1>4, <2>2
    <3>4. c + p <= -1 => (c + p) * amax <= -amax
      BY <1>1, <1>4, <2>2
    <3>5. c - p < 1 /\ c + p > -1
      <4>1. c - p \in Int /\ c + p \in Int /\ (c - p) * amax \in Int /\ (c + p) * amax \in Int
        BY <1>1, <1>4
      <4>2. QED
        BY <3>2, <3>3, <3>4, <4>1, <2>2
    <3>6. QED
      BY <3>5, <1>1, <1>4
  <2>3. QED
    BY <2>1, <2>2
<1>6. Code(x, amax, bits) = Midpoint(bits) + c
  <2> DEFINE Clamped(k) == Midpoint(bits) + (CASE k < -Midpoint(bits) -> -Midpoint(bits)
                                               [] k > PositiveMax(bits) -> PositiveMax(bits)
                                               [] OTHER -> k)
  <2>1. Code(x, amax, bits) = Clamped(c)
    BY DEF Code
  <2>2. ~(c < -Midpoint(bits)) /\ ~(c > PositiveMax(bits))
    <3> HIDE DEF c
    <3>1. QED
      BY <1>1, <1>4, <1>5
  <2> HIDE DEF c
  <2>3. Clamped(c) = Midpoint(bits) + c
    BY <2>2
  <2>4. QED
    BY <2>1, <2>3
<1> HIDE DEF c, p
<1>7. IsCode(Code(x, amax, bits), bits)
  BY <1>1, <1>4, <1>5, <1>6 DEF IsCode
<1>8. Code(x, amax, bits) - Midpoint(bits) = c
  BY <1>1, <1>4, <1>6
<1>9. 2 * Magnitude(p * x - c * amax) <= amax
  <2>1. c * amax \in Int
    BY <1>4
  <2>2. QED
    BY <2>1, <1>3, <1>4 DEF Magnitude
<1>10. QED
  BY <1>7, <1>8, <1>9 DEF p

(***************************************************************************)
(* Alignment.                                                              *)
(***************************************************************************)
(* align_up gives the smallest multiple of the alignment that is not below *)
(* the value.                                                              *)
LEMMA AlignUpLeast ==
    ASSUME NEW value \in Nat, NEW alignment \in Nat \ {0}
    PROVE  /\ AlignUp(value, alignment) \in Nat
           /\ AlignUp(value, alignment) % alignment = 0
           /\ value <= AlignUp(value, alignment)
           /\ AlignUp(value, alignment) < value + alignment
<1> DEFINE n == value + alignment - 1
           q == n \div alignment
           r == n % alignment
<1>1. q \in Nat /\ r \in 0..(alignment - 1) /\ n = alignment * q + r
  OBVIOUS
<1>2. AlignUp(value, alignment) = q * alignment /\ q * alignment = alignment * q
  BY <1>1 DEF AlignUp
<1>3. (alignment * q) % alignment = 0
  BY <1>1
<1> HIDE DEF q, r
<1>4. alignment * q \in Nat
  BY <1>1
<1>5. QED
  BY <1>1, <1>2, <1>3, <1>4

(* Every record of a spec that create accepts is whole pages and has room  *)
(* for its header and payload, so that record i of a store starts at a     *)
(* multiple of the alignment O_DIRECT and cuFile want (format.py:75-88).   *)
THEOREM RecordsAligned ==
    ASSUME NEW s, CreateAccepts(s),
           s.block_tokens \in Nat, s.kv_heads \in Nat, s.head_dim \in Nat,
           s.group_size \in Int, NEW i \in Nat
    PROVE  /\ RecordBytes(s) \in Nat
           /\ HeaderSize + PayloadBytes(s) <= RecordBytes(s)
           /\ (i * RecordBytes(s)) % Alignment = 0
<1>1. s.bits \in {2, 4} /\ s.group_size > 0
  BY DEF CreateAccepts, QuantizeAccepts, ValidSpec
<1>2. ScaleCount(s) \in Nat
  <2>1. s.head_dim \div s.group_size \in Nat
    BY <1>1
  <2> HIDE DEF CreateAccepts
  <2>2. QED
    BY <2>1 DEF ScaleCount
<1>3. PackedCount(s) \in Nat
  <2>1. PackedDim(s) \in Nat
    BY <1>1 DEF PackedDim
  <2>2. QED
    BY <2>1 DEF PackedCount
<1>4. HeaderSize + PayloadBytes(s) \in Nat
  BY <1>2, <1>3 DEF PayloadBytes, HeaderSize
<1>5. Alignment \in Nat \ {0}
  BY DEF Alignment
<1>6. /\ RecordBytes(s) \in Nat /\ RecordBytes(s) % Alignment = 0
      /\ HeaderSize + PayloadBytes(s) <= RecordBytes(s)
  BY <1>4, <1>5, AlignUpLeast DEF RecordBytes
<1>7. ASSUME NEW n \in Nat, n % 4096 = 0
      PROVE  (i * n) % 4096 = 0
  <2>1. PICK k \in Nat : n = 4096 * k
    BY <1>7
  <2>2. PICK m \in Nat : m = i * k
    BY <2>1
  <2>3. i * n = 4096 * m
    BY <2>1, <2>2
  <2>4. (4096 * m) % 4096 = 0
    OBVIOUS
  <2>5. QED
    BY <2>3, <2>4
<1>8. QED
  BY <1>6, <1>7 DEF Alignment

(***************************************************************************)
(* Records.                                                                *)
(***************************************************************************)
(* Viewed as bytes and back, scales are themselves: an entry of zero has   *)
(* no other byte (quant.py, format.py).                                    *)
LEMMA ScaleBytesShape ==
    ASSUME NEW S, NEW scales \in Seq(S), 0 \in S
    PROVE  ScaleBytes(scales) \in Seq(S) /\ Len(ScaleBytes(scales)) = 2 * Len(scales)
<1>1. PICK n \in Nat : n = 2 * Len(scales)
  OBVIOUS
<1>2. ScaleBytes(scales) = [i \in 1..n |-> IF i % 2 = 1 THEN scales[(i + 1) \div 2] ELSE 0]
  BY <1>1 DEF ScaleBytes
<1>3. ASSUME NEW i \in 1..n, i % 2 = 1
      PROVE  scales[(i + 1) \div 2] \in S
  <2>1. (i + 1) \div 2 \in 1..Len(scales)
    BY <1>1, <1>3
  <2>2. QED
    BY <2>1
<1>4. ScaleBytes(scales) \in [1..n -> S]
  BY <1>2, <1>3
<1>5. QED
  BY <1>1, <1>2, <1>4

(* The bytes of the scales of a record are read back as the scales that    *)
(* were written (format.py: encode_record, decode_record).                 *)
THEOREM ScaleRoundTrip ==
    ASSUME NEW S, NEW scales \in Seq(S)
    PROVE  ScalesOf(ScaleBytes(scales)) = scales
<1>1. PICK n \in Nat : n = Len(scales)
  OBVIOUS
<1>2. Len(ScaleBytes(scales)) = 2 * n
  <2>1. scales \in Seq(S \cup {0})
    BY SeqMonotonic
  <2>2. QED
    BY <1>1, <2>1, ScaleBytesShape
<1>3. ASSUME NEW j \in 1..n
      PROVE  ScaleBytes(scales)[2 * j] = 0 /\ ScaleBytes(scales)[2 * j - 1] = scales[j]
  <2>1. /\ 2 * j \in 1..(2 * n) /\ 2 * j - 1 \in 1..(2 * n)
        /\ (2 * j) % 2 # 1 /\ (2 * j - 1) % 2 = 1 /\ ((2 * j - 1) + 1) \div 2 = j
    BY <1>1
  <2>2. \A i \in 1..(2 * n) :
            ScaleBytes(scales)[i] = IF i % 2 = 1 THEN scales[(i + 1) \div 2] ELSE 0
    BY <1>1 DEF ScaleBytes
  <2>3. QED
    BY <2>1, <2>2
<1>4. ScalesOf(ScaleBytes(scales)) = [j \in 1..n |-> scales[j]]
  <2>1. (2 * n) \div 2 = n
    BY <1>1
  <2>2. QED
    BY <1>2, <1>3, <2>1, Zenon DEF ScalesOf
<1>5. QED
  BY <1>1, <1>4

(* q has n scales and m bytes.                                             *)
Quantized(q, n, m) ==
    \E S : /\ q = [scales |-> q.scales, packed |-> q.packed] /\ 0 \in S
           /\ q.scales \in Seq(S) /\ Len(q.scales) = n
           /\ q.packed \in Seq(S) /\ Len(q.packed) = m

(* A group of the elements has one scale, PerByte of them share a byte.    *)
LEMMA QuantizeShape ==
    ASSUME NEW x, Len(x) \in Nat, NEW bits \in {2, 4}, NEW group \in Nat \ {0}
    PROVE  Quantized(Quantize(x, bits, group), Len(x) \div group, Len(x) \div PerByte(bits))
<1>0. PICK n \in Nat : n = Len(x)
  OBVIOUS
<1> DEFINE amax == [j \in 1..(Len(x) \div group) |-> AbsMax(GroupOf(x, group, j))]
           codes == [i \in 1..Len(x) |-> Code(x[i], amax[(i - 1) \div group + 1], bits)]
           scales == [j \in DOMAIN amax |-> Half(amax[j], bits)]
<1>1. Quantize(x, bits, group) = [packed |-> PackCodes(codes, bits), scales |-> scales]
  BY DEF Quantize
<1>2. PICK g \in Nat : g = n \div group
  OBVIOUS
<1>3. PICK k \in Nat : k = n \div PerByte(bits)
  BY DEF PerByte
<1>4. DOMAIN amax = 1..g
  BY <1>0, <1>2
<1>5. Len(codes) = n
  BY <1>0
<1> HIDE DEF amax, codes
<1>6. scales = [j \in 1..g |-> scales[j]]
  BY <1>4
<1>7. PICK packed : packed = PackCodes(codes, bits)
  OBVIOUS
<1>8. packed = [b \in 1..k |-> packed[b]]
  <2>1. Len(codes) \div PerByte(bits) = k
    BY <1>3, <1>5
  <2> DEFINE p == PerByte(bits)
             Byte(b) == ByteOf(SubSeq(codes, (b - 1) * p + 1, b * p), bits)
  <2>2. packed = [b \in 1..k |-> Byte(b)]
    BY <1>7, <2>1 DEF PackCodes
  <2> HIDE DEF Byte
  <2>3. QED
    BY <2>2
<1> HIDE DEF scales
<1> DEFINE S == {0} \cup {scales[j] : j \in 1..g} \cup {packed[b] : b \in 1..k}
<1>9. scales \in [1..g -> S]
  BY <1>6
<1>10. packed \in [1..k -> S]
  BY <1>8
<1>11. 0 \in S
  OBVIOUS
<1> HIDE DEF S
<1>12. scales \in Seq(S) /\ Len(scales) = g /\ packed \in Seq(S) /\ Len(packed) = k
  BY <1>9, <1>10
<1>13. QED
  BY <1>0, <1>1, <1>2, <1>3, <1>7, <1>11, <1>12 DEF Quantized

(* The part of s that has the elements of a is a.                          *)
LEMMA PartIs ==
    ASSUME NEW S, NEW s \in Seq(S), NEW a \in Seq(S), NEW k \in Nat, NEW l \in Nat,
           l = k + Len(a), l <= Len(s), \A i \in 1..Len(a) : s[k + i] = a[i]
    PROVE  SubSeq(s, k + 1, l) = a
<1>1. PICK n \in Nat : n = Len(a) /\ l = k + n
  OBVIOUS
<1>2. \A i \in (k + 1)..l : s[i] \in S
  OBVIOUS
<1>3. PICK t : t = SubSeq(s, k + 1, l)
  OBVIOUS
<1>4. k + 1 \in Int /\ l \in Int
  OBVIOUS
<1>5. /\ t \in Seq(S)
      /\ Len(t) = IF k + 1 <= l THEN l - (k + 1) + 1 ELSE 0
      /\ \A i \in 1..(l - (k + 1) + 1) : t[i] = s[k + 1 + i - 1]
  <2>1. /\ SubSeq(s, k + 1, l) \in Seq(S)
        /\ Len(SubSeq(s, k + 1, l)) = IF k + 1 <= l THEN l - (k + 1) + 1 ELSE 0
        /\ \A i \in 1..(l - (k + 1) + 1) : SubSeq(s, k + 1, l)[i] = s[k + 1 + i - 1]
    BY ONLY <1>2, <1>4, SubSeqProperties, SMTT(60)
  <2>2. QED
    BY ONLY <1>3, <2>1, Zenon
<1>6. Len(t) = n
  BY <1>1, <1>5
<1>7. \A i \in 1..n : t[i] = a[i]
  <2> TAKE i \in 1..n
  <2>1. i \in 1..(l - (k + 1) + 1) /\ k + 1 + i - 1 = k + i
    BY <1>1
  <2>2. t[i] = s[k + i]
    BY <2>1, <1>5
  <2>3. QED
    BY <2>2, <1>1
<1>8. t = a
  <2>1. Len(t) = Len(a) /\ \A i \in 1..Len(t) : t[i] = a[i]
    BY <1>1, <1>6, <1>7
  <2>2. QED
    BY <2>1, <1>5, SeqEqual, Zenon
<1>9. QED
  BY <1>3, <1>8

(* w is u, of length k, and v, of length l, behind it.                     *)
Joins(w, u, v, k, l, S) ==
    /\ w \in Seq(S) /\ Len(w) = k + l
    /\ \A i \in 1..k : w[i] = u[i]
    /\ \A i \in 1..l : w[k + i] = v[i]

(* What one sequence behind another holds.                                 *)
LEMMA JoinIs ==
    ASSUME NEW S, NEW u \in Seq(S), NEW v \in Seq(S)
    PROVE  Joins(u \o v, u, v, Len(u), Len(v), S)
<1>1. PICK w : w = u \o v
  OBVIOUS
<1>2. PICK k \in Nat, l \in Nat : k = Len(u) /\ l = Len(v)
  OBVIOUS
<1>3. /\ w \in Seq(S) /\ Len(w) = k + l
      /\ \A i \in 1..(k + l) : w[i] = IF i <= k THEN u[i] ELSE v[i - k]
  BY <1>1, <1>2, ConcatProperties, SMTT(30)
<1>4. ASSUME NEW i \in 1..k PROVE w[i] = u[i]
  BY ONLY <1>3, k \in Nat, l \in Nat, i \in 1..k
<1>5. ASSUME NEW i \in 1..l PROVE w[k + i] = v[i]
  <2>1. k + i \in 1..(k + l) /\ ~(k + i <= k) /\ (k + i) - k = i
    BY ONLY k \in Nat, l \in Nat, i \in 1..l
  <2>2. QED
    BY ONLY <1>3, <2>1
<1>6. QED
  BY ONLY <1>1, <1>2, <1>3, <1>4, <1>5 DEF Joins

(* p is a, b, c and d where the views of a record look for them.           *)
Parts(p, n, m, a, b, c, d) ==
    /\ Len(p) = 2 * n + 2 * m
    /\ SubSeq(p, 1, n) = a
    /\ SubSeq(p, n + 1, 2 * n) = b
    /\ SubSeq(p, 2 * n + 1, 2 * n + m) = c
    /\ SubSeq(p, 2 * n + m + 1, 2 * n + 2 * m) = d

(* The four parts of a payload are where the views look for them.          *)
LEMMA PayloadParts ==
    ASSUME NEW S, NEW n \in Nat, NEW m \in Nat,
           NEW a \in Seq(S), NEW b \in Seq(S), NEW c \in Seq(S), NEW d \in Seq(S),
           Len(a) = n, Len(b) = n, Len(c) = m, Len(d) = m,
           NEW p, p = a \o b \o c \o d
    PROVE  p \in Seq(S) /\ Parts(p, n, m, a, b, c, d)
<1>1. PICK ab : ab = a \o b
  OBVIOUS
<1>2. Joins(ab, a, b, n, n, S)
  BY <1>1, JoinIs
<1>3. PICK abc : abc = ab \o c
  OBVIOUS
<1>4. PICK k \in Nat : k = n + n
  OBVIOUS
<1>5. ab \in Seq(S) /\ Len(ab) = k
  BY <1>2, <1>4 DEF Joins
<1>6. Joins(abc, ab, c, k, m, S)
  BY ONLY <1>3, <1>5, JoinIs, c \in Seq(S), Len(c) = m
<1>7. p = abc \o d /\ k + m \in Nat
  BY <1>1, <1>3
<1>8. Joins(p, abc, d, k + m, m, S)
  <2>1. abc \in Seq(S) /\ Len(abc) = k + m
    BY <1>6 DEF Joins
  <2>2. QED
    BY ONLY <1>7, <2>1, JoinIs, d \in Seq(S), Len(d) = m
<1>9. p \in Seq(S) /\ Len(p) = 2 * n + 2 * m
  BY <1>4, <1>8 DEF Joins
<1>10. SubSeq(p, 1, n) = a
  <2>1. ASSUME NEW i \in 1..n
        PROVE  p[0 + i] = a[i]
    <3>1. i \in 1..k /\ i \in 1..(k + m) /\ 0 + i = i
      BY ONLY <1>4, n \in Nat, m \in Nat, i \in 1..n
    <3>2. p[i] = abc[i] /\ abc[i] = ab[i] /\ ab[i] = a[i]
      BY ONLY <1>2, <1>6, <1>8, <3>1, i \in 1..n DEF Joins
    <3>3. QED
      BY <3>1, <3>2
  <2>2. SubSeq(p, 0 + 1, n) = a
    <3>1. n = 0 + Len(a) /\ n <= Len(p) /\ 0 \in Nat
      BY <1>9
    <3>2. QED
      BY <2>1, <3>1, <1>9, PartIs
  <2>3. QED
    BY <2>2
<1>11. SubSeq(p, n + 1, 2 * n) = b
  <2>1. ASSUME NEW i \in 1..n
        PROVE  p[n + i] = b[i]
    <3>1. n + i \in 1..k /\ n + i \in 1..(k + m)
      BY ONLY <1>4, n \in Nat, m \in Nat, i \in 1..n
    <3>2. p[n + i] = abc[n + i] /\ abc[n + i] = ab[n + i] /\ ab[n + i] = b[i]
      BY ONLY <1>2, <1>6, <1>8, <3>1, i \in 1..n DEF Joins
    <3>3. QED
      BY <3>2
  <2>2. 2 * n = n + Len(b) /\ 2 * n <= Len(p) /\ 2 * n \in Nat
    BY <1>9
  <2>3. QED
    BY ONLY <2>1, <2>2, <1>9, PartIs, n \in Nat, b \in Seq(S), Len(b) = n
<1>12. SubSeq(p, 2 * n + 1, 2 * n + m) = c
  <2>1. ASSUME NEW i \in 1..m
        PROVE  p[2 * n + i] = c[i]
    <3>1. k + i \in 1..(k + m) /\ 2 * n + i = k + i
      BY ONLY <1>4, n \in Nat, m \in Nat, i \in 1..m
    <3>2. p[k + i] = abc[k + i] /\ abc[k + i] = c[i]
      BY ONLY <1>6, <1>8, <3>1, i \in 1..m DEF Joins
    <3>3. QED
      BY <3>1, <3>2
  <2>2. 2 * n + m = 2 * n + Len(c) /\ 2 * n + m <= Len(p) /\ 2 * n \in Nat /\ 2 * n + m \in Nat
    BY <1>9
  <2>3. QED
    BY ONLY <2>1, <2>2, <1>9, PartIs, c \in Seq(S), Len(c) = m
<1>13. SubSeq(p, 2 * n + m + 1, 2 * n + 2 * m) = d
  <2>1. ASSUME NEW i \in 1..m
        PROVE  p[2 * n + m + i] = d[i]
    <3>1. 2 * n + m + i = k + m + i
      BY ONLY <1>4, n \in Nat, m \in Nat, i \in 1..m
    <3>2. p[k + m + i] = d[i]
      BY ONLY <1>8, i \in 1..m DEF Joins
    <3>3. QED
      BY <3>1, <3>2
  <2>2. /\ 2 * n + 2 * m = 2 * n + m + Len(d) /\ 2 * n + 2 * m <= Len(p)
        /\ 2 * n + m \in Nat /\ 2 * n + 2 * m \in Nat
    BY <1>9
  <2>3. QED
    BY ONLY <2>1, <2>2, <1>9, PartIs, d \in Seq(S), Len(d) = m
<1>14. QED
  BY <1>9, <1>10, <1>11, <1>12, <1>13 DEF Parts

(* A part of the beginning of a sequence is a part of the sequence.        *)
LEMMA PartOfBeginning ==
    ASSUME NEW S, NEW s \in Seq(S), NEW n \in 0..Len(s),
           NEW i \in Nat \ {0}, NEW j \in 0..n
    PROVE  SubSeq(SubSeq(s, 1, n), i, j) = SubSeq(s, i, j)
<1>1. PICK t : t = SubSeq(s, 1, n)
  OBVIOUS
<1>2. t \in Seq(S) /\ Len(t) = n /\ \A k \in 1..n : t[k] = s[k]
  <2>1. \A k \in 1..n : s[k] \in S
    OBVIOUS
  <2>2. QED
    BY <1>1, <2>1, SubSeqProperties, SMTT(30)
<1>3. CASE i <= j
  <2>1. PICK k \in Nat : k = i - 1
    OBVIOUS
  <2>2. PICK u : u = SubSeq(s, i, j)
    OBVIOUS
  <2>3. \A e \in i..j : s[e] \in S
    OBVIOUS
  <2>4. /\ u \in Seq(S) /\ Len(u) = j - i + 1
        /\ \A e \in 1..(j - i + 1) : u[e] = s[i + e - 1]
    BY <1>3, <2>2, <2>3, SubSeqProperties, SMTT(30)
  <2>5. j = k + Len(u) /\ j <= Len(t)
    BY <1>2, <2>1, <2>4
  <2>6. \A e \in 1..Len(u) : t[k + e] = u[e]
    BY <1>2, <1>3, <2>1, <2>4
  <2>7. SubSeq(t, k + 1, j) = u
    BY <1>2, <2>4, <2>5, <2>6, PartIs
  <2>8. QED
    BY <1>1, <2>1, <2>2, <2>7
<1>4. CASE i > j
  BY <1>1, <1>4, SubSeqEmpty
<1>5. QED
  BY <1>3, <1>4

(* A spec as create and open may get it.                                   *)
Sized(s) == /\ s.kv_heads \in Nat /\ s.head_dim \in Nat /\ s.block_tokens \in Nat
            /\ s.bits \in {2, 4} /\ s.group_size \in Nat \ {0}
            /\ s.head_dim % s.group_size = 0 /\ s.group_size % PerByte(s.bits) = 0

(* What divides a number is a factor of it.                                *)
LEMMA WholeGroups ==
    ASSUME NEW n \in Nat, NEW g \in Nat \ {0}, n % g = 0
    PROVE  n \div g \in Nat /\ n = g * (n \div g)
<1> DEFINE q == n \div g
           e == n % g
<1>1. q \in Nat /\ e \in 0..(g - 1) /\ n = g * q + e
  OBVIOUS
<1>2. e = 0
  OBVIOUS
<1> HIDE DEF q, e
<1>3. g * q \in Nat
  BY <1>1
<1>4. n = g * q
  BY <1>1, <1>2, <1>3
<1>5. QED
  BY <1>1, <1>4 DEF q

(* A number of rows has that number of times the groups, and the bytes, of *)
(* a row.                                                                  *)
LEMMA RowsDivide ==
    ASSUME NEW r \in Nat, NEW w \in Nat, NEW g \in Nat \ {0}, w % g = 0
    PROVE  (r * w) \div g = r * (w \div g) /\ w \div g \in Nat
<1>1. PICK q \in Nat : q = w \div g /\ w = g * q
  BY WholeGroups
<1>2. PICK m \in Nat : m = r * q
  BY <1>1
<1>3. r * w = g * m
  <2>1. r * (g * q) = g * (r * q)
    BY <1>1
  <2>2. QED
    BY <2>1, <1>1, <1>2
<1>4. (g * m) \div g = m
  OBVIOUS
<1>5. QED
  BY <1>1, <1>2, <1>3, <1>4

(* The scales and bytes of a block are what the spec counts for the header *)
(* (format.py: CacheSpec).                                                 *)
LEMMA SpecCounts ==
    ASSUME NEW s, Sized(s), NEW n, n = s.block_tokens * (s.kv_heads * s.head_dim)
    PROVE  /\ n \in Nat
           /\ ScaleCount(s) \in Nat /\ n \div s.group_size = ScaleCount(s)
           /\ PackedCount(s) \in Nat /\ n \div PerByte(s.bits) = PackedCount(s)
<1>1. PICK d \in Nat, g \in Nat \ {0}, b \in {2, 4} :
          d = s.head_dim /\ g = s.group_size /\ b = s.bits
  BY DEF Sized
<1>2. PICK r \in Nat : r = s.block_tokens * s.kv_heads
  BY DEF Sized
<1>3. n = r * d
  <2>1. ASSUME NEW x \in Nat, NEW y \in Nat, NEW z \in Nat
        PROVE  x * (y * z) = (x * y) * z
    OBVIOUS
  <2>2. QED
    BY <2>1, <1>1, <1>2 DEF Sized
<1>4. n \in Nat
  BY <1>3
<1>5. n \div g = r * (d \div g) /\ d \div g \in Nat
  <2>1. d % g = 0
    BY <1>1 DEF Sized
  <2>2. QED
    BY ONLY <1>3, <2>1, RowsDivide, r \in Nat, d \in Nat, g \in Nat \ {0}
<1>6. ScaleCount(s) = r * (d \div g)
  BY <1>1, <1>2 DEF ScaleCount
<1>7. PICK p \in {2, 4} : p = PerByte(b) /\ p * b = 8
  BY DEF PerByte
<1>8. d % p = 0
  <2>1. d % g = 0 /\ g % p = 0
    BY <1>1, <1>7 DEF Sized
  <2>2. d = g * (d \div g)
    BY <2>1
  <2>3. PICK k \in Nat : d = g * k
    BY <1>5, <2>2
  <2>4. PICK j \in Nat : g = p * j
    <3>1. g = p * (g \div p) /\ g \div p \in Nat
      BY <2>1
    <3>2. QED
      BY <3>1
  <2>5. PICK i \in Nat : i = j * k
    BY <2>3, <2>4
  <2>6. d = p * i
    BY <2>3, <2>4, <2>5
  <2>7. (p * i) % p = 0
    OBVIOUS
  <2>8. QED
    BY <2>6, <2>7
<1>9. n \div p = r * (d \div p) /\ d \div p \in Nat
  <2>1. p \in Nat \ {0}
    BY <1>7
  <2>2. QED
    BY ONLY <1>3, <1>8, <2>1, RowsDivide, r \in Nat, d \in Nat
<1>10. (d * b) \div 8 = d \div p
  <2>1. CASE p = 2
    BY <2>1, <1>7, <1>8
  <2>2. CASE p = 4
    BY <2>2, <1>7, <1>8
  <2>3. QED
    BY <2>1, <2>2
<1>11. PackedCount(s) = r * (d \div p)
  BY <1>1, <1>2, <1>10 DEF PackedCount, PackedDim
<1>12. QED
  BY <1>1, <1>4, <1>5, <1>6, <1>7, <1>9, <1>11

(* create quantizes a block of a spec it accepts to the counts of scales   *)
(* and bytes the views of a record expect.                                 *)
LEMMA BlockShape ==
    ASSUME NEW s, Sized(s), NEW rows, NEW b
    PROVE  Quantized(Quantize(Padded(rows, b, s), s.bits, s.group_size),
                     ScaleCount(s), PackedCount(s))
<1>1. PICK n : n = s.block_tokens * (s.kv_heads * s.head_dim)
  OBVIOUS
<1>2. /\ n \in Nat /\ n \div s.group_size = ScaleCount(s)
      /\ n \div PerByte(s.bits) = PackedCount(s)
  BY <1>1, SpecCounts
<1>3. PICK x : x = Padded(rows, b, s)
  OBVIOUS
<1>4. Len(x) = n
  <2> DEFINE At(i) == LET width == s.kv_heads * s.head_dim
                          t == b * s.block_tokens + (i - 1) \div width
                      IN  IF t < Len(rows) THEN rows[t + 1][((i - 1) % width) + 1] ELSE 0
  <2>1. x = [i \in 1..n |-> At(i)]
    BY <1>1, <1>3 DEF Padded
  <2> HIDE DEF At
  <2>2. QED
    BY <2>1, <1>2
<1>5. s.bits \in {2, 4} /\ s.group_size \in Nat \ {0}
  BY DEF Sized
<1>6. Quantized(Quantize(x, s.bits, s.group_size),
                Len(x) \div s.group_size, Len(x) \div PerByte(s.bits))
  BY <1>2, <1>4, <1>5, QuantizeShape
<1>7. QED
  BY <1>2, <1>3, <1>4, <1>6

(* The four parts of the payload in their order.                           *)
Payload(block) ==
    ScaleBytes(block.key.scales) \o ScaleBytes(block.value.scales)
    \o block.key.packed \o block.value.packed

(* Made to the measures of s.                                              *)
Fits(block, s) ==
    /\ Quantized(block.key, ScaleCount(s), PackedCount(s))
    /\ Quantized(block.value, ScaleCount(s), PackedCount(s))

(* What is behind the header of raw begins with the payload of the block.  *)
Begins(raw, block, s) ==
    /\ \E T : raw.bytes \in Seq(T)
    /\ PayloadBytes(s) <= Len(raw.bytes)
    /\ SubSeq(raw.bytes, 1, PayloadBytes(s)) = Payload(block)

(* The parts of two tensors are sequences over one set.                    *)
LEMMA QuantizedTogether ==
    ASSUME NEW q, NEW r, NEW n, NEW m, Quantized(q, n, m), Quantized(r, n, m)
    PROVE  \E S : /\ 0 \in S
                  /\ q.scales \in Seq(S) /\ q.packed \in Seq(S)
                  /\ r.scales \in Seq(S) /\ r.packed \in Seq(S)
<1>1. PICK S : 0 \in S /\ q.scales \in Seq(S) /\ q.packed \in Seq(S)
  BY DEF Quantized
<1>2. PICK T : r.scales \in Seq(T) /\ r.packed \in Seq(T)
  BY DEF Quantized
<1>3. q.scales \in Seq(S \cup T) /\ q.packed \in Seq(S \cup T) /\ 0 \in S \cup T
  BY <1>1, SeqMonotonic
<1>4. r.scales \in Seq(S \cup T) /\ r.packed \in Seq(S \cup T)
  BY <1>2, SeqMonotonic
<1>5. QED
  BY <1>3, <1>4

(* The payload of a block has the length the header gives, and its parts   *)
(* are where the views of a reader of the same layout look for them.       *)
LEMMA PayloadShape ==
    ASSUME NEW s, ScaleCount(s) \in Nat, PackedCount(s) \in Nat, NEW block, Fits(block, s)
    PROVE  /\ \E S : 0 \in S /\ Payload(block) \in Seq(S)
           /\ Len(Payload(block)) = PayloadBytes(s) /\ PayloadBytes(s) \in Nat
           /\ Parts(Payload(block), 2 * ScaleCount(s), PackedCount(s),
                    ScaleBytes(block.key.scales), ScaleBytes(block.value.scales),
                    block.key.packed, block.value.packed)
<1>1. PICK S : /\ 0 \in S
               /\ block.key.scales \in Seq(S) /\ block.key.packed \in Seq(S)
               /\ block.value.scales \in Seq(S) /\ block.value.packed \in Seq(S)
  BY QuantizedTogether DEF Fits
<1>2. PICK n \in Nat, m \in Nat : n = 2 * ScaleCount(s) /\ m = PackedCount(s)
  OBVIOUS
<1>3. /\ Len(block.key.scales) = ScaleCount(s) /\ Len(block.key.packed) = m
      /\ Len(block.value.scales) = ScaleCount(s) /\ Len(block.value.packed) = m
  BY <1>2 DEF Fits, Quantized
<1>4. PICK a : a = ScaleBytes(block.key.scales)
  OBVIOUS
<1>5. PICK b : b = ScaleBytes(block.value.scales)
  OBVIOUS
<1>6. a \in Seq(S) /\ Len(a) = n
  BY <1>1, <1>2, <1>3, <1>4, ScaleBytesShape
<1>7. b \in Seq(S) /\ Len(b) = n
  BY <1>1, <1>2, <1>3, <1>5, ScaleBytesShape
<1>8. PICK p : p = a \o b \o block.key.packed \o block.value.packed
  OBVIOUS
<1>9. p = Payload(block)
  BY <1>4, <1>5, <1>8 DEF Payload
<1>10. p \in Seq(S) /\ Parts(p, n, m, a, b, block.key.packed, block.value.packed)
  BY <1>1, <1>3, <1>6, <1>7, <1>8, PayloadParts
<1>11. PayloadBytes(s) = 2 * n + 2 * m /\ 2 * n + 2 * m \in Nat
  BY <1>2 DEF PayloadBytes
<1>12. Len(p) = PayloadBytes(s)
  BY <1>10, <1>11 DEF Parts
<1>13. QED
  BY <1>1, <1>2, <1>4, <1>5, <1>9, <1>10, <1>11, <1>12, Zenon

(* The views of a record that begins with the payload of a block are the   *)
(* block's tensors, for every reader of the same layout (format.py).       *)
LEMMA ViewsOf ==
    ASSUME NEW s, ScaleCount(s) \in Nat, PackedCount(s) \in Nat, NEW block, Fits(block, s),
           NEW raw, Begins(raw, block, s),
           NEW r, ScaleCount(r) = ScaleCount(s), PackedCount(r) = PackedCount(s)
    PROVE  KeyView(raw, r) = block.key /\ ValueView(raw, r) = block.value
<1>1. PICK n \in Nat, m \in Nat : n = 2 * ScaleCount(s) /\ m = PackedCount(s)
  OBVIOUS
<1>2. PayloadBytes(s) = 2 * n + 2 * m
  BY <1>1 DEF PayloadBytes
<1>3. PICK T : raw.bytes \in Seq(T)
  BY DEF Begins
<1>4. PICK p : p = Payload(block)
  OBVIOUS
<1>5. 2 * n + 2 * m \in 0..Len(raw.bytes) /\ SubSeq(raw.bytes, 1, 2 * n + 2 * m) = p
  <2>1. 2 * n + 2 * m <= Len(raw.bytes)
    BY <1>2 DEF Begins
  <2>2. 2 * n + 2 * m \in Nat /\ Len(raw.bytes) \in Nat
    BY <1>3
  <2>3. QED
    BY <1>2, <1>4, <2>1, <2>2 DEF Begins
<1>6. ASSUME NEW i \in Nat \ {0}, NEW j \in 0..(2 * n + 2 * m)
      PROVE  SubSeq(raw.bytes, i, j) = SubSeq(p, i, j)
  BY <1>3, <1>5, PartOfBeginning
<1>7. /\ SubSeq(raw.bytes, 1, n) = SubSeq(p, 1, n)
      /\ SubSeq(raw.bytes, n + 1, 2 * n) = SubSeq(p, n + 1, 2 * n)
      /\ SubSeq(raw.bytes, 2 * n + 1, 2 * n + m) = SubSeq(p, 2 * n + 1, 2 * n + m)
      /\ SubSeq(raw.bytes, 2 * n + m + 1, 2 * n + 2 * m)
           = SubSeq(p, 2 * n + m + 1, 2 * n + 2 * m)
  <2>1. /\ n \in 0..(2 * n + 2 * m) /\ 2 * n \in 0..(2 * n + 2 * m)
        /\ 2 * n + m \in 0..(2 * n + 2 * m) /\ 2 * n + 2 * m \in 0..(2 * n + 2 * m)
        /\ 1 \in Nat \ {0} /\ n + 1 \in Nat \ {0} /\ 2 * n + 1 \in Nat \ {0}
        /\ 2 * n + m + 1 \in Nat \ {0}
    BY ONLY n \in Nat, m \in Nat
  <2>2. QED
    BY <1>6, <2>1, Zenon
<1>8. /\ SubSeq(p, 1, n) = ScaleBytes(block.key.scales)
      /\ SubSeq(p, n + 1, 2 * n) = ScaleBytes(block.value.scales)
      /\ SubSeq(p, 2 * n + 1, 2 * n + m) = block.key.packed
      /\ SubSeq(p, 2 * n + m + 1, 2 * n + 2 * m) = block.value.packed
  <2>1. Parts(p, n, m, ScaleBytes(block.key.scales), ScaleBytes(block.value.scales),
              block.key.packed, block.value.packed)
    BY <1>1, <1>4, PayloadShape, Zenon
  <2>2. QED
    BY <2>1 DEF Parts
<1>9. /\ ScalesOf(ScaleBytes(block.key.scales)) = block.key.scales
      /\ ScalesOf(ScaleBytes(block.value.scales)) = block.value.scales
  BY ScaleRoundTrip DEF Fits, Quantized
<1>10. KeyView(raw, r) = [scales |-> block.key.scales, packed |-> block.key.packed]
  BY <1>1, <1>7, <1>8, <1>9 DEF KeyView
<1>11. ValueView(raw, r) = [scales |-> block.value.scales, packed |-> block.value.packed]
  BY <1>1, <1>7, <1>8, <1>9 DEF ValueView
<1>12. /\ block.key = [scales |-> block.key.scales, packed |-> block.key.packed]
       /\ block.value = [scales |-> block.value.scales, packed |-> block.value.packed]
  BY DEF Fits, Quantized
<1>13. QED
  BY <1>10, <1>11, <1>12

(***************************************************************************)
(* Recursion over the naturals, with sets for predicates and functions for *)
(* operators.                                                              *)
(***************************************************************************)
(* A set of naturals that is not empty has a least element.                *)
LEMMA LeastElement ==
    ASSUME NEW T \in SUBSET Nat, T # {}
    PROVE  \E n \in T : \A m \in T : n <= m
<1>1. PICK n \in T : \A m \in T : ~ (<<m, n>> \in OpToRel(<, Nat))
  BY NatLessThanWellFounded, WFMin, Zenon
<1>2. ASSUME NEW m \in T
      PROVE  n <= m
  <2>1. ~ (m < n)
    BY <1>1 DEF OpToRel
  <2>2. QED
    BY <2>1
<1>3. QED
  BY <1>2

(* A set that has zero, and with every number below n the next one, has    *)
(* all up to n.                                                            *)
LEMMA UpTo ==
    ASSUME NEW n \in Nat, NEW T, 0 \in T, \A i \in 1..n : i - 1 \in T => i \in T
    PROVE  0..n \subseteq T
<1> DEFINE Out == {i \in 0..n : i \notin T}
<1>1. SUFFICES ASSUME Out # {}
               PROVE  FALSE
  OBVIOUS
<1>2. PICK i \in Out : \A j \in Out : i <= j
  <2>1. Out \in SUBSET Nat
    OBVIOUS
  <2> HIDE DEF Out
  <2>2. QED
    BY <1>1, <2>1, LeastElement
<1>3. i # 0 /\ i \in 1..n /\ i - 1 \in 0..n
  BY <1>2
<1>4. i - 1 \notin Out
  BY <1>2, <1>3
<1>5. QED
  BY <1>2, <1>3, <1>4

(* g is what a recursive definition over 0..n with that step computes.     *)
Iterates(g, first, Step, n) ==
    g[0] = first /\ \A i \in 1..n : g[i] = Step[<<i, g[i - 1]>>]

(* A first value and a step define a function.                             *)
LEMMA StepsDefine ==
    ASSUME NEW V, NEW first \in V, NEW Step \in [Nat \X V -> V], NEW n \in Nat
    PROVE  \E g \in [0..n -> V] : Iterates(g, first, Step, n)
<1> DEFINE Good(g, k) == /\ g \in [0..k -> V] /\ g[0] = first
                         /\ \A i \in 1..k : g[i] = Step[<<i, g[i - 1]>>]
           T == {k \in 0..n : \E g : Good(g, k)}
<1>1. 0 \in T
  <2>1. PICK g : g = [i \in 0..0 |-> first]
    OBVIOUS
  <2>2. g \in [0..0 -> V] /\ g[0] = first /\ \A i \in 1..0 : g[i] = Step[<<i, g[i - 1]>>]
    BY <2>1
  <2>3. 0 \in 0..n
    OBVIOUS
  <2>4. QED
    BY <2>2, <2>3, Zenon
<1>2. ASSUME NEW k \in 1..n, k - 1 \in T
      PROVE  k \in T
  <2>1. PICK g : Good(g, k - 1)
    BY <1>2
  <2>2. PICK v : v = Step[<<k, g[k - 1]>>]
    OBVIOUS
  <2>3. v \in V
    <3>1. g[k - 1] \in V
      BY <2>1
    <3>2. QED
      BY <2>2, <3>1
  <2> DEFINE h == [i \in 0..k |-> IF i = k THEN v ELSE g[i]]
  <2>4. h \in [0..k -> V]
    BY <2>1, <2>3
  <2>5. h[0] = first
    BY <2>1
  <2>6. ASSUME NEW i \in 1..k
        PROVE  h[i] = Step[<<i, h[i - 1]>>]
    <3>1. h[i - 1] = g[i - 1]
      OBVIOUS
    <3>2. CASE i = k
      <4>1. h[i] = v
        BY <3>2
      <4> HIDE DEF h
      <4>2. QED
        BY <2>2, <3>1, <3>2, <4>1
    <3>3. CASE i # k
      <4>1. i \in 1..(k - 1)
        BY <3>3
      <4>2. g[i] = Step[<<i, g[i - 1]>>]
        BY <2>1, <4>1
      <4>3. h[i] = g[i]
        BY <3>3
      <4>4. QED
        BY <3>1, <4>2, <4>3
    <3>4. QED
      BY <3>2, <3>3
  <2> HIDE DEF h
  <2>7. Good(h, k)
    BY <2>4, <2>5, <2>6
  <2>8. QED
    BY <2>7
<1> HIDE DEF T
<1>3. 0..n \subseteq T
  BY <1>1, <1>2, UpTo
<1>4. n \in T
  BY <1>3
<1>5. QED
  BY <1>4 DEF T, Iterates

(***************************************************************************)
(* How far an element is from what comes back.                             *)
(***************************************************************************)
(* max|x| of a group that is not empty is what its name says.              *)
LEMMA AbsMaxIs ==
    ASSUME NEW x \in Seq(Int), Len(x) # 0
    PROVE  AbsMax(x) \in Nat /\ \A i \in 1..Len(x) : Magnitude(x[i]) <= AbsMax(x)
<1>1. PICK n \in Nat \ {0} : n = Len(x)
  OBVIOUS
<1>2. ASSUME NEW i \in 1..n
      PROVE  Magnitude(x[i]) \in Nat
  BY <1>1 DEF Magnitude
<1> DEFINE T == {k \in 0..n : k = 0 \/ \E j \in 1..k : \A i \in 1..k :
                                           Magnitude(x[i]) <= Magnitude(x[j])}
<1>3. 0 \in T
  OBVIOUS
<1>4. ASSUME NEW k \in 1..n, k - 1 \in T
      PROVE  k \in T
  <2>1. CASE k = 1
    <3>1. \A i \in 1..1 : Magnitude(x[i]) <= Magnitude(x[1])
      BY <1>2
    <3>2. QED
      BY <2>1, <3>1
  <2>2. CASE k # 1
    <3>1. PICK j \in 1..(k - 1) : \A i \in 1..(k - 1) : Magnitude(x[i]) <= Magnitude(x[j])
      BY <1>4, <2>2
    <3>2. PICK m \in Nat, l \in Nat : m = Magnitude(x[j]) /\ l = Magnitude(x[k])
      <4>1. j \in 1..n
        OBVIOUS
      <4>2. QED
        BY <1>2, <4>1
    <3>3. ASSUME NEW i \in 1..k
          PROVE  i = k \/ (Magnitude(x[i]) <= m /\ Magnitude(x[i]) \in Nat)
      <4>1. i # k => i \in 1..(k - 1) /\ i \in 1..n
        OBVIOUS
      <4>2. QED
        BY <1>2, <3>1, <3>2, <4>1
    <3>4. CASE m <= l
      <4>1. \A i \in 1..k : Magnitude(x[i]) <= Magnitude(x[k])
        BY <3>2, <3>3, <3>4
      <4>2. QED
        BY <4>1
    <3>5. CASE l <= m
      <4>1. \A i \in 1..k : Magnitude(x[i]) <= Magnitude(x[j])
        BY <3>2, <3>3, <3>5
      <4>2. j \in 1..k
        OBVIOUS
      <4>3. QED
        BY <4>1, <4>2
    <3>6. QED
      BY <3>4, <3>5
  <2>3. QED
    BY <2>1, <2>2
<1> HIDE DEF T
<1>5. 0..n \subseteq T
  BY <1>3, <1>4, UpTo
<1>6. PICK j \in 1..n : \A i \in 1..n : Magnitude(x[i]) <= Magnitude(x[j])
  <2>1. n \in T /\ n # 0
    BY <1>5
  <2>2. QED
    BY <2>1 DEF T
<1>7. DOMAIN x = 1..n
  BY <1>1
<1>8. PICK all : all = {Magnitude(x[i]) : i \in DOMAIN x}
  OBVIOUS
<1>9. \E m \in all : \A i \in DOMAIN x : Magnitude(x[i]) <= m
  BY <1>6, <1>7, <1>8
<1>10. AbsMax(x) = CHOOSE m \in all : \A i \in DOMAIN x : Magnitude(x[i]) <= m
  BY <1>8 DEF AbsMax
<1>11. AbsMax(x) \in all /\ \A i \in DOMAIN x : Magnitude(x[i]) <= AbsMax(x)
  BY <1>9, <1>10
<1>12. QED
  BY <1>1, <1>2, <1>7, <1>8, <1>11

(* Group j of x is full and element i is in it.                            *)
Among(x, group, i, j) ==
    /\ j \in 1..(Len(x) \div group)
    /\ GroupOf(x, group, j) \in Seq(Int) /\ Len(GroupOf(x, group, j)) = group
    /\ \E k \in 1..group : GroupOf(x, group, j)[k] = x[i]

(* An element is among those of its group, which is full.                  *)
LEMMA GroupHolds ==
    ASSUME NEW x \in Seq(Int), NEW group \in Nat \ {0}, Len(x) % group = 0,
           NEW i \in 1..Len(x)
    PROVE  Among(x, group, i, (i - 1) \div group + 1)
<1>0. PICK j : j = (i - 1) \div group + 1
  OBVIOUS
<1>1. PICK n \in Nat, q \in Nat : n = Len(x) /\ n = group * q /\ q = n \div group
  <2>1. PICK n \in Nat : n = Len(x)
    OBVIOUS
  <2>2. n \div group \in Nat /\ n = group * (n \div group)
    BY <2>1, WholeGroups
  <2>3. QED
    BY <2>1, <2>2
<1>2. PICK a \in Nat, r \in 0..(group - 1) : i - 1 = group * a + r /\ j = a + 1
  <2> DEFINE d == (i - 1) \div group
             r == (i - 1) % group
  <2>1. d \in Nat /\ r \in 0..(group - 1) /\ i - 1 = group * d + r
    <3>1. i - 1 \in Nat
      OBVIOUS
    <3>2. QED
      BY ONLY <3>1, group \in Nat \ {0}
  <2>2. j = d + 1
    BY <1>0
  <2> HIDE DEF d, r
  <2>3. QED
    BY <2>1, <2>2
<1>3. PICK low \in Nat : low = group * a
  OBVIOUS
<1>4. a < q
  <2>1. SUFFICES ASSUME q <= a
                 PROVE  FALSE
    OBVIOUS
  <2>2. group * q <= group * a
    BY <2>1
  <2>3. i - 1 < n
    BY <1>1
  <2>4. QED
    BY <1>1, <1>2, <1>3, <2>2, <2>3
<1>5. low + group <= n
  <2>1. group * (a + 1) <= group * q
    BY <1>4
  <2>2. group * (a + 1) = low + group
    BY <1>3
  <2>3. QED
    BY <1>1, <2>1, <2>2
<1>6. GroupOf(x, group, j) = SubSeq(x, low + 1, low + group)
  <2>1. (j - 1) * group = low /\ j * group = low + group
    BY <1>2, <1>3
  <2>2. QED
    BY <2>1 DEF GroupOf
<1>7. PICK part : part = SubSeq(x, low + 1, low + group)
  OBVIOUS
<1>8. /\ part \in Seq(Int) /\ Len(part) = group
      /\ \A k \in 1..group : part[k] = x[low + k]
  <2>1. ASSUME NEW k \in (low + 1)..(low + group)
        PROVE  x[k] \in Int
    <3>1. k \in 1..Len(x)
      BY <1>1, <1>5
    <3>2. QED
      BY ONLY <3>1, x \in Seq(Int)
  <2>2. /\ part \in Seq(Int)
        /\ Len(part) = IF low + 1 <= low + group THEN low + group - (low + 1) + 1 ELSE 0
        /\ \A k \in 1..(low + group - (low + 1) + 1) : part[k] = x[low + 1 + k - 1]
    BY ONLY <1>7, <2>1, SubSeqProperties, x \in Seq(Int), low \in Nat, group \in Nat, SMTT(60)
  <2>3. low + group - (low + 1) + 1 = group /\ low + 1 <= low + group
    OBVIOUS
  <2>4. ASSUME NEW k \in 1..group
        PROVE  part[k] = x[low + k]
    <3>1. low + 1 + k - 1 = low + k
      OBVIOUS
    <3>2. QED
      BY <2>2, <2>3, <3>1
  <2>5. QED
    BY <2>2, <2>3, <2>4
<1>9. part[r + 1] = x[i] /\ r + 1 \in 1..group
  <2>1. r + 1 \in 1..group /\ low + (r + 1) = i
    BY <1>2, <1>3
  <2>2. QED
    BY <1>8, <2>1
<1>10. j \in 1..q
  BY <1>2, <1>4
<1>11. QED
  BY <1>0, <1>1, <1>6, <1>7, <1>8, <1>9, <1>10 DEF Among

(* A definition by recursion up to a number has one value there.           *)
PowersTo(g, n) == g \in [0..n -> Nat \ {0}] /\ g[0] = 1 /\ \A i \in 1..n : g[i] = 2 * g[i - 1]

LEMMA PowersExist ==
    ASSUME NEW n \in Nat
    PROVE  \E g : PowersTo(g, n)
<1>0. PICK V : V = Nat \ {0}
  OBVIOUS
<1>1. PICK Step : Step = [p \in Nat \X V |-> 2 * p[2]]
  OBVIOUS
<1>2. Step \in [Nat \X V -> V] /\ 1 \in V
  BY <1>0, <1>1
<1>3. PICK g \in [0..n -> V] : Iterates(g, 1, Step, n)
  BY <1>2, StepsDefine
<1>4. ASSUME NEW i \in 1..n
      PROVE  g[i] = 2 * g[i - 1]
  <2>1. g[i] = Step[<<i, g[i - 1]>>]
    BY <1>3 DEF Iterates
  <2>2. g[i - 1] \in V
    OBVIOUS
  <2>3. QED
    BY <1>1, <2>1, <2>2
<1>5. QED
  BY <1>0, <1>3, <1>4 DEF PowersTo, Iterates

LEMMA PowersAgree ==
    ASSUME NEW n \in Nat, NEW m \in 0..n, NEW g, PowersTo(g, n), NEW h, PowersTo(h, m)
    PROVE  \A i \in 0..m : g[i] = h[i]
<1> DEFINE T == {i \in 0..m : g[i] = h[i]}
<1>1. 0 \in T
  BY DEF PowersTo
<1>2. ASSUME NEW i \in 1..m, i - 1 \in T
      PROVE  i \in T
  BY <1>2 DEF PowersTo
<1> HIDE DEF T
<1>3. 0..m \subseteq T
  BY <1>1, <1>2, UpTo
<1>4. QED
  BY <1>3 DEF T

(* Power is what its definition says.                                      *)
LEMMA PowerIs ==
    /\ Power \in [Nat -> Nat \ {0}]
    /\ Power[0] = 1
    /\ \A n \in Nat \ {0} : Power[n] = 2 * Power[n - 1]
<1> DEFINE G(n) == CHOOSE g : PowersTo(g, n)
           f == [n \in Nat |-> G(n)[n]]
<1>1. ASSUME NEW n \in Nat
      PROVE  PowersTo(G(n), n)
  BY PowersExist
<1> HIDE DEF G
<1>2. ASSUME NEW n \in Nat
      PROVE  f[n] \in Nat \ {0}
  <2>1. G(n)[n] \in Nat \ {0}
    BY <1>1 DEF PowersTo
  <2>2. QED
    BY <2>1
<1>3. f[0] = 1
  <2>1. G(0)[0] = 1
    BY <1>1 DEF PowersTo
  <2>2. QED
    BY <2>1
<1>4. ASSUME NEW n \in Nat \ {0}
      PROVE  f[n] = 2 * f[n - 1]
  <2>1. G(n)[n] = 2 * G(n)[n - 1]
    <3>1. n \in 1..n
      OBVIOUS
    <3>2. QED
      BY <1>1, <3>1 DEF PowersTo
  <2>2. G(n)[n - 1] = G(n - 1)[n - 1]
    <3>1. n - 1 \in 0..n /\ n - 1 \in 0..(n - 1) /\ n - 1 \in Nat
      OBVIOUS
    <3>2. PowersTo(G(n), n) /\ PowersTo(G(n - 1), n - 1)
      BY <1>1, <3>1
    <3>3. QED
      BY <3>1, <3>2, PowersAgree
  <2>3. QED
    BY <2>1, <2>2
<1>5. f = [n \in Nat |-> IF n = 0 THEN 1 ELSE 2 * f[n - 1]]
  <2>1. \A n \in Nat : f[n] = IF n = 0 THEN 1 ELSE 2 * f[n - 1]
    BY <1>3, <1>4
  <2>2. f = [n \in Nat |-> f[n]]
    OBVIOUS
  <2> HIDE DEF f
  <2>3. QED
    BY <2>1, <2>2
<1> HIDE DEF f
<1>6. Power = [n \in Nat |-> IF n = 0 THEN 1 ELSE 2 * Power[n - 1]]
  BY <1>5, Zenon DEF Power
<1>7. \A n \in Nat : Power[n] = IF n = 0 THEN 1 ELSE 2 * Power[n - 1]
  BY <1>6
<1>8. Power[0] = 1 /\ \A n \in Nat \ {0} : Power[n] = 2 * Power[n - 1]
  BY <1>7
<1>9. ASSUME NEW n \in Nat
      PROVE  Power[n] \in Nat \ {0}
  <2> DEFINE T == {i \in Nat : Power[i] \in Nat \ {0}}
  <2>1. 0 \in T
    BY <1>8
  <2>2. ASSUME NEW i \in 1..n, i - 1 \in T
        PROVE  i \in T
    BY <1>8, <2>2
  <2> HIDE DEF T
  <2>3. 0..n \subseteq T
    BY <2>1, <2>2, UpTo
  <2>4. QED
    BY <2>3 DEF T
<1>10. QED
  BY <1>6, <1>8, <1>9

(* A floating-point number is rounded to one of the spacings around it.    *)
LEMMA SpacingIs ==
    ASSUME NEW a \in Nat, NEW b \in Nat \ {0}, NEW k, Exponents(a, b, k) # {}
    PROVE  \E e \in Exponents(a, b, k) : /\ \A f \in Exponents(a, b, k) : e <= f
                                        /\ Spacing(a, b, k) = Power[e]
<1>1. PICK E : E = Exponents(a, b, k)
  OBVIOUS
<1>2. E \in SUBSET Nat /\ E # {}
  BY <1>1 DEF Exponents
<1>3. \E e \in E : \A f \in E : e <= f
  BY <1>2, LeastElement
<1>4. PICK e : e = CHOOSE n \in E : \A f \in E : n <= f
  OBVIOUS
<1>5. e \in E /\ \A f \in E : e <= f
  BY <1>3, <1>4, Zenon
<1>6. Spacing(a, b, k) = Power[e]
  BY <1>1, <1>4, Zenon DEF Spacing
<1>7. QED
  BY <1>1, <1>5, <1>6

(* The spacing is a whole number, and so is what is rounded to it.         *)
LEMMA RoundedIs ==
    ASSUME NEW a \in Nat, NEW b \in Nat \ {0}, NEW k, Exponents(a, b, k) # {}
    PROVE  /\ Spacing(a, b, k) \in Nat \ {0}
           /\ Rounded(a, b, k) \in Nat
<1>1. PICK s : s = Spacing(a, b, k)
  OBVIOUS
<1>2. s \in Nat \ {0}
  <2>1. PICK e \in Exponents(a, b, k) : s = Power[e]
    BY <1>1, SpacingIs
  <2>2. e \in Nat
    BY <2>1 DEF Exponents
  <2>3. QED
    BY <2>1, <2>2, PowerIs
<1>3. PICK d \in Nat \ {0} : d = b * s
  BY <1>2
<1>4. PICK r : r = RoundEven(a, d)
  OBVIOUS
<1>5. r \in Nat
  <2>1. a \div d \in Nat
    OBVIOUS
  <2>2. r = a \div d \/ r = a \div d + 1
    BY <1>4 DEF RoundEven
  <2>3. QED
    BY <2>1, <2>2
<1>6. Rounded(a, b, k) = r * s
  BY <1>1, <1>3, <1>4 DEF Rounded
<1>7. QED
  BY <1>1, <1>2, <1>5, <1>6

(* A whole number is rounded by half a spacing at most.                    *)
LEMMA RoundedNear ==
    ASSUME NEW a \in Nat, NEW k, Exponents(a, 1, k) # {}
    PROVE  /\ 2 * (Rounded(a, 1, k) - a) <= Spacing(a, 1, k)
           /\ 2 * (a - Rounded(a, 1, k)) <= Spacing(a, 1, k)
<1>1. PICK s \in Nat \ {0} : s = Spacing(a, 1, k)
  BY RoundedIs
<1>2. 1 * s = s
  OBVIOUS
<1>3. PICK r : r = RoundEven(a, s)
  OBVIOUS
<1>4. r \in Int /\ 2 * (r * s - a) <= s /\ 2 * (a - r * s) <= s
  BY <1>3, RoundEvenNear
<1>5. Rounded(a, 1, k) = r * s
  BY <1>1, <1>2, <1>3 DEF Rounded
<1>6. QED
  BY <1>1, <1>4, <1>5

(* A scale in float16 is a number or overflows.                            *)
LEMMA HalfIs ==
    ASSUME NEW amax \in Nat, NEW bits \in {2, 4}
    PROVE  /\ Half(amax, bits) \in Nat \cup {Inf}
           /\ Half(amax, bits) # Inf => Half(amax, bits) <= HalfMax
<1>1. PICK p \in Nat \ {0} : p = PositiveMax(bits)
  BY DEF PositiveMax, Midpoint
<1>2. CASE Exponents(amax, p, HalfBits) = {}
  BY <1>1, <1>2 DEF Half
<1>3. CASE Exponents(amax, p, HalfBits) # {}
  <2>1. PICK r \in Nat : r = Rounded(amax, p, HalfBits)
    BY <1>3, RoundedIs
  <2>2. Half(amax, bits) = IF r > HalfMax THEN Inf ELSE r
    BY <1>1, <1>3, <2>1 DEF Half
  <2>3. QED
    BY <2>1, <2>2, HalfAssumption
<1>4. QED
  BY <1>2, <1>3

(* Zero is zero in float16.                                                *)
LEMMA HalfOfZero ==
    ASSUME NEW bits \in {2, 4}
    PROVE  Half(0, bits) = 0
<1>1. PICK p \in {1, 7} : p = PositiveMax(bits)
  BY DEF PositiveMax, Midpoint
<1>2. 0 \in Exponents(0, p, HalfBits)
  <2>1. PICK w \in Nat \ {0} : w = Power[0 + HalfBits]
    BY HalfAssumption, PowerIs
  <2>2. 0 < p * w
    BY <2>1
  <2>3. 0 \in 0..Binades
    BY HalfAssumption
  <2>4. QED
    BY <2>1, <2>2, <2>3 DEF Exponents
<1>3. PICK b \in Nat \ {0} : b = Spacing(0, p, HalfBits)
  BY <1>2, RoundedIs
<1>4. RoundEven(0, p * b) = 0
  <2>1. PICK d \in Nat \ {0} : d = p * b
    OBVIOUS
  <2>2. 0 \div d = 0 /\ 0 % d = 0
    OBVIOUS
  <2>3. RoundEven(0, d) = 0
    BY <2>2 DEF RoundEven
  <2>4. QED
    BY <2>1, <2>3
<1>5. Rounded(0, p, HalfBits) = 0
  BY <1>3, <1>4 DEF Rounded
<1>6. QED
  BY <1>1, <1>2, <1>5, HalfAssumption DEF Half

(* A product with a centred code is off by no more than the code's bound   *)
(* times what the other factor is off by.                                  *)
LEMMA ProductBounded ==
    ASSUME NEW p \in {1, 7}, NEW c \in (-p)..p, NEW e \in Int
    PROVE  /\ c * e \in Int /\ Magnitude(e) \in Nat
           /\ c * e <= p * Magnitude(e) /\ -(c * e) <= p * Magnitude(e)
<1>1. PICK m \in Nat : m = Magnitude(e) /\ (m = e \/ m = -e)
  BY DEF Magnitude
<1>2. /\ -m <= e /\ e <= m
  BY <1>1
<1>3. CASE c \in 0..p
  <2>1. c * e <= c * m /\ -(c * e) <= c * m /\ c * m <= p * m
    <3>1. CASE p = 1
      BY <1>2, <1>3, <3>1
    <3>2. CASE p = 7
      BY <1>2, <1>3, <3>2
    <3>3. QED
      BY <3>1, <3>2
  <2>2. c * e \in Int /\ c * m \in Int /\ p * m \in Int
    OBVIOUS
  <2>3. QED
    BY <1>1, <2>1, <2>2
<1>4. CASE c \in (-p)..(-1)
  <2>1. PICK d \in 1..p : d = -c
    BY <1>4
  <2>2. d * e <= d * m /\ -(d * e) <= d * m /\ d * m <= p * m
    <3>1. CASE p = 1
      BY <1>2, <3>1
    <3>2. CASE p = 7
      BY <1>2, <3>2
    <3>3. QED
      BY <3>1, <3>2
  <2>3. c * e = -(d * e) /\ d * e \in Int /\ d * m \in Int /\ p * m \in Int
    BY <2>1
  <2>4. QED
    BY <1>1, <2>2, <2>3
<1>5. QED
  BY <1>3, <1>4

(* A code of an element of the group, centred, is within PositiveMax.      *)
LEMMA CodeWithin ==
    ASSUME NEW bits \in {2, 4}, NEW amax \in Nat, NEW x \in Int, Magnitude(x) <= amax,
           NEW c, c = Code(x, amax, bits) - Midpoint(bits)
    PROVE  /\ PositiveMax(bits) \in {1, 7}
           /\ c \in (-PositiveMax(bits))..PositiveMax(bits)
           /\ 2 * Magnitude(PositiveMax(bits) * x - c * amax) <= amax
<1>1. PICK p \in {1, 7} : /\ p = PositiveMax(bits) /\ Midpoint(bits) = p + 1
                          /\ Levels(bits) = 2 * p + 2
  BY DEF PositiveMax, Midpoint, Levels
<1>2. Code(x, amax, bits) \in 0..(2 * p + 1) /\ 2 * Magnitude(p * x - c * amax) <= amax
  BY <1>1, CodeNear DEF IsCode
<1>3. c \in (-p - 1)..p
  BY <1>1, <1>2
<1>4. c # -p - 1
  <2>1. SUFFICES ASSUME c = -p - 1
                 PROVE  FALSE
    OBVIOUS
  <2>2. CASE amax = 0
    <3>1. Code(x, amax, bits) = Midpoint(bits)
      BY <1>1, <2>2 DEF Code
    <3>2. QED
      BY <1>1, <2>1, <3>1
  <2>3. CASE amax # 0
    <3>1. -amax <= x
      BY DEF Magnitude
    <3>2. p * x - c * amax >= amax
      <4>1. CASE p = 1
        BY <2>1, <3>1, <4>1
      <4>2. CASE p = 7
        BY <2>1, <3>1, <4>2
      <4>3. QED
        BY <4>1, <4>2
    <3>3. p * x - c * amax \in Int
      BY <1>3
    <3>4. Magnitude(p * x - c * amax) >= amax
      BY <3>2, <3>3 DEF Magnitude
    <3>5. QED
      BY <1>2, <2>3, <3>3, <3>4 DEF Magnitude
  <2>4. QED
    BY <2>2, <2>3
<1>5. QED
  BY <1>1, <1>2, <1>3, <1>4
================================================================================
