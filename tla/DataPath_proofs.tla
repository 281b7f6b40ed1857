---------------------------- MODULE DataPath_proofs ----------------------------
(***************************************************************************)
(* Proofs about DataPath, for any specs, tensors, queries and bounds: the  *)
(* choice of the attention backend; what a read makes of a record that was *)
(* damaged or that another layout reads; how near what it returns is to    *)
(* what was stored; and that decode returns the attention over the         *)
(* selected tokens.                                                        *)
(***************************************************************************)
EXTENDS DataPath, FusedKernel_proofs, TLAPS

(* A name is resolved to itself or to nothing.                             *)
LEMMA NamedResolve ==
    ASSUME NEW name, NEW order, NEW available, name # "auto"
    PROVE  Resolve(name, order, AttentionBackends, available) \in {name, NoBackend}
BY DEF Resolve

(* On a CPU nothing but the reference backend or what was named is chosen, *)
(* and auto always finds the reference backend.                            *)
LEMMA AutoResolve ==
    ASSUME NEW device, NEW extension, NEW triton,
           NEW chosen, chosen = Resolve("auto", AttentionOrder(device), AttentionBackends,
                                        Available(device, extension, triton))
    PROVE  /\ chosen \in AttentionBackends
           /\ device # "cuda" => chosen = "reference"
<1> DEFINE order  == AttentionOrder(device)
           usable == {n \in 1..Len(order) :
                        order[n] \in AttentionBackends \cap Available(device, extension, triton)}
<1>1. CASE device = "cuda"
  <2>1. order = <<"cuda", "triton", "reference">>
    BY <1>1 DEF AttentionOrder
  <2>2. usable \subseteq {1, 2, 3} /\ 3 \in usable
    BY <2>1 DEF AttentionBackends, Available
  <2>3. \E n \in usable : \A m \in usable : n <= m
    <3>1. CASE 1 \in usable
      BY <3>1, <2>2
    <3>2. CASE 1 \notin usable /\ 2 \in usable
      BY <3>2, <2>2
    <3>3. CASE 1 \notin usable /\ 2 \notin usable
      BY <3>3, <2>2
    <3>4. QED
      BY <3>1, <3>2, <3>3
  <2>4. chosen = order[CHOOSE n \in usable : \A m \in usable : n <= m]
    BY <2>2 DEF Resolve
  <2>5. QED
    BY <1>1, <2>3, <2>4
<1>2. CASE device # "cuda"
  <2>1. order = <<"reference">>
    BY <1>2 DEF AttentionOrder
  <2>2. usable = {1}
    BY <2>1 DEF AttentionBackends, Available
  <2>3. (CHOOSE n \in usable : \A m \in usable : n <= m) = 1
    BY <2>2
  <2>4. chosen = order[CHOOSE n \in usable : \A m \in usable : n <= m]
    BY <2>2 DEF Resolve
  <2>5. order[1] = "reference"
    BY <2>1
  <2> HIDE DEF order, usable
  <2>6. chosen = "reference"
    BY <2>3, <2>4, <2>5
  <2>7. QED
    BY <2>6 DEF AttentionBackends
<1>3. QED
  BY <1>1, <1>2

(* On a CPU the CUDA extension is not available.                           *)
LEMMA NoCudaOnCpu ==
    ASSUME NEW name, NEW extension, NEW triton
    PROVE  Resolve(name, AttentionOrder("cpu"), AttentionBackends,
                   Available("cpu", extension, triton)) # "cuda"
<1>1. CASE name = "auto"
  BY <1>1, AutoResolve
<1>2. CASE name # "auto"
  BY <1>2, RegistryAssumption DEF Resolve, Available, AttentionBackends
<1>3. QED
  BY <1>1, <1>2

(* The constructor keeps the choice closed (attention.py: __init__).       *)
LEMMA ConstructFailsClosed ==
    ASSUME NEW requested \in AttentionBackends \cup {"auto"},
           NEW require \in BOOLEAN, NEW extension \in BOOLEAN,
           NEW device \in {"cpu", "cuda"}, NEW triton \in {"none", "interpreter", "gpu"},
           Construct(requested, require, device, extension, triton)
    PROVE  FailsClosed'
<1> DEFINE name   == IF require THEN "cuda" ELSE requested
           chosen == IF require /\ requested \notin {"auto", "cuda"} THEN NoBackend
                     ELSE Resolve(name, AttentionOrder(device), AttentionBackends,
                                  Available(device, extension, triton))
<1>1. /\ backend' = chosen
      /\ request' = [name |-> requested, require |-> require, device |-> device]
  BY DEF Construct
<1>2. require => chosen \in {"cuda", NoBackend}
  BY NamedResolve
<1>3. requested # "auto" => chosen \in {requested, NoBackend}
  <2>1. CASE require
    BY <2>1, NamedResolve
  <2>2. CASE ~require
    BY <2>2, NamedResolve
  <2>3. QED
    BY <2>1, <2>2
<1>4. requested = "auto" /\ ~require => chosen # NoBackend
  BY AutoResolve, RegistryAssumption
<1>5. device = "cpu" => chosen # "cuda"
  BY NoCudaOnCpu, RegistryAssumption DEF AttentionBackends
<1> HIDE DEF chosen
<1>6. QED
  BY <1>1, <1>2, <1>3, <1>4, <1>5 DEF FailsClosed

(* Only the constructor reaches "constructed"; what it chose then stays.   *)
LEMMA StepFailsClosed ==
    ASSUME FailsClosed, [Next]_vars
    PROVE  FailsClosed'
<1>1. CASE stage' # "constructed"
  BY <1>1 DEF FailsClosed
<1>2. CASE UNCHANGED <<stage, planVars>>
  BY <1>2 DEF FailsClosed, planVars
<1>3. ASSUME NEW requested \in AttentionBackends \cup {"auto"},
             NEW require \in BOOLEAN, NEW extension \in BOOLEAN,
             NEW device \in {"cpu", "cuda"}, NEW triton \in {"none", "interpreter", "gpu"},
             Construct(requested, require, device, extension, triton)
      PROVE  FailsClosed'
  BY <1>3, ConstructFailsClosed
<1> DEFINE Elsewhere == stage' # "constructed" \/ UNCHANGED <<stage, planVars>>
<1>4. ASSUME NEW s, NEW k, NEW v, CreateStore(s, k, v)
      PROVE  Elsewhere
  BY <1>4 DEF CreateStore
<1>5. ASSUME NEW b, NEW field, DamageRecord(b, field)
      PROVE  Elsewhere
  BY <1>5 DEF DamageRecord
<1>6. ASSUME NEW selector, NEW s, NEW onPath, Read(selector, s, onPath)
      PROVE  Elsewhere
  <2>1. stage' \in {"raised", "refused", "read"}
    BY <1>6, Zenon DEF Read
  <2>2. QED
    BY <2>1
<1>7. ASSUME NEW q, NEW size, Attend(q, size)
      PROVE  Elsewhere
  BY <1>7 DEF Attend
<1>8. ASSUME RunChunk
      PROVE  Elsewhere
  <2>1. stage' \in {"raised", "done", "attending"}
    <3>1. CASE stage' = "raised"
      BY <1>8, <3>1 DEF RunChunk
    <3>2. CASE stage' # "raised"
      BY <1>8, <3>2, Zenon DEF RunChunk, MergeChunk
    <3>3. QED
      BY <3>1, <3>2
  <2>2. QED
    BY <2>1
<1>9. ASSUME LaunchHead
      PROVE  Elsewhere
  BY <1>9 DEF LaunchHead
<1>10. ASSUME RunThreads
       PROVE  Elsewhere
  BY <1>10 DEF RunThreads
<1>11. ASSUME CollectHead
       PROVE  Elsewhere
  <2>1. UNCHANGED planVars
    BY <1>11 DEF CollectHead
  <2>2. stage' \in {stage, "done", "attending"}
    BY <1>11, Zenon DEF CollectHead, MergeChunk
  <2>3. QED
    BY <2>1, <2>2
<1>12. ASSUME NEW c, NEW v, StoreBlock(c, v)
       PROVE  Elsewhere
  BY <1>12 DEF StoreBlock
<1>13. ASSUME NEW field, DamageBlock(field)
       PROVE  Elsewhere
  BY <1>13 DEF DamageBlock
<1>14. ASSUME NEW c, LoadBlock(c)
       PROVE  Elsewhere
  BY <1>14 DEF LoadBlock
<1>15. CASE UNCHANGED vars
  BY <1>2, <1>15 DEF vars
<1>16. QED
  BY <1>1, <1>2, <1>3, <1>4, <1>5, <1>6, <1>7, <1>8, <1>9, <1>10, <1>11, <1>12, <1>13, <1>14,
     <1>15
     DEF Next

(* A backend asked for by name, or required, is used or the constructor    *)
(* raises; auto finds one, the CUDA extension never on a CPU               *)
(* (pipeline.py: __init__, backends/registry.py).                          *)
THEOREM BackendFailsClosed == Spec => []FailsClosed
<1>1. Init => FailsClosed
  BY DEF Init, FailsClosed
<1>2. FailsClosed /\ [Next]_vars => FailsClosed'
  BY StepFailsClosed
<1>3. QED
  BY <1>1, <1>2, PTL DEF Spec

(* The fields of a record of the store that damage may change.             *)
HostFields == {"magic", "version", "layer", "block", "valid", "layout", "length", "crc",
               "bytes"}

(* An undamaged record begins with its payload and is what its CRC is of.  *)
LEMMA EncodedBegins ==
    ASSUME NEW s, ScaleCount(s) \in Nat, PackedCount(s) \in Nat, NEW block, Fits(block, s),
           NEW raw, raw = EncodeRecord(block, s)
    PROVE  /\ Begins(raw, block, s)
           /\ raw.crc = Payload(block) /\ Covered(raw) = Payload(block)
           /\ raw.length = PayloadBytes(s) /\ Len(raw.bytes) = PayloadBytes(s) + 1
<1>1. PICK p : p = Payload(block)
  OBVIOUS
<1>2. raw.bytes = p \o <<0>> /\ raw.length = Len(p) /\ raw.crc = p
  BY <1>1 DEF EncodeRecord, Payload
<1>3. PICK S : 0 \in S /\ p \in Seq(S)
  BY <1>1, PayloadShape, Zenon
<1>4. PICK n \in Nat : n = PayloadBytes(s) /\ Len(p) = n
  BY <1>1, PayloadShape
<1>5. PICK bytes : bytes = raw.bytes
  OBVIOUS
<1>6. Joins(bytes, p, <<0>>, n, 1, S)
  <2>1. <<0>> \in Seq(S) /\ Len(<<0>>) = 1
    BY <1>3
  <2>2. QED
    BY <1>2, <1>3, <1>4, <1>5, <2>1, JoinIs
<1>7. bytes \in Seq(S) /\ Len(bytes) = n + 1
  BY <1>6 DEF Joins
<1>8. SubSeq(bytes, 1, n) = p
  <2>1. \A i \in 1..n : bytes[0 + i] = p[i]
    BY <1>6 DEF Joins
  <2>2. n = 0 + Len(p) /\ n <= Len(bytes) /\ 0 \in Nat
    BY <1>4, <1>7
  <2>3. SubSeq(bytes, 0 + 1, n) = p
    BY <1>3, <1>4, <1>7, <2>1, <2>2, PartIs
  <2>4. QED
    BY <2>3
<1>9. Covered(raw) = p
  <2>1. raw.length < Len(raw.bytes) /\ raw.length = n
    BY <1>2, <1>4, <1>5, <1>7
  <2>2. QED
    BY <1>5, <1>8, <2>1 DEF Covered
<1>10. Begins(raw, block, s)
  <2>1. n <= Len(bytes)
    BY <1>7
  <2>2. QED
    BY <1>1, <1>4, <1>5, <1>7, <1>8, <2>1 DEF Begins
<1>11. QED
  BY <1>1, <1>2, <1>4, <1>5, <1>7, <1>9, <1>10

(* What damage to the header leaves as it was.                             *)
LEMMA DamagedKeeps ==
    ASSUME NEW made, "bytes" \in DOMAIN made, NEW field \in HostFields,
           NEW raw \in Damaged(made, field)
    PROVE  /\ field # "bytes" => raw.bytes = made.bytes
           /\ field = "bytes" =>
                /\ raw.crc = made.crc /\ raw.length = made.length
                /\ \E i \in DOMAIN made.bytes :
                      raw.bytes = [made.bytes EXCEPT ![i] = Flipped(@)]
           /\ field # "valid" => raw.valid = made.valid
           /\ field # "block" => raw.block = made.block
<1>1. CASE field = "magic"
  <2>1. raw = [made EXCEPT !.magic = "KVSSD000"]
    BY <1>1 DEF Damaged
  <2>2. QED
    BY <1>1, <2>1
<1>2. CASE field = "layout"
  <2>1. PICK i \in 1..5, d \in {-1, 1} : raw = [made EXCEPT !.layout[i] = @ + d]
    BY <1>2 DEF Damaged
  <2>2. QED
    BY <1>2, <2>1
<1>3. CASE field = "crc"
  <2>1. raw = [made EXCEPT !.crc = Append(@, 0)]
    BY <1>3 DEF Damaged
  <2>2. QED
    BY <1>3, <2>1
<1>4. CASE field = "bytes"
  <2>1. PICK i \in DOMAIN made.bytes : raw = [made EXCEPT !.bytes[i] = Flipped(@)]
    BY <1>4 DEF Damaged
  <2>2. raw.bytes = [made.bytes EXCEPT ![i] = Flipped(@)]
    BY <2>1
  <2>3. raw.crc = made.crc /\ raw.length = made.length
    BY <2>1
  <2>4. raw.valid = made.valid /\ raw.block = made.block
    BY <2>1
  <2>5. QED
    BY <1>4, <2>2, <2>3, <2>4
<1>5. CASE field \in {"version", "layer", "block", "valid", "length"}
  <2>1. PICK d \in {-1, 1} : raw = [made EXCEPT ![field] = @ + d]
    BY <1>5 DEF Damaged
  <2>2. QED
    BY <1>5, <2>1
<1>6. QED
  BY <1>1, <1>2, <1>3, <1>4, <1>5 DEF HostFields
(* A damaged record that passes the CRC still begins with its payload: no  *)
(* damage to the header but that to the length changes what the CRC is     *)
(* taken over, and none of it changes the bytes.                           *)
LEMMA DamagedBegins ==
    ASSUME NEW s, ScaleCount(s) \in Nat, PackedCount(s) \in Nat, NEW block, Fits(block, s),
           NEW field \in HostFields, NEW raw \in Damaged(EncodeRecord(block, s), field),
           Covered(raw) = raw.crc
    PROVE  Begins(raw, block, s)
<1>1. PICK made : made = EncodeRecord(block, s)
  OBVIOUS
<1>2. "bytes" \in DOMAIN made
  BY <1>1 DEF EncodeRecord
<1>3. /\ Begins(made, block, s) /\ made.crc = Payload(block)
      /\ made.length = PayloadBytes(s) /\ Len(made.bytes) = PayloadBytes(s) + 1
  BY <1>1, EncodedBegins
<1>4. CASE field # "bytes"
  <2>1. raw.bytes = made.bytes
    BY <1>1, <1>2, <1>4, DamagedKeeps
  <2>2. QED
    BY <1>3, <2>1 DEF Begins
<1>5. CASE field = "bytes"
  <2>1. PICK i \in DOMAIN made.bytes : raw.bytes = [made.bytes EXCEPT ![i] = Flipped(@)]
    BY <1>1, <1>2, <1>5, DamagedKeeps
  <2>2. raw.crc = Payload(block) /\ raw.length = PayloadBytes(s)
    BY <1>1, <1>2, <1>3, <1>5, DamagedKeeps
  <2>3. PICK T : made.bytes \in Seq(T)
    BY <1>3 DEF Begins
  <2>4. PICK x : x = Flipped(made.bytes[i])
    OBVIOUS
  <2>5. raw.bytes = [made.bytes EXCEPT ![i] = x]
    BY <2>1, <2>4
  <2>6. made.bytes \in Seq(T \cup {x}) /\ i \in 1..Len(made.bytes)
    BY <2>3, SeqMonotonic
  <2>7. raw.bytes \in Seq(T \cup {x}) /\ Len(raw.bytes) = Len(made.bytes)
    BY <2>5, <2>6, ExceptSeq
  <2>8. PayloadBytes(s) \in Nat
    BY PayloadShape
  <2>9. raw.length < Len(raw.bytes)
    BY <1>3, <2>2, <2>7, <2>8
  <2>10. Covered(raw) = SubSeq(raw.bytes, 1, PayloadBytes(s))
    BY <2>2, <2>9 DEF Covered
  <2>11. PayloadBytes(s) <= Len(raw.bytes)
    BY <1>3, <2>7, <2>8
  <2>12. QED
    BY <2>2, <2>7, <2>10, <2>11 DEF Begins
<1>6. QED
  BY <1>4, <1>5

(***************************************************************************)
(* Block selectors.                                                        *)
(***************************************************************************)
ValuesOf(s) == {s[i] : i \in 1..Len(s)}

(* No value twice.                                                         *)
Distinct(s) == \A i, j \in 1..Len(s) : i # j => s[i] # s[j]

(* dict.fromkeys, seen as the loop it is.                                  *)
LEMMA WithoutRepeatsLoop ==
    ASSUME NEW S, NEW chosen \in Seq(S)
    PROVE  \E kept \in [0..Len(chosen) -> Seq(S)] :
              /\ kept[0] = <<>>
              /\ \A i \in 1..Len(chosen) :
                    kept[i] = IF \E j \in 1..(i - 1) : chosen[j] = chosen[i] THEN kept[i - 1]
                              ELSE Append(kept[i - 1], chosen[i])
              /\ WithoutRepeats(chosen) = kept[Len(chosen)]
<1> DEFINE Seen(i) == \E j \in 1..(i - 1) : chosen[j] = chosen[i]
           Body(g, i) == IF i = 0 THEN <<>>
                         ELSE IF Seen(i) THEN g[i - 1] ELSE Append(g[i - 1], chosen[i])
           Step == [p \in Nat \X Seq(S) |-> IF p[1] \notin 1..Len(chosen) \/ Seen(p[1])
                                           THEN p[2] ELSE Append(p[2], chosen[p[1]])]
           kept == CHOOSE g : g = [i \in 0..Len(chosen) |-> Body(g, i)]
<1>1. Step \in [Nat \X Seq(S) -> Seq(S)]
  <2> HIDE DEF Seen
  <2>1. ASSUME NEW p \in Nat \X Seq(S)
        PROVE  (IF p[1] \notin 1..Len(chosen) \/ Seen(p[1])
                THEN p[2] ELSE Append(p[2], chosen[p[1]])) \in Seq(S)
    <3>1. p[2] \in Seq(S)
      OBVIOUS
    <3>2. p[1] \in 1..Len(chosen) => chosen[p[1]] \in S
      OBVIOUS
    <3>3. QED
      BY <3>1, <3>2, AppendProperties
  <2>2. QED
    BY <2>1
<1>2. PICK g \in [0..Len(chosen) -> Seq(S)] :
          g[0] = <<>> /\ \A i \in 1..Len(chosen) : g[i] = Step[<<i, g[i - 1]>>]
  <2>1. PICK first, n : first = <<>> /\ n = Len(chosen)
    OBVIOUS
  <2>2. first \in Seq(S) /\ n \in Nat
    BY <2>1
  <2> HIDE DEF Step
  <2>3. \E g \in [0..n -> Seq(S)] : Iterates(g, first, Step, n)
    BY ONLY <1>1, <2>2, StepsDefine
  <2>4. QED
    BY <2>1, <2>3 DEF Iterates
<1>3. \A i \in 0..Len(chosen) : g[i] = Body(g, i)
  <2> TAKE i \in 0..Len(chosen)
  <2>1. CASE i = 0
    BY <1>2, <2>1
  <2>2. CASE i # 0
    <3> HIDE DEF Seen
    <3>1. i \in 1..Len(chosen) /\ i - 1 \in 0..Len(chosen)
      BY <2>2
    <3>2. <<i, g[i - 1]>> \in Nat \X Seq(S)
      <4>1. g[i - 1] \in Seq(S)
        BY ONLY <3>1, g \in [0..Len(chosen) -> Seq(S)]
      <4>2. i \in Nat
        BY ONLY <3>1
      <4>3. QED
        BY ONLY <4>1, <4>2
    <3>3. Step[<<i, g[i - 1]>>] = IF Seen(i) THEN g[i - 1] ELSE Append(g[i - 1], chosen[i])
      BY <3>1, <3>2
    <3> HIDE DEF Step
    <3>4. QED
      BY <1>2, <2>2, <3>1, <3>3
  <2>3. QED
    BY <2>1, <2>2
<1>4. g = [i \in 0..Len(chosen) |-> Body(g, i)]
  <2> HIDE DEF Body
  <2>1. QED
    BY <1>3
<1>5. kept = [i \in 0..Len(chosen) |-> Body(kept, i)]
  <2> HIDE DEF Body
  <2>1. QED
    BY <1>4, Zenon
<1>6. WithoutRepeats(chosen) = kept[Len(chosen)]
  BY Zenon DEF WithoutRepeats
<1> HIDE DEF kept
<1> DEFINE T == {i \in 0..Len(chosen) : kept[i] = g[i]}
<1>7. 0 \in T
  BY <1>2, <1>5
<1>8. ASSUME NEW i \in 1..Len(chosen), i - 1 \in T
      PROVE  i \in T
  <2> HIDE DEF Seen
  <2>1. kept[i - 1] = g[i - 1] /\ i \in 0..Len(chosen)
    BY <1>8
  <2>2. kept[i] = Body(kept, i)
    BY <1>5, <2>1
  <2>3. g[i] = Body(g, i)
    BY <1>3, <2>1
  <2>4. i # 0
    OBVIOUS
  <2> HIDE DEF kept
  <2>5. Body(kept, i) = Body(g, i)
    BY <2>1, <2>4
  <2> HIDE DEF Body
  <2>6. QED
    BY <2>1, <2>2, <2>3, <2>5
<1> HIDE DEF T
<1>9. 0..Len(chosen) \subseteq T
  <2>1. Len(chosen) \in Nat
    OBVIOUS
  <2>2. QED
    BY <1>7, <1>8, <2>1, UpTo
<1>10. WithoutRepeats(chosen) = g[Len(chosen)]
  BY <1>6, <1>9 DEF T
<1>11. ASSUME NEW i \in 1..Len(chosen)
       PROVE  g[i] = IF Seen(i) THEN g[i - 1] ELSE Append(g[i - 1], chosen[i])
  <2>1. i \in 0..Len(chosen) /\ i # 0
    OBVIOUS
  <2> HIDE DEF Seen
  <2>2. QED
    BY <1>3, <2>1
<1>12. QED
  BY <1>2, <1>10, <1>11

(* RecentSinkBlocks reads what it chose, all of it, and each of it once    *)
(* (selectors.py).                                                         *)
THEOREM WithoutRepeatsKeeps ==
    ASSUME NEW S, NEW chosen \in Seq(S)
    PROVE  /\ WithoutRepeats(chosen) \in Seq(S)
           /\ ValuesOf(WithoutRepeats(chosen)) = ValuesOf(chosen)
           /\ Distinct(WithoutRepeats(chosen))
<1>1. PICK n \in Nat : n = Len(chosen)
  OBVIOUS
<1>2. PICK kept \in [0..n -> Seq(S)] :
          /\ kept[0] = <<>>
          /\ \A i \in 1..n :
                kept[i] = IF \E j \in 1..(i - 1) : chosen[j] = chosen[i] THEN kept[i - 1]
                          ELSE Append(kept[i - 1], chosen[i])
          /\ WithoutRepeats(chosen) = kept[n]
  BY <1>1, WithoutRepeatsLoop
<1> DEFINE First(i) == {chosen[j] : j \in 1..i}
           T == {i \in 0..n : ValuesOf(kept[i]) = First(i) /\ Distinct(kept[i])}
<1>3. 0 \in T
  BY <1>2 DEF ValuesOf, Distinct
<1>4. ASSUME NEW i \in 1..n, i - 1 \in T
      PROVE  i \in T
  <2>1. PICK s \in Seq(S) : s = kept[i - 1]
    <3>1. i - 1 \in 0..n
      OBVIOUS
    <3>2. QED
      BY <3>1
  <2>2. ValuesOf(s) = First(i - 1) /\ Distinct(s)
    BY <1>4, <2>1
  <2>3. First(i) = First(i - 1) \cup {chosen[i]}
    OBVIOUS
  <2>4. i \in 0..n
    OBVIOUS
  <2>5. CASE \E j \in 1..(i - 1) : chosen[j] = chosen[i]
    <3>1. kept[i] = s
      BY <1>2, <2>1, <2>5
    <3>2. chosen[i] \in First(i - 1)
      BY <2>5
    <3> HIDE DEF First
    <3>3. QED
      BY <2>2, <2>3, <2>4, <3>1, <3>2
  <2>6. CASE ~ \E j \in 1..(i - 1) : chosen[j] = chosen[i]
    <3>1. PICK x \in S : x = chosen[i]
      BY <1>1
    <3>2. x \notin ValuesOf(s)
      BY <2>2, <2>6, <3>1
    <3>3. PICK t : t = Append(s, x)
      OBVIOUS
    <3>4. /\ t \in Seq(S) /\ Len(t) = Len(s) + 1
          /\ \A j \in 1..Len(s) : t[j] = s[j]
          /\ t[Len(s) + 1] = x
      BY <3>3, AppendProperties
    <3>5. kept[i] = t
      BY <1>2, <2>1, <2>6, <3>1, <3>3
    <3>6. PICK l \in Nat : l = Len(s)
      OBVIOUS
    <3>7. ValuesOf(t) = ValuesOf(s) \cup {x}
      <4>1. Len(t) = l + 1 /\ t[l + 1] = x /\ \A j \in 1..l : t[j] = s[j]
        BY <3>4, <3>6
      <4>2. ValuesOf(t) = {t[j] : j \in 1..(l + 1)} /\ ValuesOf(s) = {s[j] : j \in 1..l}
        BY <3>6, <4>1 DEF ValuesOf
      <4>3. ASSUME NEW j \in 1..(l + 1)
            PROVE  t[j] \in ValuesOf(s) \cup {x}
        <5>1. CASE j = l + 1
          BY <4>1, <5>1
        <5>2. CASE j # l + 1
          <6>1. j \in 1..l
            BY <5>2
          <6>2. QED
            BY <4>1, <4>2, <6>1
        <5>3. QED
          BY <5>1, <5>2
      <4>4. ASSUME NEW j \in 1..l
            PROVE  s[j] \in ValuesOf(t)
        <5>1. j \in 1..(l + 1)
          OBVIOUS
        <5>2. QED
          BY <4>1, <4>2, <5>1
      <4>5. x \in ValuesOf(t)
        <5>1. l + 1 \in 1..(l + 1)
          OBVIOUS
        <5>2. QED
          BY <4>1, <4>2, <5>1
      <4>6. QED
        BY <4>2, <4>3, <4>4, <4>5
    <3>8. Distinct(t)
      <4>1. \A j \in 1..l : s[j] # x
        BY <3>2, <3>6 DEF ValuesOf
      <4>2. \A j, k \in 1..l : j # k => s[j] # s[k]
        BY <2>2, <3>6 DEF Distinct
      <4>3. Len(t) = l + 1 /\ t[l + 1] = x /\ \A j \in 1..l : t[j] = s[j]
        BY <3>4, <3>6
      <4>4. ASSUME NEW j \in 1..(l + 1), NEW k \in 1..(l + 1), j # k
            PROVE  t[j] # t[k]
        <5>1. CASE j # l + 1 /\ k # l + 1
          <6>1. j \in 1..l /\ k \in 1..l
            BY <5>1
          <6>2. QED
            BY <4>2, <4>3, <4>4, <6>1
        <5>2. CASE j = l + 1
          <6>1. k \in 1..l
            BY <4>4, <5>2
          <6>2. QED
            BY <4>1, <4>3, <5>2, <6>1
        <5>3. CASE k = l + 1
          <6>1. j \in 1..l
            BY <4>4, <5>3
          <6>2. QED
            BY <4>1, <4>3, <5>3, <6>1
        <5>4. QED
          BY <5>1, <5>2, <5>3
      <4>5. QED
        BY <4>3, <4>4 DEF Distinct
    <3> HIDE DEF First
    <3>9. QED
      BY <2>2, <2>3, <2>4, <3>1, <3>5, <3>7, <3>8
  <2>7. QED
    BY <2>5, <2>6
<1> HIDE DEF T
<1>5. 0..n \subseteq T
  BY <1>3, <1>4, UpTo
<1>6. n \in T /\ n \in 0..n
  BY <1>5
<1>7. ValuesOf(kept[n]) = First(n) /\ Distinct(kept[n])
  BY <1>6 DEF T
<1>8. First(n) = ValuesOf(chosen)
  BY <1>1 DEF ValuesOf
<1>9. QED
  BY <1>2, <1>6, <1>7, <1>8

(* The ids of a store of n records, as blocks_for_layer returns them.      *)
Ids(n) == [b \in 1..n |-> b - 1]

(* A selector gives ids of the store, each once (selectors.py).            *)
LEMMA SelectGivesIds ==
    ASSUME NEW n \in Nat, NEW selector \in Selectors
    PROVE  /\ Select(selector, Ids(n)) \in Seq(0..(n - 1))
           /\ Distinct(Select(selector, Ids(n)))
<1>1. PICK ids : ids = Ids(n)
  OBVIOUS
<1>2. ids \in Seq(0..(n - 1)) /\ Len(ids) = n /\ \A i \in 1..n : ids[i] = i - 1
  <2>1. ids \in [1..n -> 0..(n - 1)]
    BY <1>1 DEF Ids
  <2>2. QED
    BY <1>1, <2>1 DEF Ids
<1>3. Distinct(ids)
  BY <1>2 DEF Distinct
<1>4. CASE selector = <<>>
  BY <1>1, <1>2, <1>3, <1>4 DEF Select, AllBlocks
<1>5. CASE selector # <<>> /\ SelectorAccepts(selector[1], selector[2])
  <2>1. PICK sink \in Nat, recent \in Nat : sink = selector[1] /\ recent = selector[2]
    BY <1>5, DataAssumption DEF SelectorAccepts
  <2>2. FirstOf(ids, sink) \in Seq(0..(n - 1))
    <3>1. PICK m \in 0..n : m = IF sink < Len(ids) THEN sink ELSE Len(ids)
      BY <1>2
    <3>2. \A i \in 1..m : ids[i] \in 0..(n - 1)
      BY <1>2
    <3>3. QED
      BY <3>1, <3>2, SubSeqProperties, SMTT(30) DEF FirstOf
  <2>3. LastOf(ids, recent) \in Seq(0..(n - 1))
    <3>1. CASE recent = 0
      BY <3>1 DEF LastOf
    <3>2. CASE recent # 0
      <4>1. PICK m \in Int : m = (IF recent < n THEN n - recent + 1 ELSE 1) /\ m > 0
        <5>1. CASE recent < n
          BY <5>1
        <5>2. CASE ~ (recent < n)
          BY <5>2
        <5>3. QED
          BY <5>1, <5>2
      <4>2. \A i \in m..n : ids[i] \in 0..(n - 1)
        BY <1>2, <4>1
      <4>3. LastOf(ids, recent) = SubSeq(ids, m, n)
        BY <1>2, <3>2, <4>1 DEF LastOf
      <4>4. QED
        BY <4>2, <4>3, SubSeqProperties, SMTT(30)
    <3>3. QED
      BY <3>1, <3>2
  <2>4. PICK chosen : chosen = FirstOf(ids, sink) \o LastOf(ids, recent)
    OBVIOUS
  <2>5. chosen \in Seq(0..(n - 1))
    BY <2>2, <2>3, <2>4, ConcatProperties, SMTT(30)
  <2>6. Select(selector, ids) = WithoutRepeats(chosen)
    BY <1>5, <2>1, <2>4 DEF Select, RecentSinkBlocks
  <2>7. QED
    BY <1>1, <2>5, <2>6, WithoutRepeatsKeeps
<1>6. CASE selector # <<>> /\ ~SelectorAccepts(selector[1], selector[2])
  <2>1. Select(selector, ids) = <<>>
    BY <1>6 DEF Select
  <2>2. QED
    BY <1>1, <2>1 DEF Distinct
<1>7. QED
  BY <1>4, <1>5, <1>6

(* What create accepts has sizes that divide as records need.              *)
LEMMA AcceptedSized ==
    ASSUME NEW s \in Specs, CreateAccepts(s)
    PROVE  Sized(s)
<1>1. s \in SpecFields
  BY DataAssumption
<1>2. ValidSpec(s) /\ QuantizeAccepts(s.head_dim, s.bits, s.group_size)
  BY DEF CreateAccepts
<1>3. QED
  BY <1>1, <1>2 DEF SpecFields, ValidSpec, QuantizeAccepts, Sized

(* A block that create cuts fits the spec it was cut for.                  *)
LEMMA AcceptedFits ==
    ASSUME NEW s \in Specs, CreateAccepts(s), NEW k, NEW v, NEW b
    PROVE  /\ ScaleCount(s) \in Nat /\ PackedCount(s) \in Nat
           /\ Fits(CreateBlock(k, v, 0, b, s), s)
<1>1. Sized(s)
  BY AcceptedSized
<1>2. ScaleCount(s) \in Nat /\ PackedCount(s) \in Nat
  BY <1>1, SpecCounts
<1>3. /\ Quantized(CreateBlock(k, v, 0, b, s).key, ScaleCount(s), PackedCount(s))
      /\ Quantized(CreateBlock(k, v, 0, b, s).value, ScaleCount(s), PackedCount(s))
  BY <1>1, BlockShape DEF CreateBlock
<1>4. QED
  BY <1>2, <1>3 DEF Fits

(* Readers of the same layout cut a record alike.                          *)
LEMMA SameLayout ==
    ASSUME NEW s, NEW r, Layout(r) = Layout(s)
    PROVE  ScaleCount(r) = ScaleCount(s) /\ PackedCount(r) = PackedCount(s)
<1>1. /\ r.bits = s.bits /\ r.block_tokens = s.block_tokens /\ r.kv_heads = s.kv_heads
      /\ r.head_dim = s.head_dim /\ r.group_size = s.group_size
  BY DEF Layout
<1>2. QED
  BY <1>1 DEF ScaleCount, PackedCount, PackedDim

(* What became of the record of the block on the medium.                   *)
OnMedium(raw, made, field) ==
    \/ raw = made /\ field = "none"
    \/ field \in HostFields /\ raw \in Damaged(made, field)

(* What was decoded is the block, but for what damage to the fields that   *)
(* no check covers may change.                                             *)
Gives(d, block, field) ==
    /\ d.key = block.key /\ d.value = block.value
    /\ field \notin {"layer", "block", "valid"} =>
         d.valid = block.valid /\ d.block = block.block

(* A checked read of a record that was damaged in at most one field, or of *)
(* an undamaged one by a store of any accepted spec, gives the tensors of  *)
(* the block if it gives anything (format.py: decode_record).          *)
LEMMA CheckedReadKeeps ==
    ASSUME NEW s \in Specs, CreateAccepts(s), NEW r, NEW k, NEW v, NEW b, NEW field, NEW raw,
           OnMedium(raw, EncodeRecord(CreateBlock(k, v, 0, b, s), s), field),
           r = s \/ field = "none", DecodeRecord(raw, r, TRUE).ok
    PROVE  Gives(DecodeRecord(raw, r, TRUE), CreateBlock(k, v, 0, b, s), field)
<1>0. PICK block, d : block = CreateBlock(k, v, 0, b, s) /\ d = DecodeRecord(raw, r, TRUE)
  OBVIOUS
<1>1. ScaleCount(s) \in Nat /\ PackedCount(s) \in Nat /\ Fits(block, s)
  BY <1>0, AcceptedFits
<1>2. HeaderFits(raw, r) /\ Covered(raw) = raw.crc
  BY <1>0 DEF DecodeRecord, Refused
<1>3. /\ d.key = KeyView(raw, r) /\ d.value = ValueView(raw, r)
      /\ d.valid = raw.valid /\ d.block = raw.block
  BY <1>0, <1>2 DEF DecodeRecord
<1>4. PICK made : made = EncodeRecord(block, s)
  OBVIOUS
<1>5. /\ made.valid = block.valid /\ made.block = block.block /\ made.layout = Layout(s)
      /\ "bytes" \in DOMAIN made
  BY <1>4 DEF EncodeRecord
<1> DEFINE Given == /\ d.key = block.key /\ d.value = block.value
                    /\ field \notin {"layer", "block", "valid"} =>
                         d.valid = block.valid /\ d.block = block.block
<1>6. ASSUME raw = made, field = "none"
      PROVE  Given
  <2>1. Begins(raw, block, s)
    BY <1>1, <1>4, <1>6, EncodedBegins
  <2>2. Layout(r) = Layout(s)
    BY <1>2, <1>5, <1>6 DEF HeaderFits
  <2>3. ScaleCount(r) = ScaleCount(s) /\ PackedCount(r) = PackedCount(s)
    BY <2>2, SameLayout
  <2>4. KeyView(raw, r) = block.key /\ ValueView(raw, r) = block.value
    BY <1>1, <2>1, <2>3, ViewsOf
  <2>5. QED
    BY <1>3, <1>5, <1>6, <2>4
<1>7. ASSUME field \in HostFields, raw \in Damaged(made, field)
      PROVE  Given
  <2>1. r = s
    BY <1>7 DEF HostFields
  <2>2. Begins(raw, block, s)
    BY <1>1, <1>2, <1>4, <1>7, DamagedBegins
  <2>3. KeyView(raw, r) = block.key /\ ValueView(raw, r) = block.value
    BY <1>1, <2>1, <2>2, ViewsOf
  <2>4. field \notin {"valid", "block"} => raw.valid = made.valid /\ raw.block = made.block
    BY <1>5, <1>7, DamagedKeeps
  <2>5. QED
    BY <1>3, <1>5, <2>3, <2>4
<1>8. QED
  <2>1. Given
    BY <1>0, <1>4, <1>6, <1>7 DEF OnMedium
  <2>2. Gives(d, block, field)
    BY <2>1 DEF Gives
  <2>3. QED
    BY <1>0, <2>2

(* It refuses no sound record of its layout.                               *)
LEMMA CheckedReadAccepts ==
    ASSUME NEW s \in Specs, CreateAccepts(s), NEW r, Layout(r) = Layout(s),
           NEW k, NEW v, NEW b
    PROVE  DecodeRecord(EncodeRecord(CreateBlock(k, v, 0, b, s), s), r, TRUE).ok
<1>1. PICK block : block = CreateBlock(k, v, 0, b, s)
  OBVIOUS
<1>2. PICK raw : raw = EncodeRecord(block, s)
  OBVIOUS
<1>3. Covered(raw) = raw.crc
  <2>1. ScaleCount(s) \in Nat /\ PackedCount(s) \in Nat /\ Fits(block, s)
    BY <1>1, AcceptedFits
  <2>2. QED
    BY <1>2, <2>1, EncodedBegins
<1>4. HeaderFits(raw, r)
  BY <1>2 DEF HeaderFits, EncodeRecord
<1>5. QED
  BY <1>1, <1>2, <1>3, <1>4 DEF DecodeRecord

(***************************************************************************)
(* The vLLM lane.                                                          *)
(***************************************************************************)
BlockFields == {"magic", "version", "bits", "dtype", "group", "elements", "length", "crc",
                "bytes", "cut"}

(* The payload of the record of a vLLM block.                              *)
VllmBytes(slot, c) ==
    LET q == Quantize(slot, c.bits, c.group_size)
    IN  ScaleBytes(q.scales) \o q.packed

(* A slot that encodes: whole groups, which are whole bytes.               *)
SlotFits(slot, c) ==
    /\ slot \in Seq(Int) /\ c.bits \in {2, 4} /\ c.group_size \in Nat \ {0}
    /\ Len(slot) % c.group_size = 0 /\ c.group_size % PerByte(c.bits) = 0
    /\ c.dtype \in Dtypes
    /\ Len(slot) * Width(c.dtype) = c.block_bytes

(* A whole number of groups is a whole number of bytes.                    *)
LEMMA GroupsAreBytes ==
    ASSUME NEW n \in Nat, NEW group \in Nat \ {0}, NEW bits \in {2, 4},
           n % group = 0, group % PerByte(bits) = 0
    PROVE  /\ n \div PerByte(bits) \in Nat /\ n \div group \in Nat
           /\ (n * bits) \div 8 = n \div PerByte(bits)
           /\ n = group * (n \div group)
<1>1. PICK p \in {2, 4} : p = PerByte(bits) /\ p * bits = 8
  BY DEF PerByte
<1>2. PICK q \in Nat : q = n \div group /\ n = group * q
  BY WholeGroups
<1>3. PICK j \in Nat : group = p * j
  <2>1. p \in Nat \ {0} /\ group \in Nat /\ group % p = 0
    BY <1>1
  <2>2. group \div p \in Nat /\ group = p * (group \div p)
    BY ONLY <2>1, WholeGroups
  <2>3. QED
    BY <2>2
<1>4. PICK i \in Nat : i = j * q
  OBVIOUS
<1>5. n = p * i
  <2>1. p * j * q = p * (j * q)
    <3>1. CASE p = 2
      BY ONLY <3>1, j \in Nat, q \in Nat
    <3>2. CASE p = 4
      BY ONLY <3>2, j \in Nat, q \in Nat
    <3>3. QED
      BY <3>1, <3>2
  <2>2. QED
    BY ONLY <1>2, <1>3, <1>4, <2>1
<1>6. n \div p = i /\ (n * bits) \div 8 = i
  <2>1. CASE p = 2
    <3>1. bits = 4 /\ n = 2 * i
      BY <1>1, <1>5, <2>1
    <3>2. QED
      BY <2>1, <3>1
  <2>2. CASE p = 4
    <3>1. bits = 2 /\ n = 4 * i
      BY <1>1, <1>5, <2>2
    <3>2. QED
      BY <2>2, <3>1
  <2>3. QED
    BY <2>1, <2>2
<1>7. QED
  BY <1>1, <1>2, <1>6

(* The record of a block holds its scales and then its bytes.              *)
LEMMA VllmShape ==
    ASSUME NEW slot, NEW c, SlotFits(slot, c),
           NEW q, q = Quantize(slot, c.bits, c.group_size)
    PROVE  LET n == 2 * (Len(slot) \div c.group_size)
               l == n + Len(slot) \div PerByte(c.bits)
               p == VllmBytes(slot, c)
           IN  /\ \E S : 0 \in S /\ p \in Seq(S)
               /\ n \in Nat /\ l \in Nat /\ n <= l /\ Len(p) = l
               /\ q = [scales |-> q.scales, packed |-> q.packed]
               /\ ScalesOf(SubSeq(p, 1, n)) = q.scales
               /\ SubSeq(p, n + 1, l) = q.packed
<1>1. PICK g \in Nat, m \in Nat : /\ g = Len(slot) \div c.group_size
                                  /\ m = Len(slot) \div PerByte(c.bits)
  BY GroupsAreBytes DEF SlotFits
<1>2. Quantized(q, g, m)
  BY <1>1, QuantizeShape DEF SlotFits
<1>3. PICK S : /\ q = [scales |-> q.scales, packed |-> q.packed] /\ 0 \in S
               /\ q.scales \in Seq(S) /\ Len(q.scales) = g
               /\ q.packed \in Seq(S) /\ Len(q.packed) = m
  BY <1>2 DEF Quantized
<1>4. PICK a : a = ScaleBytes(q.scales)
  OBVIOUS
<1>5. PICK n \in Nat, l \in Nat : n = 2 * g /\ l = n + m
  OBVIOUS
<1>6. a \in Seq(S) /\ Len(a) = n
  BY <1>3, <1>4, <1>5, ScaleBytesShape
<1>7. PICK b \in Seq(S) : b = q.packed /\ Len(b) = m
  BY <1>3
<1>8. PICK p : p = a \o b
  OBVIOUS
<1>9. p = VllmBytes(slot, c)
  BY <1>4, <1>7, <1>8 DEF VllmBytes
<1>10. Joins(p, a, b, n, m, S)
  BY ONLY <1>6, <1>7, <1>8, JoinIs
<1>11. p \in Seq(S) /\ Len(p) = l
  BY <1>5, <1>10 DEF Joins
<1>12. SubSeq(p, 1, n) = a
  <2>1. \A i \in 1..Len(a) : p[0 + i] = a[i]
    BY <1>6, <1>10 DEF Joins
  <2>2. n = 0 + Len(a) /\ n <= Len(p) /\ 0 \in Nat
    BY <1>5, <1>6, <1>11
  <2>3. SubSeq(p, 0 + 1, n) = a
    BY ONLY <1>6, <1>11, <2>1, <2>2, PartIs, n \in Nat
  <2>4. QED
    BY <2>3
<1>13. SubSeq(p, n + 1, l) = b
  <2>1. \A i \in 1..Len(b) : p[n + i] = b[i]
    BY <1>7, <1>10 DEF Joins
  <2>2. l = n + Len(b) /\ l <= Len(p)
    BY <1>5, <1>7, <1>11
  <2>3. QED
    BY ONLY <1>7, <1>11, <2>1, <2>2, PartIs, n \in Nat, l \in Nat, b \in Seq(S)
<1>14. ScalesOf(a) = q.scales
  BY <1>3, <1>4, ScaleRoundTrip
<1>15. n <= l
  BY <1>5
<1>16. QED
  BY <1>1, <1>3, <1>5, <1>7, <1>9, <1>11, <1>12, <1>13, <1>14, <1>15, Zenon

(* An undamaged record: what a load finds in it.                           *)
LEMMA VllmEncoded ==
    ASSUME NEW slot, NEW c, SlotFits(slot, c), NEW raw, raw = EncodeVllm(slot, c)
    PROVE  /\ raw.ok /\ raw.magic = "KVVLLM02" /\ raw.version = 1 /\ raw.bits = c.bits
           /\ raw.dtype = c.dtype /\ raw.group = c.group_size /\ raw.elements = Len(slot)
           /\ raw.length = Len(VllmBytes(slot, c)) /\ raw.crc = VllmBytes(slot, c)
           /\ {"bytes", "crc"} \subseteq DOMAIN raw
           /\ VllmPayload(raw) = VllmBytes(slot, c)
<1>1. c.block_bytes % Width(c.dtype) = 0 /\ QuantizeAccepts(Len(slot), c.bits, c.group_size)
  <2>1. PICK e \in Nat : e = Len(slot)
    BY DEF SlotFits
  <2>2. Width(c.dtype) \in {2, 4} /\ e * Width(c.dtype) = c.block_bytes
    BY <2>1 DEF SlotFits, Width
  <2>3. (e * Width(c.dtype)) % Width(c.dtype) = 0
    <3>1. (e * 2) % 2 = 0 /\ (e * 4) % 4 = 0
      OBVIOUS
    <3>2. QED
      BY <2>2, <3>1
  <2>4. QED
    BY <2>2, <2>3 DEF SlotFits, QuantizeAccepts
<1>2. PICK p : p = VllmBytes(slot, c)
  OBVIOUS
<1>3. raw = [ok |-> TRUE, magic |-> "KVVLLM02", version |-> 1, bits |-> c.bits,
             dtype |-> c.dtype, group |-> c.group_size, elements |-> Len(slot),
             length |-> Len(p), crc |-> p, bytes |-> p \o <<0>>]
  BY <1>1, <1>2, Zenon DEF EncodeVllm, VllmBytes
<1>4. PICK S : 0 \in S /\ p \in Seq(S)
  BY <1>2, VllmShape, Zenon
<1>5. PICK l \in Nat : l = Len(p)
  BY <1>4
<1>6. PICK bytes : bytes = raw.bytes
  OBVIOUS
<1>7. Joins(bytes, p, <<0>>, l, 1, S)
  <2>1. <<0>> \in Seq(S) /\ Len(<<0>>) = 1
    BY <1>4
  <2>2. bytes = p \o <<0>>
    BY <1>3, <1>6
  <2>3. QED
    BY ONLY <1>4, <1>5, <2>1, <2>2, JoinIs
<1>8. bytes \in Seq(S) /\ Len(bytes) = l + 1
  BY <1>7 DEF Joins
<1>9. SubSeq(bytes, 1, l) = p
  <2>1. \A i \in 1..Len(p) : bytes[0 + i] = p[i]
    BY <1>5, <1>7 DEF Joins
  <2>2. l = 0 + Len(p) /\ l <= Len(bytes) /\ 0 \in Nat
    BY <1>5, <1>8
  <2>3. SubSeq(bytes, 0 + 1, l) = p
    BY ONLY <1>4, <1>8, <2>1, <2>2, PartIs, l \in Nat
  <2>4. QED
    BY <2>3
<1>10. VllmPayload(raw) = p
  <2>1. raw.length < Len(raw.bytes) /\ raw.length = l
    BY <1>3, <1>5, <1>6, <1>8
  <2>2. QED
    BY <1>6, <1>9, <2>1 DEF VllmPayload
<1>11. {"bytes", "crc"} \subseteq DOMAIN raw
  BY <1>3
<1>12. /\ raw.ok /\ raw.magic = "KVVLLM02" /\ raw.version = 1 /\ raw.bits = c.bits
       /\ raw.dtype = c.dtype /\ raw.group = c.group_size /\ raw.elements = Len(slot)
       /\ raw.length = Len(p) /\ raw.crc = p
  BY <1>3
<1>13. QED
  BY <1>2, <1>10, <1>11, <1>12

(* Which fields damage leaves alone.                                       *)
LEMMA BlockDamageKeeps ==
    ASSUME NEW made, "bytes" \in DOMAIN made, NEW field \in BlockFields,
           NEW raw \in Damaged(made, field)
    PROVE  /\ field \notin {"bytes", "cut"} => raw.bytes = made.bytes
           /\ field # "crc" => raw.crc = made.crc
           /\ field # "length" => raw.length = made.length
           /\ field # "dtype" => raw.dtype = made.dtype
           /\ field # "bits" => raw.bits = made.bits
           /\ field # "group" => raw.group = made.group
           /\ field # "elements" => raw.elements = made.elements
           /\ field = "bits" => \E d \in {-1, 1} : raw.bits \in {made.bits + d, made.bits}
           /\ field = "group" => \E d \in {-1, 1} : raw.group \in {made.group + d, made.group}
           /\ field = "elements" =>
                \E d \in {-1, 1} : raw.elements \in {made.elements + d, made.elements}
<1>1. CASE field = "magic"
  <2>1. raw = [made EXCEPT !.magic = "KVSSD000"]
    BY <1>1 DEF Damaged
  <2>2. QED
    BY <1>1, <2>1
<1>2. CASE field = "crc"
  <2>1. raw = [made EXCEPT !.crc = Append(@, 0)]
    BY <1>2 DEF Damaged
  <2>2. QED
    BY <1>2, <2>1
<1>3. CASE field = "bytes"
  <2>1. PICK i \in DOMAIN made.bytes : raw = [made EXCEPT !.bytes[i] = Flipped(@)]
    BY <1>3 DEF Damaged
  <2>2. PICK x : raw = [made EXCEPT !.bytes = x]
    BY <2>1
  <2>3. QED
    BY <1>3, <2>2
<1>4. CASE field = "cut"
  <2>1. PICK n : raw = [made EXCEPT !.bytes = SubSeq(@, 1, n)]
    BY <1>4 DEF Damaged
  <2>2. QED
    BY <1>4, <2>1
<1>5. CASE field = "dtype"
  <2>1. PICK d : raw = [made EXCEPT !.dtype = d]
    BY <1>5 DEF Damaged
  <2>2. QED
    BY <1>5, <2>1
<1>6. CASE field \in {"version", "bits", "group", "elements", "length"}
  <2>1. PICK d \in {-1, 1} : raw = [made EXCEPT ![field] = @ + d]
    BY <1>6 DEF Damaged
  <2>2. QED
    BY <1>6, <2>1
<1>7. QED
  BY <1>1, <1>2, <1>3, <1>4, <1>5, <1>6 DEF BlockFields

(* What became of the record of the block on the medium.                   *)
InSlot(raw, made, field) ==
    \/ raw = made /\ field = "none"
    \/ field \in BlockFields /\ raw \in Damaged(made, field)

(* No elements have no codes, whatever the group.                          *)
LEMMA EmptyDequantize ==
    ASSUME NEW q, Len(q.packed) = 0, NEW bits \in {2, 4}, NEW g, NEW h
    PROVE  Dequantize(q, bits, g) = Dequantize(q, bits, h)
<1>1. PICK codes : codes = UnpackCodes(q.packed, bits)
  OBVIOUS
<1>2. DOMAIN codes = {}
  <2>1. PICK p \in {2, 4} : p = PerByte(bits)
    BY DEF PerByte
  <2>2. DOMAIN codes = 1..(0 * p)
    BY <1>1, <2>1 DEF UnpackCodes
  <2>3. QED
    BY <2>1, <2>2
<1>3. QED
  BY <1>1, <1>2 DEF Dequantize

(* Of another group size a record promises another length, unless it has   *)
(* no elements.                                                            *)
LEMMA GroupsTell ==
    ASSUME NEW e \in Nat, NEW g \in Nat \ {0}, NEW h \in Nat \ {0},
           e % g = 0, e % h = 0, e \div g = e \div h
    PROVE  g = h \/ e = 0
<1>1. PICK a \in Nat : a = e \div g
  BY WholeGroups
<1>2. e = g * a /\ e = h * a
  BY <1>1, WholeGroups
<1>3. CASE a = 0
  BY <1>2, <1>3
<1>4. CASE a # 0
  BY ONLY <1>2, <1>4, a \in Nat, g \in Nat, h \in Nat
<1>5. QED
  BY <1>3, <1>4

(* What was loaded is the block that was stored, of its dtype unless that  *)
(* was damaged.                                                            *)
Loads(d, slot, c, field) ==
    /\ d.values = ToDtype(Dequantize(Quantize(slot, c.bits, c.group_size), c.bits, c.group_size),
                          d.dtype)
    /\ field # "dtype" => d.dtype = c.dtype

(* A load of a record of which at most one field was damaged gives the     *)
(* block that was stored, if it gives anything (vllm_codec.py:              *)
(* decode_vllm_block).                                                     *)
LEMMA LoadKeeps ==
    ASSUME NEW slot, NEW c, SlotFits(slot, c), NEW field, NEW raw,
           InSlot(raw, EncodeVllm(slot, c), field), DecodeVllm(raw, c.block_bytes).ok
    PROVE  Loads(DecodeVllm(raw, c.block_bytes), slot, c, field)
<1>0. PICK d : d = DecodeVllm(raw, c.block_bytes)
  OBVIOUS
<1>1. PICK made : made = EncodeVllm(slot, c)
  OBVIOUS
<1>2. PICK p : p = VllmBytes(slot, c)
  OBVIOUS
<1>3. PICK e \in Nat : e = Len(slot)
  BY DEF SlotFits
<1>4. PICK g \in Nat \ {0} : g = c.group_size
  BY DEF SlotFits
<1>5. PICK bits \in {2, 4} : bits = c.bits
  BY DEF SlotFits
<1>6. /\ raw.dtype \in Dtypes /\ VllmPayloadIntact(raw)
      /\ VllmLayoutFits(raw, c.block_bytes)
  BY <1>0 DEF DecodeVllm, Rejected
<1>7. /\ made.bits = bits /\ made.dtype = c.dtype /\ made.group = g /\ made.elements = e
      /\ made.length = Len(p) /\ made.crc = p /\ "bytes" \in DOMAIN made
      /\ VllmPayload(made) = p
  BY <1>1, <1>2, <1>3, <1>4, <1>5, VllmEncoded
<1>8. /\ field \notin {"bytes", "cut"} => raw.bytes = made.bytes
      /\ field # "crc" => raw.crc = made.crc
      /\ field # "length" => raw.length = made.length
      /\ field # "dtype" => raw.dtype = made.dtype
      /\ field # "bits" => raw.bits = made.bits
      /\ field # "group" => raw.group = made.group
      /\ field # "elements" => raw.elements = made.elements
      /\ field = "bits" => \E x \in {-1, 1} : raw.bits \in {made.bits + x, made.bits}
      /\ field = "group" => \E x \in {-1, 1} : raw.group \in {made.group + x, made.group}
      /\ field = "elements" =>
            \E x \in {-1, 1} : raw.elements \in {made.elements + x, made.elements}
  <2>1. CASE raw = made /\ field = "none"
    BY <2>1
  <2>2. CASE field \in BlockFields /\ raw \in Damaged(made, field)
    BY <1>7, <2>2, BlockDamageKeeps
  <2>3. QED
    BY <1>1, <2>1, <2>2 DEF InSlot
<1>9. VllmPayload(raw) = p /\ raw.length = Len(p)
  <2>1. CASE field = "crc"
    <3>1. raw.bytes = made.bytes /\ raw.length = made.length
      BY <1>8, <2>1
    <3>2. QED
      BY <1>7, <3>1 DEF VllmPayload
  <2>2. CASE field # "crc"
    BY <1>6, <1>7, <1>8, <2>2 DEF VllmPayloadIntact
  <2>3. QED
    BY <2>1, <2>2
<1>10. raw.bits = bits
  <2>1. raw.bits \in {2, 4}
    BY <1>6 DEF VllmLayoutFits
  <2>2. CASE field = "bits"
    BY <1>7, <1>8, <2>1, <2>2
  <2>3. CASE field # "bits"
    BY <1>7, <1>8, <2>3
  <2>4. QED
    BY <2>2, <2>3
<1>11. raw.elements = e
  <2>1. CASE field = "elements"
    <3>1. PICK x \in {e - 1, e, e + 1} : x = raw.elements
      BY <1>7, <1>8, <2>1
    <3>2. PICK w \in {2, 4} : w = Width(c.dtype)
      BY DEF Width
    <3>3. c.block_bytes = x * w
      BY <1>6, <1>7, <1>8, <2>1, <3>1, <3>2 DEF VllmLayoutFits
    <3>4. c.block_bytes = e * w
      BY <1>3, <3>2 DEF SlotFits
    <3>5. QED
      BY <3>1, <3>2, <3>3, <3>4
  <2>2. CASE field # "elements"
    BY <1>7, <1>8, <2>2
  <2>3. QED
    BY <2>1, <2>2
<1>12. PICK h \in Nat \ {0} : h = raw.group
  <2>1. CASE field = "group"
    <3>1. raw.group \in {g - 1, g, g + 1}
      BY <1>7, <1>8, <2>1
    <3>2. raw.group > 0
      BY <1>6 DEF VllmLayoutFits
    <3>3. QED
      BY <3>1, <3>2
  <2>2. CASE field # "group"
    BY <1>7, <1>8, <2>2
  <2>3. QED
    BY <2>1, <2>2
<1>13. PICK m \in Nat : /\ m = e \div PerByte(bits) /\ (e * bits) \div 8 = m
                        /\ e \div g \in Nat
  <2>1. e % g = 0 /\ g % PerByte(bits) = 0
    BY <1>3, <1>4, <1>5 DEF SlotFits
  <2>2. QED
    BY <2>1, GroupsAreBytes
<1>14. Len(p) = 2 * (e \div g) + m
  BY <1>2, <1>3, <1>4, <1>5, <1>13, VllmShape
<1>15. e \div h = e \div g /\ e % h = 0 /\ e % g = 0
  <2>1. 2 * (e \div h) + m = Len(p) /\ e % h = 0
    BY <1>6, <1>9, <1>10, <1>11, <1>12, <1>13 DEF VllmLayoutFits
  <2>2. e % g = 0
    BY <1>3, <1>4 DEF SlotFits
  <2>3. e \div h \in Int
    OBVIOUS
  <2>4. QED
    BY <1>13, <1>14, <2>1, <2>2, <2>3
<1>16. PICK q : q = Quantize(slot, c.bits, c.group_size)
  OBVIOUS
<1>17. PICK n : n = 2 * (e \div g)
  OBVIOUS
<1>18. /\ q = [scales |-> q.scales, packed |-> q.packed]
       /\ ScalesOf(SubSeq(p, 1, n)) = q.scales
       /\ SubSeq(p, n + 1, Len(p)) = q.packed
  BY <1>2, <1>3, <1>4, <1>14, <1>16, <1>17, <1>5, <1>13, VllmShape, Zenon
<1>19. d.dtype = raw.dtype /\ d.values = ToDtype(Dequantize(q, bits, h), raw.dtype)
  <2>1. PICK r : r = [scales |-> ScalesOf(SubSeq(p, 1, n)),
                      packed |-> SubSeq(p, n + 1, Len(p))]
    OBVIOUS
  <2>2. PICK v : v = ToDtype(Dequantize(r, bits, h), raw.dtype)
    OBVIOUS
  <2>3. d = [ok |-> TRUE, dtype |-> raw.dtype, values |-> v]
    <3>1. 2 * (raw.elements \div raw.group) = n
      BY <1>11, <1>12, <1>15, <1>17
    <3>2. d # Rejected
      BY <1>0 DEF Rejected
    <3>3. QED
      BY <1>0, <1>9, <1>10, <1>12, <2>1, <2>2, <3>1, <3>2, Zenon DEF DecodeVllm
  <2>4. r = q
    BY <1>18, <2>1
  <2>5. d.dtype = raw.dtype /\ d.values = v
    BY ONLY <2>3
  <2>6. QED
    BY <2>2, <2>4, <2>5
<1>20. Dequantize(q, bits, h) = Dequantize(q, bits, g)
  <2>1. CASE e = 0
    <3>1. Quantized(q, 0, 0)
      <4>1. Len(slot) \div c.group_size = 0 /\ Len(slot) \div PerByte(c.bits) = 0
        <5>1. PerByte(c.bits) \in {2, 4}
          BY <1>5 DEF PerByte
        <5>2. 0 \div g = 0 /\ 0 \div PerByte(c.bits) = 0
          BY <5>1
        <5>3. QED
          BY <1>3, <1>4, <2>1, <5>2
      <4>2. QED
        BY <1>3, <1>16, <4>1, QuantizeShape DEF SlotFits
    <3>2. Len(q.packed) = 0
      BY <3>1 DEF Quantized
    <3>3. QED
      BY <3>2, EmptyDequantize
  <2>2. CASE g = h
    BY <2>2
  <2>3. QED
    BY <1>15, <2>1, <2>2, GroupsTell
<1>21. QED
  BY <1>0, <1>4, <1>5, <1>7, <1>8, <1>16, <1>19, <1>20 DEF Loads

(* A load by a server of the namespace refuses no sound record.            *)
LEMMA LoadAccepts ==
    ASSUME NEW slot, NEW c, SlotFits(slot, c)
    PROVE  DecodeVllm(EncodeVllm(slot, c), c.block_bytes).ok
<1>1. PICK raw : raw = EncodeVllm(slot, c)
  OBVIOUS
<1>2. PICK p : p = VllmBytes(slot, c)
  OBVIOUS
<1>3. PICK e \in Nat : e = Len(slot)
  BY DEF SlotFits
<1>4. PICK g \in Nat \ {0} : g = c.group_size
  BY DEF SlotFits
<1>5. PICK bits \in {2, 4} : bits = c.bits
  BY DEF SlotFits
<1>6. /\ raw.magic = "KVVLLM02" /\ raw.version = 1
      /\ raw.bits = bits /\ raw.dtype = c.dtype /\ raw.group = g /\ raw.elements = e
      /\ raw.length = Len(p) /\ raw.crc = p /\ VllmPayload(raw) = p
  BY <1>1, <1>2, <1>3, <1>4, <1>5, VllmEncoded
<1>7. VllmPayloadIntact(raw)
  BY <1>6 DEF VllmPayloadIntact
<1>8. PICK m \in Nat : /\ m = e \div PerByte(bits) /\ (e * bits) \div 8 = m
                       /\ e \div g \in Nat
  <2>1. e % g = 0 /\ g % PerByte(bits) = 0
    BY <1>3, <1>4, <1>5 DEF SlotFits
  <2>2. QED
    BY <2>1, GroupsAreBytes
<1>9. Len(p) = 2 * (e \div g) + m
  BY <1>2, <1>3, <1>4, <1>5, <1>8, VllmShape
<1>10. VllmLayoutFits(raw, c.block_bytes)
  BY <1>3, <1>4, <1>6, <1>8, <1>9 DEF VllmLayoutFits, SlotFits
<1>11. raw.dtype \in Dtypes
  BY <1>6 DEF SlotFits
<1>12. QED
  BY <1>1, <1>6, <1>7, <1>10, <1>11 DEF DecodeVllm

(***************************************************************************)
(* What stands on the medium until it is read.                             *)
(***************************************************************************)
StoreKept ==
    /\ spec \in Specs /\ CreateAccepts(spec) /\ Len(keys) \in Nat
    /\ (\E R : records \in Seq(R)) /\ Len(records) = BlockCount(Len(keys), spec)
    /\ damage \in HostFields \cup {"none"}
    /\ \A b \in DOMAIN records :
          \E field \in {"none", damage} :
             OnMedium(records[b],
                      EncodeRecord(CreateBlock(keys, values, 0, b - 1, spec), spec), field)

(* The one vLLM record is the encoded slot, damaged in at most one field.  *)
BlockKept ==
    /\ spec \in Configs /\ ConfigAccepted(spec) /\ SlotFits(values, spec)
    /\ InSlot(records[1], EncodeVllm(values, spec), damage)

(* What is on the medium between the write and the read.                   *)
MediumInv ==
    /\ stage = "start" => damage = "none"
    /\ stage = "created" => StoreKept
    /\ stage = "stored" => BlockKept

(* A slot that was encoded under an accepted configuration is whole groups *)
(* of whole bytes and fills its bytes.                                     *)
LEMMA EncodedFits ==
    ASSUME NEW c \in Configs, NEW v \in VllmValues(c), ConfigAccepted(c), EncodeVllm(v, c).ok
    PROVE  SlotFits(v, c)
<1>1. c.block_bytes % Width(c.dtype) = 0 /\ QuantizeAccepts(Len(v), c.bits, c.group_size)
  BY DEF EncodeVllm, Rejected
<1>2. v \in Seq(Int) /\ c.group_size \in Int /\ Len(v) * Width(c.dtype) = c.block_bytes
  BY <1>1, DataAssumption
<1>3. QED
  BY <1>1, <1>2 DEF SlotFits, QuantizeAccepts, ConfigAccepted

(* create writes every block of the tensors (store.py: create).            *)
LEMMA CreateKeeps ==
    ASSUME MediumInv, NEW s \in Specs, NEW k \in Keys(s), NEW v \in Values(s),
           CreateStore(s, k, v)
    PROVE  MediumInv' /\ DamageDetected'
<1>1. /\ spec' = s /\ keys' = k /\ values' = v /\ damage' = damage /\ damage = "none"
      /\ \/ stage' = "failed"
         \/ stage' = "created" /\ CreateAccepts(s) /\ records' = Create(k, v, 0, s)
  BY DEF CreateStore, MediumInv
<1>2. DamageDetected'
  BY <1>1 DEF DamageDetected
<1>3. CASE stage' = "created"
  <2>1. Len(k) \in Nat
    BY DataAssumption
  <2>2. PICK n \in Nat : n = BlockCount(Len(k), s)
    <3>1. s.block_tokens \in Nat \ {0}
      BY <1>1, <1>3, DataAssumption DEF CreateAccepts, ValidSpec, SpecFields
    <3>2. QED
      BY <2>1, <3>1 DEF BlockCount
  <2>3. PICK made : made = [b \in 1..n |-> EncodeRecord(CreateBlock(k, v, 0, b - 1, s), s)]
    OBVIOUS
  <2>4. records' = made
    BY <1>1, <1>3, <2>2, <2>3 DEF Create
  <2>5. (\E R : made \in Seq(R)) /\ Len(made) = n
    <3>1. PICK R : R = {made[b] : b \in 1..n}
      OBVIOUS
    <3>2. made \in [1..n -> R]
      BY <2>3, <3>1
    <3>3. made \in Seq(R) /\ Len(made) = n
      BY ONLY <3>2, n \in Nat
    <3>4. QED
      BY <3>3
  <2>6. ASSUME NEW b \in DOMAIN made
        PROVE  made[b] = EncodeRecord(CreateBlock(k, v, 0, b - 1, s), s)
    BY <2>3
  <2>7. StoreKept'
    BY <1>1, <1>3, <2>1, <2>2, <2>4, <2>5, <2>6 DEF StoreKept, OnMedium
  <2>8. QED
    BY <1>2, <1>3, <2>7 DEF MediumInv
<1>4. CASE stage' = "failed"
  BY <1>2, <1>4 DEF MediumInv
<1>5. QED
  BY <1>1, <1>3, <1>4

(* Damage strikes one field of one record of an undamaged store.           *)
LEMMA DamageRecordKeeps ==
    ASSUME MediumInv, NEW b \in DOMAIN records, NEW field \in HostFields,
           DamageRecord(b, field)
    PROVE  MediumInv' /\ DamageDetected'
<1>1. /\ stage = "created" /\ stage' = "created" /\ damage = "none" /\ damage' = field
      /\ spec' = spec /\ keys' = keys /\ values' = values
  BY DEF DamageRecord
<1>2. StoreKept
  BY <1>1 DEF MediumInv
<1>3. PICK raw \in Damaged(records[b], field) : records' = [records EXCEPT ![b] = raw]
  BY DEF DamageRecord
<1>4. PICK R : records \in Seq(R)
  BY <1>2 DEF StoreKept
<1>4a. records' \in Seq(R \cup {raw}) /\ Len(records') = Len(records)
  <2>1. records \in Seq(R \cup {raw}) /\ b \in 1..Len(records)
    BY <1>4, SeqMonotonic
  <2>2. QED
    BY <1>3, <2>1, ExceptSeq
<1>4b. DOMAIN records' = DOMAIN records
  BY <1>4, <1>4a
<1>5. ASSUME NEW i \in DOMAIN records
      PROVE  \E f \in {"none", field} :
                OnMedium(records'[i],
                         EncodeRecord(CreateBlock(keys, values, 0, i - 1, spec), spec), f)
  <2>1. PICK made : made = EncodeRecord(CreateBlock(keys, values, 0, i - 1, spec), spec)
    OBVIOUS
  <2>2. records[i] = made
    BY <1>1, <1>2, <2>1 DEF StoreKept, OnMedium, HostFields
  <2>3. CASE i = b
    <3>1. records'[i] = raw /\ raw \in Damaged(made, field)
      BY <1>3, <2>2, <2>3
    <3>2. QED
      BY <2>1, <3>1 DEF OnMedium
  <2>4. CASE i # b
    <3>1. records'[i] = made
      BY <1>3, <2>2, <2>4
    <3>2. QED
      BY <2>1, <3>1 DEF OnMedium
  <2>5. QED
    BY <2>3, <2>4
<1>6. StoreKept'
  BY <1>1, <1>2, <1>4a, <1>4b, <1>5 DEF StoreKept
<1>7. QED
  BY <1>1, <1>6 DEF MediumInv, DamageDetected

(* What the loader makes of block b on either path.                        *)
DecodedOn(onPath, b, s) ==
    IF onPath = "device" THEN DecodeDeviceRecord(records[b + 1], s, Entry(Len(keys), 0, b, s))
    ELSE DecodeRecord(records[b + 1], s, TRUE)

(* The record of the block is on the medium, damaged in at most one field. *)
Written(b) ==
    /\ b \in 0..(Len(records) - 1)
    /\ \E field \in {"none", damage} :
          OnMedium(records[b + 1], EncodeRecord(CreateBlock(keys, values, 0, b, spec), spec),
                   field)

(* A read of the blocks ids of the store, all of them written.             *)
ReadsAs(ids, s, onPath) ==
    /\ ids \in Seq(Nat) /\ \A i \in DOMAIN ids : Written(ids[i])
    /\ s # spec => damage = "none" /\ onPath = "host"
    /\ reader' = [path |-> onPath, spec |-> s] /\ selected' = ids
    /\ spec' = spec /\ keys' = keys /\ values' = values /\ damage' = damage
    /\ \/ stage' = "raised"
       \/ stage' = "refused" /\ \E i \in DOMAIN ids : ~DecodedOn(onPath, ids[i], s).ok
       \/ /\ stage' = "read" /\ \A i \in DOMAIN ids : DecodedOn(onPath, ids[i], s).ok
          /\ blocks' = [i \in DOMAIN ids |-> DecodedOn(onPath, ids[i], s)]

(* A selector chooses among the blocks that create wrote (selectors.py,    *)
(* store.py: blocks_for_layer).                                            *)
LEMMA ReadChooses ==
    ASSUME MediumInv, NEW selector \in Selectors, NEW s, NEW onPath, Read(selector, s, onPath)
    PROVE  ReadsAs(Select(selector, Ids(BlockCount(Len(keys), spec))), s, onPath)
<1>1. StoreKept
  BY DEF Read, MediumInv
<1>2. PICK n \in Nat : n = BlockCount(Len(keys), spec)
  <2>1. spec.block_tokens \in Nat \ {0}
    BY <1>1, DataAssumption DEF StoreKept, CreateAccepts, ValidSpec, SpecFields
  <2>2. QED
    BY <1>1, <2>1 DEF StoreKept, BlockCount
<1>3. PICK ids : ids = Select(selector, Ids(n))
  OBVIOUS
<1>4. ids \in Seq(0..(n - 1))
  BY <1>3, SelectGivesIds
<1>5. Len(records) = n
  BY <1>1, <1>2 DEF StoreKept
<1>6. ASSUME NEW i \in DOMAIN ids
      PROVE  Written(ids[i])
  <2>1. ids[i] \in 0..(n - 1)
    BY <1>4
  <2>2. PICK j \in 1..n : j = ids[i] + 1 /\ j - 1 = ids[i]
    BY <2>1
  <2>3. j \in DOMAIN records
    BY <1>1, <1>5 DEF StoreKept
  <2>4. \E field \in {"none", damage} :
           OnMedium(records[j], EncodeRecord(CreateBlock(keys, values, 0, j - 1, spec), spec),
                    field)
    BY <1>1, <2>3 DEF StoreKept
  <2>5. QED
    BY <1>5, <2>1, <2>2, <2>4 DEF Written
<1>7. ids \in Seq(Nat)
  BY <1>4, SeqMonotonic
<1>8. [b \in DOMAIN records |-> b - 1] = Ids(n)
  BY <1>1, <1>5 DEF StoreKept, Ids
<1>9. ReadsAs(ids, s, onPath)
  BY <1>3, <1>6, <1>7, <1>8, Zenon DEF Read, ReadsAs, DecodedOn
<1>10. QED
  BY <1>2, <1>3, <1>9

(* The loader reads what the selector chose, checked on the host path      *)
(* (loader.py: iter_blocks, format.py: decode_record).                     *)
LEMMA ReadKeeps ==
    ASSUME MediumInv, NEW selector \in Selectors, NEW s \in Specs,
           NEW onPath \in {"host", "device"}, Read(selector, s, onPath)
    PROVE  MediumInv' /\ DamageDetected'
<1>1. spec \in Specs /\ CreateAccepts(spec)
  BY DEF Read, MediumInv, StoreKept
<1>2. PICK ids : ids = Select(selector, Ids(BlockCount(Len(keys), spec)))
  OBVIOUS
<1>3. ReadsAs(ids, s, onPath)
  BY <1>2, ReadChooses
<1>4. MediumInv'
  BY <1>3 DEF MediumInv, ReadsAs
<1>5. CASE stage' = "raised"
  BY <1>4, <1>5 DEF DamageDetected
<1>6. CASE stage' = "refused"
  <2>1. PICK i \in DOMAIN ids : ~DecodedOn(onPath, ids[i], s).ok
    BY <1>3, <1>6 DEF ReadsAs
  <2>2. onPath = "host"
    BY <2>1 DEF DecodedOn, DecodeDeviceRecord
  <2>3. CASE damage = "none" /\ Layout(s) = Layout(spec)
    <3>1. records[ids[i] + 1] = EncodeRecord(CreateBlock(keys, values, 0, ids[i], spec), spec)
      BY <1>3, <2>3 DEF ReadsAs, Written, OnMedium, HostFields
    <3>2. DecodeRecord(records[ids[i] + 1], s, TRUE).ok
      BY <1>1, <2>3, <3>1, CheckedReadAccepts
    <3>3. QED
      BY <2>1, <2>2, <3>2 DEF DecodedOn
  <2>4. CASE ~(damage = "none" /\ Layout(s) = Layout(spec))
    BY <1>3, <1>4, <1>6, <2>2, <2>4 DEF DamageDetected, ReadsAs
  <2>5. QED
    BY <2>3, <2>4
<1>7. CASE stage' = "read" /\ onPath = "device"
  BY <1>3, <1>4, <1>7 DEF DamageDetected, ReadsAs
<1>8. CASE stage' = "read" /\ onPath = "host"
  <2>1. ASSUME NEW i \in DOMAIN ids
        PROVE  Gives(blocks'[i], CreateBlock(keys, values, 0, ids[i], spec), damage)
    <3>1. PICK raw : raw = records[ids[i] + 1]
      OBVIOUS
    <3>2. PICK block : block = CreateBlock(keys, values, 0, ids[i], spec)
      OBVIOUS
    <3>3. PICK d : d = DecodeRecord(raw, s, TRUE)
      OBVIOUS
    <3>4. blocks'[i] = d /\ d.ok
      BY <1>3, <1>8, <3>1, <3>3 DEF ReadsAs, DecodedOn
    <3>5. PICK field \in {"none", damage} : OnMedium(raw, EncodeRecord(block, spec), field)
      BY <1>3, <3>1, <3>2 DEF ReadsAs, Written
    <3>6. s = spec \/ field = "none"
      BY <1>3, <3>5 DEF ReadsAs
    <3>7. Gives(d, block, field)
      BY <1>1, <3>2, <3>3, <3>4, <3>5, <3>6, CheckedReadKeeps
    <3>8. QED
      BY <3>2, <3>4, <3>5, <3>7 DEF Gives
  <2>2. /\ spec' = spec /\ keys' = keys /\ values' = values /\ damage' = damage
        /\ selected' = ids
    BY <1>3 DEF ReadsAs
  <2>3. DamageDetected'
    BY <1>8, <2>1, <2>2 DEF DamageDetected, Gives
  <2>4. QED
    BY <1>4, <2>3
<1>9. stage' \in {"raised", "refused", "read"}
  BY <1>3 DEF ReadsAs
<1>10. QED
  BY <1>5, <1>6, <1>7, <1>8, <1>9

(* A vLLM server stores a slot (vllm_codec.py: encode_vllm_block).         *)
LEMMA StoreBlockKeeps ==
    ASSUME MediumInv, NEW c \in Configs, NEW v \in VllmValues(c), StoreBlock(c, v)
    PROVE  MediumInv' /\ DamageDetected'
<1>1. /\ spec' = c /\ values' = v /\ damage' = damage /\ damage = "none"
      /\ \/ stage' = "failed"
         \/ /\ stage' = "stored" /\ ConfigAccepted(c) /\ EncodeVllm(v, c).ok
            /\ records' = <<EncodeVllm(v, c)>>
  BY DEF StoreBlock, MediumInv
<1>2. DamageDetected'
  BY <1>1 DEF DamageDetected
<1>3. CASE stage' = "stored"
  <2>1. SlotFits(v, c)
    BY <1>1, <1>3, EncodedFits
  <2>2. records'[1] = EncodeVllm(v, c)
    BY <1>1, <1>3
  <2>3. BlockKept'
    BY <1>1, <1>3, <2>1, <2>2 DEF BlockKept, InSlot
  <2>4. QED
    BY <1>2, <1>3, <2>3 DEF MediumInv
<1>4. CASE stage' = "failed"
  BY <1>2, <1>4 DEF MediumInv
<1>5. QED
  BY <1>1, <1>3, <1>4

(* Damage strikes one field of the record.                                 *)
LEMMA DamageBlockKeeps ==
    ASSUME MediumInv, NEW field \in BlockFields, DamageBlock(field)
    PROVE  MediumInv' /\ DamageDetected'
<1>1. /\ stage = "stored" /\ stage' = "stored" /\ damage = "none" /\ damage' = field
      /\ spec' = spec /\ values' = values
  BY DEF DamageBlock
<1>2. BlockKept
  BY <1>1 DEF MediumInv
<1>3. PICK raw \in Damaged(records[1], field) : records' = <<raw>>
  BY DEF DamageBlock
<1>4. records[1] = EncodeVllm(values, spec)
  BY <1>1, <1>2 DEF BlockKept, InSlot, BlockFields
<1>5. records'[1] = raw
  BY <1>3
<1>6. BlockKept'
  BY <1>1, <1>2, <1>3, <1>4, <1>5 DEF BlockKept, InSlot
<1>7. QED
  BY <1>1, <1>6 DEF MediumInv, DamageDetected

(* A server looks the record up under its namespace and decodes it         *)
(* (vllm_codec.py: decode_vllm_block).                                     *)
LEMMA LoadBlockKeeps ==
    ASSUME MediumInv, NEW c \in Configs, LoadBlock(c)
    PROVE  MediumInv' /\ DamageDetected'
<1>1. BlockKept
  BY DEF LoadBlock, MediumInv
<1>2. PICK d : d = DecodeVllm(records[1], c.block_bytes)
  OBVIOUS
<1> DEFINE here == Namespace(c) = Namespace(spec)
<1>3. /\ reader' = [path |-> "vllm", spec |-> c]
      /\ spec' = spec /\ values' = values /\ damage' = damage
      /\ \/ stage' = "absent" /\ ~here
         \/ stage' = "loaded" /\ here /\ d.ok
            /\ blocks' = [dtype |-> d.dtype, values |-> d.values]
         \/ stage' = "refused" /\ here /\ ~d.ok
  <2>1. (RecordPath([hash |-> "h", group |-> 0], Namespace(c))
           = RecordPath([hash |-> "h", group |-> 0], Namespace(spec))) <=> here
    BY Zenon DEF RecordPath
  <2> HIDE DEF here
  <2>2. QED
    BY <1>2, <2>1 DEF LoadBlock
<1>4. here => /\ c.block_bytes = spec.block_bytes
              /\ d = DecodeVllm(records[1], spec.block_bytes)
  BY <1>2 DEF Namespace
<1>5. MediumInv'
  BY <1>3 DEF MediumInv
<1>6. CASE stage' = "absent"
  <2>1. c # spec
    BY <1>3, <1>6
  <2>2. QED
    BY <1>3, <1>5, <1>6, <2>1 DEF DamageDetected
<1>7. CASE stage' = "loaded"
  <2>1. Loads(d, values, spec, damage)
    BY <1>1, <1>3, <1>4, <1>7, LoadKeeps DEF BlockKept
  <2>2. /\ blocks'.values = d.values /\ blocks'.dtype = d.dtype
    BY <1>3, <1>7
  <2>3. QED
    BY <1>3, <1>5, <1>7, <2>1, <2>2 DEF DamageDetected, Loads
<1>8. CASE stage' = "refused"
  <2>1. CASE damage = "none"
    <3>1. records[1] = EncodeVllm(values, spec)
      BY <1>1, <2>1 DEF BlockKept, InSlot, BlockFields
    <3>2. d.ok
      BY <1>1, <1>3, <1>4, <1>8, <3>1, LoadAccepts DEF BlockKept
    <3>3. QED
      BY <1>3, <1>8, <3>2
  <2>2. CASE damage # "none"
    BY <1>3, <1>5, <1>8, <2>2 DEF DamageDetected
  <2>3. QED
    BY <2>1, <2>2
<1> HIDE DEF here
<1>9. QED
  BY <1>3, <1>6, <1>7, <1>8

(* The pipeline's steps neither touch the medium nor reach a stage that    *)
(* the reads do.                                                           *)
LEMMA StepMedium ==
    ASSUME MediumInv, DamageDetected, [Next]_vars
    PROVE  MediumInv' /\ DamageDetected'
<1> DEFINE Beyond == stage' \in {"constructed", "attending", "raised", "done"}
           Kept   == UNCHANGED <<stage, dataVars>>
<1>1. ASSUME Beyond
      PROVE  MediumInv' /\ DamageDetected'
  BY <1>1 DEF MediumInv, DamageDetected
<1>2. ASSUME Kept
      PROVE  MediumInv' /\ DamageDetected'
  <2>1. /\ stage' = stage /\ spec' = spec /\ keys' = keys /\ values' = values
        /\ records' = records /\ damage' = damage /\ selected' = selected
        /\ reader' = reader /\ blocks' = blocks
    BY <1>2 DEF dataVars
  <2>2. StoreKept' <=> StoreKept
    BY <2>1 DEF StoreKept
  <2>3. BlockKept' <=> BlockKept
    BY <2>1 DEF BlockKept
  <2>4. MediumInv'
    BY <2>1, <2>2, <2>3 DEF MediumInv
  <2>5. DamageDetected'
    BY <2>1 DEF DamageDetected
  <2>6. QED
    BY <2>4, <2>5
<1>3. ASSUME NEW s \in Specs, NEW k \in Keys(s), NEW v \in Values(s), CreateStore(s, k, v)
      PROVE  MediumInv' /\ DamageDetected'
  BY <1>3, CreateKeeps
<1>4. ASSUME NEW b \in DOMAIN records, NEW field \in HostFields, DamageRecord(b, field)
      PROVE  MediumInv' /\ DamageDetected'
  BY <1>4, DamageRecordKeeps
<1>5. ASSUME NEW selector \in Selectors, NEW s \in Specs, NEW onPath \in {"host", "device"},
             Read(selector, s, onPath)
      PROVE  MediumInv' /\ DamageDetected'
  BY <1>5, ReadKeeps
<1>6. ASSUME NEW requested, NEW require, NEW device, NEW extension, NEW triton,
             Construct(requested, require, device, extension, triton)
      PROVE  Beyond
  BY <1>6 DEF Construct
<1>7. ASSUME NEW q, NEW size, Attend(q, size)
      PROVE  Beyond
  BY <1>7 DEF Attend
<1>8. ASSUME RunChunk
      PROVE  Beyond
  <2>1. CASE stage' = "raised"
    BY <2>1
  <2>2. CASE stage' # "raised"
    BY <1>8, <2>2, Zenon DEF RunChunk, MergeChunk
  <2>3. QED
    BY <2>1, <2>2
<1>9. ASSUME LaunchHead
      PROVE  Beyond \/ Kept
  BY <1>9 DEF LaunchHead
<1>10. ASSUME RunThreads
       PROVE  Kept
  BY <1>10 DEF RunThreads
<1>11. ASSUME CollectHead
       PROVE  Beyond \/ Kept
  <2>1. UNCHANGED dataVars
    BY <1>11 DEF CollectHead
  <2>2. stage' \in {stage, "done", "attending"}
    BY <1>11, Zenon DEF CollectHead, MergeChunk
  <2>3. QED
    BY <2>1, <2>2
<1>12. ASSUME NEW c \in Configs, NEW v \in VllmValues(c), StoreBlock(c, v)
       PROVE  MediumInv' /\ DamageDetected'
  BY <1>12, StoreBlockKeeps
<1>13. ASSUME NEW field \in BlockFields, DamageBlock(field)
       PROVE  MediumInv' /\ DamageDetected'
  BY <1>13, DamageBlockKeeps
<1>14. ASSUME NEW c \in Configs, LoadBlock(c)
       PROVE  MediumInv' /\ DamageDetected'
  BY <1>14, LoadBlockKeeps
<1>15. CASE UNCHANGED vars
  BY <1>2, <1>15 DEF vars
<1>16. QED
  BY <1>1, <1>2, <1>3, <1>4, <1>5, <1>6, <1>7, <1>8, <1>9, <1>10, <1>11, <1>12, <1>13, <1>14,
     <1>15
     DEF Next, HostFields, BlockFields

(* One field of a record changes on the medium, or a store or server of    *)
(* another layout or configuration reads it: a checked read refuses, or    *)
(* returns the very tensors that were stored, and it refuses nothing sound *)
(* (format.py: decode_record, vllm_codec.py: decode_vllm_block).           *)
THEOREM ReadsAreSound == Spec => []DamageDetected
<1>1. Init => MediumInv /\ DamageDetected
  BY DEF Init, MediumInv, DamageDetected
<1>2. MediumInv /\ DamageDetected /\ [Next]_vars => MediumInv' /\ DamageDetected'
  BY StepMedium
<1>3. QED
  BY <1>1, <1>2, PTL DEF Spec

(* Powers grow.                                                            *)
LEMMA PowerGrows ==
    ASSUME NEW n \in Nat, NEW m \in Nat, n <= m
    PROVE  Power[n] <= Power[m] /\ Power[n] \in Nat \ {0} /\ Power[m] \in Nat \ {0}
<1> DEFINE T == {i \in Nat : Power[n] <= Power[n + i]}
<1>0. \A i \in Nat : Power[i] \in Nat \ {0}
  BY PowerIs
<1>1. 0 \in T
  <2>1. n + 0 = n
    OBVIOUS
  <2>2. QED
    BY <1>0, <2>1
<1>2. ASSUME NEW i \in 1..(m - n), i - 1 \in T
      PROVE  i \in T
  <2>1. n + i \in Nat \ {0} /\ (n + i) - 1 = n + (i - 1) /\ n + (i - 1) \in Nat
    OBVIOUS
  <2>2. Power[n + i] = 2 * Power[n + (i - 1)]
    BY <2>1, PowerIs
  <2>3. Power[n] <= Power[n + (i - 1)]
    BY <1>2
  <2>4. PICK a \in Nat, b \in Nat : a = Power[n] /\ b = Power[n + (i - 1)]
    BY <1>0, <2>1
  <2>5. Power[n] <= Power[n + i]
    BY <2>2, <2>3, <2>4
  <2>6. QED
    BY <2>5
<1> HIDE DEF T
<1>3. PICK d \in Nat : d = m - n
  OBVIOUS
<1>4. 0..d \subseteq T
  BY <1>1, <1>2, <1>3, UpTo
<1>5. Power[n] <= Power[n + d]
  BY <1>3, <1>4 DEF T
<1>6. QED
  BY <1>0, <1>3, <1>5

(* What a dequantized value is cast to: it is off by half a spacing at     *)
(* most, or beyond float16.                                                *)
LEMMA CastNear ==
    ASSUME NEW v \in Int, NEW top \in 0..(7 * HalfMax), Magnitude(v) <= top,
           NEW dtype \in Dtypes
    PROVE  /\ CastStep(top, dtype) \in Nat
           /\ \/ /\ Cast(v, dtype) = Inf
                 /\ dtype = "float16" /\ 2 * top + CastStep(top, dtype) > 2 * HalfMax
              \/ /\ Cast(v, dtype) \in Int
                 /\ 2 * Magnitude(Cast(v, dtype) - v) <= CastStep(top, dtype)
<1>0. v \notin {Inf, NaN} /\ HalfMax \in Nat
  BY HalfAssumption
<1>1. CASE dtype = "float32"
  <2>1. Cast(v, dtype) = v /\ CastStep(top, dtype) = 0
    BY <1>0, <1>1 DEF Cast, CastStep
  <2>2. v - v = 0
    OBVIOUS
  <2>3. QED
    BY <2>1, <2>2 DEF Magnitude
<1>2. CASE dtype # "float32"
  <2>1. PICK k \in Nat : k = Significant(dtype) /\ BrainBits <= k
    BY HalfAssumption DEF Significant
  <2>2. PICK m \in Nat : m = Magnitude(v) /\ (m = v \/ m = -v) /\ m <= top
    BY DEF Magnitude
  <2>3. Binades \in Exponents(top, 1, k)
    <3>1. Binades \in Nat /\ BrainBits \in Nat
      BY HalfAssumption
    <3>2. PICK a \in Nat, b \in Nat : /\ a = Power[Binades + BrainBits]
                                      /\ b = Power[Binades + k] /\ a <= b
      BY <2>1, <3>1, PowerGrows
    <3>3. 7 * HalfMax < a
      BY <3>2, <1>0, HalfAssumption
    <3>4. top < 1 * b
      BY <3>2, <3>3, <1>0
    <3>5. QED
      BY <3>1, <3>2, <3>4 DEF Exponents
  <2>4. Exponents(top, 1, k) \subseteq Exponents(m, 1, k)
    <3>1. ASSUME NEW e \in Exponents(top, 1, k)
          PROVE  e \in Exponents(m, 1, k)
      <4>1. e \in 0..Binades /\ top < 1 * Power[e + k] /\ e + k \in Nat
        BY <2>1, HalfAssumption DEF Exponents
      <4>2. PICK b \in Nat : b = Power[e + k]
        BY <4>1, PowerIs
      <4>3. m < 1 * b
        BY <2>2, <4>1, <4>2
      <4>4. QED
        BY <4>1, <4>2, <4>3 DEF Exponents
    <3>2. QED
      BY <3>1
  <2>5. PICK e \in Exponents(top, 1, k) : Spacing(top, 1, k) = Power[e]
    BY <2>3, SpacingIs
  <2>6. PICK f \in Exponents(m, 1, k) : /\ \A g \in Exponents(m, 1, k) : f <= g
                                        /\ Spacing(m, 1, k) = Power[f]
    BY <2>3, <2>4, SpacingIs
  <2>7. f <= e /\ f \in Nat /\ e \in Nat
    BY <2>4, <2>5, <2>6 DEF Exponents
  <2>8. PICK s \in Nat, w \in Nat : s = Spacing(m, 1, k) /\ w = Spacing(top, 1, k) /\ s <= w
    BY <2>5, <2>6, <2>7, PowerGrows
  <2>9. CastStep(top, dtype) = w
    BY <1>2, <2>1, <2>8 DEF CastStep
  <2>10. PICK r \in Nat : r = Rounded(m, 1, k)
    BY <2>3, <2>4, RoundedIs
  <2>11. 2 * (r - m) <= s /\ 2 * (m - r) <= s
    BY <2>3, <2>4, <2>8, <2>10, RoundedNear
  <2>12. Cast(v, dtype) = IF dtype = "float16" /\ r > HalfMax THEN Inf
                          ELSE IF v < 0 THEN -r ELSE r
    BY <1>0, <1>2, <2>1, <2>2, <2>10 DEF Cast
  <2>13. CASE dtype = "float16" /\ r > HalfMax
    <3>1. 2 * top + w > 2 * HalfMax
      BY <1>0, <2>2, <2>8, <2>11, <2>13
    <3>2. QED
      BY <2>9, <2>12, <2>13, <3>1
  <2>14. CASE ~(dtype = "float16" /\ r > HalfMax)
    <3>1. PICK x \in Int : x = Cast(v, dtype) /\ x = IF v < 0 THEN -r ELSE r
      BY <2>12, <2>14
    <3>2. 2 * Magnitude(x - v) <= w
      BY <2>2, <2>8, <2>11, <3>1 DEF Magnitude
    <3>3. QED
      BY <2>9, <3>1, <3>2
  <2>15. QED
    BY <2>13, <2>14
<1>3. QED
  BY <1>1, <1>2

(* The product of a centred code and the scale of its group, cast.         *)
LEMMA TimesNear ==
    ASSUME NEW bits \in {2, 4}, NEW amax \in Nat, NEW x \in Int, Magnitude(x) <= amax,
           NEW dtype \in Dtypes
    PROVE  Near(x, Cast(Times(Code(x, amax, bits) - Midpoint(bits), Half(amax, bits)), dtype),
                amax, bits, dtype)
<1>1. PICK c : c = Code(x, amax, bits) - Midpoint(bits)
  OBVIOUS
<1>2. PICK p \in {1, 7} : p = PositiveMax(bits)
  BY DEF PositiveMax, Midpoint
<1>3. c \in (-p)..p /\ 2 * Magnitude(p * x - c * amax) <= amax
  BY <1>1, <1>2, CodeWithin
<1>4. CASE Half(amax, bits) = Inf
  <2>1. Times(c, Half(amax, bits)) \in {Inf, NaN}
    BY <1>4 DEF Times
  <2>2. Cast(Times(c, Half(amax, bits)), dtype) \in {Inf, NaN}
    BY <2>1 DEF Cast
  <2>3. QED
    BY <1>1, <1>4, <2>2 DEF Near
<1>5. CASE Half(amax, bits) # Inf
  <2>1. PICK h \in Nat : h = Half(amax, bits) /\ h <= HalfMax
    BY <1>5, HalfIs
  <2>2. PICK g \in Int : g = c * h
    BY <1>3
  <2>3. Times(c, h) = g
    BY <2>1, <2>2, HalfAssumption DEF Times
  <2>4. PICK top \in 0..(7 * HalfMax) : top = p * h
    BY <2>1, HalfAssumption
  <2>5. Magnitude(g) <= top
    <3>1. Magnitude(h) = h
      BY DEF Magnitude
    <3>2. g <= top /\ -g <= top
      BY <1>3, <2>2, <2>4, <3>1, ProductBounded
    <3>3. QED
      BY <3>2 DEF Magnitude
  <2>6. PICK step \in Nat : step = CastStep(top, dtype)
    BY <2>4, <2>5, CastNear
  <2>7. PICK got : got = Cast(g, dtype)
    OBVIOUS
  <2>8. \/ got = Inf /\ dtype = "float16" /\ 2 * top + step > 2 * HalfMax
        \/ got \in Int /\ 2 * Magnitude(got - g) <= step
    BY <2>4, <2>5, <2>6, <2>7, CastNear
  <2>9. PICK e \in Int : e = top - amax
    OBVIOUS
  <2>10. PICK a \in Int, b \in Int : a = c * amax /\ b = c * e
    BY <1>3
  <2>11. p * g = a + b
    <3>1. p * h = amax + e
      BY <2>4, <2>9
    <3>2. c * (amax + e) = c * amax + c * e
      BY <1>3
    <3>3. p * (c * h) = c * (p * h)
      <4>1. CASE p = 1
        BY <1>3, <4>1
      <4>2. CASE p = 7
        BY <1>3, <4>2
      <4>3. QED
        BY <4>1, <4>2
    <3>4. QED
      BY <2>2, <2>10, <3>1, <3>2, <3>3
  <2>12. PICK m \in Nat : m = Magnitude(e) /\ b <= p * m /\ -b <= p * m
    BY <1>3, <2>10, ProductBounded
  <2>13. 2 * (p * x - a) <= amax /\ 2 * (a - p * x) <= amax
    <3>1. PICK y \in Int : y = p * x - a
      OBVIOUS
    <3>2. 2 * Magnitude(y) <= amax
      BY <1>3, <2>10, <3>1
    <3>3. 2 * y <= amax /\ -(2 * y) <= amax
      BY <3>2 DEF Magnitude
    <3>4. QED
      BY <3>1, <3>3
  <2>14. 2 * p * (x - g) <= amax + 2 * p * m /\ 2 * p * (g - x) <= amax + 2 * p * m
    <3>1. CASE p = 1
      BY <2>11, <2>12, <2>13, <3>1
    <3>2. CASE p = 7
      BY <2>11, <2>12, <2>13, <3>2
    <3>3. QED
      BY <3>1, <3>2
  <2>15. CASE got \in Int /\ 2 * Magnitude(got - g) <= step
    <3>1. 2 * (got - g) <= step /\ 2 * (g - got) <= step
      BY <2>15 DEF Magnitude
    <3>2. 2 * p * (x - got) <= amax + p * (2 * m + step)
      <4>1. CASE p = 1
        BY <2>14, <2>15, <3>1, <4>1
      <4>2. CASE p = 7
        BY <2>14, <2>15, <3>1, <4>2
      <4>3. QED
        BY <4>1, <4>2
    <3>3. 2 * p * (got - x) <= amax + p * (2 * m + step)
      <4>1. CASE p = 1
        BY <2>14, <2>15, <3>1, <4>1
      <4>2. CASE p = 7
        BY <2>14, <2>15, <3>1, <4>2
      <4>3. QED
        BY <4>1, <4>2
    <3>4. 2 * p * Magnitude(x - got) <= amax + p * (2 * m + step)
      <4>1. CASE x - got < 0
        <5>1. Magnitude(x - got) = got - x
          BY <2>15, <4>1 DEF Magnitude
        <5>2. QED
          BY <3>3, <5>1
      <4>2. CASE ~(x - got < 0)
        <5>1. Magnitude(x - got) = x - got
          BY <4>2 DEF Magnitude
        <5>2. QED
          BY <3>2, <5>1
      <4>3. QED
        BY <4>1, <4>2
    <3>5. got # Inf
      BY <2>15, HalfAssumption
    <3>6. Near(x, got, amax, bits, dtype)
      BY <1>2, <1>5, <2>1, <2>4, <2>6, <2>9, <2>12, <3>4, <3>5 DEF Near
    <3>7. QED
      BY <1>1, <2>1, <2>3, <2>7, <3>6
  <2>16. CASE got = Inf /\ dtype = "float16" /\ 2 * top + step > 2 * HalfMax
    <3>1. Near(x, got, amax, bits, dtype)
      BY <1>2, <1>5, <2>1, <2>4, <2>6, <2>16 DEF Near
    <3>2. QED
      BY <1>1, <2>1, <2>3, <2>7, <3>1
  <2>17. QED
    BY <2>8, <2>15, <2>16
<1>6. QED
  BY <1>4, <1>5

(* An element comes back within half a quantization step, the rounding of  *)
(* its scale and that of the cast, for tensors, groups and elements of any *)
(* size (quant.py: quantize_tensor, dequantize_tensor).                    *)
THEOREM QuantizeNear ==
    ASSUME NEW x \in Seq(Int), NEW bits \in {2, 4}, NEW group \in Nat \ {0},
           Len(x) % group = 0, group % PerByte(bits) = 0, NEW dtype \in Dtypes
    PROVE  NearTensor(x, ToDtype(Dequantize(Quantize(x, bits, group), bits, group), dtype),
                      bits, group, dtype)
<1>1. PICK n \in Nat : n = Len(x) /\ DOMAIN x = 1..n
  OBVIOUS
<1>2. PICK amax : amax = [j \in 1..(n \div group) |-> AbsMax(GroupOf(x, group, j))]
  OBVIOUS
<1>3. PICK codes : codes = [i \in 1..n |-> Code(x[i], amax[(i - 1) \div group + 1], bits)]
  OBVIOUS
<1>4. PICK scales : scales = [j \in DOMAIN amax |-> Half(amax[j], bits)]
  OBVIOUS
<1>5. PICK q : q = Quantize(x, bits, group)
  OBVIOUS
<1>6. q.packed = PackCodes(codes, bits) /\ q.scales = scales
  BY <1>1, <1>2, <1>3, <1>4, <1>5 DEF Quantize
<1>7. ASSUME NEW i \in 1..n
      PROVE  LET j == (i - 1) \div group + 1
                 m == AbsMax(GroupOf(x, group, j))
             IN  /\ x[i] \in Int /\ m \in Nat /\ Magnitude(x[i]) <= m
                 /\ codes[i] = Code(x[i], m, bits) /\ scales[j] = Half(m, bits)
  <2>1. PICK j : j = (i - 1) \div group + 1
    OBVIOUS
  <2>2. PICK part : part = GroupOf(x, group, j)
    OBVIOUS
  <2>3. /\ j \in 1..(n \div group) /\ part \in Seq(Int) /\ Len(part) = group
        /\ \E k \in 1..group : part[k] = x[i]
    <3>1. i \in 1..Len(x)
      BY <1>1
    <3>2. Among(x, group, i, j)
      BY <2>1, <3>1, GroupHolds
    <3>3. QED
      BY <1>1, <2>2, <3>2 DEF Among
  <2>4. PICK m : m = AbsMax(part)
    OBVIOUS
  <2>5. m \in Nat /\ \A k \in 1..group : Magnitude(part[k]) <= m
    BY <2>3, <2>4, AbsMaxIs
  <2>6. Magnitude(x[i]) <= m
    BY <2>3, <2>5
  <2>7. x[i] \in Int
    BY <1>1
  <2>8. amax[j] = m
    BY <1>2, <2>2, <2>3, <2>4
  <2>9. codes[i] = Code(x[i], m, bits)
    BY <1>3, <2>1, <2>8
  <2>10. j \in DOMAIN amax
    BY <1>2, <2>3
  <2>11. scales[j] = Half(m, bits)
    BY <1>4, <2>8, <2>10
  <2>12. QED
    BY <2>1, <2>2, <2>4, <2>5, <2>6, <2>7, <2>9, <2>11
<1>8. ASSUME NEW i \in 1..n
      PROVE  IsCode(codes[i], bits) /\ codes[i] \in Int
  <2>1. IsCode(codes[i], bits)
    BY <1>7, CodeNear
  <2>2. QED
    BY <2>1 DEF IsCode, Levels
<1>9. codes \in Seq(Int) /\ Len(codes) = n
  <2>1. codes \in [1..n -> Int]
    BY <1>3, <1>8
  <2>2. QED
    BY <1>3, <2>1
<1>10. n % PerByte(bits) = 0
  <2>1. PICK p \in {2, 4} : p = PerByte(bits)
    BY DEF PerByte
  <2>2. PICK a \in Nat : n = group * a
    BY <1>1, WholeGroups
  <2>3. PICK b \in Nat : group = p * b
    <3>1. p \in Nat \ {0} /\ group \in Nat /\ group % p = 0
      BY <2>1
    <3>2. group \div p \in Nat /\ group = p * (group \div p)
      BY ONLY <3>1, WholeGroups
    <3>3. QED
      BY <3>2
  <2>4. PICK d \in Nat : d = b * a
    OBVIOUS
  <2>5. n = p * d
    <3>1. p * b * a = p * (b * a)
      <4>1. CASE p = 2
        BY ONLY <4>1, a \in Nat, b \in Nat
      <4>2. CASE p = 4
        BY ONLY <4>2, a \in Nat, b \in Nat
      <4>3. QED
        BY <4>1, <4>2
    <3>2. QED
      BY ONLY <2>2, <2>3, <2>4, <3>1
  <2>6. CASE p = 2
    BY <2>1, <2>5, <2>6
  <2>7. CASE p = 4
    BY <2>1, <2>5, <2>7
  <2>8. QED
    BY <2>6, <2>7
<1>11. UnpackCodes(q.packed, bits) = codes
  <2>1. \A i \in 1..Len(codes) : IsCode(codes[i], bits)
    BY <1>8, <1>9
  <2>2. Len(codes) % PerByte(bits) = 0
    BY <1>9, <1>10
  <2>3. QED
    BY <1>6, <1>9, <2>1, <2>2, PackRoundTrip
<1>12. DOMAIN codes = 1..n
  BY <1>3
<1>13. PICK float : float = Dequantize(q, bits, group)
  OBVIOUS
<1>14. /\ DOMAIN float = 1..n
       /\ \A i \in 1..n : float[i] = Times(codes[i] - Midpoint(bits), scales[(i - 1) \div group + 1])
  BY <1>6, <1>11, <1>12, <1>13 DEF Dequantize
<1>17. PICK got : got = ToDtype(float, dtype)
  OBVIOUS
<1>18. \A i \in 1..n : got[i] = Cast(float[i], dtype)
  BY <1>14, <1>17 DEF ToDtype
<1>15. ASSUME NEW i \in 1..n
       PROVE  Near(x[i], got[i], AbsMax(GroupOf(x, group, (i - 1) \div group + 1)), bits, dtype)
  <2>1. PICK m : m = AbsMax(GroupOf(x, group, (i - 1) \div group + 1))
    OBVIOUS
  <2>2. /\ x[i] \in Int /\ m \in Nat /\ Magnitude(x[i]) <= m
        /\ got[i] = Cast(Times(Code(x[i], m, bits) - Midpoint(bits), Half(m, bits)), dtype)
    BY <1>7, <1>14, <1>18, <2>1
  <2>3. Near(x[i], got[i], m, bits, dtype)
    BY <2>2, TimesNear
  <2>4. QED
    BY <2>1, <2>3
<1>16. QED
  BY <1>1, <1>5, <1>13, <1>17, <1>15 DEF NearTensor

(* Without a cast the float32 values are what they are.                    *)
LEMMA ToFloat32 ==
    ASSUME NEW q, NEW bits, NEW group
    PROVE  ToDtype(Dequantize(q, bits, group), "float32") = Dequantize(q, bits, group)
<1>1. PICK v : v = Dequantize(q, bits, group)
  OBVIOUS
<1>2. v = [i \in DOMAIN v |-> v[i]]
  BY <1>1 DEF Dequantize
<1>3. \A i \in DOMAIN v : Cast(v[i], "float32") = v[i]
  BY DEF Cast
<1>4. ToDtype(v, "float32") = [i \in DOMAIN v |-> v[i]]
  BY <1>3 DEF ToDtype
<1>5. QED
  BY <1>1, <1>2, <1>4

(***************************************************************************)
(* What is read is near what was stored.                                   *)
(***************************************************************************)
(* Where the tensors of a lane come from, and the lane's decoded blocks.   *)
TensorsKept ==
    /\ stage \in {"created", "read"} =>
         /\ spec \in Specs /\ CreateAccepts(spec)
         /\ keys \in Keys(spec) /\ values \in Values(spec)
    /\ stage \in {"stored", "loaded"} => SlotFits(values, spec)
    /\ stage = "read" /\ damage = "none" =>
         \A i \in DOMAIN selected :
            /\ selected[i] \in Nat
            /\ Gives(blocks[i], CreateBlock(keys, values, 0, selected[i], spec), "none")

(* Elements of a row, or the zeros that pad the last block.                *)
LEMMA PaddedIs ==
    ASSUME NEW s \in Specs, CreateAccepts(s), NEW rows \in Seq(Rows(s)), NEW b \in Nat
    PROVE  /\ Padded(rows, b, s) \in Seq(Int)
           /\ Len(Padded(rows, b, s)) % s.group_size = 0
           /\ s.bits \in {2, 4} /\ s.group_size \in Nat \ {0}
           /\ s.group_size % PerByte(s.bits) = 0
<1>1. Sized(s)
  BY AcceptedSized
<1>2. s.kv_heads > 0 /\ s.head_dim > 0
  BY DEF CreateAccepts, ValidSpec
<1>3. PICK kv \in Nat \ {0}, dim \in Nat \ {0}, tokens \in Nat :
          kv = s.kv_heads /\ dim = s.head_dim /\ tokens = s.block_tokens
  BY <1>1, <1>2 DEF Sized
<1>4. PICK width \in Nat \ {0} : width = kv * dim
  BY <1>3
<1>5. PICK n \in Nat : n = tokens * width
  OBVIOUS
<1>6. PICK x : x = Padded(rows, b, s)
  OBVIOUS
<1> DEFINE T(i) == b * tokens + (i - 1) \div width
           At(i) == IF T(i) < Len(rows) THEN rows[T(i) + 1][((i - 1) % width) + 1] ELSE 0
<1>7. x = [i \in 1..n |-> At(i)]
  BY <1>3, <1>4, <1>5, <1>6 DEF Padded
<1>8. ASSUME NEW i \in 1..n
      PROVE  At(i) \in Int
  <2>1. T(i) \in Nat
    <3>1. PICK a \in Nat, c \in Nat : a = b * tokens /\ c = (i - 1) \div width
      OBVIOUS
    <3>2. QED
      BY <3>1
  <2>2. ((i - 1) % width) + 1 \in 1..width
    OBVIOUS
  <2>3. ASSUME T(i) < Len(rows)
        PROVE  rows[T(i) + 1] \in [1..width -> Int]
    <3>1. T(i) + 1 \in 1..Len(rows)
      BY <2>1, <2>3
    <3> HIDE DEF T
    <3>2. rows[T(i) + 1] \in Rows(s)
      BY <3>1
    <3>3. Rows(s) = [1..width -> Int]
      BY <1>3, <1>4 DEF Rows
    <3>4. QED
      BY <3>2, <3>3
  <2> HIDE DEF T
  <2>4. QED
    BY <2>2, <2>3
<1> HIDE DEF At
<1>9. x \in Seq(Int) /\ Len(x) = n
  <2>1. x \in [1..n -> Int]
    BY <1>7, <1>8
  <2>2. QED
    BY ONLY <2>1, n \in Nat
<1>10. n % s.group_size = 0
  <2>1. PICK g \in Nat \ {0} : g = s.group_size /\ dim % g = 0
    BY <1>1, <1>3 DEF Sized
  <2>2. PICK q \in Nat : dim = g * q
    <3>1. dim \in Nat /\ dim % g = 0
      BY <2>1
    <3>2. dim \div g \in Nat /\ dim = g * (dim \div g)
      BY ONLY <3>1, g \in Nat \ {0}, WholeGroups
    <3>3. QED
      BY <3>2
  <2>3. PICK r \in Nat : r = tokens * kv
    BY <1>3
  <2>4. PICK m \in Nat : m = r * q
    BY <2>2, <2>3
  <2>5. n = g * m
    <3>1. ASSUME NEW a \in Nat, NEW c \in Nat, NEW d \in Nat
          PROVE  a * (c * d) = (a * c) * d /\ c * (a * d) = a * (c * d)
      OBVIOUS
    <3>2. n = r * dim
      BY ONLY <1>4, <1>5, <2>3, <3>1, tokens \in Nat, kv \in Nat, dim \in Nat
    <3>3. r * (g * q) = g * (r * q)
      BY ONLY <3>1, g \in Nat, r \in Nat, q \in Nat
    <3>4. QED
      BY <2>2, <2>4, <3>2, <3>3
  <2>6. (g * m) % g = 0
    OBVIOUS
  <2>7. QED
    BY <2>1, <2>5, <2>6
<1>11. QED
  BY <1>1, <1>6, <1>9, <1>10 DEF Sized

(* A device read takes the views of the record as it was written, and the  *)
(* rest from the manifest (loader.py: _decode_device_record).              *)
LEMMA DeviceReadGives ==
    ASSUME NEW s \in Specs, CreateAccepts(s), NEW k, NEW v, NEW b, NEW raw,
           raw = EncodeRecord(CreateBlock(k, v, 0, b, s), s)
    PROVE  Gives(DecodeDeviceRecord(raw, s, Entry(Len(k), 0, b, s)),
                 CreateBlock(k, v, 0, b, s), "none")
<1>1. PICK block : block = CreateBlock(k, v, 0, b, s)
  OBVIOUS
<1>2. ScaleCount(s) \in Nat /\ PackedCount(s) \in Nat /\ Fits(block, s)
  BY <1>1, AcceptedFits
<1>3. Begins(raw, block, s)
  BY <1>1, <1>2, EncodedBegins
<1>4. KeyView(raw, s) = block.key /\ ValueView(raw, s) = block.value
  BY <1>2, <1>3, ViewsOf
<1>5. block.valid = ValidTokens(Len(k), b, s) /\ block.block = b
  BY <1>1 DEF CreateBlock
<1>6. QED
  BY <1>1, <1>4, <1>5 DEF Gives, DecodeDeviceRecord, Entry

(* On either path an undamaged block is read as it was created (loader.py: *)
(* iter_blocks).                                                           *)
LEMMA ReadTensors ==
    ASSUME MediumInv, DamageDetected', TensorsKept, NEW selector \in Selectors,
           NEW s \in Specs, NEW onPath \in {"host", "device"}, Read(selector, s, onPath)
    PROVE  TensorsKept'
<1>1. /\ spec \in Specs /\ CreateAccepts(spec) /\ keys \in Keys(spec)
      /\ values \in Values(spec)
  BY DEF Read, TensorsKept
<1>2. PICK ids : ids = Select(selector, Ids(BlockCount(Len(keys), spec)))
  OBVIOUS
<1>3. ReadsAs(ids, s, onPath)
  BY <1>2, ReadChooses
<1>4. /\ spec' = spec /\ keys' = keys /\ values' = values /\ damage' = damage
      /\ selected' = ids /\ reader' = [path |-> onPath, spec |-> s]
      /\ stage' \in {"raised", "refused", "read"}
  BY <1>3 DEF ReadsAs
<1>5. ASSUME stage' = "read", damage = "none", NEW i \in DOMAIN ids
      PROVE  /\ ids[i] \in Nat
             /\ Gives(blocks'[i], CreateBlock(keys, values, 0, ids[i], spec), "none")
  <2>1. ids[i] \in Nat
    BY <1>3 DEF ReadsAs
  <2>2. CASE onPath = "host"
    <3>1. PICK block : block = CreateBlock(keys, values, 0, ids[i], spec)
      OBVIOUS
    <3>2. PICK d : d = blocks'[i]
      OBVIOUS
    <3>3. /\ d.key = block.key /\ d.value = block.value
          /\ d.valid = block.valid /\ d.block = block.block
      BY <1>4, <1>5, <2>2, <3>1, <3>2 DEF DamageDetected
    <3>4. Gives(d, block, "none")
      BY <3>3 DEF Gives
    <3>5. QED
      BY <2>1, <3>1, <3>2, <3>4
  <2>3. CASE onPath = "device"
    <3>1. s = spec
      BY <1>3, <2>3 DEF ReadsAs
    <3>2. records[ids[i] + 1] = EncodeRecord(CreateBlock(keys, values, 0, ids[i], spec), spec)
      BY <1>3, <1>5 DEF ReadsAs, Written, OnMedium, HostFields
    <3>3. blocks'[i] = DecodeDeviceRecord(records[ids[i] + 1], spec,
                                          Entry(Len(keys), 0, ids[i], spec))
      BY <1>3, <1>5, <2>3, <3>1 DEF ReadsAs, DecodedOn
    <3>4. Gives(blocks'[i], CreateBlock(keys, values, 0, ids[i], spec), "none")
      BY <1>1, <3>2, <3>3, DeviceReadGives
    <3>5. QED
      BY <2>1, <3>4
  <2>4. QED
    BY <2>2, <2>3
<1>6. QED
  BY <1>1, <1>4, <1>5 DEF TensorsKept

(* No step changes the tensors or what was read of them.                   *)
LEMMA StepTensors ==
    ASSUME MediumInv, DamageDetected', TensorsKept, [Next]_vars
    PROVE  TensorsKept'
<1> DEFINE Beyond == stage' \in {"failed", "constructed", "attending", "raised", "done",
                                 "refused", "absent"}
           Kept   == UNCHANGED <<stage, dataVars>>
<1>1. ASSUME Beyond
      PROVE  TensorsKept'
  BY <1>1 DEF TensorsKept
<1>2. ASSUME Kept
      PROVE  TensorsKept'
  <2>1. /\ stage' = stage /\ spec' = spec /\ keys' = keys /\ values' = values
        /\ damage' = damage /\ selected' = selected /\ blocks' = blocks
    BY <1>2 DEF dataVars
  <2>2. QED
    BY <2>1 DEF TensorsKept
<1>3. ASSUME NEW s \in Specs, NEW k \in Keys(s), NEW v \in Values(s), CreateStore(s, k, v)
      PROVE  TensorsKept'
  <2>1. /\ spec' = s /\ keys' = k /\ values' = v
        /\ stage' = "failed" \/ (stage' = "created" /\ CreateAccepts(s))
    BY <1>3 DEF CreateStore
  <2>2. QED
    BY <2>1 DEF TensorsKept
<1>4. ASSUME NEW b \in DOMAIN records, NEW field \in HostFields, DamageRecord(b, field)
      PROVE  TensorsKept'
  <2>1. /\ stage = "created" /\ stage' = "created"
        /\ spec' = spec /\ keys' = keys /\ values' = values
    BY <1>4 DEF DamageRecord
  <2>2. QED
    BY <2>1 DEF TensorsKept
<1>5. ASSUME NEW selector \in Selectors, NEW s \in Specs, NEW onPath \in {"host", "device"},
             Read(selector, s, onPath)
      PROVE  TensorsKept'
  BY <1>5, ReadTensors
<1>6. ASSUME NEW requested, NEW require, NEW device, NEW extension, NEW triton,
             Construct(requested, require, device, extension, triton)
      PROVE  Beyond
  BY <1>6 DEF Construct
<1>7. ASSUME NEW q, NEW size, Attend(q, size)
      PROVE  Beyond
  BY <1>7 DEF Attend
<1>8. ASSUME RunChunk
      PROVE  Beyond
  <2>1. CASE stage' = "raised"
    BY <2>1
  <2>2. CASE stage' # "raised"
    BY <1>8, <2>2, Zenon DEF RunChunk, MergeChunk
  <2>3. QED
    BY <2>1, <2>2
<1>9. ASSUME LaunchHead
      PROVE  Beyond \/ Kept
  BY <1>9 DEF LaunchHead
<1>10. ASSUME RunThreads
       PROVE  Kept
  BY <1>10 DEF RunThreads
<1>11. ASSUME CollectHead
       PROVE  Beyond \/ Kept
  <2>1. UNCHANGED dataVars
    BY <1>11 DEF CollectHead
  <2>2. stage' \in {stage, "done", "attending"}
    BY <1>11, Zenon DEF CollectHead, MergeChunk
  <2>3. QED
    BY <2>1, <2>2
<1>12. ASSUME NEW c \in Configs, NEW v \in VllmValues(c), StoreBlock(c, v)
       PROVE  TensorsKept'
  <2>1. CASE stage' = "stored"
    <3>1. spec' = c /\ values' = v /\ SlotFits(v, c)
      BY <1>12, <2>1, EncodedFits DEF StoreBlock
    <3>2. QED
      BY <2>1, <3>1 DEF TensorsKept
  <2>2. CASE stage' # "stored"
    BY <1>1, <1>12, <2>2 DEF StoreBlock
  <2>3. QED
    BY <2>1, <2>2
<1>13. ASSUME NEW field \in BlockFields, DamageBlock(field)
       PROVE  TensorsKept'
  <2>1. stage = "stored" /\ stage' = "stored" /\ spec' = spec /\ values' = values
    BY <1>13 DEF DamageBlock
  <2>2. QED
    BY <2>1 DEF TensorsKept
<1>14. ASSUME NEW c \in Configs, LoadBlock(c)
       PROVE  TensorsKept'
  <2>1. /\ stage = "stored" /\ stage' \in {"absent", "loaded", "refused"}
        /\ spec' = spec /\ values' = values
    BY <1>14, Zenon DEF LoadBlock
  <2>2. QED
    BY <2>1 DEF TensorsKept
<1>15. CASE UNCHANGED vars
  BY <1>2, <1>15 DEF vars
<1>16. QED
  BY <1>1, <1>2, <1>3, <1>4, <1>5, <1>6, <1>7, <1>8, <1>9, <1>10, <1>11, <1>12, <1>13, <1>14,
     <1>15
     DEF Next, HostFields, BlockFields

(* Blocks read as they were created hold elements near the rows they came  *)
(* from (quant.py: quantize_tensor, dequantize_tensor).                    *)
LEMMA TensorsNear ==
    ASSUME TensorsKept, DamageDetected
    PROVE  ErrorBounded
<1>1. ASSUME stage = "read", damage = "none", NEW b \in DOMAIN selected
      PROVE  /\ NearTensor(Padded(keys, selected[b], spec),
                           Dequantize(blocks[b].key, spec.bits, spec.group_size),
                           spec.bits, spec.group_size, "float32")
             /\ NearTensor(Padded(values, selected[b], spec),
                           Dequantize(blocks[b].value, spec.bits, spec.group_size),
                           spec.bits, spec.group_size, "float32")
  <2>1. /\ spec \in Specs /\ CreateAccepts(spec) /\ selected[b] \in Nat
        /\ keys \in Seq(Rows(spec)) /\ values \in Seq(Rows(spec))
    BY <1>1, DataAssumption DEF TensorsKept
  <2>2. PICK key, value : /\ key = Padded(keys, selected[b], spec)
                          /\ value = Padded(values, selected[b], spec)
    OBVIOUS
  <2>3. /\ key \in Seq(Int) /\ Len(key) % spec.group_size = 0
        /\ value \in Seq(Int) /\ Len(value) % spec.group_size = 0
        /\ spec.bits \in {2, 4} /\ spec.group_size \in Nat \ {0}
        /\ spec.group_size % PerByte(spec.bits) = 0
    BY <2>1, <2>2, PaddedIs
  <2>4. /\ blocks[b].key = Quantize(key, spec.bits, spec.group_size)
        /\ blocks[b].value = Quantize(value, spec.bits, spec.group_size)
    BY <1>1, <2>2 DEF TensorsKept, Gives, CreateBlock
  <2>5. "float32" \in Dtypes
    BY DEF Dtypes
  <2>6. NearTensor(key, Dequantize(blocks[b].key, spec.bits, spec.group_size),
                   spec.bits, spec.group_size, "float32")
    BY <2>3, <2>4, <2>5, QuantizeNear, ToFloat32
  <2>7. NearTensor(value, Dequantize(blocks[b].value, spec.bits, spec.group_size),
                   spec.bits, spec.group_size, "float32")
    BY <2>3, <2>4, <2>5, QuantizeNear, ToFloat32
  <2>8. QED
    BY <2>2, <2>6, <2>7
<1>2. ASSUME stage = "loaded", damage = "none"
      PROVE  NearTensor(values, blocks.values, spec.bits, spec.group_size, spec.dtype)
  <2>1. SlotFits(values, spec)
    BY <1>2 DEF TensorsKept
  <2>2. /\ blocks.values = ToDtype(Dequantize(Quantize(values, spec.bits, spec.group_size),
                                              spec.bits, spec.group_size), blocks.dtype)
        /\ blocks.dtype = spec.dtype
    BY <1>2 DEF DamageDetected
  <2>3. QED
    BY <2>1, <2>2, QuantizeNear DEF SlotFits
<1>3. QED
  BY <1>1, <1>2 DEF ErrorBounded

(* An element comes back from its record within half a quantization step,  *)
(* plus what rounding its scale to float16 costs and, in a vLLM slot, half *)
(* a spacing of the slot's dtype, whatever was selected; it overflows a    *)
(* float16 slot only where the largest code times the scale is beyond its  *)
(* range (quant.py, format.py, vllm_codec.py).                             *)
THEOREM ReadsAreNear == Spec => []ErrorBounded
<1>1. Init => MediumInv /\ DamageDetected /\ TensorsKept
  BY DEF Init, MediumInv, DamageDetected, TensorsKept
<1>2. MediumInv /\ DamageDetected /\ [Next]_vars => MediumInv' /\ DamageDetected'
  BY StepMedium
<1>3. MediumInv /\ DamageDetected' /\ TensorsKept /\ [Next]_vars => TensorsKept'
  BY StepTensors
<1>4. TensorsKept /\ DamageDetected => ErrorBounded
  BY TensorsNear
<1>5. QED
  BY <1>1, <1>2, <1>3, <1>4, PTL DEF Spec

(***************************************************************************)
(* What comes back from quantization, exactly.                             *)
(***************************************************************************)
(* What an element v comes back as from a group whose largest is amax.     *)
Restored(v, amax, bits) == Times(Code(v, amax, bits) - Midpoint(bits), Half(amax, bits))

(* The largest element of the group of element i.                          *)
LargestIn(x, group, i) == AbsMax(GroupOf(x, group, (i - 1) \div group + 1))

(* Dequantization gives every element back as its group allows.            *)
LEMMA DequantizeIs ==
    ASSUME NEW x \in Seq(Int), NEW bits \in {2, 4}, NEW group \in Nat \ {0},
           Len(x) % group = 0, group % PerByte(bits) = 0
    PROVE  LET y == Dequantize(Quantize(x, bits, group), bits, group)
           IN  /\ DOMAIN y = 1..Len(x)
               /\ \A i \in 1..Len(x) : y[i] = Restored(x[i], LargestIn(x, group, i), bits)
<1>1. PICK n \in Nat : n = Len(x) /\ DOMAIN x = 1..n
  OBVIOUS
<1>2. PICK amax : amax = [j \in 1..(n \div group) |-> AbsMax(GroupOf(x, group, j))]
  OBVIOUS
<1>3. PICK codes : codes = [i \in 1..n |-> Code(x[i], amax[(i - 1) \div group + 1], bits)]
  OBVIOUS
<1>4. PICK scales : scales = [j \in DOMAIN amax |-> Half(amax[j], bits)]
  OBVIOUS
<1>5. PICK q : q = Quantize(x, bits, group)
  OBVIOUS
<1>6. q.packed = PackCodes(codes, bits) /\ q.scales = scales
  BY <1>1, <1>2, <1>3, <1>4, <1>5 DEF Quantize
<1>7. ASSUME NEW i \in 1..n
      PROVE  /\ IsCode(codes[i], bits) /\ codes[i] \in Int
             /\ codes[i] = Code(x[i], LargestIn(x, group, i), bits)
             /\ scales[(i - 1) \div group + 1] = Half(LargestIn(x, group, i), bits)
  <2>1. PICK j : j = (i - 1) \div group + 1
    OBVIOUS
  <2>2. PICK part : part = GroupOf(x, group, j)
    OBVIOUS
  <2>3. /\ j \in 1..(n \div group) /\ part \in Seq(Int) /\ Len(part) = group
        /\ \E k \in 1..group : part[k] = x[i]
    <3>1. i \in 1..Len(x)
      BY <1>1
    <3>2. Among(x, group, i, j)
      BY <2>1, <3>1, GroupHolds
    <3>3. QED
      BY <1>1, <2>2, <3>2 DEF Among
  <2>4. PICK m : m = AbsMax(part) /\ m = LargestIn(x, group, i)
    BY <2>1, <2>2 DEF LargestIn
  <2>5. m \in Nat /\ \A k \in 1..group : Magnitude(part[k]) <= m
    BY <2>3, <2>4, AbsMaxIs
  <2>6. Magnitude(x[i]) <= m /\ x[i] \in Int
    BY <1>1, <2>3, <2>5
  <2>7. amax[j] = m /\ j \in DOMAIN amax
    BY <1>2, <2>2, <2>3, <2>4
  <2>8. codes[i] = Code(x[i], m, bits)
    BY <1>3, <2>1, <2>7
  <2>9. scales[j] = Half(m, bits)
    BY <1>4, <2>7
  <2>10. IsCode(codes[i], bits)
    BY <2>5, <2>6, <2>8, CodeNear
  <2>11. codes[i] \in Int
    BY <2>10 DEF IsCode, Levels
  <2>12. QED
    BY <2>1, <2>4, <2>8, <2>9, <2>10, <2>11
<1>8. codes \in Seq(Int) /\ Len(codes) = n
  <2>1. codes \in [1..n -> Int]
    BY <1>3, <1>7
  <2>2. QED
    BY <1>3, <2>1
<1>9. n % PerByte(bits) = 0
  <2>1. PICK p \in {2, 4} : p = PerByte(bits)
    BY DEF PerByte
  <2>2. PICK a \in Nat : n = group * a
    BY <1>1, WholeGroups
  <2>3. PICK b \in Nat : group = p * b
    <3>1. p \in Nat \ {0} /\ group \in Nat /\ group % p = 0
      BY <2>1
    <3>2. group \div p \in Nat /\ group = p * (group \div p)
      BY ONLY <3>1, WholeGroups
    <3>3. QED
      BY <3>2
  <2>4. PICK d \in Nat : d = b * a
    OBVIOUS
  <2>5. n = p * d
    <3>1. (p * b) * a = p * (b * a)
      BY Regroup
    <3>2. QED
      BY ONLY <2>2, <2>3, <2>4, <3>1
  <2>6. (p * d) % p = 0
    BY <2>1
  <2>7. QED
    BY <2>1, <2>5, <2>6
<1>10. UnpackCodes(q.packed, bits) = codes
  BY <1>6, <1>7, <1>8, <1>9, PackRoundTrip
<1>11. Dequantize(q, bits, group) =
          [i \in 1..n |-> Times(codes[i] - Midpoint(bits), scales[(i - 1) \div group + 1])]
  BY <1>3, <1>6, <1>10 DEF Dequantize
<1>12. QED
  BY <1>1, <1>5, <1>7, <1>11 DEF Restored

(* Zeros come back as zeros.                                               *)
LEMMA ZerosRestored ==
    ASSUME NEW bits \in {2, 4}, NEW x \in Seq(Int), Len(x) # 0, \A i \in 1..Len(x) : x[i] = 0
    PROVE  AbsMax(x) = 0 /\ Restored(0, AbsMax(x), bits) = 0
<1>1. AbsMax(x) = 0
  <2>1. \A i \in 1..Len(x) : Magnitude(x[i]) = 0
    BY DEF Magnitude
  <2>2. 1 \in 1..Len(x) /\ DOMAIN x = 1..Len(x)
    OBVIOUS
  <2>3. {Magnitude(x[i]) : i \in DOMAIN x} = {0}
    BY <2>1, <2>2
  <2>4. \E m \in {0} : \A i \in DOMAIN x : Magnitude(x[i]) <= m
    BY <2>1, <2>2
  <2>5. AbsMax(x) \in {0}
    BY <2>3, <2>4, Zenon DEF AbsMax
  <2>6. QED
    BY <2>5
<1>2. Half(0, bits) \in Int
  BY HalfOfZero
<1>3. Code(0, 0, bits) - Midpoint(bits) = 0
  BY DEF Code, Midpoint, PositiveMax
<1>4. Half(0, bits) \notin {Inf, NaN}
  BY <1>2, HalfAssumption
<1>5. Times(0, Half(0, bits)) = 0
  BY <1>2, <1>4, 0 * Half(0, bits) = 0 DEF Times
<1>6. QED
  BY <1>1, <1>3, <1>5 DEF Restored

(* y stands in x behind t rows of its length.                              *)
RowIn(x, y, t, width) ==
    /\ x \in Seq(Int) /\ y \in Seq(Int) /\ Len(y) = width
    /\ t * width + width <= Len(x)
    /\ \A j \in 1..width : x[t * width + j] = y[j]

(* A group of a row of a tensor is the group of the row alone.             *)
LEMMA GroupShift ==
    ASSUME NEW g \in Nat \ {0}, NEW width \in Nat \ {0}, width % g = 0, NEW t \in Nat,
           NEW x, NEW y, RowIn(x, y, t, width), NEW j \in 1..width
    PROVE  LargestIn(x, g, t * width + j) = LargestIn(y, g, j)
<1>1. /\ x \in Seq(Int) /\ y \in Seq(Int) /\ Len(y) = width
      /\ t * width + width <= Len(x) /\ \A i \in 1..width : x[t * width + i] = y[i]
  BY DEF RowIn
<1>2. PICK gw \in Nat : width = g * gw /\ gw = width \div g
  BY WholeGroups
<1>3. PICK a \in Nat, r \in 0..(g - 1) : j - 1 = g * a + r /\ a = (j - 1) \div g
  <2>1. j - 1 \in Nat
    OBVIOUS
  <2>2. PICK a \in Nat, r \in 0..(g - 1) :
            a = (j - 1) \div g /\ r = (j - 1) % g /\ j - 1 = g * a + r
    BY ONLY <2>1, g \in Nat \ {0}
  <2>3. QED
    BY <2>2
<1>4. a + 1 \in 1..gw
  <2>1. Among(y, g, j, a + 1)
    <3>1. Len(y) % g = 0 /\ j \in 1..Len(y)
      BY <1>1
    <3>2. Among(y, g, j, (j - 1) \div g + 1)
      BY <1>1, <3>1, GroupHolds
    <3>3. QED
      BY <1>3, <3>2
  <2>2. QED
    BY <1>1, <1>2, <2>1 DEF Among
<1>5. PICK m \in Nat, o \in Nat, e \in Nat : m = t * gw /\ o = t * width /\ e = g * a
  OBVIOUS
<1>6. o = g * m
  BY <1>2, <1>5, Regroup
<1>7. (o + j - 1) \div g = m + a
  <2>1. g * (m + a) = o + e
    BY <1>5, <1>6, Regroup
  <2>2. PICK p \in Int : p = m + a
    OBVIOUS
  <2>3. PICK f \in Int : f = g * p /\ f = o + e
    BY <2>1, <2>2
  <2>4. j - 1 = e + r
    BY <1>3, <1>5
  <2>5. PICK c \in Int : c = o + j - 1
    OBVIOUS
  <2>6. c = f + r
    BY ONLY <2>3, <2>4, <2>5, o \in Nat, e \in Nat, r \in 0..(g - 1), f \in Int, j \in Int,
            g \in Nat
  <2>7. c = g * p + r
    BY <2>3, <2>6
  <2>8. c \div g = p
    BY ONLY g \in Nat \ {0}, p \in Int, r \in 0..(g - 1), <2>7, DivModIs
  <2>9. QED
    BY <2>2, <2>5, <2>8
<1>8. /\ (a + 1 - 1) * g = e /\ (a + 1) * g = e + g
      /\ (m + a + 1 - 1) * g = o + e /\ (m + a + 1) * g = o + e + g
  <2>1. (a + 1) * g = a * g + 1 * g /\ a * g = g * a /\ (m + a) * g = m * g + a * g
                                         /\ m * g = g * m
    BY Regroup
  <2>2. ((m + a) + 1) * g = (m + a) * g + 1 * g
    <3>1. PICK p \in Int : p = m + a
      OBVIOUS
    <3>2. (p + 1) * g = p * g + 1 * g
      BY Regroup
    <3>3. QED
      BY <3>1, <3>2
  <2>3. 1 * g = g /\ a + 1 - 1 = a /\ m + a + 1 - 1 = m + a
    OBVIOUS
  <2>4. QED
    BY <1>5, <1>6, <2>1, <2>2, <2>3
<1>9. e + g <= width
  <2>1. g * (a + 1) <= g * gw
    BY <1>4
  <2>2. g * (a + 1) = e + g
    BY <1>5
  <2>3. QED
    BY <1>2, <2>1, <2>2
<1>10. PICK part : part = SubSeq(y, e + 1, e + g)
  OBVIOUS
<1>11. part \in Seq(Int) /\ Len(part) = g /\ \A i \in 1..g : part[i] = y[e + i]
  <2>1. y \in Seq(Int) /\ e + g <= Len(y)
    BY <1>1, <1>9
  <2>2. part \in Seq(Int)
    BY ONLY <1>10, <2>1, e \in Nat, g \in Nat \ {0}, SMTT(30)
  <2>3. Len(part) = g
    BY ONLY <1>10, <2>1, e \in Nat, g \in Nat \ {0}, SMTT(30)
  <2>4. \A i \in 1..g : part[i] = y[e + i]
    BY ONLY <1>10, <2>1, e \in Nat, g \in Nat \ {0}, SMTT(30)
  <2>5. QED
    BY <2>2, <2>3, <2>4
<1>12. \A i \in 1..g : x[o + e + i] = part[i]
  <2>1. ASSUME NEW i \in 1..g
        PROVE  x[o + e + i] = part[i]
    <3>1. e + i \in 1..width /\ o + e + i = o + (e + i)
      BY <1>9
    <3>2. x[o + (e + i)] = y[e + i]
      BY <1>1, <1>5, <3>1
    <3>3. QED
      BY <1>11, <3>1, <3>2
  <2>2. QED
    BY <2>1
<1>13. SubSeq(x, o + e + 1, o + e + g) = part
  <2>1. PICK k \in Nat, l \in Nat : k = o + e /\ l = k + Len(part) /\ l = o + e + g
    BY <1>11
  <2>2. l <= Len(x)
    BY <1>1, <1>5, <1>9, <2>1
  <2>3. \A i \in 1..Len(part) : x[k + i] = part[i]
    BY <1>11, <1>12, <2>1
  <2>4. SubSeq(x, k + 1, l) = part
    BY <1>1, <1>11, <2>1, <2>2, <2>3, PartIs
  <2>5. QED
    BY <2>1, <2>4
<1>14. GroupOf(y, g, a + 1) = part /\ GroupOf(x, g, m + a + 1) = part
  <2>1. PICK b \in Int, d \in Int : b = a + 1 /\ d = m + a + 1
    OBVIOUS
  <2>2. (b - 1) * g = e /\ b * g = e + g /\ (d - 1) * g = o + e /\ d * g = o + e + g
    BY <1>8, <2>1
  <2>3. GroupOf(y, g, b) = part /\ GroupOf(x, g, d) = part
    BY <1>10, <1>13, <2>2, Zenon DEF GroupOf
  <2>4. QED
    BY <2>1, <2>3
<1>15. LargestIn(y, g, j) = AbsMax(part)
  BY <1>3, <1>14 DEF LargestIn
<1>16. LargestIn(x, g, o + j) = AbsMax(part)
  BY <1>7, <1>14 DEF LargestIn
<1>17. QED
  BY <1>5, <1>15, <1>16

(* Token t of block b (both from 0), or the zeros that stand for it.       *)
Row(rows, b, s, t) ==
    IF b * s.block_tokens + t < Len(rows) THEN rows[b * s.block_tokens + t + 1]
    ELSE [i \in 1..(s.kv_heads * s.head_dim) |-> 0]

(* A block holds its tokens row after row.                                 *)
LEMMA PaddedRowIs ==
    ASSUME NEW s \in Specs, CreateAccepts(s), NEW rows \in Seq(Rows(s)), NEW b \in Nat,
           NEW t \in 0..(s.block_tokens - 1)
    PROVE  /\ s.kv_heads * s.head_dim \in Nat \ {0}
           /\ Row(rows, b, s, t) \in [1..(s.kv_heads * s.head_dim) -> Int]
           /\ RowIn(Padded(rows, b, s), Row(rows, b, s, t), t, s.kv_heads * s.head_dim)
<1>1. PICK kv \in Nat \ {0}, dim \in Nat \ {0}, tokens \in Nat \ {0} :
          /\ kv = s.kv_heads /\ dim = s.head_dim /\ tokens = s.block_tokens
          /\ t \in 0..(tokens - 1)
  <2>1. s.kv_heads > 0 /\ s.head_dim > 0 /\ s.block_tokens > 0
    BY DEF CreateAccepts, ValidSpec
  <2>2. Sized(s)
    BY AcceptedSized
  <2>3. QED
    BY <2>1, <2>2 DEF Sized
<1>2. PICK width \in Nat \ {0} : width = kv * dim
  OBVIOUS
<1>3. PICK o \in Nat, e \in Nat, n \in Nat :
          o = b * tokens /\ e = t * width /\ n = tokens * width
  <2>1. t \in Nat
    BY <1>1
  <2>2. QED
    BY <2>1, Regroup
<1>4. e + width <= n
  <2>1. PICK u \in Nat : tokens = (t + 1) + u /\ t \in Nat
    <3>1. tokens - (t + 1) \in Nat /\ t \in Nat /\ tokens = (t + 1) + (tokens - (t + 1))
      BY <1>1
    <3>2. QED
      BY <3>1
  <2>2. ((t + 1) + u) * width = (t + 1) * width + u * width
         /\ (t + 1) * width = t * width + 1 * width
        /\ u * width \in Nat
    BY Regroup
  <2>3. n = e + width + u * width
    BY <1>3, <2>1, <2>2
  <2>4. QED
    BY <2>2, <2>3
<1>5. PICK x : x = Padded(rows, b, s)
  OBVIOUS
<1>6. x \in Seq(Int)
  BY <1>5, PaddedIs
<1>7. x = [i \in 1..n |-> IF o + (i - 1) \div width < Len(rows)
                          THEN rows[o + (i - 1) \div width + 1][((i - 1) % width) + 1] ELSE 0]
  BY <1>1, <1>2, <1>3, <1>5, Zenon DEF Padded
<1>8. Len(x) = n
  BY <1>6, <1>7
<1>9. PICK y : y = Row(rows, b, s, t)
  OBVIOUS
<1>10. y = IF o + t < Len(rows) THEN rows[o + t + 1] ELSE [i \in 1..width |-> 0]
  BY <1>1, <1>2, <1>3, <1>9 DEF Row
<1>11. Rows(s) = [1..width -> Int]
  BY <1>1, <1>2 DEF Rows
<1>12. y \in [1..width -> Int]
  <2>1. CASE o + t < Len(rows)
    <3>1. t \in Nat /\ Len(rows) \in Nat
      BY <1>1
    <3>2. o + t + 1 \in 1..Len(rows)
      BY ONLY <2>1, <3>1, o \in Nat
    <3>3. QED
      BY <1>10, <1>11, <2>1, <3>2
  <2>2. CASE ~(o + t < Len(rows))
    BY <1>10, <2>2
  <2>3. QED
    BY <2>1, <2>2
<1>13. ASSUME NEW j \in 1..width
       PROVE  x[e + j] = y[j]
  <2>1. PICK i \in 1..n : i = e + j
    BY <1>3, <1>4
  <2>2. PICK r \in 0..(width - 1) : r = j - 1
    OBVIOUS
  <2>3. PICK a \in Int : a = i - 1
    OBVIOUS
  <2>4. a = width * t + r
    <3>1. t * width = width * t
      BY <1>1, Regroup
    <3>2. a = e + r
      BY <2>1, <2>2, <2>3
    <3>3. QED
      BY <1>3, <3>1, <3>2
  <2>5. a \div width = t /\ a % width = r
    <3>1. t \in Int
      BY <1>1
    <3>2. QED
      BY ONLY <2>4, <3>1, width \in Nat \ {0}, r \in 0..(width - 1), DivModIs
  <2>6. x[i] = IF o + t < Len(rows) THEN rows[o + t + 1][r + 1] ELSE 0
    BY <1>7, <2>3, <2>5
  <2>7. QED
    BY <1>10, <2>1, <2>2, <2>6
<1>14. y \in Seq(Int) /\ Len(y) = width
  BY ONLY <1>12, width \in Nat \ {0}
<1>15. RowIn(x, y, t, width)
  BY <1>3, <1>4, <1>6, <1>8, <1>13, <1>14 DEF RowIn
<1>16. QED
  BY <1>1, <1>2, <1>5, <1>9, <1>12, <1>15

(* Zeros come back as zeros.                                               *)
LEMMA ZeroRowRestored ==
    ASSUME NEW bits \in {2, 4}, NEW g \in Nat \ {0}, NEW width \in Nat \ {0}, width % g = 0,
           NEW y, y = [i \in 1..width |-> 0], NEW j \in 1..width
    PROVE  Restored(0, LargestIn(y, g, j), bits) = 0
<1>1. y \in Seq(Int) /\ y \in Seq({0}) /\ Len(y) = width
  OBVIOUS
<1>2. PICK a : a = (j - 1) \div g + 1
  OBVIOUS
<1>3. Among(y, g, j, a)
  BY <1>1, <1>2, GroupHolds
<1>4. PICK part : part = GroupOf(y, g, a)
  OBVIOUS
<1>5. part \in Seq(Int) /\ Len(part) = g
  BY <1>3, <1>4 DEF Among
<1>6. PICK lo \in Int, hi \in Int :
          lo = (a - 1) * g + 1 /\ hi = a * g /\ part = SubSeq(y, lo, hi)
  <2>1. a \in Int
    BY <1>2
  <2>2. QED
    BY <1>4, <2>1 DEF GroupOf
<1>7. \A i \in 1..Len(part) : part[i] = 0
  <2>1. a \in 1..(width \div g)
    BY <1>1, <1>3 DEF Among
  <2>2. PICK q \in Nat, u \in Nat, v \in Nat : q = width \div g /\ a = u + 1 /\ q = a + v
    <3>1. PICK q \in Int : q = width \div g
      OBVIOUS
    <3>2. a \in 1..q
      BY <2>1, <3>1
    <3>3. q \in Nat /\ a - 1 \in Nat /\ q - a \in Nat /\ a = (a - 1) + 1 /\ q = a + (q - a)
      BY <3>2
    <3>4. QED
      BY <3>1, <3>3
  <2>3. /\ width = q * g /\ a \in Nat
        /\ (a + v) * g = a * g + v * g /\ (u + 1) * g = u * g + g
        /\ u * g \in Nat /\ v * g \in Nat
    BY <2>2, WholeGroups
  <2>4. a * g = u * g + g /\ a - 1 = u
    BY <2>2, <2>3
  <2>5. lo = u * g + 1 /\ hi = u * g + g /\ width = hi + v * g
    BY <1>6, <2>2, <2>3, <2>4
  <2>6. lo \in 1..hi /\ hi \in 1..width
    BY <2>3, <2>5
  <2>7. \A i \in lo..hi : y[i] = 0
    BY <2>6
  <2>8. Len(part) = hi - lo + 1 /\ \A i \in 1..Len(part) : part[i] = y[lo + i - 1]
    BY <1>1, <1>6, <2>6, SMTT(30)
  <2>9. QED
    BY <2>6, <2>7, <2>8
<1>8. AbsMax(part) = 0 /\ Restored(0, AbsMax(part), bits) = 0
  <2>1. Len(part) # 0
    BY <1>5
  <2>2. QED
    BY <1>5, <1>7, <2>1, ZerosRestored
<1>9. QED
  BY <1>2, <1>4, <1>8 DEF LargestIn

(* A whole number of heads has whole groups.                               *)
LEMMA WidthGroups ==
    ASSUME NEW s \in Specs, CreateAccepts(s)
    PROVE  /\ s.bits \in {2, 4} /\ s.group_size \in Nat \ {0}
                /\ s.group_size % PerByte(s.bits) = 0
           /\ (s.kv_heads * s.head_dim) % s.group_size = 0
<1>1. Sized(s)
  BY AcceptedSized
<1>2. PICK kv \in Nat, dim \in Nat, g \in Nat \ {0} :
          kv = s.kv_heads /\ dim = s.head_dim /\ g = s.group_size /\ dim % g = 0
  BY <1>1 DEF Sized
<1>3. PICK q \in Nat : dim = g * q
  <2>1. dim \div g \in Nat /\ dim = g * (dim \div g)
    BY ONLY <1>2, dim \in Nat, g \in Nat \ {0}, WholeGroups
  <2>2. QED
    BY <2>1
<1>4. PICK m \in Nat : m = kv * q
  OBVIOUS
<1>5. kv * dim = g * m
  <2>1. kv * (g * q) = (kv * g) * q /\ kv * g = g * kv /\ (g * kv) * q = g * (kv * q)
    BY Regroup
  <2>2. QED
    BY <1>3, <1>4, <2>1
<1>6. (g * m) % g = 0
  OBVIOUS
<1>7. QED
  BY <1>1, <1>2, <1>5, <1>6 DEF Sized

(* An exact tensor in units.                                               *)
LEMMA UnitsAre ==
    ASSUME NEW s \in Specs, CreateAccepts(s), NEW x \in Exact(s), x \in Keys(s) \cup Values(s),
           NEW u, u = InUnits(x, s)
    PROVE  /\ x \in Seq(Rows(s)) /\ u \in Seq(Rows(s)) /\ Len(u) = Len(x) /\ DOMAIN u = DOMAIN x
           /\ \A t \in DOMAIN x : \A i \in 1..(s.kv_heads * s.head_dim) :
                 x[t][i] = PositiveMax(s.bits) * u[t][i]
<1>1. x \in Seq(Rows(s))
  BY DataAssumption
<1>2. PICK n \in Nat : n = Len(x) /\ DOMAIN x = 1..n
  BY <1>1
<1>3. PICK W : W = 1..(s.kv_heads * s.head_dim)
  OBVIOUS
<1>4. \A t \in 1..n : x[t] \in [W -> Int]
  BY <1>1, <1>2, <1>3 DEF Rows
<1>5. PICK p \in {1, 7} : p = PositiveMax(s.bits)
  BY DEF PositiveMax, Midpoint, CreateAccepts, ValidSpec
<1>6. ASSUME NEW t \in 1..n, NEW i \in W
      PROVE  Whole(x[t][i], s.bits) \in Int
  <2>1. x[t][i] \in Int
    BY <1>4
  <2>2. QED
    BY <1>5, <2>1 DEF Whole
<1>7. u = [t \in 1..n |-> [i \in W |-> Whole(x[t][i], s.bits)]]
  BY <1>2, <1>3 DEF InUnits
<1>8. u \in [1..n -> [W -> Int]]
  BY <1>6, <1>7
<1>9. Rows(s) = [W -> Int]
  BY <1>3 DEF Rows
<1>10. u \in Seq(Rows(s)) /\ Len(u) = n /\ DOMAIN u = 1..n
  BY <1>8, <1>9
<1>11. ASSUME NEW t \in DOMAIN x, NEW i \in W
       PROVE  x[t][i] = PositiveMax(s.bits) * u[t][i]
  <2>1. s \in {r \in Specs : CreateAccepts(r)}
    OBVIOUS
  <2>2. x[t] = [e \in DOMAIN x[t] |-> PositiveMax(s.bits) * InUnits(x, s)[t][e]]
    <3>1. ExactRow(x[t], InUnits(x, s)[t], s)
      BY <2>1, ExactAssumption, Zenon
    <3>2. QED
      BY <3>1, Zenon DEF ExactRow
  <2>3. DOMAIN x[t] = W
    BY <1>2, <1>4
  <2>4. PICK y, v : y = x[t] /\ v = InUnits(x, s)[t]
    OBVIOUS
  <2>5. y = [e \in W |-> PositiveMax(s.bits) * v[e]]
    BY <2>2, <2>3, <2>4
  <2>6. y[i] = PositiveMax(s.bits) * v[i]
    BY <2>5
  <2>7. QED
    BY <2>4, <2>6
<1>12. QED
  BY <1>1, <1>2, <1>3, <1>10, <1>11

(* What is read of row t of an exact tensor: what was written.             *)
LEMMA RowRestored ==
    ASSUME NEW s \in Specs, CreateAccepts(s), NEW x \in Exact(s), x \in Keys(s) \cup Values(s),
           NEW b \in Nat, NEW t \in 0..(s.block_tokens - 1),
           NEW width, width = s.kv_heads * s.head_dim, NEW j \in 1..width
    PROVE  /\ t * width + j \in 1..Len(Padded(x, b, s))
           /\ Dequantize(Quantize(Padded(x, b, s), s.bits, s.group_size), s.bits, s.group_size)
                 [t * width + j] = PositiveMax(s.bits) * Row(InUnits(x, s), b, s, t)[j]
<1>1. x \in Seq(Rows(s))
  BY DataAssumption
<1>13. PICK u : u = InUnits(x, s)
  OBVIOUS
<1>14. /\ Len(u) = Len(x)
       /\ \A n \in DOMAIN x : \A i \in 1..width : x[n][i] = PositiveMax(s.bits) * u[n][i]
  BY <1>13, UnitsAre
<1>15. PICK v : v = Row(u, b, s, t)
  OBVIOUS
<1>2. PICK bits \in {2, 4}, g \in Nat \ {0} :
          bits = s.bits /\ g = s.group_size /\ g % PerByte(bits) = 0 /\ width % g = 0
  BY WidthGroups
<1>3. PICK xx, y : xx = Padded(x, b, s) /\ y = Row(x, b, s, t)
  OBVIOUS
<1>4. width \in Nat \ {0} /\ y \in [1..width -> Int] /\ RowIn(xx, y, t, width)
  BY <1>1, <1>3, PaddedRowIs
<1>5. xx \in Seq(Int) /\ Len(xx) % g = 0
  BY <1>1, <1>2, <1>3, PaddedIs
<1>6. t \in Nat
  BY AcceptedSized DEF Sized
<1>7. PICK i \in 1..Len(xx) : i = t * width + j
  <2>1. PICK o \in Nat : o = t * width
    BY <1>4, <1>6
  <2>2. o + width <= Len(xx)
    BY <1>4, <2>1 DEF RowIn
  <2>3. o + j \in 1..Len(xx)
    BY <1>4, <1>5, <2>2
  <2>4. QED
    BY <2>1, <2>3
<1>8. xx[i] = y[j]
  BY <1>4, <1>7 DEF RowIn
<1>9. LargestIn(xx, g, i) = LargestIn(y, g, j)
  <2>1. width % g = 0
    BY <1>2
  <2>2. LargestIn(xx, g, t * width + j) = LargestIn(y, g, j)
    BY ONLY <1>4, <1>6, <2>1, g \in Nat \ {0}, j \in 1..width, GroupShift
  <2>3. QED
    BY <1>7, <2>2
<1>10. Dequantize(Quantize(xx, bits, g), bits, g)[i] = Restored(y[j], LargestIn(y, g, j), bits)
  <2>1. /\ xx \in Seq(Int) /\ bits \in {2, 4} /\ g \in Nat \ {0}
        /\ Len(xx) % g = 0 /\ g % PerByte(bits) = 0
    BY <1>2, <1>5
  <2>2. \A k \in 1..Len(xx) :
            Dequantize(Quantize(xx, bits, g), bits, g)[k] = Restored(xx[k], LargestIn(xx, g, k), bits)
    BY ONLY <2>1, DequantizeIs
  <2>3. QED
    BY <1>8, <1>9, <2>2
<1>11. Restored(y[j], LargestIn(y, g, j), bits) = PositiveMax(bits) * v[j]
  <2>1. CASE b * s.block_tokens + t < Len(x)
    <3>1. PICK tt : tt = b * s.block_tokens + t + 1
      OBVIOUS
    <3>2. tt \in DOMAIN x
      <4>1. s.block_tokens \in Nat
        BY AcceptedSized DEF Sized
      <4>2. PICK a \in Nat : a = b * s.block_tokens
        BY <4>1
      <4>3. Len(x) \in Nat /\ DOMAIN x = 1..Len(x)
        BY <1>1
      <4>4. QED
        BY <1>6, <2>1, <3>1, <4>2, <4>3
    <3>3. y = x[tt]
      BY <1>3, <2>1, <3>1 DEF Row
    <3>4. v = u[tt]
      BY <1>14, <1>15, <2>1, <3>1 DEF Row
    <3>5. Dequantize(Quantize(y, bits, g), bits, g) = y
      <4>1. s \in {r \in Specs : CreateAccepts(r)}
        OBVIOUS
      <4>2. \A n \in DOMAIN x :
               Dequantize(Quantize(x[n], s.bits, s.group_size), s.bits, s.group_size) = x[n]
        <5>1. \A n \in DOMAIN x : ExactRow(x[n], InUnits(x, s)[n], s)
          BY <4>1, ExactAssumption, Zenon
        <5>2. QED
          BY <5>1, Zenon DEF ExactRow
      <4>3. QED
        BY <1>2, <3>2, <3>3, <4>2
    <3>6. y[j] = PositiveMax(bits) * v[j]
      BY <1>2, <1>14, <3>2, <3>3, <3>4
    <3>7. Dequantize(Quantize(y, bits, g), bits, g)[j] = Restored(y[j], LargestIn(y, g, j), bits)
      <4>1. y \in Seq(Int) /\ Len(y) = width
        BY <1>4 DEF RowIn
      <4>2. Len(y) % g = 0 /\ g % PerByte(bits) = 0 /\ j \in 1..Len(y)
        BY <1>2, <4>1
      <4>3. QED
        BY <4>1, <4>2, DequantizeIs
    <3>8. QED
      BY <3>5, <3>6, <3>7
  <2>2. CASE ~(b * s.block_tokens + t < Len(x))
    <3>1. y = [e \in 1..width |-> 0]
      BY <1>3, <2>2 DEF Row
    <3>2. v = [e \in 1..width |-> 0]
      BY <1>14, <1>15, <2>2 DEF Row
    <3>3. Restored(0, LargestIn(y, g, j), bits) = 0
      BY <1>2, <1>4, <3>1, ZeroRowRestored
    <3>4. y[j] = 0 /\ v[j] = 0 /\ PositiveMax(bits) * 0 = 0
      BY <3>1, <3>2 DEF PositiveMax, Midpoint
    <3>5. QED
      BY <3>3, <3>4
  <2>3. QED
    BY <2>1, <2>2
<1>12. QED
  BY <1>2, <1>3, <1>7, <1>10, <1>11, <1>13, <1>15

(***************************************************************************)
(* What the kernels find in a batch.                                       *)
(***************************************************************************)
(* i is place d behind r rows of w, which p divides.                       *)
PlaceOf(i, r, w, d, p, m) == w = p * m /\ i = r * w + d

(* The quotient and the remainder are those of d, behind m a row.          *)
Quotient(i, r, d, p, m) == i \div p = r * m + d \div p /\ i % p = d % p

(* A quotient by a divisor of the width of the rows.                       *)
LEMMA RowQuotient ==
    ASSUME NEW p \in Nat \ {0}, NEW m \in Nat, NEW r \in Nat, NEW d \in Nat,
           NEW w \in Nat, NEW i \in Nat, PlaceOf(i, r, w, d, p, m)
    PROVE  Quotient(i, r, d, p, m)
<1>1. PICK a \in Nat, e \in 0..(p - 1) : d = p * a + e /\ a = d \div p /\ e = d % p
  OBVIOUS
<1>2. PICK b \in Nat : b = r * m
  OBVIOUS
<1>3. r * w = p * b
  <2>1. w = p * m
    BY DEF PlaceOf
  <2>2. r * (p * m) = (r * p) * m /\ r * p = p * r /\ (p * r) * m = p * (r * m)
    BY Regroup
  <2>3. QED
    BY <1>2, <2>1, <2>2
<1>4. PICK c \in Int : c = b + a
  OBVIOUS
<1>5. p * c = p * b + p * a
  BY <1>4, Regroup
<1>6. PICK y \in Int, z \in Int : y = p * b /\ z = p * a
  OBVIOUS
<1>7. i = p * c + e
  <2>1. i = r * w + d
    BY DEF PlaceOf
  <2>2. i = y + d /\ d = z + e /\ p * c = y + z
    BY <1>1, <1>3, <1>5, <1>6, <2>1
  <2>3. QED
    BY <2>2
<1>8. i \div p = c /\ i % p = e
  BY ONLY <1>7, p \in Nat \ {0}, c \in Int, e \in 0..(p - 1), DivModIs
<1>9. QED
  BY <1>1, <1>2, <1>4, <1>8 DEF Quotient

(* The fields of a batch that the kernels compute indices from.            *)
Shape(batch, bits, g, kv, dim) ==
    /\ bits \in {2, 4} /\ g \in Nat \ {0} /\ g % PerByte(bits) = 0
    /\ kv \in Nat \ {0} /\ dim \in Nat \ {0} /\ dim % g = 0
    /\ batch.bits = bits /\ batch.group_size = g /\ batch.kv_heads = kv
    /\ batch.packed_dim = (dim * bits) \div 8 /\ batch.groups = dim \div g

(* A row is a whole number of bytes.                                       *)
LEMMA BytesOfRow ==
    ASSUME NEW bits \in {2, 4}, NEW g \in Nat \ {0}, g % PerByte(bits) = 0,
           NEW dim \in Nat, dim % g = 0
    PROVE  (dim * bits) \div 8 \in Nat /\ dim = PerByte(bits) * ((dim * bits) \div 8)
<1>1. PICK p \in {2, 4} : p = PerByte(bits) /\ p * bits = 8
  BY DEF PerByte
<1>2. PICK a \in Nat : dim = g * a
  BY WholeGroups
<1>3. PICK b \in Nat : g = p * b
  <2>1. g \div p \in Nat /\ g = p * (g \div p)
    BY <1>1, WholeGroups
  <2>2. QED
    BY <2>1
<1>4. PICK m \in Nat : m = b * a
  OBVIOUS
<1>5. dim = p * m
  <2>1. (p * b) * a = p * (b * a)
    BY <1>1, Regroup
  <2>2. QED
    BY <1>2, <1>3, <1>4, <2>1
<1>6. dim * bits = 8 * m
  <2>1. (p * m) * bits = (p * bits) * m
    BY <1>1, Regroup
  <2>2. QED
    BY <1>1, <1>5, <2>1
<1>7. QED
  BY <1>1, <1>5, <1>6

(* i is element d of head h of row t.                                      *)
CellAt(i, t, h, d, kv, dim) ==
    /\ t \in Nat /\ h \in 0..(kv - 1) /\ d \in 0..(dim - 1)
    /\ i = t * (kv * dim) + (h * dim + d + 1)

(* q holds x in the layout of the batch.                                   *)
Packs(q, x, batch, bits, g, kv, dim) ==
    /\ Shape(batch, bits, g, kv, dim)
    /\ x \in Seq(Int) /\ Len(x) % g = 0 /\ q = Quantize(x, bits, g)

(* The kernels' index arithmetic finds the element that dequantization     *)
(* gives at the place of the element in the tensor.                        *)
LEMMA ElementIs ==
    ASSUME NEW batch, NEW bits, NEW g, NEW kv, NEW dim, NEW x, NEW q,
           Packs(q, x, batch, bits, g, kv, dim),
           NEW i \in 1..Len(x), NEW t, NEW h, NEW d, CellAt(i, t, h, d, kv, dim)
    PROVE  Element(q, batch, t, h, d) = Dequantize(q, bits, g)[i]
<1>1. /\ bits \in {2, 4} /\ g \in Nat \ {0} /\ g % PerByte(bits) = 0
      /\ kv \in Nat \ {0} /\ dim \in Nat \ {0} /\ dim % g = 0
      /\ t \in Nat /\ h \in Nat /\ d \in Nat
      /\ x \in Seq(Int) /\ Len(x) % g = 0 /\ q = Quantize(x, bits, g)
      /\ Shape(batch, bits, g, kv, dim)
  BY DEF Shape, Packs, CellAt
<1>2. PICK p \in {2, 4}, pd \in Nat, gs \in Nat :
          /\ p = PerByte(bits) /\ pd = batch.packed_dim /\ dim = p * pd
          /\ gs = batch.groups /\ dim = g * gs
  <2>1. PerByte(bits) \in {2, 4}
    BY <1>1 DEF PerByte
  <2>2. /\ (dim * bits) \div 8 \in Nat /\ dim = PerByte(bits) * ((dim * bits) \div 8)
        /\ dim \div g \in Nat /\ dim = g * (dim \div g)
    BY <1>1, BytesOfRow, WholeGroups
  <2>3. QED
    BY <1>1, <2>1, <2>2 DEF Shape
<1>3. PICK r \in Nat : r = t * kv + h
  <2>1. t * kv \in Nat
    BY <1>1
  <2>2. QED
    BY <1>1, <2>1
<1>4. PICK j \in Nat : j = i - 1 /\ j = r * dim + d
  <2>1. t * (kv * dim) = (t * kv) * dim /\ (t * kv + h) * dim = (t * kv) * dim + h * dim
    <3>1. t * kv \in Int
      BY <1>1
    <3>2. QED
      BY <1>1, <3>1, Regroup
  <2>2. PICK y \in Int, z \in Int : y = (t * kv) * dim /\ z = h * dim
    <3>1. t * kv \in Int
      BY <1>1
    <3>2. QED
      BY <1>1, <3>1
  <2>3. i = y + (z + d + 1) /\ r * dim = y + z
    BY <1>3, <2>1, <2>2 DEF CellAt
  <2>4. i - 1 \in Nat /\ i - 1 = r * dim + d
    BY <1>1, <2>3
  <2>5. QED
    BY <2>4
<1>5. j \div p = r * pd + d \div p /\ j % p = d % p
  <2>1. p \in Nat \ {0} /\ d \in Nat /\ dim \in Nat
    BY <1>1
  <2>2. PlaceOf(j, r, dim, d, p, pd)
    BY <1>2, <1>4 DEF PlaceOf
  <2>3. Quotient(j, r, d, p, pd)
    BY <2>1, <2>2, RowQuotient, Zenon
  <2>4. QED
    BY <2>3 DEF Quotient
<1>6. j \div g = r * gs + d \div g
  <2>1. g \in Nat \ {0} /\ d \in Nat /\ dim \in Nat
    BY <1>1
  <2>2. PlaceOf(j, r, dim, d, g, gs)
    BY <1>2, <1>4 DEF PlaceOf
  <2>3. Quotient(j, r, d, g, gs)
    BY <2>1, <2>2, RowQuotient, Zenon
  <2>4. QED
    BY <2>3 DEF Quotient
<1>7. PICK codes : codes = UnpackCodes(q.packed, bits)
  OBVIOUS
<1>8. Dequantize(q, bits, g) = [e \in DOMAIN codes |->
            Times(codes[e] - Midpoint(bits), q.scales[(e - 1) \div g + 1])]
  BY <1>7 DEF Dequantize
<1>9. i \in DOMAIN codes
  <2>1. DOMAIN Dequantize(q, bits, g) = 1..Len(x)
    BY <1>1, DequantizeIs
  <2>2. QED
    BY <1>8, <2>1
<1>10. codes[i] = CodeIn(q.packed[(j \div p) + 1], bits, j % p)
  BY <1>2, <1>4, <1>7, <1>9 DEF UnpackCodes
<1>11. Dequantize(q, bits, g)[i]
          = Times(CodeIn(q.packed[r * pd + d \div p + 1], bits, d % p) - Midpoint(bits),
                  q.scales[r * gs + d \div g + 1])
  BY <1>4, <1>5, <1>6, <1>8, <1>9, <1>10
<1>12. Element(q, batch, t, h, d)
          = Times(CodeIn(q.packed[r * pd + d \div p + 1], bits, d % p) - Midpoint(bits),
                  q.scales[r * gs + d \div g + 1])
  BY <1>1, <1>2, <1>3, Zenon DEF Element, Shape
<1>13. QED
  BY <1>11, <1>12

(* q is block b of a tensor that is u in units and quantizes exactly.      *)
Coded(q, u, b, s) ==
    \E x \in (Keys(s) \cup Values(s)) \cap Exact(s) :
        u = InUnits(x, s) /\ q = Quantize(Padded(x, b, s), s.bits, s.group_size)

(* The exact keys of a spec, in units.                                     *)
UnitKeys(s) == {InUnits(x, s) : x \in Keys(s) \cap Exact(s)}

(* The batch of n blocks, those behind the first a that were selected, of  *)
(* tensors that are ks and vs in units.                                    *)
Chunk(batch, s, ks, vs, ids, a, n) ==
    /\ s \in Specs /\ CreateAccepts(s)
    /\ ks \in UnitKeys(s) /\ ks \in Seq(Rows(s)) /\ vs \in Seq(Rows(s))
    /\ Shape(batch, s.bits, s.group_size, s.kv_heads, s.head_dim)
    /\ batch.tokens = s.block_tokens
    /\ DOMAIN batch.key = 1..n /\ batch.valid \in [1..n -> 1..s.block_tokens]
    /\ \A j \in 1..n :
          /\ ids[a + j] \in Nat
          /\ Coded(batch.key[j], ks, ids[a + j], s) /\ Coded(batch.value[j], vs, ids[a + j], s)
          /\ batch.valid[j] = ValidTokens(Len(ks), ids[a + j], s)

(* Element d of head h of a row.                                           *)
Cell(y, h, d, dim) == y[h * dim + d]

(* What the kernels unpack of an exact tensor.                             *)
LEMMA ExactElement ==
    ASSUME NEW s \in Specs, CreateAccepts(s), NEW batch,
           Shape(batch, s.bits, s.group_size, s.kv_heads, s.head_dim),
           NEW b \in Nat, NEW z, NEW q, Coded(q, z, b, s),
           NEW t \in 0..(s.block_tokens - 1), NEW h \in 0..(s.kv_heads - 1),
           NEW d \in 1..s.head_dim
    PROVE  /\ Element(q, batch, t, h, d - 1)
                 = PositiveMax(s.bits) * Cell(Row(z, b, s, t), h, d, s.head_dim)
           /\ Cell(Row(z, b, s, t), h, d, s.head_dim) \in Int
<1>0. PICK x \in Exact(s) : /\ x \in Keys(s) \cup Values(s) /\ z = InUnits(x, s)
                            /\ q = Quantize(Padded(x, b, s), s.bits, s.group_size)
  BY DEF Coded
<1>1. PICK kv \in Nat \ {0}, dim \in Nat \ {0}, tokens \in Nat, g \in Nat \ {0}, bits \in {2,
       4} :
          /\ kv = s.kv_heads /\ dim = s.head_dim /\ tokens = s.block_tokens
          /\ g = s.group_size /\ bits = s.bits
  <2>1. s.block_tokens \in Nat
    BY AcceptedSized DEF Sized
  <2>2. QED
    BY <2>1 DEF Shape
<1>2. PICK width \in Nat \ {0} : width = kv * dim
  OBVIOUS
<1>3. PICK j : j = h * dim + d
  OBVIOUS
<1>4. j \in 1..width
  <2>1. PICK u \in Nat : kv = (h + 1) + u /\ h \in Nat
    <3>1. h \in Nat /\ kv - (h + 1) \in Nat /\ kv = (h + 1) + (kv - (h + 1))
      BY <1>1
    <3>2. QED
      BY <3>1
  <2>2. ((h + 1) + u) * dim = (h + 1) * dim + u * dim /\ (h + 1) * dim = h * dim + dim
    BY Regroup
  <2>3. PICK y \in Nat, m \in Nat : y = h * dim /\ m = u * dim
    BY <2>1
  <2>4. width = y + dim + m /\ j = y + d /\ d \in 1..dim
    BY <1>1, <1>2, <1>3, <2>1, <2>2, <2>3
  <2>5. QED
    BY <2>4
<1>5. x \in Seq(Rows(s)) /\ z \in Seq(Rows(s))
  BY <1>0, UnitsAre
<1>6. PICK xx : xx = Padded(x, b, s)
  OBVIOUS
<1>7. xx \in Seq(Int) /\ Len(xx) % g = 0
  BY <1>1, <1>5, <1>6, PaddedIs
<1>8. PICK y : y = Row(z, b, s, t) /\ y \in [1..width -> Int]
  BY <1>1, <1>2, <1>5, PaddedRowIs
<1>9. /\ t * width + j \in 1..Len(xx)
      /\ Dequantize(q, bits, g)[t * width + j] = PositiveMax(bits) * y[j]
  <2>1. width = s.kv_heads * s.head_dim
    BY <1>1, <1>2
  <2>2. /\ t * width + j \in 1..Len(Padded(x, b, s))
        /\ Dequantize(Quantize(Padded(x, b, s), s.bits, s.group_size), s.bits, s.group_size)
                 [t * width + j] = PositiveMax(s.bits) * Row(z, b, s, t)[j]
    BY <1>0, <1>4, <2>1, RowRestored
  <2>3. QED
    BY <1>0, <1>1, <1>6, <1>8, <2>2
<1>10. PICK i \in 1..Len(xx) : i = t * width + j
  BY <1>9
<1>11. Element(q, batch, t, h, d - 1) = Dequantize(q, bits, g)[i]
  <2>1. PICK e \in 0..(dim - 1) : e = d - 1
    BY <1>1
  <2>2. t \in Nat /\ h \in 0..(kv - 1)
    BY <1>1
  <2>3. CellAt(i, t, h, e, kv, dim)
    <3>1. PICK y1 \in Int : y1 = h * dim
      BY <2>2
    <3>2. PICK y2 \in Int : y2 = t * width
      BY <2>2
    <3>3. i = y2 + (y1 + e + 1)
      BY <1>1, <1>3, <1>10, <2>1, <3>1, <3>2
    <3>4. QED
      BY <1>2, <2>2, <3>1, <3>2, <3>3 DEF CellAt
  <2>4. Shape(batch, bits, g, kv, dim)
    BY <1>1
  <2>5. Packs(q, xx, batch, bits, g, kv, dim)
    BY <1>0, <1>1, <1>6, <1>7, <2>4 DEF Packs
  <2>6. Element(q, batch, t, h, e) = Dequantize(q, bits, g)[i]
    BY <2>3, <2>5, ElementIs
  <2>7. QED
    BY <2>1, <2>6
<1>12. QED
  BY <1>1, <1>3, <1>4, <1>8, <1>9, <1>10, <1>11 DEF Cell

(* What the kernels unpack of a chunk.                                     *)
LEMMA ChunkElements ==
    ASSUME NEW batch, NEW s, NEW ks, NEW vs, NEW ids, NEW a, NEW n,
           Chunk(batch, s, ks, vs, ids, a, n), NEW j \in 1..n,
           NEW t \in 0..(s.block_tokens - 1), NEW h \in 0..(s.kv_heads - 1),
           NEW d \in 1..s.head_dim
    PROVE  /\ Element(batch.key[j], batch, t, h, d - 1)
                 = PositiveMax(s.bits) * Cell(Row(ks, ids[a + j], s, t), h, d, s.head_dim)
           /\ Cell(Row(ks, ids[a + j], s, t), h, d, s.head_dim) \in Int
           /\ Value(batch, j, t, h, d - 1) = Cell(Row(vs, ids[a + j], s, t), h, d, s.head_dim)
           /\ Cell(Row(vs, ids[a + j], s, t), h, d, s.head_dim) \in Int
<1>1. /\ s \in Specs /\ CreateAccepts(s) /\ ids[a + j] \in Nat
      /\ Shape(batch, s.bits, s.group_size, s.kv_heads, s.head_dim)
      /\ Coded(batch.key[j], ks, ids[a + j], s) /\ Coded(batch.value[j], vs, ids[a + j], s)
  BY DEF Chunk
<1>2. /\ Element(batch.key[j], batch, t, h, d - 1)
            = PositiveMax(s.bits) * Cell(Row(ks, ids[a + j], s, t), h, d, s.head_dim)
      /\ Cell(Row(ks, ids[a + j], s, t), h, d, s.head_dim) \in Int
  BY <1>1, ExactElement
<1>3. /\ Element(batch.value[j], batch, t, h, d - 1)
            = PositiveMax(s.bits) * Cell(Row(vs, ids[a + j], s, t), h, d, s.head_dim)
      /\ Cell(Row(vs, ids[a + j], s, t), h, d, s.head_dim) \in Int
  BY <1>1, ExactElement
<1>4. PICK v \in Int : /\ v = Cell(Row(vs, ids[a + j], s, t), h, d, s.head_dim)
                       /\ Element(batch.value[j], batch, t, h, d - 1) = PositiveMax(s.bits) * v
  BY <1>3
<1>5. PICK m \in {1, 7} : m = PositiveMax(batch.bits) /\ m = PositiveMax(s.bits)
  BY <1>1 DEF Shape, PositiveMax, Midpoint
<1>6. Value(batch, j, t, h, d - 1) = (m * v) \div m
  BY <1>4, <1>5 DEF Value, Whole
<1>7. (m * v) \div m = v
  BY DivideBack
<1>8. QED
  BY <1>2, <1>4, <1>6, <1>7

(* e is m times f.                                                         *)
Multiples(e, f, m, n) == \A i \in 1..n : e[i] = m * f[i]

(* A multiple of every term is that multiple of the sum.                   *)
LEMMA AddsTimes ==
    ASSUME NEW n \in Nat, NEW f, NEW g, Adds(g, f, n), NEW m \in Int,
           NEW e, Multiples(e, f, m, n)
    PROVE  Adds([i \in 0..n |-> m * g[i]], e, n)
<1>1. PICK h : h = [i \in 0..n |-> m * g[i]]
  OBVIOUS
<1>2. \A i \in 0..n : g[i] \in Int /\ h[i] = m * g[i] /\ h[i] \in Int
  BY <1>1 DEF Adds
<1>3. h \in [0..n -> Int]
  BY <1>1, <1>2
<1>4. h[0] = 0
  <2>1. 0 \in 0..n /\ g[0] = 0
    BY DEF Adds
  <2>2. QED
    BY <1>2, <2>1
<1>5. ASSUME NEW i \in 1..n
      PROVE  e[i] \in Int /\ h[i] = h[i - 1] + e[i]
  <2>1. PICK y \in Int, z \in Int : y = g[i - 1] /\ z = f[i] /\ g[i] = y + z
    <3>1. i - 1 \in 0..n /\ g[i - 1] \in Int /\ f[i] \in Int /\ g[i] = g[i - 1] + f[i]
      BY DEF Adds
    <3>2. QED
      BY <3>1
  <2>2. m * (y + z) = m * y + m * z
    BY Regroup
  <2>3. h[i - 1] = m * y /\ h[i] = m * (y + z) /\ e[i] = m * z
    <3>1. i \in 0..n /\ i - 1 \in 0..n
      OBVIOUS
    <3>2. QED
      BY <1>2, <2>1, <3>1 DEF Multiples
  <2>4. QED
    BY <2>2, <2>3
<1>6. QED
  BY <1>1, <1>3, <1>4, <1>5 DEF Adds

(* Zeros behind the terms add nothing.                                     *)
LEMMA AddsPad ==
    ASSUME NEW m \in Nat, NEW f, NEW g, Adds(g, f, m), NEW n \in Nat, m <= n,
           NEW e, \A i \in 1..n : e[i] = IF i <= m THEN f[i] ELSE 0
    PROVE  Adds([i \in 0..n |-> IF i <= m THEN g[i] ELSE g[m]], e, n)
<1>1. PICK h : h = [i \in 0..n |-> IF i <= m THEN g[i] ELSE g[m]]
  OBVIOUS
<1>2. /\ g \in [0..m -> Int] /\ g[0] = 0
      /\ \A i \in 1..m : f[i] \in Int /\ g[i] = g[i - 1] + f[i]
  BY DEF Adds
<1>3. g[m] \in Int /\ \A i \in 0..m : g[i] \in Int
  BY <1>2
<1>4. h \in [0..n -> Int]
  BY <1>1, <1>3
<1>5. h[0] = 0
  BY <1>1, <1>2
<1>6. ASSUME NEW i \in 1..n
      PROVE  e[i] \in Int /\ h[i] = h[i - 1] + e[i]
  <2>1. i - 1 \in 0..n /\ i \in 0..n
    OBVIOUS
  <2>2. CASE i <= m
    <3>1. i \in 1..m /\ e[i] = f[i] /\ h[i] = g[i] /\ h[i - 1] = g[i - 1]
      BY <1>1, <2>1, <2>2
    <3>2. QED
      BY <1>2, <3>1
  <2>3. CASE ~(i <= m)
    <3>1. e[i] = 0 /\ h[i] = g[m]
      BY <1>1, <2>1, <2>3
    <3>2. h[i - 1] = g[m]
      <4>1. CASE i - 1 = m
        BY <1>1, <2>1, <4>1
      <4>2. CASE i - 1 # m
        <5>1. ~(i - 1 <= m)
          BY <2>3, <4>2
        <5>2. QED
          BY <1>1, <2>1, <5>1
      <4>3. QED
        BY <4>1, <4>2
    <3>3. QED
      BY <1>3, <3>1, <3>2
  <2>4. QED
    BY <2>2, <2>3
<1>7. QED
  BY <1>1, <1>4, <1>5, <1>6 DEF Adds

(* What the threads multiply of a row: zeros behind its elements.          *)
Products(p, vector, y, h, bits, dim, n) ==
    /\ \A d \in 1..dim : Cell(y, h, d, dim) \in Int
    /\ \A i \in 1..n : p[i] =
          IF i <= dim THEN vector[i] * (PositiveMax(bits) * Cell(y, h, i, dim)) ELSE 0

(* The products of a row and a query, as they are in the units of the      *)
(* scales and with zeros behind them, add up to the dot product.           *)
LEMMA ProductsAdd ==
    ASSUME NEW bits \in {2, 4}, NEW dim \in Nat, NEW n \in Nat, dim <= n,
           NEW vector \in [1..dim -> Int], NEW y, NEW h,
           NEW p, Products(p, vector, y, h, bits, dim, n)
    PROVE  \E a : Adds(a, p, n) /\ Whole(a[n], bits) = Dot(vector, y, h)
<1>1. PICK m \in {1, 7} : m = PositiveMax(bits)
  BY DEF PositiveMax, Midpoint
<1>2. PICK f : f = [d \in 1..dim |-> vector[d] * Cell(y, h, d, dim)]
  OBVIOUS
<1>3. f \in [1..dim -> Int]
  BY <1>2 DEF Products
<1>4. PICK g : Adds(g, f, dim)
  BY <1>3, SumsExist
<1>5. Dot(vector, y, h) = g[dim]
  <2>1. Len(vector) = dim /\ DOMAIN vector = 1..dim
    OBVIOUS
  <2>2. f \in Seq(Int) /\ DOMAIN f = 1..dim
    BY <1>3
  <2>3. Total(f) = g[dim]
    BY <1>4, <2>2, TotalIs
  <2>4. Dot(vector, y, h) = Total(f)
    BY <1>2, <2>1 DEF Dot, Cell
  <2>5. QED
    BY <2>3, <2>4
<1>6. PICK e : e = [i \in 1..n |-> IF i <= dim THEN f[i] ELSE 0]
  OBVIOUS
<1>7. PICK ge : ge = [i \in 0..n |-> IF i <= dim THEN g[i] ELSE g[dim]] /\ Adds(ge, e, n)
  <2>1. \A i \in 1..n : e[i] = IF i <= dim THEN f[i] ELSE 0
    BY <1>6
  <2>2. Adds([i \in 0..n |-> IF i <= dim THEN g[i] ELSE g[dim]], e, n)
    BY <1>4, <2>1, AddsPad
  <2>3. QED
    BY <2>2
<1>8. ge[n] = g[dim] /\ g[dim] \in Int
  <2>1. n \in 0..n /\ dim \in 0..dim
    OBVIOUS
  <2>2. g[dim] \in Int
    BY <1>4, <2>1 DEF Adds
  <2>3. CASE n <= dim
    <3>1. n = dim
      BY <2>3
    <3>2. QED
      BY <1>7, <2>1, <2>2, <3>1
  <2>4. CASE ~(n <= dim)
    BY <1>7, <2>1, <2>2, <2>4
  <2>5. QED
    BY <2>3, <2>4
<1>9. Multiples(p, e, m, n)
  <2> SUFFICES ASSUME NEW i \in 1..n
               PROVE  p[i] = m * e[i]
    BY DEF Multiples
  <2>1. CASE i <= dim
    <3>1. i \in 1..dim /\ e[i] = vector[i] * Cell(y, h, i, dim)
      BY <1>2, <1>6, <2>1
    <3>2. PICK v \in Int, c \in Int : v = vector[i] /\ c = Cell(y, h, i, dim)
      BY <3>1 DEF Products
    <3>3. v * (m * c) = m * (v * c)
      <4>1. v * (m * c) = (v * m) * c /\ v * m = m * v /\ (m * v) * c = m * (v * c)
        BY <1>1, Regroup
      <4>2. QED
        BY <4>1
    <3>4. QED
      BY <1>1, <2>1, <3>1, <3>2, <3>3 DEF Products
  <2>2. CASE ~(i <= dim)
    BY <1>1, <1>6, <2>2 DEF Products
  <2>3. QED
    BY <2>1, <2>2
<1>10. PICK a : a = [i \in 0..n |-> m * ge[i]] /\ Adds(a, p, n)
  <2>1. m \in Int
    BY <1>1
  <2>2. Adds([i \in 0..n |-> m * ge[i]], p, n)
    BY <1>7, <1>9, <2>1, AddsTimes
  <2>3. QED
    BY <2>2
<1>11. Whole(a[n], bits) = g[dim]
  <2>1. n \in 0..n
    OBVIOUS
  <2>2. a[n] = m * g[dim]
    BY <1>8, <1>10, <2>1
  <2>3. (m * g[dim]) \div m = g[dim]
    <3>1. m \in Nat \ {0}
      BY <1>1
    <3>2. QED
      BY <1>8, <3>1, DivideBack
  <2>4. QED
    BY <1>1, <2>2, <2>3 DEF Whole
<1>12. QED
  BY <1>5, <1>10, <1>11

(* The score of a token of a chunk.                                        *)
LEMMA ChunkScore ==
    ASSUME NEW batch, NEW s, NEW ks, NEW vs, NEW ids, NEW a, NEW n,
           Chunk(batch, s, ks, vs, ids, a, n), NEW j \in 1..n,
           NEW t \in 0..(s.block_tokens - 1), NEW h \in 0..(s.kv_heads - 1),
           NEW vector \in [1..s.head_dim -> Int]
    PROVE  Score(vector, batch, j, t, h) = Dot(vector, Row(ks, ids[a + j], s, t), h)
<1>1. Shape(batch, s.bits, s.group_size, s.kv_heads, s.head_dim)
  BY DEF Chunk
<1>2. PICK dim \in Nat, bits \in {2, 4} : dim = s.head_dim /\ bits = s.bits
                                                                /\ bits = batch.bits
  BY <1>1 DEF Shape
<1>3. PICK y : y = Row(ks, ids[a + j], s, t)
  OBVIOUS
<1>4. \A d \in 1..dim : /\ Element(batch.key[j], batch, t, h, d - 1)
                              = PositiveMax(bits) * Cell(y, h, d, dim)
                        /\ Cell(y, h, d, dim) \in Int
  <2>1. \A d \in 1..s.head_dim :
           /\ Element(batch.key[j], batch, t, h, d - 1)
                 = PositiveMax(s.bits) * Cell(Row(ks, ids[a + j], s, t), h, d, s.head_dim)
           /\ Cell(Row(ks, ids[a + j], s, t), h, d, s.head_dim) \in Int
    BY ChunkElements
  <2>2. QED
    BY <1>2, <1>3, <2>1
<1>5. PICK p : p = [d \in 1..dim |-> vector[d] * Element(batch.key[j], batch, t, h, d - 1)]
  OBVIOUS
<1>6. Products(p, vector, y, h, bits, dim, dim)
  BY <1>4, <1>5 DEF Products
<1>7. vector \in [1..dim -> Int]
  BY <1>2
<1>8. PICK g : Adds(g, p, dim) /\ Whole(g[dim], bits) = Dot(vector, y, h)
  BY <1>6, <1>7, ProductsAdd
<1>9. Total(p) = g[dim]
  <2>1. \A d \in 1..dim : p[d] \in Int
    BY <1>8 DEF Adds
  <2>2. p \in [1..dim -> Int]
    BY <1>5, <2>1
  <2>3. p \in Seq(Int) /\ DOMAIN p = 1..dim
    BY ONLY <2>2, dim \in Nat
  <2>4. QED
    BY <1>8, <2>3, TotalIs
<1>10. DOMAIN vector = 1..dim
  BY <1>7
<1>11. Score(vector, batch, j, t, h) = Whole(Total(p), bits)
  BY <1>2, <1>5, <1>10, Zenon DEF Score
<1>12. QED
  BY <1>3, <1>8, <1>9, <1>11

(***************************************************************************)
(* The sums of a head over the selected blocks, and over a part of them.   *)
(***************************************************************************)
(* y and z are the differences of w and x to those at o.                   *)
Differences(y, z, w, x, o, m, dim) ==
    /\ y = [i \in 0..m |-> w[o + i] - w[o]]
    /\ z = [i \in 0..m |-> [d \in 1..dim |-> x[o + i][d] - x[o][d]]]

(* The sums over a part are differences of the sums over the whole.        *)
LEMMA SumsPart ==
    ASSUME NEW n \in Nat, NEW dim \in Nat, NEW S, NEW V, NEW w, NEW x, Sums(w, x, S, V, n,
           dim),
           NEW m \in Nat, NEW o \in Nat, o + m <= n,
           NEW R, NEW U, \A i \in 1..m : R[i] = S[o + i] /\ U[i] = V[o + i],
           NEW y, NEW z, Differences(y, z, w, x, o, m, dim)
    PROVE  Sums(y, z, R, U, m, dim)
<1>1. /\ y = [i \in 0..m |-> w[o + i] - w[o]]
      /\ z = [i \in 0..m |-> [d \in 1..dim |-> x[o + i][d] - x[o][d]]]
  BY DEF Differences
<1>2. \A i \in 0..m : /\ w[o + i] \in Int /\ w[o] \in Int
                      /\ \A d \in 1..dim : x[o + i][d] \in Int /\ x[o][d] \in Int
  <2> TAKE i \in 0..m
  <2>1. o + i \in 0..n /\ o \in 0..n
    OBVIOUS
  <2>2. QED
    BY <2>1 DEF Sums
<1>3. y \in [0..m -> Int] /\ z \in [0..m -> [1..dim -> Int]]
  <2>1. y \in [0..m -> Int]
    <3>1. \A i \in 0..m : w[o + i] - w[o] \in Int
      BY <1>2
    <3>2. QED
      BY <1>1, <3>1
  <2>2. ASSUME NEW i \in 0..m
        PROVE  z[i] \in [1..dim -> Int]
    <3>1. z[i] = [d \in 1..dim |-> x[o + i][d] - x[o][d]]
      BY <1>1
    <3>2. \A d \in 1..dim : x[o + i][d] - x[o][d] \in Int
      BY <1>2
    <3>3. QED
      BY <3>1, <3>2
  <2>3. QED
    BY <1>1, <2>1, <2>2
<1>4. y[0] = 0 /\ \A d \in 1..dim : z[0][d] = 0
  <2>1. 0 \in 0..m /\ o + 0 = o
    OBVIOUS
  <2>2. y[0] = w[o] - w[o] /\ \A d \in 1..dim : z[0][d] = x[o][d] - x[o][d]
    BY <1>1, <2>1
  <2>3. QED
    BY <1>2, <2>1, <2>2
<1>5. ASSUME NEW i \in 1..m
      PROVE  /\ R[i] \in Scores /\ y[i] = y[i - 1] + Weight(R[i])
             /\ \A d \in 1..dim : /\ U[i][d] \in Int
                                  /\ z[i][d] = z[i - 1][d] + Weight(R[i]) * U[i][d]
  <2>1. PICK j \in 1..n : j = o + i /\ j - 1 = o + (i - 1)
    OBVIOUS
  <2>2. /\ S[j] \in Scores /\ w[j] = w[j - 1] + Weight(S[j])
        /\ \A d \in 1..dim : V[j][d] \in Int /\ x[j][d] = x[j - 1][d] + Weight(S[j]) * V[j][d]
    BY DEF Sums
  <2>3. R[i] = S[j] /\ U[i] = V[j]
    BY <2>1
  <2>4. i \in 0..m /\ i - 1 \in 0..m
    OBVIOUS
  <2>5. PICK wo \in Int, wi \in Int : wo = w[o] /\ wi = w[o + (i - 1)]
    BY <1>2, <2>4
  <2>6. PICK g \in Int : g = Weight(R[i])
    BY <2>2, <2>3, WeightIs
  <2>7. w[j] = wi + g
    BY <2>1, <2>2, <2>3, <2>5, <2>6
  <2>8. y[i] = w[j] - wo /\ y[i - 1] = wi - wo
    BY <1>1, <2>1, <2>4, <2>5
  <2>9. y[i] = y[i - 1] + Weight(R[i])
    BY <2>6, <2>7, <2>8
  <2>10. ASSUME NEW d \in 1..dim
         PROVE  U[i][d] \in Int /\ z[i][d] = z[i - 1][d] + Weight(R[i]) * U[i][d]
    <3>1. U[i][d] \in Int
      BY <2>2, <2>3
    <3>2. PICK t \in Int : t = Weight(R[i]) * U[i][d]
      BY <2>6, <3>1, Regroup
    <3>3. PICK xo \in Int, xi \in Int : xo = x[o][d] /\ xi = x[o + (i - 1)][d]
      BY <1>2, <2>4
    <3>4. x[j][d] = xi + t
      BY <2>1, <2>2, <2>3, <3>2, <3>3
    <3>5. z[i][d] = x[j][d] - xo /\ z[i - 1][d] = xi - xo
      BY <1>1, <2>1, <2>4, <3>3
    <3>6. QED
      BY <3>1, <3>2, <3>4, <3>5
  <2>11. QED
    BY <2>2, <2>3, <2>9, <2>10
<1>6. QED
  BY <1>3, <1>4, <1>5 DEF Sums

(* c counts the tokens of the first blocks.                                *)
Counts(c, v, n) ==
    /\ v \in [1..n -> Nat] /\ c \in [0..n -> Nat] /\ c[0] = 0
    /\ \A b \in 1..n : c[b] = c[b - 1] + v[b]

(* A sum of counts grows.                                                  *)
LEMMA CountsGrow ==
    ASSUME NEW n \in Nat, NEW v, NEW c, Counts(c, v, n), NEW a \in 0..n
    PROVE  \A b \in 0..n : a <= b => c[a] <= c[b]
<1> DEFINE T == {b \in 0..n : a <= b => c[a] <= c[b]}
<1>1. 0 \in T
  BY DEF Counts
<1>2. ASSUME NEW b \in 1..n, b - 1 \in T
      PROVE  b \in T
  <2>1. c[b] \in Nat /\ c[b - 1] \in Nat /\ v[b] \in Nat /\ c[a] \in Nat
                          /\ c[b] = c[b - 1] + v[b]
    BY DEF Counts
  <2>2. CASE a <= b - 1
    <3>1. c[a] <= c[b - 1]
      BY <1>2, <2>2
    <3>2. QED
      BY <2>1, <3>1
  <2>3. CASE ~(a <= b - 1)
    <3>1. a = b \/ ~(a <= b)
      BY <2>3
    <3>2. QED
      BY <2>1, <3>1
  <2>4. QED
    BY <2>2, <2>3
<1> HIDE DEF T
<1>3. 0..n \subseteq T
  BY <1>1, <1>2, UpTo
<1>4. QED
  BY <1>3 DEF T

(* How many tokens the m-th selected block has.                            *)
Valid(u, m) == ValidTokens(Len(u.ks), u.ids[m], u.s)

(* The sums of one query head over the u.n selected blocks: u.vector       *)
(* scores the tokens of KV head u.h of the tensors u.ks and u.vs.          *)
HeadSums(u) ==
    /\ u.s \in Specs /\ CreateAccepts(u.s) /\ u.n \in Nat
    /\ u.vector \in [1..u.s.head_dim -> Int] /\ u.h \in 0..(u.s.kv_heads - 1)
    /\ Counts(u.c, [m \in 1..u.n |-> Valid(u, m)], u.n)
    /\ \A m \in 1..u.n : \A t \in 1..Valid(u, m) :
          /\ u.S[u.c[m - 1] + t] = Dot(u.vector, Row(u.ks, u.ids[m], u.s, t - 1), u.h)
          /\ \A d \in 1..u.s.head_dim :
                u.V[u.c[m - 1] + t][d]
                   = Cell(Row(u.vs, u.ids[m], u.s, t - 1), u.h, d, u.s.head_dim)
    /\ Sums(u.w, u.x, u.S, u.V, u.c[u.n], u.s.head_dim)

(* What n blocks behind the first a add.                                   *)
WeightOf(u, a, n) == u.w[u.c[a + n]] - u.w[u.c[a]]
NumeratorOf(u, a, n) == [d \in 1..u.s.head_dim |-> u.x[u.c[a + n]][d] - u.x[u.c[a]][d]]

(* The counts of a chunk are differences of the counts of the whole.       *)
LEMMA CountsPart ==
    ASSUME NEW N \in Nat, NEW v, NEW c, Counts(c, v, N), NEW a \in Nat, NEW n \in Nat,
           a + n <= N,
           NEW e, NEW b, Counts(b, e, n), \A j \in 1..n : e[j] = v[a + j]
    PROVE  \A j \in 0..n : c[a + j] = c[a] + b[j]
<1> DEFINE T == {j \in 0..n : c[a + j] = c[a] + b[j]}
<1>1. c[a] \in Nat
  <2>1. a \in 0..N
    OBVIOUS
  <2>2. QED
    BY <2>1 DEF Counts
<1>2. 0 \in T
  <2>1. a + 0 = a /\ b[0] = 0
    BY DEF Counts
  <2>2. QED
    BY <1>1, <2>1
<1>3. ASSUME NEW j \in 1..n, j - 1 \in T
      PROVE  j \in T
  <2>1. a + j \in 1..N /\ (a + j) - 1 = a + (j - 1) /\ j \in 0..n /\ j - 1 \in 0..n
    OBVIOUS
  <2>2. c[a + j] = c[a + (j - 1)] + v[a + j]
    BY <2>1 DEF Counts
  <2>3. b[j] = b[j - 1] + e[j] /\ e[j] = v[a + j]
    BY DEF Counts
  <2>4. c[a + (j - 1)] = c[a] + b[j - 1]
    BY <1>3
  <2>5. b[j - 1] \in Nat /\ e[j] \in Nat
    BY <2>1 DEF Counts
  <2>6. QED
    BY <1>1, <2>1, <2>2, <2>3, <2>4, <2>5
<1> HIDE DEF T
<1>4. 0..n \subseteq T
  BY <1>2, <1>3, UpTo
<1>5. QED
  BY <1>4 DEF T

(* The rows of a chunk and their sums.                                     *)
ChunkSums(u, a, n, batch, rows, c, S, V, w, x) ==
    /\ HeadRows(u.s.block_tokens, n, u.s.head_dim, u.vector, batch, u.h, rows, c, S, V, w, x)
    /\ w[c[n]] = WeightOf(u, a, n) /\ x[c[n]] = NumeratorOf(u, a, n)
    /\ c[n] \in Nat \ {0}

(* The rows of a chunk have the scores, the values and the sums that the   *)
(* tokens of its blocks have in the whole.                                 *)
LEMMA ChunkHead ==
    ASSUME NEW u, HeadSums(u), NEW a \in Nat, NEW n \in Nat \ {0}, a + n <= u.n,
           NEW batch, Chunk(batch, u.s, u.ks, u.vs, u.ids, a, n)
    PROVE  \E c, S, V, w, x : ChunkSums(u, a, n, batch, ValidRows(batch), c, S, V, w, x)
<1>1. /\ Shape(batch, u.s.bits, u.s.group_size, u.s.kv_heads, u.s.head_dim)
      /\ batch.tokens = u.s.block_tokens /\ batch.valid \in [1..n -> 1..u.s.block_tokens]
      /\ \A j \in 1..n : batch.valid[j] = ValidTokens(Len(u.ks), u.ids[a + j], u.s)
  BY DEF Chunk
<1>2. PICK T \in Nat, dim \in Nat, N \in Nat :
          T = u.s.block_tokens /\ dim = u.s.head_dim /\ N = u.n
  <2>1. u.s.block_tokens \in Nat
    BY AcceptedSized DEF Sized, HeadSums
  <2>2. QED
    BY <1>1, <2>1 DEF HeadSums, Shape
<1>3. PICK rows, valid : rows = ValidRows(batch) /\ valid = batch.valid
  OBVIOUS
<1>4. valid \in [1..n -> 1..T] /\ valid \in [1..n -> Nat]
  BY <1>1, <1>2, <1>3
<1>5. PICK b : RowsOf(rows, b, valid, n)
  BY <1>3, <1>4, RowsAre
<1>6. Counts(b, valid, n)
  BY <1>4, <1>5 DEF RowsOf, Counts
<1>7. PICK v : v = [m \in 1..N |-> Valid(u, m)] /\ Counts(u.c, v, N)
  BY <1>2 DEF HeadSums
<1>8. \A j \in 1..n : valid[j] = v[a + j] /\ v[a + j] = Valid(u, a + j) /\ a + j \in 1..N
  <2> TAKE j \in 1..n
  <2>1. a + j \in 1..N
    BY <1>2
  <2>2. QED
    BY <1>1, <1>3, <1>7, <2>1 DEF Valid
<1>9. \A j \in 0..n : u.c[a + j] = u.c[a] + b[j]
  <2>1. a + n <= N /\ n \in Nat
    BY <1>2
  <2>2. \A j \in 1..n : valid[j] = v[a + j]
    BY <1>8
  <2>3. Counts(u.c, v, N)
    BY <1>7
  <2>4. QED
    BY <1>6, <2>1, <2>2, <2>3, CountsPart
<1>10. PICK o \in Nat, m \in Nat, W \in Nat :
           o = u.c[a] /\ m = b[n] /\ W = u.c[N] /\ o + m = u.c[a + n] /\ o + m <= W
  <2>1. a \in 0..N /\ n \in 0..n /\ N \in 0..N /\ a + n \in 0..N
    BY <1>2
  <2>2. u.c[a] \in Nat /\ b[n] \in Nat /\ u.c[N] \in Nat /\ u.c[a + n] = u.c[a] + b[n]
    BY <1>6, <1>7, <1>9, <2>1 DEF Counts
  <2>3. u.c[a + n] <= u.c[N]
    <3>1. a + n <= N
      BY <1>2
    <3>2. QED
      BY <1>7, <2>1, <3>1, CountsGrow
  <2>4. QED
    BY <2>2, <2>3
<1>11. PICK R, U : /\ R = [i \in 1..m |-> u.S[o + i]] /\ U = [i \in 1..m |-> u.V[o + i]]
  OBVIOUS
<1>12. PICK w, x : /\ w = [i \in 0..m |-> u.w[o + i] - u.w[o]]
                   /\ x = [i \in 0..m |-> [d \in 1..dim |-> u.x[o + i][d] - u.x[o][d]]]
                   /\ Differences(w, x, u.w, u.x, o, m, dim)
  BY DEF Differences
<1>13. Sums(w, x, R, U, m, dim)
  <2>1. PICK w0, x0, S0, V0 : w0 = u.w /\ x0 = u.x /\ S0 = u.S /\ V0 = u.V
    OBVIOUS
  <2>2. Sums(w0, x0, S0, V0, W, dim)
    BY <1>2, <1>10, <2>1 DEF HeadSums
  <2>3. \A i \in 1..m : R[i] = S0[o + i] /\ U[i] = V0[o + i]
    BY <1>11, <2>1
  <2>4. o + m <= W
    BY <1>10
  <2>5. Differences(w, x, w0, x0, o, m, dim)
    BY <1>12, <2>1
  <2>6. QED
    BY ONLY <2>2, <2>3, <2>4, <2>5, o \in Nat, m \in Nat, W \in Nat, dim \in Nat, SumsPart
<1>14. w[m] = WeightOf(u, a, n) /\ x[m] = NumeratorOf(u, a, n)
  <2>1. m \in 0..m
    OBVIOUS
  <2>2. w[m] = u.w[o + m] - u.w[o] /\ x[m] = [d \in 1..dim |-> u.x[o + m][d] - u.x[o][d]]
    BY <1>12, <2>1
  <2>3. QED
    BY <1>2, <1>10, <2>2 DEF WeightOf, NumeratorOf
<1>15. Scored(R, U, u.vector, batch, u.h, rows, m, dim)
  <2>1. ASSUME NEW i \in 1..m
        PROVE  /\ R[i] = Score(u.vector, batch, rows[i][1], rows[i][2], u.h)
               /\ \A d \in 1..dim : U[i][d] = Value(batch, rows[i][1], rows[i][2], u.h, d - 1)
    <3>0. PICK j \in 1..n : \E t \in 1..valid[j] : i = b[j - 1] + t
      <4>1. i \in 1..b[n]
        BY <1>10
      <4>2. QED
        BY <1>5, <4>1 DEF RowsOf
    <3>1. PICK t \in 1..valid[j] : i = b[j - 1] + t /\ rows[i] = <<j, t - 1>>
      BY <1>5, <3>0 DEF RowsOf
    <3>2. valid[j] \in 1..T /\ t - 1 \in 0..(T - 1) /\ t \in Nat
      BY <1>4
    <3>3. PICK k : k = a + j /\ k \in 1..N /\ k - 1 = a + (j - 1) /\ valid[j] = Valid(u, k)
      BY <1>7, <1>8
    <3>4. o + i = u.c[k - 1] + t
      <4>1. j - 1 \in 0..n
        OBVIOUS
      <4>2. b[j - 1] \in Nat /\ u.c[a + (j - 1)] = o + b[j - 1]
        BY <1>6, <1>9, <1>10, <4>1 DEF Counts
      <4>3. QED
        BY <3>1, <3>2, <3>3, <4>2
    <3>5. /\ u.S[u.c[k - 1] + t] = Dot(u.vector, Row(u.ks, u.ids[k], u.s, t - 1), u.h)
          /\ \A d \in 1..dim :
                u.V[u.c[k - 1] + t][d] = Cell(Row(u.vs, u.ids[k], u.s, t - 1), u.h, d, dim)
      <4>1. k \in 1..u.n /\ t \in 1..Valid(u, k)
        BY <1>2, <3>3
      <4>2. QED
        BY <1>2, <4>1 DEF HeadSums
    <3>6. PICK z \in 0..(T - 1) : z = t - 1
      BY <3>2
    <3>7. Score(u.vector, batch, j, z, u.h) = Dot(u.vector, Row(u.ks, u.ids[a + j], u.s, z),
           u.h)
      <4>1. u.vector \in [1..u.s.head_dim -> Int] /\ u.h \in 0..(u.s.kv_heads - 1)
            /\ z \in 0..(u.s.block_tokens - 1)
        BY <1>2 DEF HeadSums
      <4>2. QED
        BY <4>1, ChunkScore
    <3>8. \A d \in 1..dim : Value(batch, j, z, u.h, d - 1)
                              = Cell(Row(u.vs, u.ids[a + j], u.s, z), u.h, d, dim)
      <4>1. u.h \in 0..(u.s.kv_heads - 1) /\ z \in 0..(u.s.block_tokens - 1)
        BY <1>2 DEF HeadSums
      <4>2. QED
        BY <1>2, <4>1, ChunkElements
    <3>9. R[i] = u.S[o + i] /\ U[i] = u.V[o + i] /\ rows[i][1] = j /\ rows[i][2] = z
      BY <1>11, <3>1, <3>6
    <3>10. QED
      BY <3>3, <3>4, <3>5, <3>6, <3>7, <3>8, <3>9
  <2>2. QED
    BY <2>1 DEF Scored
<1>16. \A j \in 1..n : \A t \in 0..(T - 1) : \A d \in 1..dim :
          Value(batch, j, t, u.h, d - 1) \in Int
  <2>1. u.h \in 0..(u.s.kv_heads - 1)
    BY DEF HeadSums
  <2>2. \A j \in 1..n : \A t \in 0..(u.s.block_tokens - 1) : \A d \in 1..u.s.head_dim :
            /\ Value(batch, j, t, u.h, d - 1)
                 = Cell(Row(u.vs, u.ids[a + j], u.s, t), u.h, d, u.s.head_dim)
            /\ Cell(Row(u.vs, u.ids[a + j], u.s, t), u.h, d, u.s.head_dim) \in Int
    BY <2>1, ChunkElements
  <2>3. QED
    BY <1>2, <2>2
<1>17. HeadRows(T, n, dim, u.vector, batch, u.h, rows, b, R, U, w, x)
  <2>1. DOMAIN u.vector = 1..dim
    BY <1>2 DEF HeadSums
  <2>2. QED
    BY <1>1, <1>2, <1>3, <1>4, <1>5, <1>10, <1>15, <1>16, <1>13, <2>1 DEF HeadRows
<1>18. m # 0
  <2>1. 1 \in 1..n /\ 1 - 1 = 0 /\ 1 \in 0..n /\ n \in 0..n /\ 1 <= n
    OBVIOUS
  <2>2. b[1] = b[0] + valid[1] /\ b[0] = 0 /\ valid[1] \in 1..T
    BY <1>4, <1>6, <2>1 DEF Counts
  <2>3. b[1] >= 1
    BY <2>2
  <2>4. b[1] <= b[n]
    BY <1>6, <2>1, CountsGrow
  <2>5. PICK y \in Int : y = b[1] /\ y >= 1 /\ y <= m
    BY <1>4, <1>10, <2>2, <2>3, <2>4
  <2>6. QED
    BY <2>5
<1>19. ChunkSums(u, a, n, batch, rows, b, R, U, w, x)
  BY <1>2, <1>10, <1>14, <1>17, <1>18 DEF ChunkSums
<1>20. QED
  BY <1>3, <1>19

(* The sum of the products p, in whole units.                              *)
AddUpTo(p, threads, bits, score) ==
    \E g : Adds(g, p, threads) /\ Whole(g[threads], bits) = score

(* The products of token t of block j, for the threads of a launch.        *)
ProductsOf(p, vector, batch, j, t, h, dim, threads) ==
    \A i \in 1..threads :
       p[i] = IF i <= dim THEN vector[i] * Element(batch.key[j], batch, t, h, i - 1) ELSE 0

(* The products of a token add up to its score.                            *)
LEMMA TokenProducts ==
    ASSUME NEW batch, NEW s, NEW ks, NEW vs, NEW ids, NEW a, NEW n,
           Chunk(batch, s, ks, vs, ids, a, n), NEW j \in 1..n,
           NEW t \in 0..(s.block_tokens - 1), NEW h \in 0..(s.kv_heads - 1),
           NEW vector \in [1..s.head_dim -> Int], NEW threads \in Nat, s.head_dim <= threads,
           NEW p, ProductsOf(p, vector, batch, j, t, h, s.head_dim, threads)
    PROVE  AddUpTo(p, threads, batch.bits, Score(vector, batch, j, t, h))
<1>1. PICK dim \in Nat, bits \in {2, 4} : dim = s.head_dim /\ bits = s.bits
                                                                /\ bits = batch.bits
  BY DEF Chunk, Shape
<1>2. PICK y : y = Row(ks, ids[a + j], s, t)
  OBVIOUS
<1>3. \A d \in 1..s.head_dim :
          /\ Element(batch.key[j], batch, t, h, d - 1)
                = PositiveMax(s.bits) * Cell(Row(ks, ids[a + j], s, t), h, d, s.head_dim)
          /\ Cell(Row(ks, ids[a + j], s, t), h, d, s.head_dim) \in Int
  BY ChunkElements
<1>4. \A d \in 1..dim :
          /\ Element(batch.key[j], batch, t, h, d - 1) = PositiveMax(bits) * Cell(y, h, d, dim)
          /\ Cell(y, h, d, dim) \in Int
  BY <1>1, <1>2, <1>3
<1>5. Products(p, vector, y, h, bits, dim, threads)
  <2>1. ASSUME NEW i \in 1..threads
        PROVE  p[i] = IF i <= dim
                      THEN vector[i] * (PositiveMax(bits) * Cell(y, h, i, dim)) ELSE 0
    <3>1. CASE i <= dim
      <4>1. i \in 1..dim /\ p[i] = vector[i] * Element(batch.key[j], batch, t, h, i - 1)
        BY <1>1, <3>1 DEF ProductsOf
      <4>2. QED
        BY <1>4, <3>1, <4>1
    <3>2. CASE ~(i <= dim)
      BY <1>1, <3>2 DEF ProductsOf
    <3>3. QED
      BY <3>1, <3>2
  <2>2. QED
    BY <1>4, <2>1 DEF Products
<1>6. AddUpTo(p, threads, bits, Dot(vector, y, h))
  <2>1. vector \in [1..dim -> Int] /\ dim <= threads
    BY <1>1
  <2>2. QED
    BY <1>5, <2>1, ProductsAdd DEF AddUpTo
<1>7. Score(vector, batch, j, t, h) = Dot(vector, y, h)
  BY <1>2, ChunkScore
<1>8. QED
  BY <1>1, <1>6, <1>7

(* p are the products of row r of a chunk.                                 *)
RowOfChunk(u, a, n, batch, rows, c, S, V, w, x, r, threads, p) ==
    /\ HeadSums(u) /\ a \in Nat /\ n \in Nat \ {0} /\ a + n <= u.n
    /\ Chunk(batch, u.s, u.ks, u.vs, u.ids, a, n)
    /\ ChunkSums(u, a, n, batch, rows, c, S, V, w, x)
    /\ r \in 1..c[n] /\ threads \in Nat /\ u.s.head_dim <= threads
    /\ ProductsOf(p, u.vector, batch, rows[r][1], rows[r][2], u.h, u.s.head_dim, threads)

(* The products and the score of row r of a chunk.                         *)
LEMMA RowProducts ==
    ASSUME NEW u, NEW a, NEW n, NEW batch, NEW rows, NEW c, NEW S, NEW V, NEW w, NEW x,
           NEW r, NEW threads, NEW p,
           RowOfChunk(u, a, n, batch, rows, c, S, V, w, x, r, threads, p)
    PROVE  AddUpTo(p, threads, batch.bits, S[r])
<1>0. /\ HeadSums(u) /\ a \in Nat /\ n \in Nat \ {0} /\ a + n <= u.n
      /\ Chunk(batch, u.s, u.ks, u.vs, u.ids, a, n)
      /\ ChunkSums(u, a, n, batch, rows, c, S, V, w, x)
      /\ r \in 1..c[n] /\ threads \in Nat /\ u.s.head_dim <= threads
  BY DEF RowOfChunk
<1> PICK b, e : /\ b = rows[r][1] /\ e = rows[r][2]
                /\ ProductsOf(p, u.vector, batch, b, e, u.h, u.s.head_dim, threads)
  BY DEF RowOfChunk
<1>1. /\ u.vector \in [1..u.s.head_dim -> Int] /\ u.h \in 0..(u.s.kv_heads - 1)
      /\ RowsOf(rows, c, batch.valid, n) /\ batch.valid \in [1..n -> 1..u.s.block_tokens]
      /\ Scored(S, V, u.vector, batch, u.h, rows, c[n], u.s.head_dim)
  BY <1>0 DEF Chunk, HeadSums, HeadRows, ChunkSums
<1>2. PICK T \in Nat : T = u.s.block_tokens
  BY <1>0, AcceptedSized DEF Sized, HeadSums
<1>3. PICK j \in 1..n : \E t \in 1..batch.valid[j] : r = c[j - 1] + t
  BY <1>0, <1>1 DEF RowsOf
<1>4. PICK t \in 1..batch.valid[j] : rows[r] = <<j, t - 1>>
  BY <1>1, <1>3 DEF RowsOf
<1>5. PICK z \in 0..(T - 1) : z = t - 1
  <2>1. batch.valid[j] \in 1..T
    BY <1>1, <1>2
  <2>2. t - 1 \in 0..(T - 1)
    BY <2>1
  <2>3. QED
    BY <2>2
<1>6. rows[r][1] = j /\ rows[r][2] = z
  BY <1>4, <1>5
<1>7. ProductsOf(p, u.vector, batch, j, z, u.h, u.s.head_dim, threads)
  BY <1>6
<1>8. z \in 0..(u.s.block_tokens - 1)
  BY <1>2
<1>9. PICK vector, h : vector = u.vector /\ h = u.h
  OBVIOUS
<1>10. /\ ProductsOf(p, vector, batch, j, z, h, u.s.head_dim, threads)
       /\ h \in 0..(u.s.kv_heads - 1) /\ vector \in [1..u.s.head_dim -> Int]
       /\ u.s.head_dim <= threads /\ Chunk(batch, u.s, u.ks, u.vs, u.ids, a, n)
  BY <1>0, <1>1, <1>7, <1>9
<1>11. AddUpTo(p, threads, batch.bits, Score(vector, batch, j, z, h))
  BY ONLY <1>8, <1>10, j \in 1..n, <1>0, TokenProducts
<1>12. S[r] = Score(vector, batch, j, z, h)
  BY <1>0, <1>1, <1>6, <1>9 DEF Scored
<1>13. QED
  BY <1>11, <1>12

(* A launch over the rows of a chunk.                                      *)
LEMMA ChunkKernel ==
    ASSUME NEW u, HeadSums(u), NEW a \in Nat, NEW n \in Nat \ {0}, a + n <= u.n,
           NEW batch, Chunk(batch, u.s, u.ks, u.vs, u.ids, a, n), u.s.head_dim <= 256
    PROVE  \E k : /\ Kernel(k, u.vector, batch, ValidRows(batch), u.h)
                  /\ k.dim = u.s.head_dim /\ k.threads = BlockDim(k.dim)
                  /\ k.w[k.count] = WeightOf(u, a, n) /\ k.x[k.count] = NumeratorOf(u, a, n)
<1>1. PICK rows : rows = ValidRows(batch)
  OBVIOUS
<1>2. PICK c, S, V, w, x : ChunkSums(u, a, n, batch, rows, c, S, V, w, x)
  BY <1>1, ChunkHead
<1>3. PICK dim \in Nat \ {0} : dim = u.s.head_dim /\ u.vector \in [1..dim -> Int]
  BY DEF Chunk, Shape, HeadSums
<1>4. PICK threads \in {2, 4, 8, 16, 32, 64, 128, 256} : threads = BlockDim(dim)
       /\ dim <= threads
  BY <1>3, BlockDimIs
<1>5. PICK N \in Nat \ {0} : N = c[n]
  BY <1>2 DEF ChunkSums
<1>6. PICK part : part = [r \in 1..N |-> [i \in 1..threads |->
          IF i <= dim
          THEN u.vector[i] * Element(batch.key[rows[r][1]], batch, rows[r][2], u.h, i - 1)
          ELSE 0]]
  OBVIOUS
<1>7. \A r \in 1..N : AddUpTo(part[r], threads, batch.bits, S[r])
  <2> TAKE r \in 1..N
  <2>1. PICK p : p = part[r]
    OBVIOUS
  <2>2. PICK b, e : b = rows[r][1] /\ e = rows[r][2]
    OBVIOUS
  <2>5. ProductsOf(p, u.vector, batch, b, e, u.h, u.s.head_dim, threads)
    BY <1>3, <1>6, <2>1, <2>2 DEF ProductsOf
  <2>3. threads \in Nat /\ u.s.head_dim <= threads /\ r \in 1..c[n] /\ a + n <= u.n
    BY <1>3, <1>4, <1>5
  <2>6. RowOfChunk(u, a, n, batch, rows, c, S, V, w, x, r, threads, p)
    BY <1>2, <2>2, <2>3, <2>5 DEF RowOfChunk
  <2>4. AddUpTo(p, threads, batch.bits, S[r])
    BY ONLY <2>6, RowProducts
  <2>7. QED
    BY <2>1, <2>4
<1>8. PICK sums : sums = [r \in 1..N |->
          CHOOSE z : \E g : Adds(g, part[r], threads) /\ g[threads] = z /\ Whole(z,
                                                           batch.bits) = S[r]]
  OBVIOUS
<1>9. \A r \in 1..N : \E g : /\ Adds(g, part[r], threads) /\ g[threads] = sums[r]
                             /\ Whole(sums[r], batch.bits) = S[r]
  <2> TAKE r \in 1..N
  <2> DEFINE P(z) == \E g : /\ Adds(g, part[r], threads) /\ g[threads] = z
                           /\ Whole(z, batch.bits) = S[r]
  <2>1. \E z : P(z)
    <3>1. PICK g : Adds(g, part[r], threads) /\ Whole(g[threads], batch.bits) = S[r]
      BY <1>7, Zenon DEF AddUpTo
    <3>2. P(g[threads])
      BY <3>1, Zenon
    <3>3. QED
      BY <3>2
  <2>2. sums[r] = CHOOSE z : P(z)
    BY <1>8, Zenon
  <2> HIDE DEF P
  <2>3. P(sums[r])
    BY <2>1, <2>2, Zenon
  <2>4. QED
    BY <2>3 DEF P
<1> DEFINE K == [dim |-> dim, threads |-> threads, count |-> N, part |-> part, sum |-> sums,
                 score |-> S, value |-> V, w |-> w, x |-> x]
<1>10. PICK k : k = K
  <2> HIDE DEF K
  <2>1. QED
    OBVIOUS
<1>11. /\ k.dim = dim /\ k.threads = threads /\ k.count = N /\ k.part = part /\ k.sum = sums
       /\ k.score = S /\ k.value = V /\ k.w = w /\ k.x = x
  BY <1>10
<1>12. /\ Len(rows) = N /\ Sums(w, x, S, V, N, dim) /\ Scored(S, V, u.vector, batch, u.h,
            rows, N, dim)
  BY <1>2, <1>3, <1>5 DEF ChunkSums, HeadRows, RowsOf
<1>13. ASSUME NEW r \in 1..N
       PROVE  /\ \A i \in 1..threads :
                    /\ part[r][i] \in Int
                    /\ part[r][i] =
                         IF i <= dim
                         THEN u.vector[i] * Element(batch.key[rows[r][1]], batch, rows[r][2],
                                                    u.h, i - 1)
                         ELSE 0
              /\ \E g : Adds(g, part[r], threads) /\ g[threads] = sums[r]
              /\ Whole(sums[r], batch.bits) = S[r]
              /\ \A d \in 1..dim : Value(batch, rows[r][1], rows[r][2], u.h, d - 1) = V[r][d]
  <2>1. \A i \in 1..threads : part[r][i] \in Int
    BY <1>9 DEF Adds
  <2>2. \A d \in 1..dim : Value(batch, rows[r][1], rows[r][2], u.h, d - 1) = V[r][d]
    BY <1>12 DEF Scored
  <2>3. \A i \in 1..threads : part[r][i] =
            IF i <= dim
            THEN u.vector[i] * Element(batch.key[rows[r][1]], batch, rows[r][2], u.h, i - 1)
            ELSE 0
    BY <1>6
  <2>4. \E g : Adds(g, part[r], threads) /\ g[threads] = sums[r]
    BY <1>9
  <2>5. Whole(sums[r], batch.bits) = S[r]
    BY <1>9
  <2>6. QED
    BY <2>1, <2>2, <2>3, <2>4, <2>5
<1>14. Len(u.vector) = dim
  BY <1>3
<1>15. Kernel(k, u.vector, batch, rows, u.h)
  <2>1. /\ k.dim \in Nat \ {0} /\ Len(u.vector) = k.dim
        /\ k.threads \in {2, 4, 8, 16, 32, 64, 128, 256} /\ k.dim <= k.threads
        /\ k.count \in Nat \ {0} /\ Len(rows) = k.count
    BY <1>4, <1>11, <1>12, <1>14
  <2>2. Sums(k.w, k.x, k.score, k.value, k.count, k.dim)
    BY <1>11, <1>12
  <2>3. \A r \in 1..k.count :
            /\ \A i \in 1..k.threads :
                  /\ k.part[r][i] \in Int
                  /\ k.part[r][i] =
                       IF i <= k.dim
                       THEN u.vector[i] * Element(batch.key[rows[r][1]], batch, rows[r][2],
                                                  u.h, i - 1)
                       ELSE 0
            /\ \E g : Adds(g, k.part[r], k.threads) /\ g[k.threads] = k.sum[r]
            /\ Whole(k.sum[r], batch.bits) = k.score[r]
            /\ \A d \in 1..k.dim : Value(batch, rows[r][1], rows[r][2], u.h,
                   d - 1) = k.value[r][d]
    <3> TAKE r \in 1..k.count
    <3>1. r \in 1..N
      BY <1>11
    <3>2. \A i \in 1..k.threads :
            /\ k.part[r][i] \in Int
            /\ k.part[r][i] =
                 IF i <= k.dim
                 THEN u.vector[i] * Element(batch.key[rows[r][1]], batch, rows[r][2], u.h,
                        i - 1)
                 ELSE 0
      BY <1>11, <1>13, <3>1
    <3>3. \E g : Adds(g, k.part[r], k.threads) /\ g[k.threads] = k.sum[r]
      BY <1>11, <1>13, <3>1
    <3>4. Whole(k.sum[r], batch.bits) = k.score[r]
      BY <1>11, <1>13, <3>1
    <3>5. \A d \in 1..k.dim : Value(batch, rows[r][1], rows[r][2], u.h, d - 1) = k.value[r][d]
      BY <1>11, <1>13, <3>1
    <3>6. QED
      BY <3>2, <3>3, <3>4, <3>5
  <2>4. QED
    BY <2>1, <2>2, <2>3, Zenon DEF Kernel
<1>16. QED
  BY <1>1, <1>2, <1>3, <1>4, <1>5, <1>11, <1>15 DEF ChunkSums

(* The KV head of a query head, as the kernels and as the definition of    *)
(* the attention reckon it.                                                *)
LEMMA KVHeadIs ==
    ASSUME NEW n \in Nat \ {0}, NEW kv \in Nat \ {0}, n % kv = 0, NEW h \in 0..(n - 1)
    PROVE  KVHead(h, n, kv) \in 0..(kv - 1) /\ KVHead(h, n, kv) = (h * kv) \div n
<1>1. PICK g \in Nat : g = n \div kv /\ n = kv * g
  BY WholeGroups
<1>2. g # 0
  <2>1. kv * 0 = 0
    OBVIOUS
  <2>2. QED
    BY <1>1, <2>1
<1>3. PICK q \in Nat, r \in 0..(g - 1) : h = g * q + r /\ q = h \div g
  BY <1>2
<1>4. KVHead(h, n, kv) = q
  BY <1>1, <1>3 DEF KVHead
<1>5. PICK e \in Int : e = h * kv
  BY Regroup
<1>6. PICK y \in Int : y = r * kv
  BY Regroup
<1>7. e = n * q + y
  <2>1. (g * q + r) * kv = (g * q) * kv + r * kv
    BY Regroup
  <2>2. (g * q) * kv = g * (q * kv) /\ q * kv = kv * q
        /\ g * (kv * q) = (g * kv) * q /\ g * kv = kv * g
    BY Regroup
  <2>3. QED
    BY <1>1, <1>3, <1>5, <1>6, <2>1, <2>2
<1>8. y \in 0..(n - 1)
  <2>1. PICK m \in Nat : g = r + 1 + m
    <3>1. g - (r + 1) \in Nat /\ g = r + 1 + (g - (r + 1))
      BY <1>2
    <3>2. QED
      BY <3>1
  <2>2. kv * (r + 1 + m) = kv * r + kv + kv * m /\ kv * r = r * kv
    BY Regroup
  <2>3. PICK z \in Nat : z = kv * m
    OBVIOUS
  <2>4. n = y + kv + z /\ y \in Nat
    <3>1. y \in Nat
      BY <1>6
    <3>2. QED
      BY <1>1, <1>6, <2>1, <2>2, <2>3, <3>1
  <2>5. QED
    BY <2>3, <2>4
<1>9. e \div n = q
  BY ONLY <1>7, <1>8, n \in Nat \ {0}, q \in Nat, DivModIs
<1>10. q \in 0..(kv - 1)
  <2>1. q < kv
    <3>1. SUFFICES ASSUME q >= kv
                   PROVE  FALSE
      BY <1>3
    <3>2. PICK m \in Nat : q = kv + m
      <4>1. q - kv \in Nat /\ q = kv + (q - kv)
        BY <3>1
      <4>2. QED
        BY <4>1
    <3>3. g * (kv + m) = g * kv + g * m /\ g * kv = kv * g
      BY Regroup
    <3>4. PICK z \in Nat : z = g * m
      OBVIOUS
    <3>5. h = n + z + r
      BY <1>1, <1>3, <3>2, <3>3, <3>4
    <3>6. QED
      BY <3>4, <3>5
  <2>2. QED
    BY <2>1
<1>11. QED
  BY <1>4, <1>5, <1>9, <1>10

(* The sums that query head j of the attention over the selected blocks of *)
(* a cache takes.                                                          *)
HeadOf(u, s, ks, vs, ids, q, j) ==
    /\ HeadSums(u) /\ j \in DOMAIN q
    /\ u.s = s /\ u.ks = ks /\ u.vs = vs /\ u.ids = ids /\ u.n = Len(ids)
    /\ u.vector = q[j] /\ u.h = KVHead(j - 1, Len(q), s.kv_heads)

(* r is the attention of head j over the n blocks behind the first a.      *)
PartAttends(r, s, ks, vs, ids, q, j, a, n) ==
    \A u : HeadOf(u, s, ks, vs, ids, q, j) =>
              Attends(r, WeightOf(u, a, n), NumeratorOf(u, a, n), s.head_dim)

(* The reference and the Triton backend attend over a chunk.               *)
LEMMA ChunkResults ==
    ASSUME NEW s, NEW ks, NEW vs, NEW ids, NEW q, NEW a \in Nat, NEW n \in Nat \ {0},
           a + n <= Len(ids), NEW batch, Chunk(batch, s, ks, vs, ids, a, n),
           NEW j \in DOMAIN q, Len(q[1]) = s.head_dim
    PROVE  /\ PartAttends(ReferenceRun(q, batch)[j], s, ks, vs, ids, q, j, a, n)
           /\ PartAttends(TritonRun(q, batch)[j], s, ks, vs, ids, q, j, a, n)
<1>1. ASSUME NEW u, HeadOf(u, s, ks, vs, ids, q, j)
      PROVE  /\ Attends(ReferenceRun(q, batch)[j], WeightOf(u, a, n), NumeratorOf(u, a, n),
                  s.head_dim)
             /\ Attends(TritonRun(q, batch)[j], WeightOf(u, a, n), NumeratorOf(u, a, n),
                    s.head_dim)
  <2>1. /\ HeadSums(u) /\ Chunk(batch, u.s, u.ks, u.vs, u.ids, a, n) /\ a + n <= u.n
        /\ u.s = s /\ u.vector = q[j]
    BY <1>1 DEF HeadOf
  <2>2. PICK h : h = u.h /\ h = KVHead(j - 1, Len(q), batch.kv_heads)
    <3>1. batch.kv_heads = s.kv_heads
      BY DEF Chunk, Shape
    <3>2. QED
      BY <1>1, <3>1 DEF HeadOf
  <2>3. PICK T \in Nat \ {0} : T = u.s.block_tokens
    <3>1. batch.valid \in [1..n -> 1..s.block_tokens] /\ 1 \in 1..n
      BY DEF Chunk
    <3>2. u.s.block_tokens \in Nat
      BY <2>1, AcceptedSized DEF Sized, HeadSums
    <3>3. u.s.block_tokens # 0
      BY <2>1, <3>1
    <3>4. QED
      BY <3>2, <3>3
  <2>4. PICK dim \in Nat \ {0} : dim = s.head_dim
    BY DEF Chunk, Shape
  <2>5. PICK rows : rows = ValidRows(batch)
    OBVIOUS
  <2>6. PICK c, S, V, w, x : ChunkSums(u, a, n, batch, rows, c, S, V, w, x)
    BY <2>1, <2>5, ChunkHead
  <2>7. /\ HeadRows(T, n, dim, q[j], batch, h, rows, c, S, V, w, x)
        /\ w[c[n]] = WeightOf(u, a, n) /\ x[c[n]] = NumeratorOf(u, a, n)
    BY <2>1, <2>2, <2>3, <2>4, <2>6 DEF ChunkSums
  <2>8. Attends(ReferenceRun(q, batch)[j], w[c[n]], x[c[n]], dim)
    <3>1. Len(q[1]) = dim
      BY <2>4
    <3>2. QED
      BY ONLY <2>2, <2>5, <2>7, <3>1, n \in Nat, dim \in Nat, j \in DOMAIN q, ReferenceAttends
  <2>9. Attends(TritonRun(q, batch)[j], w[c[n]], x[c[n]], dim)
    <3>1. PICK vector : vector = q[j]
      OBVIOUS
    <3>2. HeadRows(T, n, dim, vector, batch, h, rows, c, S, V, w, x)
      BY <2>7, <3>1
    <3>3. Attends(TritonHead(vector, batch, h), w[c[n]], x[c[n]], dim)
      BY ONLY <3>2, T \in Nat \ {0}, n \in Nat \ {0}, dim \in Nat, TritonAttends
    <3>4. TritonRun(q, batch)[j] = TritonHead(vector, batch, h)
      BY <2>2, <3>1 DEF TritonRun
    <3>5. QED
      BY <3>3, <3>4
  <2>10. QED
    BY <2>4, <2>7, <2>8, <2>9
<1>2. QED
  BY <1>1 DEF PartAttends

(***************************************************************************)
(* The sums are those the definition of the attention asks for.            *)
(***************************************************************************)
(* The block of T tokens that starts behind the first o has v tokens.      *)
InBlock(t, o, v) == o < t /\ t <= o + v

(* g sums f over the tokens of the first m blocks of o and v.              *)
PickSums(g, f, o, v, m, L) ==
    /\ g \in [0..L -> Int] /\ g[0] = 0
    /\ \A t \in 1..L : g[t] = g[t - 1] + (IF \E b \in 1..m : InBlock(t, o[b],
           v[b]) THEN f[t] ELSE 0)

(* n blocks of v tokens behind the first o of L, none of them in two; W    *)
(* sums f block after block, c counts.                                     *)
Blockwise(W, f, o, v, c, n, L) ==
    /\ \A t \in 1..L : f[t] \in Int
    /\ o \in [1..n -> Nat] /\ Counts(c, v, n)
    /\ \A m \in 1..n : o[m] + v[m] <= L
    /\ \A m, b \in 1..n : m # b => \A t \in 1..L : ~(InBlock(t, o[m], v[m]) /\ InBlock(t,
           o[b], v[b]))
    /\ W \in [0..c[n] -> Int] /\ W[0] = 0
    /\ \A m \in 1..n : \A t \in 1..v[m] : W[c[m - 1] + t] = W[c[m - 1] + (t - 1)] + f[o[m] + t]

(* What block m adds up to token t.                                        *)
Share(W, o, v, c, m, t) ==
    IF t <= o[m] THEN 0
    ELSE IF t <= o[m] + v[m] THEN W[c[m - 1] + (t - o[m])] - W[c[m - 1]]
    ELSE W[c[m]] - W[c[m - 1]]

(* What a block adds at its tokens, and at no other.                       *)
LEMMA ShareStep ==
    ASSUME NEW n \in Nat, NEW L \in Nat, NEW W, NEW f, NEW o, NEW v, NEW c,
           Blockwise(W, f, o, v, c, n, L), NEW m \in 1..n
    PROVE  /\ Share(W, o, v, c, m, 0) = 0
           /\ \A t \in 0..L : Share(W, o, v, c, m, t) \in Int
           /\ Share(W, o, v, c, m, L) = W[c[m]] - W[c[m - 1]]
           /\ \A t \in 1..L : Share(W, o, v, c, m, t) = Share(W, o, v, c, m, t - 1)
                                  + (IF InBlock(t, o[m], v[m]) THEN f[t] ELSE 0)
<1>1. PICK a \in Nat, p \in Nat, k \in Nat, N \in Nat :
          /\ a = o[m] /\ p = v[m] /\ k = c[m - 1] /\ c[m] = k + p /\ N = c[n]
                 /\ k + p <= N /\ a + p <= L
  <2>1. m - 1 \in 0..n /\ m \in 0..n /\ n \in 0..n /\ m <= n
    OBVIOUS
  <2>2. o[m] \in Nat /\ v[m] \in Nat /\ c[m - 1] \in Nat /\ c[m] = c[m - 1] + v[m]
                          /\ c[n] \in Nat
        /\ o[m] + v[m] <= L
    BY <2>1 DEF Blockwise, Counts
  <2>3. c[m] <= c[n]
    BY <2>1, CountsGrow DEF Blockwise
  <2>4. QED
    BY <2>2, <2>3
<1>2. W \in [0..N -> Int] /\ \A t \in 1..p : W[k + t] = W[k + (t - 1)] + f[a + t]
  BY <1>1 DEF Blockwise
<1>9. W[k] \in Int /\ W[k + p] \in Int
  <2>1. k \in 0..N /\ k + p \in 0..N
    BY <1>1
  <2>2. QED
    BY <1>2, <2>1
<1>3. ASSUME NEW t
      PROVE  Share(W, o, v, c, m,
             t) = IF t <= a THEN 0 ELSE IF t <= a + p THEN W[k + (t - a)] - W[k]
                                       ELSE W[k + p] - W[k]
  BY <1>1 DEF Share
<1>4. ASSUME NEW t \in 0..L
      PROVE  Share(W, o, v, c, m, t) \in Int
  <2>1. W[k] \in Int /\ W[k + p] \in Int
    BY <1>9
  <2>3. a < t /\ t <= a + p => W[k + (t - a)] \in Int
    <3>1. a < t /\ t <= a + p => k + (t - a) \in 0..N
      BY <1>1
    <3>2. QED
      BY <1>2, <3>1
  <2>2. QED
    BY <1>3, <2>1, <2>3
<1>5. Share(W, o, v, c, m, 0) = 0
  BY <1>3
<1>6. Share(W, o, v, c, m, L) = W[c[m]] - W[c[m - 1]]
  <2>1. CASE L <= a
    <3>1. p = 0 /\ W[k] \in Int /\ W[k + p] = W[k]
      BY <1>1, <1>9, <2>1
    <3>2. QED
      BY <1>1, <1>3, <2>1, <3>1
  <2>2. CASE ~(L <= a) /\ L <= a + p
    <3>1. L - a = p
      BY <1>1, <2>2
    <3>2. QED
      BY <1>1, <1>3, <2>2, <3>1
  <2>3. CASE ~(L <= a) /\ ~(L <= a + p)
    BY <1>1, <1>3, <2>3
  <2>4. QED
    BY <2>1, <2>2, <2>3
<1>7. ASSUME NEW t \in 1..L
      PROVE  Share(W, o, v, c, m, t) = Share(W, o, v, c, m, t - 1)
                 + (IF InBlock(t, o[m], v[m]) THEN f[t] ELSE 0)
  <2>1. PICK y : y = Share(W, o, v, c, m, t) /\ y \in Int
    BY <1>4
  <2>2. PICK z : z = Share(W, o, v, c, m, t - 1) /\ z \in Int
    BY <1>4
  <2>3. InBlock(t, o[m], v[m]) <=> a < t /\ t <= a + p
    BY <1>1 DEF InBlock
  <2>4. f[t] \in Int
    BY DEF Blockwise
  <2>5. CASE t <= a
    BY <1>3, <2>1, <2>2, <2>3, <2>5
  <2>6. CASE a < t /\ t <= a + p
    <3>1. PICK i \in 1..p : i = t - a /\ a + i = t
      BY <2>6
    <3>2. W[k + i] = W[k + (i - 1)] + f[t] /\ W[k + (i - 1)] \in Int /\ W[k] \in Int
      <4>1. k + i \in 0..N /\ k + (i - 1) \in 0..N
        BY <1>1
      <4>2. QED
        BY <1>2, <1>9, <3>1, <4>1
    <3>3. y = W[k + i] - W[k]
      BY <1>3, <2>1, <2>6, <3>1
    <3>4. z = W[k + (i - 1)] - W[k]
      <4>1. CASE t - 1 <= a
        <5>1. i - 1 = 0 /\ k + 0 = k
          BY <2>6, <3>1, <4>1
        <5>2. z = 0
          BY <1>3, <2>2, <4>1
        <5>3. QED
          BY <3>2, <5>1, <5>2
      <4>2. CASE ~(t - 1 <= a)
        <5>1. t - 1 <= a + p /\ (t - 1) - a = i - 1
          BY <2>6, <3>1
        <5>2. QED
          BY <1>3, <2>2, <4>2, <5>1
      <4>3. QED
        BY <4>1, <4>2
    <3>5. QED
      BY <2>1, <2>2, <2>3, <2>4, <2>6, <3>2, <3>3, <3>4
  <2>7. CASE t > a + p
    <3>1. y = W[k + p] - W[k] /\ W[k] \in Int /\ W[k + p] \in Int
      BY <1>3, <1>9, <2>1, <2>7
    <3>2. z = W[k + p] - W[k]
      <4>1. CASE t - 1 <= a
        <5>1. p = 0 /\ k + p = k
          BY <2>7, <4>1
        <5>2. QED
          BY <1>3, <2>2, <3>1, <4>1, <5>1
      <4>2. CASE ~(t - 1 <= a) /\ t - 1 <= a + p
        <5>1. (t - 1) - a = p
          BY <2>7, <4>2
        <5>2. QED
          BY <1>3, <2>2, <4>2, <5>1
      <4>3. CASE ~(t - 1 <= a) /\ ~(t - 1 <= a + p)
        BY <1>3, <2>2, <4>3
      <4>4. QED
        BY <4>1, <4>2, <4>3
    <3>3. QED
      BY <2>1, <2>2, <2>3, <2>7, <3>1, <3>2
  <2>8. QED
    BY <2>5, <2>6, <2>7
<1>8. QED
  BY <1>4, <1>5, <1>6, <1>7

(* The blocks in the order in which they were selected, and the tokens in  *)
(* their order, have one sum.                                              *)
LEMMA PickedSum ==
    ASSUME NEW n \in Nat, NEW L \in Nat, NEW W, NEW f, NEW o, NEW v, NEW c,
           Blockwise(W, f, o, v, c, n, L)
    PROVE  \E g : PickSums(g, f, o, v, n, L) /\ g[L] = W[c[n]]
<1> DEFINE T == {m \in 0..n : \E g : PickSums(g, f, o, v, m, L) /\ g[L] = W[c[m]]}
<1>1. 0 \in T
  <2>1. PICK g : g = [t \in 0..L |-> 0]
    OBVIOUS
  <2>2. PickSums(g, f, o, v, 0, L)
    BY <2>1 DEF PickSums
  <2>3. g[L] = W[c[0]]
    BY <2>1 DEF Blockwise, Counts
  <2>4. QED
    BY <2>2, <2>3
<1>2. ASSUME NEW m \in 1..n, m - 1 \in T
      PROVE  m \in T
  <2>1. PICK e : PickSums(e, f, o, v, m - 1, L) /\ e[L] = W[c[m - 1]]
    BY <1>2
  <2>2. PICK B : B = [t \in 0..L |-> Share(W, o, v, c, m, t)]
    OBVIOUS
  <2>3. /\ B[0] = 0 /\ B \in [0..L -> Int] /\ B[L] = W[c[m]] - W[c[m - 1]]
        /\ \A t \in 1..L : B[t] = B[t - 1] + (IF InBlock(t, o[m], v[m]) THEN f[t] ELSE 0)
    BY <2>2, ShareStep
  <2>4. PICK g : g = [t \in 0..L |-> e[t] + B[t]]
    OBVIOUS
  <2>5. e \in [0..L -> Int] /\ e[0] = 0
    BY <2>1 DEF PickSums
  <2>6. ASSUME NEW t \in 1..L
        PROVE  g[t] = g[t - 1] + (IF \E b \in 1..m : InBlock(t, o[b], v[b]) THEN f[t] ELSE 0)
    <3>1. e[t] = e[t - 1] + (IF \E b \in 1..(m - 1) : InBlock(t, o[b], v[b]) THEN f[t] ELSE 0)
      BY <2>1 DEF PickSums
    <3>2. f[t] \in Int
      BY DEF Blockwise
    <3>3. (\E b \in 1..m : InBlock(t, o[b], v[b]))
             <=> InBlock(t, o[m], v[m]) \/ \E b \in 1..(m - 1) : InBlock(t, o[b], v[b])
      OBVIOUS
    <3>4. ~(InBlock(t, o[m], v[m]) /\ \E b \in 1..(m - 1) : InBlock(t, o[b], v[b]))
      BY DEF Blockwise
    <3>5. PICK q \in Int, r \in Int, y \in Int, z \in Int :
              q = e[t] /\ r = e[t - 1] /\ y = B[t] /\ z = B[t - 1]
      <4>1. t \in 0..L /\ t - 1 \in 0..L
        OBVIOUS
      <4>2. e[t] \in Int /\ e[t - 1] \in Int /\ B[t] \in Int /\ B[t - 1] \in Int
        BY <2>3, <2>5, <4>1
      <4>3. QED
        BY <4>2
    <3>6. g[t] = q + y /\ g[t - 1] = r + z
      BY <2>4, <3>5
    <3>7. y = z + (IF InBlock(t, o[m], v[m]) THEN f[t] ELSE 0)
      BY <2>3, <3>5
    <3>8. QED
      BY <3>1, <3>2, <3>3, <3>4, <3>5, <3>6, <3>7
  <2>7. PickSums(g, f, o, v, m, L)
    <3>1. \A t \in 0..L : e[t] + B[t] \in Int
      <4> TAKE t \in 0..L
      <4>1. e[t] \in Int /\ B[t] \in Int
        BY <2>3, <2>5
      <4>2. QED
        BY <4>1
    <3>2. g \in [0..L -> Int]
      BY <2>4, <3>1
    <3>3. g[0] = 0
      BY <2>3, <2>4, <2>5
    <3>4. QED
      BY <2>6, <3>2, <3>3 DEF PickSums
  <2>8. g[L] = W[c[m]]
    <3>1. e[L] \in Int /\ B[L] \in Int /\ L \in 0..L
      BY <2>3, <2>5
    <3>2. PICK y \in Int, z \in Int : y = W[c[m]] /\ z = W[c[m - 1]]
      <4>1. m \in 0..n /\ m - 1 \in 0..n /\ n \in 0..n
        OBVIOUS
      <4>2. c[m] \in Nat /\ c[m - 1] \in Nat /\ c[n] \in Nat /\ c[m] <= c[n]
                              /\ c[m - 1] <= c[n]
        <5>1. Counts(c, v, n)
          BY DEF Blockwise
        <5>2. c[m] \in Nat /\ c[m - 1] \in Nat /\ c[n] \in Nat
          BY <4>1, <5>1 DEF Counts
        <5>3. m <= n /\ m - 1 <= n
          OBVIOUS
        <5>4. QED
          BY <4>1, <5>1, <5>2, <5>3, CountsGrow
      <4>3. QED
        BY <4>2 DEF Blockwise
    <3>3. QED
      BY <2>1, <2>3, <2>4, <3>1, <3>2
  <2>9. m \in 0..n
    OBVIOUS
  <2>10. QED
    BY <2>7, <2>8, <2>9
<1> HIDE DEF T
<1>3. 0..n \subseteq T
  BY <1>1, <1>2, UpTo
<1>4. QED
  <2>1. n \in T
    BY <1>3
  <2>2. QED
    BY <2>1 DEF T

(* The blocks ids of a cache of exact tensors, none of them twice.         *)
Chosen(s, ks, vs, ids) ==
    /\ s \in Specs /\ CreateAccepts(s)
    /\ ks \in UnitKeys(s) /\ ks \in Seq(Rows(s)) /\ vs \in Seq(Rows(s)) /\ Len(vs) = Len(ks)
    /\ ids \in Seq(0..(BlockCount(Len(ks), s) - 1)) /\ Distinct(ids)

(* Block b starts behind token o and has v tokens, which are the rows of   *)
(* its record.                                                             *)
BlockAt(s, ks, vs, b, o, v) ==
    /\ b \in Nat /\ o = b * s.block_tokens /\ o \in Nat
    /\ v = ValidTokens(Len(ks), b, s) /\ v \in 1..s.block_tokens
    /\ o + v <= Len(ks) /\ (v = s.block_tokens \/ o + v = Len(ks))
    /\ \A t \in 1..v : Row(ks, b, s, t - 1) = ks[o + t] /\ Row(vs, b, s, t - 1) = vs[o + t]

(* The sizes of a spec that create accepts.                                *)
LEMMA SizesAre ==
    ASSUME NEW s \in Specs, CreateAccepts(s)
    PROVE  s.kv_heads \in Nat \ {0} /\ s.head_dim \in Nat \ {0} /\ s.block_tokens \in Nat \ {0}
<1>1. s.kv_heads > 0 /\ s.head_dim > 0 /\ s.block_tokens > 0
  BY DEF CreateAccepts, ValidSpec
<1>2. Sized(s)
  BY AcceptedSized
<1>3. QED
  BY <1>1, <1>2 DEF Sized

(* A block that create writes has a token.                                 *)
LEMMA BeginsWithin ==
    ASSUME NEW n \in Nat, NEW T \in Nat \ {0}, NEW b \in 0..((n + T - 1) \div T - 1)
    PROVE  b * T \in Nat /\ b * T + 1 <= n
<1>1. PICK e \in Nat : e = n + T - 1
  <2>1. n + T - 1 \in Nat
    OBVIOUS
  <2>2. QED
    BY <2>1
<1>2. PICK q \in Nat, r \in 0..(T - 1) : q = e \div T /\ e = T * q + r
  OBVIOUS
<1>3. b \in 0..(q - 1)
  BY <1>1, <1>2
<1>4. PICK m \in Nat : q = (b + 1) + m
  <2>1. q - (b + 1) \in Nat /\ q = (b + 1) + (q - (b + 1))
    BY <1>3
  <2>2. QED
    BY <2>1
<1>5. T * ((b + 1) + m) = T * (b + 1) + T * m /\ T * (b + 1) = T * b + T /\ T * b = b * T
  BY <1>3, Regroup
<1>6. PICK y \in Nat, z \in Nat : y = b * T /\ z = T * m
  BY <1>3
<1>7. e = y + T + z + r
  BY <1>2, <1>4, <1>5, <1>6
<1>8. QED
  BY <1>1, <1>6, <1>7

(* A selected block has tokens.                                            *)
LEMMA ChosenBlock ==
    ASSUME NEW s, NEW ks, NEW vs, NEW ids, Chosen(s, ks, vs, ids), NEW m \in 1..Len(ids)
    PROVE  BlockAt(s, ks, vs, ids[m], ids[m] * s.block_tokens, ValidTokens(Len(ks), ids[m], s))
<1>1. PICK T \in Nat \ {0} : T = s.block_tokens
  BY SizesAre DEF Chosen
<1>2. ks \in Seq(Rows(s)) /\ vs \in Seq(Rows(s))
  BY DataAssumption DEF Chosen
<1>3. PICK n \in Nat : n = Len(ks) /\ n = Len(vs)
  BY <1>2 DEF Chosen
<1>4. PICK b : b = ids[m] /\ b \in 0..(BlockCount(n, s) - 1)
  <2>1. PICK B : B = 0..(BlockCount(Len(ks), s) - 1)
    OBVIOUS
  <2>2. ids \in Seq(B)
    BY <2>1 DEF Chosen
  <2>3. ids[m] \in B
    BY <2>2
  <2>4. QED
    BY <1>3, <2>1, <2>3
<1>5. PICK o : o = b * T
  OBVIOUS
<1>6. o \in Nat /\ o + 1 <= n
  <2>1. b \in 0..((n + T - 1) \div T - 1)
    BY <1>1, <1>4 DEF BlockCount
  <2>2. QED
    BY <1>5, <2>1, BeginsWithin
<1>7. b \in Nat
  BY <1>4
<1>8. PICK v : v = ValidTokens(n, b, s)
  OBVIOUS
<1>9. v \in 1..T /\ o + v <= n /\ (v = T \/ o + v = n)
  <2>1. v = IF n - o < T THEN n - o ELSE T
    BY <1>1, <1>5, <1>8 DEF ValidTokens
  <2>2. QED
    BY <1>6, <2>1
<1>10. ASSUME NEW t \in 1..v
       PROVE  Row(ks, b, s, t - 1) = ks[o + t] /\ Row(vs, b, s, t - 1) = vs[o + t]
  <2>1. o + (t - 1) < n /\ o + (t - 1) + 1 = o + t
    BY <1>6, <1>9
  <2>2. QED
    BY <1>1, <1>3, <1>5, <2>1 DEF Row
<1>11. QED
  BY <1>1, <1>3, <1>4, <1>5, <1>6, <1>7, <1>8, <1>9, <1>10 DEF BlockAt

(* The elements of a head are within the row.                              *)
LEMMA CellIn ==
    ASSUME NEW s \in Specs, CreateAccepts(s), NEW y \in Rows(s), NEW h \in 0..(s.kv_heads - 1),
           NEW d \in 1..s.head_dim
    PROVE  Cell(y, h, d, s.head_dim) \in Int
<1>1. PICK kv \in Nat \ {0}, dim \in Nat \ {0} : kv = s.kv_heads /\ dim = s.head_dim
  BY SizesAre
<1>2. PICK width \in Nat : width = kv * dim
  OBVIOUS
<1>3. PICK u \in Nat : kv = (h + 1) + u /\ h \in Nat
  <2>1. h \in Nat /\ kv - (h + 1) \in Nat /\ kv = (h + 1) + (kv - (h + 1))
    BY <1>1
  <2>2. QED
    BY <2>1
<1>4. ((h + 1) + u) * dim = (h + 1) * dim + u * dim /\ (h + 1) * dim = h * dim + dim
  BY <1>3, Regroup
<1>5. PICK p \in Nat, z \in Nat : p = h * dim /\ z = u * dim
  BY <1>3
<1>6. width = p + dim + z /\ d \in 1..dim
  BY <1>1, <1>2, <1>3, <1>4, <1>5
<1>7. p + d \in 1..width
  BY <1>6
<1>8. y \in [1..width -> Int]
  BY <1>1, <1>2 DEF Rows
<1>9. QED
  BY <1>1, <1>5, <1>7, <1>8 DEF Cell

(* The sums of rows of integers exist.                                     *)
LEMMA RowSumsExist ==
    ASSUME NEW n \in Nat, NEW dim \in Nat, NEW S, NEW V,
           \A i \in 1..n : S[i] \in Scores /\ \A d \in 1..dim : V[i][d] \in Int
    PROVE  \E w, x : Sums(w, x, S, V, n, dim)
<1>1. ASSUME NEW i \in 1..n
      PROVE  Weight(S[i]) \in Int /\ \A d \in 1..dim : Weight(S[i]) * V[i][d] \in Int
  <2>1. PICK y \in Int : y = Weight(S[i])
    BY WeightIs
  <2>2. QED
    BY <2>1, Regroup
<1>2. PICK f : f = [i \in 1..n |-> Weight(S[i])]
  OBVIOUS
<1>3. PICK w : Adds(w, f, n)
  BY <1>1, <1>2, SumsExist
<1>4. PICK F : F = [d \in 1..dim |-> [i \in 1..n |-> Weight(S[i]) * V[i][d]]]
  OBVIOUS
<1>5. PICK G : G = [d \in 1..dim |-> CHOOSE g : Adds(g, F[d], n)]
  OBVIOUS
<1>6. \A d \in 1..dim : Adds(G[d], F[d], n)
  <2> TAKE d \in 1..dim
  <2>1. PICK p : p = F[d] /\ \A i \in 1..n : p[i] \in Int
    <3>1. \A i \in 1..n : F[d][i] = Weight(S[i]) * V[i][d]
      BY <1>4
    <3>2. QED
      BY <1>1, <3>1
  <2>2. \E g : Adds(g, F[d], n)
    BY <2>1, SumsExist
  <2>3. G[d] = CHOOSE g : Adds(g, F[d], n)
    BY <1>5
  <2>4. QED
    BY <2>2, <2>3, Zenon
<1>7. PICK x : x = [i \in 0..n |-> [d \in 1..dim |-> G[d][i]]]
  OBVIOUS
<1>8. Sums(w, x, S, V, n, dim)
  <2>1. w \in [0..n -> Int] /\ w[0] = 0 /\ \A i \in 1..n : w[i] = w[i - 1] + Weight(S[i])
    BY <1>2, <1>3 DEF Adds
  <2>2. \A d \in 1..dim : \A i \in 0..n : G[d][i] \in Int
    BY <1>6 DEF Adds
  <2>3. x \in [0..n -> [1..dim -> Int]]
    BY <1>7, <2>2
  <2>4. \A d \in 1..dim : x[0][d] = 0
    BY <1>6, <1>7 DEF Adds
  <2>5. \A i \in 1..n : \A d \in 1..dim : x[i][d] = x[i - 1][d] + Weight(S[i]) * V[i][d]
    <3> TAKE i \in 1..n
    <3> TAKE d \in 1..dim
    <3>1. G[d][i] = G[d][i - 1] + F[d][i]
      BY <1>6 DEF Adds
    <3>2. F[d][i] = Weight(S[i]) * V[i][d]
      BY <1>4
    <3>3. x[i][d] = G[d][i] /\ x[i - 1][d] = G[d][i - 1]
      <4>1. i \in 0..n /\ i - 1 \in 0..n
        OBVIOUS
      <4>2. QED
        BY <1>7, <4>1
    <3>4. QED
      BY <3>1, <3>2, <3>3
  <2>6. QED
    BY <2>1, <2>3, <2>4, <2>5 DEF Sums
<1>9. QED
  BY <1>8

(* The query heads of an instance.                                         *)
LEMMA QueryHead ==
    ASSUME NEW s \in Specs, CreateAccepts(s), NEW q \in Queries(s),
           Len(q) % s.kv_heads = 0, NEW j \in DOMAIN q
    PROVE  /\ q[j] \in [1..s.head_dim -> Int]
           /\ KVHead(j - 1, Len(q), s.kv_heads) \in 0..(s.kv_heads - 1)
           /\ KVHead(j - 1, Len(q), s.kv_heads) = ((j - 1) * s.kv_heads) \div Len(q)
<1>1. s \in {r \in Specs : CreateAccepts(r)}
  OBVIOUS
<1>2. q \in Seq([1..s.head_dim -> Int]) \ {<<>>}
  <2>1. \A r \in Queries(s) :
           /\ r \in Seq([1..s.head_dim -> Int]) \ {<<>>}
           /\ \A k \in Keys(s) \cap Exact(s) : \A t \in DOMAIN k, h \in DOMAIN r :
                Dot(r[h], InUnits(k, s)[t], ((h - 1) * s.kv_heads) \div Len(r))
                    \in (-MaxScore)..MaxScore
    BY <1>1, ExactAssumption, Zenon
  <2>2. \A r \in Queries(s) : r \in Seq([1..s.head_dim -> Int]) \ {<<>>}
    BY <2>1, Zenon
  <2>3. QED
    BY <2>2
<1>3. PICK n \in Nat \ {0} : n = Len(q) /\ j \in 1..n
  BY <1>2
<1>4. q[j] \in [1..s.head_dim -> Int]
  BY <1>2
<1>5. PICK kv \in Nat \ {0} : kv = s.kv_heads
  BY SizesAre
<1>6. PICK i \in 0..(n - 1) : i = j - 1
  BY <1>3
<1>7. KVHead(i, n, kv) \in 0..(kv - 1) /\ KVHead(i, n, kv) = (i * kv) \div n
  <2>1. n % kv = 0
    BY <1>3, <1>5
  <2>2. QED
    BY <2>1, KVHeadIs
<1>8. QED
  BY <1>3, <1>4, <1>5, <1>6, <1>7

(* The score of a token of an exact tensor is one whose weight is known.   *)
LEMMA ScoreIn ==
    ASSUME NEW s \in Specs, CreateAccepts(s), NEW q \in Queries(s),
           Len(q) % s.kv_heads = 0, NEW j \in DOMAIN q,
           NEW ks \in UnitKeys(s), NEW t \in DOMAIN ks
    PROVE  Dot(q[j], ks[t], KVHead(j - 1, Len(q), s.kv_heads)) \in Scores
<1>1. s \in {r \in Specs : CreateAccepts(r)}
  OBVIOUS
<1>2. Dot(q[j], ks[t], ((j - 1) * s.kv_heads) \div Len(q)) \in (-MaxScore)..MaxScore
  <2>1. PICK x \in Keys(s) \cap Exact(s) : ks = InUnits(x, s)
    BY DEF UnitKeys
  <2>2. t \in DOMAIN x
    BY <2>1 DEF InUnits
  <2>3. Dot(q[j], InUnits(x, s)[t], ((j - 1) * s.kv_heads) \div Len(q)) \in (-MaxScore)..MaxScore
    BY <1>1, <2>1, <2>2, ExactAssumption, Zenon
  <2>4. QED
    BY <2>1, <2>3
<1>3. QED
  BY <1>2, QueryHead DEF Scores

(* There are sums to compare with.                                         *)
LEMMA HeadExists ==
    ASSUME NEW s, NEW ks, NEW vs, NEW ids, Chosen(s, ks, vs, ids), NEW q \in Queries(s),
           Len(q) % s.kv_heads = 0, NEW j \in DOMAIN q
    PROVE  \E u : HeadOf(u, s, ks, vs, ids, q, j)
<1>1. s \in Specs /\ CreateAccepts(s) /\ ks \in UnitKeys(s)
  BY DEF Chosen
<1>2. PICK kv \in Nat \ {0}, dim \in Nat \ {0}, T \in Nat \ {0} :
          kv = s.kv_heads /\ dim = s.head_dim /\ T = s.block_tokens
  BY <1>1, SizesAre
<1>3. PICK n \in Nat : n = Len(ids)
  BY DEF Chosen
<1>4. PICK vector, h : /\ vector = q[j] /\ vector \in [1..dim -> Int]
                       /\ h = KVHead(j - 1, Len(q), s.kv_heads) /\ h \in 0..(kv - 1)
  BY <1>1, <1>2, QueryHead
<1>5. PICK v : v = [m \in 1..n |-> ValidTokens(Len(ks), ids[m], s)]
  OBVIOUS
<1>6. ASSUME NEW m \in 1..n
      PROVE  BlockAt(s, ks, vs, ids[m], ids[m] * s.block_tokens, v[m])
  BY <1>3, <1>5, ChosenBlock
<1>7. v \in [1..n -> 1..T] /\ v \in [1..n -> Nat]
  BY <1>2, <1>5, <1>6 DEF BlockAt
<1>8. PICK rows, c : RowsOf(rows, c, v, n)
  <2>1. PICK batch : batch = [valid |-> v]
    OBVIOUS
  <2>2. batch.valid \in [1..n -> Nat] /\ batch.valid = v
    BY <1>7, <2>1
  <2>3. \E c : RowsOf(ValidRows(batch), c, v, n)
    BY <2>2, RowsAre
  <2>4. QED
    BY <2>3
<1>9. PICK N \in Nat : N = c[n]
  <2>1. n \in 0..n
    OBVIOUS
  <2>2. QED
    BY <1>8, <2>1 DEF RowsOf
<1>10. Counts(c, v, n)
  BY <1>7, <1>8 DEF RowsOf, Counts
<1>11. PICK S : S = [i \in 1..N |-> Dot(vector, Row(ks, ids[rows[i][1]], s, rows[i][2]), h)]
  OBVIOUS
<1>12. PICK V : V = [i \in 1..N |-> [d \in 1..dim |->
                        Cell(Row(vs, ids[rows[i][1]], s, rows[i][2]), h, d, dim)]]
  OBVIOUS
<1>13. ASSUME NEW m \in 1..n, NEW t \in 1..v[m]
       PROVE  /\ c[m - 1] + t \in 1..N
              /\ S[c[m - 1] + t] = Dot(vector, Row(ks, ids[m], s, t - 1), h)
              /\ \A d \in 1..dim : V[c[m - 1] + t][d] = Cell(Row(vs, ids[m], s, t - 1), h, d,
                     dim)
  <2>1. rows[c[m - 1] + t] = <<m, t - 1>> /\ c[m - 1] + t <= N
    BY <1>8, <1>9 DEF RowsOf
  <2>2. PICK i : i = c[m - 1] + t
    OBVIOUS
  <2>3. i \in 1..N
    <3>1. m - 1 \in 0..n
      OBVIOUS
    <3>2. c[m - 1] \in Nat
      BY <1>10, <3>1 DEF Counts
    <3>3. t \in Nat \ {0}
      BY <1>7
    <3>4. QED
      BY <2>1, <2>2, <3>2, <3>3
  <2>4. rows[i][1] = m /\ rows[i][2] = t - 1
    BY <2>1, <2>2
  <2>5. QED
    BY <1>11, <1>12, <2>2, <2>3, <2>4
<1>14. ASSUME NEW i \in 1..N
       PROVE  S[i] \in Scores /\ \A d \in 1..dim : V[i][d] \in Int
  <2>1. PICK m \in 1..n : \E t \in 1..v[m] : i = c[m - 1] + t
    BY <1>8, <1>9 DEF RowsOf
  <2>2. PICK t \in 1..v[m] : i = c[m - 1] + t
    BY <2>1
  <2>3. PICK o \in Nat : o = ids[m] * s.block_tokens /\ BlockAt(s, ks, vs, ids[m], o, v[m])
    BY <1>6 DEF BlockAt
  <2>4. /\ Row(ks, ids[m], s, t - 1) = ks[o + t] /\ Row(vs, ids[m], s, t - 1) = vs[o + t]
        /\ o + v[m] <= Len(ks)
    BY <2>3 DEF BlockAt
  <2>5. ks \in Seq(Rows(s)) /\ vs \in Seq(Rows(s)) /\ Len(vs) = Len(ks)
    BY DataAssumption DEF Chosen
  <2>6. o + t \in 1..Len(ks)
    BY <1>7, <2>3, <2>4, <2>5
  <2>7. PICK p : p = o + t /\ p \in DOMAIN ks /\ vs[p] \in Rows(s)
    BY <2>5, <2>6
  <2>8. Dot(q[j], ks[p], KVHead(j - 1, Len(q), s.kv_heads)) \in Scores
    BY <1>1, <2>7, ScoreIn
  <2>9. \A d \in 1..s.head_dim : Cell(vs[p], h, d, s.head_dim) \in Int
    BY <1>1, <1>2, <1>4, <2>7, CellIn
  <2>11. S[i] = Dot(vector, ks[p], h) /\ \A d \in 1..dim : V[i][d] = Cell(vs[p], h, d, dim)
    <3>1. /\ S[i] = Dot(vector, Row(ks, ids[m], s, t - 1), h)
          /\ \A d \in 1..dim : V[i][d] = Cell(Row(vs, ids[m], s, t - 1), h, d, dim)
      BY <1>13, <2>2
    <3>2. Row(ks, ids[m], s, t - 1) = ks[p] /\ Row(vs, ids[m], s, t - 1) = vs[p]
      BY <2>4, <2>7
    <3>3. QED
      BY <3>1, <3>2
  <2>12. Dot(vector, ks[p], h) \in Scores
    BY <1>4, <2>8
  <2>10. QED
    BY <1>2, <2>9, <2>11, <2>12
<1>15. PICK w, x : Sums(w, x, S, V, N, dim)
  BY <1>14, RowSumsExist
<1> DEFINE U == [s |-> s, ks |-> ks, vs |-> vs, ids |-> ids, n |-> n, vector |-> vector,
       h |-> h,
                 c |-> c, S |-> S, V |-> V, w |-> w, x |-> x]
<1>16. PICK u : u = U
  <2> HIDE DEF U
  <2>1. QED
    OBVIOUS
<1>17. /\ u.s = s /\ u.ks = ks /\ u.vs = vs /\ u.ids = ids /\ u.n = n /\ u.vector = vector
       /\ u.h = h /\ u.c = c /\ u.S = S /\ u.V = V /\ u.w = w /\ u.x = x
  BY <1>16
<1> HIDE DEF U
<1>18. \A m \in 1..n : Valid(u, m) = v[m]
  BY <1>5, <1>17 DEF Valid
<1>19. HeadSums(u)
  <2>1. /\ u.s \in Specs /\ CreateAccepts(u.s) /\ u.n \in Nat
        /\ u.vector \in [1..u.s.head_dim -> Int] /\ u.h \in 0..(u.s.kv_heads - 1)
    BY <1>1, <1>2, <1>4, <1>17
  <2>2. Counts(u.c, [m \in 1..u.n |-> Valid(u, m)], u.n)
    <3>1. v = [m \in 1..u.n |-> Valid(u, m)]
      BY <1>7, <1>17, <1>18
    <3>2. QED
      BY <1>10, <1>17, <3>1
  <2>3. ASSUME NEW m \in 1..u.n, NEW t \in 1..Valid(u, m)
        PROVE  /\ u.S[u.c[m - 1] + t] = Dot(u.vector, Row(u.ks, u.ids[m], u.s, t - 1), u.h)
               /\ \A d \in 1..u.s.head_dim :
                     u.V[u.c[m - 1] + t][d]
                        = Cell(Row(u.vs, u.ids[m], u.s, t - 1), u.h, d, u.s.head_dim)
    <3>1. m \in 1..n /\ t \in 1..v[m]
      BY <1>17, <1>18
    <3>2. QED
      BY <1>2, <1>13, <1>17, <3>1
  <2>4. Sums(u.w, u.x, u.S, u.V, u.c[u.n], u.s.head_dim)
    BY <1>2, <1>9, <1>15, <1>17
  <2>5. QED
    BY <2>1, <2>2, <2>3, <2>4 DEF HeadSums
<1>20. HeadOf(u, s, ks, vs, ids, q, j)
  BY <1>3, <1>4, <1>17, <1>19 DEF HeadOf
<1>21. QED
  BY <1>20

(* The tokens of a block.                                                  *)
LEMMA BlockOfToken ==
    ASSUME NEW s, NEW ks, NEW vs, NEW b, NEW o, NEW v, BlockAt(s, ks, vs, b, o, v),
           s.block_tokens \in Nat \ {0}, Len(ks) \in Nat, NEW t \in 1..Len(ks)
    PROVE  InBlock(t, o, v) <=> (t - 1) \div s.block_tokens = b
<1>1. PICK T \in Nat \ {0} : T = s.block_tokens
  OBVIOUS
<1>2. PICK L : L = Len(ks)
  OBVIOUS
<1>3. /\ b \in Nat /\ o = b * T /\ o \in Nat /\ v \in 1..T /\ o + v <= L
      /\ (v = T \/ o + v = L)
  BY <1>1, <1>2 DEF BlockAt
<1>4. L \in Int /\ t \in 1..L
  BY <1>2
<1>5. T * b = o
  BY <1>3, Regroup
<1>6. ASSUME InBlock(t, o, v)
      PROVE  (t - 1) \div T = b
  <2>1. PICK r \in 0..(T - 1) : r = (t - 1) - o
    BY <1>3, <1>6 DEF InBlock
  <2>2. PICK a \in Int, q \in Int : a = t - 1 /\ q = b
    BY <1>3, <1>4
  <2>3. a = T * q + r
    BY <1>3, <1>5, <2>1, <2>2
  <2>4. a \div T = q
    BY ONLY <2>3, T \in Nat \ {0}, q \in Int, r \in 0..(T - 1), DivModIs
  <2>5. QED
    BY <2>2, <2>4
<1>7. ASSUME (t - 1) \div T = b
      PROVE  InBlock(t, o, v)
  <2>1. PICK a \in Nat : a = t - 1
    BY <1>2, <1>4
  <2>2. PICK r \in 0..(T - 1) : a = T * b + r
    <3>1. a \div T = b
      BY <1>7, <2>1
    <3>2. PICK q \in Nat, r \in 0..(T - 1) : q = a \div T /\ a = T * q + r
      OBVIOUS
    <3>3. QED
      BY <3>1, <3>2
  <2>3. a = o + r
    BY <1>5, <2>2
  <2>4. QED
    BY <1>2, <1>3, <1>4, <2>1, <2>3 DEF InBlock
<1>8. QED
  BY <1>1, <1>6, <1>7

(* W sums f over the tokens of the selected blocks, one block behind the   *)
(* other.                                                                  *)
SelectedSums(W, f, s, ks, ids, c) ==
    /\ DOMAIN f = 1..Len(ks) /\ \A t \in 1..Len(ks) : f[t] \in Int
    /\ Counts(c, [m \in 1..Len(ids) |-> ValidTokens(Len(ks), ids[m], s)], Len(ids))
    /\ W \in [0..c[Len(ids)] -> Int] /\ W[0] = 0
    /\ \A m \in 1..Len(ids) : \A t \in 1..ValidTokens(Len(ks), ids[m], s) :
          W[c[m - 1] + t] = W[c[m - 1] + (t - 1)] + f[ids[m] * s.block_tokens + t]

(* That is the sum over the tokens whose block was selected.               *)
LEMMA SelectedTotal ==
    ASSUME NEW s, NEW ks, NEW vs, NEW ids, Chosen(s, ks, vs, ids), NEW W, NEW f, NEW c,
           SelectedSums(W, f, s, ks, ids, c), NEW p,
           p = [t \in 1..Len(ks) |->
                  IF \E b \in DOMAIN ids :
                         (t - 1) \div s.block_tokens = ids[b] THEN f[t] ELSE 0]
    PROVE  Total(p) = W[c[Len(ids)]]
<1>1. s \in Specs /\ CreateAccepts(s) /\ ks \in Seq(Rows(s)) /\ Distinct(ids)
  BY DataAssumption DEF Chosen
<1>2. PICK L \in Nat, n \in Nat : L = Len(ks) /\ n = Len(ids) /\ DOMAIN ids = 1..n
  BY <1>1 DEF Chosen
<1>3. PICK T \in Nat \ {0} : T = s.block_tokens
  BY <1>1, SizesAre
<1>4. PICK v, o : /\ v = [m \in 1..n |-> ValidTokens(L, ids[m], s)]
                  /\ o = [m \in 1..n |-> ids[m] * T]
  OBVIOUS
<1>5. ASSUME NEW m \in 1..n
      PROVE  BlockAt(s, ks, vs, ids[m], o[m], v[m]) /\ o[m] \in Nat /\ o[m] + v[m] <= L
  <2>1. BlockAt(s, ks, vs, ids[m], o[m], v[m])
    BY <1>2, <1>3, <1>4, ChosenBlock
  <2>2. QED
    BY <1>2, <2>1 DEF BlockAt
<1>6. ASSUME NEW m \in 1..n, NEW t \in 1..L
      PROVE  InBlock(t, o[m], v[m]) <=> (t - 1) \div T = ids[m]
  <2>1. s.block_tokens \in Nat \ {0} /\ Len(ks) \in Nat /\ t \in 1..Len(ks)
    BY <1>2, <1>3
  <2>2. QED
    BY <1>3, <1>5, <2>1, BlockOfToken
<1>7. Blockwise(W, f, o, v, c, n, L)
  <2>1. \A t \in 1..L : f[t] \in Int
    BY <1>2 DEF SelectedSums
  <2>2. o \in [1..n -> Nat] /\ \A m \in 1..n : o[m] + v[m] <= L
    BY <1>4, <1>5
  <2>3. Counts(c, v, n) /\ W \in [0..c[n] -> Int] /\ W[0] = 0
    BY <1>2, <1>4 DEF SelectedSums
  <2>4. ASSUME NEW m \in 1..n, NEW b \in 1..n, m # b, NEW t \in 1..L
        PROVE  ~(InBlock(t, o[m], v[m]) /\ InBlock(t, o[b], v[b]))
    <3>1. ids[m] # ids[b]
      BY <1>1, <1>2, <2>4 DEF Distinct
    <3>2. QED
      BY <1>6, <3>1
  <2>5. \A m \in 1..n : \A t \in 1..v[m] :
         W[c[m - 1] + t] = W[c[m - 1] + (t - 1)] + f[o[m] + t]
    BY <1>2, <1>3, <1>4 DEF SelectedSums
  <2>6. QED
    BY <2>1, <2>2, <2>3, <2>4, <2>5 DEF Blockwise
<1>8. PICK g : PickSums(g, f, o, v, n, L) /\ g[L] = W[c[n]]
  BY <1>7, PickedSum
<1>9. \A t \in 1..L : p[t] = IF \E b \in 1..n : InBlock(t, o[b], v[b]) THEN f[t] ELSE 0
  BY <1>2, <1>3, <1>6
<1>10. \A t \in 1..L : p[t] \in Int
  BY <1>2, <1>9 DEF SelectedSums
<1>11. Adds(g, p, L)
  BY <1>8, <1>9, <1>10 DEF PickSums, Adds
<1>12. p \in [1..L -> Int]
  <2>1. p = [t \in 1..L |-> p[t]]
    BY <1>2
  <2>2. QED
    BY <1>10, <2>1
<1>13. p \in Seq(Int) /\ DOMAIN p = 1..L
  BY <1>12
<1>14. Total(p) = g[L]
  BY <1>11, <1>13, TotalIs
<1>15. QED
  BY <1>2, <1>8, <1>14

(* Row i of the sums u is token p of the tensors.                          *)
TokenOf(u, ks, vs, q, j, i, p) ==
    /\ i \in 1..u.c[u.n] /\ p \in 1..Len(ks)
    /\ u.S[i] = Dot(q[j], ks[p], u.h)
    /\ \A d \in 1..u.s.head_dim : u.V[i][d] = Cell(vs[p], u.h, d, u.s.head_dim)

(* The rows of the sums are the tokens of the selected blocks.             *)
LEMMA HeadTokens ==
    ASSUME NEW s, NEW ks, NEW vs, NEW ids, Chosen(s, ks, vs, ids), NEW q, NEW j,
           NEW u, HeadOf(u, s, ks, vs, ids, q, j), NEW m \in 1..Len(ids),
           NEW t \in 1..ValidTokens(Len(ks), ids[m], s)
    PROVE  /\ TokenOf(u, ks, vs, q, j, u.c[m - 1] + t, ids[m] * s.block_tokens + t)
           /\ (u.c[m - 1] + t) - 1 = u.c[m - 1] + (t - 1)
<1>1. /\ HeadSums(u) /\ u.s = s /\ u.ks = ks /\ u.vs = vs /\ u.ids = ids /\ u.n = Len(ids)
      /\ u.vector = q[j]
  BY DEF HeadOf
<1>2. PICK o, v : /\ o = ids[m] * s.block_tokens /\ v = ValidTokens(Len(ks), ids[m], s)
                  /\ BlockAt(s, ks, vs, ids[m], o, v)
  BY ChosenBlock
<1>3. PICK T \in Nat \ {0}, L \in Nat, n \in Nat : T = s.block_tokens /\ L = Len(ks)
                                                                           /\ n = Len(ids)
  <2>1. s \in Specs /\ CreateAccepts(s) /\ ks \in Seq(Rows(s))
    BY DataAssumption DEF Chosen
  <2>2. s.block_tokens \in Nat \ {0}
    BY <2>1, SizesAre
  <2>3. Len(ids) \in Nat
    BY <1>1 DEF HeadSums
  <2>4. Len(ks) \in Nat
    BY <2>1
  <2>5. QED
    BY <2>2, <2>3, <2>4
<1>4. /\ o \in Nat /\ v \in 1..T /\ o + v <= L /\ t \in 1..v
      /\ Row(ks, ids[m], s, t - 1) = ks[o + t] /\ Row(vs, ids[m], s, t - 1) = vs[o + t]
  BY <1>2, <1>3 DEF BlockAt
<1>5. Valid(u, m) = v
  BY <1>1, <1>2 DEF Valid
<1>6. PICK w : w = [k \in 1..n |-> Valid(u, k)] /\ Counts(u.c, w, n)
  BY <1>1, <1>3 DEF HeadSums
<1>7. PICK a \in Nat, N \in Nat : /\ a = u.c[m - 1] /\ N = u.c[n] /\ a + v <= N
  <2>1. m \in 1..n /\ m - 1 \in 0..n /\ m \in 0..n /\ n \in 0..n /\ m <= n
    BY <1>3
  <2>2. u.c[m - 1] \in Nat /\ u.c[n] \in Nat /\ u.c[m] = u.c[m - 1] + w[m] /\ w[m] = v
    BY <1>5, <1>6, <2>1 DEF Counts
  <2>3. u.c[m] <= u.c[n]
    BY <1>6, <2>1, CountsGrow
  <2>4. QED
    BY <1>4, <2>2, <2>3
<1>8. PICK i, p : i = a + t /\ p = o + t /\ i \in 1..N /\ p \in 1..L
                                 /\ (a + t) - 1 = a + (t - 1)
  <2>1. t \in Nat \ {0} /\ v \in Nat /\ t <= v
    BY <1>4
  <2>2. a + t \in 1..N /\ o + t \in 1..L /\ (a + t) - 1 = a + (t - 1)
    <3>1. o \in Nat /\ o + v <= L /\ a + v <= N
      BY <1>4, <1>7
    <3>2. QED
      BY ONLY <2>1, <3>1, a \in Nat, N \in Nat, L \in Nat
  <2>3. QED
    BY <2>2
<1>9. /\ u.S[i] = Dot(q[j], ks[p], u.h)
      /\ \A d \in 1..u.s.head_dim : u.V[i][d] = Cell(vs[p], u.h, d, u.s.head_dim)
  <2>1. m \in 1..u.n /\ t \in 1..Valid(u, m)
    BY <1>1, <1>3, <1>4, <1>5
  <2>2. /\ u.S[u.c[m - 1] + t] = Dot(u.vector, Row(u.ks, u.ids[m], u.s, t - 1), u.h)
        /\ \A d \in 1..u.s.head_dim :
              u.V[u.c[m - 1] + t][d]
                 = Cell(Row(u.vs, u.ids[m], u.s, t - 1), u.h, d, u.s.head_dim)
    BY <1>1, <2>1 DEF HeadSums
  <2>3. QED
    BY <1>1, <1>4, <1>7, <1>8, <2>2
<1>10. TokenOf(u, ks, vs, q, j, i, p)
  BY <1>1, <1>3, <1>7, <1>8, <1>9 DEF TokenOf
<1>11. QED
  BY <1>2, <1>7, <1>8, <1>10

(* The counts of the sums u.                                               *)
LEMMA HeadCounts ==
    ASSUME NEW s, NEW ks, NEW vs, NEW ids, NEW q, NEW j, NEW u, HeadOf(u, s, ks, vs, ids, q, j)
    PROVE  Counts(u.c, [m \in 1..Len(ids) |-> ValidTokens(Len(ks), ids[m], s)], Len(ids))
<1>1. /\ HeadSums(u) /\ u.s = s /\ u.ks = ks /\ u.ids = ids /\ u.n = Len(ids)
  BY DEF HeadOf
<1>2. Counts(u.c, [m \in 1..u.n |-> Valid(u, m)], u.n)
  BY <1>1 DEF HeadSums
<1>3. [m \in 1..u.n |-> Valid(u, m)] = [m \in 1..Len(ids) |-> ValidTokens(Len(ks), ids[m], s)]
  BY <1>1 DEF Valid
<1>4. QED
  BY <1>1, <1>2, <1>3

(* The weights of the selected tokens.                                     *)
LEMMA WeightTotal ==
    ASSUME NEW s, NEW ks, NEW vs, NEW ids, Chosen(s, ks, vs, ids), NEW q \in Queries(s),
           Len(q) % s.kv_heads = 0, NEW j \in DOMAIN q,
           NEW u, HeadOf(u, s, ks, vs, ids, q, j), NEW p,
           p = [t \in 1..Len(ks) |->
                  IF \E b \in DOMAIN ids : (t - 1) \div s.block_tokens = ids[b]
                  THEN Weight(Dot(q[j], ks[t], u.h)) ELSE 0]
    PROVE  Total(p) = u.w[u.c[u.n]]
<1>1. PICK f : f = [t \in 1..Len(ks) |-> Weight(Dot(q[j], ks[t], u.h))]
  OBVIOUS
<1>2. /\ HeadSums(u) /\ u.n = Len(ids) /\ u.h = KVHead(j - 1, Len(q), s.kv_heads)
  BY DEF HeadOf
<1>3. s \in Specs /\ CreateAccepts(s) /\ ks \in Seq(Rows(s)) /\ ks \in UnitKeys(s)
  BY DataAssumption DEF Chosen
<1>4. \A t \in 1..Len(ks) : f[t] \in Int
  <2> TAKE t \in 1..Len(ks)
  <2>1. t \in DOMAIN ks
    BY <1>3
  <2>2. Dot(q[j], ks[t], KVHead(j - 1, Len(q), s.kv_heads)) \in Scores
    BY <1>3, <2>1, ScoreIn
  <2>3. PICK z \in Scores : z = Dot(q[j], ks[t], u.h)
    BY <1>2, <2>2
  <2>4. Weight(z) \in Nat \ {0}
    BY WeightIs
  <2>5. QED
    BY <1>1, <2>3, <2>4
<1>5. Sums(u.w, u.x, u.S, u.V, u.c[u.n], u.s.head_dim)
  BY <1>2 DEF HeadSums
<1>6. \A m \in 1..Len(ids) : \A t \in 1..ValidTokens(Len(ks), ids[m], s) :
          u.w[u.c[m - 1] + t] = u.w[u.c[m - 1] + (t - 1)] + f[ids[m] * s.block_tokens + t]
  <2> TAKE m \in 1..Len(ids)
  <2> TAKE t \in 1..ValidTokens(Len(ks), ids[m], s)
  <2>1. PICK i, r : /\ i = u.c[m - 1] + t /\ r = ids[m] * s.block_tokens + t
    OBVIOUS
  <2>9. TokenOf(u, ks, vs, q, j, i, r) /\ i - 1 = u.c[m - 1] + (t - 1)
    <3>1. /\ TokenOf(u, ks, vs, q, j, u.c[m - 1] + t, ids[m] * s.block_tokens + t)
          /\ (u.c[m - 1] + t) - 1 = u.c[m - 1] + (t - 1)
      BY HeadTokens
    <3>2. QED
      BY <2>1, <3>1, Zenon
  <2>2. u.w[i] = u.w[i - 1] + Weight(u.S[i])
    BY <1>5, <2>1, <2>9 DEF Sums, TokenOf
  <2>3. f[r] = Weight(u.S[i])
    BY <1>1, <2>1, <2>9 DEF TokenOf
  <2>4. QED
    BY <2>1, <2>2, <2>3, <2>9
<1>7. SelectedSums(u.w, f, s, ks, ids, u.c)
  <2>1. u.w \in [0..u.c[Len(ids)] -> Int] /\ u.w[0] = 0
    BY <1>2, <1>5 DEF Sums
  <2>2. DOMAIN f = 1..Len(ks)
    BY <1>1
  <2>3. QED
    BY <1>4, <1>6, <2>1, <2>2, HeadCounts DEF SelectedSums
<1>8. p = [t \in 1..Len(ks) |->
             IF \E b \in DOMAIN ids : (t - 1) \div s.block_tokens = ids[b] THEN f[t] ELSE 0]
  BY <1>1
<1>9. PICK W, c : W = u.w /\ c = u.c /\ SelectedSums(W, f, s, ks, ids, c)
  BY <1>7
<1>10. Total(p) = W[c[Len(ids)]]
  BY <1>8, <1>9, SelectedTotal
<1>11. QED
  BY <1>2, <1>9, <1>10

(* What the tokens of a cache add to element d: their values by weight, or *)
(* nothing where they are not selected.                                    *)
ValueTerms(u, s, ks, vs, ids, q, j, d) ==
    [t \in 1..Len(ks) |->
        IF \E b \in DOMAIN ids : (t - 1) \div s.block_tokens = ids[b]
        THEN Weight(Dot(q[j], ks[t], u.h)) * Cell(vs[t], u.h, d, s.head_dim) ELSE 0]

(* Their weighted values.                                                  *)
LEMMA ValueTotal ==
    ASSUME NEW s, NEW ks, NEW vs, NEW ids, Chosen(s, ks, vs, ids), NEW q \in Queries(s),
           Len(q) % s.kv_heads = 0, NEW j \in DOMAIN q,
           NEW u, HeadOf(u, s, ks, vs, ids, q, j), NEW d \in 1..s.head_dim, NEW p,
           p = ValueTerms(u, s, ks, vs, ids, q, j, d)
    PROVE  Total(p) = u.x[u.c[u.n]][d]
<1>1. PICK f : f = [t \in 1..Len(ks) |->
                      Weight(Dot(q[j], ks[t], u.h)) * Cell(vs[t], u.h, d, s.head_dim)]
  OBVIOUS
<1>2. /\ HeadSums(u) /\ u.n = Len(ids) /\ u.h = KVHead(j - 1, Len(q), s.kv_heads) /\ u.s = s
      /\ u.h \in 0..(s.kv_heads - 1)
  BY DEF HeadOf, HeadSums
<1>3. /\ s \in Specs /\ CreateAccepts(s) /\ ks \in Seq(Rows(s)) /\ ks \in UnitKeys(s)
      /\ vs \in Seq(Rows(s)) /\ Len(vs) = Len(ks)
  BY DataAssumption DEF Chosen
<1>4. \A t \in 1..Len(ks) : f[t] \in Int
  <2> TAKE t \in 1..Len(ks)
  <2>1. t \in DOMAIN ks /\ vs[t] \in Rows(s)
    BY <1>3
  <2>2. Dot(q[j], ks[t], KVHead(j - 1, Len(q), s.kv_heads)) \in Scores
    BY <1>3, <2>1, ScoreIn
  <2>3. PICK z \in Scores : z = Dot(q[j], ks[t], u.h)
    BY <1>2, <2>2
  <2>4. Weight(z) \in Nat \ {0}
    BY WeightIs
  <2>5. Cell(vs[t], u.h, d, s.head_dim) \in Int
    BY <1>2, <1>3, <2>1, CellIn
  <2>6. Weight(z) * Cell(vs[t], u.h, d, s.head_dim) \in Int
    BY <2>4, <2>5, Regroup
  <2>7. QED
    BY <1>1, <2>3, <2>6
<1>5. Sums(u.w, u.x, u.S, u.V, u.c[u.n], u.s.head_dim)
  BY <1>2 DEF HeadSums
<1>6. PICK N, c : N \in Nat /\ c = u.c /\ N = c[Len(ids)]
  <2>1. Counts(u.c, [m \in 1..Len(ids) |-> ValidTokens(Len(ks), ids[m], s)], Len(ids))
    BY HeadCounts
  <2>2. Len(ids) \in 0..Len(ids)
    BY DEF Chosen
  <2>3. QED
    BY <2>1, <2>2 DEF Counts
<1>7. PICK W : W = [i \in 0..N |-> u.x[i][d]]
  OBVIOUS
<1>8. \A m \in 1..Len(ids) : \A t \in 1..ValidTokens(Len(ks), ids[m], s) :
          W[c[m - 1] + t] = W[c[m - 1] + (t - 1)] + f[ids[m] * s.block_tokens + t]
  <2> TAKE m \in 1..Len(ids)
  <2> TAKE t \in 1..ValidTokens(Len(ks), ids[m], s)
  <2>1. PICK i, r : /\ i = c[m - 1] + t /\ r = ids[m] * s.block_tokens + t
    OBVIOUS
  <2>9. TokenOf(u, ks, vs, q, j, i, r) /\ i - 1 = c[m - 1] + (t - 1)
    <3>1. /\ TokenOf(u, ks, vs, q, j, u.c[m - 1] + t, ids[m] * s.block_tokens + t)
          /\ (u.c[m - 1] + t) - 1 = u.c[m - 1] + (t - 1)
      BY HeadTokens
    <3>2. QED
      BY <1>6, <2>1, <3>1, Zenon
  <2>2. i \in 1..N
    BY <1>2, <1>6, <2>9 DEF TokenOf
  <2>3. W[i] = u.x[i][d] /\ W[i - 1] = u.x[i - 1][d]
    BY <1>6, <1>7, <2>2
  <2>4. u.x[i][d] = u.x[i - 1][d] + Weight(u.S[i]) * u.V[i][d]
    BY <1>2, <1>5, <2>9 DEF Sums, TokenOf
  <2>5. f[r] = Weight(u.S[i]) * u.V[i][d]
    <3>1. u.V[i][d] = Cell(vs[r], u.h, d, s.head_dim) /\ u.S[i] = Dot(q[j], ks[r], u.h)
          /\ r \in 1..Len(ks)
      BY <1>2, <2>9 DEF TokenOf
    <3>2. QED
      BY <1>1, <3>1
  <2>6. QED
    BY <2>1, <2>3, <2>4, <2>5, <2>9
<1>9. SelectedSums(W, f, s, ks, ids, c)
  <2>1. \A i \in 0..N : u.x[i] \in [1..s.head_dim -> Int]
    BY <1>2, <1>5, <1>6 DEF Sums
  <2>2. W \in [0..c[Len(ids)] -> Int]
    BY <1>6, <1>7, <2>1
  <2>3. W[0] = 0
    BY <1>2, <1>5, <1>6, <1>7 DEF Sums
  <2>4. DOMAIN f = 1..Len(ks)
    BY <1>1
  <2>5. Counts(c, [m \in 1..Len(ids) |-> ValidTokens(Len(ks), ids[m], s)], Len(ids))
    BY <1>6, HeadCounts
  <2>6. QED
    BY <1>4, <1>8, <2>2, <2>3, <2>4, <2>5 DEF SelectedSums
<1>10. p = [t \in 1..Len(ks) |->
              IF \E b \in DOMAIN ids : (t - 1) \div s.block_tokens = ids[b] THEN f[t] ELSE 0]
  BY <1>1 DEF ValueTerms
<1>11. Total(p) = W[c[Len(ids)]]
  BY ONLY <1>9, <1>10, Chosen(s, ks, vs, ids), SelectedTotal
<1>12. W[N] = u.x[N][d]
  BY <1>6, <1>7
<1>13. QED
  BY <1>2, <1>6, <1>11, <1>12

(* The sums of a head are what the definition asks for.                    *)
LEMMA WantedIs ==
    ASSUME Chosen(spec, InUnits(keys, spec), InUnits(values, spec), selected), query \in Queries(spec),
           Len(query) % spec.kv_heads = 0, NEW h \in DOMAIN query,
           NEW u, HeadOf(u, spec, InUnits(keys, spec), InUnits(values, spec), selected, query, h)
    PROVE  /\ Wanted(h).den = u.w[u.c[u.n]]
           /\ \A d \in 1..spec.head_dim : Wanted(h).num[d] = u.x[u.c[u.n]][d]
<1>0. PICK ks, vs : ks = InUnits(keys, spec) /\ vs = InUnits(values, spec)
  OBVIOUS
<1>1. /\ spec \in Specs /\ CreateAccepts(spec) /\ DOMAIN ks = 1..Len(ks) /\ DOMAIN keys = DOMAIN ks
      /\ \A t \in DOMAIN ks : vs[t] \in Rows(spec)
  <2>1. Chosen(spec, ks, vs, selected)
    BY <1>0
  <2>2. PICK R : R = Rows(spec)
    OBVIOUS
  <2>3. /\ spec \in Specs /\ CreateAccepts(spec)
        /\ ks \in Seq(R) /\ vs \in Seq(R) /\ Len(vs) = Len(ks)
    BY <2>1, <2>2 DEF Chosen
  <2>4. DOMAIN ks = DOMAIN keys
    BY <1>0 DEF InUnits
  <2>5. DOMAIN ks = 1..Len(ks) /\ \A t \in DOMAIN ks : vs[t] \in R
    BY ONLY <2>3
  <2>6. QED
    BY <2>2, <2>3, <2>4, <2>5
<1>2. u.h = ((h - 1) * spec.kv_heads) \div Len(query)
  BY <1>1, QueryHead DEF HeadOf
<1>3. PICK dim : dim = spec.head_dim
  OBVIOUS
<1>4. PICK weight : weight = [t \in 1..Len(ks) |->
             IF \E b \in DOMAIN selected : (t - 1) \div spec.block_tokens = selected[b]
             THEN Weight(Dot(query[h], ks[t], u.h)) ELSE 0]
  OBVIOUS
<1>5. weight = [t \in DOMAIN ks |->
             IF t \in {y \in DOMAIN ks :
                         \E b \in DOMAIN selected :
                                (y - 1) \div spec.block_tokens = selected[b]}
             THEN Weight(Dot(query[h], ks[t], u.h)) ELSE 0]
  BY <1>1, <1>4
<1>6. Wanted(h) = [num |-> [d \in 1..dim |->
                      Total([t \in DOMAIN ks |-> weight[t] * vs[t][u.h * dim + d]])],
                   den |-> Total(weight)]
  <2>1. Wanted(h) = [num |-> [d \in 1..dim |->
              Total([t \in DOMAIN keys |-> weight[t] * InUnits(values, spec)[t][u.h * dim + d]])],
                     den |-> Total(weight)]
    BY <1>0, <1>1, <1>2, <1>3, <1>5, Zenon DEF Wanted
  <2>2. QED
    BY <1>0, <1>1, <2>1
<1>7. Total(weight) = u.w[u.c[u.n]]
  BY <1>0, <1>4, WeightTotal
<1>8. ASSUME NEW d \in 1..dim
      PROVE  Total([t \in DOMAIN ks |-> weight[t] * vs[t][u.h * dim + d]])
                = u.x[u.c[u.n]][d]
  <2>1. PICK p : p = [t \in 1..Len(ks) |->
             IF \E b \in DOMAIN selected : (t - 1) \div spec.block_tokens = selected[b]
             THEN Weight(Dot(query[h], ks[t], u.h)) * Cell(vs[t], u.h, d, spec.head_dim)
             ELSE 0]
    OBVIOUS
  <2>2. Total(p) = u.x[u.c[u.n]][d]
    <3>1. PICK s, k, v, ids, q :
            s = spec /\ k = ks /\ v = vs /\ ids = selected /\ q = query
      OBVIOUS
    <3>2. /\ Chosen(s, k, v, ids) /\ q \in Queries(s) /\ Len(q) % s.kv_heads = 0
          /\ h \in DOMAIN q /\ HeadOf(u, s, k, v, ids, q, h) /\ d \in 1..s.head_dim
      BY <1>0, <1>3, <3>1, Zenon
    <3>3. p = ValueTerms(u, s, k, v, ids, q, h, d)
      BY <2>1, <3>1, Zenon DEF ValueTerms
    <3>4. QED
      BY ONLY <3>2, <3>3, ValueTotal
  <2>3. \A t \in 1..Len(ks) : weight[t] * vs[t][u.h * dim + d] = p[t]
    <3> TAKE t \in 1..Len(ks)
    <3>1. vs[t] \in Rows(spec)
      BY <1>1
    <3>2. u.h \in 0..(spec.kv_heads - 1)
      BY DEF HeadOf, HeadSums
    <3>3. PICK y \in Int : y = vs[t][u.h * dim + d] /\ y = Cell(vs[t], u.h, d, dim)
      BY <1>1, <1>3, <3>1, <3>2, CellIn DEF Cell
    <3>4. 0 * y = 0
      OBVIOUS
    <3>5. CASE \E b \in DOMAIN selected : (t - 1) \div spec.block_tokens = selected[b]
      <4>1. weight[t] = Weight(Dot(query[h], ks[t], u.h))
        BY <1>4, <3>5
      <4>2. p[t] = Weight(Dot(query[h], ks[t], u.h)) * Cell(vs[t], u.h, d, spec.head_dim)
        BY <2>1, <3>5
      <4>3. QED
        BY <1>3, <3>3, <4>1, <4>2
    <3>6. CASE ~\E b \in DOMAIN selected : (t - 1) \div spec.block_tokens = selected[b]
      <4>1. weight[t] = 0 /\ p[t] = 0
        BY <1>4, <2>1, <3>6
      <4>2. QED
        BY <3>3, <3>4, <4>1
    <3>7. QED
      BY <3>5, <3>6
  <2>4. [t \in DOMAIN ks |-> weight[t] * vs[t][u.h * dim + d]] = p
    <3>1. p = [t \in 1..Len(ks) |-> p[t]]
      BY <2>1
    <3>2. QED
      BY <1>1, <2>3, <3>1
  <2>5. QED
    BY <2>2, <2>4
<1>9. PICK G : G = [d \in 1..dim |->
                      Total([t \in DOMAIN ks |-> weight[t] * vs[t][u.h * dim + d]])]
  OBVIOUS
<1>10. \A d \in 1..dim : G[d] = u.x[u.c[u.n]][d]
  BY <1>8, <1>9
<1>11. Wanted(h) = [num |-> G, den |-> Total(weight)]
  BY <1>6, <1>9
<1>12. QED
  BY ONLY <1>3, <1>7, <1>10, <1>11

(***************************************************************************)
(* The chunks of the pipeline.                                             *)
(***************************************************************************)
(* bl are the blocks of ids.                                               *)
GivenBlocks(bl, s, x, z, ids) ==
    \A i \in 1..Len(ids) : Gives(bl[i], CreateBlock(x, z, 0, ids[i], s), "none")

(* ks and vs are the exact keys x and values z in units.                   *)
Units(s, x, z, ks, vs) ==
    /\ x \in Keys(s) \cap Exact(s) /\ z \in Values(s) \cap Exact(s)
    /\ ks = InUnits(x, s) /\ vs = InUnits(z, s)

(* A batch of the n of them behind the first a.                            *)
BatchIs(batch, s, ks, vs, ids, a, n) ==
    Chunk(batch, s, ks, vs, ids, a, n) /\ Len(batch.valid) = n /\ Len(batch.key) = n

(* The batch of a part of the blocks read.                                 *)
LEMMA BatchOf ==
    ASSUME NEW s, NEW ks, NEW vs, NEW ids, Chosen(s, ks, vs, ids), NEW R, NEW bl \in Seq(R),
           Len(bl) = Len(ids), NEW x, NEW z, Units(s, x, z, ks, vs), GivenBlocks(bl, s, x, z, ids),
           NEW a \in Nat, NEW n \in Nat \ {0}, a + n <= Len(ids)
    PROVE  BatchIs(StackBlocks(SubSeq(bl, a + 1, a + n), s), s, ks, vs, ids, a, n)
<1> DEFINE batch == StackBlocks(SubSeq(bl, a + 1, a + n), s)
<1>1. PICK part : part = SubSeq(bl, a + 1, a + n)
  OBVIOUS
<1>2. /\ Len(part) = n /\ DOMAIN part = 1..n /\ \A j \in 1..n : part[j] = bl[a + j]
  <2>1. PICK p \in Nat, o \in Nat : p = a + 1 /\ o = a + n
    OBVIOUS
  <2>2. p \in 1..(Len(bl) + 1) /\ o \in (p - 1)..Len(bl) /\ o - p + 1 = n
    <3>1. PICK L \in Nat : L = Len(bl) /\ a + n <= L
      OBVIOUS
    <3>2. QED
      BY ONLY <2>1, <3>1, a \in Nat, n \in Nat \ {0}
  <2>3. /\ SubSeq(bl, p, o) \in Seq(R) /\ Len(SubSeq(bl, p, o)) = n
        /\ \A j \in 1..n : SubSeq(bl, p, o)[j] = bl[p + j - 1]
    <3>1. p <= o
      BY <2>1
    <3>2. /\ SubSeq(bl, p, o) \in Seq(R)
          /\ Len(SubSeq(bl, p, o)) = IF p <= o THEN o - p + 1 ELSE 0
          /\ \A j \in 1..(o - p + 1) : SubSeq(bl, p, o)[j] = bl[p + j - 1]
      BY ONLY <2>2, bl \in Seq(R), SubSeqProperties, SMTT(60)
    <3>3. QED
      BY ONLY <2>2, <3>1, <3>2
  <2>4. part = SubSeq(bl, p, o)
    BY <1>1, <2>1
  <2>5. part \in Seq(R) /\ Len(part) = n /\ \A j \in 1..n : part[j] = bl[p + j - 1]
    BY <2>3, <2>4
  <2>6. \A j \in 1..n : p + j - 1 = a + j
    BY ONLY <2>1, a \in Nat, n \in Nat
  <2>7. DOMAIN part = 1..n
    BY <2>5
  <2>8. \A j \in 1..n : part[j] = bl[a + j]
    <3> TAKE j \in 1..n
    <3>1. part[j] = bl[p + j - 1] /\ p + j - 1 = a + j
      BY ONLY <2>5, <2>6, j \in 1..n
    <3>2. QED
      BY ONLY <3>1
  <2>9. QED
    BY ONLY <2>5, <2>7, <2>8
<1>3. /\ batch.key = [j \in 1..n |-> part[j].key]
           /\ batch.value = [j \in 1..n |-> part[j].value]
      /\ batch.valid = [j \in 1..n |-> part[j].valid]
      /\ batch.tokens = s.block_tokens /\ batch.kv_heads = s.kv_heads
      /\ batch.packed_dim = PackedDim(s) /\ batch.groups = s.head_dim \div s.group_size
      /\ batch.bits = s.bits /\ batch.group_size = s.group_size
  BY <1>1, <1>2 DEF StackBlocks
<1> HIDE DEF batch
<1>4. s \in Specs /\ CreateAccepts(s)
  BY DEF Chosen
<1>5. Shape(batch, s.bits, s.group_size, s.kv_heads, s.head_dim)
  <2>1. Sized(s)
    BY <1>4, AcceptedSized
  <2>2. s.kv_heads \in Nat \ {0} /\ s.head_dim \in Nat \ {0}
    BY <1>4, SizesAre
  <2>3. QED
    BY <1>3, <2>1, <2>2 DEF Shape, Sized, PackedDim
<1>6. ASSUME NEW j \in 1..n
      PROVE  /\ ids[a + j] \in Nat
             /\ Coded(part[j].key, ks, ids[a + j], s) /\ Coded(part[j].value, vs, ids[a + j], s)
             /\ part[j].valid = ValidTokens(Len(ks), ids[a + j], s)
             /\ part[j].valid \in 1..s.block_tokens
  <2>1. PICK m \in 1..Len(ids) : m = a + j
    <3>1. Len(ids) \in Nat
      BY DEF Chosen
    <3>2. a + j \in 1..Len(ids)
      BY <3>1
    <3>3. QED
      BY <3>2
  <2>2. Gives(bl[m], CreateBlock(x, z, 0, ids[m], s), "none")
    BY DEF GivenBlocks
  <2>5. Len(x) = Len(ks)
    BY <1>4, UnitsAre DEF Units
  <2>6. /\ part[j].key = Quantize(Padded(x, ids[m], s), s.bits, s.group_size)
        /\ part[j].value = Quantize(Padded(z, ids[m], s), s.bits, s.group_size)
        /\ part[j].valid = ValidTokens(Len(ks), ids[m], s)
    BY <1>2, <2>1, <2>2, <2>5 DEF Gives, CreateBlock
  <2>7. Coded(part[j].key, ks, ids[m], s) /\ Coded(part[j].value, vs, ids[m], s)
    BY <2>6 DEF Coded, Units
  <2>3. BlockAt(s, ks, vs, ids[m], ids[m] * s.block_tokens, ValidTokens(Len(ks), ids[m], s))
    BY ChosenBlock
  <2>4. QED
    BY <2>1, <2>3, <2>6, <2>7 DEF BlockAt
<1>7. Chunk(batch, s, ks, vs, ids, a, n)
  <2>1. /\ DOMAIN batch.key = 1..n /\ batch.valid \in [1..n -> 1..s.block_tokens]
        /\ \A j \in 1..n :
              /\ ids[a + j] \in Nat
              /\ Coded(batch.key[j], ks, ids[a + j], s) /\ Coded(batch.value[j], vs, ids[a + j], s)
              /\ batch.valid[j] = ValidTokens(Len(ks), ids[a + j], s)
    BY <1>3, <1>6
  <2>2. ks \in UnitKeys(s) /\ ks \in Seq(Rows(s)) /\ vs \in Seq(Rows(s))
    BY DEF Chosen
  <2>3. QED
    BY <1>3, <1>4, <1>5, <2>1, <2>2 DEF Chunk
<1>8. Len(batch.valid) = n /\ Len(batch.key) = n
  BY <1>3
<1>9. QED
  BY <1>7, <1>8 DEF batch, BatchIs

(* No backend refuses a batch of a store but for heads that cannot be      *)
(* grouped, the kernels for heads that are too long.                       *)
LEMMA AcceptsAre ==
    ASSUME NEW s, NEW ks, NEW vs, NEW ids, NEW a, NEW n \in Nat \ {0},
           NEW batch, Chunk(batch, s, ks, vs, ids, a, n),
           Len(batch.valid) = n, Len(batch.key) = n, NEW q \in Queries(s)
    PROVE  /\ q \in Seq([1..s.head_dim -> Int]) /\ Len(q) \in Nat \ {0}
                /\ Len(q[1]) = s.head_dim
           /\ batch.kv_heads = s.kv_heads
           /\ BatchAccepts(q, batch) <=> Len(q) % s.kv_heads = 0
           /\ TritonAccepts(q, batch) <=> Len(q) % s.kv_heads = 0 /\ s.head_dim <= 256
           /\ CudaAccepts(q, batch) <=> Len(q) % s.kv_heads = 0 /\ s.head_dim <= 256
<1>1. s \in {r \in Specs : CreateAccepts(r)}
  BY DEF Chunk
<1>2. \A r \in Queries(s) : r \in Seq([1..s.head_dim -> Int]) \ {<<>>}
  BY <1>1, ExactAssumption, Zenon
<1>3. PICK dim \in Nat \ {0} : dim = s.head_dim
  BY <1>1, SizesAre
<1>4. q \in Seq([1..dim -> Int]) \ {<<>>}
  BY <1>2, <1>3
<1>5. Len(q) \in Nat \ {0} /\ q[1] \in [1..dim -> Int]
  BY <1>4
<1>6. Len(q[1]) = dim
  BY <1>5
<1>7. Shape(batch, s.bits, s.group_size, s.kv_heads, s.head_dim)
  BY DEF Chunk
<1>8. BatchAccepts(q, batch) <=> Len(q) % s.kv_heads = 0
  BY <1>3, <1>6, <1>7 DEF BatchAccepts, Shape
<1>9. \A b \in DOMAIN batch.valid : batch.valid[b] > 0
  <2>1. batch.valid \in [1..n -> 1..s.block_tokens] /\ s.block_tokens \in Nat
    BY <1>1, SizesAre DEF Chunk
  <2>2. QED
    BY <2>1
<1>10. batch.groups = Len(q[1]) \div batch.group_size /\ batch.kv_heads = s.kv_heads
  BY <1>3, <1>6, <1>7 DEF Shape
<1>11. QED
  BY <1>3, <1>4, <1>5, <1>6, <1>8, <1>9, <1>10 DEF TritonAccepts, CudaAccepts

(* Every part of the selection has weight.                                 *)
LEMMA PartWeighs ==
    ASSUME NEW s, NEW ks, NEW vs, NEW ids, Chosen(s, ks, vs, ids), NEW q, NEW j,
           NEW u, HeadOf(u, s, ks, vs, ids, q, j),
           NEW a \in Nat, NEW n \in Nat \ {0}, a + n <= Len(ids)
    PROVE  WeightOf(u, a, n) \in Nat \ {0}
<1>1. PICK N \in Nat : N = Len(ids)
  BY DEF Chosen
<1>2. /\ HeadSums(u) /\ u.n = N /\ u.s = s
      /\ Counts(u.c, [m \in 1..N |-> ValidTokens(Len(ks), ids[m], s)], N)
  BY <1>1, HeadCounts DEF HeadOf
<1>3. PICK c : c = u.c
  OBVIOUS
<1>4. c \in [0..N -> Nat]
  BY <1>2, <1>3 DEF Counts
<1>5. ASSUME NEW m \in 1..N
      PROVE  c[m] >= c[m - 1] + 1
  <2>1. c[m] = c[m - 1] + ValidTokens(Len(ks), ids[m], s)
    BY <1>2, <1>3 DEF Counts
  <2>2. PICK T \in Nat : T = s.block_tokens
    BY SizesAre DEF Chosen
  <2>3. PICK v \in 1..T : v = ValidTokens(Len(ks), ids[m], s)
    BY <1>1, <2>2, ChosenBlock DEF BlockAt
  <2>4. c[m - 1] \in Nat
    BY <1>4
  <2>5. QED
    BY <2>1, <2>3, <2>4
<1>6. PICK b \in Nat : b = a + n /\ a \in 0..N /\ b \in 0..N /\ a < b
  BY <1>1
<1>7. c[a] < c[b]
  <2>1. \A i \in 0..N : c[i] \in Int
    BY <1>4
  <2>2. QED
    BY ONLY <1>5, <1>6, <2>1, N \in Nat, Rises
<1>8. PICK M \in Nat : M = c[N]
  BY <1>4
<1>9. PICK w, x, S, V : w = u.w /\ x = u.x /\ S = u.S /\ V = u.V
  OBVIOUS
<1>10. Sums(w, x, S, V, M, s.head_dim)
  BY <1>2, <1>3, <1>8, <1>9 DEF HeadSums
<1>11. \A i \in 0..M : w[i] \in Int
  BY <1>10 DEF Sums
<1>12. ASSUME NEW i \in 1..M
       PROVE  w[i] >= w[i - 1] + 1
  <2>1. S[i] \in Scores /\ w[i] = w[i - 1] + Weight(S[i])
    BY <1>10 DEF Sums
  <2>2. Weight(S[i]) \in Nat \ {0}
    BY <2>1, WeightIs
  <2>3. i - 1 \in 0..M
    OBVIOUS
  <2>4. w[i - 1] \in Int
    BY <1>11, <2>3
  <2>5. QED
    BY <2>1, <2>2, <2>4
<1>13. PICK k \in 0..M, l \in 0..M : k = c[a] /\ l = c[b] /\ k < l
  <2>1. c[b] <= c[N]
    BY <1>1, <1>2, <1>3, <1>6, CountsGrow
  <2>2. c[a] \in Nat /\ c[b] \in Nat
    BY <1>4, <1>6
  <2>3. QED
    BY <1>7, <1>8, <2>1, <2>2
<1>14. w[k] < w[l] /\ w[k] \in Int /\ w[l] \in Int
  BY <1>11, <1>12, <1>13, Rises
<1>15. WeightOf(u, a, n) = w[l] - w[k]
  BY <1>3, <1>6, <1>9, <1>13 DEF WeightOf
<1>16. QED
  BY <1>14, <1>15

(* The attention of two parts, one behind the other, merges into that of   *)
(* both.                                                                   *)
LEMMA PartsMerge ==
    ASSUME NEW s, NEW ks, NEW vs, NEW ids, Chosen(s, ks, vs, ids), NEW q, NEW j,
           NEW a \in Nat \ {0}, NEW n \in Nat \ {0}, a + n <= Len(ids), NEW left, NEW right,
           PartAttends(left, s, ks, vs, ids, q, j, 0, a),
           PartAttends(right, s, ks, vs, ids, q, j, a, n)
    PROVE  PartAttends(Merge(left, right), s, ks, vs, ids, q, j, 0, a + n)
<1>1. ASSUME NEW u, HeadOf(u, s, ks, vs, ids, q, j)
      PROVE  Attends(Merge(left, right), WeightOf(u, 0, a + n), NumeratorOf(u, 0, a + n),
             s.head_dim)
  <2>1. /\ Attends(left, WeightOf(u, 0, a), NumeratorOf(u, 0, a), s.head_dim)
        /\ Attends(right, WeightOf(u, a, n), NumeratorOf(u, a, n), s.head_dim)
    BY <1>1 DEF PartAttends
  <2>2. /\ HeadSums(u) /\ u.s = s /\ u.n = Len(ids) /\ u.n \in Nat
    BY <1>1 DEF HeadOf, HeadSums
  <2>3. PICK dim \in Nat : dim = s.head_dim
    BY <2>2, SizesAre DEF HeadSums
  <2>4. PICK b \in Nat : b = a + n
    OBVIOUS
  <2>5. PICK i, k, l, N : /\ i = u.c[0] /\ k = u.c[a] /\ l = u.c[b] /\ N = u.c[u.n]
                          /\ N \in Nat /\ i \in 0..N /\ k \in 0..N /\ l \in 0..N
    <3>1. PICK v : Counts(u.c, v, u.n)
      BY <2>2 DEF HeadSums
    <3>2. 0 \in 0..u.n /\ a \in 0..u.n /\ b \in 0..u.n /\ u.n \in 0..u.n
      BY <2>2, <2>4
    <3>3. \A m \in 0..u.n : u.c[m] \in Nat /\ u.c[m] <= u.c[u.n]
      <4> TAKE m \in 0..u.n
      <4>1. u.c[m] \in Nat /\ m <= u.n
        <5>1. u.c \in [0..u.n -> Nat]
          BY <3>1 DEF Counts
        <5>2. QED
          BY <2>2, <5>1
      <4>2. u.c[m] <= u.c[u.n]
        BY <2>2, <3>1, <3>2, <4>1, CountsGrow
      <4>3. QED
        BY <4>1, <4>2
    <3>4. u.c[u.n] \in Nat /\ u.c[0] \in 0..u.c[u.n] /\ u.c[a] \in 0..u.c[u.n]
          /\ u.c[b] \in 0..u.c[u.n]
      BY <3>2, <3>3
    <3>5. QED
      BY <3>4
  <2>6. u.w \in [0..N -> Int] /\ u.x \in [0..N -> [1..dim -> Int]]
    BY <2>2, <2>3, <2>5 DEF HeadSums, Sums
  <2>7. PICK w, x : w = u.w /\ x = u.x
    OBVIOUS
  <2>8. w[i] \in Int /\ w[k] \in Int /\ w[l] \in Int
        /\ x[i] \in [1..dim -> Int] /\ x[k] \in [1..dim -> Int] /\ x[l] \in [1..dim -> Int]
    BY <2>5, <2>6, <2>7
  <2>9. PICK y, z, p, r, g, f :
           /\ y = WeightOf(u, 0, a) /\ z = WeightOf(u, a, n) /\ p = WeightOf(u, 0, b)
           /\ r = NumeratorOf(u, 0, a) /\ g = NumeratorOf(u, a, n) /\ f = NumeratorOf(u, 0, b)
    OBVIOUS
  <2>10. 0 + a = a /\ 0 + b = b /\ a + n = b
    BY <2>4
  <2>11. y = w[k] - w[i] /\ z = w[l] - w[k] /\ p = w[l] - w[i]
    BY <2>5, <2>7, <2>9, <2>10 DEF WeightOf
  <2>12. /\ r = [d \in 1..dim |-> x[k][d] - x[i][d]]
              /\ g = [d \in 1..dim |-> x[l][d] - x[k][d]]
         /\ f = [d \in 1..dim |-> x[l][d] - x[i][d]]
    BY <2>2, <2>3, <2>5, <2>7, <2>9, <2>10 DEF NumeratorOf
  <2>13. y \in Nat \ {0} /\ z \in Nat \ {0} /\ p = y + z
    <3>1. WeightOf(u, 0, a) \in Nat \ {0}
      <4>1. 0 \in Nat /\ a \in Nat \ {0} /\ 0 + a <= Len(ids)
        BY <2>2
      <4>2. QED
        BY ONLY <1>1, <4>1, Chosen(s, ks, vs, ids), PartWeighs
    <3>2. WeightOf(u, a, n) \in Nat \ {0}
      BY <1>1, PartWeighs
    <3>3. y \in Nat \ {0} /\ z \in Nat \ {0}
      BY <2>9, <3>1, <3>2
    <3>4. p = y + z
      <4>1. PICK e \in Int, o \in Int, v \in Int : e = w[i] /\ o = w[k] /\ v = w[l]
        BY <2>8
      <4>2. y = o - e /\ z = v - o /\ p = v - e
        BY <2>11, <4>1
      <4>3. QED
        BY ONLY <4>1, <4>2, e \in Int, o \in Int, v \in Int
    <3>5. QED
      BY <3>3, <3>4
  <2>14. r \in [1..dim -> Int] /\ g \in [1..dim -> Int] /\ \A d \in 1..dim : f[d] = r[d] + g[d]
    <3>1. ASSUME NEW d \in 1..dim
          PROVE  r[d] \in Int /\ g[d] \in Int /\ f[d] = r[d] + g[d]
      <4>1. PICK t \in Int, m \in Int, o \in Int : t = x[i][d] /\ m = x[k][d] /\ o = x[l][d]
        BY <2>8
      <4>2. r[d] = m - t /\ g[d] = o - m /\ f[d] = o - t
        BY <2>12, <4>1
      <4>3. QED
        BY <4>2
    <3>2. r = [d \in 1..dim |-> r[d]] /\ g = [d \in 1..dim |-> g[d]]
      BY <2>12
    <3>3. QED
      BY <3>1, <3>2
  <2>15. Attends(left, y, r, dim) /\ Attends(right, z, g, dim)
    BY <2>1, <2>3, <2>9
  <2>16. Attends(Merge(left, right), y + z, f, dim)
    BY ONLY <2>13, <2>14, <2>15, dim \in Nat, MergeAttends
  <2>17. QED
    BY <2>3, <2>4, <2>9, <2>13, <2>16
<1>2. QED
  BY <1>1 DEF PartAttends

(* The chunks cs are what follows the first e[0] blocks.                   *)
Offsets(e, cs, bl) ==
    /\ (\E R : cs \in Seq(R)) /\ Len(cs) \in Nat \ {0}
    /\ e \in [0..Len(cs) -> 0..Len(bl)] /\ e[Len(cs)] = Len(bl)
    /\ \A i \in 1..Len(cs) : e[i - 1] < e[i] /\ cs[i] = SubSeq(bl, e[i - 1] + 1, e[i])

(* The blocks in one piece are a chunk.                                    *)
LEMMA OneChunk ==
    ASSUME NEW R, NEW bl \in Seq(R), bl # <<>>
    PROVE  \E e : Offsets(e, <<bl>>, bl) /\ e[0] = 0
<1>1. PICK n \in Nat \ {0} : n = Len(bl)
  <2>1. Len(bl) \in Nat \ {0}
    OBVIOUS
  <2>2. QED
    BY <2>1
<1>2. PICK e : e = [i \in 0..1 |-> IF i = 0 THEN 0 ELSE n]
  OBVIOUS
<1>3. Len(<<bl>>) = 1 /\ <<bl>> \in Seq({bl}) /\ <<bl>>[1] = bl
  OBVIOUS
<1>4. e \in [0..1 -> 0..n] /\ e[0] = 0 /\ e[1] = n
  BY <1>2
<1>5. SubSeq(bl, 1, n) = bl
  BY <1>1, SMTT(30)
<1>6. \A i \in 1..1 : e[i - 1] < e[i] /\ <<bl>>[i] = SubSeq(bl, e[i - 1] + 1, e[i])
  <2> TAKE i \in 1..1
  <2>1. i = 1 /\ i - 1 = 0 /\ e[i - 1] + 1 = 1
    BY <1>4
  <2>2. QED
    BY <1>3, <1>4, <1>5, <2>1
<1>7. Offsets(e, <<bl>>, bl)
  BY <1>1, <1>3, <1>4, <1>6 DEF Offsets
<1>8. QED
  BY <1>4, <1>7

(* Chunks of stage_blocks: the last may be shorter.                        *)
LEMMA ChunksCover ==
    ASSUME NEW R, NEW bl \in Seq(R), bl # <<>>, NEW size \in Nat \ {0}
    PROVE  \E e : Offsets(e, ChunksOf(bl, size), bl) /\ e[0] = 0
<1>1. PICK L \in Nat \ {0} : L = Len(bl)
  <2>1. Len(bl) \in Nat \ {0}
    OBVIOUS
  <2>2. QED
    BY <2>1
<1>2. PICK b \in Nat : b = L + size - 1
  <2>1. L + size - 1 \in Nat
    OBVIOUS
  <2>2. QED
    BY <2>1
<1>3. PICK C \in Nat, r \in 0..(size - 1) : C = b \div size /\ b = size * C + r
  BY ONLY b \in Nat, size \in Nat \ {0}
<1>4. PICK y \in Nat : y = size * C
  OBVIOUS
<1>5. L <= y /\ y - size < L
  BY <1>2, <1>3, <1>4
<1>6. C # 0
  <2>1. size * 0 = 0
    OBVIOUS
  <2>2. QED
    BY <1>4, <1>5, <2>1
<1>7. ASSUME NEW i \in 0..C
      PROVE  i * size \in Nat /\ (i < C => i * size < L) /\ (i = C => i * size >= L)
  <2>1. PICK m \in Nat : C = i + m
    <3>1. C - i \in Nat /\ C = i + (C - i)
      OBVIOUS
    <3>2. QED
      BY <3>1
  <2>2. size * (i + m) = size * i + size * m /\ size * i = i * size /\ i * size \in Nat
    BY Regroup
  <2>3. PICK z \in Nat, x \in Nat : z = i * size /\ x = size * m
    BY <2>2
  <2>4. y = z + x
    BY <1>4, <2>1, <2>2, <2>3
  <2>5. m # 0 => x >= size
    <3>1. ASSUME m # 0
          PROVE  x >= size
      <4>1. PICK k \in Nat : m = k + 1
        <5>1. m - 1 \in Nat /\ m = (m - 1) + 1
          BY <3>1
        <5>2. QED
          BY <5>1
      <4>2. size * (k + 1) = size * k + size /\ size * k \in Nat
        BY Regroup
      <4>3. QED
        BY <2>3, <4>1, <4>2
    <3>2. QED
      BY <3>1
  <2>6. m = 0 => x = 0
    BY <2>3
  <2>7. QED
    BY <1>5, <2>1, <2>3, <2>4, <2>5, <2>6
<1>8. PICK e : e = [i \in 0..C |-> IF i * size < L THEN i * size ELSE L]
  OBVIOUS
<1>9. e \in [0..C -> 0..L] /\ e[0] = 0 /\ e[C] = L
  <2>1. \A i \in 0..C : (IF i * size < L THEN i * size ELSE L) \in 0..L
    BY <1>7
  <2>2. e \in [0..C -> 0..L]
    BY <1>8, <2>1
  <2>3. 0 \in 0..C /\ C \in 0..C /\ 0 * size = 0
    OBVIOUS
  <2>4. e[0] = 0
    BY <1>8, <2>3
  <2>5. C * size >= L /\ C * size \in Nat
    BY <1>7, <2>3
  <2>6. e[C] = L
    <3>1. PICK z \in Nat : z = C * size
      BY <2>5
    <3>2. QED
      BY <1>8, <2>3, <2>5, <3>1
  <2>7. QED
    BY <2>2, <2>4, <2>6
<1>10. PICK cs : cs = ChunksOf(bl, size)
  OBVIOUS
<1>11. cs = [i \in 1..C |-> SubSeq(bl, (i - 1) * size + 1,
                                   IF i * size < L THEN i * size ELSE L)]
  BY <1>1, <1>2, <1>3, <1>10 DEF ChunksOf
<1>12. Len(cs) = C /\ \E S : cs \in Seq(S)
  <2>1. cs \in [1..C -> {cs[i] : i \in 1..C}]
    BY <1>11
  <2>2. cs \in Seq({cs[i] : i \in 1..C}) /\ Len(cs) = C
    BY <2>1
  <2>3. QED
    BY <2>2
<1>13. ASSUME NEW i \in 1..C
       PROVE  e[i - 1] < e[i] /\ cs[i] = SubSeq(bl, e[i - 1] + 1, e[i])
  <2>1. i - 1 \in 0..C /\ i \in 0..C /\ i - 1 < C
    OBVIOUS
  <2>2. PICK z \in Nat : z = (i - 1) * size /\ z < L
    BY <1>7, <2>1
  <2>3. PICK x \in Nat : x = i * size
    BY <1>7, <2>1
  <2>4. x = z + size
    <3>1. PICK j \in Nat : j = i - 1 /\ i = j + 1
      BY <2>1
    <3>2. (j + 1) * size = j * size + size
      BY Regroup
    <3>3. QED
      BY <2>2, <2>3, <3>1, <3>2
  <2>5. e[i - 1] = z
    BY <1>8, <2>1, <2>2
  <2>6. e[i] = IF x < L THEN x ELSE L
    BY <1>8, <2>1, <2>3
  <2>7. cs[i] = SubSeq(bl, z + 1, IF x < L THEN x ELSE L)
    BY <1>11, <2>2, <2>3
  <2>8. QED
    BY <2>2, <2>4, <2>5, <2>6, <2>7
<1>14. Offsets(e, cs, bl)
  BY <1>1, <1>6, <1>9, <1>12, <1>13 DEF Offsets
<1>15. QED
  BY <1>9, <1>10, <1>14

(* The first chunk, and what is left behind it.                            *)
LEMMA ChunkFirst ==
    ASSUME NEW e, NEW cs, NEW bl, Len(bl) \in Nat, Offsets(e, cs, bl)
    PROVE  /\ e[0] \in Nat /\ e[1] - e[0] \in Nat \ {0} /\ e[0] + (e[1] - e[0]) = e[1]
           /\ e[1] <= Len(bl)
           /\ Head(cs) = SubSeq(bl, e[0] + 1, e[0] + (e[1] - e[0]))
           /\ Len(cs) = 1 => e[1] = Len(bl)
           /\ Len(cs) # 1 => Offsets([i \in 0..(Len(cs) - 1) |-> e[i + 1]], Tail(cs), bl)
<1>1. PICK n \in Nat \ {0}, L \in Nat : n = Len(cs) /\ L = Len(bl)
  BY DEF Offsets
<1>8. PICK R : cs \in Seq(R)
  BY DEF Offsets
<1>2. /\ e \in [0..n -> 0..L] /\ e[n] = L
      /\ \A i \in 1..n : e[i - 1] < e[i] /\ cs[i] = SubSeq(bl, e[i - 1] + 1, e[i])
  BY <1>1 DEF Offsets
<1>3. e[0] \in 0..L /\ e[1] \in 0..L /\ e[0] < e[1] /\ cs[1] = SubSeq(bl, e[0] + 1, e[1])
  <2>1. 0 \in 0..n /\ 1 \in 0..n /\ 1 \in 1..n /\ 1 - 1 = 0
    OBVIOUS
  <2>2. QED
    BY <1>2, <2>1
<1>4. e[0] \in Nat /\ e[1] - e[0] \in Nat \ {0} /\ e[0] + (e[1] - e[0]) = e[1] /\ e[1] <= L
  BY <1>3
<1>5. Head(cs) = cs[1]
  BY <1>1, <1>8
<1>6. ASSUME n # 1
      PROVE  Offsets([i \in 0..(Len(cs) - 1) |-> e[i + 1]], Tail(cs), bl)
  <2>1. PICK m \in Nat \ {0} : m = n - 1
    <3>1. n - 1 \in Nat \ {0}
      BY <1>6
    <3>2. QED
      BY <3>1
  <2>2. PICK f, t : f = [i \in 0..m |-> e[i + 1]] /\ t = Tail(cs)
    OBVIOUS
  <2>3. t \in Seq(R) /\ Len(t) = m /\ \A i \in 1..m : t[i] = cs[i + 1]
    BY <1>1, <1>8, <2>1, <2>2
  <2>4. f \in [0..m -> 0..L]
    <3>1. \A i \in 0..m : i + 1 \in 0..n
      BY <2>1
    <3>2. QED
      BY <1>2, <2>2, <3>1
  <2>5. f[m] = L
    <3>1. m + 1 = n /\ m \in 0..m
      BY <2>1
    <3>2. QED
      BY <1>2, <2>2, <3>1
  <2>6. ASSUME NEW i \in 1..m
        PROVE  f[i - 1] < f[i] /\ t[i] = SubSeq(bl, f[i - 1] + 1, f[i])
    <3>1. i + 1 \in 1..n /\ (i + 1) - 1 = i /\ i - 1 \in 0..m /\ i \in 0..m /\ (i - 1) + 1 = i
      BY <2>1
    <3>2. f[i - 1] = e[i] /\ f[i] = e[i + 1]
      BY <2>2, <3>1
    <3>3. e[i] < e[i + 1] /\ cs[i + 1] = SubSeq(bl, e[i] + 1, e[i + 1])
      BY <1>2, <3>1
    <3>4. QED
      BY <2>3, <3>2, <3>3
  <2>7. Offsets(f, t, bl)
    BY <1>1, <2>3, <2>4, <2>5, <2>6 DEF Offsets
  <2>8. QED
    BY <1>1, <2>1, <2>2, <2>7
<1>7. QED
  BY <1>1, <1>2, <1>3, <1>4, <1>5, <1>6

(***************************************************************************)
(* The pipeline between the read and the result.                           *)
(***************************************************************************)
(* The store of the lane.                                                  *)
StoreOf ==
    /\ spec \in Specs /\ CreateAccepts(spec)
    /\ keys \in Keys(spec) /\ values \in Values(spec) /\ Len(values) = Len(keys)

(* Its selected blocks, read as they were created.                         *)
BlocksRead ==
    /\ StoreOf
    /\ selected \in Seq(0..(BlockCount(Len(keys), spec) - 1)) /\ Distinct(selected)
    /\ selected # <<>>
    /\ (\E R : blocks \in Seq(R)) /\ Len(blocks) = Len(selected)
    /\ \A i \in 1..Len(selected) :
          Gives(blocks[i], CreateBlock(keys, values, 0, selected[i], spec), "none")

(* What was read comes from tensors that quantize exactly.                 *)
ExactRead == BlocksRead /\ keys \in Exact(spec) /\ values \in Exact(spec)

(* r is the attention of head h over the n selected blocks behind the      *)
(* first a.                                                                *)
Attended(r, h, a, n) == PartAttends(r, spec, InUnits(keys, spec), InUnits(values, spec), selected, query, h, a, n)

(* k is the work of the kernel that runs.                                  *)
KernelOf(k) ==
    /\ Kernel(k, query[head], Batch, ValidRows(Batch),
              KVHead(head - 1, Len(query), spec.kv_heads))
    /\ k.dim = spec.head_dim /\ k.threads = BlockDim(k.dim)

(* The next chunk is of the blocks behind the first e[0]: merged has the   *)
(* attention over those, outputs the first heads of the chunk.             *)
Attending(e) ==
    /\ Offsets(e, chunks, blocks) /\ (merged = <<>> <=> e[0] = 0)
    /\ e[0] # 0 => \A h \in DOMAIN query : Attended(merged[h], h, 0, e[0])
    /\ (\E R : outputs \in Seq(R)) /\ Len(outputs) < Len(query)
    /\ \A h \in 1..Len(outputs) : Attended(outputs[h], h, e[0], e[1] - e[0])
    /\ backend # "cuda" => outputs = <<>> /\ head = 0
    /\ head # 0 => /\ head = Len(outputs) + 1 /\ Len(query) % spec.kv_heads = 0
                   /\ spec.head_dim <= 256
                   /\ \A k : KernelOf(k) => KernelInv(k)

(* The result is the attention over all of the selected blocks.            *)
Complete ==
    /\ Len(query) % spec.kv_heads = 0
    /\ \A h \in DOMAIN query : Attended(merged[h], h, 0, Len(selected))

(* Why decode raises.                                                      *)
Refusal == \/ selected = <<>>
           \/ Len(query) % spec.kv_heads # 0
           \/ (spec.head_dim > 256 /\ backend # "reference")

(* What each stage of the lane knows.                                      *)
DecodeInv ==
    /\ stage = "created" => StoreOf
    /\ stage = "read" /\ damage = "none" => BlocksRead
    /\ stage \in {"constructed", "attending", "done"} => ExactRead
    /\ stage \in {"attending", "done"} => query \in Queries(spec)
    /\ stage = "attending" => \E e : Attending(e)
    /\ stage = "done" => Complete
    /\ stage = "raised" => Refusal

(* No kernel runs but while a pipeline attends, and before it does there   *)
(* is no result.                                                           *)
IdleInv ==
    /\ stage \in {"start", "created", "stored"} => selected = <<>>
    /\ stage \in {"start", "created", "read", "constructed"} => outputs = <<>> /\ merged = <<>>
    /\ head = 0 => at = <<>>
    /\ head # 0 => stage = "attending"

(* The blocks of a pipeline are chosen blocks of an exact store.           *)
LEMMA ReadChosen ==
    ASSUME ExactRead
    PROVE  /\ Chosen(spec, InUnits(keys, spec), InUnits(values, spec), selected) /\ Len(selected) \in Nat \ {0}
           /\ Len(blocks) = Len(selected) /\ \E R : blocks \in Seq(R)
<1>1. selected \in Seq(0..(BlockCount(Len(keys), spec) - 1)) /\ selected # <<>>
  BY DEF ExactRead, BlocksRead
<1>2. Len(selected) \in Nat \ {0}
  BY <1>1
<1>3. /\ spec \in Specs /\ CreateAccepts(spec)
      /\ keys \in Keys(spec) \cap Exact(spec) /\ values \in Values(spec) \cap Exact(spec)
      /\ Len(values) = Len(keys) /\ Distinct(selected)
      /\ Len(blocks) = Len(selected) /\ \E R : blocks \in Seq(R)
  BY DEF ExactRead, BlocksRead, StoreOf
<1>4. PICK ks, vs : ks = InUnits(keys, spec) /\ vs = InUnits(values, spec)
  OBVIOUS
<1>5. /\ ks \in Seq(Rows(spec)) /\ Len(ks) = Len(keys)
      /\ vs \in Seq(Rows(spec)) /\ Len(vs) = Len(values)
  BY <1>3, <1>4, UnitsAre
<1>6. ks \in UnitKeys(spec)
  BY <1>3, <1>4 DEF UnitKeys
<1>7. Chosen(spec, ks, vs, selected)
  BY <1>1, <1>3, <1>5, <1>6 DEF Chosen
<1>8. QED
  BY <1>2, <1>3, <1>4, <1>7

(* The batch of the next chunk.                                            *)
LEMMA BatchChunk ==
    ASSUME ExactRead, NEW e, Offsets(e, chunks, blocks), NEW a, a = e[0], NEW n,
           n = e[1] - e[0]
    PROVE  /\ a \in Nat /\ n \in Nat \ {0} /\ a + n = e[1] /\ a + n <= Len(selected)
           /\ Chunk(Batch, spec, InUnits(keys, spec), InUnits(values, spec), selected, a, n)
           /\ Len(Batch.valid) = n /\ Len(Batch.key) = n
<1>1. /\ Chosen(spec, InUnits(keys, spec), InUnits(values, spec), selected) /\ Len(selected) \in Nat \ {0}
      /\ Len(blocks) = Len(selected) /\ \E R : blocks \in Seq(R)
  BY ReadChosen
<1>2. /\ a \in Nat /\ n \in Nat \ {0} /\ a + n = e[1] /\ e[1] <= Len(blocks)
      /\ Head(chunks) = SubSeq(blocks, a + 1, a + n)
  <2>1. Len(blocks) \in Nat
    BY <1>1
  <2>2. /\ e[0] \in Nat /\ e[1] - e[0] \in Nat \ {0} /\ e[0] + (e[1] - e[0]) = e[1]
        /\ e[1] <= Len(blocks)
        /\ Head(chunks) = SubSeq(blocks, e[0] + 1, e[0] + (e[1] - e[0]))
    BY <2>1, ChunkFirst
  <2>3. QED
    BY <2>2
<1>3. PICK R : blocks \in Seq(R)
  BY <1>1
<1>4. a + n <= Len(selected)
  BY <1>1, <1>2
<1>5. \A i \in 1..Len(selected) :
          Gives(blocks[i], CreateBlock(keys, values, 0, selected[i], spec), "none")
  BY DEF ExactRead, BlocksRead
<1>6. BatchIs(StackBlocks(SubSeq(blocks, a + 1, a + n), spec), spec, InUnits(keys, spec), InUnits(values, spec), selected,
              a, n)
  <2>1. PICK s, ks, vs, ids, bl, x, z :
            /\ s = spec /\ ks = InUnits(keys, spec) /\ vs = InUnits(values, spec)
            /\ ids = selected /\ bl = blocks /\ x = keys /\ z = values
    OBVIOUS
  <2>2. /\ Chosen(s, ks, vs, ids) /\ bl \in Seq(R) /\ Len(bl) = Len(ids)
        /\ a + n <= Len(ids) /\ a \in Nat /\ n \in Nat \ {0}
        /\ GivenBlocks(bl, s, x, z, ids)
    BY <1>1, <1>2, <1>3, <1>4, <1>5, <2>1 DEF GivenBlocks
  <2>5. Units(s, x, z, ks, vs)
    BY <2>1 DEF Units, ExactRead, BlocksRead, StoreOf
  <2>3. BatchIs(StackBlocks(SubSeq(bl, a + 1, a + n), s), s, ks, vs, ids, a, n)
    BY ONLY <2>2, <2>5, BatchOf
  <2>4. QED
    BY <2>1, <2>3
<1>7. Batch = StackBlocks(SubSeq(blocks, a + 1, a + n), spec)
  BY <1>2 DEF Batch
<1>8. QED
  BY <1>2, <1>4, <1>6, <1>7 DEF BatchIs

(* What the backends make of a chunk, and when they accept it.             *)
LEMMA ChunkAccepted ==
    ASSUME ExactRead, query \in Queries(spec), NEW e, Offsets(e, chunks, blocks)
    PROVE  /\ query \in Seq([1..spec.head_dim -> Int]) /\ Len(query) \in Nat \ {0}
           /\ Len(query[1]) = spec.head_dim /\ Batch.kv_heads = spec.kv_heads
           /\ BatchAccepts(query, Batch) <=> Len(query) % spec.kv_heads = 0
           /\ TritonAccepts(query, Batch)
                 <=> Len(query) % spec.kv_heads = 0 /\ spec.head_dim <= 256
           /\ CudaAccepts(query, Batch)
                 <=> Len(query) % spec.kv_heads = 0 /\ spec.head_dim <= 256
<1>1. PICK a, n : a = e[0] /\ n = e[1] - e[0]
  OBVIOUS
<1>2. /\ n \in Nat \ {0} /\ Chunk(Batch, spec, InUnits(keys, spec), InUnits(values, spec), selected, a, n)
      /\ Len(Batch.valid) = n /\ Len(Batch.key) = n
  BY <1>1, BatchChunk
<1>3. PICK batch : batch = Batch
  OBVIOUS
<1>4. /\ query \in Seq([1..spec.head_dim -> Int]) /\ Len(query) \in Nat \ {0}
      /\ Len(query[1]) = spec.head_dim /\ batch.kv_heads = spec.kv_heads
      /\ BatchAccepts(query, batch) <=> Len(query) % spec.kv_heads = 0
      /\ TritonAccepts(query, batch)
            <=> Len(query) % spec.kv_heads = 0 /\ spec.head_dim <= 256
      /\ CudaAccepts(query, batch)
            <=> Len(query) % spec.kv_heads = 0 /\ spec.head_dim <= 256
  <2>1. PICK s, ks, vs, ids, q :
            s = spec /\ ks = InUnits(keys, spec) /\ vs = InUnits(values, spec) /\ ids = selected /\ q = query
    OBVIOUS
  <2>2. /\ Chunk(batch, s, ks, vs, ids, a, n) /\ n \in Nat \ {0}
        /\ Len(batch.valid) = n /\ Len(batch.key) = n /\ q \in Queries(s)
    BY <1>2, <1>3, <2>1
  <2>3. /\ q \in Seq([1..s.head_dim -> Int]) /\ Len(q) \in Nat \ {0} /\ Len(q[1]) = s.head_dim
        /\ batch.kv_heads = s.kv_heads
        /\ BatchAccepts(q, batch) <=> Len(q) % s.kv_heads = 0
        /\ TritonAccepts(q, batch) <=> Len(q) % s.kv_heads = 0 /\ s.head_dim <= 256
        /\ CudaAccepts(q, batch) <=> Len(q) % s.kv_heads = 0 /\ s.head_dim <= 256
    BY ONLY <2>2, AcceptsAre
  <2>4. QED
    BY <2>1, <2>3
<1>5. QED
  BY <1>3, <1>4

(* The reference and the Triton backend attend over the chunk.             *)
LEMMA ChunkAttended ==
    ASSUME ExactRead, query \in Queries(spec), NEW e, Offsets(e, chunks, blocks),
           NEW h \in DOMAIN query
    PROVE  /\ Attended(ReferenceRun(query, Batch)[h], h, e[0], e[1] - e[0])
           /\ Attended(TritonRun(query, Batch)[h], h, e[0], e[1] - e[0])
<1>1. PICK a, n : a = e[0] /\ n = e[1] - e[0]
  OBVIOUS
<1>2. /\ a \in Nat /\ n \in Nat \ {0} /\ a + n <= Len(selected)
      /\ Chunk(Batch, spec, InUnits(keys, spec), InUnits(values, spec), selected, a, n)
  BY <1>1, BatchChunk
<1>3. Len(query[1]) = spec.head_dim
  BY ChunkAccepted
<1>4. /\ PartAttends(ReferenceRun(query, Batch)[h], spec, InUnits(keys, spec), InUnits(values, spec), selected, query, h,
           a, n)
      /\ PartAttends(TritonRun(query, Batch)[h], spec, InUnits(keys, spec), InUnits(values, spec), selected, query, h, a, n)
  BY <1>2, <1>3, ChunkResults
<1>5. QED
  BY <1>1, <1>4 DEF Attended

(* The work of the kernel, whichever way the sums of its head are taken.   *)
LEMMA HeadKernel ==
    ASSUME ExactRead, query \in Queries(spec), Len(query) % spec.kv_heads = 0,
           spec.head_dim <= 256, head \in DOMAIN query,
           NEW e, Offsets(e, chunks, blocks),
           NEW u, HeadOf(u, spec, InUnits(keys, spec), InUnits(values, spec), selected, query, head)
    PROVE  \E k : /\ KernelOf(k)
                  /\ k.w[k.count] = WeightOf(u, e[0], e[1] - e[0])
                  /\ k.x[k.count] = NumeratorOf(u, e[0], e[1] - e[0])
<1>1. PICK a, n : a = e[0] /\ n = e[1] - e[0]
  OBVIOUS
<1>2. /\ a \in Nat /\ n \in Nat \ {0} /\ a + n <= Len(selected)
      /\ Chunk(Batch, spec, InUnits(keys, spec), InUnits(values, spec), selected, a, n)
  BY <1>1, BatchChunk
<1>3. /\ HeadSums(u) /\ u.s = spec /\ u.ks = InUnits(keys, spec) /\ u.vs = InUnits(values, spec) /\ u.ids = selected
      /\ u.n = Len(selected)
      /\ u.vector = query[head] /\ u.h = KVHead(head - 1, Len(query), spec.kv_heads)
  BY DEF HeadOf
<1>4. PICK batch : batch = Batch
  OBVIOUS
<1>5. \E k : /\ Kernel(k, u.vector, batch, ValidRows(batch), u.h)
             /\ k.dim = u.s.head_dim /\ k.threads = BlockDim(k.dim)
             /\ k.w[k.count] = WeightOf(u, a, n) /\ k.x[k.count] = NumeratorOf(u, a, n)
  <2>1. a + n <= u.n /\ Chunk(batch, u.s, u.ks, u.vs, u.ids, a, n) /\ u.s.head_dim <= 256
    BY <1>2, <1>3, <1>4
  <2>2. HeadSums(u) /\ a \in Nat /\ n \in Nat \ {0}
    BY <1>2, <1>3
  <2>3. QED
    BY ONLY <2>1, <2>2, ChunkKernel
<1>6. QED
  BY <1>1, <1>3, <1>4, <1>5 DEF KernelOf

(* The chunks so far and the next make the result so far.                  *)
LEMMA MergedParts ==
    ASSUME ExactRead, NEW e, Attending(e), NEW result,
           \A h \in DOMAIN query : Attended(result[h], h, e[0], e[1] - e[0]),
           MergeChunk(result), NEW h \in DOMAIN query
    PROVE  Attended(merged'[h], h, 0, e[1])
<1>1. PICK a, n : a = e[0] /\ n = e[1] - e[0]
  OBVIOUS
<1>2. Offsets(e, chunks, blocks) /\ (merged = <<>> <=> e[0] = 0)
  BY DEF Attending
<1>3. a \in Nat /\ n \in Nat \ {0} /\ a + n = e[1] /\ a + n <= Len(selected)
  BY <1>1, <1>2, BatchChunk
<1>4. Attended(result[h], h, a, n)
  BY <1>1
<1>5. CASE e[0] = 0
  <2>1. merged' = result
    BY <1>2, <1>5 DEF MergeChunk
  <2>2. a = 0 /\ n = e[1]
    BY <1>1, <1>3, <1>5
  <2>3. QED
    BY <1>4, <2>1, <2>2
<1>6. CASE e[0] # 0
  <2>1. merged'[h] = Merge(merged[h], result[h])
    BY <1>2, <1>6 DEF MergeChunk
  <2>2. Attended(merged[h], h, 0, a)
    BY <1>1, <1>6 DEF Attending
  <2>3. PICK s, ks, vs, ids, q, left, right :
            /\ s = spec /\ ks = InUnits(keys, spec) /\ vs = InUnits(values, spec) /\ ids = selected /\ q = query
            /\ left = merged[h] /\ right = result[h]
    OBVIOUS
  <2>4. /\ PartAttends(left, s, ks, vs, ids, q, h, 0, a)
        /\ PartAttends(right, s, ks, vs, ids, q, h, a, n)
        /\ a \in Nat \ {0} /\ n \in Nat \ {0} /\ a + n <= Len(ids)
        /\ Chosen(s, ks, vs, ids)
    <3>1. Chosen(spec, InUnits(keys, spec), InUnits(values, spec), selected) /\ a # 0
      BY <1>1, <1>6, ReadChosen
    <3>2. QED
      BY <1>3, <1>4, <2>2, <2>3, <3>1 DEF Attended
  <2>5. PartAttends(Merge(left, right), s, ks, vs, ids, q, h, 0, a + n)
    BY ONLY <2>4, PartsMerge
  <2>6. QED
    BY <1>3, <2>1, <2>3, <2>5 DEF Attended
<1>7. QED
  BY <1>5, <1>6

(* A chunk is merged: the last of them completes the result.               *)
LEMMA MergeKeeps ==
    ASSUME ExactRead, query \in Queries(spec), Len(query) % spec.kv_heads = 0,
           NEW e, Attending(e), NEW result, result # <<>>,
           \A h \in DOMAIN query : Attended(result[h], h, e[0], e[1] - e[0]),
           MergeChunk(result), UNCHANGED <<dataVars, planVars, query>>,
           outputs' = <<>>, head' = 0
    PROVE  DecodeInv'
<1>1. Offsets(e, chunks, blocks) /\ (merged = <<>> <=> e[0] = 0)
  BY DEF Attending
<1>2. PICK m : m = merged'
  OBVIOUS
<1>3. \A h \in DOMAIN query : Attended(m[h], h, 0, e[1])
  BY <1>2, MergedParts
<1>4. /\ spec' = spec /\ keys' = keys /\ values' = values /\ selected' = selected
      /\ blocks' = blocks /\ backend' = backend /\ query' = query
  BY DEF dataVars, planVars
<1>5. /\ Len(blocks) = Len(selected) /\ Len(blocks) \in Nat
      /\ Len(query) \in Nat \ {0} /\ 1 \in DOMAIN query
  <2>1. Len(blocks) = Len(selected) /\ Len(selected) \in Nat
    BY ReadChosen
  <2>2. /\ query \in Seq([1..spec.head_dim -> Int]) /\ Len(query) \in Nat \ {0}
    BY <1>1, ChunkAccepted
  <2>3. QED
    BY <2>1, <2>2
<1>6. ExactRead' /\ query' \in Queries(spec')
  BY <1>4 DEF ExactRead, BlocksRead, StoreOf
<1>7. /\ e[1] \in Nat \ {0}
      /\ Len(chunks) = 1 => e[1] = Len(blocks)
      /\ Len(chunks) # 1 => Offsets([i \in 0..(Len(chunks) - 1) |-> e[i + 1]], Tail(chunks),
             blocks)
  <2>1. /\ e[0] \in Nat /\ e[1] - e[0] \in Nat \ {0} /\ e[0] + (e[1] - e[0]) = e[1]
    BY <1>1, <1>5, ChunkFirst
  <2>2. /\ Len(chunks) = 1 => e[1] = Len(blocks)
        /\ Len(chunks) # 1 => Offsets([i \in 0..(Len(chunks) - 1) |-> e[i + 1]],
               Tail(chunks), blocks)
    BY <1>1, <1>5, ChunkFirst
  <2>3. QED
    BY <2>1, <2>2
<1>8. m # <<>>
  <2>1. CASE merged = <<>>
    BY <1>2, <2>1 DEF MergeChunk
  <2>2. CASE merged # <<>>
    <3>1. m = [h \in DOMAIN query |-> Merge(merged[h], result[h])]
      BY <1>2, <2>2 DEF MergeChunk
    <3>2. 1 \in DOMAIN m
      BY <1>5, <3>1
    <3>3. QED
      BY <3>2
  <2>3. QED
    BY <2>1, <2>2
<1>9. CASE Len(chunks) = 1
  <2>1. stage' = "done"
    BY <1>9 DEF MergeChunk
  <2>2. e[1] = Len(selected)
    BY <1>5, <1>7, <1>9
  <2>3. Complete'
    BY <1>2, <1>3, <1>4, <2>2 DEF Complete, Attended
  <2>4. QED
    BY <1>6, <2>1, <2>3 DEF DecodeInv
<1>10. CASE Len(chunks) # 1
  <2>1. stage' = "attending" /\ chunks' = Tail(chunks)
    BY <1>10 DEF MergeChunk
  <2>2. PICK f : f = [i \in 0..(Len(chunks) - 1) |-> e[i + 1]]
    OBVIOUS
  <2>3. Len(chunks) \in Nat \ {0}
    BY <1>1 DEF Offsets
  <2>4. f[0] = e[1]
    BY <2>2, <2>3
  <2>5. Offsets(f, chunks', blocks')
    BY <1>4, <1>7, <1>10, <2>1, <2>2
  <2>6. \A h \in DOMAIN query' : Attended(m[h], h, 0, f[0])'
    BY <1>3, <1>4, <2>4 DEF Attended
  <2>7. Attending(f)'
    <3>1. Len(outputs') = 0 /\ outputs' \in Seq({})
      OBVIOUS
    <3>2. merged' # <<>> /\ f[0] # 0
      BY <1>2, <1>7, <1>8, <2>4
    <3>3. Len(outputs') < Len(query') /\ \A h \in 1..Len(outputs') : FALSE
      BY <1>4, <1>5, <3>1
    <3>4. QED
      BY <1>2, <2>5, <2>6, <3>1, <3>2, <3>3 DEF Attending
  <2>8. QED
    BY <1>6, <2>1, <2>7 DEF DecodeInv
<1>11. QED
  BY <1>9, <1>10

(* The reference and the Triton backend merge a chunk or refuse it.        *)
LEMMA RunChunkDecodes ==
    ASSUME DecodeInv, RunChunk
    PROVE  DecodeInv'
<1>1. /\ stage = "attending" /\ ExactRead /\ query \in Queries(spec)
      /\ backend \in {"reference", "triton"}
  BY DEF RunChunk, DecodeInv
<1>2. PICK e : Attending(e)
  BY <1>1 DEF DecodeInv
<1>3. Offsets(e, chunks, blocks) /\ outputs = <<>> /\ head = 0
  BY <1>1, <1>2 DEF Attending
<1>4. /\ query \in Seq([1..spec.head_dim -> Int]) /\ Len(query) \in Nat \ {0}
      /\ BatchAccepts(query, Batch) <=> Len(query) % spec.kv_heads = 0
      /\ TritonAccepts(query, Batch)
            <=> Len(query) % spec.kv_heads = 0 /\ spec.head_dim <= 256
  BY <1>1, <1>3, ChunkAccepted
<1>5. spec.head_dim \in Nat
  BY <1>1, SizesAre DEF ExactRead, BlocksRead, StoreOf
<1>6. /\ UNCHANGED <<dataVars, planVars, query>> /\ outputs' = <<>> /\ head' = 0
  BY <1>3 DEF RunChunk, Idle, kernelVars
<1> DEFINE Accepted == IF backend = "reference" THEN BatchAccepts(query, Batch)
                       ELSE TritonAccepts(query, Batch)
           result == IF backend = "reference" THEN ReferenceRun(query, Batch)
                     ELSE TritonRun(query, Batch)
<1>7. CASE ~Accepted
  <2>1. stage' = "raised"
    BY <1>7 DEF RunChunk
  <2>2. Len(query) % spec.kv_heads # 0 \/ (spec.head_dim > 256 /\ backend # "reference")
    BY <1>1, <1>4, <1>5, <1>7
  <2>3. Refusal'
    BY <1>6, <2>2 DEF Refusal, dataVars, planVars
  <2>4. QED
    BY <2>1, <2>3 DEF DecodeInv
<1>8. CASE Accepted
  <2>1. MergeChunk(result)
    BY <1>8 DEF RunChunk
  <2>2. Len(query) % spec.kv_heads = 0
    BY <1>4, <1>8
  <2>3. result # <<>>
    <3>1. DOMAIN result = DOMAIN query
      BY DEF ReferenceRun, TritonRun
    <3>2. 1 \in DOMAIN result
      BY <1>4, <3>1
    <3> HIDE DEF result
    <3>3. QED
      BY <3>2
  <2>4. \A h \in DOMAIN query : Attended(result[h], h, e[0], e[1] - e[0])
    BY <1>1, <1>3, ChunkAttended
  <2> HIDE DEF result
  <2>5. QED
    BY <1>1, <1>2, <1>6, <2>1, <2>2, <2>3, <2>4, MergeKeeps
<1>9. QED
  BY <1>7, <1>8

(* A kernel begins with the next head of the chunk.                        *)
LEMMA LaunchDecodes ==
    ASSUME DecodeInv, LaunchHead
    PROVE  DecodeInv'
<1>1. /\ stage = "attending" /\ ExactRead /\ query \in Queries(spec)
      /\ backend = "cuda" /\ head = 0
  BY DEF LaunchHead, DecodeInv
<1>2. PICK e : Attending(e)
  BY <1>1 DEF DecodeInv
<1>3. Offsets(e, chunks, blocks)
  BY <1>2 DEF Attending
<1>4. /\ Len(query[1]) = spec.head_dim
      /\ CudaAccepts(query, Batch)
            <=> Len(query) % spec.kv_heads = 0 /\ spec.head_dim <= 256
  BY <1>1, <1>3, ChunkAccepted
<1>5. spec.head_dim \in Nat
  BY <1>1, SizesAre DEF ExactRead, BlocksRead, StoreOf
<1>6. /\ spec' = spec /\ keys' = keys /\ values' = values /\ selected' = selected
      /\ blocks' = blocks /\ backend' = backend /\ query' = query
      /\ chunks' = chunks /\ outputs' = outputs /\ merged' = merged
  BY DEF LaunchHead, dataVars, planVars, workVars
<1>7. ExactRead' /\ query' \in Queries(spec')
  BY <1>1, <1>6 DEF ExactRead, BlocksRead, StoreOf
<1>8. CASE ~CudaAccepts(query, Batch)
  <2>1. stage' = "raised"
    BY <1>8 DEF LaunchHead
  <2>2. Refusal'
    BY <1>1, <1>4, <1>5, <1>6, <1>8 DEF Refusal
  <2>3. QED
    BY <2>1, <2>2 DEF DecodeInv
<1>9. CASE CudaAccepts(query, Batch)
  <2>1. /\ stage' = "attending"
        /\ Launch(Len(outputs) + 1, spec.head_dim, ValidRows(Batch))
    BY <1>1, <1>4, <1>9 DEF LaunchHead
  <2>2. head' = Len(outputs) + 1
    BY <2>1 DEF Launch
  <2>3. ASSUME NEW k, KernelOf(k)'
        PROVE  KernelInv(k)'
    <3>1. PICK vector, batch, rows, h :
              /\ vector = query[head'] /\ batch = Batch /\ rows = ValidRows(Batch)
              /\ h = KVHead(head' - 1, Len(query), spec.kv_heads)
      OBVIOUS
    <3>2. Batch' = Batch
      BY <1>6 DEF Batch
    <3>3. /\ Kernel(k, vector, batch, rows, h)
          /\ k.dim = spec.head_dim /\ k.threads = BlockDim(k.dim)
      BY <1>6, <2>3, <3>1, <3>2 DEF KernelOf
    <3>4. Launch(Len(outputs) + 1, k.dim, rows)
      BY <2>1, <3>1, <3>3
    <3>5. QED
      BY <3>3, <3>4, LaunchStarts
  <2>4. Attending(e)'
    <3>1. Len(query') % spec'.kv_heads = 0 /\ spec'.head_dim <= 256
      BY <1>4, <1>6, <1>9
    <3>2. /\ Offsets(e, chunks', blocks') /\ (merged' = <<>> <=> e[0] = 0)
          /\ e[0] # 0 => \A h \in DOMAIN query' : Attended(merged[h], h, 0, e[0])'
          /\ (\E R : outputs' \in Seq(R)) /\ Len(outputs') < Len(query')
          /\ \A h \in 1..Len(outputs') : Attended(outputs[h], h, e[0], e[1] - e[0])'
      BY <1>2, <1>6 DEF Attending, Attended
    <3>3. backend' = "cuda" /\ head' = Len(outputs') + 1
      BY <1>1, <1>6, <2>2
    <3>4. QED
      BY <2>3, <3>1, <3>2, <3>3 DEF Attending
  <2>5. QED
    BY <1>7, <2>1, <2>4 DEF DecodeInv
<1>10. QED
  BY <1>8, <1>9

(* The threads of the kernel work.                                         *)
LEMMA ThreadsDecode ==
    ASSUME DecodeInv, RunThreads
    PROVE  DecodeInv'
<1>1. /\ stage = "attending" /\ ExactRead /\ query \in Queries(spec) /\ head # 0
      /\ KernelStep(query, Batch)
  BY DEF RunThreads, DecodeInv
<1>2. PICK e : Attending(e)
  BY <1>1 DEF DecodeInv
<1>3. Offsets(e, chunks, blocks)
  BY <1>2 DEF Attending
<1>4. Batch.kv_heads = spec.kv_heads
  BY <1>1, <1>3, ChunkAccepted
<1>5. /\ stage' = stage
      /\ spec' = spec /\ keys' = keys /\ values' = values /\ selected' = selected
      /\ blocks' = blocks /\ backend' = backend /\ query' = query
      /\ chunks' = chunks /\ outputs' = outputs /\ merged' = merged
  BY DEF RunThreads, dataVars, planVars, workVars
<1>6. ExactRead' /\ query' \in Queries(spec')
  BY <1>1, <1>5 DEF ExactRead, BlocksRead, StoreOf
<1>7. head' = head
  BY <1>1 DEF KernelStep, Released, Partial, Add, State, Weigh
<1>8. ASSUME NEW k, KernelOf(k)'
      PROVE  KernelInv(k)'
  <2>1. PICK batch, h : batch = Batch /\ h = KVHead(head - 1, Len(query), spec.kv_heads)
    OBVIOUS
  <2>2. Batch' = Batch
    BY <1>5 DEF Batch
  <2>3. KernelOf(k) /\ Kernel(k, query[head], batch, ValidRows(batch), h)
    BY <1>5, <1>7, <1>8, <2>1, <2>2 DEF KernelOf
  <2>4. KernelInv(k)
    BY <1>1, <1>2, <2>3 DEF Attending
  <2>5. h = KVHead(head - 1, Len(query), batch.kv_heads) /\ KernelStep(query, batch)
    BY <1>1, <1>4, <2>1
  <2>6. QED
    BY <2>3, <2>4, <2>5, KernelKeeps
<1>9. Attending(e)'
  <2>1. /\ Offsets(e, chunks', blocks') /\ (merged' = <<>> <=> e[0] = 0)
        /\ e[0] # 0 => \A h \in DOMAIN query' : Attended(merged[h], h, 0, e[0])'
        /\ (\E R : outputs' \in Seq(R)) /\ Len(outputs') < Len(query')
        /\ \A h \in 1..Len(outputs') : Attended(outputs[h], h, e[0], e[1] - e[0])'
    BY <1>2, <1>5 DEF Attending, Attended
  <2>2. /\ backend' # "cuda" => outputs' = <<>> /\ head' = 0
        /\ head' = Len(outputs') + 1 /\ Len(query') % spec'.kv_heads = 0
        /\ spec'.head_dim <= 256
    BY <1>1, <1>2, <1>5, <1>7 DEF Attending
  <2>3. QED
    BY <1>8, <2>1, <2>2 DEF Attending
<1>10. QED
  BY <1>1, <1>5, <1>6, <1>9 DEF DecodeInv

(* What the kernel stores is the attention of its head over the chunk.     *)
LEMMA StoredAttends ==
    ASSUME ExactRead, query \in Queries(spec), NEW e, Attending(e), head # 0, Stored
    PROVE  Attended(KernelResult(Len(query[1])), head, e[0], e[1] - e[0])
<1>1. /\ Offsets(e, chunks, blocks) /\ head = Len(outputs) + 1
      /\ Len(outputs) < Len(query) /\ \E R : outputs \in Seq(R)
      /\ Len(query) % spec.kv_heads = 0 /\ spec.head_dim <= 256
  BY DEF Attending
<1>2. /\ query \in Seq([1..spec.head_dim -> Int]) /\ Len(query[1]) = spec.head_dim
  BY <1>1, ChunkAccepted
<1>3. head \in DOMAIN query
  BY <1>1, <1>2
<1>4. PICK r : r = KernelResult(spec.head_dim)
  OBVIOUS
<1>5. ASSUME NEW u, HeadOf(u, spec, InUnits(keys, spec), InUnits(values, spec), selected, query, head)
      PROVE  Attends(r, WeightOf(u, e[0], e[1] - e[0]), NumeratorOf(u, e[0], e[1] - e[0]),
                     spec.head_dim)
  <2>1. PICK k : /\ KernelOf(k)
                 /\ k.w[k.count] = WeightOf(u, e[0], e[1] - e[0])
                 /\ k.x[k.count] = NumeratorOf(u, e[0], e[1] - e[0])
    BY <1>1, <1>3, <1>5, HeadKernel
  <2>2. PICK vector, batch, rows, h :
            /\ vector = query[head] /\ batch = Batch /\ rows = ValidRows(Batch)
            /\ h = KVHead(head - 1, Len(query), spec.kv_heads)
    OBVIOUS
  <2>3. Kernel(k, vector, batch, rows, h) /\ k.dim = spec.head_dim
    BY <2>1, <2>2 DEF KernelOf
  <2>4. KernelInv(k)
    BY <2>1 DEF Attending
  <2>5. Attends(KernelResult(k.dim), k.w[k.count], k.x[k.count], k.dim)
    BY <2>3, <2>4, KernelAttends
  <2>6. QED
    BY <1>4, <2>1, <2>3, <2>5
<1>6. Attended(r, head, e[0], e[1] - e[0])
  BY <1>5 DEF Attended, PartAttends
<1>7. QED
  BY <1>2, <1>4, <1>6

(* Its result joins those of the heads before, or completes the chunk.     *)
LEMMA CollectDecodes ==
    ASSUME DecodeInv, IdleInv, CollectHead
    PROVE  DecodeInv'
<1>1. stage = "attending" /\ head # 0 /\ Stored
  <2>1. Stored /\ at # <<>>
    BY DEF CollectHead, Stored, Tids
  <2>2. QED
    BY <2>1 DEF IdleInv
<1>2. ExactRead /\ query \in Queries(spec)
  BY <1>1 DEF DecodeInv
<1>3. PICK e : Attending(e)
  BY <1>1 DEF DecodeInv
<1>4. /\ Offsets(e, chunks, blocks) /\ head = Len(outputs) + 1 /\ backend = "cuda"
      /\ Len(outputs) < Len(query) /\ \E R : outputs \in Seq(R)
      /\ Len(query) % spec.kv_heads = 0
  BY <1>1, <1>3 DEF Attending
<1>5. query \in Seq([1..spec.head_dim -> Int]) /\ Len(query) \in Nat \ {0}
  BY <1>2, <1>4, ChunkAccepted
<1>6. PICK result : result = KernelResult(Len(query[1]))
  OBVIOUS
<1>7. Attended(result, head, e[0], e[1] - e[0])
  BY <1>1, <1>2, <1>3, <1>6, StoredAttends
<1>8. PICK results : results = Append(outputs, result)
  OBVIOUS
<1>9. /\ \E R : results \in Seq(R)
      /\ Len(results) = head /\ Len(outputs) \in Nat
      /\ \A h \in 1..Len(outputs) : results[h] = outputs[h]
      /\ results[head] = result
  <2>1. PICK R : outputs \in Seq(R)
    BY <1>4
  <2>2. PICK Q : Q = R \cup {result}
    OBVIOUS
  <2>3. outputs \in Seq(Q) /\ result \in Q
    BY <2>1, <2>2, SeqMonotonic
  <2>4. QED
    BY <1>4, <1>8, <2>3, AppendProperties
<1>10. \A h \in 1..head : Attended(results[h], h, e[0], e[1] - e[0])
  <2> TAKE h \in 1..head
  <2>1. CASE h = head
    BY <1>7, <1>9, <2>1
  <2>2. CASE h # head
    <3>1. h \in 1..Len(outputs)
      BY <1>4, <1>9, <2>2
    <3>2. QED
      BY <1>3, <1>9, <3>1 DEF Attending
  <2>3. QED
    BY <2>1, <2>2
<1>11. UNCHANGED <<dataVars, planVars, query>> /\ head' = 0
  BY DEF CollectHead
<1>12. CASE head < Len(query)
  <2>1. outputs' = results /\ UNCHANGED <<stage, chunks, merged>>
    BY <1>6, <1>8, <1>12 DEF CollectHead
  <2>2. /\ spec' = spec /\ keys' = keys /\ values' = values /\ selected' = selected
        /\ blocks' = blocks /\ backend' = backend /\ query' = query
    BY <1>11 DEF dataVars, planVars
  <2>3. ExactRead' /\ query' \in Queries(spec')
    BY <1>2, <2>2 DEF ExactRead, BlocksRead, StoreOf
  <2>4. Attending(e)'
    <3>1. /\ Offsets(e, chunks', blocks') /\ (merged' = <<>> <=> e[0] = 0)
          /\ e[0] # 0 => \A h \in DOMAIN query' : Attended(merged[h], h, 0, e[0])'
      BY <1>3, <2>1, <2>2 DEF Attending, Attended
    <3>2. \A h \in 1..Len(results) : Attended(results[h], h, e[0], e[1] - e[0])'
      BY <1>9, <1>10, <2>2 DEF Attended
    <3>3. /\ \E R : outputs' \in Seq(R)
          /\ Len(outputs') < Len(query')
      BY <1>9, <1>12, <2>1, <2>2
    <3>4. head' = 0 /\ backend' = "cuda"
      BY <1>4, <1>11, <2>2
    <3>5. \A h \in 1..Len(outputs') : Attended(outputs[h], h, e[0], e[1] - e[0])'
      BY <2>1, <3>2
    <3>6. QED
      BY <3>1, <3>3, <3>4, <3>5 DEF Attending
  <2>5. QED
    BY <1>1, <2>1, <2>3, <2>4 DEF DecodeInv
<1>13. CASE ~(head < Len(query))
  <2>1. outputs' = <<>> /\ MergeChunk(results)
    BY <1>6, <1>8, <1>13, Zenon DEF CollectHead
  <2>2. head = Len(query)
    BY <1>4, <1>5, <1>9, <1>13
  <2>3. results # <<>>
    BY <1>9, <2>2, <1>5
  <2>4. \A h \in DOMAIN query : Attended(results[h], h, e[0], e[1] - e[0])
    BY <1>5, <1>10, <2>2
  <2>5. QED
    BY <1>2, <1>3, <1>4, <1>11, <2>1, <2>3, <2>4, MergeKeeps
<1>14. QED
  BY <1>12, <1>13

(* A kernel that does not move stays where it is.                          *)
LEMMA KernelStutters ==
    ASSUME NEW k, KernelInv(k), UNCHANGED kernelVars
    PROVE  KernelInv(k)'
<1>1. /\ at' = at /\ row' = row /\ stride' = stride /\ acc' = acc
      /\ reduce' = reduce /\ state' = state /\ running' = running
  BY DEF kernelVars
<1>2. ASSUME NEW r
      PROVE  /\ Numbers(k)' = Numbers(k) /\ RunAt(k, r)' = RunAt(k, r)
             /\ \A statement, next, D : Phase(k, statement, next, D)' = Phase(k, statement,
                    next, D)
             /\ \A m, i : AccAt(k, m, r, i)' = AccAt(k, m, r, i)
  BY <1>1 DEF Numbers, RunAt, AccAt, Phase
<1>3. ASSUME NEW r, Before(k, r)
      PROVE  Before(k, r)'
  BY <1>1, <1>3 DEF Before, Numbers, RunAt, AccAt
<1>4. ASSUME NEW r, NEW D, NEW m, Behind(k, r, D, m)
      PROVE  Behind(k, r, D, m)'
  BY <1>1, <1>4, BehindKept
<1>5. ASSUME NEW r, NEW D, AtPartial(k, r, D)
      PROVE  AtPartial(k, r, D)'
  BY <1>1, <1>2, <1>3, <1>5 DEF AtPartial
<1>6. ASSUME NEW r, NEW D, NEW s, NEW p, AtAdd(k, r, D, s, p)
      PROVE  AtAdd(k, r, D, s, p)'
  BY <1>1, <1>2, <1>3, <1>6 DEF AtAdd
<1>7. ASSUME NEW r, NEW D, AtState(k, r, D)
      PROVE  AtState(k, r, D)'
  <2>1. Phase(k, "state", "weigh", D)' /\ row' = [i \in Threads(k) |-> r]
    BY <1>1, <1>2, <1>7 DEF AtState
  <2>2. CASE 1 \in D
    <3>1. PICK m : Behind(k, r, {}, m)
      BY <1>7, <2>2 DEF AtState
    <3>2. Behind(k, r, {}, m)'
      BY <1>4, <3>1
    <3>3. QED
      BY <2>1, <2>2, <3>2 DEF AtState
  <2>3. CASE 1 \notin D
    <3>1. Before(k, r) /\ reduce[1] = k.sum[r]
      BY <1>7, <2>3 DEF AtState
    <3>2. Before(k, r)' /\ reduce'[1] = k.sum[r]
      BY <1>1, <1>3, <3>1
    <3>3. QED
      BY <2>1, <2>3, <3>2 DEF AtState
  <2>4. QED
    BY <2>2, <2>3
<1>8. ASSUME NEW r, NEW D, NEW m, AtWeigh(k, r, D, m)
      PROVE  AtWeigh(k, r, D, m)'
  BY <1>1, <1>2, <1>3, <1>4, <1>8 DEF AtWeigh
<1>9. ASSUME AtStore(k)
      PROVE  AtStore(k)'
  BY <1>1, <1>2, <1>9 DEF AtStore
<1>10. QED
  BY <1>1, <1>5, <1>6, <1>7, <1>8, <1>9 DEF KernelInv

(* A read keeps what it chose, and gets it as it was created.              *)
LEMMA ReadDecodes ==
    ASSUME DecodeInv, IdleInv, MediumInv, TensorsKept', NEW selector \in Selectors,
           NEW s \in Specs, NEW onPath \in {"host", "device"}, Read(selector, s, onPath)
    PROVE  DecodeInv'
<1>1. stage = "created" /\ StoreOf
  BY DEF Read, DecodeInv
<1>2. PICK n : n = BlockCount(Len(keys), spec)
  OBVIOUS
<1>3. PICK ids : ids = Select(selector, Ids(n))
  OBVIOUS
<1>4. /\ spec' = spec /\ keys' = keys /\ values' = values /\ damage' = damage
  BY DEF Read
<1>5. /\ n \in Nat /\ Len(records) = n /\ \E R : records \in Seq(R)
  <2>1. StoreKept
    BY <1>1 DEF MediumInv
  <2>2. spec.block_tokens \in Nat \ {0} /\ Len(keys) \in Nat
    BY <1>1, <2>1, SizesAre DEF StoreKept, StoreOf
  <2>3. n \in Nat
    BY <1>2, <2>2 DEF BlockCount
  <2>4. QED
    BY <1>2, <2>1, <2>3 DEF StoreKept
<1>6. ids \in Seq(0..(n - 1)) /\ Distinct(ids)
  BY <1>3, <1>5, SelectGivesIds
<1>7. ids = Select(selector, [b \in DOMAIN records |-> b - 1])
  <2>1. DOMAIN records = 1..n
    BY <1>5
  <2>2. QED
    BY <1>3, <2>1 DEF Ids
<1>8. selected' = ids
  BY <1>7 DEF Read
<1>9. CASE ids = <<>>
  <2>1. stage' = "raised"
    BY <1>7, <1>9, Zenon DEF Read
  <2>2. QED
    BY <1>8, <1>9, <2>1 DEF DecodeInv, Refusal
<1>10. CASE stage' = "refused"
  BY <1>10 DEF DecodeInv
<1>11. CASE ids # <<>> /\ stage' # "refused"
  <2>1. /\ stage' = "read"
        /\ \E f : blocks' = [i \in DOMAIN ids |-> f[i]]
    <3> DEFINE Decoded(b) == IF onPath = "device"
                             THEN DecodeDeviceRecord(records[b + 1], s, Entry(Len(keys), 0,
                                    b, s))
                             ELSE DecodeRecord(records[b + 1], s, TRUE)
    <3>1. stage' = "read" /\ blocks' = [i \in DOMAIN ids |-> Decoded(ids[i])]
      BY <1>7, <1>11, Zenon DEF Read
    <3>2. PICK f : f = [i \in DOMAIN ids |-> Decoded(ids[i])]
      OBVIOUS
    <3> HIDE DEF Decoded
    <3>3. blocks' = [i \in DOMAIN ids |-> f[i]]
      BY <3>1, <3>2
    <3>4. QED
      BY <3>1, <3>3
  <2>2. PICK f : blocks' = [i \in DOMAIN ids |-> f[i]]
    BY <2>1
  <2>3. (\E R : blocks' \in Seq(R)) /\ Len(blocks') = Len(ids)
    <3>1. PICK R : R = {f[i] : i \in DOMAIN ids}
      OBVIOUS
    <3>2. blocks' \in Seq(R) /\ Len(blocks') = Len(ids)
      BY <1>6, <2>2, <3>1
    <3>3. QED
      BY <3>2
  <2>4. ASSUME damage = "none"
        PROVE  BlocksRead'
    <3>1. \A i \in DOMAIN ids : Gives(blocks'[i], CreateBlock(keys, values, 0, ids[i], spec),
           "none")
      BY <1>4, <1>8, <2>1, <2>4 DEF TensorsKept
    <3>2. DOMAIN ids = 1..Len(ids)
      BY <1>6
    <3>3. StoreOf'
      BY <1>1, <1>4 DEF StoreOf
    <3>4. /\ selected' \in Seq(0..(BlockCount(Len(keys'), spec') - 1)) /\ Distinct(selected')
          /\ selected' # <<>>
      BY <1>2, <1>4, <1>6, <1>8, <1>11
    <3>5. \A i \in 1..Len(selected') :
             Gives(blocks'[i], CreateBlock(keys', values', 0, selected'[i], spec'), "none")
      BY <1>4, <1>8, <3>1, <3>2
    <3>6. QED
      BY <1>8, <2>3, <3>3, <3>4, <3>5 DEF BlocksRead
  <2>5. QED
    BY <1>4, <2>1, <2>4 DEF DecodeInv
<1>12. QED
  BY <1>9, <1>10, <1>11

(* A pipeline is made over exact tensors.                                  *)
LEMMA ConstructDecodes ==
    ASSUME DecodeInv, NEW requested, NEW require, NEW device, NEW extension, NEW triton,
           Construct(requested, require, device, extension, triton)
    PROVE  DecodeInv'
<1>1. /\ stage = "read" /\ damage = "none" /\ keys \in Exact(spec) /\ values \in Exact(spec)
      /\ stage' = "constructed" /\ UNCHANGED dataVars
  BY DEF Construct
<1>2. BlocksRead
  BY <1>1 DEF DecodeInv
<1>3. ExactRead
  BY <1>1, <1>2 DEF ExactRead
<1>4. ExactRead'
  BY <1>1, <1>3 DEF ExactRead, BlocksRead, StoreOf, dataVars
<1>5. QED
  BY <1>1, <1>4 DEF DecodeInv

(* decode cuts the blocks into chunks, or takes them as one.               *)
LEMMA AttendDecodes ==
    ASSUME DecodeInv, IdleInv, NEW q \in Queries(spec), NEW size \in StageSizes, Attend(q,
           size)
    PROVE  DecodeInv'
<1>1. /\ stage = "constructed" /\ ExactRead /\ outputs = <<>> /\ merged = <<>> /\ head = 0
  BY DEF Attend, DecodeInv, IdleInv
<1>2. /\ stage' = "attending" /\ query' = q /\ head' = 0 /\ outputs' = <<>> /\ merged' = <<>>
      /\ chunks' = IF streamed THEN ChunksOf(blocks, size) ELSE <<blocks>>
      /\ spec' = spec /\ keys' = keys /\ values' = values /\ selected' = selected
      /\ blocks' = blocks
  BY <1>1 DEF Attend, Idle, dataVars, kernelVars
<1>3. ExactRead'
  BY <1>1, <1>2 DEF ExactRead, BlocksRead, StoreOf
<1>4. PICK R : blocks \in Seq(R) /\ blocks # <<>>
  <2>1. \E R : blocks \in Seq(R)
    BY <1>1, ReadChosen
  <2>2. PICK R : blocks \in Seq(R)
    BY <2>1
  <2>3. Len(blocks) # 0
    BY <1>1, ReadChosen
  <2>4. QED
    BY <2>2, <2>3
<1>5. \E e : Offsets(e, chunks', blocks) /\ e[0] = 0
  <2>1. PICK bl : bl = blocks
    OBVIOUS
  <2>2. bl \in Seq(R) /\ bl # <<>> /\ size \in Nat \ {0}
    BY <1>4, <2>1, ExactAssumption
  <2>3. CASE streamed
    BY <1>2, <2>1, <2>2, <2>3, ChunksCover
  <2>4. CASE ~streamed
    BY <1>2, <2>1, <2>2, <2>4, OneChunk
  <2>5. QED
    BY <2>3, <2>4
<1>6. PICK e : Offsets(e, chunks', blocks) /\ e[0] = 0
  BY <1>5
<1>7. Len(q) \in Nat \ {0}
  <2>1. spec \in {r \in Specs : CreateAccepts(r)}
    BY <1>1 DEF ExactRead, BlocksRead, StoreOf
  <2>2. \A r \in Queries(spec) : r \in Seq([1..spec.head_dim -> Int]) \ {<<>>}
    BY <2>1, ExactAssumption, Zenon
  <2>3. q \in Seq([1..spec.head_dim -> Int]) /\ q # <<>>
    BY <2>2
  <2>4. QED
    BY <2>3
<1>8. Attending(e)'
  <2>1. /\ Len(outputs') = 0 /\ outputs' \in Seq({})
        /\ Len(outputs') < Len(query') /\ \A h \in 1..Len(outputs') : FALSE
    BY <1>2, <1>7
  <2>2. QED
    BY <1>2, <1>6, <2>1 DEF Attending
<1>9. QED
  BY <1>2, <1>3, <1>8 DEF DecodeInv

(* Every step of the lane keeps what is known of the decode.               *)
LEMMA StepDecode ==
    ASSUME DecodeInv, IdleInv, MediumInv, TensorsKept', [Next]_vars
    PROVE  DecodeInv'
<1> DEFINE Aside == stage' \in {"failed", "refused", "absent", "stored", "loaded"}
<1>1. ASSUME Aside
      PROVE  DecodeInv'
  BY <1>1 DEF DecodeInv
<1>2. ASSUME NEW s \in Specs, NEW k \in Keys(s), NEW v \in Values(s), Len(v) = Len(k),
             CreateStore(s, k, v)
      PROVE  DecodeInv'
  <2>1. /\ spec' = s /\ keys' = k /\ values' = v
        /\ stage' = "failed" \/ (stage' = "created" /\ CreateAccepts(s))
    BY <1>2 DEF CreateStore
  <2>2. QED
    BY <1>2, <2>1 DEF DecodeInv, StoreOf
<1>3. ASSUME NEW b \in DOMAIN records, NEW field \in HostFields, DamageRecord(b, field)
      PROVE  DecodeInv'
  <2>1. /\ stage = "created" /\ stage' = "created"
        /\ spec' = spec /\ keys' = keys /\ values' = values
    BY <1>3 DEF DamageRecord
  <2>2. QED
    BY <2>1 DEF DecodeInv, StoreOf
<1>4. ASSUME NEW selector \in Selectors, NEW s \in Specs, NEW onPath \in {"host", "device"},
             Read(selector, s, onPath)
      PROVE  DecodeInv'
  BY <1>4, ReadDecodes
<1>5. ASSUME NEW requested, NEW require, NEW device, NEW extension, NEW triton,
             Construct(requested, require, device, extension, triton)
      PROVE  DecodeInv'
  BY <1>5, ConstructDecodes
<1>6. ASSUME NEW q \in Queries(spec), NEW size \in StageSizes, Attend(q, size)
      PROVE  DecodeInv'
  BY <1>6, AttendDecodes
<1>7. ASSUME NEW c, NEW v, StoreBlock(c, v)
      PROVE  Aside
  BY <1>7 DEF StoreBlock
<1>8. ASSUME NEW field, DamageBlock(field)
      PROVE  Aside
  BY <1>8 DEF DamageBlock
<1>9. ASSUME NEW c, LoadBlock(c)
      PROVE  Aside
  BY <1>9, Zenon DEF LoadBlock
<1>10. CASE UNCHANGED vars
  <2>1. /\ stage' = stage /\ spec' = spec /\ keys' = keys /\ values' = values
        /\ damage' = damage /\ selected' = selected /\ blocks' = blocks
        /\ backend' = backend /\ query' = query /\ chunks' = chunks
        /\ outputs' = outputs /\ merged' = merged
    BY <1>10 DEF vars, dataVars, planVars, workVars
  <2>2. UNCHANGED kernelVars
    BY <1>10 DEF vars
  <2>3. StoreOf' = StoreOf /\ BlocksRead' = BlocksRead /\ ExactRead' = ExactRead
    BY <2>1 DEF StoreOf, BlocksRead, ExactRead
  <2>4. Complete' = Complete /\ Refusal' = Refusal
    BY <2>1 DEF Complete, Refusal, Attended
  <2>5. ASSUME NEW e, Attending(e)
        PROVE  Attending(e)'
    <3>1. ASSUME NEW k, head # 0, KernelOf(k)'
          PROVE  KernelInv(k)'
      <4>1. head' = head /\ Batch' = Batch
        BY <2>1, <2>2 DEF Batch, kernelVars
      <4>2. KernelOf(k)
        BY <2>1, <3>1, <4>1 DEF KernelOf
      <4>3. KernelInv(k)
        BY <2>5, <3>1, <4>2 DEF Attending
      <4>4. QED
        BY <2>2, <4>3, KernelStutters
    <3>2. head' = head
      BY <2>2 DEF kernelVars
    <3>3. QED
      BY <2>1, <2>5, <3>1, <3>2 DEF Attending, Attended
  <2>6. QED
    BY <2>1, <2>3, <2>4, <2>5 DEF DecodeInv
<1>11. QED
  BY <1>1, <1>2, <1>3, <1>4, <1>5, <1>6, <1>7, <1>8, <1>9, <1>10, RunChunkDecodes,
     LaunchDecodes, ThreadsDecode, CollectDecodes
     DEF Next, HostFields

(* No kernel runs but while a pipeline attends.                            *)
LEMMA StepIdle ==
    ASSUME IdleInv, DecodeInv, [Next]_vars
    PROVE  IdleInv'
<1> DEFINE Still == /\ UNCHANGED <<head, at>>
                    /\ stage' = stage
                    /\ UNCHANGED <<selected, outputs, merged>>
           Late == /\ stage' \notin {"start", "created", "stored", "read", "constructed"}
                   /\ UNCHANGED <<head, at>> /\ (head # 0 => stage' = "attending")
<1>1. ASSUME Still
      PROVE  IdleInv'
  BY <1>1 DEF IdleInv
<1>2. ASSUME Late
      PROVE  IdleInv'
  BY <1>2 DEF IdleInv
<1>3. ASSUME NEW s, NEW k, NEW v, CreateStore(s, k, v)
      PROVE  IdleInv'
  <2>1. /\ stage = "start" /\ stage' \in {"created", "failed"}
        /\ UNCHANGED <<selected, outputs, merged, head, at>>
    BY <1>3 DEF CreateStore, Idle, kernelVars, workVars
  <2>2. QED
    BY <2>1 DEF IdleInv
<1>4. ASSUME NEW b, NEW field, DamageRecord(b, field)
      PROVE  Still
  BY <1>4 DEF DamageRecord, Idle, kernelVars, workVars
<1>5. ASSUME NEW selector, NEW s, NEW onPath, Read(selector, s, onPath)
      PROVE  IdleInv'
  <2>1. /\ stage = "created" /\ UNCHANGED <<outputs, merged, head, at>>
    BY <1>5 DEF Read, Idle, kernelVars, workVars
  <2>2. stage' \in {"raised", "refused", "read"}
    BY <1>5, Zenon DEF Read
  <2>3. QED
    BY <2>1, <2>2 DEF IdleInv
<1>6. ASSUME NEW requested, NEW require, NEW device, NEW extension, NEW triton,
             Construct(requested, require, device, extension, triton)
      PROVE  IdleInv'
  <2>1. /\ stage = "read" /\ stage' = "constructed" /\ UNCHANGED <<outputs, merged, head, at>>
    BY <1>6 DEF Construct, Idle, kernelVars, workVars
  <2>2. QED
    BY <2>1 DEF IdleInv
<1>7. ASSUME NEW q, NEW size, Attend(q, size)
      PROVE  Late
  BY <1>7 DEF Attend, Idle, kernelVars, IdleInv
<1>8. ASSUME RunChunk
      PROVE  Late
  <2>1. UNCHANGED <<head, at>> /\ head = 0
    <3>1. PICK e : Attending(e)
      BY <1>8 DEF DecodeInv, RunChunk
    <3>2. QED
      BY <1>8, <3>1 DEF RunChunk, Attending, Idle, kernelVars
  <2>2. stage' \in {"raised", "done", "attending"}
    <3>1. CASE stage' = "raised"
      BY <3>1
    <3>2. CASE stage' # "raised"
      BY <1>8, <3>2, Zenon DEF RunChunk, MergeChunk
    <3>3. QED
      BY <3>1, <3>2
  <2>3. QED
    BY <2>1, <2>2
<1>9. ASSUME LaunchHead
      PROVE  IdleInv'
  <2>1. CASE CudaAccepts(query, Batch)
    <3>1. stage' = "attending" /\ head' = Len(outputs) + 1
      BY <1>9, <2>1 DEF LaunchHead, Launch
    <3>2. Len(outputs) \in Nat
      <4>1. PICK e : Attending(e)
        BY <1>9 DEF LaunchHead, DecodeInv
      <4>2. PICK R : outputs \in Seq(R)
        BY <4>1 DEF Attending
      <4>3. QED
        BY <4>2
    <3>3. head' # 0
      BY <3>1, <3>2
    <3>4. QED
      BY <3>1, <3>3 DEF IdleInv
  <2>2. CASE ~CudaAccepts(query, Batch)
    <3>1. stage' = "raised" /\ head = 0 /\ UNCHANGED <<head, at>>
      BY <1>9, <2>2 DEF LaunchHead, Idle, kernelVars
    <3>2. QED
      BY <3>1 DEF IdleInv
  <2>3. QED
    BY <2>1, <2>2
<1>10. ASSUME RunThreads
       PROVE  IdleInv'
  <2>1. stage' = "attending" /\ head # 0
    BY <1>10 DEF RunThreads
  <2>2. head' = head
    BY <1>10 DEF RunThreads, KernelStep, Released, Partial, Add, State, Weigh
  <2>3. QED
    BY <2>1, <2>2 DEF IdleInv
<1>11. ASSUME CollectHead
       PROVE  IdleInv'
  <2>1. at # <<>>
    BY <1>11 DEF CollectHead, Stored, Tids
  <2>2. stage = "attending"
    BY <2>1 DEF IdleInv
  <2>3. stage' \in {stage, "done", "attending"}
    BY <1>11, Zenon DEF CollectHead, MergeChunk
  <2>4. head' = 0 /\ at' = <<>>
    BY <1>11 DEF CollectHead
  <2>5. QED
    BY <2>2, <2>3, <2>4 DEF IdleInv
<1>12. ASSUME NEW c, NEW v, StoreBlock(c, v)
       PROVE  IdleInv'
  <2>1. /\ stage = "start" /\ stage' \in {"stored", "failed"}
        /\ UNCHANGED <<selected, outputs, merged, head, at>>
    BY <1>12 DEF StoreBlock, Idle, kernelVars, workVars
  <2>2. QED
    BY <2>1 DEF IdleInv
<1>13. ASSUME NEW field, DamageBlock(field)
       PROVE  Still
  BY <1>13 DEF DamageBlock, Idle, kernelVars, workVars
<1>14. ASSUME NEW c, LoadBlock(c)
       PROVE  Late
  <2>1. stage = "stored" /\ UNCHANGED <<head, at>>
    BY <1>14 DEF LoadBlock, Idle, kernelVars
  <2>2. stage' \in {"absent", "loaded", "refused"}
    BY <1>14, Zenon DEF LoadBlock
  <2>3. QED
    BY <2>1, <2>2 DEF IdleInv
<1>15. CASE UNCHANGED vars
  <2>1. UNCHANGED <<stage, selected, outputs, merged, head, at>>
    BY <1>15 DEF vars, dataVars, workVars, kernelVars
  <2>2. QED
    BY <2>1 DEF IdleInv
<1> HIDE DEF Still, Late
<1>16. QED
  BY <1>1, <1>2, <1>3, <1>4, <1>5, <1>6, <1>7, <1>8, <1>9, <1>10, <1>11, <1>12, <1>13, <1>14,
     <1>15
     DEF Next

(***************************************************************************)
(* The types.                                                              *)
(***************************************************************************)
Stages == {"start", "created", "failed", "raised", "refused", "read", "constructed",
           "attending", "done", "stored", "absent", "loaded"}

(* The types that no invariant of a stage is needed for.                   *)
PlainTypes ==
    /\ stage \in Stages
    /\ damage \in {"none"} \cup HostFields \cup BlockFields
    /\ reader # <<>> => reader.path \in {"host", "device", "vllm"}
    /\ backend \in AttentionBackends \cup {NoBackend} /\ streamed \in BOOLEAN
    /\ \A b \in DOMAIN selected : /\ selected[b] \in 0..(Len(records) - 1)
                                  /\ \A c \in DOMAIN selected \ {b} : selected[c] # selected[b]
    /\ Len(query) \in Nat

(* A read selects blocks of the store, each once.                          *)
LEMMA ReadSelects ==
    ASSUME MediumInv, NEW selector \in Selectors, NEW s, NEW onPath, Read(selector, s, onPath)
    PROVE  \A b \in DOMAIN selected' :
              /\ selected'[b] \in 0..(Len(records') - 1)
              /\ \A c \in DOMAIN selected' \ {b} : selected'[c] # selected'[b]
<1>1. StoreKept /\ records' = records
  BY DEF Read, MediumInv
<1>2. PICK n : n = BlockCount(Len(keys), spec)
  OBVIOUS
<1>3. n \in Nat /\ Len(records) = n
  <2>1. spec.block_tokens \in Nat \ {0} /\ Len(keys) \in Nat
    BY <1>1, SizesAre DEF StoreKept
  <2>2. QED
    BY <1>1, <1>2, <2>1 DEF StoreKept, BlockCount
<1>4. PICK ids : ids = Select(selector, Ids(n))
  OBVIOUS
<1>5. ids \in Seq(0..(n - 1)) /\ Distinct(ids)
  BY <1>3, <1>4, SelectGivesIds
<1>6. selected' = ids
  <2>1. [b \in DOMAIN records |-> b - 1] = Ids(n)
    BY <1>1, <1>3 DEF StoreKept, Ids
  <2>2. QED
    BY <1>4, <2>1 DEF Read
<1>7. DOMAIN ids = 1..Len(ids)
  BY <1>5
<1>8. QED
  BY <1>1, <1>3, <1>5, <1>6, <1>7 DEF Distinct

(* The backend of a pipeline.                                              *)
LEMMA ConstructTypes ==
    ASSUME NEW requested \in AttentionBackends \cup {"auto"}, NEW require, NEW device,
           NEW extension, NEW triton, Construct(requested, require, device, extension, triton)
    PROVE  backend' \in AttentionBackends \cup {NoBackend} /\ streamed' \in BOOLEAN
<1> DEFINE name   == IF require THEN "cuda" ELSE requested
           chosen == IF require /\ requested \notin {"auto", "cuda"} THEN NoBackend
                     ELSE Resolve(name, AttentionOrder(device), AttentionBackends,
                                  Available(device, extension, triton))
<1>1. chosen \in AttentionBackends \cup {NoBackend}
  <2>1. CASE name = "auto"
    <3>1. Resolve(name, AttentionOrder(device), AttentionBackends,
                  Available(device, extension, triton)) \in AttentionBackends
      BY <2>1, AutoResolve
    <3>2. QED
      BY <3>1
  <2>2. CASE name # "auto"
    <3>1. Resolve(name, AttentionOrder(device), AttentionBackends,
                  Available(device, extension, triton)) \in {name, NoBackend}
      BY <2>2, NamedResolve
    <3>2. name \in AttentionBackends
      BY <2>2 DEF AttentionBackends
    <3>3. QED
      BY <3>1, <3>2
  <2>3. QED
    BY <2>1, <2>2
<1>2. backend' = chosen
  BY DEF Construct
<1>3. streamed' \in BOOLEAN
  BY Zenon DEF Construct
<1>4. QED
  BY <1>1, <1>2, <1>3

(* Every step keeps them.                                                  *)
LEMMA StepPlain ==
    ASSUME PlainTypes, IdleInv, DecodeInv, MediumInv, [Next]_vars
    PROVE  PlainTypes'
<1> DEFINE Picks == \A b \in DOMAIN selected :
                       /\ selected[b] \in 0..(Len(records) - 1)
                       /\ \A c \in DOMAIN selected \ {b} : selected[c] # selected[b]
           Kept == UNCHANGED <<damage, selected, reader, backend, streamed, query>>
           Same == UNCHANGED <<records>> /\ Kept
<1>1. ASSUME stage' \in Stages, Same
      PROVE  PlainTypes'
  BY <1>1 DEF PlainTypes
<1>2. ASSUME stage' \in Stages, selected = <<>>, selected' = <<>>, UNCHANGED <<reader,
       planVars, query>>,
             damage' = damage \/ damage' \in HostFields \cup BlockFields
      PROVE  PlainTypes'
  <2>1. DOMAIN selected' = {}
    BY <1>2
  <2>2. backend' = backend /\ streamed' = streamed
    BY <1>2 DEF planVars
  <2>3. QED
    BY <1>2, <2>1, <2>2 DEF PlainTypes
<1>3. ASSUME NEW s, NEW k, NEW v, CreateStore(s, k, v)
      PROVE  PlainTypes'
  <2>1. /\ stage = "start" /\ stage' \in {"created", "failed"}
        /\ UNCHANGED <<selected, reader, planVars, query, damage>>
    BY <1>3 DEF CreateStore, workVars
  <2>2. QED
    BY <1>2, <2>1 DEF IdleInv, Stages
<1>4. ASSUME NEW b, NEW field \in HostFields, DamageRecord(b, field)
      PROVE  PlainTypes'
  <2>1. /\ stage = "created" /\ stage' = "created" /\ damage' = field
        /\ UNCHANGED <<selected, reader, planVars, query>>
    BY <1>4 DEF DamageRecord, workVars
  <2>2. QED
    BY <1>2, <2>1 DEF IdleInv, Stages
<1>5. ASSUME NEW selector \in Selectors, NEW s, NEW onPath \in {"host", "device"},
             Read(selector, s, onPath)
      PROVE  PlainTypes'
  <2>1. \A b \in DOMAIN selected' :
           /\ selected'[b] \in 0..(Len(records') - 1)
           /\ \A c \in DOMAIN selected' \ {b} : selected'[c] # selected'[b]
    BY <1>5, ReadSelects
  <2>2. stage' \in {"raised", "refused", "read"}
    BY <1>5, Zenon DEF Read
  <2>3. reader' = [path |-> onPath, spec |-> s] /\ UNCHANGED <<damage, planVars, query>>
    BY <1>5 DEF Read, workVars
  <2>4. reader'.path \in {"host", "device", "vllm"} /\ backend' = backend
                                                         /\ streamed' = streamed
    BY <2>3 DEF planVars
  <2>5. QED
    BY <2>1, <2>2, <2>3, <2>4 DEF PlainTypes, Stages
<1>6. ASSUME NEW requested \in AttentionBackends \cup {"auto"}, NEW require, NEW device,
             NEW extension, NEW triton, Construct(requested, require, device, extension,
                    triton)
      PROVE  PlainTypes'
  <2>1. backend' \in AttentionBackends \cup {NoBackend} /\ streamed' \in BOOLEAN
    BY <1>6, ConstructTypes
  <2>2. /\ stage' = "constructed"
        /\ UNCHANGED <<records, damage, selected, reader, query>>
    BY <1>6 DEF Construct, dataVars, workVars
  <2>3. QED
    BY <2>1, <2>2 DEF PlainTypes, Stages
<1>7. ASSUME NEW q \in Queries(spec), NEW size, Attend(q, size)
      PROVE  PlainTypes'
  <2>1. /\ stage = "constructed" /\ stage' = "attending" /\ query' = q
        /\ UNCHANGED <<records, damage, selected, reader, backend, streamed>>
    BY <1>7 DEF Attend, dataVars
  <2>2. Len(q) \in Nat
    <3>1. spec \in {r \in Specs : CreateAccepts(r)}
      BY <2>1 DEF DecodeInv, ExactRead, BlocksRead, StoreOf
    <3>2. \A r \in Queries(spec) : r \in Seq([1..spec.head_dim -> Int]) \ {<<>>}
      BY <3>1, ExactAssumption, Zenon
    <3>3. q \in Seq([1..spec.head_dim -> Int])
      BY <3>2
    <3>4. QED
      BY <3>3
  <2>3. QED
    BY <2>1, <2>2 DEF PlainTypes, Stages
<1>8. ASSUME RunChunk
      PROVE  PlainTypes'
  <2>1. stage' \in Stages
    <3>1. CASE stage' = "raised"
      BY <3>1 DEF Stages
    <3>2. CASE stage' # "raised"
      <4>1. stage' \in {"done", "attending"}
        BY <1>8, <3>2, Zenon DEF RunChunk, MergeChunk
      <4>2. QED
        BY <4>1 DEF Stages
    <3>3. QED
      BY <3>1, <3>2
  <2>2. Same
    BY <1>8 DEF RunChunk, dataVars, planVars
  <2>3. QED
    BY <1>1, <2>1, <2>2
<1>9. ASSUME LaunchHead
      PROVE  PlainTypes'
  <2>1. stage' \in {stage, "raised"}
    BY <1>9 DEF LaunchHead
  <2>2. stage' \in Stages /\ Same
    BY <1>9, <2>1 DEF LaunchHead, dataVars, planVars, workVars, PlainTypes, Stages
  <2>3. QED
    BY <1>1, <2>2
<1>10. ASSUME RunThreads
       PROVE  PlainTypes'
  <2>1. stage' \in Stages /\ Same
    BY <1>10 DEF RunThreads, dataVars, planVars, workVars, PlainTypes
  <2>2. QED
    BY <1>1, <2>1
<1>11. ASSUME CollectHead
       PROVE  PlainTypes'
  <2>1. stage' \in {stage, "done", "attending"}
    BY <1>11, Zenon DEF CollectHead, MergeChunk
  <2>2. Same
    BY <1>11 DEF CollectHead, dataVars, planVars
  <2>3. stage' \in Stages
    BY <2>1 DEF PlainTypes, Stages
  <2>4. QED
    BY <1>1, <2>2, <2>3
<1>12. ASSUME NEW c, NEW v, StoreBlock(c, v)
       PROVE  PlainTypes'
  <2>1. /\ stage = "start" /\ stage' \in {"stored", "failed"}
        /\ UNCHANGED <<selected, reader, planVars, query, damage>>
    BY <1>12 DEF StoreBlock, workVars
  <2>2. QED
    BY <1>2, <2>1 DEF IdleInv, Stages
<1>13. ASSUME NEW field \in BlockFields, DamageBlock(field)
       PROVE  PlainTypes'
  <2>1. /\ stage = "stored" /\ stage' = "stored" /\ damage' = field
        /\ UNCHANGED <<selected, reader, planVars, query>>
    BY <1>13 DEF DamageBlock, workVars
  <2>2. QED
    BY <1>2, <2>1 DEF IdleInv, Stages
<1>14. ASSUME NEW c, LoadBlock(c)
       PROVE  PlainTypes'
  <2>1. stage' \in {"absent", "loaded", "refused"}
    BY <1>14, Zenon DEF LoadBlock
  <2>2. /\ reader' = [path |-> "vllm", spec |-> c]
        /\ UNCHANGED <<records, damage, selected, planVars, query>>
    BY <1>14 DEF LoadBlock, workVars
  <2>3. reader'.path \in {"host", "device", "vllm"} /\ backend' = backend
                                                         /\ streamed' = streamed
    BY <2>2 DEF planVars
  <2>4. QED
    BY <2>1, <2>2, <2>3 DEF PlainTypes, Stages
<1>15. CASE UNCHANGED vars
  <2>1. stage' = stage /\ Same
    BY <1>15 DEF vars, dataVars, planVars, workVars
  <2>2. QED
    BY <1>1, <2>1 DEF PlainTypes
<1>16. QED
  BY <1>3, <1>4, <1>5, <1>6, <1>7, <1>8, <1>9, <1>10, <1>11, <1>12, <1>13, <1>14, <1>15
     DEF Next, HostFields, BlockFields

(* The kernel's variables are of their types, as the kernel of some        *)
(* numbers has them.                                                       *)
LEMMA KernelTyped ==
    ASSUME PlainTypes, IdleInv, DecodeInv
    PROVE  /\ head \in 0..Len(query)
           /\ \A i \in Tids : /\ at[i].next \in {"partial", "add", "state", "weigh", "store"}
                              /\ acc[i] \in Int \cup {NaN} /\ reduce[i] \in Int \cup {NaN}
<1>1. CASE head = 0
  <2>1. Tids = {}
    BY <1>1 DEF IdleInv, Tids
  <2>2. QED
    BY <1>1, <2>1 DEF PlainTypes
<1>2. CASE head # 0
  <2>1. stage = "attending" /\ ExactRead /\ query \in Queries(spec)
    BY <1>2 DEF IdleInv, DecodeInv
  <2>2. PICK e : Attending(e)
    BY <2>1 DEF DecodeInv
  <2>3. /\ Offsets(e, chunks, blocks) /\ head = Len(outputs) + 1
        /\ Len(outputs) < Len(query) /\ \E R : outputs \in Seq(R)
        /\ Len(query) % spec.kv_heads = 0 /\ spec.head_dim <= 256
    BY <1>2, <2>2 DEF Attending
  <2>4. query \in Seq([1..spec.head_dim -> Int])
    BY <2>1, <2>3, ChunkAccepted
  <2>5. head \in DOMAIN query /\ head \in 0..Len(query)
    BY <2>3, <2>4
  <2>6. \E u : HeadOf(u, spec, InUnits(keys, spec), InUnits(values, spec), selected, query, head)
    <3>1. PICK s, ks, vs, ids, q, h : /\ s = spec /\ ks = InUnits(keys, spec) /\ vs = InUnits(values, spec) /\ ids = selected
                                      /\ q = query /\ h = head
      OBVIOUS
    <3>2. /\ Chosen(s, ks, vs, ids) /\ q \in Queries(s) /\ Len(q) % s.kv_heads = 0
          /\ h \in DOMAIN q
      BY <2>1, <2>3, <2>5, <3>1, ReadChosen
    <3>3. \E u : HeadOf(u, s, ks, vs, ids, q, h)
      BY ONLY <3>2, HeadExists
    <3>4. QED
      BY <3>1, <3>3
  <2>7. PICK k : KernelOf(k)
    BY <2>1, <2>3, <2>5, <2>6, HeadKernel
  <2>8. KernelInv(k)
    BY <1>2, <2>2, <2>7 DEF Attending
  <2>9. /\ Numbers(k) /\ Tids = Threads(k)
        /\ \A i \in Tids : at[i].next \in {"partial", "add", "state", "weigh", "store"}
    BY <2>8, KernelTypes
  <2>10. QED
    BY <2>5, <2>9 DEF Numbers
<1>3. QED
  BY <1>1, <1>2

(* An undamaged record says how long its payload is.                       *)
LEMMA LengthsKept ==
    ASSUME MediumInv, stage = "created", damage = "none", NEW b \in DOMAIN records
    PROVE  records[b].length = PayloadBytes(spec)
<1>1. StoreKept
  BY DEF MediumInv
<1>2. PICK block : block = CreateBlock(keys, values, 0, b - 1, spec)
  OBVIOUS
<1>3. records[b] = EncodeRecord(block, spec)
  BY <1>1, <1>2 DEF StoreKept, OnMedium, HostFields
<1>4. ScaleCount(spec) \in Nat /\ PackedCount(spec) \in Nat /\ Fits(block, spec)
  BY <1>1, <1>2, AcceptedFits DEF StoreKept
<1>5. QED
  BY <1>3, <1>4, EncodedBegins

(* Together they are the type invariant.                                   *)
LEMMA TypesHold ==
    ASSUME PlainTypes, IdleInv, DecodeInv, MediumInv
    PROVE  TypeOK
<1>1. stage = "created" /\ damage = "none" =>
         \A b \in DOMAIN records : records[b].length = PayloadBytes(spec)
  BY LengthsKept
<1>2. /\ head \in 0..Len(query)
      /\ \A i \in Tids : /\ at[i].next \in {"partial", "add", "state", "weigh", "store"}
                         /\ acc[i] \in Int \cup {NaN} /\ reduce[i] \in Int \cup {NaN}
  BY KernelTyped
<1>3. damage \in {"none", "magic", "version", "layer", "block", "valid", "layout", "length",
                  "crc", "bytes", "cut", "bits", "dtype", "group", "elements"}
  BY DEF PlainTypes, HostFields, BlockFields
<1>4. QED
  BY <1>1, <1>2, <1>3 DEF TypeOK, PlainTypes, Stages

(* A complete result is the attention that is wanted.                      *)
LEMMA CompleteExact ==
    ASSUME DecodeInv, stage = "done", NEW h \in DOMAIN query
    PROVE  /\ merged[h].den # NaN /\ merged[h].den > 0
           /\ merged[h].lse = Wanted(h).den
           /\ \A d \in 1..spec.head_dim :
                 /\ merged[h].num[d] # NaN
                 /\ merged[h].num[d] * Wanted(h).den = Wanted(h).num[d] * merged[h].den
<1>1. /\ ExactRead /\ query \in Queries(spec) /\ Len(query) % spec.kv_heads = 0
      /\ Attended(merged[h], h, 0, Len(selected))
  BY DEF DecodeInv, Complete
<1>2. Chosen(spec, InUnits(keys, spec), InUnits(values, spec), selected) /\ Len(selected) \in Nat
  BY <1>1, ReadChosen
<1>3. \E u : HeadOf(u, spec, InUnits(keys, spec), InUnits(values, spec), selected, query, h)
  <2>1. PICK s, ks, vs, ids, q : /\ s = spec /\ ks = InUnits(keys, spec) /\ vs = InUnits(values, spec) /\ ids = selected
                                 /\ q = query
    OBVIOUS
  <2>2. Chosen(s, ks, vs, ids) /\ q \in Queries(s) /\ Len(q) % s.kv_heads = 0 /\ h \in DOMAIN q
    BY <1>1, <1>2, <2>1
  <2>3. \E u : HeadOf(u, s, ks, vs, ids, q, h)
    BY ONLY <2>2, HeadExists
  <2>4. QED
    BY <2>1, <2>3
<1>4. PICK u : HeadOf(u, spec, InUnits(keys, spec), InUnits(values, spec), selected, query, h)
  BY <1>3
<1>5. PICK dim, n : dim = spec.head_dim /\ n = Len(selected)
  OBVIOUS
<1>6. u.n = n /\ u.s = spec /\ HeadSums(u) /\ n \in Nat
  BY <1>2, <1>4, <1>5 DEF HeadOf
<1>7. PICK W, X : W = u.w[u.c[n]] /\ X = u.x[u.c[n]]
  OBVIOUS
<1>8. /\ u.c[0] = 0 /\ u.c[n] \in Nat
      /\ u.w[0] = 0 /\ W \in Int /\ X \in [1..dim -> Int] /\ \A d \in 1..dim : u.x[0][d] = 0
  <2>1. Counts(u.c, [m \in 1..u.n |-> Valid(u, m)], u.n)
    BY <1>6 DEF HeadSums
  <2>2. u.c[0] = 0 /\ u.c[n] \in Nat
    BY <1>6, <2>1 DEF Counts
  <2>3. PICK N : N = u.c[n]
    OBVIOUS
  <2>4. Sums(u.w, u.x, u.S, u.V, N, dim)
    BY <1>5, <1>6, <2>3 DEF HeadSums
  <2>5. /\ u.w \in [0..N -> Int] /\ u.w[0] = 0
        /\ u.x \in [0..N -> [1..dim -> Int]] /\ \A d \in 1..dim : u.x[0][d] = 0
    BY <2>4 DEF Sums
  <2>6. N \in 0..N
    BY <2>2, <2>3
  <2>7. QED
    BY <1>7, <2>2, <2>3, <2>5, <2>6
<1>9. WeightOf(u, 0, n) = W
  BY <1>6, <1>7, <1>8 DEF WeightOf
<1>10. ASSUME NEW d \in 1..dim
       PROVE  NumeratorOf(u, 0, n)[d] = X[d]
  <2>1. NumeratorOf(u, 0, n)[d] = X[d] - u.x[0][d]
    BY <1>5, <1>6, <1>7, <1>8 DEF NumeratorOf
  <2>2. X[d] \in Int /\ u.x[0][d] = 0
    BY <1>8
  <2>3. QED
    BY <2>1, <2>2
<1>11. PICK r : r = merged[h]
  OBVIOUS
<1>12. Attends(r, WeightOf(u, 0, n), NumeratorOf(u, 0, n), dim)
  BY <1>1, <1>4, <1>5, <1>11 DEF Attended, PartAttends
<1>13. /\ r.den \in Int /\ r.lse = W /\ r.den > 0
       /\ \A d \in 1..dim : r.num[d] \in Int /\ r.num[d] * W = X[d] * r.den
  <2>1. Len(selected) # 0
    BY <1>1 DEF ExactRead, BlocksRead
  <2>2. n \in Nat \ {0} /\ 0 + n <= Len(selected)
    BY <1>5, <1>6, <2>1
  <2>3. WeightOf(u, 0, n) \in Nat \ {0}
    BY <1>2, <1>4, <2>2, PartWeighs
  <2>4. W > 0
    BY <1>9, <2>3
  <2>5. QED
    BY <1>9, <1>10, <1>12, <2>4 DEF Attends
<1>14. Wanted(h).den = W /\ \A d \in 1..dim : Wanted(h).num[d] = X[d]
  <2>1. /\ Wanted(h).den = u.w[u.c[u.n]]
        /\ \A d \in 1..spec.head_dim : Wanted(h).num[d] = u.x[u.c[u.n]][d]
    BY <1>1, <1>2, <1>4, WantedIs
  <2>2. QED
    BY <1>5, <1>6, <1>7, <2>1
<1>15. NaN \notin Int
  BY Special
<1>16. QED
  BY <1>5, <1>11, <1>13, <1>14, <1>15

(* What is known of the decode is the property.                            *)
LEMMA DecodeExact ==
    ASSUME DecodeInv
    PROVE  AttentionExact
<1>1. stage = "raised" => \/ selected = <<>>
                          \/ Len(query) % spec.kv_heads # 0
                          \/ (spec.head_dim > 256 /\ backend # "reference")
  BY DEF DecodeInv, Refusal
<1>2. QED
  BY <1>1, CompleteExact, Zenon DEF AttentionExact

(* Nothing has happened.                                                   *)
LEMMA InitKeeps ==
    ASSUME Init
    PROVE  /\ MediumInv /\ DamageDetected /\ TensorsKept
           /\ IdleInv /\ DecodeInv /\ PlainTypes
<1>1. MediumInv /\ DamageDetected /\ TensorsKept
  BY DEF Init, MediumInv, DamageDetected, TensorsKept
<1>2. IdleInv /\ DecodeInv
  BY DEF Init, KernelIdle, IdleInv, DecodeInv
<1>3. PlainTypes
  <2>1. /\ stage = "start" /\ damage = "none" /\ reader = <<>> /\ backend = NoBackend
        /\ streamed = FALSE /\ DOMAIN selected = {} /\ Len(query) = 0
    BY DEF Init
  <2>2. /\ stage \in Stages /\ damage \in {"none"} \cup HostFields \cup BlockFields
        /\ backend \in AttentionBackends \cup {NoBackend} /\ Len(query) \in Nat
    BY <2>1 DEF Stages
  <2>3. streamed \in BOOLEAN
    BY DEF Init
  <2>4. QED
    BY <2>1, <2>2, <2>3, Zenon DEF PlainTypes
<1>4. QED
  BY <1>1, <1>2, <1>3

(* What the states of the lane have in common.                             *)
LEMMA LaneInvariant ==
    Spec => [](/\ MediumInv /\ DamageDetected /\ TensorsKept
               /\ IdleInv /\ DecodeInv /\ PlainTypes)
<1>1. Init => /\ MediumInv /\ DamageDetected /\ TensorsKept
              /\ IdleInv /\ DecodeInv /\ PlainTypes
  BY InitKeeps
<1>2. MediumInv /\ DamageDetected /\ [Next]_vars => MediumInv' /\ DamageDetected'
  BY StepMedium
<1>3. MediumInv /\ DamageDetected' /\ TensorsKept /\ [Next]_vars => TensorsKept'
  BY StepTensors
<1>4. IdleInv /\ DecodeInv /\ [Next]_vars => IdleInv'
  BY StepIdle
<1>5. DecodeInv /\ IdleInv /\ MediumInv /\ TensorsKept' /\ [Next]_vars => DecodeInv'
  BY StepDecode
<1>6. PlainTypes /\ IdleInv /\ DecodeInv /\ MediumInv /\ [Next]_vars => PlainTypes'
  BY StepPlain
<1>7. QED
  BY <1>1, <1>2, <1>3, <1>4, <1>5, <1>6, PTL DEF Spec

(* The types of the lane.  The kernel's numbers are numbers.               *)
THEOREM DataPathTypes == Spec => []TypeOK
<1>1. PlainTypes /\ IdleInv /\ DecodeInv /\ MediumInv => TypeOK
  BY TypesHold
<1>2. QED
  BY <1>1, LaneInvariant, PTL

(* Whatever backend a pipeline resolved, streamed in chunks of any size or *)
(* in one piece, and in whatever order the threads of the CUDA kernel run  *)
(* between their barriers, decode returns the softmax attention over the   *)
(* selected tokens, and the log normalizer chunks are merged by            *)
(* (pipeline.py: decode, attention.py, csrc/fused_decode.cu).              *)
THEOREM DecodeIsExact == Spec => []AttentionExact
<1>1. DecodeInv => AttentionExact
  BY DecodeExact
<1>2. QED
  BY <1>1, LaneInvariant, PTL
================================================================================
