----------------------------- MODULE Store_proofs -----------------------------
(***************************************************************************)
(* Proofs about Store, for any threads, descriptors, shapes and bounds:    *)
(* the lock of the seek fallback, the descriptors of the data file, and    *)
(* what its reads return.  The file is described page by page: a page that *)
(* a power loss spared stands where its create put it (FileInv).  A read   *)
(* copies pages of its entry's place (BytesOK), through a descriptor that  *)
(* is open on the data file from the read's first step to its last.        *)
(***************************************************************************)
EXTENDS Store, FiniteSetTheorems, SequenceTheorems, TLAPS

(***************************************************************************)
(* The inductive invariant.                                                *)
(***************************************************************************)
(* Where the functions and records of the state are defined. *)
Shaped ==
    /\ io = [t \in Threads |-> io[t]]
    /\ \A t \in Threads : io[t] = [pc |-> io[t].pc, create |-> io[t].create,
                                   record |-> io[t].record, fd |-> io[t].fd,
                                   checked |-> io[t].checked, got |-> io[t].got,
                                   result |-> io[t].result]
    /\ table = [f \in Fds |-> table[f]]
    /\ lock \in Threads \cup {NoThread}
    /\ preadv \in BOOLEAN

(* A manifest is of a create that was made. *)
ManifestMade ==
    /\ made \in Seq(Shapes)
    /\ stage # "idle" => Len(made) > 0
    /\ manifest # 0

(* Nothing reads without a store, and there is no backend. *)
QuietWithoutStore ==
    store = 0 => kind = "none" /\ fd = NoFd /\ \A t \in Threads : io[t].pc = "idle"

(* What the place of a read says about backend and platform. *)
ReadsByKind ==
    /\ kind = "gds" => preadv
    /\ \A t \in Threads :
          /\ io[t].pc \in {"lock", "seek"} => ~preadv
          /\ io[t].pc \in {"make", "take", "read"} => preadv
          /\ io[t].pc \in {"make", "take"} => kind = "gds"
          /\ io[t].pc \in {"idle", "open", "make", "take", "returns"} => io[t].fd = NoFd

IInv ==
    /\ Shaped /\ ManifestMade /\ QuietWithoutStore /\ ReadsByKind
    /\ SeekRegionExclusive /\ NoDescriptorLeak

(***************************************************************************)
(* Resolution.                                                             *)
(***************************************************************************)
(* gds is chosen only where it was probed, which needs Linux. *)
LEMMA GdsMeansPreadv ==
    ASSUME NEW requested, NEW platform \in BOOLEAN, NEW cuda \in BOOLEAN,
           Resolve(requested, StorageOrder, StorageBackends, Probed(platform, cuda)) = "gds",
           NoBackend # "gds"
    PROVE  platform
<1> DEFINE available == Probed(platform, cuda)
           usable == {n \in 1..Len(StorageOrder) :
                        StorageOrder[n] \in StorageBackends \cap available}
           first == CHOOSE n \in usable : \A m \in usable : n <= m
<1>1. CASE requested # "auto" /\ requested \in StorageBackends \cap available
  <2>1. requested = "gds"
    BY <1>1 DEF Resolve
  <2>2. QED
    BY <2>1, <1>1 DEF Probed
<1>2. CASE requested = "auto" /\ usable # {}
  <2>1. usable \subseteq 1..3
    BY DEF StorageOrder
  <2>2. \E n \in usable : \A m \in usable : n <= m
    <3>1. CASE 1 \in usable
      BY <3>1, <2>1
    <3>2. CASE 1 \notin usable /\ 2 \in usable
      <4>1. \A m \in usable : 2 <= m
        BY <3>2, <2>1
      <4>2. QED
        BY <4>1, <3>2
    <3>3. CASE 1 \notin usable /\ 2 \notin usable
      <4>1. \A m \in usable : m = 3
        BY <3>3, <2>1
      <4>2. QED
        BY <4>1, <1>2
    <3>4. QED
      BY <3>1, <3>2, <3>3
  <2>3. first \in usable
    BY <2>2
  <2>4. StorageOrder[first] = "gds"
    BY <1>2 DEF Resolve
  <2>5. "gds" \in available
    BY <2>3, <2>4
  <2>6. QED
    BY <2>5 DEF Probed
<1>3. CASE ~(requested # "auto" /\ requested \in StorageBackends \cap available)
           /\ ~(requested = "auto" /\ usable # {})
  BY <1>3 DEF Resolve
<1>4. QED
  BY <1>1, <1>2, <1>3

(***************************************************************************)
(* The steps of create.                                                    *)
(***************************************************************************)
LEMMA CreateKeeps ==
    ASSUME IInv, CreateNext, UNCHANGED <<storageVars, sessionVars>>
    PROVE  IInv'
<1> USE DEF storageVars, sessionVars
<1>1. Shaped' /\ QuietWithoutStore' /\ ReadsByKind'
  BY DEF IInv, Shaped, QuietWithoutStore, ReadsByKind
<1>2. SeekRegionExclusive' /\ NoDescriptorLeak'
  BY DEF IInv, SeekRegionExclusive, NoDescriptorLeak
<1>3. ManifestMade'
  <2> USE DEF IInv, ManifestMade
  <2>1. ASSUME NEW s \in Shapes, CreateBegins(s)
        PROVE  ManifestMade'
    BY <2>1 DEF CreateBegins
  <2>2. CASE WriteRecord
    BY <2>2 DEF WriteRecord
  <2>3. CASE FlushPage
    BY <2>3 DEF FlushPage
  <2>4. CASE CloseOutput
    BY <2>4 DEF CloseOutput
  <2>5. CASE TruncateManifest
    BY <2>5, ShapesAssumption DEF TruncateManifest
  <2>6. CASE SaveManifest
    BY <2>6 DEF SaveManifest
  <2>7. CASE CreateStops
    BY <2>7 DEF CreateStops
  <2>8. QED
    BY <2>1, <2>2, <2>3, <2>4, <2>5, <2>6, <2>7 DEF CreateNext
<1>4. QED
  BY <1>1, <1>2, <1>3 DEF IInv

(***************************************************************************)
(* The steps of a read.                                                    *)
(***************************************************************************)
Kept == Shaped' /\ ReadsByKind' /\ SeekRegionExclusive' /\ NoDescriptorLeak'

(* A read that is over, with a result or raised, holds nothing: not the    *)
(* lock and no descriptor that only it referred to.                        *)
LEMMA EndsKeeps ==
    ASSUME IInv, NEW t \in Threads, NEW result, Ends(t, result),
           UNCHANGED <<kind, preadv, fd>>
    PROVE  Kept
<1> USE StorageAssumption DEF IInv
<1> DEFINE after == [[[io[t] EXCEPT !.pc = "returns"] EXCEPT !.fd = NoFd]
                        EXCEPT !.result = result]
<1>1. io' = [u \in Threads |-> IF u = t THEN after ELSE io[u]]
  BY DEF Ends, Shaped
<1>2. after.pc = "returns" /\ after.fd = NoFd
  BY DEF Shaped
<1>3. \A u \in Threads : u # t => io'[u] = io[u]
  BY <1>1
<1>4. io'[t] = after
  BY <1>1
<1>5. table' = [f \in Fds |-> table'[f]]
  BY DEF Ends, Reclaimed, Shaped
<1>6. lock' \in Threads \cup {NoThread}
  BY DEF Ends, Shaped
<1>7. Shaped'
  <2>1. \A u \in Threads : io'[u] = [pc |-> io'[u].pc, create |-> io'[u].create,
                                   record |-> io'[u].record, fd |-> io'[u].fd,
                                   checked |-> io'[u].checked, got |-> io'[u].got,
                                   result |-> io'[u].result]
    <3>1. io'[t] = [pc |-> io'[t].pc, create |-> io'[t].create,
                    record |-> io'[t].record, fd |-> io'[t].fd,
                    checked |-> io'[t].checked, got |-> io'[t].got,
                    result |-> io'[t].result]
      BY <1>4 DEF Shaped
    <3>2. QED
      BY <1>3, <3>1 DEF Shaped
  <2>2. io' = [u \in Threads |-> io'[u]]
    BY <1>1
  <2>3. QED
    BY <2>1, <2>2, <1>5, <1>6 DEF Shaped
<1>8. ReadsByKind'
  BY <1>2, <1>3, <1>4 DEF ReadsByKind
<1>9. SeekRegionExclusive'
  BY <1>2, <1>3, <1>4 DEF SeekRegionExclusive, Ends
<1>10. NoDescriptorLeak'
  <2>1. CASE kind = "gds"
    BY <2>1 DEF Ends, Reclaimed, Held, NoDescriptorLeak
  <2>2. CASE kind # "gds"
    BY <2>2 DEF Ends, NoDescriptorLeak
  <2>3. QED
    BY <2>1, <2>2
<1>11. QED
  BY <1>7, <1>8, <1>9, <1>10 DEF Kept

(* A step of one read that moves neither descriptors nor, for the other    *)
(* threads, the lock.                                                      *)
Moved(t, pc, got) ==
    /\ io' = [io EXCEPT ![t].pc = pc, ![t].got = got]
    /\ UNCHANGED <<kind, preadv, fd, table>>
    /\ lock' \in Threads \cup {NoThread}
    /\ \A u \in Threads : u # t => (lock' = u <=> lock = u)
    /\ lock' = t <=> ~preadv /\ pc \in {"seek", "copy"}
    /\ pc \in {"lock", "seek"} => ~preadv
    /\ pc \in {"make", "take", "read"} => preadv
    /\ pc \in {"make", "take"} => kind = "gds"
    /\ pc \in {"idle", "open", "make", "take", "returns"} => io[t].fd = NoFd

LEMMA MoveKeeps ==
    ASSUME IInv, NEW t \in Threads, NEW pc, NEW got, Moved(t, pc, got)
    PROVE  Kept
<1> USE StorageAssumption DEF IInv, Moved
<1> DEFINE after == [[io[t] EXCEPT !.pc = pc] EXCEPT !.got = got]
<1>1. io' = [u \in Threads |-> IF u = t THEN after ELSE io[u]]
  BY DEF Shaped
<1>2. after.pc = pc /\ after.fd = io[t].fd
  BY DEF Shaped
<1>3. \A u \in Threads : u # t => io'[u] = io[u]
  BY <1>1
<1>4. io'[t] = after
  BY <1>1
<1>5. Shaped'
  <2>1. io'[t] = [pc |-> io'[t].pc, create |-> io'[t].create,
                  record |-> io'[t].record, fd |-> io'[t].fd,
                  checked |-> io'[t].checked, got |-> io'[t].got,
                  result |-> io'[t].result]
    BY <1>4 DEF Shaped
  <2>2. io' = [u \in Threads |-> io'[u]]
    BY <1>1
  <2>3. QED
    BY <2>1, <2>2, <1>3 DEF Shaped
<1>6. ReadsByKind'
  BY <1>2, <1>3, <1>4 DEF ReadsByKind
<1>7. SeekRegionExclusive'
  BY <1>2, <1>3, <1>4 DEF SeekRegionExclusive
<1>8. NoDescriptorLeak'
  <2>1. \A u \in Threads : io'[u].fd = io[u].fd
    BY <1>2, <1>3, <1>4
  <2>2. SUFFICES ASSUME NEW f \in Fds, table[f] = "data"
                 PROVE  f = fd \/ (kind = "gds" /\ \E u \in Threads : io'[u].fd = f)
    BY DEF NoDescriptorLeak
  <2>3. f = fd \/ (kind = "gds" /\ \E u \in Threads : io[u].fd = f)
    BY <2>2 DEF NoDescriptorLeak
  <2>4. QED
    BY <2>1, <2>3
<1>9. QED
  BY <1>5, <1>6, <1>7, <1>8 DEF Kept

(* A read takes a descriptor. *)
LEMMA FdTaken ==
    ASSUME IInv, NEW t \in Threads, NEW taken, NEW pc,
           io' = [io EXCEPT ![t].fd = taken, ![t].pc = pc]
    PROVE  /\ \A u \in Threads : u # t => io'[u] = io[u]
           /\ io'[t].pc = pc /\ io'[t].fd = taken
           /\ io' = [u \in Threads |-> io'[u]]
           /\ \A u \in Threads :
                 io'[u] = [pc |-> io'[u].pc, create |-> io'[u].create,
                           record |-> io'[u].record, fd |-> io'[u].fd,
                           checked |-> io'[u].checked, got |-> io'[u].got,
                           result |-> io'[u].result]
<1> USE DEF IInv
<1> DEFINE after == [[io[t] EXCEPT !.fd = taken] EXCEPT !.pc = pc]
<1>1. io' = [u \in Threads |-> IF u = t THEN after ELSE io[u]]
  BY DEF Shaped
<1>2. after.pc = pc /\ after.fd = taken
  BY DEF Shaped
<1>3. \A u \in Threads : u # t => io'[u] = io[u]
  BY <1>1
<1>4. io'[t] = after
  BY <1>1
<1>5. io'[t] = [pc |-> io'[t].pc, create |-> io'[t].create,
                record |-> io'[t].record, fd |-> io'[t].fd,
                checked |-> io'[t].checked, got |-> io'[t].got,
                result |-> io'[t].result]
  BY <1>4 DEF Shaped
<1>6. io' = [u \in Threads |-> io'[u]]
  BY <1>1
<1>7. QED
  BY <1>2, <1>3, <1>4, <1>5, <1>6 DEF Shaped

(* The lock is where the read that holds it is. *)
LEMMA CopyKeeps ==
    ASSUME IInv, NEW t \in Threads, io[t].pc = "copy", NEW x, CopyFrom(t, x),
           UNCHANGED <<kind, preadv, fd>>
    PROVE  Kept
<1> DEFINE got == Append(io[t].got, pages[x])
           pc == IF Len(io[t].got) + 1 = Length(t) THEN "decode" ELSE "copy"
<1>1. CASE x <= Len(pages)
  <2>1. io' = [io EXCEPT ![t].pc = pc, ![t].got = got]
    BY <1>1 DEF CopyFrom, IInv, Shaped
  <2>2. lock = t <=> ~preadv
    BY DEF IInv, SeekRegionExclusive
  <2>3. /\ lock' \in Threads \cup {NoThread}
        /\ \A u \in Threads : u # t => (lock' = u <=> lock = u)
        /\ lock' = t <=> ~preadv /\ pc \in {"seek", "copy"}
    BY <1>1, <2>2, StorageAssumption DEF CopyFrom, IInv, Shaped
  <2>4. pc \in {"decode", "copy"} /\ table' = table
    BY <1>1 DEF CopyFrom
  <2> HIDE DEF pc, got
  <2>5. Moved(t, pc, got)
    BY <2>1, <2>3, <2>4 DEF Moved
  <2>6. QED
    BY <2>5, MoveKeeps
<1>2. CASE ~(x <= Len(pages))
  BY <1>2, EndsKeeps DEF CopyFrom
<1>3. QED
  BY <1>1, <1>2

(* Every step of read_into, decode_record and the return of a read.        *)
LEMMA ReadKeeps ==
    ASSUME IInv, NEW t \in Threads, ReadStep(t), UNCHANGED <<fileVars, sessionVars>>
    PROVE  IInv'
<1> USE StorageAssumption DEF fileVars, sessionVars
<1>1. ManifestMade'
  BY DEF IInv, ManifestMade
<1>2. io[t].pc # "idle" /\ QuietWithoutStore'
  <2>1. io[t].pc # "idle"
    BY DEF ReadStep, FileDescriptor, HandleTest, HandleMake, HandleTake, Preadv, CopyPage,
           LockFallback, Seek, SeekRead, Decode, Return
  <2>2. QED
    BY <2>1 DEF IInv, QuietWithoutStore
<1> SUFFICES Kept
  BY <1>1, <1>2 DEF IInv, Kept
<1>same. io[t] = [io[t] EXCEPT !.got = io[t].got]
  BY DEF IInv, Shaped
<1>step. ASSUME NEW pc, Step(t, pc)
         PROVE  io' = [io EXCEPT ![t].pc = pc, ![t].got = io[t].got]
  BY <1>step DEF Step, IInv, Shaped
<1>locked. lock \in Threads \cup {NoThread} /\ (lock = t <=> ~preadv /\ io[t].pc \in {"seek", "copy"})
  BY DEF IInv, Shaped, SeekRegionExclusive
<1>kind. /\ io[t].pc \in {"lock", "seek"} => ~preadv
         /\ io[t].pc \in {"make", "take", "read"} => preadv
         /\ io[t].pc \in {"make", "take"} => kind = "gds"
         /\ io[t].pc \in {"idle", "open", "make", "take", "returns"} => io[t].fd = NoFd
         /\ kind = "gds" => preadv
  BY DEF IInv, ReadsByKind
<1>3. CASE FileDescriptor(t)
  <2>pick. PICK taken, pc : taken = fd' /\ pc = IF preadv THEN "read" ELSE "lock"
    OBVIOUS
  <2>1. io' = [io EXCEPT ![t].fd = taken, ![t].pc = pc]
    BY <1>3, <2>pick DEF FileDescriptor
  <2>2. /\ kind \in {"buffered", "direct"} /\ io[t].pc = "open"
        /\ UNCHANGED <<kind, preadv, lock>>
        /\ table' = [table EXCEPT ![fd'] = "data"]
        /\ fd # NoFd => fd' = fd
    BY <1>3 DEF FileDescriptor
  <2>3. (preadv => pc = "read") /\ (~preadv => pc = "lock")
    BY <2>pick
  <2>4. /\ \A u \in Threads : u # t => io'[u] = io[u]
        /\ io'[t].pc = pc /\ io'[t].fd = taken
        /\ io' = [u \in Threads |-> io'[u]]
        /\ \A u \in Threads :
              io'[u] = [pc |-> io'[u].pc, create |-> io'[u].create,
                        record |-> io'[u].record, fd |-> io'[u].fd,
                        checked |-> io'[u].checked, got |-> io'[u].got,
                        result |-> io'[u].result]
    BY <2>1, FdTaken
  <2> USE DEF IInv
  <2>5. Shaped'
    BY <2>2, <2>4 DEF Shaped
  <2>6. ReadsByKind'
    BY <2>2, <2>3, <2>4 DEF ReadsByKind
  <2>7. SeekRegionExclusive'
    BY <2>2, <2>3, <2>4 DEF SeekRegionExclusive
  <2>8. NoDescriptorLeak'
    BY <2>2 DEF Shaped, NoDescriptorLeak
  <2>9. QED
    BY <2>5, <2>6, <2>7, <2>8 DEF Kept
<1>4. CASE HandleTest(t)
  <2> DEFINE pc == IF fd = NoFd THEN "make" ELSE "take"
  <2>1. pc \in {"make", "take"} /\ Step(t, pc)
    BY <1>4 DEF HandleTest
  <2> HIDE DEF pc
  <2>2. QED
    <3>1. Moved(t, pc, io[t].got)
      BY <1>4, <2>1, <1>step, <1>locked, <1>kind DEF HandleTest, Moved
    <3>2. QED
      BY <3>1, MoveKeeps
<1>5. CASE HandleMake(t)
  <2> USE DEF IInv
  <2>1. /\ \A u \in Threads : u # t => io'[u] = io[u]
        /\ io'[t].pc = "take" /\ io'[t].fd = io[t].fd
    BY <1>5 DEF HandleMake, Step, Shaped
  <2>2. Shaped'
    BY <1>5 DEF HandleMake, Step, Reclaimed, Shaped
  <2>3. ReadsByKind'
    BY <1>5, <2>1, <1>kind DEF HandleMake, ReadsByKind
  <2>4. SeekRegionExclusive'
    BY <1>5, <2>1 DEF HandleMake, SeekRegionExclusive
  <2>5. NoDescriptorLeak'
    BY <1>5, <1>kind DEF HandleMake, Reclaimed, Held, NoDescriptorLeak
  <2>6. QED
    BY <2>2, <2>3, <2>4, <2>5 DEF Kept
<1>6. CASE HandleTake(t)
  <2>1. CASE fd = NoFd
    BY <1>6, <2>1, EndsKeeps DEF HandleTake
  <2>2. CASE fd # NoFd
    <3>1. io' = [io EXCEPT ![t].fd = fd, ![t].pc = "read"]
          /\ UNCHANGED <<kind, preadv, table, position, fd, lock>>
      BY <1>6, <2>2 DEF HandleTake
    <3>2. io[t].pc = "take" /\ kind = "gds" /\ preadv /\ io[t].fd = NoFd
      BY <1>6, <1>kind DEF HandleTake
    <3>3. /\ \A u \in Threads : u # t => io'[u] = io[u]
          /\ io'[t].pc = "read" /\ io'[t].fd = fd
          /\ io' = [u \in Threads |-> io'[u]]
          /\ \A u \in Threads :
                io'[u] = [pc |-> io'[u].pc, create |-> io'[u].create,
                          record |-> io'[u].record, fd |-> io'[u].fd,
                          checked |-> io'[u].checked, got |-> io'[u].got,
                          result |-> io'[u].result]
      BY <3>1, FdTaken
    <3> USE DEF IInv
    <3>4. Shaped'
      BY <3>1, <3>3 DEF Shaped
    <3>5. ReadsByKind'
      BY <3>1, <3>2, <3>3 DEF ReadsByKind
    <3>6. SeekRegionExclusive'
      BY <3>1, <3>2, <3>3 DEF SeekRegionExclusive
    <3>7. NoDescriptorLeak'
      <4>1. ASSUME NEW f \in Fds, table[f] = "data"
            PROVE  f = fd \/ (kind = "gds" /\ \E u \in Threads : io'[u].fd = f)
        BY <3>2, <3>3, <4>1 DEF NoDescriptorLeak
      <4>2. QED
        BY <3>1, <4>1 DEF NoDescriptorLeak
    <3>8. QED
      BY <3>4, <3>5, <3>6, <3>7 DEF Kept
  <2>3. QED
    BY <2>1, <2>2
<1>7. CASE Preadv(t)
  <2>1. CASE Ends(t, "error")
    BY <1>7, <2>1, EndsKeeps DEF Preadv
  <2>2. CASE ~Ends(t, "error")
    <3> DEFINE got == [p \in 1..Length(t) |-> Alien]
    <3>1. \/ io' = [io EXCEPT ![t].got = got, ![t].pc = "decode"]
          \/ Step(t, "copy")
      BY <1>7, <2>2 DEF Preadv
    <3>2. UNCHANGED <<kind, preadv, fd, table, lock>>
      BY <1>7, <2>2 DEF Preadv
    <3>3. io[t].pc = "read"
      BY <1>7 DEF Preadv
    <3> HIDE DEF got
    <3>4. CASE Step(t, "copy")
      <4>1. Moved(t, "copy", io[t].got)
        BY <3>2, <3>3, <3>4, <1>step, <1>locked, <1>kind DEF Moved
      <4>2. QED
        BY <4>1, MoveKeeps
    <3>5. CASE io' = [io EXCEPT ![t].got = got, ![t].pc = "decode"]
      <4>1. io' = [io EXCEPT ![t].pc = "decode", ![t].got = got]
        BY <3>5 DEF IInv, Shaped
      <4>2. Moved(t, "decode", got)
        BY <4>1, <3>2, <3>3, <1>locked, <1>kind DEF Moved
      <4>3. QED
        BY <4>2, MoveKeeps
    <3>6. QED
      BY <3>1, <3>4, <3>5
  <2>3. QED
    BY <2>1, <2>2
<1>8. CASE CopyPage(t)
  BY <1>8, CopyKeeps DEF CopyPage
<1>9. CASE LockFallback(t)
  <2>1. Moved(t, "seek", io[t].got)
    BY <1>9, <1>step, <1>locked, <1>kind DEF LockFallback, Moved
  <2>2. QED
    BY <2>1, MoveKeeps
<1>10. CASE Seek(t)
  <2>1. CASE table[io[t].fd] = "free"
    BY <1>10, <2>1, EndsKeeps DEF Seek
  <2>2. CASE table[io[t].fd] # "free"
    <3>1. Moved(t, "copy", io[t].got)
      BY <1>10, <2>2, <1>step, <1>locked, <1>kind DEF Seek, Moved
    <3>2. QED
      BY <3>1, MoveKeeps
  <2>3. QED
    BY <2>1, <2>2
<1>11. CASE SeekRead(t)
  <2> DEFINE got == [p \in 1..Length(t) |-> Alien]
             x == position[io[t].fd] + 1
  <2>1. \/ Ends(t, "error")
        \/ CopyFrom(t, x)
        \/ /\ io' = [io EXCEPT ![t].got = got, ![t].pc = "decode"]
           /\ lock' = NoThread /\ table' = table
    BY <1>11 DEF SeekRead
  <2>2. io[t].pc = "copy" /\ lock = t /\ UNCHANGED <<kind, preadv, fd>>
    BY <1>11 DEF SeekRead
  <2> HIDE DEF got, x
  <2>3. CASE Ends(t, "error")
    BY <2>2, <2>3, EndsKeeps
  <2>4. CASE CopyFrom(t, x)
    BY <2>2, <2>4, CopyKeeps
  <2>5. CASE /\ io' = [io EXCEPT ![t].got = got, ![t].pc = "decode"]
             /\ lock' = NoThread /\ table' = table
    <3>1. io' = [io EXCEPT ![t].pc = "decode", ![t].got = got]
      BY <2>5 DEF IInv, Shaped
    <3>2. Moved(t, "decode", got)
      BY <3>1, <2>2, <2>5, <1>kind, StorageAssumption DEF Moved
    <3>3. QED
      BY <3>2, MoveKeeps
  <2>6. QED
    BY <2>1, <2>3, <2>4, <2>5
<1>12. CASE Decode(t)
  BY <1>12, EndsKeeps DEF Decode
<1>13. CASE Return(t)
  <2> USE DEF IInv
  <2>1. /\ \A u \in Threads : u # t => io'[u] = io[u]
        /\ io'[t] = NoRead
    BY <1>13 DEF Return, Shaped
  <2>2. Shaped'
    BY <1>13, <2>1 DEF Return, NoRead, Shaped
  <2>3. ReadsByKind'
    BY <1>13, <2>1 DEF Return, NoRead, ReadsByKind
  <2>4. SeekRegionExclusive'
    BY <1>13, <2>1 DEF Return, NoRead, SeekRegionExclusive
  <2>5. NoDescriptorLeak'
    BY <1>13, <2>1, <1>kind DEF Return, NoRead, NoDescriptorLeak
  <2>6. QED
    BY <2>2, <2>3, <2>4, <2>5 DEF Kept
<1>14. QED
  BY <1>3, <1>4, <1>5, <1>6, <1>7, <1>8, <1>9, <1>10, <1>11, <1>12, <1>13 DEF ReadStep

(***************************************************************************)
(* The steps of the session.                                               *)
(***************************************************************************)
(* A read that begins, in the pool or in KVCacheStore.read.                *)
LEMMA BeginKeeps ==
    ASSUME IInv, NEW t \in Threads, NEW create, NEW record, NEW destination, NEW checked,
           BeginRead(t, create, record, destination, checked)
    PROVE  Kept
<1> USE StorageAssumption DEF IInv
<1> PICK begun : begun =
        [NoRead EXCEPT !.create = create, !.record = record, !.checked = checked,
                       !.pc = IF (kind = "gds") = (destination = "cuda")
                              THEN "open" ELSE "returns",
                       !.result = IF (kind = "gds") = (destination = "cuda")
                                  THEN "none" ELSE "error"]
  OBVIOUS
<1>1. io' = [u \in Threads |-> IF u = t THEN begun ELSE io[u]]
  BY DEF BeginRead, Shaped
<1>2. io[t].pc = "idle" /\ UNCHANGED <<kind, preadv, table, position, fd, lock>>
  BY DEF BeginRead
<1>3. begun.pc \in {"open", "returns"} /\ begun.fd = NoFd
  BY DEF NoRead
<1>4. begun = [pc |-> begun.pc, create |-> begun.create, record |-> begun.record,
               fd |-> begun.fd, checked |-> begun.checked, got |-> begun.got,
               result |-> begun.result]
  BY DEF NoRead
<1>5. \A u \in Threads : u # t => io'[u] = io[u]
  BY <1>1
<1>6. io'[t] = begun
  BY <1>1
<1>7. Shaped'
  <2>1. io' = [u \in Threads |-> io'[u]]
    BY <1>1
  <2>2. QED
    BY <2>1, <1>2, <1>4, <1>5, <1>6 DEF Shaped
<1>8. ReadsByKind'
  BY <1>2, <1>3, <1>4, <1>5, <1>6 DEF ReadsByKind
<1>9. SeekRegionExclusive'
  BY <1>2, <1>3, <1>5, <1>6 DEF SeekRegionExclusive
<1>10. NoDescriptorLeak'
  <2>1. ASSUME NEW f \in Fds, table[f] = "data"
        PROVE  f = fd \/ (kind = "gds" /\ \E u \in Threads : io'[u].fd = f)
    <3>1. io[t].fd = NoFd
      BY <1>2 DEF ReadsByKind
    <3>2. QED
      BY <2>1, <3>1, <1>5 DEF NoDescriptorLeak
  <2>2. QED
    BY <2>1, <1>2 DEF NoDescriptorLeak
<1>11. QED
  BY <1>7, <1>8, <1>9, <1>10 DEF Kept

(* The backend is closed, reads of a GDS handle may go on.                 *)
LEMMA CloseKeeps ==
    ASSUME IInv, CloseBackend, UNCHANGED io,
           kind' = kind \/ (kind' = "none" /\ \A t \in Threads : io[t].pc = "idle")
    PROVE  Kept
<1> USE StorageAssumption DEF IInv
<1>1. UNCHANGED <<preadv, lock>> /\ fd' = NoFd
  BY DEF CloseBackend
<1>2. Shaped'
  BY <1>1 DEF CloseBackend, Reclaimed, Shaped
<1>3. ReadsByKind'
  BY <1>1 DEF ReadsByKind
<1>4. SeekRegionExclusive'
  BY <1>1 DEF SeekRegionExclusive
<1>5. NoDescriptorLeak'
  <2>1. CASE kind = "gds"
    <3>1. \A f \in Fds : table'[f] = "data" => \E t \in Threads : io[t].fd = f
      BY <2>1 DEF CloseBackend, Reclaimed, Held
    <3>2. kind' # "gds" => \A f \in Fds : table'[f] # "data"
      BY <2>1, <3>1 DEF ReadsByKind
    <3>3. QED
      BY <3>1, <3>2 DEF NoDescriptorLeak
  <2>2. CASE kind # "gds"
    BY <2>2 DEF CloseBackend, NoDescriptorLeak
  <2>3. QED
    BY <2>1, <2>2
<1>6. QED
  BY <1>2, <1>3, <1>4, <1>5 DEF Kept

(* A backend is resolved and takes over; nothing reads yet.                *)
LEMMA OpenKeeps ==
    ASSUME IInv, NEW requested, NEW cuda \in BOOLEAN, NEW device,
           Open(requested, Probed(preadv, cuda), device)
    PROVE  IInv'
<1> USE StorageAssumption DEF IInv
<1> DEFINE backend == Resolve(requested, StorageOrder, StorageBackends, Probed(preadv, cuda))
<1>1. /\ store = 0 /\ backend # NoBackend /\ kind' = backend
      /\ store' = manifest /\ UNCHANGED <<fileVars, preadv, lock, io>>
  BY DEF Open
<1>2. backend = "gds" => preadv
  BY <1>1, GdsMeansPreadv DEF Shaped
<1>3. IF backend = "gds"
      THEN fd' = LowestFree /\ table' = [table EXCEPT ![LowestFree] = "data"]
      ELSE UNCHANGED <<fd, table>>
  BY DEF Open
<1> HIDE DEF backend
<1>4. kind = "none" /\ fd = NoFd /\ \A t \in Threads : io[t].pc = "idle"
  BY <1>1 DEF QuietWithoutStore
<1>5. Shaped'
  BY <1>1, <1>3 DEF Shaped
<1>6. ManifestMade' /\ QuietWithoutStore'
  BY <1>1 DEF ManifestMade, QuietWithoutStore, fileVars
<1>7. ReadsByKind'
  BY <1>1, <1>2, <1>4 DEF ReadsByKind
<1>8. SeekRegionExclusive'
  BY <1>1 DEF SeekRegionExclusive
<1>9. NoDescriptorLeak'
  <2>1. \A f \in Fds : table[f] = "data" => f = fd
    BY <1>4 DEF NoDescriptorLeak
  <2>2. \A f \in Fds : table[f] # "data"
    BY <1>4, <2>1
  <2>3. QED
    BY <1>1, <1>3, <2>2 DEF Shaped, NoDescriptorLeak
<1>10. QED
  BY <1>5, <1>6, <1>7, <1>8, <1>9

(* A power loss leaves no process, and so no read and no descriptor.       *)
LEMMA PowerLossKeeps ==
    ASSUME IInv, PowerLoss
    PROVE  IInv'
<1> USE StorageAssumption DEF IInv
<1>1. /\ kind' = "none" /\ fd' = NoFd /\ lock' = NoThread /\ store' = 0
      /\ table' = [f \in Fds |-> "free"]
      /\ io' = [t \in Threads |-> NoRead]
      /\ UNCHANGED preadv
  BY DEF PowerLoss
<1>2. Shaped'
  BY <1>1 DEF Shaped, NoRead
<1>3. ManifestMade'
  BY ShapesAssumption DEF PowerLoss, PowerFails, ManifestMade
<1>4. QuietWithoutStore' /\ ReadsByKind'
  BY <1>1 DEF QuietWithoutStore, ReadsByKind, NoRead
<1>5. SeekRegionExclusive'
  BY <1>1 DEF SeekRegionExclusive, NoRead
<1>6. NoDescriptorLeak'
  BY <1>1 DEF NoDescriptorLeak
<1>7. QED
  BY <1>2, <1>3, <1>4, <1>5, <1>6

(* Another file takes a number that was free.                              *)
LEMMA OtherOpensKeeps ==
    ASSUME IInv, OtherOpens, UNCHANGED <<fileVars, sessionVars>>
    PROVE  IInv'
<1> USE StorageAssumption DEF IInv, OtherOpens, fileVars, sessionVars
<1>1. Shaped'
  BY DEF Shaped
<1>2. ManifestMade' /\ QuietWithoutStore' /\ ReadsByKind'
  BY DEF ManifestMade, QuietWithoutStore, ReadsByKind
<1>3. SeekRegionExclusive'
  BY DEF SeekRegionExclusive
<1>4. NoDescriptorLeak'
  BY DEF Shaped, NoDescriptorLeak
<1>5. QED
  BY <1>1, <1>2, <1>3, <1>4

(***************************************************************************)
(* The invariant holds in every reachable state.                           *)
(***************************************************************************)
LEMMA InitIInv == Init => IInv
<1> SUFFICES ASSUME Init PROVE IInv
  OBVIOUS
<1> USE StorageAssumption DEF Init, FileInit, StorageInit
<1>1. Shaped
  BY DEF Shaped, NoRead
<1>2. ManifestMade
  BY ShapesAssumption DEF ManifestMade
<1>3. QuietWithoutStore /\ ReadsByKind
  BY DEF QuietWithoutStore, ReadsByKind, NoRead
<1>4. SeekRegionExclusive /\ NoDescriptorLeak
  BY DEF SeekRegionExclusive, NoDescriptorLeak, NoRead
<1>5. QED
  BY <1>1, <1>2, <1>3, <1>4 DEF IInv

LEMMA NextIInv == IInv /\ [Next]_vars => IInv'
<1> SUFFICES ASSUME IInv, [Next]_vars PROVE IInv'
  OBVIOUS
<1>1. CASE CreateNext /\ UNCHANGED <<storageVars, sessionVars>>
  BY <1>1, CreateKeeps
<1>2. CASE PowerLoss
  BY <1>2, PowerLossKeeps
<1>3. ASSUME NEW cuda \in BOOLEAN, NEW requested \in StorageBackends \cup {"auto"},
             NEW device \in {"cpu"} \cup (IF cuda THEN {"cuda"} ELSE {}),
             Open(requested, Probed(preadv, cuda), device)
      PROVE  IInv'
  BY <1>3, OpenKeeps
<1>4. ASSUME store # 0, NEW i \in 0..(Records(store) - 1), MainRead(i)
      PROVE  IInv'
  <2>1. Kept
    BY <1>4, BeginKeeps, StoreAssumption DEF MainRead
  <2>2. ManifestMade' /\ QuietWithoutStore'
    BY <1>4 DEF MainRead, IInv, ManifestMade, QuietWithoutStore, fileVars
  <2>3. QED
    BY <2>1, <2>2 DEF Kept, IInv
<1>5. ASSUME store # 0, NEW i \in 0..(Records(store) - 1), NEW t \in Threads, PoolRead(t, i)
      PROVE  IInv'
  <2>1. Kept
    BY <1>5, BeginKeeps DEF PoolRead
  <2>2. ManifestMade' /\ QuietWithoutStore'
    BY <1>5 DEF PoolRead, IInv, ManifestMade, QuietWithoutStore, fileVars
  <2>3. QED
    BY <2>1, <2>2 DEF Kept, IInv
<1>6. ASSUME NEW t \in Threads, ReadStep(t), UNCHANGED <<fileVars, sessionVars>>
      PROVE  IInv'
  BY <1>6, ReadKeeps
<1>7. CASE LoaderShutdown \/ LoaderDown
  <2>1. UNCHANGED <<fileVars, storageVars, store>>
    BY <1>7 DEF LoaderShutdown, LoaderDown
  <2>2. QED
    BY <2>1 DEF fileVars, storageVars, IInv, Shaped, ManifestMade, QuietWithoutStore,
                ReadsByKind, SeekRegionExclusive, NoDescriptorLeak
<1>8. CASE StoreClose
  <2>1. Kept
    BY <1>8, CloseKeeps DEF StoreClose
  <2>2. ManifestMade' /\ QuietWithoutStore'
    BY <1>8 DEF StoreClose, IInv, ManifestMade, QuietWithoutStore, fileVars, sessionVars
  <2>3. QED
    BY <2>1, <2>2 DEF Kept, IInv
<1>9. CASE DropStore
  <2>1. \A t \in Threads : io[t].pc = "idle"
    BY <1>9 DEF DropStore, PoolIdle
  <2>2. Kept
    BY <1>9, <2>1, CloseKeeps DEF DropStore
  <2>3. ManifestMade' /\ QuietWithoutStore'
    BY <1>9, <2>1 DEF DropStore, CloseBackend, IInv, ManifestMade, QuietWithoutStore, fileVars
  <2>4. QED
    BY <2>2, <2>3 DEF Kept, IInv
<1>10. CASE OtherOpens /\ UNCHANGED <<fileVars, sessionVars>>
  BY <1>10, OtherOpensKeeps
<1>11. CASE UNCHANGED vars
  BY <1>11 DEF vars, fileVars, storageVars, sessionVars, IInv, Shaped, ManifestMade,
               QuietWithoutStore, ReadsByKind, SeekRegionExclusive, NoDescriptorLeak
<1>12. QED
  BY <1>1, <1>2, <1>3, <1>4, <1>5, <1>6, <1>7, <1>8, <1>9, <1>10, <1>11 DEF Next

THEOREM Invariance == Spec => []IInv
BY InitIInv, NextIInv, PTL DEF Spec

(* The seek fallback: in every reachable state the lock is held by the     *)
(* reading thread that is between its seek and its last read, and only by  *)
(* that one (direct.py, buffered.py: with self._fallback_lock).            *)
THEOREM SeekRegionIsExclusive == Spec => []SeekRegionExclusive
<1>1. IInv => SeekRegionExclusive
  BY DEF IInv
<1>2. QED
  BY <1>1, Invariance, PTL

(* No descriptor of the data file is lost, whatever reads race in          *)
(* _file_descriptor or _ensure_handle and whenever the store is closed.    *)
THEOREM DescriptorsAreHeld == Spec => []NoDescriptorLeak
<1>1. IInv => NoDescriptorLeak
  BY DEF IInv
<1>2. QED
  BY <1>1, Invariance, PTL

(***************************************************************************)
(* What the reads return: the file and the descriptors they read through.  *)
(***************************************************************************)
(* Page q of some create is in its place x of the file. *)
InPlace(q, x) ==
    /\ q \in Page /\ q.create \in 1..Len(made)
    /\ q.part \in 1..made[q.create].pages
    /\ x = Offset(q.create, q.record) + q.part

(* The file and the manifest.  While a create runs, its pages and then its *)
(* buffer are the records it has written, and nobody has it open.          *)
FileInv ==
    /\ \A x \in 1..Len(pages) : pages[x] = Hole \/ InPlace(pages[x], x)
    /\ epoch # 0 => \A x \in 1..Len(pages) : pages[x] # Hole /\ pages[x].create = epoch
    /\ \A n \in 1..Len(buffer) :
          InPlace(buffer[n], Len(pages) + n) /\ buffer[n].create = epoch
    /\ stage # "idle" =>
          /\ epoch = Len(made) /\ manifest # Len(made) /\ store # Len(made)
          /\ Len(pages) = Offset(epoch, next) - Len(buffer)
          /\ next <= Records(epoch)
    /\ stage \in {"closed", "saving"} => next = Records(epoch)
    /\ stage # "writing" => buffer = <<>>
    /\ epoch # 0 /\ (manifest = epoch \/ store = epoch) =>
          Len(pages) = Offset(epoch, Records(epoch))

(* The open store, its loader and the descriptors of its backend. *)
SessionInv ==
    /\ store = 0 <=> loader = "none"
    /\ loader = "down" => \A t \in Threads \ {Main} : io[t].pc = "idle"
    /\ slots = "cuda" => kind = "gds"
    /\ store # 0 => kind # "none"
    /\ fd # NoFd => table[fd] = "data"
    /\ \A e, f \in Fds : table[e] = "other" /\ table[f] = "other" => e = f

(* The entry a read is for, and the stage its bytes and result belong to.  *)
EntryOK(t) ==
    /\ io[t].pc = "idle" => io[t] = NoRead
    /\ io[t].pc # "idle" =>
          io[t].create = store /\ store # 0 /\ io[t].record < Records(store)
    /\ io[t].pc # "returns" => io[t].result = "none"
    /\ io[t].pc \notin {"copy", "decode", "returns"} => io[t].got = <<>>
    /\ io[t].pc = "copy" => Len(io[t].got) < Length(t)
    /\ io[t].pc = "decode" \/ io[t].result = "ok" => Len(io[t].got) = Length(t)

(* The descriptor it reads from, and the offset under the lock. *)
HandleOK(t) ==
    /\ io[t].pc = "take" => fd # NoFd
    /\ io[t].pc \in {"read", "lock", "seek", "copy", "decode"} => io[t].fd # NoFd
    /\ io[t].fd # NoFd => table[io[t].fd] = "data" /\ (kind # "gds" => io[t].fd = fd)
    /\ lock = t /\ io[t].pc = "copy" =>
          position[io[t].fd] = Offset(io[t].create, io[t].record) + Len(io[t].got)

(* The bytes it has: pages of the entry's place. *)
BytesOK(t) ==
    \A n \in 1..Len(io[t].got) :
        /\ \/ io[t].got[n] = Hole
           \/ InPlace(io[t].got[n], Offset(io[t].create, io[t].record) + n)
        /\ io[t].create = epoch => io[t].got[n] # Hole /\ io[t].got[n].create = epoch

ReadInv ==
    /\ \A t \in Threads : EntryOK(t) /\ HandleOK(t) /\ BytesOK(t)
    /\ CheckedReadsWhole /\ NoSpuriousError

(* The inductive invariant of the reads, with that above. *)
RestInv == TypeOK /\ FileInv /\ SessionInv /\ ReadInv

RInv == IInv /\ RestInv

(***************************************************************************)
(* Numbers.                                                                *)
(***************************************************************************)
(* A nonempty set of numbers has a least one. *)
LEMMA LeastNumber ==
    ASSUME NEW T \in SUBSET Nat, T # {}
    PROVE  \E x \in T : \A y \in T : x <= y
<1>1. IsWellFoundedOn(OpToRel(<, Nat), Nat)
  BY NatLessThanWellFounded
<1>2. PICK x \in T : \A y \in T : ~(<<y, x>> \in OpToRel(<, Nat))
  BY <1>1, WFMin
<1>3. ASSUME NEW y \in T PROVE ~(y < x)
  <2>1. <<y, x>> \in Nat \X Nat
    OBVIOUS
  <2>2. y < x => <<y, x>> \in OpToRel(<, Nat)
    BY <2>1 DEF OpToRel
  <2> QED
    BY <1>2, <2>2
<1> QED
  BY <1>3

(* Places in different records of one size are different. *)
LEMMA OneRecord ==
    ASSUME NEW size \in Nat \ {0}, NEW a \in Nat, NEW b \in Nat,
           NEW p \in 1..size, NEW q \in 1..size, a * size + p = b * size + q
    PROVE  a = b /\ p = q
<1>1. ASSUME NEW c \in Nat, NEW d \in Nat, c < d PROVE c * size + size <= d * size
  <2>1. d * size = c * size + (d - c) * size
    OBVIOUS
  <2>2. (d - c) * size >= size
    BY <1>1
  <2> QED
    BY <2>1, <2>2
<1>2. ~(a < b)
  <2> SUFFICES ASSUME a < b PROVE FALSE
    OBVIOUS
  <2> QED
    BY <1>1
<1>3. ~(b < a)
  <2> SUFFICES ASSUME b < a PROVE FALSE
    OBVIOUS
  <2> QED
    BY <1>1
<1>4. a = b
  BY <1>2, <1>3
<1> QED
  BY <1>4

(* Each of the first records ends within them. *)
LEMMA RecordsFit ==
    ASSUME NEW size \in Nat, NEW i \in Nat, NEW n \in Nat, i < n, NEW p \in 1..size
    PROVE  /\ i * size + p <= n * size
           /\ i * size \in Nat /\ n * size \in Nat
           /\ (i + 1) * size = i * size + size
<1>1. n * size = i * size + (n - i) * size
  OBVIOUS
<1>2. (n - i) * size >= size
  OBVIOUS
<1> QED
  BY <1>1, <1>2

(* What the members of a finite set have is no more than they are. *)
LEMMA NoMoreThan ==
    ASSUME NEW S, IsFiniteSet(S), NEW f, f = [x \in S |-> f[x]]
    PROVE  /\ IsFiniteSet({f[x] : x \in S})
           /\ Cardinality({f[x] : x \in S}) <= Cardinality(S)
<1>1. f \in Surjection(S, {f[x] : x \in S})
  BY DEF Surjection
<1> QED
  BY <1>1, FS_Surjection

(* A descriptor number is free when the backend or some thread has none:   *)
(* one for each, and one for another file, is less than there are.         *)
LEMMA FreeNumber ==
    ASSUME TypeOK, IInv, SessionInv, fd = NoFd \/ \E t \in Threads : io[t].fd = NoFd
    PROVE  LowestFree \in Fds /\ table[LowestFree] = "free"
<1> DEFINE others == {f \in Fds : table[f] = "other"}
<1>1. IsFiniteSet(others) /\ Cardinality(others) \in {0, 1}
  <2>1. IsFiniteSet({}) /\ Cardinality({}) = 0
    BY FS_EmptySet
  <2>2. CASE others = {}
    BY <2>1, <2>2
  <2>3. CASE others # {}
    <3>1. PICK f \in others : TRUE
      BY <2>3
    <3>2. others = {f}
      BY <3>1 DEF SessionInv
    <3> QED
      BY <3>2, FS_Singleton
  <2> QED
    BY <2>2, <2>3
<1>2. PICK held : /\ IsFiniteSet(held) /\ Cardinality(held) <= Cardinality(Threads)
                  /\ Cardinality(held) \in Nat
                  /\ \A f \in Fds : table[f] = "data" => f \in held
  <2>1. \A f \in Fds : table[f] = "data" => f = fd \/ \E t \in Threads : io[t].fd = f
    BY DEF IInv, NoDescriptorLeak
  <2>2. IsFiniteSet(Threads) /\ Cardinality(Threads) \in Nat
    BY StorageAssumption, FS_CardinalityType
  <2>3. CASE fd = NoFd
    <3> DEFINE of == [t \in Threads |-> io[t].fd]
               held == {of[t] : t \in Threads}
    <3>1. IsFiniteSet(held) /\ Cardinality(held) <= Cardinality(Threads)
      BY <2>2, NoMoreThan
    <3>2. \A f \in Fds : table[f] = "data" => f \in held
      BY <2>1, <2>3, StorageAssumption
    <3> HIDE DEF held
    <3>3. Cardinality(held) \in Nat
      BY <3>1, FS_CardinalityType
    <3> QED
      BY <3>1, <3>2, <3>3
  <2>4. ASSUME NEW t \in Threads, io[t].fd = NoFd
        PROVE  \E held : /\ IsFiniteSet(held) /\ Cardinality(held) <= Cardinality(Threads)
                         /\ Cardinality(held) \in Nat
                         /\ \A f \in Fds : table[f] = "data" => f \in held
    <3> DEFINE rest == Threads \ {t}
               of == [u \in rest |-> io[u].fd]
               taken == {of[u] : u \in rest}
               held == taken \cup {fd}
    <3>1. IsFiniteSet(rest) /\ Cardinality(rest) = Cardinality(Threads) - 1
      BY <2>2, FS_RemoveElement
    <3> HIDE DEF rest
    <3>2. IsFiniteSet(taken) /\ Cardinality(taken) <= Cardinality(rest)
      BY <3>1, NoMoreThan
    <3>3. \A f \in Fds : table[f] = "data" => f \in held
      BY <2>1, <2>4, StorageAssumption DEF rest
    <3> HIDE DEF taken
    <3>4. Cardinality(taken) \in Nat
      BY <3>2, FS_CardinalityType
    <3>5. IsFiniteSet(held) /\ Cardinality(held) <= Cardinality(taken) + 1
      BY <3>2, <3>4, FS_AddElement
    <3> HIDE DEF held
    <3>6. Cardinality(held) \in Nat
      BY <3>5, FS_CardinalityType
    <3> QED
      BY <2>2, <3>1, <3>2, <3>3, <3>4, <3>5, <3>6
  <2> QED
    BY <2>3, <2>4
<1>3. \E f \in Fds : table[f] = "free"
  <2> SUFFICES ASSUME \A f \in Fds : table[f] # "free" PROVE FALSE
    OBVIOUS
  <2>1. table \in [Fds -> {"free", "data", "other"}]
    BY DEF TypeOK, StorageTypeOK
  <2>2. Fds \in SUBSET (held \cup others)
    BY <1>2, <2>1
  <2> HIDE DEF others
  <2>3. /\ IsFiniteSet(held \cup others)
        /\ Cardinality(held \cup others)
             = Cardinality(held) + Cardinality(others) - Cardinality(held \cap others)
    BY <1>1, <1>2, FS_Union
  <2>4. IsFiniteSet(held \cap others)
    BY <1>1, FS_Intersection
  <2>5. Cardinality(held \cap others) \in Nat /\ Cardinality(held \cup others) \in Nat
        /\ Cardinality(Fds) \in Nat /\ Cardinality(Threads) \in Nat
    BY <2>3, <2>4, FS_CardinalityType, StorageAssumption
  <2>6. Cardinality(Fds) <= Cardinality(held \cup others)
    BY <2>2, <2>3, FS_Subset
  <2> QED
    BY <1>1, <1>2, <2>3, <2>5, <2>6, StorageAssumption
<1>4. PICK f \in Fds : table[f] = "free" /\ \A e \in Fds : table[e] = "free" => f <= e
  <2> DEFINE unused == {f \in Fds : table[f] = "free"}
  <2>1. unused \in SUBSET Nat /\ unused # {}
    BY <1>3, StorageAssumption
  <2> HIDE DEF unused
  <2>2. PICK f \in unused : \A e \in unused : f <= e
    BY <2>1, LeastNumber
  <2> QED
    BY <2>2 DEF unused
<1> QED
  BY <1>4 DEF LowestFree

(***************************************************************************)
(* How a read moves.                                                       *)
(***************************************************************************)
ReadRecord == [pc : Stages, create : 0..MaxCreates, record : Nat,
               fd : Fds \cup {NoFd}, checked : BOOLEAN,
               got : Seq(Page \cup {Hole, Alien}), result : {"none", "ok", "error"}]

(* Only the read of thread t moves; its entry stays. *)
OnlyMoves(t, pc, handle, got, result) ==
    /\ io' \in [Threads -> ReadRecord]
    /\ \A u \in Threads : u # t => io'[u] = io[u]
    /\ io'[t].pc = pc /\ io'[t].fd = handle /\ io'[t].got = got /\ io'[t].result = result
    /\ io'[t].create = io[t].create /\ io'[t].record = io[t].record
    /\ io'[t].checked = io[t].checked

(* One thread's read becomes r. *)
LEMMA Replaced ==
    ASSUME TypeOK, NEW t \in Threads, NEW r \in ReadRecord,
           io' = [u \in Threads |-> IF u = t THEN r ELSE io[u]]
    PROVE  /\ io' \in [Threads -> ReadRecord] /\ io'[t] = r
           /\ \A u \in Threads : u # t => io'[u] = io[u]
<1>1. io \in [Threads -> ReadRecord]
  BY DEF TypeOK, StorageTypeOK, ReadRecord
<1> HIDE DEF ReadRecord
<1> QED
  BY <1>1

(* Step only moves the read to another stage. *)
LEMMA StepMoves ==
    ASSUME TypeOK, NEW t \in Threads, NEW pc \in Stages, Step(t, pc)
    PROVE  OnlyMoves(t, pc, io[t].fd, io[t].got, io[t].result)
<1> DEFINE r == [io[t] EXCEPT !.pc = pc]
<1>1. io \in [Threads -> ReadRecord]
  BY DEF TypeOK, StorageTypeOK, ReadRecord
<1>2. io' = [u \in Threads |-> IF u = t THEN r ELSE io[u]]
  BY <1>1 DEF Step
<1>3. /\ r \in ReadRecord /\ r.pc = pc /\ r.fd = io[t].fd /\ r.got = io[t].got
      /\ r.result = io[t].result /\ r.create = io[t].create /\ r.record = io[t].record
      /\ r.checked = io[t].checked
  BY <1>1 DEF ReadRecord
<1> HIDE DEF r
<1> QED
  BY <1>2, <1>3, Replaced DEF OnlyMoves

(* Ends drops the handle and sets the result. *)
LEMMA EndsMoves ==
    ASSUME TypeOK, NEW t \in Threads, NEW result \in {"ok", "error"}, Ends(t, result)
    PROVE  OnlyMoves(t, "returns", NoFd, io[t].got, result)
<1> DEFINE r == [[[io[t] EXCEPT !.pc = "returns"] EXCEPT !.fd = NoFd] EXCEPT !.result = result]
<1>1. io \in [Threads -> ReadRecord]
  BY DEF TypeOK, StorageTypeOK, ReadRecord
<1>2. io' = [u \in Threads |-> IF u = t THEN r ELSE io[u]]
  BY <1>1 DEF Ends
<1>3. /\ r \in ReadRecord /\ r.pc = "returns" /\ r.fd = NoFd /\ r.got = io[t].got
      /\ r.result = result /\ r.create = io[t].create /\ r.record = io[t].record
      /\ r.checked = io[t].checked
  BY <1>1 DEF ReadRecord, Stages
<1> HIDE DEF r
<1> QED
  BY <1>2, <1>3, Replaced DEF OnlyMoves

(* Taking a handle, the read keeps its bytes. *)
LEMMA HandleMoves ==
    ASSUME TypeOK, NEW t \in Threads, NEW pc \in Stages, NEW handle \in Fds,
           io' = [io EXCEPT ![t].fd = handle, ![t].pc = pc]
    PROVE  OnlyMoves(t, pc, handle, io[t].got, io[t].result)
<1> DEFINE r == [[io[t] EXCEPT !.fd = handle] EXCEPT !.pc = pc]
<1>1. io \in [Threads -> ReadRecord]
  BY DEF TypeOK, StorageTypeOK, ReadRecord
<1>2. io' = [u \in Threads |-> IF u = t THEN r ELSE io[u]]
  BY <1>1
<1>3. /\ r \in ReadRecord /\ r.pc = pc /\ r.fd = handle /\ r.got = io[t].got
      /\ r.result = io[t].result /\ r.create = io[t].create /\ r.record = io[t].record
      /\ r.checked = io[t].checked
  BY <1>1 DEF ReadRecord
<1> HIDE DEF r
<1> QED
  BY <1>2, <1>3, Replaced DEF OnlyMoves

(* Copying bytes, the read keeps its handle. *)
LEMMA BytesMove ==
    ASSUME TypeOK, NEW t \in Threads, NEW pc \in Stages,
           NEW got \in Seq(Page \cup {Hole, Alien}),
           io' = [io EXCEPT ![t].got = got, ![t].pc = pc]
    PROVE  OnlyMoves(t, pc, io[t].fd, got, io[t].result)
<1> DEFINE r == [[io[t] EXCEPT !.got = got] EXCEPT !.pc = pc]
<1>1. io \in [Threads -> ReadRecord]
  BY DEF TypeOK, StorageTypeOK, ReadRecord
<1>2. io' = [u \in Threads |-> IF u = t THEN r ELSE io[u]]
  BY <1>1
<1>3. /\ r \in ReadRecord /\ r.pc = pc /\ r.fd = io[t].fd /\ r.got = got
      /\ r.result = io[t].result /\ r.create = io[t].create /\ r.record = io[t].record
      /\ r.checked = io[t].checked
  BY <1>1 DEF ReadRecord
<1> HIDE DEF r
<1> QED
  BY <1>2, <1>3, Replaced DEF OnlyMoves

(* What CheckedReadsWhole and NoSpuriousError say of one read. *)
WholeOK(t) ==
    io[t].result = "ok" /\ io[t].checked =>
        \E g \in 1..Len(made) : io[t].got = RecordPages(g, io[t].record)
ErrorOK(t) ==
    io[t].result = "error" /\ io[t].create = epoch =>
        kind = "gds" /\ slots = "cpu" /\ t # Main

(* A step of thread t leaves the other threads their descriptors and the   *)
(* offset to the one that holds the lock.                                  *)
HandlesKept(t) ==
    /\ table' \in [Fds -> {"free", "data", "other"}] /\ position' \in [Fds -> Nat]
    /\ fd' \in Fds \cup {NoFd} /\ lock' \in Threads \cup {NoThread}
    /\ fd' # NoFd => table'[fd'] = "data"
    /\ \A f \in Fds : table'[f] = "other" => table[f] = "other"
    /\ \A u \in Threads : u # t =>
         /\ io[u].pc = "take" => fd' # NoFd
         /\ io[u].fd # NoFd => table'[io[u].fd] = "data" /\ (kind # "gds" => fd' = fd)
         /\ lock' = u /\ io[u].pc = "copy" =>
              lock = u /\ position'[io[u].fd] = position[io[u].fd]

ReadSound(t) == EntryOK(t) /\ HandleOK(t) /\ BytesOK(t) /\ WholeOK(t) /\ ErrorOK(t)

(* What a step that moves one read has to show. *)
LEMMA OneReadFrame ==
    ASSUME RInv, NEW t \in Threads, io' \in [Threads -> ReadRecord],
           \A u \in Threads : u # t => io'[u] = io[u],
           loader = "down" => t = Main \/ io[t].pc # "idle",
           UNCHANGED <<fileVars, store, slots, loader, opens, kind, preadv>>,
           reads' \in 0..MaxReads, HandlesKept(t), ReadSound(t)'
    PROVE  RestInv'
<1>1. UNCHANGED <<made, pages, epoch, manifest, stage, next, buffer, powerFails,
                  store, slots, loader, opens, kind, preadv>>
  BY DEF fileVars
<1>2. \A u \in Threads : u # t => io'[u] = io[u]
  OBVIOUS
<1>3. TypeOK'
  <2>1. TypeOK
    BY DEF RInv, RestInv
  <2> QED
    BY <1>1, <2>1 DEF TypeOK, FileTypeOK, StorageTypeOK, ReadRecord, HandlesKept
<1>4. FileInv'
  <2>1. FileInv
    BY DEF RInv, RestInv
  <2> QED
    BY <1>1, <2>1 DEF FileInv, InPlace, Offset, Records
<1>5. SessionInv'
  BY <1>1, <1>2 DEF RInv, RestInv, SessionInv, HandlesKept
<1>6. ASSUME NEW u \in Threads PROVE ReadSound(u)'
  <2>1. CASE u = t
    BY <2>1
  <2>2. CASE u # t
    <3>1. /\ EntryOK(u) /\ HandleOK(u) /\ BytesOK(u) /\ io'[u] = io[u]
          /\ CheckedReadsWhole /\ NoSpuriousError
      BY <1>2, <2>2 DEF RInv, RestInv, ReadInv
    <3>2. EntryOK(u)'
      BY <1>1, <3>1 DEF EntryOK, Records, Length
    <3>3. HandleOK(u)'
      BY <1>1, <2>2, <3>1 DEF HandleOK, HandlesKept, Offset
    <3>4. BytesOK(u)'
      BY <1>1, <3>1 DEF BytesOK, InPlace, Offset
    <3>5. WholeOK(u)' /\ ErrorOK(u)'
      BY <1>1, <3>1 DEF WholeOK, ErrorOK, CheckedReadsWhole, NoSpuriousError, RecordPages
    <3> QED
      BY <3>2, <3>3, <3>4, <3>5 DEF ReadSound
  <2> QED
    BY <2>1, <2>2
<1>7. ReadInv'
  BY <1>6 DEF ReadInv, ReadSound, CheckedReadsWhole, NoSpuriousError, WholeOK, ErrorOK
<1> QED
  BY <1>3, <1>4, <1>5, <1>7 DEF RestInv

(* The same for a step of a read that is under way. *)
LEMMA ReadFrame ==
    ASSUME RInv, NEW t \in Threads, NEW pc, NEW handle, NEW got, NEW result,
           OnlyMoves(t, pc, handle, got, result), io[t].pc # "idle",
           UNCHANGED <<fileVars, sessionVars, kind, preadv>>, HandlesKept(t), ReadSound(t)'
    PROVE  RestInv'
<1>1. UNCHANGED <<store, slots, loader, reads, opens, kind, preadv, fileVars>>
  BY DEF sessionVars
<1>2. reads' \in 0..MaxReads
  BY <1>1 DEF RInv, RestInv, TypeOK
<1> QED
  BY <1>1, <1>2, OneReadFrame DEF OnlyMoves

(***************************************************************************)
(* The entry of a read and the pages at its place.                         *)
(***************************************************************************)
(* Where the records of a create are. *)
LEMMA CreateFacts ==
    ASSUME TypeOK, NEW g \in 1..Len(made)
    PROVE  /\ made[g] \in Shapes /\ made[g].pages \in Nat \ {0} /\ Records(g) \in Nat
           /\ g \in 1..MaxCreates /\ g # 0
           /\ \A i \in Nat : Offset(g, i) \in Nat
           /\ \A i \in Nat : i < Records(g) =>
                 \A p \in 1..made[g].pages : Offset(g, i) + p <= Offset(g, Records(g))
           /\ \A i \in Nat : Offset(g, i + 1) = Offset(g, i) + made[g].pages
<1>1. /\ made \in Seq(Shapes) /\ Len(made) <= MaxCreates /\ MaxCreates \in Nat
  BY ShapesAssumption DEF TypeOK, FileTypeOK
<1>2. made[g] \in Shapes /\ g \in 1..MaxCreates /\ g # 0
  BY <1>1
<1>3. made[g].pages \in Nat \ {0} /\ made[g].layers \in Nat /\ made[g].blocks \in Nat
  BY <1>2, ShapesAssumption
<1>4. Records(g) \in Nat
  BY <1>3 DEF Records
<1>5. \A i \in Nat : Offset(g, i) \in Nat
  BY <1>3 DEF Offset
<1>6. ASSUME NEW i \in Nat, i < Records(g), NEW p \in 1..made[g].pages
      PROVE  Offset(g, i) + p <= Offset(g, Records(g))
  <2>1. i * made[g].pages + p <= Records(g) * made[g].pages
    BY <1>3, <1>4, <1>6, RecordsFit
  <2> QED
    BY <2>1 DEF Offset
<1>7. ASSUME NEW i \in Nat PROVE Offset(g, i + 1) = Offset(g, i) + made[g].pages
  <2>1. (i + 1) * made[g].pages = i * made[g].pages + made[g].pages
    BY <1>3
  <2> QED
    BY <2>1 DEF Offset
<1> QED
  BY <1>2, <1>3, <1>4, <1>5, <1>6, <1>7

(* A read's entry is one of the open store. *)
LEMMA EntryFacts ==
    ASSUME RInv, NEW t \in Threads, io[t].pc # "idle"
    PROVE  /\ io[t].create \in 1..Len(made) /\ io[t].create = store
           /\ io[t].record \in Nat /\ io[t].record < Records(io[t].create)
           /\ Length(t) \in Nat \ {0} /\ Length(t) = made[io[t].create].pages
           /\ io[t].got \in Seq(Page \cup {Hole, Alien}) /\ Len(io[t].got) \in Nat
           /\ Offset(io[t].create, io[t].record) \in Nat
<1>1. TypeOK /\ EntryOK(t) /\ io[t] \in ReadRecord
  BY DEF RInv, RestInv, ReadInv, TypeOK, StorageTypeOK, ReadRecord
<1>2. /\ io[t].create = store /\ store # 0 /\ io[t].record < Records(store)
      /\ store \in 0..Len(made) /\ Len(made) \in Nat
  BY <1>1 DEF EntryOK, TypeOK, FileTypeOK
<1>3. /\ io[t].record \in Nat /\ io[t].got \in Seq(Page \cup {Hole, Alien})
      /\ Len(io[t].got) \in Nat
  BY <1>1 DEF ReadRecord
<1>4. PICK g : g = store
  OBVIOUS
<1>5. g \in 1..Len(made)
  BY <1>2, <1>4
<1>6. made[g].pages \in Nat \ {0} /\ Offset(g, io[t].record) \in Nat
  BY <1>1, <1>3, <1>5, CreateFacts
<1> QED
  BY <1>2, <1>3, <1>4, <1>5, <1>6 DEF Length

(* The next page: in the file while this is the file the store was opened  *)
(* on, and of the entry's place.                                           *)
LEMMA NextPage ==
    ASSUME RInv, NEW t \in Threads, io[t].pc = "copy", NEW x,
           x = Offset(io[t].create, io[t].record) + Len(io[t].got) + 1
    PROVE  /\ x \in Nat \ {0}
           /\ io[t].create = epoch => x <= Len(pages)
           /\ x <= Len(pages) =>
                /\ pages[x] \in Page \cup {Hole}
                /\ pages[x] = Hole \/ InPlace(pages[x], x)
                /\ io[t].create = epoch => pages[x] # Hole /\ pages[x].create = epoch
<1>1. /\ TypeOK /\ FileInv /\ EntryOK(t)
      /\ pages \in Seq(Page \cup {Hole})
  BY DEF RInv, RestInv, ReadInv, TypeOK, FileTypeOK
<1>2. PICK g, i, l, n, o : /\ g = io[t].create /\ i = io[t].record /\ l = Len(io[t].got)
                           /\ n = l + 1 /\ o = Offset(g, i)
  OBVIOUS
<1>3. /\ g \in 1..Len(made) /\ g = store /\ i \in Nat /\ i < Records(g) /\ o \in Nat
      /\ n \in 1..made[g].pages /\ x = o + n /\ g # 0
  <2>1. PICK size : size = made[g].pages
    OBVIOUS
  <2>2. /\ g \in 1..Len(made) /\ g = store /\ i \in Nat /\ i < Records(g) /\ o \in Nat
        /\ l \in Nat /\ size \in Nat /\ Length(t) = size
    BY <1>2, <2>1, EntryFacts
  <2>3. l < size
    BY <1>1, <1>2, <2>2 DEF EntryOK
  <2>4. x = o + l + 1 /\ n = l + 1
    BY <1>2
  <2>5. n \in 1..size /\ x = o + n
    BY ONLY <2>2, <2>3, <2>4
  <2>6. g # 0
    BY <2>2
  <2> QED
    BY <2>1, <2>2, <2>5, <2>6
<1>4. x \in Nat \ {0}
  BY <1>3
<1>5. ASSUME g = epoch PROVE x <= Len(pages)
  <2>1. Len(pages) = Offset(g, Records(g))
    BY <1>1, <1>3, <1>5 DEF FileInv
  <2> QED
    BY <1>1, <1>2, <1>3, <2>1, CreateFacts
<1>6. ASSUME x <= Len(pages)
      PROVE  /\ pages[x] \in Page \cup {Hole}
             /\ pages[x] = Hole \/ InPlace(pages[x], x)
             /\ g = epoch => pages[x] # Hole /\ pages[x].create = epoch
  <2>1. x \in 1..Len(pages)
    BY <1>1, <1>4, <1>6
  <2> QED
    BY <1>1, <1>3, <2>1 DEF FileInv
<1> QED
  BY <1>2, <1>4, <1>5, <1>6

(* Pages of one create in the places of one record are that record. *)
LEMMA PlacedRecord ==
    ASSUME TypeOK, NEW g \in 1..Len(made), NEW i \in Nat, NEW q, NEW n \in 1..made[g].pages,
           InPlace(q, Offset(g, i) + n), made[q.create].pages = made[g].pages
    PROVE  q = [create |-> q.create, record |-> i, part |-> n]
<1>1. /\ q \in Page /\ q.create \in 1..Len(made) /\ q.part \in 1..made[g].pages
      /\ Offset(g, i) + n = Offset(q.create, q.record) + q.part
  BY DEF InPlace
<1>2. q.record \in Nat /\ made[g].pages \in Nat \ {0}
      /\ q = [create |-> q.create, record |-> q.record, part |-> q.part]
  BY <1>1, CreateFacts DEF Page
<1>3. i * made[g].pages + n = q.record * made[g].pages + q.part
  BY <1>1 DEF Offset
<1>4. q.record = i /\ q.part = n
  BY <1>1, <1>2, <1>3, OneRecord
<1> QED
  BY <1>2, <1>4

(* All pages of a read of the file the store was opened on: its record.    *)
LEMMA ExactBytes ==
    ASSUME RInv, NEW t \in Threads, io[t].pc # "idle", Len(io[t].got) = Length(t),
           io[t].create = epoch
    PROVE  io[t].got = Wanted(t)
<1>1. TypeOK /\ BytesOK(t)
  BY DEF RInv, RestInv, ReadInv
<1>2. PICK g, i, got : g = io[t].create /\ i = io[t].record /\ got = io[t].got
  OBVIOUS
<1>3. /\ g \in 1..Len(made) /\ i \in Nat /\ got \in Seq(Page \cup {Hole, Alien})
      /\ Len(got) = made[g].pages /\ Len(got) \in Nat
  BY <1>2, EntryFacts
<1>4. ASSUME NEW n \in 1..Len(got) PROVE got[n] = [create |-> g, record |-> i, part |-> n]
  <2>1. InPlace(got[n], Offset(g, i) + n) /\ got[n].create = g
    BY <1>1, <1>2, <1>4 DEF BytesOK
  <2> QED
    BY <1>1, <1>3, <2>1, PlacedRecord
<1>5. got = [n \in 1..Len(got) |-> got[n]]
  BY <1>3
<1>6. got = [n \in 1..made[g].pages |-> [create |-> g, record |-> i, part |-> n]]
  BY <1>3, <1>4, <1>5
<1> QED
  BY <1>2, <1>6 DEF Wanted, RecordPages

(* What decode_record accepts is a whole record of the entry's place. *)
LEMMA AcceptedIsWhole ==
    ASSUME RInv, NEW t \in Threads, io[t].pc # "idle", Len(io[t].got) = Length(t),
           HeaderFits(io[t].got, io[t].create), CRCMatches(io[t].got)
    PROVE  \E g \in 1..Len(made) : io[t].got = RecordPages(g, io[t].record)
<1>1. TypeOK /\ BytesOK(t)
  BY DEF RInv, RestInv, ReadInv
<1>2. PICK g, i, got, q : /\ g = io[t].create /\ i = io[t].record /\ got = io[t].got
                          /\ q = got[1]
  OBVIOUS
<1>3. /\ g \in 1..Len(made) /\ i \in Nat /\ Len(got) = made[g].pages
      /\ made[g].pages \in Nat \ {0} /\ 1 \in 1..Len(got) /\ made[g] \in Shapes
  <2>1. g \in 1..Len(made) /\ i \in Nat /\ Len(got) = made[g].pages
    BY <1>2, EntryFacts
  <2>2. made[g].pages \in Nat \ {0} /\ made[g] \in Shapes
    BY <1>1, <2>1, CreateFacts
  <2>3. 1 \in 1..Len(got)
    BY <2>1, <2>2
  <2> QED
    BY <2>1, <2>2, <2>3
<1>4. /\ q # Hole /\ made[q.create].layout = made[g].layout
      /\ got = RecordPages(q.create, q.record)
  BY <1>2 DEF HeaderFits, CRCMatches
<1>5. InPlace(q, Offset(g, i) + 1)
  BY <1>1, <1>2, <1>3, <1>4 DEF BytesOK
<1>6. q.create \in 1..Len(made) /\ made[q.create].pages = made[g].pages
  <2>1. q.create \in 1..Len(made)
    BY <1>5 DEF InPlace
  <2>2. made[q.create] \in Shapes
    BY <1>1, <2>1, CreateFacts
  <2> QED
    BY <1>3, <1>4, <2>1, <2>2, ShapesAssumption
<1>7. q = [create |-> q.create, record |-> i, part |-> 1]
  BY <1>1, <1>3, <1>5, <1>6, PlacedRecord
<1>8. q.record = i
  BY <1>7
<1> QED
  BY <1>2, <1>4, <1>6, <1>8

(***************************************************************************)
(* The steps of a read.                                                    *)
(***************************************************************************)
StepOf(t) == /\ UNCHANGED <<fileVars, sessionVars>> /\ io[t].pc # "idle"

(* What holds of a read before its step. *)
LEMMA Before ==
    ASSUME RInv, NEW t \in Threads
    PROVE  /\ TypeOK /\ EntryOK(t) /\ HandleOK(t) /\ BytesOK(t) /\ WholeOK(t) /\ ErrorOK(t)
           /\ SessionInv /\ ReadsByKind /\ SeekRegionExclusive /\ NoDescriptorLeak
           /\ io[t] \in ReadRecord /\ table \in [Fds -> {"free", "data", "other"}]
           /\ position \in [Fds -> Nat] /\ fd \in Fds \cup {NoFd}
           /\ lock \in Threads \cup {NoThread} /\ NoFd \notin Fds /\ NoThread \notin Threads
BY StorageAssumption DEF RInv, RestInv, ReadInv, IInv, TypeOK, StorageTypeOK, ReadRecord,
   CheckedReadsWhole, NoSpuriousError, WholeOK, ErrorOK

(* A step that only moves a read from one stage to another, before its     *)
(* first byte.                                                             *)
LEMMA StageSound ==
    ASSUME RInv, NEW t \in Threads, NEW pc, NEW handle, NEW result,
           OnlyMoves(t, pc, handle, io[t].got, result), StepOf(t),
           pc \in {"make", "take", "read", "lock", "seek", "copy"}, io[t].got = <<>>,
           result = "none", HandleOK(t)', UNCHANGED <<kind, preadv>>
    PROVE  ReadSound(t)'
<1>1. UNCHANGED <<made, epoch, store, slots>>
  BY DEF StepOf, fileVars, sessionVars
<1>2. /\ io'[t].pc = pc /\ io'[t].got = <<>> /\ io'[t].result = "none"
      /\ io'[t].create = io[t].create /\ io'[t].record = io[t].record
  BY DEF OnlyMoves
<1>3. EntryOK(t)'
  <2>1. io[t].create = store /\ store # 0 /\ io[t].record < Records(store)
    BY EntryFacts, Before DEF StepOf, EntryOK
  <2>2. Length(t)' = Length(t) /\ Length(t) \in Nat \ {0} /\ Len(<<>>) = 0
    BY <1>1, <1>2, EntryFacts DEF Length, StepOf
  <2>3. 0 < Length(t)'
    BY <2>2
  <2> QED
    BY <1>1, <1>2, <2>1, <2>2, <2>3 DEF EntryOK, Records
<1>4. BytesOK(t)'
  <2>1. 1..Len(<<>>) = {}
    OBVIOUS
  <2> QED
    BY <1>2, <2>1 DEF BytesOK
<1> QED
  BY <1>2, <1>3, <1>4 DEF ReadSound, WholeOK, ErrorOK

(* A read that is over. *)
LEMMA EndsSound ==
    ASSUME RInv, NEW t \in Threads, NEW result \in {"ok", "error"}, Ends(t, result),
           StepOf(t), UNCHANGED <<kind, preadv, fd>>, position' \in [Fds -> Nat],
           \A u \in Threads : u # t /\ lock = u => position' = position,
           result = "ok" => Len(io[t].got) = Length(t),
           result = "ok" /\ io[t].checked =>
               \E g \in 1..Len(made) : io[t].got = RecordPages(g, io[t].record),
           result = "error" => io[t].create # epoch
    PROVE  RestInv'
<1>0. UNCHANGED <<made, epoch, store, slots>>
  BY DEF StepOf, fileVars, sessionVars
<1>1. OnlyMoves(t, "returns", NoFd, io[t].got, result)
  BY Before, EndsMoves
<1>2. /\ \A u \in Threads : u # t => io'[u] = io[u]
      /\ io'[t].pc = "returns" /\ io'[t].fd = NoFd /\ io'[t].got = io[t].got
      /\ io'[t].result = result /\ io'[t].create = io[t].create
      /\ io'[t].record = io[t].record /\ io'[t].checked = io[t].checked
  BY <1>1 DEF OnlyMoves
<1>3. table' = (IF kind = "gds" THEN Reclaimed(table, fd, io') ELSE table)
      /\ lock' = (IF lock = t THEN NoThread ELSE lock)
  BY DEF Ends
<1>4. HandlesKept(t)
  <2>1. /\ table' \in [Fds -> {"free", "data", "other"}] /\ lock' \in Threads \cup {NoThread}
        /\ \A f \in Fds : table'[f] = "other" => table[f] = "other"
    BY <1>3, Before DEF Reclaimed
  <2>2. fd' # NoFd => table'[fd'] = "data"
    BY <1>3, Before DEF Reclaimed, Held, SessionInv
  <2>3. ASSUME NEW u \in Threads, u # t
        PROVE  /\ io[u].pc = "take" => fd' # NoFd
               /\ io[u].fd # NoFd => table'[io[u].fd] = "data" /\ (kind # "gds" => fd' = fd)
               /\ lock' = u /\ io[u].pc = "copy" =>
                    lock = u /\ position'[io[u].fd] = position[io[u].fd]
    <3>1. HandleOK(u) /\ io[u] \in ReadRecord /\ io'[u] = io[u]
      BY <1>2, <2>3, Before
    <3>2. io[u].fd # NoFd => table'[io[u].fd] = "data"
      BY <1>3, <3>1 DEF Reclaimed, Held, HandleOK, ReadRecord
    <3>3. lock' = u => lock = u
      BY <1>3, <2>3, Before
    <3> QED
      BY <2>3, <3>1, <3>2, <3>3 DEF HandleOK
  <2> QED
    BY <2>1, <2>2, <2>3, Before DEF HandlesKept
<1>5. ReadSound(t)'
  <2>1. EntryOK(t)'
    <3>1. io[t].create = store /\ store # 0 /\ io[t].record < Records(store)
      BY Before DEF StepOf, EntryOK
    <3>2. Length(t)' = Length(t)
      BY <1>0, <1>2 DEF Length
    <3> QED
      BY <1>0, <1>2, <3>1, <3>2 DEF EntryOK, Records
  <2>2. HandleOK(t)'
    BY <1>2 DEF HandleOK
  <2>3. BytesOK(t)'
    BY <1>0, <1>2, Before DEF BytesOK, InPlace, Offset
  <2>4. WholeOK(t)' /\ ErrorOK(t)'
    BY <1>0, <1>2 DEF WholeOK, ErrorOK, RecordPages
  <2> QED
    BY <2>1, <2>2, <2>3, <2>4 DEF ReadSound
<1> QED
  BY <1>1, <1>4, <1>5, ReadFrame DEF StepOf

(* _file_descriptor: the first read opens the file, the others share it. *)
LEMMA FileDescriptorReads ==
    ASSUME RInv, NEW t \in Threads, StepOf(t), FileDescriptor(t)
    PROVE  RestInv'
<1>1. /\ kind # "gds" /\ io[t].pc = "open" /\ UNCHANGED <<kind, preadv, lock>>
      /\ fd' = (IF fd = NoFd THEN LowestFree ELSE fd)
      /\ table' = [table EXCEPT ![fd'] = "data"]
      /\ position' = (IF fd = NoFd THEN [position EXCEPT ![fd'] = 0] ELSE position)
  BY DEF FileDescriptor
<1>2. PICK h, pc : h = fd' /\ pc = (IF preadv THEN "read" ELSE "lock")
  OBVIOUS
<1>3. h \in Fds
  BY <1>1, <1>2, FreeNumber, Before DEF RInv, RestInv
<1>4. pc \in {"read", "lock"} /\ pc \in Stages
  BY <1>2 DEF Stages
<1>5. OnlyMoves(t, pc, h, io[t].got, io[t].result)
  <2>1. io' = [io EXCEPT ![t].fd = h, ![t].pc = pc]
    BY <1>2 DEF FileDescriptor
  <2> QED
    BY <1>3, <1>4, <2>1, Before, HandleMoves
<1>6. /\ io'[t].pc = pc /\ io'[t].fd = h
      /\ \A u \in Threads : u # t => io'[u] = io[u]
  BY <1>5 DEF OnlyMoves
<1>7. table'[h] = "data" /\ \A f \in Fds : f # h => table'[f] = table[f]
  BY <1>1, <1>2, <1>3, Before
<1>8. HandleOK(t)'
  BY <1>1, <1>2, <1>3, <1>4, <1>6, <1>7, Before DEF HandleOK
<1>9. ReadSound(t)'
  BY <1>1, <1>4, <1>5, <1>8, StageSound, Before DEF EntryOK
<1>10. HandlesKept(t)
  <2>1. /\ table' \in [Fds -> {"free", "data", "other"}] /\ position' \in [Fds -> Nat]
    BY <1>1, <1>3, Before
  <2>2. ASSUME NEW u \in Threads, u # t
        PROVE  /\ io[u].pc = "take" => fd' # NoFd
               /\ io[u].fd # NoFd => table'[io[u].fd] = "data" /\ (kind # "gds" => fd' = fd)
               /\ lock' = u /\ io[u].pc = "copy" =>
                    lock = u /\ position'[io[u].fd] = position[io[u].fd]
    <3>1. HandleOK(u) /\ io[u] \in ReadRecord
      BY Before
    <3>2. io[u].fd # NoFd => fd' = fd /\ io[u].fd = fd /\ position' = position
      BY <1>1, <3>1 DEF HandleOK
    <3>3. io[u].pc = "copy" => io[u].fd # NoFd
      BY <3>1 DEF HandleOK
    <3> QED
      BY <1>1, <1>2, <1>3, <1>7, <3>2, <3>3, Before
  <2> QED
    BY <1>1, <1>2, <1>3, <1>7, <2>1, <2>2, Before DEF HandlesKept
<1> QED
  BY <1>1, <1>5, <1>9, <1>10, ReadFrame DEF StepOf

(* A step that touches no descriptor, no offset and not the other threads' *)
(* lock.                                                                   *)
LEMMA HandlesUntouched ==
    ASSUME RInv, NEW t \in Threads, UNCHANGED <<table, position, fd>>,
           lock' \in {lock, t, NoThread}
    PROVE  HandlesKept(t)
BY Before DEF HandlesKept, HandleOK, SessionInv

(* _ensure_handle: is there a handle? *)
LEMMA HandleTestReads ==
    ASSUME RInv, NEW t \in Threads, StepOf(t), HandleTest(t)
    PROVE  RestInv'
<1>1. PICK pc : pc = IF fd = NoFd THEN "make" ELSE "take"
  OBVIOUS
<1>2. /\ Step(t, pc) /\ pc \in Stages /\ io[t].pc = "open"
      /\ UNCHANGED <<kind, preadv, table, position, fd, lock>>
  BY <1>1 DEF HandleTest, Stages
<1>3. OnlyMoves(t, pc, io[t].fd, io[t].got, io[t].result)
  BY <1>2, Before, StepMoves
<1>4. HandleOK(t)'
  BY <1>1, <1>2, <1>3, Before DEF OnlyMoves, HandleOK, ReadsByKind
<1>5. ReadSound(t)'
  BY <1>1, <1>2, <1>3, <1>4, StageSound, Before DEF EntryOK
<1> QED
  BY <1>2, <1>3, <1>5, HandlesUntouched, ReadFrame DEF StepOf

(* It makes one; the handle it replaces lives on while a read has it. *)
LEMMA HandleMakeReads ==
    ASSUME RInv, NEW t \in Threads, StepOf(t), HandleMake(t)
    PROVE  RestInv'
<1>1. /\ io[t].pc = "make" /\ Step(t, "take") /\ "take" \in Stages
      /\ UNCHANGED <<kind, preadv, lock>>
  BY DEF HandleMake, Stages
<1>2. io[t].fd = NoFd /\ kind = "gds" /\ preadv
  BY <1>1, Before DEF ReadsByKind
<1>3. PICK h : h = fd' /\ h = LowestFree
  BY DEF HandleMake
<1>4. h \in Fds /\ table[h] = "free"
  BY <1>2, <1>3, FreeNumber DEF RInv, RestInv
<1>5. OnlyMoves(t, "take", NoFd, io[t].got, io[t].result)
  BY <1>1, <1>2, Before, StepMoves
<1>6. /\ io'[t].pc = "take" /\ io'[t].fd = NoFd
      /\ \A u \in Threads : u # t => io'[u] = io[u]
  BY <1>5 DEF OnlyMoves
<1>7. /\ position' \in [Fds -> Nat] /\ table' \in [Fds -> {"free", "data", "other"}]
      /\ table'[h] = "data"
      /\ \A f \in Fds : table'[f] = "other" => table[f] = "other"
      /\ \A u \in Threads : io'[u].fd # NoFd /\ table[io'[u].fd] = "data"
                              /\ io'[u].fd \in Fds => table'[io'[u].fd] = "data"
  <2>1. /\ table' = Reclaimed([table EXCEPT ![h] = "data"], h, io')
        /\ position' = [position EXCEPT ![h] = 0]
    BY <1>3 DEF HandleMake
  <2>2. position' \in [Fds -> Nat]
    BY <1>4, <2>1, Before
  <2> QED
    BY <1>4, <2>1, <2>2, Before DEF Reclaimed, Held
<1>8. HandleOK(t)'
  BY <1>1, <1>3, <1>4, <1>6, Before DEF HandleOK
<1>9. ReadSound(t)'
  BY <1>1, <1>5, <1>8, StageSound, Before DEF EntryOK
<1>10. HandlesKept(t)
  <2>1. ASSUME NEW u \in Threads, u # t
        PROVE  /\ io[u].fd # NoFd => table'[io[u].fd] = "data"
               /\ ~(lock' = u)
    <3>1. HandleOK(u) /\ io[u] \in ReadRecord /\ io'[u] = io[u]
      BY <1>6, <2>1, Before
    <3>2. io[u].fd \in Fds \cup {NoFd}
      BY <3>1 DEF ReadRecord
    <3> QED
      BY <1>1, <1>2, <1>7, <2>1, <3>1, <3>2, Before DEF HandleOK, SeekRegionExclusive
  <2> QED
    BY <1>1, <1>2, <1>3, <1>4, <1>7, <2>1, Before DEF HandlesKept
<1> QED
  BY <1>1, <1>5, <1>9, <1>10, ReadFrame DEF StepOf

(* It returns self._handle, which no step empties under a read. *)
LEMMA HandleTakeReads ==
    ASSUME RInv, NEW t \in Threads, StepOf(t), HandleTake(t)
    PROVE  RestInv'
<1>1. io[t].pc = "take" /\ fd \in Fds /\ table[fd] = "data" /\ kind = "gds"
  BY Before DEF HandleTake, HandleOK, SessionInv, ReadsByKind
<1>2. /\ io' = [io EXCEPT ![t].fd = fd, ![t].pc = "read"] /\ "read" \in Stages
      /\ UNCHANGED <<kind, preadv, table, position, fd, lock>>
  BY <1>1, Before DEF HandleTake, Stages
<1>3. OnlyMoves(t, "read", fd, io[t].got, io[t].result)
  BY <1>1, <1>2, Before, HandleMoves
<1>4. HandleOK(t)'
  BY <1>1, <1>2, <1>3, Before DEF OnlyMoves, HandleOK
<1>5. ReadSound(t)'
  BY <1>1, <1>2, <1>3, <1>4, StageSound, Before DEF EntryOK
<1> QED
  BY <1>2, <1>3, <1>5, HandlesUntouched, ReadFrame DEF StepOf

(* preadv and cuFileRead: the descriptor is open on the data file. *)
LEMMA PreadvReads ==
    ASSUME RInv, NEW t \in Threads, StepOf(t), Preadv(t)
    PROVE  RestInv'
<1>1. io[t].pc = "read" /\ table[io[t].fd] = "data" /\ io[t].fd # NoFd /\ preadv
  BY Before DEF Preadv, HandleOK, ReadsByKind
<1>2. /\ Step(t, "copy") /\ "copy" \in Stages
      /\ UNCHANGED <<kind, preadv, table, position, fd, lock>>
  BY <1>1 DEF Preadv, Stages
<1>3. OnlyMoves(t, "copy", io[t].fd, io[t].got, io[t].result)
  BY <1>2, Before, StepMoves
<1>4. lock # t
  BY <1>1, Before DEF SeekRegionExclusive
<1>5. HandleOK(t)'
  BY <1>1, <1>2, <1>3, <1>4, Before DEF OnlyMoves, HandleOK
<1>6. ReadSound(t)'
  BY <1>1, <1>2, <1>3, <1>5, StageSound, Before DEF EntryOK
<1> QED
  BY <1>2, <1>3, <1>6, HandlesUntouched, ReadFrame DEF StepOf

(* The fallback takes its lock. *)
LEMMA LockFallbackReads ==
    ASSUME RInv, NEW t \in Threads, StepOf(t), LockFallback(t)
    PROVE  RestInv'
<1>1. /\ io[t].pc = "lock" /\ lock' = t /\ Step(t, "seek") /\ "seek" \in Stages
      /\ UNCHANGED <<kind, preadv, table, position, fd>>
  BY DEF LockFallback, Stages
<1>2. OnlyMoves(t, "seek", io[t].fd, io[t].got, io[t].result)
  BY <1>1, Before, StepMoves
<1>3. HandleOK(t)'
  BY <1>1, <1>2, Before DEF OnlyMoves, HandleOK
<1>4. ReadSound(t)'
  BY <1>1, <1>2, <1>3, StageSound, Before DEF EntryOK
<1> QED
  BY <1>1, <1>2, <1>4, HandlesUntouched, ReadFrame DEF StepOf

(* lseek, under the lock. *)
LEMMA SeekReads ==
    ASSUME RInv, NEW t \in Threads, StepOf(t), Seek(t)
    PROVE  RestInv'
<1>1. /\ io[t].pc = "seek" /\ table[io[t].fd] = "data" /\ io[t].fd \in Fds
      /\ io[t].got = <<>> /\ lock = t
  BY Before DEF Seek, HandleOK, ReadRecord, EntryOK, ReadsByKind, SeekRegionExclusive
<1>2. PICK o, h : o = Offset(io[t].create, io[t].record) /\ h = io[t].fd
  OBVIOUS
<1>3. o \in Nat
  BY <1>2, EntryFacts DEF StepOf
<1>4. /\ position' = [position EXCEPT ![h] = o] /\ Step(t, "copy") /\ "copy" \in Stages
      /\ UNCHANGED <<kind, preadv, fd, table, lock>>
  BY <1>1, <1>2 DEF Seek, Stages
<1>5. position' \in [Fds -> Nat] /\ position'[h] = o
  BY <1>1, <1>2, <1>3, <1>4, Before
<1>6. OnlyMoves(t, "copy", h, io[t].got, io[t].result)
  BY <1>2, <1>4, Before, StepMoves
<1>7. /\ io'[t].fd = h /\ io'[t].got = <<>> /\ io'[t].pc = "copy"
      /\ io'[t].create = io[t].create /\ io'[t].record = io[t].record
  BY <1>1, <1>6 DEF OnlyMoves
<1>8. HandleOK(t)'
  <2>1. Offset(io[t].create, io[t].record)' = o
    BY <1>2, <1>7 DEF Offset, StepOf, fileVars
  <2>2. o + Len(<<>>) = o
    BY <1>3
  <2> QED
    BY <1>1, <1>2, <1>4, <1>5, <1>7, <2>1, <2>2, Before DEF HandleOK
<1>9. ReadSound(t)'
  BY <1>1, <1>4, <1>6, <1>8, StageSound, Before DEF EntryOK
<1>10. HandlesKept(t)
  BY <1>1, <1>4, <1>5, Before DEF HandlesKept, HandleOK, SessionInv
<1> QED
  BY <1>4, <1>6, <1>9, <1>10, ReadFrame DEF StepOf

(* One page joins the bytes; a read that finds no page there is over. *)
LEMMA CopyReads ==
    ASSUME RInv, NEW t \in Threads, StepOf(t), io[t].pc = "copy", NEW x,
           x = Offset(io[t].create, io[t].record) + Len(io[t].got) + 1,
           CopyFrom(t, x), UNCHANGED <<kind, preadv, fd>>,
           position' \in [Fds -> Nat],
           lock # t => position' = position,
           lock = t => position'[io[t].fd] = x
    PROVE  RestInv'
<1>1. CASE ~(x <= Len(pages))
  <2>1. io[t].create # epoch
    BY <1>1, NextPage
  <2>2. Ends(t, "error")
    BY <1>1 DEF CopyFrom
  <2> QED
    BY <2>1, <2>2, EndsSound, Before
<1>2. CASE x <= Len(pages)
  <2>1. PICK pc, q, l : /\ q = pages[x] /\ l = Len(io[t].got)
                        /\ pc = IF l + 1 = Length(t) THEN "decode" ELSE "copy"
    OBVIOUS
  <2>2. /\ io' = [io EXCEPT ![t].got = Append(io[t].got, q), ![t].pc = pc]
        /\ lock' = IF lock = t /\ l + 1 = Length(t) THEN NoThread ELSE lock
        /\ table' = table
    BY <1>2, <2>1, Before DEF CopyFrom, ReadRecord
  <2>3. /\ q \in Page \cup {Hole}
        /\ q = Hole \/ InPlace(q, x)
        /\ io[t].create = epoch => q # Hole /\ q.create = epoch
    BY <1>2, <2>1, NextPage
  <2>4. PICK got : got = Append(io[t].got, q)
    OBVIOUS
  <2>5. /\ io[t].got \in Seq(Page \cup {Hole, Alien}) /\ l \in Nat /\ Length(t) \in Nat
        /\ l < Length(t) /\ Offset(io[t].create, io[t].record) \in Nat
    BY <2>1, EntryFacts, Before DEF StepOf, EntryOK
  <2>6. /\ got \in Seq(Page \cup {Hole, Alien}) /\ Len(got) = l + 1
        /\ \A n \in 1..l : got[n] = io[t].got[n]
        /\ got[l + 1] = q
    BY <2>1, <2>3, <2>4, <2>5, AppendProperties
  <2>7. OnlyMoves(t, pc, io[t].fd, got, io[t].result) /\ pc \in {"copy", "decode"}
    <3>1. pc \in Stages /\ pc \in {"copy", "decode"}
      BY <2>1 DEF Stages
    <3> QED
      BY <2>2, <2>4, <2>6, <3>1, BytesMove, Before
  <2>8. /\ io'[t].pc = pc /\ io'[t].fd = io[t].fd /\ io'[t].got = got
        /\ io'[t].create = io[t].create /\ io'[t].record = io[t].record
        /\ io'[t].result = "none"
    BY <2>7, Before DEF OnlyMoves, EntryOK
  <2>9. UNCHANGED <<made, epoch, store, slots>>
    BY DEF StepOf, fileVars, sessionVars
  <2>10. EntryOK(t)'
    <3>1. io[t].create = store /\ store # 0 /\ io[t].record < Records(store)
      BY Before DEF StepOf, EntryOK
    <3>2. Length(t)' = Length(t)
      BY <2>8, <2>9 DEF Length
    <3>3. pc = "decode" => Len(got) = Length(t)
      BY <2>1, <2>6
    <3>4. pc = "copy" => Len(got) < Length(t)
      BY <2>1, <2>5, <2>6
    <3> QED
      BY <2>7, <2>8, <2>9, <3>1, <3>2, <3>3, <3>4 DEF EntryOK, Records
  <2>11. BytesOK(t)'
    <3> SUFFICES ASSUME NEW n \in 1..Len(got)
                 PROVE  /\ \/ got[n] = Hole
                           \/ InPlace(got[n], Offset(io[t].create, io[t].record) + n)
                        /\ io[t].create = epoch => got[n] # Hole /\ got[n].create = epoch
      BY <2>8, <2>9 DEF BytesOK, InPlace, Offset
    <3>1. CASE n = l + 1
      <4>1. Offset(io[t].create, io[t].record) + n = x
        BY <2>1, <2>5, <3>1
      <4> QED
        BY <2>3, <2>6, <3>1, <4>1
    <3>2. CASE n # l + 1
      <4>1. n \in 1..l
        BY <2>5, <2>6, <3>2
      <4> QED
        BY <2>1, <2>6, <4>1, Before DEF BytesOK
    <3> QED
      BY <3>1, <3>2
  <2>12. HandleOK(t)'
    <3>1. Offset(io[t].create, io[t].record)' = Offset(io[t].create, io[t].record)
      BY <2>8, <2>9 DEF Offset
    <3>2. x = Offset(io[t].create, io[t].record) + Len(got)
      BY <2>1, <2>5, <2>6
    <3>3. lock' = t => lock = t
      BY <2>2, Before
    <3> QED
      BY <2>2, <2>7, <2>8, <3>1, <3>2, <3>3, Before DEF HandleOK
  <2>13. ReadSound(t)'
    BY <2>8, <2>10, <2>11, <2>12 DEF ReadSound, WholeOK, ErrorOK
  <2>14. HandlesKept(t)
    BY <2>2, Before DEF HandlesKept, HandleOK, SessionInv
  <2> QED
    BY <2>7, <2>13, <2>14, ReadFrame DEF StepOf
<1> QED
  BY <1>1, <1>2

(* preadv and cuFileRead at the entry's offset. *)
LEMMA CopyPageReads ==
    ASSUME RInv, NEW t \in Threads, StepOf(t), CopyPage(t)
    PROVE  RestInv'
<1>1. PICK x : x = Offset(io[t].create, io[t].record) + Len(io[t].got) + 1
  OBVIOUS
<1>2. /\ io[t].pc = "copy" /\ lock # t /\ CopyFrom(t, x)
      /\ UNCHANGED <<kind, preadv, position, fd>>
  BY <1>1 DEF CopyPage
<1> QED
  BY <1>1, <1>2, CopyReads, Before

(* read at the offset of the descriptor, which is the entry's. *)
LEMMA SeekReadReads ==
    ASSUME RInv, NEW t \in Threads, StepOf(t), SeekRead(t)
    PROVE  RestInv'
<1>1. io[t].pc = "copy" /\ lock = t
  BY DEF SeekRead
<1>2. PICK h, p : h = io[t].fd /\ p = position[h]
  OBVIOUS
<1>3. /\ h \in Fds /\ table[h] = "data" /\ p \in Nat
      /\ p = Offset(io[t].create, io[t].record) + Len(io[t].got)
  BY <1>1, <1>2, Before DEF HandleOK, ReadRecord
<1>4. /\ CopyFrom(t, p + 1) /\ UNCHANGED <<kind, preadv, fd>>
      /\ position' = [position EXCEPT ![h] = p + 1]
  BY <1>2, <1>3, Before DEF SeekRead
<1>5. position' \in [Fds -> Nat] /\ position'[h] = p + 1
  BY <1>3, <1>4, Before
<1>6. p + 1 = Offset(io[t].create, io[t].record) + Len(io[t].got) + 1
  BY <1>3
<1> QED
  BY <1>1, <1>2, <1>4, <1>5, <1>6, CopyReads

(* decode_record, or none of it on the device path. *)
LEMMA DecodeReads ==
    ASSUME RInv, NEW t \in Threads, StepOf(t), Decode(t)
    PROVE  RestInv'
<1>1. io[t].pc = "decode" /\ UNCHANGED <<kind, preadv, position, fd>>
  BY DEF Decode
<1>2. Len(io[t].got) = Length(t)
  BY <1>1, Before DEF EntryOK
<1>3. PICK sound \in BOOLEAN :
          sound = (io[t].checked => HeaderFits(io[t].got, io[t].create) /\ CRCMatches(io[t].got))
  OBVIOUS
<1>4. CASE sound
  <2>1. Ends(t, "ok")
    BY <1>3, <1>4 DEF Decode
  <2>2. io[t].checked => \E g \in 1..Len(made) : io[t].got = RecordPages(g, io[t].record)
    BY <1>2, <1>3, <1>4, AcceptedIsWhole DEF StepOf
  <2> QED
    BY <1>1, <1>2, <2>1, <2>2, EndsSound, Before
<1>5. CASE ~sound
  <2>1. Ends(t, "error")
    BY <1>3, <1>5 DEF Decode
  <2>2. io[t].create # epoch
    <3> SUFFICES ASSUME io[t].create = epoch PROVE FALSE
      OBVIOUS
    <3>1. PICK g, i, got : g = io[t].create /\ i = io[t].record /\ got = io[t].got
      OBVIOUS
    <3>2. got = RecordPages(g, i)
      BY <1>2, <3>1, ExactBytes DEF StepOf, Wanted
    <3>3. made[g].pages \in Nat \ {0} /\ i \in Nat /\ g \in 1..MaxCreates
      BY <3>1, EntryFacts, CreateFacts, Before DEF StepOf
    <3>4. got[1] = [create |-> g, record |-> i, part |-> 1]
      BY <3>2, <3>3 DEF RecordPages
    <3>5. got[1] \in Page /\ got[1].create = g /\ got[1].record = i /\ got[1].part = 1
      BY <3>3, <3>4 DEF Page
    <3>6. HeaderFits(got, g) /\ CRCMatches(got)
      BY <3>2, <3>5, StorageAssumption DEF HeaderFits, CRCMatches
    <3> QED
      BY <1>3, <1>5, <3>1, <3>6
  <2> QED
    BY <1>1, <2>1, <2>2, EndsSound, Before
<1> QED
  BY <1>4, <1>5

(* The caller has the result. *)
LEMMA ReturnReads ==
    ASSUME RInv, NEW t \in Threads, StepOf(t), Return(t)
    PROVE  RestInv'
<1>1. /\ NoRead \in ReadRecord /\ NoRead.pc = "idle" /\ NoRead.fd = NoFd /\ NoRead.got = <<>>
      /\ NoRead.result = "none"
  BY ShapesAssumption DEF NoRead, ReadRecord, Stages
<1>2. /\ io' \in [Threads -> ReadRecord] /\ io'[t] = NoRead
      /\ \A u \in Threads : u # t => io'[u] = io[u]
  <2>1. io' = [u \in Threads |-> IF u = t THEN NoRead ELSE io[u]]
    BY DEF Return, RInv, RestInv, TypeOK, StorageTypeOK
  <2> QED
    BY <1>1, <2>1, Replaced, Before
<1>3. /\ UNCHANGED <<kind, preadv, table, position, fd, lock>> /\ io[t].pc = "returns"
      /\ UNCHANGED <<fileVars, store, slots, loader, reads, opens>>
  BY DEF Return, StepOf, sessionVars
<1>4. HandlesKept(t)
  BY <1>3, HandlesUntouched
<1>5. ReadSound(t)'
  <2>1. 1..Len(<<>>) = {}
    OBVIOUS
  <2>2. EntryOK(t)' /\ HandleOK(t)'
    BY <1>1, <1>2 DEF EntryOK, HandleOK
  <2>3. BytesOK(t)'
    BY <1>1, <1>2, <2>1 DEF BytesOK
  <2> QED
    BY <1>1, <1>2, <2>2, <2>3 DEF ReadSound, WholeOK, ErrorOK
<1> QED
  BY <1>2, <1>3, <1>4, <1>5, OneReadFrame, Before DEF TypeOK

(* Every step of a read. *)
LEMMA ReadStepRest ==
    ASSUME RInv, NEW t \in Threads, ReadStep(t), UNCHANGED <<fileVars, sessionVars>>
    PROVE  RestInv'
<1>1. io[t].pc # "idle"
  BY DEF ReadStep, FileDescriptor, HandleTest, HandleMake, HandleTake, Preadv, CopyPage,
     LockFallback, Seek, SeekRead, Decode, Return
<1>2. StepOf(t)
  BY <1>1 DEF StepOf
<1> QED
  BY <1>2, FileDescriptorReads, HandleTestReads, HandleMakeReads, HandleTakeReads, PreadvReads,
     CopyPageReads, LockFallbackReads, SeekReads, SeekReadReads, DecodeReads, ReturnReads
     DEF ReadStep

(***************************************************************************)
(* create, beside the reads.                                               *)
(***************************************************************************)
(* Creates are only added, and the file becomes that of a new one.         *)
MadeKept ==
    /\ Len(made) \in Nat /\ Len(made') \in Nat /\ Len(made) <= Len(made')
    /\ \A g \in 1..Len(made) : made'[g] = made[g]
    /\ epoch' = epoch \/ epoch' \notin 0..Len(made)

(* Nothing of a read depends on the creates after its own. *)
LEMMA CreateReads ==
    ASSUME RInv, MadeKept, UNCHANGED <<storageVars, sessionVars>>
    PROVE  SessionInv' /\ ReadInv'
<1>1. UNCHANGED <<kind, preadv, table, position, fd, lock, io, store, slots, loader>>
  BY DEF storageVars, sessionVars
<1>2. SessionInv'
  BY <1>1 DEF RInv, RestInv, SessionInv
<1>3. ASSUME NEW t \in Threads PROVE ReadSound(t)'
  <2>1. CASE io[t].pc = "idle"
    <3>1. io'[t] = NoRead
      BY <1>1, <2>1, Before DEF EntryOK
    <3>2. NoRead.pc = "idle" /\ NoRead.fd = NoFd /\ NoRead.got = <<>> /\ NoRead.result = "none"
      BY DEF NoRead
    <3>3. 1..Len(<<>>) = {}
      OBVIOUS
    <3> QED
      BY <3>1, <3>2, <3>3 DEF ReadSound, EntryOK, HandleOK, BytesOK, WholeOK, ErrorOK
  <2>2. CASE io[t].pc # "idle"
    <3>1. PICK g : g = io[t].create
      OBVIOUS
    <3>2. /\ g \in 1..Len(made) /\ g = store /\ made'[g] = made[g]
          /\ (g = epoch') => (g = epoch)
      <4>1. g \in 1..Len(made) /\ g = store /\ Len(made) \in Nat
        BY <2>2, <3>1, EntryFacts DEF RInv, RestInv, TypeOK, FileTypeOK
      <4> QED
        BY <4>1 DEF MadeKept
    <3>3. /\ Length(t)' = Length(t) /\ Records(store)' = Records(store)
          /\ Offset(g, io[t].record)' = Offset(g, io[t].record)
      BY <1>1, <3>1, <3>2 DEF Length, Records, Offset
    <3>4. EntryOK(t)' /\ HandleOK(t)'
      BY <1>1, <3>1, <3>3, Before DEF EntryOK, HandleOK
    <3>5. BytesOK(t)'
      <4> SUFFICES ASSUME NEW n \in 1..Len(io[t].got)
                   PROVE  /\ \/ io[t].got[n] = Hole
                             \/ InPlace(io[t].got[n], Offset(g, io[t].record) + n)'
                          /\ g = epoch' => io[t].got[n] # Hole /\ io[t].got[n].create = epoch'
        BY <1>1, <3>1, <3>3 DEF BytesOK
      <4>1. BytesOK(t)
        BY Before
      <4>2. InPlace(io[t].got[n], Offset(g, io[t].record) + n) =>
               InPlace(io[t].got[n], Offset(g, io[t].record) + n)'
        <5>1. PICK q, x : q = io[t].got[n] /\ x = Offset(g, io[t].record) + n
          OBVIOUS
        <5>2. ASSUME InPlace(q, x)
              PROVE  /\ q \in Page /\ q.create \in 1..Len(made')
                     /\ q.part \in 1..made'[q.create].pages
                     /\ x = q.record * made'[q.create].pages + q.part
          <6>1. Len(made) \in Nat /\ q.create \in 1..Len(made)
            BY <5>2 DEF InPlace, RInv, RestInv, TypeOK, FileTypeOK
          <6> QED
            BY <5>2, <6>1 DEF InPlace, Offset, MadeKept
        <5> QED
          BY <1>1, <3>3, <5>1, <5>2 DEF InPlace, Offset
      <4> QED
        BY <3>1, <3>2, <4>1, <4>2 DEF BytesOK, MadeKept
    <3>6. WholeOK(t)' /\ ErrorOK(t)'
      <4>1. WholeOK(t) /\ ErrorOK(t)
        BY Before
      <4>2. ErrorOK(t)'
        BY <1>1, <3>1, <3>2, <4>1 DEF ErrorOK
      <4>3. ASSUME NEW h \in 1..Len(made), NEW i
            PROVE  h \in 1..Len(made') /\ RecordPages(h, i)' = RecordPages(h, i)
        BY <4>3 DEF MadeKept, RecordPages
      <4>4. WholeOK(t)'
        <5> SUFFICES ASSUME io[t].result = "ok", io[t].checked
                     PROVE  \E h \in 1..Len(made') : io[t].got = RecordPages(h, io[t].record)'
          BY <1>1 DEF WholeOK, RecordPages
        <5>1. PICK h \in 1..Len(made) : io[t].got = RecordPages(h, io[t].record)
          BY <4>1 DEF WholeOK
        <5>2. h \in 1..Len(made') /\ RecordPages(h, io[t].record)' = RecordPages(h, io[t].record)
          BY <1>1, <4>3 DEF RecordPages
        <5> QED
          BY <5>1, <5>2
      <4> QED
        BY <4>2, <4>4
    <3> QED
      BY <3>4, <3>5, <3>6 DEF ReadSound
  <2> QED
    BY <2>1, <2>2
<1>4. ReadInv'
  BY <1>3 DEF ReadInv, ReadSound, CheckedReadsWhole, NoSpuriousError, WholeOK, ErrorOK
<1> QED
  BY <1>2, <1>4

(* What FileInv says of the state before a step. *)
LEMMA FileFacts ==
    ASSUME RInv
    PROVE  /\ TypeOK /\ FileInv
           /\ made \in Seq(Shapes) /\ Len(made) \in Nat /\ Len(made) <= MaxCreates
           /\ MaxCreates \in Nat
           /\ pages \in Seq(Page \cup {Hole}) /\ Len(pages) \in Nat
           /\ buffer \in Seq(Page) /\ Len(buffer) \in Nat
           /\ epoch \in 0..Len(made) /\ next \in Nat /\ store \in 0..Len(made)
           /\ manifest \in (1..Len(made)) \cup {Absent, Broken}
           /\ Absent \notin Nat /\ Broken \notin Nat
           /\ \A q \in Page : q # Hole
           /\ stage # "idle" => Len(made) > 0
BY ShapesAssumption, StorageAssumption
DEF RInv, RestInv, IInv, ManifestMade, TypeOK, FileTypeOK

(* open("wb") begins a file that nobody has open yet. *)
LEMMA CreateBeginsFile ==
    ASSUME RInv, NEW s \in Shapes, CreateBegins(s), UNCHANGED <<storageVars, sessionVars>>
    PROVE  TypeOK' /\ FileInv' /\ MadeKept
<1>1. /\ made' = Append(made, s) /\ pages' = <<>> /\ epoch' = Len(made) + 1
      /\ stage = "idle" /\ stage' = "writing" /\ next' = 0 /\ Len(made) < MaxCreates
      /\ UNCHANGED <<manifest, buffer, powerFails, store>>
  BY DEF CreateBegins, sessionVars
<1>2. /\ made' \in Seq(Shapes) /\ Len(made') = Len(made) + 1
      /\ \A g \in 1..Len(made) : made'[g] = made[g]
  BY <1>1, FileFacts, AppendProperties
<1>3. MadeKept
  BY <1>1, <1>2, FileFacts DEF MadeKept
<1>4. TypeOK'
  <2>1. pages' \in Seq(Page \cup {Hole})
    BY <1>1
  <2>2. /\ Len(made') <= MaxCreates /\ epoch' \in 0..Len(made') /\ store \in 0..Len(made')
        /\ manifest \in (1..Len(made')) \cup {Absent, Broken} /\ next' \in Nat
    BY <1>1, <1>2, FileFacts
  <2>3. UNCHANGED <<storageVars, sessionVars>>
    OBVIOUS
  <2> QED
    BY <1>1, <1>2, <2>1, <2>2, <2>3, FileFacts
    DEF TypeOK, FileTypeOK, StorageTypeOK, storageVars, sessionVars
<1>5. FileInv'
  <2>1. buffer = <<>> /\ Len(<<>>) = 0 /\ 1..0 = {}
    BY <1>1, FileFacts DEF FileInv
  <2>2. PICK g : g = Len(made) + 1
    OBVIOUS
  <2>3. /\ g = Len(made') /\ made'[g] \in Shapes /\ g \notin 0..Len(made) /\ g \in Nat
        /\ manifest # g /\ store # g
    BY <1>1, <1>2, <2>2, FileFacts
  <2>4. Records(g)' \in Nat /\ made'[g].pages \in Nat
    <3>1. made'[g].layers \in Nat /\ made'[g].blocks \in Nat /\ made'[g].pages \in Nat
      BY <2>3, ShapesAssumption
    <3> QED
      BY <3>1 DEF Records
  <2>5. Offset(g, 0)' = 0
    BY <2>4 DEF Offset
  <2> QED
    BY <1>1, <2>1, <2>2, <2>3, <2>4, <2>5 DEF FileInv, Records, Offset
<1> QED
  BY <1>3, <1>4, <1>5

(* output.write puts the next record behind the others. *)
LEMMA WriteRecordFile ==
    ASSUME RInv, WriteRecord, UNCHANGED <<storageVars, sessionVars>>
    PROVE  TypeOK' /\ FileInv' /\ MadeKept
<1>1. PICK g, i, n, p, rec : /\ g = Len(made) /\ i = next /\ n = Len(pages)
                             /\ p = made[g].pages /\ rec = RecordPages(g, i)
  OBVIOUS
<1>2. /\ stage = "writing" /\ i < Records(g) /\ buffer = <<>>
      /\ buffer' = buffer \o rec /\ next' = i + 1
      /\ UNCHANGED <<made, pages, epoch, manifest, stage, powerFails, store>>
  BY <1>1 DEF WriteRecord, sessionVars
<1>3. /\ g \in 1..Len(made) /\ epoch = g /\ i \in Nat /\ n \in Nat /\ p \in Nat \ {0}
      /\ Records(g) \in Nat /\ g \in 1..MaxCreates /\ Offset(g, i + 1) = Offset(g, i) + p
      /\ Offset(g, i) \in Nat
  <2>1. g \in 1..Len(made) /\ epoch = g /\ i \in Nat /\ n \in Nat
    BY <1>1, <1>2, FileFacts DEF FileInv
  <2> QED
    BY <1>1, <2>1, CreateFacts, FileFacts
<1>4. n = Offset(g, i)
  <2>1. Len(pages) = Offset(epoch, next) - Len(buffer) /\ Len(<<>>) = 0
    BY <1>2, FileFacts DEF FileInv
  <2> QED
    BY <1>1, <1>2, <1>3, <2>1
<1>5. rec \in Seq(Page) /\ Len(rec) = p
      /\ \A k \in 1..p : rec[k] = [create |-> g, record |-> i, part |-> k] /\ rec[k] \in Page
  <2>1. \A k \in 1..p : [create |-> g, record |-> i, part |-> k] \in Page
    BY <1>3 DEF Page
  <2>2. rec = [k \in 1..p |-> [create |-> g, record |-> i, part |-> k]]
    BY <1>1 DEF RecordPages
  <2>3. p \in Nat
    BY <1>3
  <2>4. rec \in [1..p -> Page]
    BY <2>1, <2>2
  <2>5. rec \in Seq(Page) /\ Len(rec) = p
    BY <2>3, <2>4
  <2> QED
    BY <2>1, <2>2, <2>5
<1>6. buffer' = rec
  BY <1>2, <1>5, ConcatProperties
<1>7. MadeKept
  BY <1>2, FileFacts DEF MadeKept
<1>8. TypeOK'
  <2>1. next' \in Nat
    BY <1>2, <1>3
  <2>2. TypeOK
    BY FileFacts
  <2> QED
    BY <1>2, <1>5, <1>6, <2>1, <2>2
    DEF TypeOK, FileTypeOK, StorageTypeOK, storageVars, sessionVars
<1>9. ASSUME NEW k \in 1..p PROVE InPlace(rec[k], n + k) /\ rec[k].create = g
  <2>1. /\ rec[k] \in Page /\ rec[k].create = g /\ rec[k].record = i /\ rec[k].part = k
    BY <1>5
  <2> QED
    BY <1>1, <1>3, <1>4, <2>1 DEF InPlace
<1>10. FileInv'
  <2>1. n = Offset(g, i + 1) - p /\ i + 1 <= Records(g)
    BY <1>2, <1>3, <1>4
  <2>2. FileInv
    BY FileFacts
  <2>3. /\ \A a, b : InPlace(a, b)' <=> InPlace(a, b)
        /\ \A j : Offset(g, j)' = Offset(g, j)
        /\ Records(g)' = Records(g)
    BY <1>2 DEF InPlace, Offset, Records
  <2>4. /\ pages' = pages /\ epoch' = g /\ made' = made /\ manifest' = manifest
        /\ store' = store /\ stage' = "writing" /\ next' = i + 1 /\ buffer' = rec
        /\ Len(pages') = n /\ Len(rec) = p /\ epoch = g
    BY <1>1, <1>2, <1>3, <1>5, <1>6
  <2>5. \A x \in 1..n : /\ pages[x] = Hole \/ InPlace(pages[x], x)
                        /\ pages[x] # Hole /\ pages[x].create = g
    BY <1>1, <1>3, <2>2 DEF FileInv
  <2>6. manifest # g /\ store # g /\ g = Len(made)
    BY <1>1, <1>2, <2>2 DEF FileInv
  <2> QED
    BY <1>9, <2>1, <2>3, <2>4, <2>5, <2>6 DEF FileInv
<1> QED
  BY <1>7, <1>8, <1>10

(* A page goes from the buffer to the end of the file. *)
LEMMA FlushPageFile ==
    ASSUME RInv, FlushPage, UNCHANGED <<storageVars, sessionVars>>
    PROVE  TypeOK' /\ FileInv' /\ MadeKept
<1>1. PICK q, n, l : q = Head(buffer) /\ n = Len(pages) /\ l = Len(buffer)
  OBVIOUS
<1>2. /\ buffer # <<>> /\ pages' = Append(pages, q) /\ buffer' = Tail(buffer)
      /\ UNCHANGED <<made, epoch, manifest, stage, next, powerFails, store>>
  BY <1>1 DEF FlushPage, sessionVars
<1>3. /\ buffer' \in Seq(Page) /\ Len(buffer') = l - 1 /\ l \in Nat \ {0} /\ n \in Nat
      /\ \A k \in 1..l - 1 : buffer'[k] = buffer[k + 1]
      /\ q = buffer[1] /\ q \in Page
  BY <1>1, <1>2, FileFacts, HeadTailProperties
<1>4. /\ pages' \in Seq(Page \cup {Hole}) /\ Len(pages') = n + 1
      /\ \A x \in 1..n : pages'[x] = pages[x]
      /\ pages'[n + 1] = q
  BY <1>1, <1>2, <1>3, FileFacts, AppendProperties
<1>5. /\ stage = "writing" /\ epoch = Len(made) /\ manifest # epoch /\ store # epoch
      /\ n = Offset(epoch, next) - l
  BY <1>1, <1>2, FileFacts DEF FileInv
<1>6. InPlace(q, n + 1) /\ q.create = epoch /\ q # Hole
  <2>1. 1 \in 1..l
    BY <1>3
  <2> QED
    BY <1>1, <1>3, <2>1, FileFacts DEF FileInv
<1>7. MadeKept
  BY <1>2, FileFacts DEF MadeKept
<1>8. TypeOK'
  <2>1. TypeOK
    BY FileFacts
  <2>2. FileTypeOK'
    BY <1>2, <1>3, <1>4, <2>1 DEF TypeOK, FileTypeOK
  <2>3. StorageTypeOK'
    BY <2>1 DEF TypeOK, StorageTypeOK, storageVars
  <2> QED
    BY <1>2, <2>1, <2>2, <2>3 DEF TypeOK, sessionVars
<1>9. ASSUME NEW x \in 1..n + 1
      PROVE  /\ pages'[x] = Hole \/ InPlace(pages'[x], x)
             /\ epoch # 0 => pages'[x] # Hole /\ pages'[x].create = epoch
  <2>1. CASE x = n + 1
    BY <1>4, <1>6, <2>1
  <2>2. CASE x # n + 1
    <3>1. x \in 1..n
      BY <1>3, <2>2
    <3> QED
      BY <1>1, <1>4, <3>1, FileFacts DEF FileInv
  <2> QED
    BY <2>1, <2>2
<1>10. ASSUME NEW k \in 1..l - 1
       PROVE  InPlace(buffer'[k], n + 1 + k) /\ buffer'[k].create = epoch
  <2>1. k + 1 \in 1..l /\ n + 1 + k = n + (k + 1)
    BY <1>3
  <2>2. InPlace(buffer[k + 1], n + (k + 1)) /\ buffer[k + 1].create = epoch
    BY <1>1, <2>1, FileFacts DEF FileInv
  <2> QED
    BY <1>3, <2>1, <2>2
<1>11. FileInv'
  <2>1. PICK g, o : g = epoch /\ o = Offset(g, next)
    OBVIOUS
  <2>2. next <= Records(g) /\ g \in 1..Len(made) /\ next \in Nat
    BY <1>5, <2>1, FileFacts DEF FileInv
  <2>3. o \in Nat
    BY <2>1, <2>2, FileFacts, CreateFacts
  <2>4. n + 1 = o - (l - 1)
    BY <1>3, <1>5, <2>1, <2>3
  <2>5. /\ \A a, b : InPlace(a, b)' <=> InPlace(a, b)
        /\ \A j : Offset(g, j)' = Offset(g, j)
        /\ Records(g)' = Records(g)
    BY <1>2 DEF InPlace, Offset, Records
  <2>6. /\ epoch' = g /\ epoch = g /\ g = Len(made) /\ made' = made /\ manifest' = manifest
        /\ store' = store /\ stage' = "writing" /\ next' = next
        /\ Len(pages') = n + 1 /\ Len(buffer') = l - 1 /\ manifest # g /\ store # g
    BY <1>2, <1>3, <1>4, <1>5, <2>1
  <2> QED
    BY <1>9, <1>10, <2>1, <2>2, <2>4, <2>5, <2>6 DEF FileInv
<1> QED
  BY <1>7, <1>8, <1>11

(* The steps of create that leave the data file as it is. *)
LEMMA CreateEndsFile ==
    ASSUME RInv, CloseOutput \/ TruncateManifest \/ SaveManifest \/ CreateStops,
           UNCHANGED <<storageVars, sessionVars>>
    PROVE  TypeOK' /\ FileInv' /\ MadeKept
<1>1. /\ UNCHANGED <<made, pages, epoch, powerFails, store>> /\ stage # "idle"
      /\ \/ CloseOutput \/ TruncateManifest \/ SaveManifest \/ CreateStops
  BY DEF CloseOutput, TruncateManifest, SaveManifest, CreateStops, sessionVars
<1>2. MadeKept
  BY <1>1, FileFacts DEF MadeKept
<1>3. TypeOK'
  <2>1. /\ next' \in Nat /\ buffer' \in Seq(Page)
        /\ stage' \in {"idle", "writing", "closed", "saving"}
        /\ manifest' \in (1..Len(made)) \cup {Absent, Broken}
    <3>1. <<>> \in Seq(Page) /\ Len(made) \in 1..Len(made)
      BY <1>1, FileFacts
    <3>2. CASE CloseOutput
      BY <3>2, FileFacts DEF CloseOutput
    <3>3. CASE TruncateManifest
      BY <3>3, FileFacts DEF TruncateManifest
    <3>4. CASE SaveManifest
      BY <3>1, <3>4, FileFacts DEF SaveManifest
    <3>5. CASE CreateStops
      BY <3>1, <3>5, FileFacts DEF CreateStops
    <3> QED
      BY <1>1, <3>2, <3>3, <3>4, <3>5
  <2>2. TypeOK
    BY FileFacts
  <2> QED
    BY <1>1, <2>1, <2>2 DEF TypeOK, FileTypeOK, StorageTypeOK, storageVars, sessionVars
<1>4. /\ epoch = Len(made) /\ epoch \in 1..Len(made) /\ Offset(epoch, next) \in Nat
      /\ FileInv /\ Len(<<>>) = 0
  BY <1>1, FileFacts, CreateFacts DEF FileInv
<1>5. FileInv'
  <2>1. CASE CloseOutput
    BY <1>1, <1>4, <2>1 DEF FileInv, InPlace, Offset, Records, CloseOutput
  <2>2. CASE TruncateManifest
    <3>1. Broken # Len(made)
      BY FileFacts
    <3> QED
      BY <1>1, <1>4, <2>2, <3>1 DEF FileInv, InPlace, Offset, Records, TruncateManifest
  <2>3. CASE SaveManifest
    <3>1. Len(pages) = Offset(epoch, Records(epoch))
      BY <1>4, <2>3, FileFacts DEF FileInv, SaveManifest
    <3> QED
      BY <1>1, <1>4, <2>3, <3>1 DEF FileInv, InPlace, Offset, Records, SaveManifest
  <2>4. CASE CreateStops
    <3>1. 1..Len(<<>>) = {}
      OBVIOUS
    <3> QED
      BY <1>1, <1>4, <2>4, <3>1 DEF FileInv, InPlace, Offset, Records, CreateStops
  <2> QED
    BY <1>1, <2>1, <2>2, <2>3, <2>4
<1> QED
  BY <1>2, <1>3, <1>5

(* Every step of create. *)
LEMMA CreateRest ==
    ASSUME RInv, CreateNext, UNCHANGED <<storageVars, sessionVars>>
    PROVE  RestInv'
<1>1. TypeOK' /\ FileInv' /\ MadeKept
  BY CreateBeginsFile, WriteRecordFile, FlushPageFile, CreateEndsFile DEF CreateNext
<1> QED
  BY <1>1, CreateReads DEF RestInv

(***************************************************************************)
(* The store and its loader.                                               *)
(***************************************************************************)
(* Without reads there is nothing to be right about them. *)
LEMMA QuietReads ==
    ASSUME \A t \in Threads : io'[t] = NoRead, lock' = NoThread
    PROVE  ReadInv'
<1>1. /\ NoRead.pc = "idle" /\ NoRead.fd = NoFd /\ NoRead.got = <<>> /\ NoRead.result = "none"
      /\ 1..Len(<<>>) = {}
  BY DEF NoRead
<1> QED
  BY <1>1 DEF ReadInv, EntryOK, HandleOK, BytesOK, CheckedReadsWhole, NoSpuriousError

(* The file and its manifest do not move. *)
LEMMA FileFrame ==
    ASSUME RInv, UNCHANGED fileVars, store' = store \/ store' = 0
    PROVE  FileInv'
<1>1. UNCHANGED <<made, pages, epoch, manifest, stage, next, buffer>>
  BY DEF fileVars
<1>2. FileInv /\ (stage # "idle" => Len(made) # 0)
  BY FileFacts
<1> QED
  BY <1>1, <1>2 DEF FileInv, InPlace, Offset, Records

(* Threads that are all idle hold neither descriptors nor the lock. *)
LEMMA IdleFacts ==
    ASSUME RInv, \A t \in Threads : io[t].pc = "idle"
    PROVE  /\ \A t \in Threads : io[t] = NoRead /\ io[t].fd = NoFd
           /\ lock = NoThread
<1>1. \A t \in Threads : io[t] = NoRead /\ lock # t
  BY Before DEF EntryOK, SeekRegionExclusive
<1>2. NoRead.fd = NoFd
  BY DEF NoRead
<1>3. lock \in Threads \cup {NoThread}
  BY DEF RInv, RestInv, TypeOK, StorageTypeOK
<1> QED
  BY <1>1, <1>2, <1>3

(* A power loss: what is left of the file is in its place. *)
LEMMA PowerLossRest ==
    ASSUME RInv, PowerLoss
    PROVE  RestInv'
<1>1. /\ PowerFails
      /\ kind' = "none" /\ fd' = NoFd /\ lock' = NoThread
      /\ table' = [f \in Fds |-> "free"] /\ position' = [f \in Fds |-> 0]
      /\ io' = [t \in Threads |-> NoRead]
      /\ store' = 0 /\ slots' = "cpu" /\ loader' = "none" /\ reads' = 0
      /\ UNCHANGED <<preadv, opens>>
  BY DEF PowerLoss
<1>2. /\ powerFails < MaxPowerFails /\ powerFails' = powerFails + 1 /\ epoch' = 0
      /\ manifest' \in {manifest, IF manifest = Absent THEN Absent ELSE Broken}
      /\ stage' = "idle" /\ next' = 0 /\ buffer' = <<>> /\ made' = made
      /\ \/ \E n \in 0..Len(pages) : pages' = SubSeq(pages, 1, n)
         \/ \E lost \in 1..Len(pages) : pages' = [pages EXCEPT ![lost] = Hole]
  BY <1>1 DEF PowerFails
<1>3. /\ pages' \in Seq(Page \cup {Hole})
      /\ Len(pages') \in Nat /\ Len(pages') <= Len(pages)
      /\ \A x \in 1..Len(pages') : pages'[x] = Hole \/ pages'[x] = pages[x]
  <2>1. ASSUME NEW n \in 0..Len(pages), pages' = SubSeq(pages, 1, n)
        PROVE  /\ pages' \in Seq(Page \cup {Hole})
               /\ Len(pages') \in Nat /\ Len(pages') <= Len(pages)
               /\ \A x \in 1..Len(pages') : pages'[x] = Hole \/ pages'[x] = pages[x]
    <3>1. /\ pages' \in Seq(Page \cup {Hole}) /\ Len(pages') = n
          /\ \A x \in 1..n : pages'[x] = pages[x]
      BY <2>1, FileFacts
    <3> QED
      BY <3>1, FileFacts
  <2>2. ASSUME NEW lost \in 1..Len(pages), pages' = [pages EXCEPT ![lost] = Hole]
        PROVE  /\ pages' \in Seq(Page \cup {Hole})
               /\ Len(pages') \in Nat /\ Len(pages') <= Len(pages)
               /\ \A x \in 1..Len(pages') : pages'[x] = Hole \/ pages'[x] = pages[x]
    BY <2>2, FileFacts
  <2> QED
    BY <1>2, <2>1, <2>2
<1>4. TypeOK'
  <2>1. NoRead \in ReadRecord
    BY ShapesAssumption DEF NoRead, ReadRecord, Stages
  <2>2. /\ powerFails' \in 0..MaxPowerFails /\ epoch' \in 0..Len(made)
        /\ manifest' \in (1..Len(made)) \cup {Absent, Broken}
    <3>1. powerFails \in 0..MaxPowerFails /\ MaxPowerFails \in Nat
      BY FileFacts, ShapesAssumption DEF TypeOK, FileTypeOK
    <3>2. powerFails' \in 0..MaxPowerFails
      <4>1. powerFails < MaxPowerFails /\ powerFails' = powerFails + 1
        BY <1>2
      <4>2. QED
        BY ONLY <3>1, <4>1
    <3>3. epoch' \in 0..Len(made)
      <4>1. Len(made) \in Nat /\ epoch' = 0
        BY <1>2, FileFacts
      <4>2. QED
        BY ONLY <4>1
    <3>4. manifest' \in (1..Len(made)) \cup {Absent, Broken}
      <4>1. manifest \in (1..Len(made)) \cup {Absent, Broken}
        BY FileFacts
      <4>2. QED
        BY ONLY <1>2, <4>1
    <3>5. QED
      BY <3>2, <3>3, <3>4
  <2>3. FileTypeOK'
    BY <1>2, <1>3, <2>2, FileFacts DEF FileTypeOK
  <2>4. StorageTypeOK'
    BY <1>1, <2>1, Before DEF StorageTypeOK, ReadRecord, TypeOK, RInv, RestInv
  <2>5. reads' \in 0..MaxReads /\ opens' \in 0..MaxOpens /\ store' \in 0..Len(made')
    BY <1>1, <1>2, FileFacts, StoreAssumption DEF TypeOK
  <2> QED
    BY <1>1, <2>3, <2>4, <2>5 DEF TypeOK
<1>5. FileInv'
  <2>1. ASSUME NEW x \in 1..Len(pages')
        PROVE  pages'[x] = Hole \/ InPlace(pages'[x], x)
    <3>1. x \in 1..Len(pages) /\ (pages'[x] = Hole \/ pages'[x] = pages[x])
      BY <1>3, FileFacts
    <3> QED
      BY <3>1, FileFacts DEF FileInv
  <2>2. 1..Len(<<>>) = {}
    OBVIOUS
  <2>3. /\ buffer' = <<>> /\ epoch' = 0 /\ stage' = "idle" /\ made' = made
    BY <1>2
  <2> QED
    BY <2>1, <2>2, <2>3 DEF FileInv, InPlace, Offset
<1>6. SessionInv'
  BY <1>1, Before DEF SessionInv
<1>7. ReadInv'
  BY <1>1, QuietReads
<1> QED
  BY <1>4, <1>5, <1>6, <1>7 DEF RestInv

(* What a name resolves to is a backend. *)
LEMMA ResolveType ==
    ASSUME NEW requested, NEW available
    PROVE  Resolve(requested, StorageOrder, StorageBackends, available)
               \in StorageBackends \cup {NoBackend}
<1> DEFINE usable == {n \in 1..Len(StorageOrder) :
                        StorageOrder[n] \in StorageBackends \cap available}
<1>1. CASE requested # "auto" /\ requested \in StorageBackends \cap available
  BY <1>1 DEF Resolve
<1>2. CASE requested = "auto" /\ usable # {}
  <2>1. usable \in SUBSET Nat
    BY DEF StorageOrder
  <2>2. PICK n \in usable : n = CHOOSE k \in usable : \A m \in usable : k <= m
    BY <1>2, <2>1, LeastNumber
  <2>3. Resolve(requested, StorageOrder, StorageBackends, available) = StorageOrder[n]
    BY <1>2, <2>2 DEF Resolve
  <2> QED
    BY <2>3
<1>3. CASE /\ ~(requested # "auto" /\ requested \in StorageBackends \cap available)
           /\ ~(requested = "auto" /\ usable # {})
  BY <1>3 DEF Resolve
<1> QED
  BY <1>1, <1>2, <1>3

(* Opening a store: the file of its manifest is complete. *)
LEMMA OpenRest ==
    ASSUME RInv, NEW requested, NEW available, NEW device \in {"cpu", "cuda"},
           Open(requested, available, device)
    PROVE  RestInv'
<1>1. PICK backend : backend = Resolve(requested, StorageOrder, StorageBackends, available)
  OBVIOUS
<1>2. /\ store = 0 /\ opens < MaxOpens /\ manifest \in Nat /\ backend # NoBackend
      /\ store' = manifest /\ slots' = IF backend = "gds" THEN device ELSE "cpu"
      /\ loader' = "running" /\ reads' = 0 /\ opens' = opens + 1 /\ kind' = backend
      /\ IF backend = "gds"
         THEN /\ fd' = LowestFree
              /\ table' = [table EXCEPT ![LowestFree] = "data"]
              /\ position' = [position EXCEPT ![LowestFree] = 0]
         ELSE UNCHANGED <<fd, table, position>>
      /\ UNCHANGED <<fileVars, preadv, lock, io>>
  BY <1>1 DEF Open
<1>3. backend \in {"buffered", "direct", "gds"}
  BY <1>1, <1>2, ResolveType DEF StorageBackends
<1>4. manifest \in 1..Len(made) /\ store' # 0
  BY <1>2, FileFacts
<1>5. /\ fd = NoFd /\ \A t \in Threads : io[t] = NoRead
      /\ lock = NoThread
  BY <1>2, IdleFacts DEF RInv, IInv, QuietWithoutStore
<1>6. LowestFree \in Fds /\ table[LowestFree] = "free"
  BY <1>5, FreeNumber DEF RInv, RestInv
<1>7. /\ fd' \in Fds \cup {NoFd} /\ table' \in [Fds -> {"free", "data", "other"}]
      /\ position' \in [Fds -> Nat]
      /\ fd' # NoFd => table'[fd'] = "data"
      /\ \A f \in Fds : table'[f] = "other" => table[f] = "other"
  <2>1. TypeOK /\ SessionInv
    BY DEF RInv, RestInv
  <2>2. CASE backend = "gds"
    <3>1. PICK h : h = LowestFree
      OBVIOUS
    <3>2. /\ fd' = h /\ table' = [table EXCEPT ![h] = "data"]
          /\ position' = [position EXCEPT ![h] = 0]
      BY <1>2, <2>2, <3>1
    <3>3. table \in [Fds -> {"free", "data", "other"}] /\ position \in [Fds -> Nat]
      BY <2>1 DEF TypeOK, StorageTypeOK
    <3>4. h \in Fds
      BY <1>6, <3>1
    <3> QED
      BY <3>2, <3>3, <3>4
  <2>3. CASE backend # "gds"
    BY <1>2, <2>1, <2>3 DEF TypeOK, StorageTypeOK, SessionInv
  <2> QED
    BY <2>2, <2>3
<1>8. TypeOK'
  <2>1. TypeOK
    BY FileFacts
  <2>2. FileTypeOK' /\ Len(made') = Len(made)
    BY <1>2, <2>1 DEF TypeOK, FileTypeOK, fileVars
  <2>3. StorageTypeOK'
    BY <1>2, <1>3, <1>7, <2>1 DEF TypeOK, StorageTypeOK
  <2>4. /\ store' \in 0..Len(made') /\ slots' \in {"cpu", "cuda"}
        /\ reads' \in 0..MaxReads /\ opens' \in 0..MaxOpens
    BY <1>2, <1>4, <2>1, <2>2, StoreAssumption, FileFacts DEF TypeOK
  <2> QED
    BY <1>2, <2>2, <2>3, <2>4 DEF TypeOK
<1>9. FileInv'
  <2>1. UNCHANGED <<made, pages, epoch, manifest, stage, next, buffer>>
    BY <1>2 DEF fileVars
  <2> QED
    BY <1>2, <2>1, FileFacts DEF FileInv, InPlace, Offset, Records
<1>10. SessionInv'
  <2>1. SessionInv
    BY DEF RInv, RestInv
  <2> QED
    BY <1>2, <1>3, <1>4, <1>7, <2>1 DEF SessionInv
<1>11. ReadInv'
  BY <1>2, <1>5, QuietReads
<1> QED
  BY <1>8, <1>9, <1>10, <1>11 DEF RestInv

(* A read of the open store begins: refused, or with its entry. *)
LEMMA BeginRest ==
    ASSUME RInv, NEW t \in Threads, NEW i \in Nat, NEW destination, NEW checked \in BOOLEAN,
           store # 0, i < Records(store), BeginRead(t, store, i, destination, checked),
           loader = "down" => t = Main,
           (kind = "gds") # (destination = "cuda") => kind = "gds" /\ slots = "cpu" /\ t # Main,
           reads' \in 0..MaxReads, UNCHANGED <<fileVars, store, slots, loader, opens>>
    PROVE  RestInv'
<1>1. PICK fits \in BOOLEAN : fits = ((kind = "gds") = (destination = "cuda"))
  OBVIOUS
<1>2. PICK r : r = [NoRead EXCEPT !.create = store, !.record = i, !.checked = checked,
                                  !.pc = IF (kind = "gds") = (destination = "cuda")
                                         THEN "open" ELSE "returns",
                                  !.result = IF (kind = "gds") = (destination = "cuda")
                                             THEN "none" ELSE "error"]
  OBVIOUS
<1>3. io' = [io EXCEPT ![t] = r] /\ UNCHANGED <<kind, preadv, table, position, fd, lock>>
  BY <1>2 DEF BeginRead
<1>4. /\ r \in ReadRecord /\ r.pc = (IF fits THEN "open" ELSE "returns") /\ r.create = store
      /\ r.record = i /\ r.fd = NoFd /\ r.got = <<>>
      /\ r.result = IF fits THEN "none" ELSE "error"
  <2>1. store \in 0..MaxCreates
    BY FileFacts
  <2>2. r = [pc |-> IF fits THEN "open" ELSE "returns", create |-> store, record |-> i,
             fd |-> NoFd, checked |-> checked, got |-> <<>>,
             result |-> IF fits THEN "none" ELSE "error"]
    BY <1>1, <1>2 DEF NoRead
  <2> QED
    BY <2>1, <2>2 DEF ReadRecord, Stages
<1>5. /\ io' \in [Threads -> ReadRecord] /\ io'[t] = r
      /\ \A u \in Threads : u # t => io'[u] = io[u]
  <2>1. io' = [u \in Threads |-> IF u = t THEN r ELSE io[u]]
    BY <1>3 DEF RInv, RestInv, TypeOK, StorageTypeOK
  <2> QED
    BY <1>4, <2>1, Replaced, Before
<1>6. HandlesKept(t)
  BY <1>3, HandlesUntouched
<1>7. ReadSound(t)'
  <2>1. EntryOK(t)'
    <3>1. UNCHANGED made
      BY DEF fileVars
    <3>2. r.pc # "idle" /\ r.pc \notin {"copy", "decode"} /\ r.result # "ok"
          /\ (r.pc # "returns" => r.result = "none")
      BY <1>4
    <3> QED
      BY <1>4, <1>5, <3>1, <3>2 DEF EntryOK, Records
  <2>2. HandleOK(t)'
    BY <1>4, <1>5 DEF HandleOK
  <2>3. BytesOK(t)'
    <3>1. 1..Len(<<>>) = {}
      OBVIOUS
    <3> QED
      BY <1>4, <1>5, <3>1 DEF BytesOK
  <2>4. WholeOK(t)' /\ ErrorOK(t)'
    BY <1>1, <1>3, <1>4, <1>5 DEF WholeOK, ErrorOK
  <2> QED
    BY <2>1, <2>2, <2>3, <2>4 DEF ReadSound
<1> QED
  BY <1>3, <1>5, <1>6, <1>7, OneReadFrame

(* A pool thread begins: the loader is not down. *)
LEMMA PoolReadRest ==
    ASSUME RInv, store # 0, NEW i \in 0..(Records(store) - 1), NEW t \in Threads,
           PoolRead(t, i)
    PROVE  RestInv'
<1>1. /\ t # Main /\ loader \in {"running", "shutting"} /\ reads < MaxReads
      /\ BeginRead(t, store, i, slots, slots = "cpu") /\ reads' = reads + 1
      /\ UNCHANGED <<fileVars, store, slots, loader, opens>>
  BY DEF PoolRead
<1>2. i \in Nat /\ i < Records(store)
  <2>1. store \in 1..Len(made) /\ TypeOK
    BY FileFacts
  <2>2. Records(store) \in Nat
    BY <2>1, CreateFacts
  <2> QED
    BY <2>2
<1>3. reads' \in 0..MaxReads
  BY <1>1, FileFacts, StoreAssumption DEF TypeOK
<1>4. (kind = "gds") # (slots = "cuda") => kind = "gds" /\ slots = "cpu" /\ t # Main
  <2>1. slots \in {"cpu", "cuda"} /\ (slots = "cuda" => kind = "gds")
    BY Before DEF TypeOK, SessionInv
  <2> QED
    BY <1>1, <2>1
<1>5. (slots = "cpu") \in BOOLEAN /\ (loader = "down" => t = Main)
  BY <1>1
<1> QED
  BY <1>1, <1>2, <1>3, <1>4, <1>5, BeginRest

(* KVCacheStore.read begins, with a buffer that its backend takes. *)
LEMMA MainReadRest ==
    ASSUME RInv, store # 0, NEW i \in 0..(Records(store) - 1), MainRead(i)
    PROVE  RestInv'
<1>1. PICK destination : destination = IF kind = "gds" THEN "cuda" ELSE "cpu"
  OBVIOUS
<1>2. /\ reads < MaxReads /\ BeginRead(Main, store, i, destination, TRUE)
      /\ reads' = reads + 1 /\ UNCHANGED <<fileVars, store, slots, loader, opens>>
  BY <1>1 DEF MainRead
<1>3. i \in Nat /\ i < Records(store)
  <2>1. store \in 1..Len(made) /\ TypeOK
    BY FileFacts
  <2>2. Records(store) \in Nat
    BY <2>1, CreateFacts
  <2> QED
    BY <2>2
<1>4. reads' \in 0..MaxReads
  BY <1>2, FileFacts, StoreAssumption DEF TypeOK
<1>5. (kind = "gds") = (destination = "cuda")
  BY <1>1
<1>6. Main \in Threads
  BY StoreAssumption
<1> QED
  BY <1>2, <1>3, <1>4, <1>5, <1>6, BeginRest

(* A step that touches neither the file nor the reads. *)
LEMMA ReadsUntouched ==
    ASSUME RInv, UNCHANGED <<fileVars, storageVars, store, slots>>
    PROVE  FileInv' /\ ReadInv' /\ FileTypeOK' /\ StorageTypeOK' /\ made' = made
<1>1. UNCHANGED <<made, pages, epoch, manifest, stage, next, buffer, powerFails,
                  kind, preadv, table, position, fd, lock, io, store, slots>>
  BY DEF fileVars, storageVars
<1>2. FileInv'
  BY FileFrame
<1>3. FileTypeOK' /\ StorageTypeOK'
  BY <1>1, FileFacts DEF TypeOK, FileTypeOK, StorageTypeOK
<1>4. ReadInv'
  <2>1. ReadInv
    BY DEF RInv, RestInv
  <2>2. ASSUME NEW t \in Threads PROVE EntryOK(t)' /\ HandleOK(t)' /\ BytesOK(t)'
    BY <1>1, <2>1 DEF ReadInv, EntryOK, HandleOK, BytesOK, Records, Length, Offset, InPlace
  <2>3. CheckedReadsWhole' /\ NoSpuriousError'
    BY <1>1, <2>1 DEF ReadInv, CheckedReadsWhole, NoSpuriousError, RecordPages
  <2> QED
    BY <2>2, <2>3 DEF ReadInv
<1> QED
  BY <1>1, <1>2, <1>3, <1>4

(* The loader is closed: once its pool is idle. *)
LEMMA LoaderRest ==
    ASSUME RInv, LoaderShutdown \/ LoaderDown
    PROVE  RestInv'
<1>1. /\ UNCHANGED <<fileVars, storageVars, store, slots, reads, opens>>
      /\ loader # "none" /\ loader' \in {"shutting", "down"}
      /\ loader' = "down" => PoolIdle
  BY DEF LoaderShutdown, LoaderDown
<1>2. FileInv' /\ ReadInv' /\ FileTypeOK' /\ StorageTypeOK' /\ made' = made
  BY <1>1, ReadsUntouched
<1>3. TypeOK'
  BY <1>1, <1>2, FileFacts DEF TypeOK
<1>4. UNCHANGED <<kind, table, fd, io, store, slots>>
  BY <1>1 DEF storageVars
<1>5. SessionInv'
  <2>1. SessionInv
    BY DEF RInv, RestInv
  <2> QED
    BY <1>1, <1>4, <2>1 DEF SessionInv, PoolIdle
<1> QED
  BY <1>2, <1>3, <1>5 DEF RestInv

(* The backend is closed when nobody reads. *)
LEMMA CloseRest ==
    ASSUME RInv, StoreClose \/ DropStore
    PROVE  RestInv'
<1>1. /\ CloseBackend /\ UNCHANGED <<fileVars, io, opens>>
      /\ kind' \in {kind, "none"} /\ store # 0
      /\ \/ UNCHANGED <<kind, store, slots, loader, reads>>
         \/ kind' = "none" /\ store' = 0 /\ slots' = "cpu" /\ loader' = "none" /\ reads' = 0
  BY DEF StoreClose, DropStore, sessionVars
<1>2. \A t \in Threads : io[t].pc = "idle"
  <2>1. CASE StoreClose
    <3>1. SessionInv /\ loader = "down" /\ io[Main].pc = "idle"
      BY <2>1 DEF RInv, RestInv, StoreClose
    <3> QED
      BY <3>1 DEF SessionInv
  <2>2. CASE DropStore
    BY <2>2 DEF DropStore, PoolIdle
  <2> QED
    BY <2>1, <2>2
<1>3. lock = NoThread /\ \A t \in Threads : io[t] = NoRead
  BY <1>2, IdleFacts
<1>4. /\ fd' = NoFd /\ table' \in [Fds -> {"free", "data", "other"}]
      /\ \A f \in Fds : table'[f] = "other" => table[f] = "other"
      /\ position' \in [Fds -> Nat] /\ preadv' = preadv /\ lock' = lock
  <2>1. /\ fd' = NoFd /\ UNCHANGED <<preadv, lock>>
        /\ table' = IF kind = "gds" THEN Reclaimed(table, NoFd, io)
                    ELSE [f \in Fds |-> IF f = fd THEN "free" ELSE table[f]]
        /\ position' = [f \in Fds |-> IF table'[f] = "free" THEN 0 ELSE position[f]]
    BY <1>1 DEF CloseBackend
  <2>2. table \in [Fds -> {"free", "data", "other"}] /\ position \in [Fds -> Nat]
    BY FileFacts DEF TypeOK, StorageTypeOK
  <2> QED
    BY <2>1, <2>2 DEF Reclaimed
<1>5. TypeOK'
  <2>1. TypeOK
    BY FileFacts
  <2>2. FileTypeOK' /\ made' = made
    BY <1>1, <2>1 DEF TypeOK, FileTypeOK, fileVars
  <2>3. StorageTypeOK'
    BY <1>1, <1>4, <2>1 DEF TypeOK, StorageTypeOK
  <2>4. 0 \in 0..Len(made) /\ 0 \in 0..MaxReads
    BY FileFacts, StoreAssumption
  <2> QED
    BY <1>1, <2>1, <2>2, <2>3, <2>4 DEF TypeOK
<1>6. FileInv'
  BY <1>1, FileFrame
<1>7. SessionInv'
  <2>1. SessionInv
    BY DEF RInv, RestInv
  <2> QED
    BY <1>1, <1>4, <2>1 DEF SessionInv
<1>8. ReadInv'
  BY <1>1, <1>3, <1>4, QuietReads
<1> QED
  BY <1>5, <1>6, <1>7, <1>8 DEF RestInv

(* Another file takes a number that neither the backend nor a read has. *)
LEMMA OtherOpensRest ==
    ASSUME RInv, OtherOpens, UNCHANGED <<fileVars, sessionVars>>
    PROVE  RestInv'
<1>1. PICK h : h = LowestFree
  OBVIOUS
<1>2. /\ fd = NoFd /\ \A f \in Fds : table[f] # "other"
      /\ table' = [table EXCEPT ![h] = "other"]
      /\ UNCHANGED <<kind, preadv, position, fd, lock, io>>
      /\ UNCHANGED <<fileVars, store, slots, loader, reads, opens>>
  BY <1>1 DEF OtherOpens, sessionVars
<1>3. h \in Fds /\ table[h] = "free"
  BY <1>1, <1>2, FreeNumber DEF RInv, RestInv
<1>4. /\ table' \in [Fds -> {"free", "data", "other"}]
      /\ \A f \in Fds : table'[f] = IF f = h THEN "other" ELSE table[f]
  <2>1. table \in [Fds -> {"free", "data", "other"}]
    BY FileFacts DEF TypeOK, StorageTypeOK
  <2> QED
    BY <1>2, <1>3, <2>1
<1>5. UNCHANGED <<made, pages, epoch, manifest, stage, next, buffer, powerFails>>
  BY <1>2 DEF fileVars
<1>6. TypeOK'
  <2>1. TypeOK
    BY FileFacts
  <2>2. FileTypeOK'
    BY <1>5, <2>1 DEF TypeOK, FileTypeOK
  <2>3. StorageTypeOK'
    BY <1>2, <1>4, <2>1 DEF TypeOK, StorageTypeOK
  <2> QED
    BY <1>2, <1>5, <2>1, <2>2, <2>3 DEF TypeOK
<1>7. FileInv'
  BY <1>2, FileFrame
<1>8. SessionInv'
  <2>1. SessionInv
    BY DEF RInv, RestInv
  <2> QED
    BY <1>2, <1>4, <2>1 DEF SessionInv
<1>9. ReadInv'
  <2>1. ReadInv
    BY DEF RInv, RestInv
  <2>2. ASSUME NEW t \in Threads PROVE EntryOK(t)' /\ BytesOK(t)'
    BY <1>2, <1>5, <2>1 DEF ReadInv, EntryOK, BytesOK, Records, Length, Offset, InPlace
  <2>3. ASSUME NEW t \in Threads PROVE HandleOK(t)'
    <3>1. HandleOK(t) /\ io[t] \in ReadRecord
      BY <2>3, Before
    <3>2. io[t].fd # NoFd => io[t].fd \in Fds /\ io[t].fd # h
      BY <1>3, <3>1 DEF HandleOK, ReadRecord
    <3>3. Offset(io[t].create, io[t].record)' = Offset(io[t].create, io[t].record)
      BY <1>2, <1>5 DEF Offset
    <3> QED
      BY <1>2, <1>4, <3>1, <3>2, <3>3 DEF HandleOK
  <2>4. CheckedReadsWhole' /\ NoSpuriousError'
    BY <1>2, <1>5, <2>1 DEF ReadInv, CheckedReadsWhole, NoSpuriousError, RecordPages
  <2> QED
    BY <2>2, <2>3, <2>4 DEF ReadInv
<1> QED
  BY <1>6, <1>7, <1>8, <1>9 DEF RestInv

(***************************************************************************)
(* Every reachable state.                                                  *)
(***************************************************************************)
(* Nothing is made, open or read yet. *)
LEMMA InitRest == Init => RestInv
<1> SUFFICES ASSUME Init PROVE RestInv
  OBVIOUS
<1>1. /\ made = <<>> /\ pages = <<>> /\ epoch = 0 /\ manifest = Absent /\ stage = "idle"
      /\ next = 0 /\ buffer = <<>> /\ powerFails = 0
      /\ kind = "none" /\ preadv \in BOOLEAN /\ table = [f \in Fds |-> "free"]
      /\ position = [f \in Fds |-> 0] /\ fd = NoFd /\ lock = NoThread
      /\ io = [t \in Threads |-> NoRead]
      /\ store = 0 /\ slots = "cpu" /\ loader = "none" /\ reads = 0 /\ opens = 0
  BY DEF Init, FileInit, StorageInit
<1>2. /\ Len(<<>>) = 0 /\ 1..0 = {} /\ <<>> \in Seq(Shapes)
      /\ <<>> \in Seq(Page \cup {Hole}) /\ <<>> \in Seq(Page)
      /\ <<>> \in Seq(Page \cup {Hole, Alien})
  OBVIOUS
<1>3. /\ NoRead \in ReadRecord /\ NoRead.pc = "idle" /\ NoRead.fd = NoFd
      /\ NoRead.got = <<>> /\ NoRead.result = "none"
  BY <1>2, ShapesAssumption DEF NoRead, ReadRecord, Stages
<1>4. TypeOK
  <2>1. FileTypeOK
    BY <1>1, <1>2, ShapesAssumption DEF FileTypeOK
  <2>2. StorageTypeOK
    BY <1>1, <1>3 DEF StorageTypeOK, ReadRecord
  <2> QED
    BY <1>1, <1>2, <2>1, <2>2, StoreAssumption DEF TypeOK
<1>5. FileInv
  BY <1>1, <1>2 DEF FileInv
<1>6. SessionInv
  BY <1>1 DEF SessionInv
<1>7. ReadInv
  BY <1>1, <1>2, <1>3, StorageAssumption
  DEF ReadInv, EntryOK, HandleOK, BytesOK, CheckedReadsWhole, NoSpuriousError
<1> QED
  BY <1>4, <1>5, <1>6, <1>7 DEF RestInv

(* The invariant is inductive. *)
LEMMA NextRest == RInv /\ [Next]_vars => RestInv'
<1> SUFFICES ASSUME RInv, [Next]_vars PROVE RestInv'
  OBVIOUS
<1>1. CASE CreateNext /\ UNCHANGED <<storageVars, sessionVars>>
  BY <1>1, CreateRest
<1>2. CASE PowerLoss
  BY <1>2, PowerLossRest
<1>3. ASSUME NEW cuda \in BOOLEAN, NEW requested \in StorageBackends \cup {"auto"},
             NEW device \in {"cpu"} \cup (IF cuda THEN {"cuda"} ELSE {}),
             Open(requested, Probed(preadv, cuda), device)
      PROVE  RestInv'
  <2>1. device \in {"cpu", "cuda"}
    OBVIOUS
  <2> QED
    BY <1>3, <2>1, OpenRest
<1>4. ASSUME store # 0, NEW i \in 0..(Records(store) - 1), MainRead(i)
      PROVE  RestInv'
  BY <1>4, MainReadRest
<1>5. ASSUME store # 0, NEW i \in 0..(Records(store) - 1), NEW t \in Threads, PoolRead(t, i)
      PROVE  RestInv'
  BY <1>5, PoolReadRest
<1>6. ASSUME NEW t \in Threads, ReadStep(t), UNCHANGED <<fileVars, sessionVars>>
      PROVE  RestInv'
  BY <1>6, ReadStepRest
<1>7. CASE LoaderShutdown \/ LoaderDown
  BY <1>7, LoaderRest
<1>8. CASE StoreClose \/ DropStore
  BY <1>8, CloseRest
<1>9. CASE OtherOpens /\ UNCHANGED <<fileVars, sessionVars>>
  BY <1>9, OtherOpensRest
<1>10. CASE UNCHANGED vars
  <2>1. UNCHANGED <<fileVars, storageVars, store, slots, loader, reads, opens>>
    BY <1>10 DEF vars, sessionVars
  <2>2. FileInv' /\ ReadInv' /\ FileTypeOK' /\ StorageTypeOK' /\ made' = made
    BY <2>1, ReadsUntouched
  <2>3. UNCHANGED <<kind, table, fd, io>>
    BY <2>1 DEF storageVars
  <2>4. TypeOK' /\ SessionInv'
    BY <2>1, <2>2, <2>3 DEF TypeOK, SessionInv, RInv, RestInv
  <2> QED
    BY <2>2, <2>4 DEF RestInv
<1> QED
  BY <1>1, <1>2, <1>3, <1>4, <1>5, <1>6, <1>7, <1>8, <1>9, <1>10 DEF Next

(* It holds in every reachable state. *)
LEMMA ReadInvariance == Spec => []RInv
<1>1. Init => RInv
  BY InitIInv, InitRest DEF RInv
<1>2. RInv /\ [Next]_vars => RInv'
  BY NextIInv, NextRest DEF RInv
<1> QED
  BY <1>1, <1>2, PTL DEF Spec

(* Type correctness of the store, its backend and its files. *)
THEOREM TypeCorrect == Spec => []TypeOK
<1>1. RInv => TypeOK
  BY DEF RInv, RestInv
<1> QED
  BY <1>1, ReadInvariance, PTL

(* While the file is the one the store was opened on, a read that succeeds *)
(* returns its record, whole: on every backend, from every thread, checked *)
(* or not.                                                                 *)
THEOREM ReadsAreExact == Spec => []ReadsExact
<1>1. RInv => ReadsExact
  <2> SUFFICES ASSUME RInv, NEW t \in Threads, io[t].result = "ok", io[t].create = epoch
               PROVE  io[t].got = Wanted(t)
    BY DEF ReadsExact
  <2>1. EntryOK(t) /\ NoRead.result = "none"
    BY Before DEF NoRead
  <2>2. io[t].pc # "idle" /\ Len(io[t].got) = Length(t)
    BY <2>1 DEF EntryOK
  <2> QED
    BY <2>2, ExactBytes
<1> QED
  BY <1>1, ReadInvariance, PTL

(* Whatever another create or a power loss did to the file: what a checked *)
(* read returns is a whole record of its place in the file.                *)
THEOREM CheckedReadsAreWhole == Spec => []CheckedReadsWhole
<1>1. RInv => CheckedReadsWhole
  BY DEF RInv, RestInv, ReadInv
<1> QED
  BY <1>1, ReadInvariance, PTL

(* While the file is the one the store was opened on, no read raises, but  *)
(* those of a gds pipeline on the CPU, which are refused.                  *)
THEOREM ErrorsAreRefusals == Spec => []NoSpuriousError
<1>1. RInv => NoSpuriousError
  BY DEF RInv, RestInv, ReadInv
<1> QED
  BY <1>1, ReadInvariance, PTL
===============================================================================
