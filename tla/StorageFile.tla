------------------------------ MODULE StorageFile ------------------------------
(***************************************************************************)
(* read_into and close of the storage backends (storage/buffered.py,       *)
(* direct.py, gds.py and csrc/gds_bindings.cpp) on one blocks.kvssd.       *)
(* Descriptors are numbers of the process: a number that was closed may be *)
(* given to another file.  For gds, fd stands for _handle: a GDSFile owns  *)
(* one descriptor and closes it with its last reference.                   *)
(***************************************************************************)
EXTENDS BlockFile

CONSTANTS Threads,           \* the pool threads of the loader and the main thread
          Fds,               \* descriptor numbers, 1..n
          NoFd, NoThread,
          Alien,             \* a page of another file
          Blank              \* what torch.empty leaves in a buffer

(* The process does not run out of descriptors: one for each thread, one   *)
(* for the backend and one for another file.                               *)
ASSUME StorageAssumption ==
    /\ Fds \subseteq Nat /\ IsFiniteSet(Fds) /\ NoFd \notin Fds
    /\ IsFiniteSet(Threads) /\ NoThread \notin Threads
    /\ Cardinality(Fds) > Cardinality(Threads) + 1
    /\ Cardinality({Alien, Hole, Blank}) = 3
    /\ {Alien, Hole, Blank} \cap Page = {}

VARIABLES kind,              \* the backend: "buffered", "direct", "gds" or none
          preadv,            \* os has preadv
          table,             \* what each descriptor number names
          position,          \* the seek offset of each descriptor
          fd,                \* self._fd, self._handle
          lock,              \* _fallback_lock
          io                 \* io[t]: the read of thread t

storageVars == <<kind, preadv, table, position, fd, lock, io>>

Stages == {"idle", "open", "make", "take", "read", "lock", "seek", "copy", "decode", "returns"}

StorageTypeOK ==
    /\ kind \in {"none", "buffered", "direct", "gds"} /\ preadv \in BOOLEAN
    /\ table \in [Fds -> {"free", "data", "other"}]
    /\ position \in [Fds -> Nat]
    /\ fd \in Fds \cup {NoFd}
    /\ lock \in Threads \cup {NoThread}
    /\ io \in [Threads -> [pc : Stages, create : 0..MaxCreates, record : Nat,
                           fd : Fds \cup {NoFd}, checked : BOOLEAN,
                           got : Seq(Page \cup {Hole, Alien}),
                           result : {"none", "ok", "error"}]]

NoRead == [pc |-> "idle", create |-> 0, record |-> 0, fd |-> NoFd,
           checked |-> FALSE, got |-> <<>>, result |-> "none"]

StorageInit ==
    /\ kind = "none" /\ preadv \in BOOLEAN
    /\ table = [f \in Fds |-> "free"]
    /\ position = [f \in Fds |-> 0]
    /\ fd = NoFd
    /\ lock = NoThread
    /\ io = [t \in Threads |-> NoRead]

(* POSIX and the C runtime of Windows give out the lowest free number. *)
LowestFree == CHOOSE f \in Fds : /\ table[f] = "free"
                                 /\ \A e \in Fds : table[e] = "free" => f <= e

(* ~GDSFile: what no reference holds any more is closed. *)
Held(newFd, newIo) == {newFd} \cup {newIo[t].fd : t \in Threads}
Reclaimed(newTable, newFd, newIo) ==
    [f \in Fds |-> IF newTable[f] = "data" /\ f \notin Held(newFd, newIo)
                   THEN "free" ELSE newTable[f]]

Step(t, pc) == io' = [io EXCEPT ![t].pc = pc]

(* A lock released by hand, and not when the read raises. *)
EndsHoldingLock(t, result) ==
    /\ io' = [io EXCEPT ![t].pc = "returns", ![t].fd = NoFd, ![t].result = result]
    /\ table' = IF kind = "gds" THEN Reclaimed(table, fd, io') ELSE table
    /\ lock' = lock

(* The read is over: the frame drops its handle, leaving the with block    *)
(* frees the lock.                                                         *)
Ends(t, result) ==
    /\ io' = [io EXCEPT ![t].pc = "returns", ![t].fd = NoFd, ![t].result = result]
    /\ table' = IF kind = "gds" THEN Reclaimed(table, fd, io') ELSE table
    /\ lock' = IF lock = t THEN NoThread ELSE lock

(***************************************************************************)
(* read_into.                                                              *)
(***************************************************************************)
(* A GDS read needs a CUDA destination, the others a CPU one. *)
BeginRead(t, create, record, destination, checked) ==
    /\ io[t].pc = "idle"
    /\ io' = [io EXCEPT ![t] =
                [NoRead EXCEPT !.create = create, !.record = record, !.checked = checked,
                               !.pc = IF (kind = "gds") = (destination = "cuda")
                                      THEN "open" ELSE "returns",
                               !.result = IF (kind = "gds") = (destination = "cuda")
                                          THEN "none" ELSE "error"]]
    /\ UNCHANGED <<kind, preadv, table, position, fd, lock>>

(* Without _fd_lock two threads may both find no descriptor. *)
FileDescriptorUnlocked(t) ==
    /\ kind \in {"buffered", "direct"} /\ io[t].pc = "open"
    /\ fd' = IF fd = NoFd \/ \E u \in Threads \ {t} : io[u].pc = "read" THEN LowestFree ELSE fd
    /\ table' = [table EXCEPT ![fd'] = "data"]
    /\ position' = position
    /\ io' = [io EXCEPT ![t].fd = fd', ![t].pc = IF preadv THEN "read" ELSE "lock"]
    /\ UNCHANGED <<kind, preadv, lock>>

(* _file_descriptor, all of it under the lock. *)
FileDescriptor(t) ==
    /\ kind \in {"buffered", "direct"} /\ io[t].pc = "open"
    /\ fd' = IF fd = NoFd THEN LowestFree ELSE fd
    /\ table' = [table EXCEPT ![fd'] = "data"]
    /\ position' = IF fd = NoFd THEN [position EXCEPT ![fd'] = 0] ELSE position
    /\ io' = [io EXCEPT ![t].fd = fd', ![t].pc = IF preadv THEN "read" ELSE "lock"]
    /\ UNCHANGED <<kind, preadv, lock>>

(* _ensure_handle has no lock: test, make and return are three steps. *)
HandleTest(t) ==
    /\ kind = "gds" /\ io[t].pc = "open"
    /\ Step(t, IF fd = NoFd THEN "make" ELSE "take")
    /\ UNCHANGED <<kind, preadv, table, position, fd, lock>>

HandleMake(t) ==
    /\ io[t].pc = "make"
    /\ fd' = LowestFree
    /\ Step(t, "take")
    /\ table' = Reclaimed([table EXCEPT ![fd'] = "data"], fd', io')
    /\ position' = [position EXCEPT ![fd'] = 0]
    /\ UNCHANGED <<kind, preadv, lock>>

HandleTake(t) ==
    /\ io[t].pc = "take"
    /\ IF fd = NoFd
       THEN Ends(t, "error")
       ELSE /\ io' = [io EXCEPT ![t].fd = fd, ![t].pc = "read"]
            /\ UNCHANGED <<table, lock>>
    /\ UNCHANGED <<kind, preadv, position, fd>>

Length(t) == made[io[t].create].pages

(* preadv and cuFileRead look the number up once, then copy. *)
Preadv(t) ==
    /\ io[t].pc = "read"
    /\ CASE table[io[t].fd] = "free"  -> Ends(t, "error")
         [] table[io[t].fd] = "other" ->
               /\ io' = [io EXCEPT ![t].got = [p \in 1..Length(t) |-> Alien],
                                   ![t].pc = "decode"]
               /\ UNCHANGED <<table, lock>>
         [] OTHER -> Step(t, "copy") /\ UNCHANGED <<table, lock>>
    /\ UNCHANGED <<kind, preadv, position, fd>>

(* Without the comparison of total and length what was not read stays as   *)
(* torch.empty left it.                                                    *)
CopyFromShort(t, x) ==
    /\ io' = [io EXCEPT ![t].got = Append(@, IF x <= Len(pages) THEN pages[x] ELSE Blank),
                        ![t].pc = IF Len(io[t].got) + 1 = Length(t) THEN "decode" ELSE "copy"]
    /\ lock' = IF lock = t /\ Len(io[t].got) + 1 = Length(t) THEN NoThread ELSE lock
    /\ table' = table

(* The page at place x joins the bytes read; at the end of the file the    *)
(* read is short.                                                          *)
CopyFrom(t, x) ==
    IF x <= Len(pages)
    THEN /\ io' = [io EXCEPT ![t].got = Append(@, pages[x]),
                             ![t].pc = IF Len(io[t].got) + 1 = Length(t) THEN "decode" ELSE "copy"]
         /\ lock' = IF lock = t /\ Len(io[t].got) + 1 = Length(t) THEN NoThread ELSE lock
         /\ table' = table
    ELSE Ends(t, "error")

CopyPage(t) ==
    /\ io[t].pc = "copy" /\ lock # t
    /\ CopyFrom(t, Offset(io[t].create, io[t].record) + Len(io[t].got) + 1)
    /\ UNCHANGED <<kind, preadv, position, fd>>

(* The fallback: lseek and read share the offset of the descriptor. *)
LockFallback(t) ==
    /\ io[t].pc = "lock"
    /\ lock = NoThread
    /\ lock' = t
    /\ Step(t, "seek")
    /\ UNCHANGED <<kind, preadv, table, position, fd>>

Seek(t) ==
    /\ io[t].pc = "seek"
    /\ IF table[io[t].fd] = "free"
       THEN Ends(t, "error") /\ position' = position
       ELSE /\ position' = [position EXCEPT ![io[t].fd] = Offset(io[t].create, io[t].record)]
            /\ Step(t, "copy")
            /\ UNCHANGED <<table, lock>>
    /\ UNCHANGED <<kind, preadv, fd>>

SeekRead(t) ==
    /\ io[t].pc = "copy" /\ lock = t
    /\ CASE table[io[t].fd] = "free" -> Ends(t, "error") /\ position' = position
         [] table[io[t].fd] = "other" ->
               /\ io' = [io EXCEPT ![t].got = [p \in 1..Length(t) |-> Alien], ![t].pc = "decode"]
               /\ lock' = NoThread
               /\ UNCHANGED <<table, position>>
         [] OTHER ->
               /\ CopyFrom(t, position[io[t].fd] + 1)
               /\ position' = [position EXCEPT ![io[t].fd] = @ + 1]
    /\ UNCHANGED <<kind, preadv, fd>>

(***************************************************************************)
(* What becomes of the bytes: decode_record on the host, which wants a     *)
(* header of the store's layout and the payload the header's CRC is of;    *)
(* on the device path (_decode_device_record) nothing is compared.         *)
(***************************************************************************)
HeaderFits(got, g) ==
    /\ got[1] \notin {Hole, Alien}
    /\ got[1].part = 1
    /\ made[got[1].create].layout = made[g].layout

CRCUnverified(got) == TRUE

CRCMatches(got) == got = RecordPages(got[1].create, got[1].record)

Decode(t) ==
    /\ io[t].pc = "decode"
    /\ Ends(t, IF io[t].checked =>
                    HeaderFits(io[t].got, io[t].create) /\ CRCMatches(io[t].got)
               THEN "ok" ELSE "error")
    /\ UNCHANGED <<kind, preadv, position, fd>>

(* The caller has the result: the future's, or that of KVCacheStore.read. *)
Return(t) ==
    /\ io[t].pc = "returns"
    /\ io' = [io EXCEPT ![t] = NoRead]
    /\ UNCHANGED <<kind, preadv, table, position, fd, lock>>

(* close(): the descriptor is closed at once; a GDSFile when unreferenced. *)
CloseBackend ==
    /\ fd' = NoFd
    /\ table' = IF kind = "gds" THEN Reclaimed(table, NoFd, io)
                ELSE [f \in Fds |-> IF f = fd THEN "free" ELSE table[f]]
    /\ position' = [f \in Fds |-> IF table'[f] = "free" THEN 0 ELSE position[f]]
    /\ UNCHANGED <<preadv, lock>>

(* Some other file of the process is opened, one at most: once the         *)
(* backend's is closed, before that it would only take another number.     *)
OtherOpens ==
    /\ fd = NoFd
    /\ \A f \in Fds : table[f] # "other"
    /\ table' = [table EXCEPT ![LowestFree] = "other"]
    /\ UNCHANGED <<kind, preadv, position, fd, lock, io>>

ReadStep(t) ==
    \/ FileDescriptor(t) \/ HandleTest(t) \/ HandleMake(t) \/ HandleTake(t)
    \/ Preadv(t) \/ CopyPage(t)
    \/ LockFallback(t) \/ Seek(t) \/ SeekRead(t)
    \/ Decode(t) \/ Return(t)
===============================================================================
