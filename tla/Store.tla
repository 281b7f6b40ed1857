--------------------------------- MODULE Store ---------------------------------
(***************************************************************************)
(* KVCacheStore: one process has a store open and reads it with the pool   *)
(* threads of a loader and with its main thread, while create may run on   *)
(* the same directory and the power may fail.                              *)
(***************************************************************************)
EXTENDS StorageFile, Registry

CONSTANTS Main,              \* the main thread
          MaxReads,          \* bound: reads of an opened store
          MaxOpens           \* bound: stores opened

ASSUME StoreAssumption ==
    /\ Main \in Threads
    /\ MaxReads \in Nat /\ MaxOpens \in Nat

VARIABLES store,             \* the create whose manifest the open store has, 0 if none
          slots,             \* the device of the loader's buffers
          loader,            \* "none", "running", "shutting" or "down"
          reads, opens

sessionVars == <<store, slots, loader, reads, opens>>
vars == <<fileVars, storageVars, sessionVars>>

TypeOK ==
    /\ FileTypeOK
    /\ StorageTypeOK
    /\ store \in 0..Len(made)
    /\ slots \in {"cpu", "cuda"}
    /\ loader \in {"none", "running", "shutting", "down"}
    /\ reads \in 0..MaxReads /\ opens \in 0..MaxOpens

Init ==
    /\ FileInit
    /\ StorageInit
    /\ store = 0 /\ slots = "cpu" /\ loader = "none" /\ reads = 0 /\ opens = 0

(* The probes: O_DIRECT and cuFile want Linux (which has preadv), cuFile a *)
(* GPU; buffered only wants the file.                                      *)
Probed(platform, cuda) ==
    {"buffered"} \cup (IF platform THEN {"direct"} ELSE {})
                 \cup (IF platform /\ cuda THEN {"gds"} ELSE {})

(* open, or the end of create, and a pipeline on the store.  The probe of  *)
(* gds leaves the handle it made in place; only gds allocates the loader's *)
(* buffers on the pipeline's device.                                       *)
Open(requested, available, device) ==
    LET backend == Resolve(requested, StorageOrder, StorageBackends, available)
    IN  /\ store = 0 /\ opens < MaxOpens
        /\ manifest \in Nat
        /\ backend # NoBackend
        /\ store' = manifest /\ slots' = IF backend = "gds" THEN device ELSE "cpu"
        /\ loader' = "running" /\ reads' = 0 /\ opens' = opens + 1
        /\ kind' = backend
        /\ IF backend = "gds"
           THEN /\ fd' = LowestFree
                /\ table' = [table EXCEPT ![LowestFree] = "data"]
                /\ position' = [position EXCEPT ![LowestFree] = 0]
           ELSE UNCHANGED <<fd, table, position>>
        /\ UNCHANGED <<fileVars, preadv, lock, io>>

(* A pool thread runs a submitted read_into and the consumer decodes.      *)
PoolRead(t, i) ==
    /\ t # Main /\ loader \in {"running", "shutting"} /\ reads < MaxReads
    /\ BeginRead(t, store, i, slots, slots = "cpu")
    /\ reads' = reads + 1
    /\ UNCHANGED <<fileVars, store, slots, loader, opens>>

(* KVCacheStore.read: its own buffer, with the CRC check (nothing in src/  *)
(* passes verify_crc=False).  It is not refused after close, the backend   *)
(* opens the file again.                                                   *)
MainRead(i) ==
    /\ store # 0 /\ reads < MaxReads
    /\ BeginRead(Main, store, i, IF kind = "gds" THEN "cuda" ELSE "cpu", TRUE)
    /\ reads' = reads + 1
    /\ UNCHANGED <<fileVars, store, slots, loader, opens>>

(* AsyncBlockLoader.close: executor.shutdown(wait=True) returns when the   *)
(* pool is idle.                                                           *)
LoaderShutdown ==
    /\ loader = "running" /\ io[Main].pc = "idle"
    /\ loader' = "shutting"
    /\ UNCHANGED <<fileVars, storageVars, store, slots, reads, opens>>

PoolIdle == \A t \in Threads \ {Main} : io[t].pc = "idle"

(* shutdown(wait=False) *)
LoaderDownUnwaited ==
    /\ loader = "shutting"
    /\ loader' = "down"
    /\ UNCHANGED <<fileVars, storageVars, store, slots, reads, opens>>

LoaderDown ==
    /\ loader = "shutting" /\ PoolIdle
    /\ loader' = "down"
    /\ UNCHANGED <<fileVars, storageVars, store, slots, reads, opens>>

(* As in cli.py: the pipeline's with block has ended, then store.close(). *)
StoreClose ==
    /\ store # 0 /\ loader = "down" /\ io[Main].pc = "idle"
    /\ CloseBackend
    /\ UNCHANGED <<fileVars, kind, io, sessionVars>>

(* __del__: nothing refers to the store any more, no read either. *)
DropStore ==
    /\ store # 0 /\ PoolIdle /\ io[Main].pc = "idle"
    /\ CloseBackend
    /\ kind' = "none"
    /\ store' = 0 /\ slots' = "cpu" /\ loader' = "none" /\ reads' = 0
    /\ UNCHANGED <<fileVars, io, opens>>

(* The process that reads dies with the machine. *)
PowerLoss ==
    /\ PowerFails
    /\ kind' = "none" /\ fd' = NoFd /\ lock' = NoThread
    /\ table' = [f \in Fds |-> "free"] /\ position' = [f \in Fds |-> 0]
    /\ io' = [t \in Threads |-> NoRead]
    /\ store' = 0 /\ slots' = "cpu" /\ loader' = "none" /\ reads' = 0
    /\ UNCHANGED <<preadv, opens>>

Next ==
    \/ CreateNext /\ UNCHANGED <<storageVars, sessionVars>>
    \/ PowerLoss
    \/ \E cuda \in BOOLEAN, requested \in StorageBackends \cup {"auto"} :
          \E device \in {"cpu"} \cup (IF cuda THEN {"cuda"} ELSE {}) :
             Open(requested, Probed(preadv, cuda), device)
    \/ store # 0 /\ \E i \in 0..(Records(store) - 1) :
          MainRead(i) \/ \E t \in Threads : PoolRead(t, i)
    \/ \E t \in Threads : ReadStep(t) /\ UNCHANGED <<fileVars, sessionVars>>
    \/ LoaderShutdown \/ LoaderDown \/ StoreClose \/ DropStore
    \/ loader = "down" /\ OtherOpens /\ UNCHANGED <<fileVars, sessionVars>>

Spec == Init /\ [][Next]_vars

(***************************************************************************)
(* Properties.                                                             *)
(***************************************************************************)
Wanted(t) == RecordPages(io[t].create, io[t].record)

(* While the file is the one the store was opened on, a read that succeeds *)
(* returns the record of its entry, whole: whatever the backend and the    *)
(* thread, on the unchecked device path too (create writes the manifest    *)
(* after the records, the readers do not share a seek offset or a closed   *)
(* descriptor).                                                            *)
ReadsExact ==
    \A t \in Threads :
        io[t].result = "ok" /\ io[t].create = epoch => io[t].got = Wanted(t)

(* Truncated under the reader, rewritten by another create, torn by a      *)
(* power loss: a checked read returns a whole record of the place in the   *)
(* file its entry names, or raises (header and CRC in decode_record).      *)
CheckedReadsWhole ==
    \A t \in Threads :
        io[t].result = "ok" /\ io[t].checked =>
            \E g \in 1..Len(made) : io[t].got = RecordPages(g, io[t].record)

(* While the file is the one the store was opened on, no read raises: not  *)
(* at the end of the file, not on a closed descriptor, not for a record    *)
(* the manifest names but create did not write, not for a lost handle.     *)
(* Except that gds refuses every slot of a pipeline on the CPU.            *)
NoSpuriousError ==
    \A t \in Threads :
        io[t].result = "error" /\ io[t].create = epoch =>
            kind = "gds" /\ slots = "cpu" /\ t # Main

(* Every descriptor open on the file is the backend's or that of a GDS     *)
(* read under way, whoever raced for it: none is lost, so that closing the *)
(* store leaves none.                                                      *)
NoDescriptorLeak ==
    \A f \in Fds : table[f] = "data" =>
        f = fd \/ (kind = "gds" /\ \E t \in Threads : io[t].fd = f)

(* The lock of the seek fallback is held by a reading thread from its seek *)
(* to its last read, and by no other: a read that raises in between leaves *)
(* it free for the others, and no two share the descriptor's offset.       *)
SeekRegionExclusive ==
    \A t \in Threads : lock = t <=> ~preadv /\ io[t].pc \in {"seek", "copy"}
================================================================================
