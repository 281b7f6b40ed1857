# kvssd-attention: TLA+ models, checks and proofs

`kvssd-attention` keeps quantized KV-cache blocks on an SSD. It has two uses: a
standalone store with a decode pipeline (`store`, `loader`, `pipeline`,
attention backends) and a secondary tier for vLLM's offloading connector
(`integrations/vllm.py`, `integrations/vllm_codec.py`). This directory holds the
TLA+ modules that model them, the TLC runs that check them and
the TLAPS proofs about them. `PROJECT.json` lists the runs, the lines each
definition models, the mutants that show each property can fail, the hazards
and the theorems.

Run one check with `tlc -workers 2 -config RecordFile.cfg MCRecordFile.tla`, one
set of proofs with `tlapm RecordFile_proofs.tla`.

## Inventory

| Part | State | Operations | What makes it correct |
|---|---|---|---|
| vLLM tier manager (`integrations/vllm.py`) | `_futures`, `_lookup_futures`, `_inflight_keys`, pool, lock | `lookup`, `submit_store`, `submit_load`, `get_finished_jobs`, `has_pending_work`, `on_request_finished`, `drain_jobs`, `shutdown` | counts exact; no answer during a transfer; HIT stays backed; success covers every block; nothing hides from `has_pending_work`; every job is reported; drain and shutdown end |
| Record publication (`store_record_atomic`) | the record directory and its temporary files | exists, open, write, fsync, replace, unlink | a record is absent or whole, also after crash and power loss; temporaries are private and removed |
| vLLM codec | none | `encode_vllm_block`, `decode_vllm_block`, `record_path` | a stored block comes back within its error, the cast to the slot's dtype included; damaged or foreign records are refused before the slot is written |
| Loader (`loader.py`) | slot queue, slots with read future and reuse event, pending lists | `iter_blocks`, pool reads, stream clones, `close` | deliveries intact and in order; slots neither doubled nor dropped; no blocking for ever |
| Pipeline (`pipeline.py`) | three CUDA streams, staged chunk, resolved backend | `__init__`, `_stage`, `_decode_cuda_streamed`, `decode` | memory is not reused while a stream still reads it; chunks merge to the whole; a requested backend is used or refused |
| Store (`store.py`) | `blocks.kvssd`, `manifest.json` | `create`, `open`, `read`, `close` | as long as no other create touches the file, a read returns the record its manifest entry names; what a create under readers leaves is read whole or refused |
| Formats (`format.py`, `quant.py`) | none | `encode_record`, `decode_record`, `quantize_tensor`, `dequantize_tensor`, `CacheSpec` | the reader's views are the writer's; error within half a step and the roundings of scale and dtype |
| Storage backends (`storage/`, `csrc/gds_bindings.cpp`) | file descriptor or cuFile handle, seek lock | `probe`, `read_into`, `close`, resolve | a read uses the file it was opened on; seek and read do not interleave; no descriptor is lost; short reads raise |
| Attention backends (`backends/`, `csrc/fused_decode.cu`) | registry; shared memory of a thread block | resolve, run | all give the same attention; padding is masked; barriers order shared memory |
| Selectors, attention math (`attention.py`) | none | pure functions | equal to their definition, no block twice |
| CLI, benchmarks, scripts, packaging | none of interest | | not modelled |

How they interact: the scheduler thread of vLLM calls the tier manager; its pool
threads call `store_record_atomic` or read and decode records, and servers that
share a root directory meet only in that directory. In the standalone pipeline a
consumer drives a generator of the loader, whose pool threads read through a
storage backend into slots, all of them through one descriptor or handle; on CUDA
the streams run behind the Python thread. `create` rewrites the files of a
directory in place, whoever has them open.

The hard behaviour is: interleavings of scheduler, drain and pool threads;
several writers of one record; process death and power loss between two file
system calls; failures in the middle of a job; slots whose clones run later on a
stream; generators that are dropped or fail. `hazards` in `PROJECT.json` lists
them at their lines.

## Modules

### RecordSet, RecordFile

`RecordSet` is the abstract promise of the record directory: `Publish(k)` makes a
whole record appear in one step, `PowerLoss` may take away records whose
directory entry was not durable, nothing else changes.

`RecordFile` is `store_record_atomic`, one action per file-system call:
`CheckExists` (mkdir and the early return), `OpenTemp` (`open("xb")`),
`WriteTemp` (write and flush), `FsyncTemp`, `Replace` and `Unlink` (the
`finally` clause). `raising[w]` is an exception under way. `OSErrorRaised` and
`UnlinkRaises` let any call fail, `Crash(p)` kills a process, which comes back
under the same process id, `PowerFail` keeps or loses names and tears files that
were not synced. `leftover` is a history variable: the temporaries that a
death, a power loss or a raising unlink left behind. `TypeOK` says of them that they
are there and that no call fills or renames them (`Abandoned`): a call that meets a
stale file of its own name raises, because it opens with `"xb"`.

A file is `absent`, `torn`, `written` or `synced`. Its bytes are left out: the
offload key is a content hash within a namespace that fixes model, dtype, bits
and layout, so two records of a key are taken to be equal. Since `os.replace` is
atomic and the directory is not fsynced, a renamed record may be lost by a power
loss, and only by it.

Assumed of the environment: live writers have distinct <<process id, thread id>>
pairs (`WritersAssumption`). Servers in containers that share the directory and
have equal process ids violate it.

### SecondaryTier

`KVSSDSecondaryTierManager`. Each region under `self._lock` is one action.
`_submit` is `SubmitStore`/`SubmitLoad`: the counter goes up first, and stays up
when the pool refuses the job after `shutdown`. `lookup` is `LookupSubmit` and
`LookupAnswer`; an answer RETRY that changes no table is a stutter.
`get_finished_jobs` is `GetFinishedJobs`; `drain_jobs` is the loop `DrainCall`,
`DrainSnapshot`, `DrainWait`, `DrainCollect`, `DrainClear`. Pool threads are
`TakeJob`, `RunLookup` (`is_file`) and one action per block, `StoreBlock`,
`LoadBlock`, `BlockFails`; the thread's last block also completes the future,
since nobody can observe the moment between the two. The directory is the
`RecordSet` that `RecordFile` is shown to implement. `BitRot` damages a record on
the medium, `Restart` kills the server with or without the machine's power.

`ConcurrentCallers` says whether other threads may call the manager while one is
inside `drain_jobs` or `shutdown`; vLLM's scheduler is one thread (FALSE), the
lock in the class is there for the general case (TRUE).

Assumed of vLLM, from how the code uses it: a primary slot belongs to its job
until the result is collected, a key occurs once per job, and a load is
submitted only for keys a request was answered HIT for.

### BlockLoader

`AsyncBlockLoader`. A generator stands at `get` (waiting in `free.get()`), `sync`
(waiting for the slot's reuse event), `loop` (the `while pending` loop),
`decoded`, `yielded`, or has ended by returning, raising or being dropped. `Start` sizes the
priming loop with `qsize()` as the code does, before the first `get`. `Decode` pops
the oldest read, takes its result and checks the CRC on the host path; what it gives
are views into the slot. `Deliver` detaches the block from them, a step of its own in
which the slot holds what it holds then; on the GPUDirect path the clones are only
enqueued: the delivery is `InFlight` until `StreamClones` copies what the slot holds
*then*, and the reuse event passes with it. `DeliveredIntact` is about the bytes that
were copied out: they are those of the id asked for, and on the host path they are the
bytes the CRC check passed. Pool threads are `ReadBegins` (the slot is torn), `ReadEnds`, `ReadFails`.
The bytes of a slot are the id of the block they came from.

### StreamedDecode

`KVSSDPipeline` on a CUDA device. The Python thread is a program counter through
`Decode`, `NextChunk` (the loader delivers), `Stage` (`_stage`), `Rebind` (`tensors,
ready = current`), `RunChunk` (the rest of the loop body of `_decode_cuda_streamed`)
and `Finish`; `LoaderRaises` is a read that
raises between two chunks. It enqueues work on the caller's, the transfer and the
compute stream, and `Execute(s)` does a stream's next piece of work some time
later. `Record`/`Wait` are CUDA events. Device memory is one pool of cells per
stream: a cell the frame lets go is free at once, or, when `record_stream` named
another stream, when that stream reaches the mark left there (PyTorch's caching
allocator, which we model from how the code relies on it). `Rebind` therefore leaves
its mark right behind the attention of the chunk before and ahead of the wait for the
new one: a third chunk may be stacked into that memory while the attention of the
second is pending. `merged_out` is rebound behind the merge. What a kernel computes
is the list of what it has read, so a wrong read shows in the result.

With `direct` (GPUDirect) the chunk's blocks are clones on the caller's stream.
`_stage` calls `transfer_stream.wait_stream(current_stream)` while the transfer
stream is the current one; the model does what that call does, it lets the stream
wait for itself. The tensor of `valid_tokens` is copied synchronously, so the
thread then waits for the transfer stream (`StageSync`). Without `direct` the
chunk is copied from pinned host memory.

### BlockFile, StorageFile, Registry, Store

One composition, each module extending the one below. `BlockFile` is
`KVCacheStore.create` on the two files: `CreateBegins` empties `blocks.kvssd`
where it lies, `WriteRecord` puts a record into the output buffer, `FlushPage`
moves a page to the file at any time, `CloseOutput` ends the `with` block,
`TruncateManifest` and `SaveManifest` are the two halves of `write_text`.
`CreateStops` is an exception or a death anywhere in between, `PowerFails` cuts
the file or loses a page, and may lose the manifest: nothing is fsynced. A page
says which create, record and part wrote it; `epoch` is the create whose file it
is.

`StorageFile` is `read_into` and `close` of the three backends, call by call:
`FileDescriptor` (under `_fd_lock`), `HandleTest`, `HandleMake`, `HandleTake`
(`_ensure_handle` has no lock), `Preadv` and `CopyPage` (the number is looked up
once, the pages are copied while a create may rewrite them), `LockFallback`,
`Seek`, `SeekRead` (where `os.preadv` is missing), `Decode`, `Return`. `table` is
the process's descriptor table: a closed number may be given to another file
(`OtherOpens`). A GDS handle closes its descriptor with its last reference
(`Reclaimed`).

`Registry` is the rule both registries share. `Store` adds the session: `Open`
resolves a backend and starts a loader, `PoolRead` and `MainRead` begin reads,
`LoaderShutdown`/`LoaderDown` is `executor.shutdown(wait=True)`, then `StoreClose`
(the order of `cli.py`), `DropStore` is `__del__`, `PowerLoss` ends the process.

A read after `close` opens the descriptor again, as the code does. `epoch`
separates what the code promises (reads of the file the store was opened on)
from what it only detects: `create` truncates in place although `store.py:13` and
`docs/design.md:5` call the file append-only, so a store that stays open may read
a block of another create of the same layout, whole and with a valid CRC;
`CheckedReadsWhole` says that it reads nothing worse.

### Quant, Format, VllmCodec, Attention, FusedKernel, DataPath

The arithmetic, as operators. `Quant` is `quant.py`: groups, scales, rounding to
even, clamping, packing, the cast to a dtype. Elements and scales are whole multiples of
the finest spacing of float16, which is a float of `HalfBits` significant bits that
overflows above `HalfMax`; bfloat16 is one of `BrainBits` that does not overflow, and
float32 arithmetic is exact. A scale is the largest magnitude of its group divided by
`PositiveMax` and rounded (`Half`), and a product of code and scale is rounded by the
cast of `dequantize_tensor` (`Cast`); `Binades` bounds the exponents looked at. `Format` is `CacheSpec`, the sizes, `encode_record`, `decode_record`
and the cutting and padding of `create`; a CRC is the content it is taken over.
`VllmCodec` is the vLLM record and its namespace; `DecodeVllm` casts to the
record's dtype before it writes the slot. `Attention` has the reference,
the Triton program, `merge_attention_chunks` and the selectors: `exp` is a power
of two and scores are small integers, so that everything is exact and NaN and
infinity are tracked; powers are the recursive function `Power` and sums are taken
over sequences (`Total`), so that both can be reasoned about. `FusedKernel` runs the threads of `fused_decode_kernel`
between barriers, in any order, over shared memory whose uninitialised cells are
NaN: a missing or misplaced barrier shows as a NaN or a wrong sum.

`DataPath` composes them as one walk: `CreateStore`, perhaps `DamageRecord`
(one field changes), `Read` (select and decode, on the host or the device path),
`Construct` (the pipeline's choice of a backend), `Attend`, then `RunChunk` or
`LaunchHead`, `RunThreads`, `CollectHead` per chunk; and for vLLM `StoreBlock`,
`DamageBlock`, `LoadBlock`. `Construct` is `KVSSDPipeline.__init__`; it touches no
data, so it stands where its outcome begins to matter. Attention is followed for
tensors that quantize exactly (`Exact`), where "the same attention" is an equation and
not an error bound; `ErrorBounded` speaks of all the others. Its bound is half a
quantization step, plus what the rounding of the scale to float16 moves the largest
element by, plus, in a vLLM slot, half the spacing of the slot's dtype. An element is
lost (infinite or NaN) where the scale overflows, and in a float16 slot where the
largest code times a finite scale does: at 4 bits a maximum of 65504 gives the scale
9360, and 7 * 9360 = 65520 is cast to infinity.

### MC modules and proof modules

`MCRecordFile`, `MCSecondaryTier`, `MCBlockLoader`, `MCStreamedDecode`, `MCStore`
and `MCDataPath` give the small sets. `RecordFile_proofs`, `SecondaryTier_proofs`,
`BlockLoader_proofs`, `StreamedDecode_proofs`, `Store_proofs`, `Quant_proofs`,
`FusedKernel_proofs` and `DataPath_proofs` hold the theorems. Operators such as
`FsyncTempSkipped` beside `FsyncTemp` are plausible bugs: nothing uses them in
the specification, they are the mutants that show that a property can fail.

## Runs

| Run | Instance | Shows |
|---|---|---|
| `record_file` | one key; threads t1, t2 of server p1, t1 of p2; 1 OS error, 2 crashes or power losses; fair; 106k states | `TypeOK`, `TornFree`, `TempOwned`, `OkMeansStored`, `NoOrphanTemp`, `ImplementsRecordSet`, `CallsEnd`, `NeverWedged` |
| `tier_crash` | 2 keys, 2 jobs of up to 2 blocks, 2 threads, 1 fault, 1 damaged record, 1 restart; 333k states | `TypeOK`, `HitIsBacked`, `OkMeansMoved` |
| `tier_concurrent` | as above with two lookup futures, one drain, callers during drain and shutdown; 1.05M states | `InflightExact`, `NoHiddenWork`, `ClosedPoolIsQuiet`, `NoAnswerDuringTransfer` |
| `tier_liveness` | one key, 2 jobs, two threads, 1 fault, 1 damaged record, 1 drain; fair; 15k states | `JobsReported`, `LookupsResolve`, `DrainTerminates`, `ShutdownTerminates` |
| `tier_completions` | smallest instance with a drain | violates `NoCompletionLost` |
| `loader_safety` | 2 slots, 3 blocks, lists of up to 3 ids, two generators at once, 1 failing read; 3.09M states | `TypeOK`, `DeliveredIntact`, `SlotConservation` |
| `loader_liveness` | 2 slots, 2 blocks, one generator at a time, two in sequence, 1 failing read; fair; 187k states | `GetNeverBlocks`, `EveryNextAnswers` |
| `loader_complete` | as above | violates `DoneMeansComplete` |
| `decode` | two calls of up to 3 chunks, 1 raising read, 3 caller cells, 2 transfer cells, 2 compute cells, host and device blocks; 583k states | `TypeOK`, `ResultsExact`, `PendingReadsHeld`, `NeverStuck` |
| `decode_coalescing` | as above, one call | violates `CoalescingSafe` |
| `store` | 2 creates, each of one of two shapes, a main and a pool thread, one store opened, 2 reads, 1 power loss, all backends and platforms; 873k states | `TypeOK`, `ReadsExact`, `CheckedReadsWhole`, `NoSpuriousError`, `NoDescriptorLeak`, `SeekRegionExclusive` |
| `datapath` | 3 accepted and 6 refused layouts, up to 3 tokens, 12 vLLM configurations, every field of a record damaged, 4 kernel threads; 158k states | `TypeOK`, `ErrorBounded`, `DamageDetected`, `AttentionExact`, `FailsClosed` |

Bounds. `MaxFaults`, `MaxCrashes`, `MaxRots`, `MaxDrains`, `MaxRestarts` bound what
the environment does; `MaxBlocks`, `MaxLen` the length of a job or of an
iteration. Two writers of one process and one of another are the smallest set in
which both halves of the temporary name matter and one server survives the
other. Two crashes let a stale temporary appear and its successor die too. Two
jobs of two blocks overlap on a key and fail half way. Three blocks on two slots
make the loader reuse a slot whose clone may still be on the stream; one failing
read and one drop take every slot away. Keys are independent in `RecordFile`, so
one key is enough; what is proved holds for any number.

In `store`, `MaxCreates` is 2 (the one opened and the one that overwrites it),
`MaxOpens` 1 (a store opened before, between or after the creates), `MaxReads` 2 (a
read of each thread, so that two share a descriptor, or one before and one after
`close`), `MaxPowerFails` 1 with at most one
lost page; the output buffer holds two pages and one other file of the process
may take a closed number. The session closes in the order of `cli.py`, loader before
store, so a `close` during a read happens only in the mutant of `NoSpuriousError`
(`LoaderDownUnwaited`), and no two threads meet in `_ensure_handle` without a handle.
In `datapath`,
a float16 of four bits that overflows above 60 and a bfloat16 of two make every rounding
happen (of a scale, of a cast to either), and both overflows (of a scale, and of a
product whose scale is finite) with elements up to 450; three tokens
give a padded last block, a full one and a second chunk; `MaxScore` is 2. One
fault at a time: a record is damaged in one field, or read with another create's
spec, or neither; the device path is taken with the store's own spec only.
`MinThreads` is 4 where the kernel launches at least 32: the tree of the
reduction then still has two levels, and a thread still has no element.

Two transfer and two compute cells are the fewest
a decode needs (the chunk computed and the chunk staged, the merge read and the
merge written), so a cell that comes back is taken by the next chunk; three chunks
and a second call reuse every cell.

Symmetry is used in the safety runs only. `CHECK_DEADLOCK FALSE` is set where the
system really stops: a tier that is closed with its jobs used up, a loader whose
generators have all ended, a pipeline whose calls are used up, a store closed
with its creates used up, a data path at its result.

Fairness. Python threads and the CUDA stream keep running: weak fairness of each
writer's call, of each pool thread, of each read and each stream clone, of the
loops in `drain_jobs` and `shutdown`. vLLM polls: weak fairness of
`GetFinishedJobs` and of `LookupAnswer`, which stands for repeating a lookup that
was answered RETRY. No fairness is given to submissions, faults, crashes, to the
consumer of a generator, or to calls that start something. `Store` and `DataPath`
state safety only and no fairness.

## Findings

* `drain_jobs` (`vllm.py:190`) drops the list that `get_finished_jobs` returns.
  A job that ends before or during a drain is never reported, while
  `docs/vllm.md:61` says that completion is reported through the polling API
  (run `tier_completions`). `JobsReported` therefore speaks of the time before
  the first drain.
* A failed or dropped iteration keeps its slots (`loader.py:64`, `65`, `99`). When
  all are gone the next `iter_blocks` primes nothing (`loader.py:61`) and ends
  normally with no block at all, as if the list had been empty (run
  `loader_complete`). The class promises backpressure by its slots
  (`loader.py:23`).
* The GPUDirect path of `_stage` does not wait for the loader's clones
  (`pipeline.py:76-77`): they are made on the caller's stream, and the
  `wait_stream` meant for it is given the transfer stream itself, because
  `torch.cuda.current_stream` is asked inside `with torch.cuda.stream(...)`. The
  stack can read blocks that are not there yet, against "a stream-safe coalescing
  step" of `docs/release-notes/v0.2.0.md:22` (run `decode_coalescing`).
  `ResultsExact` therefore admits chunks staged from such blocks ("spoiled"), and
  shows that everything behind the staging is exact.

Facts met while modelling that contradict no text of the repository outright, and that
the properties are worded around:

* `manifest.json` keeps a CRC per block that no reader compares; a header's layer,
  block and valid count are outside its CRC and are not compared with the entry
  (`format.py`). `DamageDetected` excepts these fields.
* `CacheSpec.validate` accepts a negative group size and one that fills no whole
  bytes; `quantize_tensor` refuses them when `blocks.kvssd` has been emptied.
* `auto` prefers `gds` wherever it is available: a pipeline on the CPU then
  refuses every slot, and `NoSpuriousError` excepts it. `docs/v0.2-design.md:10` has the
  GPUDirect backend fail over to the pinned-host path "when direct I/O is unavailable";
  here it is available and the pipeline cannot use it, a case that text does not settle,
  so it is a note and no finding.
* `_ensure_handle` of `gds` is not locked. Its race is out of reach because
  `probe` leaves the handle open; `NoDescriptorLeak` would hold with the race too.
* A block of 16-bit floats can come back infinite where nothing was (the float16
  overflow above). No text promises otherwise; `ErrorBounded` names the case.
* The CUDA kernel has no guard for a block without a valid token, nor does the
  host check of the CUDA backend ask for one as Triton's does; `create` makes no
  such block. Its last `__syncthreads()` orders nothing.
* Device records are decoded from the manifest alone, without CRC or header
  (`loader.py:104`, `docs/gds.md:60`); `DamageDetected` is about the host path.

## Proofs

All theorems hold for every value of the constants under the named assumptions
of the modules; TLC evaluates the assumptions on the runs.

`RecordFile_proofs`: the invariant `IInv` is `TypeOK`, `TornFree`, `TempOwned`,
`OkMeansStored`, `NoOrphanTemp` and one strengthening, `UnlinkAfterReplace` (in
the `finally` clause without an exception the record is there), without which
`OkMeansStored` is not inductive. The argument is the code's own: the temporary
name holds process and thread (`TempNameIsWriter`), so what a writer fills is its
own (`TempOwned`), so what it renames is synced (`TornFree`), so a record is
whole from the step that makes it visible. `RecordFileImplementsRecordSet` maps
every step to `Publish`, `PowerLoss` or a stutter under the mapping `View`.

`SecondaryTier_proofs`: `TypeCorrect`; `InflightCountsExact` (the counter equals
the number of uncollected jobs on a key, plus the refused ones; the lemmas about
`Count` say what adding and removing jobs does to it); `NoPendingMeansQuiet`
(every queued or running job is in `_futures`); `RetryDuringTransfer`, an action
property that follows from the exact counts. `HitStaysTrue`, `SuccessMeansMoved` and
`ClosedMeansQuiet` add three parts to the invariant: what a HIT was answered for is
in the directory, because nothing in the tier removes a record; the blocks a job has
moved so far are a prefix of its list, so a future that succeeded moved all of them;
a pool that was shut down with `wait=True` runs nothing.

`BlockLoader_proofs`: all safety invariants of the loader, for any number of slots,
generators, ids and faults, on both paths. `SlotInv` (a slot is in the free queue or
with one generator, once) gives `SlotsConserved`. `IterInv` counts: what a generator
submitted is what it delivered plus what is pending. With both, the n-th pending read
is for the n-th id not delivered yet (`ReadOK`), and a slot whose clones are still on
the stream has a recorded event, no read under way and the bytes its delivery
promised (`SlotOK`), and the views of a generator that has decoded are of the next id's
bytes, in a slot nobody reads into (`ViewOK`): that is why `DeliveriesIntact` holds
although the block is copied out later than it was checked, and on the stream later
still. `SubmitFindsSlot` assumes one generator at a time (`~Concurrent`), as its
property does; `SoloInv` says that the priming loop finds as many free slots as it
was sized for.

`StreamedDecode_proofs`: `TypeCorrect`, `ReadsAreHeld`, `ResultsAreExact`,
`StreamsGoOn` and `MemoryIsFound`, for pools of any size, any number of calls, chunks, slots and faults, and every pace of
the three streams. The invariant has one part for each reason the code is right.
`HostInv` says what the Python thread holds at each step and which stream it has
named for it, `WorkInv` what kinds of work each queue may hold. `HeldInv` is about
memory: a cell is free, held by the frame or given back by one mark, and whatever a
stream will still read of another stream's cells is held or has its mark behind the
read; that is `PendingReadsHeld`. `FenceInv` is about order: while a query, a stack
or an attention is not done its event has not happened, the record of it is behind
it, and the work that depends on it is behind a wait. `DataInv` says of every cell
that is held or read what it will hold when its stream has done its queue (`Here`:
the right work is the last to write it, or it was and nothing else will). When a
stream reaches a read, its fence says that the writer is done (`Settled`), so the
cell holds the value now. Nothing is assumed of the streams' progress, and no bound
of the `decode` runs is used. Two more invariants stand beside these. `WaitInv` says
that a queue waits for an event once, that the event has happened or its record is
still on the stream that gives it, that no stream waits for a chunk it was not given,
and how records and waits follow each other in a queue: a call's query is recorded
before any wait for the end of that or a later call, the end of a call before any wait
for a later call's query. Following the waits from a blocked stream then ends at one
that can go on (`NoCircularWait`). `LeakInv` says that every cell is free, held by the
Python thread or behind a mark (`NoCellIsLost`), on the paths of `LoaderRaises` too;
so two cells in each pool are enough for the Python thread's next step once the
streams are done (`HostFindsMemory`, with two cells per pool as the hypothesis of
`MemoryIsFound`). The run checks the two together as `NeverStuck`, which
`NobodyIsStuck` states. Whether a stacked chunk is whole is deliberately
not part of `ResultsExact`: on the direct path it may be spoiled (see the run
`decode_coalescing`).

`Store_proofs`: `SeekRegionIsExclusive` and `DescriptorsAreHeld`, for any number of
threads, descriptors, shapes, creates, opens and reads. `IInv` adds to the two
properties the form of the state (`Shaped`), that a manifest is of a create that
was made (`ManifestMade`), that without a store there is neither backend nor read
(`QuietWithoutStore`, or an `Open` could forget a handle), and what the place of a
read says about backend and platform (`ReadsByKind`: a GDS read never enters the
seek fallback, since `gds` is only resolved where `preadv` exists,
`GdsMeansPreadv`). The steps of a read share three lemmas: a step that moves one
read (`MoveKeeps`), one that takes a descriptor (`FdTaken`), one that ends a read
(`EndsKeeps`).

Its second half is about what reads return, with the same generality. The
invariant follows the bytes. `FileInv`: every page of the file,
then of the output buffer, stands at the place its create, record and part give it
(`InPlace`), unless a power loss took it; a running create is in no manifest yet, and
a file that a manifest or an open store refers to is complete. `HandleOK`: from its
first step to its last a read has a descriptor open on the data file, and under the
fallback lock the descriptor's offset is where the next page of its record begins.
`BytesOK`: what a read has copied so far are pages of its entry's place, and of the
store's own create while that is the file. Then `ReadsAreExact` follows by arithmetic
(places in different records of one size differ, `OneRecord`), on the unchecked
device path too; `CheckedReadsAreWhole` because a matching CRC makes the pages one
record (`AcceptedIsWhole`); `ErrorsAreRefusals` because the next page is never behind
the end of a complete file (`NextPage`) and a free descriptor number is always found
(`FreeNumber`). The last needs what `StorageAssumption` says of the process: it has
more descriptors than one for each thread, one for the backend and one for another
file (EMFILE is not modelled; a process's limit is far above `io_depth` + 3).

`Quant_proofs`: what the codecs are built on, for tensors of any size.
`PackRoundTrip` (unpacking undoes packing, from `ByteRoundTrip`), `ScaleRoundTrip`
(scales survive their bytes), `CodeNear` (half a step of error, no clamping, from
`RoundEvenNear`), `RecordsAligned` (from `AlignUpLeast`), and lemmas about the parts of
a payload and where the views find them (`PayloadParts`, `ViewsOf`), about the largest
magnitude of a group (`AbsMaxIs`), the float16 of a scale (`HalfIs`) and the distance of
any rounding (`RoundedNear`). A recursive
function is unfolded by `StepsDefine`, itself a least-counterexample argument
(`LeastElement`, from the library's `WFMin`).

`DataPath_proofs`: `BackendFailsClosed`; only the constructor sets what the property
speaks of, and what `Resolve` returns is settled by `NamedResolve`, `AutoResolve` and
`NoCudaOnCpu`, for any specs and tensors. `ReadsAreSound` is `DamageDetected`: the
invariant `MediumInv` says that every record on the medium is the one that was
encoded, or differs from it in the damaged field only. A checked read that accepts a
record has compared the covered bytes with the CRC and the layout with the reader's
spec, so payload and places are those of the writer (`CheckedReadKeeps`); for a vLLM
record the header's bits, group and element count are in no CRC, and it is the sum of
the lengths, the slot's size and the division into groups together that tell a changed
one (`LoadKeeps`, `GroupsTell`). `SelectGivesIds` and `WithoutRepeatsKeeps` say what
the selectors return. `ReadsAreNear` is `ErrorBounded`: `TensorsKept` says that an
undamaged read has the quantized tensors of its blocks, on the host and the device
path, and `QuantizeNear` that quantizing, packing, rounding the scale to float16 and
dequantizing, cast included, moves no element further than the property allows, and that
it is lost only in the two overflows the property names.

`DataPathTypes` and `DecodeIsExact` are `TypeOK` and `AttentionExact`, for any layout,
number of tokens, heads, threads and chunk size. A result is the attention over some
tokens (`Attends`): its elements stand to its denominator as their weighted sums to the
sum of their weights, that sum is its log normalizer, and the denominator is positive
when the sum is. `FusedKernel_proofs` shows that
each backend computes it and that merging keeps it, whatever data it is given:

* `ReferenceAttends`: `ValidRows` lists the valid tokens of the blocks, each once
  (`RowsAre`), and softmax over them is the sums (`SoftmaxAttends`).
* `TritonAttends`: the online softmax over all tokens, padding included; a token that is
  masked changes nothing (`MaskedToken`), one that is valid is added and what was there
  rescaled (`ValidToken`). Rescaling is exact because a later maximum is a higher power
  of two (`Rescale`, from `PowerPlus`). It needs a valid token in the first block, or
  `exp(-inf - -inf)` is NaN: that is the check of `TritonAttentionBackend.run`.
* `KernelAttends`: the CUDA kernel, in every order of its threads. The invariant
  `KernelInv` is a disjunction over the five phases between two barriers; in each, some
  threads have run their statement and wait (`Phase`) and the others have not. In the
  reduction a thread writes its own cell and reads one that no thread of this round
  writes, and the first `stride` cells hold the whole sum (`AtAdd`, `HalfSum`); thread 0
  alone writes maximum, sum and weights (`AtState`); the accumulators are per element
  (`AtWeigh`). Each phase has a lemma for a step within it and one for the last thread
  that reaches the barrier, which starts the next phase (`PartialOver`, `AddOver`,
  `StateOver`, `WeighOver`).
* `MergeAttends`: the merge of two results is the attention over the tokens of both,
  each of which has weight (`PartWeighs`: every block that is read has a valid token).

`DataPath_proofs` then follows a decode. `ChunkAttended`: the packed elements of a
chunk's blocks are the elements of the tensors (`ElementIs`, `ExactElement`), so its
scores and values are those of its tokens, and a query head reads the key-value head
that serves it (`KVHeadIs`). `DecodeInv` says what each stage of the lane knows; while
it attends (`Attending`), `merged` is the attention over the blocks before the next
chunk, `outputs` that of the first heads over the chunk, and a running kernel is at
`KernelInv`. At the end that is the attention over all selected blocks, and a sum over
those is the sum over the picked tokens that `AttentionExact` asks for, because no block
is selected twice (`SelectedTotal`, `WantedIs`). `IdleInv` (no kernel runs outside an
attending pipeline) and `PlainTypes` (types no stage is needed for) complete the types.
Writing the invariant down showed one refusal that the instance is too small for:
more than 256 elements per head on a native backend (`triton.py:168`, `fused_decode.cu:117`), which
`AttentionExact` now names beside an empty selection and an uneven number of heads.

Assumptions on constants are of two kinds: markers (`NoSlot`, `NoClone`, `NoFd`,
`Hole`, `Alien`, ...) differ from what they mark the absence of, and sets that the
code bounds are finite. `WritersAssumption` and the descriptors above are the two
that say something of the environment. `DataAssumption` gives specs, tensors,
selectors and configurations the types the code annotates and the shapes it checks
(`create` compares a tensor's shape with the spec, a slot is viewed as the elements
that fill it, which are floats of the configured dtype); `HalfAssumption` says that
bfloat16 has no more significant bits than float16 and that the exponents looked at
reach the largest product of code and scale.
`ExactAssumption` says what makes the model's attention exact and nothing of the code:
the rows of the tensors in `Exact` are whole units and come back from quantization as
they were (`ExactRow`), their scores lie in
`-MaxScore..MaxScore` (where `exp` as a power of two has no rounding), a query is a
non-empty list of vectors of the layout, and a stage has at least one block
(`pipeline.py:41` refuses others). For a given layout, keys and queries some `MaxScore`
satisfies it, so it bounds no tensor's size.

Only model-checked: all liveness properties and `ENABLED`, which are outside the
prover's reach.

## Not modelled

* The plugin registration and the offloading spec (a property and an import hook),
  argument parsing and printing of the CLI, packaging: no state of their own.
* The benchmarks: wall-clock measurements; `vllm_prefix_reuse` waits for a record
  count that stands still, a heuristic in time. The contract and hardware scripts
  inspect a checkout or a machine once.
* `KVCacheStore.read(verify_crc=False)`: nothing in the repository passes it. The header
  would still be checked, the payload would not.
* Floating-point rounding of attention and inside float32, collisions of CRC and digests, weak memory
  between two barriers, dtype and device checks of the native bindings, alignment
  checks of buffers that the allocator satisfies.
* Servers in different containers that share a directory with equal process and
  thread ids; two generators that prime one loader at the same instant (both
  listed under `hazards`).

## Plan

1. Done: `RecordSet`, `RecordFile`, `SecondaryTier`, `BlockLoader`,
   `StreamedDecode`, their runs, and the proofs about the first two.
2. Done: `BlockFile`, `StorageFile`, `Registry` and `Store` in one run, and the proofs
   about lock and descriptors.
3. Done: `Quant`, `Format`, `VllmCodec`, `Attention`, `FusedKernel` and `DataPath` in one
   run, and the proofs about packing, rounding, alignment and the choice of a
   backend.
4. Done, proofs: the other safety invariants of `SecondaryTier`, all of `BlockLoader`
   and all of `Store`.
5. Done, proofs: `StreamedDecode`, who holds a cell and which mark in a queue will
   free it, then what each cell will hold when a stream reaches its next work.
6. Done, proofs: `DamageDetected` and `ErrorBounded` of the data path, waits and memory
   of `StreamedDecode`.
7. Done, proofs: the attention backends and their merge, and with them the types and
   `AttentionExact` of the data path. Every safety property of the runs has a theorem.
