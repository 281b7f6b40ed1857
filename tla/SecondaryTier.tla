---------------------------- MODULE SecondaryTier ----------------------------
(***************************************************************************)
(* KVSSDSecondaryTierManager (integrations/vllm.py): the scheduler looks   *)
(* offload keys up, submits store and load jobs and collects results; pool *)
(* threads do the file work.  Every locked region is one action, a pool    *)
(* thread moves one block per action, drain_jobs is a loop of its own.     *)
(*                                                                         *)
(* The record directory is the RecordSet that store_record_atomic          *)
(* implements (RecordFile).  A primary-tier slot belongs to its job until  *)
(* the result is collected, so slots are not named: moved[j] counts the    *)
(* blocks of j already encoded or decoded.                                 *)
(***************************************************************************)
EXTENDS Integers, Sequences, FiniteSets

CONSTANTS Keys, Reqs, Jobs,  \* offload keys, request ids, job ids
          Workers,           \* threads of the pool (n_io_threads)
          LookupIds,         \* is_file futures alive at one time (bound)
          NoLookup, Idle,    \* no entry in _lookup_futures; a thread without job
          ConcurrentCallers, \* TRUE: other threads call during drain or shutdown
          MaxBlocks,         \* bound: blocks of one job
          MaxFaults,         \* bound: block transfers that raise
          MaxRots,           \* bound: records damaged on the medium
          MaxDrains, MaxRestarts

ASSUME ConstantsAssumption ==
    /\ IsFiniteSet(Jobs)
    /\ Jobs \cap LookupIds = {}
    /\ NoLookup \notin LookupIds /\ Idle \notin Jobs
    /\ ConcurrentCallers \in BOOLEAN
    /\ {MaxBlocks, MaxFaults, MaxRots, MaxDrains, MaxRestarts} \subseteq Nat

VARIABLES
    disk, durable, boots, \* the record directory, a RecordSet
    corrupt,           \* keys whose record the medium damaged
    kind, blocks,      \* job j: "store" or "load", and its keys in order
    future,            \* future[j]: state of the pool's future of job j
    moved,             \* moved[j]: blocks of j moved so far
    garbled,           \* jobs that put damaged data into a primary slot
    futures,           \* jobs in self._futures
    inflight,          \* self._inflight_keys
    lookupFuture,      \* self._lookup_futures
    isFile,            \* isFile[l]: state of the is_file future l
    queue, running,    \* the pool's queue; the job each thread works on
    pool,              \* "open", "closing" (shutdown waits), "closed"
    drain,             \* drain_jobs: its next step and its snapshot
    known,             \* known[r, k]: the answer request r holds for k
    reported,          \* reported[j]: the JobResult the scheduler got
    faults, rots, drains, restarts

diskVars   == <<disk, durable, boots, corrupt>>
jobVars    == <<kind, blocks, future, moved, garbled>>
tableVars  == <<futures, inflight>>
lookupVars == <<lookupFuture, isFile, known>>
poolVars   == <<queue, running>>
boundVars  == <<faults, rots, drains, restarts>>
vars == <<disk, durable, boots, corrupt, kind, blocks, future, moved, garbled,
          futures, inflight, lookupFuture, isFile, queue, running, pool,
          drain, known, reported, faults, rots, drains, restarts>>

Records == INSTANCE RecordSet WITH view <- disk

(* keys and block_ids of a JobMetadata; vLLM names a key once per job. *)
BlockLists ==
    {s \in UNION {[1..n -> Keys] : n \in 1..MaxBlocks} :
        \A a, b \in DOMAIN s : s[a] = s[b] => a = b}

KeysOf(j) == {blocks[j][i] : i \in 1..Len(blocks[j])}

Done == {"ok", "error"}
FutureStates == {"none", "rejected", "queued", "running", "lost"} \cup Done

TypeOK ==
    /\ Records!RecordSetTypeOK
    /\ corrupt \subseteq Keys
    /\ kind \in [Jobs -> {"none", "store", "load"}]
    /\ blocks \in [Jobs -> BlockLists \cup {<<>>}]
    /\ future \in [Jobs -> FutureStates]
    /\ moved \in [Jobs -> Nat]
    /\ garbled \subseteq Jobs
    /\ futures \subseteq Jobs
    /\ inflight \in [Keys -> Nat]
    /\ lookupFuture \in [Reqs \X Keys -> LookupIds \cup {NoLookup}]
    /\ isFile \in [LookupIds -> {"unused", "pending", "true", "false", "error"}]
    /\ queue \in Seq(Jobs \cup LookupIds)
    /\ running \in [Workers -> Jobs \cup {Idle}]
    /\ pool \in {"open", "closing", "closed"}
    /\ drain \in [pc : {"idle", "snapshot", "wait", "collect", "clear"},
                  jobs : SUBSET Jobs, lookups : SUBSET LookupIds]
    /\ known \in [Reqs \X Keys -> {"none", "hit", "miss"}]
    /\ reported \in [Jobs -> {"none"} \cup Done]
    /\ faults \in 0..MaxFaults /\ rots \in 0..MaxRots
    /\ drains \in 0..MaxDrains /\ restarts \in 0..MaxRestarts

NoDrain == [pc |-> "idle", jobs |-> {}, lookups |-> {}]

Init ==
    /\ Records!RecordSetInit
    /\ corrupt = {}
    /\ kind = [j \in Jobs |-> "none"]
    /\ blocks = [j \in Jobs |-> <<>>]
    /\ future = [j \in Jobs |-> "none"]
    /\ moved = [j \in Jobs |-> 0]
    /\ garbled = {}
    /\ futures = {}
    /\ inflight = [k \in Keys |-> 0]
    /\ lookupFuture = [rk \in Reqs \X Keys |-> NoLookup]
    /\ isFile = [l \in LookupIds |-> "unused"]
    /\ queue = <<>>
    /\ running = [w \in Workers |-> Idle]
    /\ pool = "open"
    /\ drain = NoDrain
    /\ known = [rk \in Reqs \X Keys |-> "none"]
    /\ reported = [j \in Jobs |-> "none"]
    /\ faults = 0 /\ rots = 0 /\ drains = 0 /\ restarts = 0

(* The scheduler thread is not inside drain_jobs or shutdown. *)
CallerFree == ConcurrentCallers \/ (drain.pc = "idle" /\ pool # "closing")

(* The lookups entries of the scheduler's requests, as futures. *)
LookupEntries == {lookupFuture[rk] : rk \in Reqs \X Keys} \ {NoLookup}

InQueue(x) == \E i \in 1..Len(queue) : queue[i] = x

(***************************************************************************)
(* submit_store and submit_load.  The counter is raised before the pool is *)
(* asked; a pool that is shut down raises and the counter keeps its value. *)
(***************************************************************************)
Count(js, k) == Cardinality({j \in js : k \in KeysOf(j)})

AddKeys(ks) == inflight' = [k \in Keys |-> IF \E i \in DOMAIN ks : ks[i] = k
                                           THEN inflight[k] + 1 ELSE inflight[k]]

Submit(j, job, ks) ==
    /\ CallerFree
    /\ future[j] = "none"
    /\ AddKeys(ks)
    /\ kind' = [kind EXCEPT ![j] = job]
    /\ blocks' = [blocks EXCEPT ![j] = ks]
    /\ IF pool = "open"
         THEN /\ future' = [future EXCEPT ![j] = "queued"]
              /\ queue' = Append(queue, j)
              /\ futures' = futures \cup {j}
         ELSE /\ future' = [future EXCEPT ![j] = "rejected"]
              /\ UNCHANGED <<queue, futures>>
    /\ UNCHANGED <<diskVars, moved, garbled, lookupVars, running, pool, drain,
                   reported, boundVars>>

SubmitStore(j, ks) == Submit(j, "store", ks)

(* vLLM loads a key only for a request that was answered HIT for it. *)
SubmitLoad(j, ks) ==
    /\ \E r \in Reqs : \A i \in DOMAIN ks : known[<<r, ks[i]>>] = "hit"
    /\ Submit(j, "load", ks)

(***************************************************************************)
(* get_finished_jobs, and the same collection inside drain_jobs, where the *)
(* results are not used.  `+= Counter()` drops the counts below one.       *)
(***************************************************************************)
FinishedOrNot == futures
Finished == {j \in futures : future[j] \in Done}

CollectSubtractsAll(js) ==
    /\ futures' = futures \ js
    /\ inflight' = [k \in Keys |-> inflight[k] - Count(futures, k)]

CollectKeepsCounts(js) == futures' = futures \ js /\ UNCHANGED inflight

Collect(js) ==
    /\ futures' = futures \ js
    /\ inflight' = [k \in Keys |-> IF inflight[k] > Count(js, k)
                                   THEN inflight[k] - Count(js, k) ELSE 0]

(* success=future.exception() is None *)
Success(j) == future[j]

GetFinishedJobsThatSucceeded ==
    LET js == {j \in Finished : future[j] = "ok"} IN
    /\ CallerFree
    /\ js # {}
    /\ Collect(js)
    /\ reported' = [j \in Jobs |-> IF j \in js THEN Success(j) ELSE reported[j]]
    /\ UNCHANGED <<diskVars, jobVars, lookupVars, poolVars, pool, drain, boundVars>>

GetFinishedJobs ==
    /\ CallerFree
    /\ Finished # {}
    /\ Collect(Finished)
    /\ reported' = [j \in Jobs |-> IF j \in Finished THEN Success(j) ELSE reported[j]]
    /\ UNCHANGED <<diskVars, jobVars, lookupVars, poolVars, pool, drain, boundVars>>

(***************************************************************************)
(* lookup.  While a transfer of k is in flight, while its is_file future   *)
(* is not done, and when it has just been submitted the answer is RETRY,   *)
(* which changes nothing but the table.                                    *)
(***************************************************************************)
(* A future nobody refers to any more. *)
FreeLookup(l) == l \notin LookupEntries /\ l \notin drain.lookups /\ ~InQueue(l)

LookupSubmit(r, k) ==
    /\ CallerFree
    /\ known[<<r, k>>] = "none"
    /\ inflight[k] = 0
    /\ lookupFuture[<<r, k>>] = NoLookup
    /\ pool = "open"
    /\ \E l \in LookupIds :
         /\ FreeLookup(l)
         /\ lookupFuture' = [lookupFuture EXCEPT ![<<r, k>>] = l]
         /\ isFile' = [isFile EXCEPT ![l] = "pending"]
         /\ queue' = Append(queue, l)
    /\ UNCHANGED <<diskVars, jobVars, tableVars, known, running, pool, drain,
                   reported, boundVars>>

(* future.result() outside the lock: the answer, or is_file's exception. *)
Answer(l) == CASE isFile[l] = "true" -> "hit" [] isFile[l] = "false" -> "miss"
               [] OTHER -> "none"

LookupAnswerAlways(r, k) ==
    /\ CallerFree
    /\ lookupFuture[<<r, k>>] # NoLookup
    /\ isFile[lookupFuture[<<r, k>>]] \in {"true", "false", "error"}
    /\ known' = [known EXCEPT ![<<r, k>>] = Answer(lookupFuture[<<r, k>>])]
    /\ lookupFuture' = [lookupFuture EXCEPT ![<<r, k>>] = NoLookup]
    /\ UNCHANGED <<diskVars, jobVars, tableVars, isFile, poolVars, pool, drain,
                   reported, boundVars>>

LookupAnswer(r, k) ==
    /\ CallerFree
    /\ inflight[k] = 0
    /\ lookupFuture[<<r, k>>] # NoLookup
    /\ isFile[lookupFuture[<<r, k>>]] \in {"true", "false", "error"}
    /\ known' = [known EXCEPT ![<<r, k>>] = Answer(lookupFuture[<<r, k>>])]
    /\ lookupFuture' = [lookupFuture EXCEPT ![<<r, k>>] = NoLookup]
    /\ UNCHANGED <<diskVars, jobVars, tableVars, isFile, poolVars, pool, drain,
                   reported, boundVars>>

(* on_request_finished forgets r's lookups; r forgets its answers. *)
RequestFinished(r) ==
    /\ CallerFree
    /\ \E k \in Keys : lookupFuture[<<r, k>>] # NoLookup \/ known[<<r, k>>] # "none"
    /\ lookupFuture' = [rk \in Reqs \X Keys |-> IF rk[1] = r THEN NoLookup
                                                            ELSE lookupFuture[rk]]
    /\ known' = [rk \in Reqs \X Keys |-> IF rk[1] = r THEN "none" ELSE known[rk]]
    /\ UNCHANGED <<diskVars, jobVars, tableVars, isFile, poolVars, pool, drain,
                   reported, boundVars>>

(***************************************************************************)
(* The pool's threads.                                                     *)
(***************************************************************************)
TakeJob(w) ==
    /\ running[w] = Idle
    /\ queue # <<>>
    /\ Head(queue) \in Jobs
    /\ running' = [running EXCEPT ![w] = Head(queue)]
    /\ future' = [future EXCEPT ![Head(queue)] = "running"]
    /\ queue' = Tail(queue)
    /\ UNCHANGED <<diskVars, kind, blocks, moved, garbled, tableVars, lookupVars,
                   pool, drain, reported, boundVars>>

(* is_file looks at the directory when the thread runs it, or raises.  The *)
(* future has at most one entry; without one nobody reads the answer.      *)
RunLookup(w) ==
    /\ running[w] = Idle
    /\ queue # <<>>
    /\ Head(queue) \in LookupIds
    /\ LET l     == Head(queue)
           found == \E rk \in Reqs \X Keys : lookupFuture[rk] = l /\ disk[rk[2]] = "whole"
       IN \/ /\ isFile' = [isFile EXCEPT ![l] = IF found THEN "true" ELSE "false"]
             /\ UNCHANGED faults
          \/ /\ faults < MaxFaults
             /\ faults' = faults + 1
             /\ isFile' = [isFile EXCEPT ![l] = "error"]
    /\ queue' = Tail(queue)
    /\ UNCHANGED <<diskVars, jobVars, tableVars, lookupFuture, known, running,
                   pool, drain, reported, rots, drains, restarts>>

NextKey(j) == blocks[j][moved[j] + 1]

(* Block moved[j] + 1 of thread w's job is done; the last one ends the job. *)
BlockMoved(w, j) ==
    /\ moved' = [moved EXCEPT ![j] = moved[j] + 1]
    /\ IF moved[j] + 1 = Len(blocks[j])
         THEN /\ future' = [future EXCEPT ![j] = "ok"]
              /\ running' = [running EXCEPT ![w] = Idle]
         ELSE UNCHANGED <<future, running>>

(* The exception ends the job: the blocks after this one are not touched. *)
JobRaises(w, j) ==
    /\ future' = [future EXCEPT ![j] = "error"]
    /\ running' = [running EXCEPT ![w] = Idle]
    /\ UNCHANGED moved

(* encode_vllm_block and store_record_atomic; an existing record is kept. *)
StoreBlock(w) ==
    \E j \in Jobs :
        /\ running[w] = j
        /\ kind[j] = "store"
        /\ Records!Publish(NextKey(j))
        /\ BlockMoved(w, j)
        /\ UNCHANGED <<corrupt, kind, blocks, garbled, tableVars, lookupVars, queue,
                       pool, drain, reported, boundVars>>

(* read_bytes and decode_vllm_block: a missing record raises, a damaged    *)
(* one fails its CRC before anything is copied into the slot.              *)
LoadBlockUnchecked(w) ==
    \E j \in Jobs :
        /\ running[w] = j
        /\ kind[j] = "load"
        /\ IF disk[NextKey(j)] = "absent" THEN JobRaises(w, j) ELSE BlockMoved(w, j)
        /\ garbled' = IF NextKey(j) \in corrupt THEN garbled \cup {j} ELSE garbled
        /\ UNCHANGED <<diskVars, kind, blocks, tableVars, lookupVars, queue,
                       pool, drain, reported, boundVars>>

LoadBlock(w) ==
    \E j \in Jobs :
        /\ running[w] = j
        /\ kind[j] = "load"
        /\ IF disk[NextKey(j)] = "absent" \/ NextKey(j) \in corrupt
             THEN JobRaises(w, j) ELSE BlockMoved(w, j)
        /\ UNCHANGED <<diskVars, kind, blocks, garbled, tableVars, lookupVars, queue,
                       pool, drain, reported, boundVars>>

(* A block fails: encoding, a file-system call or decoding raises.  A      *)
(* failing store may have renamed its record already (RecordFile).         *)
BlockFailsAndRemoves(w) ==
    \E j \in Jobs :
        /\ running[w] = j
        /\ faults < MaxFaults
        /\ faults' = faults + 1
        /\ disk' = [disk EXCEPT ![NextKey(j)] = "absent"]
        /\ JobRaises(w, j)
        /\ UNCHANGED <<durable, boots, corrupt, kind, blocks, garbled, tableVars, lookupVars,
                       queue, pool, drain, reported, rots, drains, restarts>>

BlockFails(w) ==
    \E j \in Jobs :
        /\ running[w] = j
        /\ faults < MaxFaults
        /\ faults' = faults + 1
        /\ \/ UNCHANGED <<disk, durable, boots>>
           \/ kind[j] = "store" /\ Records!Publish(NextKey(j))
        /\ JobRaises(w, j)
        /\ UNCHANGED <<corrupt, kind, blocks, garbled, tableVars, lookupVars, queue,
                       pool, drain, reported, rots, drains, restarts>>

(***************************************************************************)
(* drain_jobs: snapshot both tables, wait for the snapshot's futures,      *)
(* collect what is done, clear the lookups, look again.                    *)
(***************************************************************************)
DrainCall ==
    /\ CallerFree
    /\ drain.pc = "idle"
    /\ drains < MaxDrains
    /\ drains' = drains + 1
    /\ drain' = [drain EXCEPT !.pc = "snapshot"]
    /\ UNCHANGED <<diskVars, jobVars, tableVars, lookupVars, poolVars, pool,
                   reported, faults, rots, restarts>>

DrainSnapshot ==
    /\ drain.pc = "snapshot"
    /\ drain' = IF futures = {} /\ LookupEntries = {} THEN NoDrain
                ELSE [pc |-> "wait", jobs |-> futures, lookups |-> LookupEntries]
    /\ UNCHANGED <<diskVars, jobVars, tableVars, lookupVars, poolVars, pool,
                   reported, boundVars>>

DrainWait ==
    /\ drain.pc = "wait"
    /\ \A j \in drain.jobs : future[j] \in Done
    /\ \A l \in drain.lookups : isFile[l] # "pending"
    /\ drain' = [pc |-> "collect", jobs |-> {}, lookups |-> {}]
    /\ UNCHANGED <<diskVars, jobVars, tableVars, lookupVars, poolVars, pool,
                   reported, boundVars>>

(* The results of get_finished_jobs are dropped. *)
DrainCollect ==
    /\ drain.pc = "collect"
    /\ Collect(Finished)
    /\ drain' = [drain EXCEPT !.pc = "clear"]
    /\ UNCHANGED <<diskVars, jobVars, lookupVars, poolVars, pool, reported, boundVars>>

DrainClearSkipped ==
    /\ drain.pc = "clear"
    /\ drain' = [drain EXCEPT !.pc = "snapshot"]
    /\ UNCHANGED <<diskVars, jobVars, tableVars, lookupVars, poolVars, pool,
                   reported, boundVars>>

DrainClear ==
    /\ drain.pc = "clear"
    /\ lookupFuture' = [rk \in Reqs \X Keys |-> NoLookup]
    /\ drain' = [drain EXCEPT !.pc = "snapshot"]
    /\ UNCHANGED <<diskVars, jobVars, tableVars, isFile, known, poolVars, pool,
                   reported, boundVars>>

(***************************************************************************)
(* shutdown: no new work is accepted, the queue is worked off.             *)
(***************************************************************************)
Shutdown ==
    /\ CallerFree
    /\ pool = "open"
    /\ pool' = "closing"
    /\ UNCHANGED <<diskVars, jobVars, tableVars, lookupVars, poolVars, drain,
                   reported, boundVars>>

ShutdownReturnsAtOnce ==
    /\ pool = "closing"
    /\ pool' = "closed"
    /\ UNCHANGED <<diskVars, jobVars, tableVars, lookupVars, poolVars, drain,
                   reported, boundVars>>

ShutdownWaitsForCollection ==
    /\ pool = "closing"
    /\ futures = {}
    /\ pool' = "closed"
    /\ UNCHANGED <<diskVars, jobVars, tableVars, lookupVars, poolVars, drain,
                   reported, boundVars>>

ShutdownReturns ==
    /\ pool = "closing"
    /\ queue = <<>>
    /\ \A w \in Workers : running[w] = Idle
    /\ pool' = "closed"
    /\ UNCHANGED <<diskVars, jobVars, tableVars, lookupVars, poolVars, drain,
                   reported, boundVars>>

(***************************************************************************)
(* The environment: damaged media, and a server that dies (with or without *)
(* the machine's power) and comes back with empty tables.                  *)
(***************************************************************************)
BitRot(k) ==
    /\ disk[k] = "whole" /\ k \notin corrupt
    /\ rots < MaxRots
    /\ rots' = rots + 1
    /\ corrupt' = corrupt \cup {k}
    /\ UNCHANGED <<disk, durable, boots, jobVars, tableVars, lookupVars, poolVars, pool,
                   drain, reported, faults, drains, restarts>>

Restart ==
    /\ restarts < MaxRestarts
    /\ restarts' = restarts + 1
    /\ UNCHANGED <<disk, durable, boots>> \/ Records!PowerLoss
    /\ corrupt' = {k \in corrupt : disk'[k] = "whole"}
    /\ future' = [j \in Jobs |-> IF future[j] = "none" THEN "none" ELSE "lost"]
    /\ futures' = {}
    /\ inflight' = [k \in Keys |-> 0]
    /\ lookupFuture' = [rk \in Reqs \X Keys |-> NoLookup]
    /\ known' = [rk \in Reqs \X Keys |-> "none"]
    /\ queue' = <<>>
    /\ running' = [w \in Workers |-> Idle]
    /\ pool' = "open"
    /\ drain' = NoDrain
    /\ reported' = [j \in Jobs |-> "none"]
    /\ UNCHANGED <<kind, blocks, moved, garbled, isFile, faults, rots, drains>>

(***************************************************************************)
(* The specification.                                                      *)
(***************************************************************************)
PoolStep(w) ==
    TakeJob(w) \/ RunLookup(w) \/ StoreBlock(w) \/ LoadBlock(w) \/ BlockFails(w)

DrainStep == DrainSnapshot \/ DrainWait \/ DrainCollect \/ DrainClear

Next ==
    \/ \E j \in Jobs, ks \in BlockLists : SubmitStore(j, ks) \/ SubmitLoad(j, ks)
    \/ GetFinishedJobs
    \/ \E r \in Reqs :
         \/ \E k \in Keys : LookupSubmit(r, k) \/ LookupAnswer(r, k)
         \/ RequestFinished(r)
    \/ \E w \in Workers :
         \/ TakeJob(w) \/ RunLookup(w) \/ StoreBlock(w) \/ LoadBlock(w)
         \/ BlockFails(w)
    \/ DrainCall \/ DrainSnapshot \/ DrainWait \/ DrainCollect \/ DrainClear
    \/ Shutdown \/ ShutdownReturns
    \/ \E k \in Keys : BitRot(k)
    \/ Restart

Spec == Init /\ [][Next]_vars

(* Pool threads run; drain_jobs and shutdown go on; the scheduler polls    *)
(* get_finished_jobs and repeats a lookup that was answered RETRY.         *)
Fairness ==
    /\ \A w \in Workers : WF_vars(PoolStep(w))
    /\ WF_vars(DrainStep) /\ WF_vars(ShutdownReturns)
    /\ WF_vars(GetFinishedJobs)
    /\ \A r \in Reqs, k \in Keys : WF_vars(LookupAnswer(r, k))

FairSpec == Spec /\ Fairness

(***************************************************************************)
(* Properties.                                                             *)
(***************************************************************************)
Rejected == {j \in Jobs : future[j] = "rejected"}

(* _inflight_keys counts, per key, exactly the jobs whose result has not   *)
(* been collected, through overlapping jobs, failures, drains and late     *)
(* collections; only a submission that the shut-down pool refused leaves   *)
(* a count nothing takes back (_submit counts before it submits).          *)
InflightExact ==
    \A k \in Keys : inflight[k] = Count(futures \cup Rejected, k)

(* HIT stays true: as long as a request holds HIT for a key, and as long   *)
(* as a load it started runs, the record is there (it may be damaged).     *)
HitIsBacked ==
    /\ \A rk \in Reqs \X Keys : known[rk] = "hit" => disk[rk[2]] = "whole"
    /\ \A j \in futures : kind[j] = "load" => \A k \in KeysOf(j) : disk[k] = "whole"

(* A result collected as a success is one for every block of the job: all  *)
(* blocks were moved, a load put no damaged data into its slots, a store   *)
(* left every record in the directory.                                     *)
OkMeansMoved ==
    \A j \in Jobs : reported[j] = "ok" =>
        /\ moved[j] = Len(blocks[j])
        /\ j \notin garbled
        /\ kind[j] = "store" => \A k \in KeysOf(j) : disk[k] = "whole"

HasPendingWork == futures # {} \/ \E l \in LookupEntries : isFile[l] = "pending"

(* has_pending_work() = False is safe to act on: no pool thread holds or   *)
(* will take a job, so no primary slot is read or written any more.        *)
NoHiddenWork ==
    ~HasPendingWork => \A j \in Jobs : /\ ~InQueue(j)
                                       /\ \A w \in Workers : running[w] # j

(* A closed pool has run every job it accepted (cancel_futures=False).     *)
ClosedPoolIsQuiet ==
    pool = "closed" => \A j \in Jobs : future[j] \notin {"queued", "running"}

(* A request is never told HIT or MISS for a key while a job on that key   *)
(* has not been collected: such a lookup answers RETRY.                    *)
NoAnswerDuringTransfer ==
    [][\A r \in Reqs, k \in Keys :
         known'[<<r, k>>] \notin {"none", known[<<r, k>>]}
             => \A j \in futures : k \notin KeysOf(j)]_vars

(* Unless drain_jobs is called (or the server restarts), every accepted    *)
(* job's result reaches the scheduler through get_finished_jobs, also when *)
(* the job failed.                                                         *)
JobsReported == \A j \in Jobs : j \in futures ~> reported[j] # "none" \/ drains > 0

(* A lookup that was answered RETRY is answered in the end, when the       *)
(* scheduler asks again: no counter or table entry stays behind, except    *)
(* the count of a job submitted after shutdown.                            *)
LookupsResolve ==
    \A r \in Reqs, k \in Keys :
        lookupFuture[<<r, k>>] # NoLookup
            ~> lookupFuture[<<r, k>>] = NoLookup \/ Rejected # {}

(* drain_jobs returns when nobody calls meanwhile: the lookups it waited   *)
(* for are cleared, or the second snapshot would find them again.          *)
DrainTerminates == drain.pc # "idle" ~> drain.pc = "idle"

(* shutdown returns: the pool's threads work the queue off.                *)
ShutdownTerminates == pool = "closing" ~> pool = "closed"

(* docs/vllm.md: "job completion is reported through vLLM's normal         *)
(* scheduler polling API."  A job that left _futures was reported.         *)
NoCompletionLost ==
    \A j \in Jobs : future[j] \in Done /\ j \notin futures => reported[j] # "none"
=============================================================================
