------------------------ MODULE SecondaryTier_proofs ------------------------
(***************************************************************************)
(* Proofs about SecondaryTier for any number of keys, requests, jobs and   *)
(* threads, with any interleaving of callers.  The heart is InflightExact: *)
(* it needs to know in which tables a job stands in each state of its      *)
(* future (PoolInv), so that no job is counted twice or dropped.           *)
(***************************************************************************)
EXTENDS SecondaryTier, FiniteSetTheorems, SequenceTheorems, TLAPS

JobInQueue(i) == i \in 1..Len(queue) /\ queue[i] \in Jobs

(* Where a job stands: in the queue once, with one thread, in _futures. *)
PoolInv ==
    /\ \A i : JobInQueue(i) => future[queue[i]] = "queued"
    /\ \A i, m : JobInQueue(i) /\ JobInQueue(m) /\ queue[i] = queue[m] => i = m
    /\ \A w \in Workers : running[w] # Idle => future[running[w]] = "running"
    /\ \A v, w \in Workers : running[v] = running[w] /\ running[v] # Idle => v = w
    /\ \A j \in Jobs : /\ future[j] \in {"queued", "running"} => j \in futures
                       /\ j \in futures => future[j] \in {"queued", "running", "ok", "error"}

(* An is_file future has one entry, and its answer "true" stays true.      *)
LookupInv ==
    /\ \A a, b \in Reqs \X Keys :
         lookupFuture[a] = lookupFuture[b] /\ lookupFuture[a] # NoLookup => a = b
    /\ \A rk \in Reqs \X Keys :
         lookupFuture[rk] # NoLookup /\ isFile[lookupFuture[rk]] = "true"
             => disk[rk[2]] = "whole"

(* What the state of j's future says about its blocks: a store that has    *)
(* not failed left the records of the blocks it moved in the directory.    *)
JobMoved(j) ==
    /\ future[j] \in {"none", "queued"} => moved[j] = 0
    /\ future[j] \in {"queued", "running"} => moved[j] < Len(blocks[j])
    /\ future[j] = "ok" => moved[j] = Len(blocks[j])
    /\ kind[j] = "store" /\ future[j] \in {"running", "ok"}
           => \A n \in 1..moved[j] : disk[blocks[j][n]] = "whole"
    /\ reported[j] # "none" => reported[j] = future[j]

MoveInv == garbled = {} /\ \A j \in Jobs : JobMoved(j)

(* Accepted jobs are in the queue or with a thread; a closed pool is empty. *)
QuietInv ==
    /\ \A j \in Jobs : /\ future[j] = "queued" => InQueue(j)
                       /\ future[j] = "running" => \E w \in Workers : running[w] = j
    /\ pool = "closed" => queue = <<>> /\ \A w \in Workers : running[w] = Idle

(* The actions that leave the pool's tables alone. *)
PoolUntouched == UNCHANGED <<kind, blocks, future, queue, running, futures, inflight>>

(* The inductive invariant. *)
IInv ==
    /\ TypeOK /\ PoolInv /\ InflightExact
    /\ LookupInv /\ HitIsBacked /\ MoveInv /\ QuietInv

(***************************************************************************)
(* Type correctness.                                                       *)
(***************************************************************************)
(* A published record keeps the type of the directory. *)
LEMMA PublishType ==
    ASSUME TypeOK, NEW k, Records!Publish(k)
    PROVE  Records!RecordSetTypeOK'
BY DEF TypeOK, Records!Publish, Records!RecordSetTypeOK

(* The blocks' lists are never empty. *)
LEMMA BlockListType ==
    ASSUME NEW ks \in BlockLists
    PROVE  /\ Len(ks) \in Nat \ {0}
           /\ ks \in [1..Len(ks) -> Keys]
           /\ DOMAIN ks = 1..Len(ks)
           /\ ks \in Seq(Keys)
<1>1. PICK n \in 1..MaxBlocks : ks \in [1..n -> Keys]
  BY DEF BlockLists
<1>2. n \in Nat /\ n # 0
  BY ConstantsAssumption
<1>3. ks \in Seq(Keys) /\ Len(ks) = n
  BY <1>1, <1>2
<1> QED
  BY <1>1, <1>2, <1>3

USE DEF Records!RecordSetTypeOK

(* submit_store and submit_load keep every type. *)
LEMMA SubmitType ==
    ASSUME TypeOK, NEW j \in Jobs, NEW job \in {"store", "load"},
           NEW ks \in BlockLists, Submit(j, job, ks)
    PROVE  TypeOK'
<1>1. /\ kind' \in [Jobs -> {"none", "store", "load"}]
      /\ blocks' \in [Jobs -> BlockLists \cup {<<>>}]
  BY DEF TypeOK, Submit
<1>2. inflight' \in [Keys -> Nat]
  BY DEF TypeOK, Submit, AddKeys
<1>3. /\ future' = [future EXCEPT ![j] = "queued"] \/ future' = [future EXCEPT ![j] = "rejected"]
      /\ futures' = futures \/ futures' = futures \cup {j}
      /\ queue' = queue \/ queue' = Append(queue, j)
  BY DEF Submit
<1>4. queue' \in Seq(Jobs \cup LookupIds)
  <2>1. queue \in Seq(Jobs \cup LookupIds) /\ j \in Jobs \cup LookupIds
    BY DEF TypeOK
  <2>2. Append(queue, j) \in Seq(Jobs \cup LookupIds)
    BY <2>1, AppendProperties
  <2> QED
    BY <1>3, <2>1, <2>2
<1>5. /\ future' \in [Jobs -> FutureStates]
      /\ futures' \subseteq Jobs
  <2>1. futures' \subseteq Jobs
    BY <1>3 DEF TypeOK
  <2>2. CASE future' = [future EXCEPT ![j] = "queued"]
    BY <2>1, <2>2 DEF TypeOK, FutureStates
  <2>3. CASE future' = [future EXCEPT ![j] = "rejected"]
    BY <2>1, <2>3 DEF TypeOK, FutureStates
  <2> QED
    BY <1>3, <2>2, <2>3
<1> QED
  BY <1>1, <1>2, <1>4, <1>5 DEF TypeOK, Submit, diskVars, lookupVars, boundVars

(* Collecting results keeps the types of the two tables. *)
LEMMA CollectType ==
    ASSUME TypeOK, NEW js \in SUBSET futures, Collect(js)
    PROVE  futures' \subseteq Jobs /\ inflight' \in [Keys -> Nat]
<1>1. \A k \in Keys : Count(js, k) \in Nat
  BY ConstantsAssumption, FS_Subset, FS_CardinalityType DEF Count, TypeOK
<1> QED
  BY <1>1 DEF Collect, TypeOK

(* get_finished_jobs and every other scheduler call keeps every type. *)
LEMMA SchedulerType ==
    ASSUME TypeOK,
           \/ GetFinishedJobs
           \/ \E r \in Reqs, k \in Keys : LookupSubmit(r, k) \/ LookupAnswer(r, k)
           \/ \E r \in Reqs : RequestFinished(r)
    PROVE  TypeOK'
<1> USE DEF diskVars, jobVars, tableVars, lookupVars, poolVars, boundVars
<1>1. CASE GetFinishedJobs
  <2>1. futures' \subseteq Jobs /\ inflight' \in [Keys -> Nat]
    BY <1>1, CollectType DEF GetFinishedJobs, Finished
  <2>2. reported' \in [Jobs -> {"none"} \cup Done]
    BY <1>1 DEF GetFinishedJobs, Finished, Success, TypeOK
  <2> QED
    BY <1>1, <2>1, <2>2 DEF GetFinishedJobs, TypeOK
<1>2. ASSUME NEW r \in Reqs, NEW k \in Keys, LookupSubmit(r, k) PROVE TypeOK'
  BY <1>2, AppendProperties DEF LookupSubmit, TypeOK
<1>3. ASSUME NEW r \in Reqs, NEW k \in Keys, LookupAnswer(r, k) PROVE TypeOK'
  <2>1. Answer(lookupFuture[<<r, k>>]) \in {"none", "hit", "miss"}
    BY DEF Answer
  <2> QED
    BY <1>3, <2>1 DEF LookupAnswer, TypeOK
<1>4. ASSUME NEW r \in Reqs, RequestFinished(r) PROVE TypeOK'
  BY <1>4 DEF RequestFinished, TypeOK
<1> QED
  BY <1>1, <1>2, <1>3, <1>4

(* Taking the head of the queue leaves a queue of the same kind. *)
LEMMA TailType ==
    ASSUME TypeOK, queue # <<>>
    PROVE  /\ Tail(queue) \in Seq(Jobs \cup LookupIds)
           /\ Len(Tail(queue)) = Len(queue) - 1
           /\ \A i \in 1..Len(Tail(queue)) : Tail(queue)[i] = queue[i + 1]
           /\ Head(queue) = queue[1] /\ Head(queue) \in Jobs \cup LookupIds
           /\ Len(queue) \in Nat \ {0}
BY HeadTailProperties DEF TypeOK

(* The end of a block's transfer keeps the types of the job's variables. *)
LEMMA BlockType ==
    ASSUME TypeOK, NEW w \in Workers, NEW j \in Jobs,
           BlockMoved(w, j) \/ JobRaises(w, j)
    PROVE  /\ future' \in [Jobs -> FutureStates]
           /\ running' \in [Workers -> Jobs \cup {Idle}]
           /\ moved' \in [Jobs -> Nat]
<1>1. CASE BlockMoved(w, j)
  <2>1. moved' \in [Jobs -> Nat]
    BY <1>1 DEF BlockMoved, TypeOK
  <2>2. \/ UNCHANGED <<future, running>>
        \/ /\ future' = [future EXCEPT ![j] = "ok"]
           /\ running' = [running EXCEPT ![w] = Idle]
    BY <1>1 DEF BlockMoved
  <2>3. future' \in [Jobs -> FutureStates]
    BY <2>2 DEF TypeOK, FutureStates, Done
  <2>4. running' \in [Workers -> Jobs \cup {Idle}]
    BY <2>2 DEF TypeOK
  <2> QED
    BY <2>1, <2>3, <2>4
<1>2. CASE JobRaises(w, j)
  BY <1>2 DEF JobRaises, TypeOK, FutureStates, Done
<1> QED
  BY <1>1, <1>2

(* A step of a pool thread keeps every type. *)
LEMMA PoolStepType ==
    ASSUME TypeOK, NEW w \in Workers, PoolStep(w)
    PROVE  TypeOK'
<1> USE DEF diskVars, jobVars, tableVars, lookupVars, poolVars, boundVars
<1>1. CASE TakeJob(w)
  <2>1. queue' \in Seq(Jobs \cup LookupIds)
    BY <1>1, TailType DEF TakeJob
  <2>2. /\ future' \in [Jobs -> FutureStates]
        /\ running' \in [Workers -> Jobs \cup {Idle}]
    BY <1>1 DEF TakeJob, TypeOK, FutureStates
  <2> QED
    BY <1>1, <2>1, <2>2 DEF TakeJob, TypeOK
<1>2. CASE RunLookup(w)
  <2>1. queue' \in Seq(Jobs \cup LookupIds)
    BY <1>2, TailType DEF RunLookup
  <2>2. isFile' \in [LookupIds -> {"unused", "pending", "true", "false", "error"}]
    <3>1. Head(queue) \in LookupIds /\ isFile \in [LookupIds -> {"unused", "pending", "true", "false", "error"}]
      BY <1>2 DEF RunLookup, TypeOK
    <3>2. \E answer \in {"true", "false", "error"} :
             isFile' = [isFile EXCEPT ![Head(queue)] = answer]
      BY <1>2 DEF RunLookup
    <3> QED
      BY <3>1, <3>2
  <2>3. faults' \in 0..MaxFaults
    BY <1>2, ConstantsAssumption DEF RunLookup, TypeOK
  <2>4. UNCHANGED <<disk, durable, boots, corrupt, kind, blocks, future, moved, garbled,
                    futures, inflight, lookupFuture, known, running, pool, drain,
                    reported, rots, drains, restarts>>
    BY <1>2 DEF RunLookup
  <2>5. Records!RecordSetTypeOK'
    BY <2>4 DEF TypeOK, Records!RecordSetTypeOK
  <2> QED
    BY <2>1, <2>2, <2>3, <2>4, <2>5 DEF TypeOK
<1>3. CASE StoreBlock(w)
  <2>1. PICK j \in Jobs : /\ Records!Publish(NextKey(j)) /\ BlockMoved(w, j)
                          /\ UNCHANGED <<corrupt, kind, blocks, garbled, tableVars,
                               lookupVars, queue, pool, drain, reported, boundVars>>
    BY <1>3 DEF StoreBlock
  <2> QED
    BY <2>1, BlockType, PublishType DEF TypeOK
<1>4. CASE LoadBlock(w)
  <2>1. PICK j \in Jobs : /\ BlockMoved(w, j) \/ JobRaises(w, j)
                          /\ UNCHANGED <<diskVars, kind, blocks, garbled, tableVars,
                               lookupVars, queue, pool, drain, reported, boundVars>>
    BY <1>4 DEF LoadBlock
  <2> QED
    BY <2>1, BlockType DEF TypeOK
<1>5. CASE BlockFails(w)
  <2>1. PICK j \in Jobs : /\ \/ UNCHANGED <<disk, durable, boots>>
                             \/ Records!Publish(NextKey(j))
                          /\ JobRaises(w, j)
                          /\ UNCHANGED <<corrupt, kind, blocks, garbled, tableVars,
                               lookupVars, queue, pool, drain, reported,
                               rots, drains, restarts>>
    BY <1>5 DEF BlockFails
  <2>2. faults' \in 0..MaxFaults
    BY <1>5, ConstantsAssumption DEF BlockFails, TypeOK
  <2>3. Records!RecordSetTypeOK'
    BY <2>1, PublishType DEF TypeOK, Records!RecordSetTypeOK
  <2> QED
    BY <2>1, <2>2, <2>3, BlockType DEF TypeOK
<1> QED
  BY <1>1, <1>2, <1>3, <1>4, <1>5 DEF PoolStep

(* drain_jobs and shutdown keep every type. *)
LEMMA DrainType ==
    ASSUME TypeOK, DrainCall \/ DrainStep \/ Shutdown \/ ShutdownReturns
    PROVE  TypeOK'
<1> USE DEF diskVars, jobVars, tableVars, lookupVars, poolVars, boundVars
<1>1. CASE DrainCall
  <2>1. drains' \in 0..MaxDrains
    BY <1>1, ConstantsAssumption DEF DrainCall, TypeOK
  <2> QED
    BY <1>1, <2>1 DEF DrainCall, TypeOK
<1>2. CASE DrainSnapshot
  <2>1. LookupEntries \in SUBSET LookupIds
    BY DEF LookupEntries, TypeOK
  <2> QED
    BY <1>2, <2>1 DEF DrainSnapshot, NoDrain, TypeOK
<1>3. CASE DrainWait
  BY <1>3 DEF DrainWait, TypeOK
<1>4. CASE DrainCollect
  <2>1. futures' \subseteq Jobs /\ inflight' \in [Keys -> Nat]
    BY <1>4, CollectType DEF DrainCollect, Finished
  <2> QED
    BY <1>4, <2>1 DEF DrainCollect, TypeOK
<1>5. CASE DrainClear
  BY <1>5 DEF DrainClear, TypeOK
<1>6. CASE Shutdown \/ ShutdownReturns
  BY <1>6 DEF Shutdown, ShutdownReturns, TypeOK
<1> QED
  BY <1>1, <1>2, <1>3, <1>4, <1>5, <1>6 DEF DrainStep

(* Damage on the medium and a restart keep every type. *)
LEMMA EnvironmentType ==
    ASSUME TypeOK, (\E k \in Keys : BitRot(k)) \/ Restart
    PROVE  TypeOK'
<1> USE DEF diskVars, jobVars, tableVars, lookupVars, poolVars, boundVars
<1>1. ASSUME NEW k \in Keys, BitRot(k) PROVE TypeOK'
  <2>1. rots' \in 0..MaxRots
    BY <1>1, ConstantsAssumption DEF BitRot, TypeOK
  <2>2. UNCHANGED <<disk, durable, boots, kind, blocks, future, moved, garbled, futures,
                    inflight, lookupFuture, isFile, known, queue, running, pool,
                    drain, reported, faults, drains, restarts>>
    BY <1>1 DEF BitRot
  <2>3. corrupt' \subseteq Keys
    BY <1>1 DEF BitRot, TypeOK
  <2>4. Records!RecordSetTypeOK'
    BY <2>2 DEF TypeOK, Records!RecordSetTypeOK
  <2> QED
    BY <2>1, <2>2, <2>3, <2>4 DEF TypeOK
<1>2. CASE Restart
  <2>1. Records!RecordSetTypeOK'
    BY <1>2 DEF Restart, Records!PowerLoss, TypeOK, Records!RecordSetTypeOK
  <2>2. restarts' \in 0..MaxRestarts
    BY <1>2, ConstantsAssumption DEF Restart, TypeOK
  <2>3. queue' \in Seq(Jobs \cup LookupIds)
    BY <1>2 DEF Restart
  <2>4. corrupt' \subseteq Keys
    BY <1>2 DEF Restart, TypeOK
  <2> QED
    BY <1>2, <2>1, <2>2, <2>3, <2>4 DEF Restart, TypeOK, NoDrain, FutureStates
<1> QED
  BY <1>1, <1>2

(* Every step keeps every type. *)
LEMMA TypeStep ==
    ASSUME TypeOK, [Next]_vars
    PROVE  TypeOK'
<1>1. ASSUME NEW j \in Jobs, NEW ks \in BlockLists, SubmitStore(j, ks) \/ SubmitLoad(j, ks)
      PROVE  TypeOK'
  BY <1>1, SubmitType DEF SubmitStore, SubmitLoad
<1>2. CASE UNCHANGED vars
  BY <1>2 DEF vars, TypeOK
<1> QED
  BY <1>1, <1>2, SchedulerType, PoolStepType, DrainType, EnvironmentType
     DEF Next, PoolStep, DrainStep

HIDE DEF Records!RecordSetTypeOK

(***************************************************************************)
(* Where jobs stand.                                                       *)
(***************************************************************************)
(* Submitting puts a new job, in one step, into the queue and _futures.    *)
LEMMA SubmitPool ==
    ASSUME TypeOK, PoolInv, NEW j \in Jobs, NEW job \in {"store", "load"},
           NEW ks \in BlockLists, Submit(j, job, ks)
    PROVE  PoolInv'
<1>1. future[j] = "none" /\ j \notin futures
  BY DEF Submit, PoolInv
<1>2. /\ running' = running
      /\ \A w \in Workers : running[w] # j
      /\ \A i : JobInQueue(i) => queue[i] # j
  <2>1. running' = running
    BY DEF Submit
  <2>2. \A w \in Workers : running[w] # j
    BY <1>1, ConstantsAssumption DEF PoolInv, TypeOK
  <2> QED
    BY <1>1, <2>1, <2>2 DEF PoolInv
<1>3. CASE pool = "open"
  <2>1. /\ future' = [future EXCEPT ![j] = "queued"]
        /\ queue' = Append(queue, j)
        /\ futures' = futures \cup {j}
    BY <1>3 DEF Submit
  <2>2. /\ Len(queue') = Len(queue) + 1 /\ Len(queue) \in Nat
        /\ \A i \in 1..Len(queue) : queue'[i] = queue[i]
        /\ queue'[Len(queue) + 1] = j
    BY <2>1, AppendProperties DEF TypeOK
  <2>3. \A i : JobInQueue(i)' <=> JobInQueue(i) \/ i = Len(queue) + 1
    BY <2>2 DEF JobInQueue
  <2>4. \A i : JobInQueue(i) => i \in 1..Len(queue) /\ queue'[i] = queue[i] /\ queue[i] # j
    BY <2>2, <1>2 DEF JobInQueue
  <2>5. \A i : JobInQueue(i)' => future'[queue'[i]] = "queued"
    <3> SUFFICES ASSUME NEW i, JobInQueue(i)' PROVE future'[queue'[i]] = "queued"
      OBVIOUS
    <3>1. future \in [Jobs -> FutureStates]
      BY DEF TypeOK
    <3>2. CASE i = Len(queue) + 1
      BY <3>1, <3>2, <2>1, <2>2
    <3>3. CASE JobInQueue(i)
      <4>1. queue'[i] \in Jobs /\ queue'[i] # j /\ future[queue'[i]] = "queued"
        BY <3>3, <2>4 DEF PoolInv, JobInQueue
      <4> QED
        BY <2>1, <3>1, <4>1
    <3> QED
      BY <3>2, <3>3, <2>3
  <2>6. \A i, m : JobInQueue(i)' /\ JobInQueue(m)' /\ queue'[i] = queue'[m] => i = m
    BY <2>2, <2>3, <2>4 DEF PoolInv
  <2>7. \A w \in Workers : running'[w] # Idle => future'[running'[w]] = "running"
    BY <2>1, <1>2 DEF PoolInv, TypeOK
  <2>8. \A i \in Jobs : /\ future'[i] \in {"queued", "running"} => i \in futures'
                        /\ i \in futures' => future'[i] \in {"queued", "running", "ok", "error"}
    BY <2>1 DEF PoolInv, TypeOK
  <2> QED
    BY <1>2, <2>5, <2>6, <2>7, <2>8 DEF PoolInv
<1>4. CASE pool # "open"
  <2>1. future' = [future EXCEPT ![j] = "rejected"] /\ queue' = queue /\ futures' = futures
    BY <1>4 DEF Submit
  <2>2. \A i : JobInQueue(i)' <=> JobInQueue(i)
    BY <2>1 DEF JobInQueue
  <2>3. \A i : JobInQueue(i) => future'[queue[i]] = "queued"
    <3> SUFFICES ASSUME NEW i, JobInQueue(i) PROVE future'[queue[i]] = "queued"
      OBVIOUS
    <3>1. queue[i] \in Jobs /\ queue[i] # j /\ future[queue[i]] = "queued"
      BY <1>2 DEF PoolInv, JobInQueue
    <3>2. future \in [Jobs -> FutureStates]
      BY DEF TypeOK
    <3> QED
      BY <2>1, <3>1, <3>2
  <2>4. \A w \in Workers : running[w] # Idle => future'[running[w]] = "running"
    BY <2>1, <1>2 DEF PoolInv, TypeOK
  <2>5. \A i \in Jobs : /\ future'[i] \in {"queued", "running"} => i \in futures
                        /\ i \in futures => future'[i] \in {"queued", "running", "ok", "error"}
    BY <2>1, <1>1 DEF PoolInv, TypeOK
  <2> QED
    BY <1>2, <2>1, <2>2, <2>3, <2>4, <2>5 DEF PoolInv
<1> QED
  BY <1>3, <1>4

(* A thread takes the job at the head: it leaves the queue for running.    *)
LEMMA TakeJobPool ==
    ASSUME TypeOK, PoolInv, NEW w \in Workers, TakeJob(w)
    PROVE  PoolInv'
<1> DEFINE j == Head(queue)
<1>1. /\ running[w] = Idle /\ j \in Jobs /\ queue' = Tail(queue) /\ futures' = futures
      /\ running' = [running EXCEPT ![w] = j]
      /\ future' = [future EXCEPT ![j] = "running"]
  BY DEF TakeJob, tableVars
<1>2. queue # <<>>
  BY DEF TakeJob
<1>3. /\ JobInQueue(1) /\ queue[1] = j
      /\ \A i : JobInQueue(i)' => JobInQueue(i + 1) /\ queue'[i] = queue[i + 1] /\ i # 0 /\ i \in Nat
  BY <1>1, <1>2, TailType DEF JobInQueue
<1>4. future[j] = "queued" /\ j # Idle
  BY <1>1, <1>3, ConstantsAssumption DEF PoolInv
<1>5. \A i : JobInQueue(i)' => queue'[i] # j
  BY <1>3 DEF PoolInv
<1>6. \A v \in Workers : running[v] # j
  BY <1>4 DEF PoolInv
<1> HIDE DEF j
<1>7. \A i : JobInQueue(i)' => future'[queue'[i]] = "queued"
  <2> SUFFICES ASSUME NEW i, JobInQueue(i)' PROVE future'[queue'[i]] = "queued"
    OBVIOUS
  <2>1. future[queue[i + 1]] = "queued" /\ queue[i + 1] \in Jobs
    BY <1>3 DEF PoolInv, JobInQueue
  <2> QED
    BY <2>1, <1>1, <1>3, <1>5 DEF TypeOK
<1>8. \A i, m : JobInQueue(i)' /\ JobInQueue(m)' /\ queue'[i] = queue'[m] => i = m
  <2> SUFFICES ASSUME NEW i, NEW m, JobInQueue(i)', JobInQueue(m)', queue'[i] = queue'[m]
               PROVE  i = m
    OBVIOUS
  <2>1. i + 1 = m + 1
    BY <1>3 DEF PoolInv
  <2> QED
    BY <2>1, <1>3
<1>9. \A v \in Workers : running'[v] # Idle => future'[running'[v]] = "running"
  BY <1>1, <1>6 DEF PoolInv, TypeOK
<1>10. \A u, v \in Workers : running'[u] = running'[v] /\ running'[u] # Idle => u = v
  BY <1>1, <1>6 DEF PoolInv, TypeOK
<1>11. \A i \in Jobs : /\ future'[i] \in {"queued", "running"} => i \in futures'
                       /\ i \in futures' => future'[i] \in {"queued", "running", "ok", "error"}
  BY <1>1, <1>4 DEF PoolInv, TypeOK
<1> QED
  BY <1>7, <1>8, <1>9, <1>10, <1>11 DEF PoolInv

(* Queueing or running an is_file task does not move any job. *)
LEMMA LookupPool ==
    ASSUME TypeOK, PoolInv,
           \/ \E r \in Reqs, k \in Keys : LookupSubmit(r, k)
           \/ \E w \in Workers : RunLookup(w)
    PROVE  PoolInv'
<1>1. UNCHANGED <<future, running, futures>>
  BY DEF LookupSubmit, RunLookup, jobVars, tableVars
<1>2. ASSUME NEW r \in Reqs, NEW k \in Keys, LookupSubmit(r, k) PROVE PoolInv'
  <2>1. PICK l \in LookupIds : queue' = Append(queue, l)
    BY <1>2 DEF LookupSubmit
  <2>2. /\ Len(queue') = Len(queue) + 1 /\ Len(queue) \in Nat
        /\ \A i \in 1..Len(queue) : queue'[i] = queue[i]
        /\ queue'[Len(queue) + 1] = l /\ l \notin Jobs
    BY <2>1, AppendProperties, ConstantsAssumption DEF TypeOK
  <2>3. \A i : JobInQueue(i)' => JobInQueue(i) /\ queue'[i] = queue[i]
    BY <2>2 DEF JobInQueue
  <2> QED
    BY <1>1, <2>3 DEF PoolInv
<1>3. ASSUME NEW w \in Workers, RunLookup(w) PROVE PoolInv'
  <2>1. queue # <<>> /\ queue' = Tail(queue)
    BY <1>3 DEF RunLookup
  <2>2. \A i : JobInQueue(i)' => /\ JobInQueue(i + 1) /\ queue'[i] = queue[i + 1]
                                 /\ i \in Nat
    BY <2>1, TailType DEF JobInQueue
  <2>3. \A i, m : JobInQueue(i)' /\ JobInQueue(m)' /\ queue'[i] = queue'[m] => i = m
    <3> SUFFICES ASSUME NEW i, NEW m, JobInQueue(i)', JobInQueue(m)', queue'[i] = queue'[m]
                 PROVE  i = m
      OBVIOUS
    <3>1. i + 1 = m + 1
      BY <2>2 DEF PoolInv
    <3> QED
      BY <3>1, <2>2
  <2>4. \A i : JobInQueue(i)' => future[queue'[i]] = "queued"
    BY <2>2 DEF PoolInv
  <2> QED
    BY <1>1, <2>3, <2>4 DEF PoolInv
<1> QED
  BY <1>2, <1>3

(* The end of a running job frees its thread; its future is done and stays *)
(* in _futures.                                                            *)
LEMMA BlockPool ==
    ASSUME TypeOK, PoolInv, NEW w \in Workers, NEW j \in Jobs, running[w] = j,
           BlockMoved(w, j) \/ JobRaises(w, j), UNCHANGED <<queue, futures>>
    PROVE  PoolInv'
<1>1. \A i : JobInQueue(i)' <=> JobInQueue(i)
  BY DEF JobInQueue
<1>2. j # Idle /\ future[j] = "running"
  BY ConstantsAssumption DEF PoolInv
<1>3. CASE UNCHANGED <<future, running>>
  BY <1>1, <1>3 DEF PoolInv
<1>4. CASE /\ future' = [future EXCEPT ![j] = "ok"] \/ future' = [future EXCEPT ![j] = "error"]
           /\ running' = [running EXCEPT ![w] = Idle]
  <2>0. future \in [Jobs -> FutureStates] /\ running \in [Workers -> Jobs \cup {Idle}]
    BY DEF TypeOK
  <2>1. \A i \in Jobs \ {j} : future'[i] = future[i]
    BY <1>4, <2>0
  <2>2. future'[j] \in {"ok", "error"}
    BY <1>4, <2>0
  <2>3. \A i : JobInQueue(i) => future'[queue[i]] = "queued"
    BY <1>2, <2>1 DEF PoolInv, JobInQueue
  <2>4. \A v \in Workers : running'[v] # Idle => running'[v] = running[v] /\ running[v] # j
    BY <1>2, <1>4, <2>0 DEF PoolInv
  <2>5. \A v \in Workers : running'[v] # Idle => future'[running'[v]] = "running"
    BY <2>0, <2>1, <2>4 DEF PoolInv
  <2>6. \A u, v \in Workers : running'[u] = running'[v] /\ running'[u] # Idle => u = v
    BY <2>4 DEF PoolInv
  <2>7. \A i \in Jobs : /\ future'[i] \in {"queued", "running"} => i \in futures
                        /\ i \in futures => future'[i] \in {"queued", "running", "ok", "error"}
    BY <2>1, <2>2 DEF PoolInv
  <2> QED
    BY <1>1, <2>3, <2>5, <2>6, <2>7 DEF PoolInv
<1> QED
  BY <1>3, <1>4 DEF BlockMoved, JobRaises

(* Collecting takes done jobs out of _futures and leaves the others.       *)
LEMMA CollectPool ==
    ASSUME TypeOK, PoolInv, Collect(Finished), UNCHANGED <<future, queue, running>>
    PROVE  PoolInv'
<1>1. \A i : JobInQueue(i)' <=> JobInQueue(i)
  BY DEF JobInQueue
<1>2. futures' = {j \in futures : future[j] \notin {"ok", "error"}}
  BY DEF Collect, Finished, Done
<1> QED
  BY <1>1, <1>2 DEF PoolInv

(* A restart empties every table. *)
LEMMA RestartPool ==
    ASSUME TypeOK, Restart
    PROVE  PoolInv'
<1>1. /\ queue' = <<>> /\ futures' = {}
      /\ \A w \in Workers : running'[w] = Idle
      /\ \A j \in Jobs : future'[j] \in {"none", "lost"}
  BY DEF Restart
<1>2. \A i : ~JobInQueue(i)'
  BY <1>1 DEF JobInQueue
<1> QED
  BY <1>1, <1>2 DEF PoolInv

(* The other actions leave the pool's tables alone. *)
OtherAction ==
    \/ \E r \in Reqs : (\E k \in Keys : LookupAnswer(r, k)) \/ RequestFinished(r)
    \/ DrainCall \/ DrainSnapshot \/ DrainWait \/ DrainClear
    \/ Shutdown \/ ShutdownReturns
    \/ \E k \in Keys : BitRot(k)
    \/ UNCHANGED vars

(* None of the other actions touches a table of the pool. *)
LEMMA OtherUntouched == OtherAction => PoolUntouched
BY DEF OtherAction, PoolUntouched, LookupAnswer, RequestFinished, DrainCall, DrainSnapshot,
       DrainWait, DrainClear, Shutdown, ShutdownReturns, BitRot, vars,
       diskVars, jobVars, tableVars, lookupVars, poolVars, boundVars

(* A thread's step on a block ends or continues the job it runs and leaves *)
(* every other table alone.                                                *)
LEMMA BlockStep ==
    ASSUME NEW w \in Workers, StoreBlock(w) \/ LoadBlock(w) \/ BlockFails(w)
    PROVE  \E j \in Jobs : /\ running[w] = j
                           /\ BlockMoved(w, j) \/ JobRaises(w, j)
                           /\ UNCHANGED <<kind, blocks, queue, futures, inflight>>
BY DEF StoreBlock, LoadBlock, BlockFails, tableVars

(* Every step keeps PoolInv. *)
LEMMA PoolStepInv ==
    ASSUME TypeOK, PoolInv, [Next]_vars
    PROVE  PoolInv'
<1>1. ASSUME NEW j \in Jobs, NEW ks \in BlockLists, SubmitStore(j, ks) \/ SubmitLoad(j, ks)
      PROVE  PoolInv'
  BY <1>1, SubmitPool DEF SubmitStore, SubmitLoad
<1>2. CASE GetFinishedJobs \/ DrainCollect
  BY <1>2, CollectPool DEF GetFinishedJobs, DrainCollect, jobVars, poolVars
<1>3. ASSUME NEW w \in Workers, StoreBlock(w) \/ LoadBlock(w) \/ BlockFails(w)
      PROVE  PoolInv'
  BY <1>3, BlockStep, BlockPool
<1>4. CASE OtherAction
  <2>1. PoolUntouched
    BY <1>4, OtherUntouched
  <2> QED
    BY <2>1 DEF PoolUntouched, PoolInv, JobInQueue
<1> QED
  BY <1>1, <1>2, <1>3, <1>4, LookupPool, TakeJobPool, RestartPool DEF Next, OtherAction

(***************************************************************************)
(* The counter of keys in flight.                                          *)
(***************************************************************************)
Counted == futures \cup Rejected

Holding(js, k) == {j \in js : k \in KeysOf(j)}

(* The sets that are counted are finite. *)
LEMMA CountFinite ==
    ASSUME NEW js \in SUBSET Jobs, NEW k
    PROVE  IsFiniteSet(Holding(js, k)) /\ Cardinality(Holding(js, k)) \in Nat
BY ConstantsAssumption, FS_Subset, FS_CardinalityType DEF Holding

(* When the counted jobs, their blocks and the counter stay, so does the   *)
(* equation between them.                                                  *)
LEMMA CountFrame ==
    ASSUME InflightExact, futures' = futures, Rejected' = Rejected, UNCHANGED <<blocks, inflight>>
    PROVE  InflightExact'
BY DEF InflightExact, Count, KeysOf

(* A new job raises the count of exactly its keys, accepted or refused.    *)
LEMMA SubmitCount ==
    ASSUME TypeOK, PoolInv, InflightExact, NEW j \in Jobs, NEW job \in {"store", "load"},
           NEW ks \in BlockLists, Submit(j, job, ks)
    PROVE  InflightExact'
<1>0. /\ future \in [Jobs -> FutureStates] /\ blocks \in [Jobs -> BlockLists \cup {<<>>}]
      /\ futures \subseteq Jobs
  BY DEF TypeOK
<1>1. future[j] = "none" /\ j \notin futures /\ j \notin Rejected
  BY DEF Submit, PoolInv, Rejected
<1>2. Counted' = Counted \cup {j}
  <2>1. \A i \in Jobs \ {j} : future'[i] = future[i]
    BY <1>0 DEF Submit
  <2>2. CASE pool = "open"
    <3>1. futures' = futures \cup {j} /\ future'[j] = "queued"
      BY <2>2, <1>0 DEF Submit
    <3> QED
      BY <3>1, <2>1, <1>1 DEF Counted, Rejected
  <2>3. CASE pool # "open"
    <3>1. futures' = futures /\ future'[j] = "rejected"
      BY <2>3, <1>0 DEF Submit
    <3> QED
      BY <3>1, <2>1, <1>1 DEF Counted, Rejected
  <2> QED
    BY <2>2, <2>3
<1>3. /\ KeysOf(j)' = {ks[i] : i \in DOMAIN ks}
      /\ \A i \in Jobs \ {j} : KeysOf(i)' = KeysOf(i)
  <2>1. blocks' = [blocks EXCEPT ![j] = ks]
    BY DEF Submit
  <2> QED
    BY <2>1, <1>0, BlockListType DEF KeysOf
<1> SUFFICES ASSUME NEW k \in Keys PROVE inflight'[k] = Cardinality(Holding(Counted, k)')
  BY DEF InflightExact, Count, Counted, Holding
<1>4. inflight[k] = Cardinality(Holding(Counted, k))
  BY DEF InflightExact, Count, Counted, Holding
<1>5. Counted \in SUBSET Jobs /\ j \notin Counted
  BY <1>0, <1>1 DEF Counted, Rejected
<1>6. j \notin Holding(Counted, k)
  BY <1>5 DEF Holding
<1>7. CASE \E i \in DOMAIN ks : ks[i] = k
  <2>1. Holding(Counted, k)' = Holding(Counted, k) \cup {j}
    BY <1>2, <1>3, <1>5, <1>7 DEF Holding
  <2>2. Cardinality(Holding(Counted, k) \cup {j}) = Cardinality(Holding(Counted, k)) + 1
    BY <1>5, <1>6, CountFinite, FS_AddElement
  <2>3. inflight'[k] = inflight[k] + 1
    BY <1>7 DEF Submit, AddKeys
  <2> QED
    BY <2>1, <2>2, <2>3, <1>4
<1>8. CASE ~(\E i \in DOMAIN ks : ks[i] = k)
  <2>1. Holding(Counted, k)' = Holding(Counted, k)
    BY <1>2, <1>3, <1>5, <1>8 DEF Holding
  <2>2. inflight'[k] = inflight[k]
    BY <1>8 DEF Submit, AddKeys
  <2> QED
    BY <2>1, <2>2, <1>4
<1> QED
  BY <1>7, <1>8

(* Collecting takes exactly the collected jobs out of the counts: what is  *)
(* subtracted never exceeds what is there, so `+= Counter()` drops only    *)
(* zeros.                                                                  *)
LEMMA CollectCount ==
    ASSUME TypeOK, PoolInv, InflightExact, Collect(Finished), UNCHANGED <<future, blocks>>
    PROVE  InflightExact'
<1>1. Finished \subseteq Counted /\ Counted \in SUBSET Jobs /\ Finished \in SUBSET Jobs
  BY DEF Finished, Counted, Rejected, TypeOK
<1>2. Counted' = Counted \ Finished
  BY DEF Collect, Counted, Rejected, Finished, Done
<1> SUFFICES ASSUME NEW k \in Keys PROVE inflight'[k] = Cardinality(Holding(Counted, k)')
  BY DEF InflightExact, Count, Counted, Holding
<1> DEFINE Old == Holding(Counted, k)
           Gone == Holding(Finished, k)
<1>3. inflight[k] = Cardinality(Old)
  BY DEF InflightExact, Count, Counted, Holding
<1>4. Holding(Counted, k)' = Old \ Gone /\ Old \cap Gone = Gone /\ Gone \in SUBSET Old
  BY <1>1, <1>2 DEF Holding, KeysOf
<1>5. IsFiniteSet(Old) /\ Cardinality(Old) \in Nat /\ Cardinality(Gone) \in Nat
  BY <1>1, CountFinite
<1>6. inflight'[k] = IF inflight[k] > Cardinality(Gone)
                     THEN inflight[k] - Cardinality(Gone) ELSE 0
  BY DEF Collect, Count, Holding
<1> HIDE DEF Old, Gone
<1>7. Cardinality(Old \ Gone) = Cardinality(Old) - Cardinality(Gone)
  BY <1>4, <1>5, FS_Difference
<1>8. Cardinality(Gone) <= Cardinality(Old)
  BY <1>4, <1>5, FS_Subset
<1> QED
  BY <1>3, <1>4, <1>5, <1>6, <1>7, <1>8

(* A thread's step changes the future of a job that was not refused.       *)
LEMMA PoolStepCount ==
    ASSUME TypeOK, PoolInv, InflightExact, NEW w \in Workers, PoolStep(w)
    PROVE  InflightExact'
<1>0. future \in [Jobs -> FutureStates]
  BY DEF TypeOK
<1>1. CASE TakeJob(w)
  <2>1. /\ futures' = futures /\ UNCHANGED <<blocks, inflight>>
        /\ future' = [future EXCEPT ![Head(queue)] = "running"]
        /\ queue # <<>> /\ Head(queue) \in Jobs
    BY <1>1 DEF TakeJob, tableVars
  <2>2. future[Head(queue)] = "queued"
    BY <2>1, TailType DEF PoolInv, JobInQueue
  <2>3. Rejected' = Rejected
    BY <1>0, <2>1, <2>2 DEF Rejected
  <2> QED
    BY <2>1, <2>3, CountFrame
<1>2. CASE RunLookup(w)
  BY <1>2, CountFrame DEF RunLookup, jobVars, tableVars, Rejected
<1>3. CASE StoreBlock(w) \/ LoadBlock(w) \/ BlockFails(w)
  <2>1. PICK j \in Jobs : /\ running[w] = j
                          /\ BlockMoved(w, j) \/ JobRaises(w, j)
                          /\ UNCHANGED <<kind, blocks, queue, futures, inflight>>
    BY <1>3, BlockStep
  <2>2. future[j] = "running"
    BY <2>1, ConstantsAssumption DEF PoolInv
  <2>3. \/ future' = future
        \/ future' = [future EXCEPT ![j] = "ok"]
        \/ future' = [future EXCEPT ![j] = "error"]
    BY <2>1 DEF BlockMoved, JobRaises
  <2>4. Rejected' = Rejected
    BY <1>0, <2>2, <2>3 DEF Rejected
  <2> QED
    BY <2>1, <2>4, CountFrame
<1> QED
  BY <1>1, <1>2, <1>3 DEF PoolStep

(* After a restart nothing is counted. *)
LEMMA RestartCount ==
    ASSUME Restart
    PROVE  InflightExact'
<1>1. Counted' = {}
  BY DEF Restart, Counted, Rejected
<1>2. \A k \in Keys : Holding(Counted, k)' = {} /\ inflight'[k] = 0
  BY <1>1 DEF Restart, Holding
<1> QED
  BY <1>2, FS_EmptySet DEF InflightExact, Count, Counted, Holding

(* Every step keeps the counter exact. *)
LEMMA CountStep ==
    ASSUME TypeOK, PoolInv, InflightExact, [Next]_vars
    PROVE  InflightExact'
<1>1. ASSUME NEW j \in Jobs, NEW ks \in BlockLists, SubmitStore(j, ks) \/ SubmitLoad(j, ks)
      PROVE  InflightExact'
  BY <1>1, SubmitCount DEF SubmitStore, SubmitLoad
<1>2. CASE GetFinishedJobs \/ DrainCollect
  BY <1>2, CollectCount DEF GetFinishedJobs, DrainCollect, jobVars
<1>3. CASE OtherAction
  BY <1>3, OtherUntouched, CountFrame DEF PoolUntouched, Rejected
<1>4. ASSUME NEW r \in Reqs, NEW k \in Keys, LookupSubmit(r, k) PROVE InflightExact'
  BY <1>4, CountFrame DEF LookupSubmit, jobVars, tableVars, Rejected
<1> QED
  BY <1>1, <1>2, <1>3, <1>4, PoolStepCount, RestartCount DEF Next, OtherAction, PoolStep

(***************************************************************************)
(* Records, answers and transfers.                                         *)
(***************************************************************************)
DiskGrows == \A k \in Keys : disk[k] = "whole" => disk'[k] = "whole"

(* The directory's type. *)
LEMMA DiskType == TypeOK => disk \in [Keys -> {"absent", "whole"}]
BY DEF TypeOK, Records!RecordSetTypeOK

(* While the server runs no record disappears. *)
LEMMA DiskOnlyGrows ==
    ASSUME TypeOK, [Next]_vars, ~Restart
    PROVE  DiskGrows
<1>1. disk \in [Keys -> {"absent", "whole"}]
  BY DiskType
<1>2. ASSUME disk' = disk \/ \E k : Records!Publish(k)
      PROVE  DiskGrows
  BY <1>1, <1>2 DEF DiskGrows, Records!Publish
<1>3. disk' = disk \/ \E k : Records!Publish(k)
  <2>1. ASSUME NEW j \in Jobs, NEW ks \in BlockLists, SubmitStore(j, ks) \/ SubmitLoad(j, ks)
        PROVE  disk' = disk
    BY <2>1 DEF SubmitStore, SubmitLoad, Submit, diskVars
  <2>2. ASSUME NEW w \in Workers, PoolStep(w)
        PROVE  disk' = disk \/ \E k : Records!Publish(k)
    BY <2>2 DEF PoolStep, TakeJob, RunLookup, StoreBlock, LoadBlock, BlockFails, diskVars
  <2>3. CASE OtherAction
    BY <2>3 DEF OtherAction, LookupAnswer, RequestFinished, DrainCall, DrainSnapshot,
       DrainWait, DrainClear, Shutdown, ShutdownReturns, BitRot, vars, diskVars
  <2>4. CASE GetFinishedJobs \/ DrainCollect
    BY <2>4 DEF GetFinishedJobs, DrainCollect, diskVars
  <2>5. ASSUME NEW r \in Reqs, NEW k \in Keys, LookupSubmit(r, k)
        PROVE  disk' = disk
    BY <2>5 DEF LookupSubmit, diskVars
  <2> QED
    BY <2>1, <2>2, <2>3, <2>4, <2>5 DEF Next, PoolStep, OtherAction
<1> QED
  BY <1>2, <1>3

(* Forgetting lookups keeps the others' answers true. *)
LEMMA LookupFrame ==
    ASSUME LookupInv, DiskGrows, isFile' = isFile,
           \A rk \in Reqs \X Keys : lookupFuture'[rk] \in {lookupFuture[rk], NoLookup}
    PROVE  LookupInv'
BY DEF LookupInv, DiskGrows

(* lookup takes an is_file future that nobody refers to.                   *)
LEMMA LookupSubmitAnswers ==
    ASSUME TypeOK, LookupInv, NEW r \in Reqs, NEW k \in Keys, LookupSubmit(r, k)
    PROVE  LookupInv'
<1>1. /\ lookupFuture \in [Reqs \X Keys -> LookupIds \cup {NoLookup}]
      /\ isFile \in [LookupIds -> {"unused", "pending", "true", "false", "error"}]
  BY DEF TypeOK
<1>2. PICK l \in LookupIds :
        /\ l \notin LookupEntries
        /\ lookupFuture' = [lookupFuture EXCEPT ![<<r, k>>] = l]
        /\ isFile' = [isFile EXCEPT ![l] = "pending"]
        /\ disk' = disk
  BY DEF LookupSubmit, FreeLookup, diskVars
<1>3. l # NoLookup /\ \A rk \in Reqs \X Keys : lookupFuture[rk] # l
  BY <1>1, <1>2, ConstantsAssumption DEF LookupEntries
<1>4. /\ lookupFuture'[<<r, k>>] = l
      /\ \A rk \in Reqs \X Keys : rk # <<r, k>> => lookupFuture'[rk] = lookupFuture[rk]
      /\ isFile'[l] = "pending"
      /\ \A m \in LookupIds : m # l => isFile'[m] = isFile[m]
  BY <1>1, <1>2
<1>5. \A a, b \in Reqs \X Keys :
         lookupFuture'[a] = lookupFuture'[b] /\ lookupFuture'[a] # NoLookup => a = b
  BY <1>3, <1>4 DEF LookupInv
<1>6. ASSUME NEW rk \in Reqs \X Keys, lookupFuture'[rk] # NoLookup,
             isFile'[lookupFuture'[rk]] = "true"
      PROVE  disk'[rk[2]] = "whole"
  <2>1. rk # <<r, k>>
    BY <1>4, <1>6
  <2>2. lookupFuture'[rk] = lookupFuture[rk] /\ lookupFuture[rk] \in LookupIds \ {l}
    BY <2>1, <1>1, <1>3, <1>4, <1>6
  <2> QED
    BY <2>2, <1>2, <1>4, <1>6 DEF LookupInv
<1> QED
  BY <1>5, <1>6 DEF LookupInv

(* is_file answers for the one entry its future has.                       *)
LEMMA RunLookupAnswers ==
    ASSUME TypeOK, LookupInv, NEW w \in Workers, RunLookup(w)
    PROVE  LookupInv'
<1> DEFINE l == Head(queue)
<1>1. isFile \in [LookupIds -> {"unused", "pending", "true", "false", "error"}]
  BY DEF TypeOK
<1>2. l \in LookupIds /\ disk' = disk /\ lookupFuture' = lookupFuture
  BY DEF RunLookup, diskVars
<1>3. PICK answer :
        /\ isFile' = [isFile EXCEPT ![l] = answer]
        /\ answer = "true" => \E rk \in Reqs \X Keys : lookupFuture[rk] = l
                                                    /\ disk[rk[2]] = "whole"
  BY DEF RunLookup
<1> HIDE DEF l
<1>4. ASSUME NEW rk \in Reqs \X Keys, lookupFuture[rk] # NoLookup,
             isFile'[lookupFuture[rk]] = "true"
      PROVE  disk[rk[2]] = "whole"
  <2>1. CASE lookupFuture[rk] = l
    <3>1. answer = "true"
      BY <1>1, <1>2, <1>3, <1>4, <2>1
    <3>2. PICK q \in Reqs \X Keys : lookupFuture[q] = l /\ disk[q[2]] = "whole"
      BY <1>3, <3>1
    <3>3. q = rk
      BY <2>1, <3>2, <1>4 DEF LookupInv
    <3> QED
      BY <3>2, <3>3
  <2>2. CASE lookupFuture[rk] # l
    <3>1. lookupFuture[rk] \in LookupIds
      BY <1>4 DEF TypeOK
    <3>2. isFile[lookupFuture[rk]] = "true"
      BY <1>1, <1>3, <1>4, <2>2, <3>1
    <3> QED
      BY <3>2, <1>4 DEF LookupInv
  <2> QED
    BY <2>1, <2>2
<1> QED
  BY <1>2, <1>4 DEF LookupInv

(* Every step keeps the answers of is_file true.                           *)
LEMMA LookupStep ==
    ASSUME TypeOK, LookupInv, [Next]_vars
    PROVE  LookupInv'
<1>1. CASE Restart
  <2>1. \A rk \in Reqs \X Keys : lookupFuture'[rk] = NoLookup
    BY <1>1 DEF Restart
  <2> QED
    BY <2>1 DEF LookupInv
<1>2. CASE ~Restart
  <2>0. DiskGrows
    BY <1>2, DiskOnlyGrows
  <2>1. ASSUME NEW j \in Jobs, NEW ks \in BlockLists, SubmitStore(j, ks) \/ SubmitLoad(j, ks)
        PROVE  LookupInv'
    BY <2>0, <2>1, LookupFrame DEF SubmitStore, SubmitLoad, Submit, lookupVars
  <2>2. CASE GetFinishedJobs \/ DrainCollect
    BY <2>0, <2>2, LookupFrame DEF GetFinishedJobs, DrainCollect, lookupVars
  <2>3. CASE OtherAction
    <3>1. isFile' = isFile
      BY <2>3 DEF OtherAction, LookupAnswer, RequestFinished, DrainCall, DrainSnapshot,
         DrainWait, DrainClear, Shutdown, ShutdownReturns, BitRot, vars, lookupVars
    <3>2. \A rk \in Reqs \X Keys : lookupFuture'[rk] \in {lookupFuture[rk], NoLookup}
      <4>1. lookupFuture \in [Reqs \X Keys -> LookupIds \cup {NoLookup}]
        BY DEF TypeOK
      <4>2. ASSUME NEW r \in Reqs, NEW k \in Keys, LookupAnswer(r, k)
            PROVE  \A rk \in Reqs \X Keys : lookupFuture'[rk] \in {lookupFuture[rk], NoLookup}
        BY <4>1, <4>2 DEF LookupAnswer
      <4>3. ASSUME NEW r \in Reqs, RequestFinished(r)
            PROVE  \A rk \in Reqs \X Keys : lookupFuture'[rk] \in {lookupFuture[rk], NoLookup}
        BY <4>3 DEF RequestFinished
      <4>4. CASE DrainClear
        BY <4>4 DEF DrainClear
      <4>5. CASE \/ DrainCall \/ DrainSnapshot \/ DrainWait \/ Shutdown \/ ShutdownReturns
                 \/ (\E k \in Keys : BitRot(k)) \/ UNCHANGED vars
        BY <4>5 DEF DrainCall, DrainSnapshot, DrainWait, Shutdown, ShutdownReturns,
           BitRot, vars, lookupVars
      <4> QED
        BY <2>3, <4>2, <4>3, <4>4, <4>5 DEF OtherAction
    <3> QED
      BY <2>0, <3>1, <3>2, LookupFrame
  <2>4. ASSUME NEW w \in Workers, TakeJob(w) \/ StoreBlock(w) \/ LoadBlock(w) \/ BlockFails(w)
        PROVE  LookupInv'
    BY <2>0, <2>4, LookupFrame DEF TakeJob, StoreBlock, LoadBlock, BlockFails, lookupVars
  <2> QED
    BY <1>2, <2>1, <2>2, <2>3, <2>4, LookupSubmitAnswers, RunLookupAnswers
       DEF Next, OtherAction
<1> QED
  BY <1>1, <1>2

(* Forgetting answers and taking jobs out of _futures keeps HIT true.      *)
LEMMA HitFrame ==
    ASSUME HitIsBacked, DiskGrows, futures \in SUBSET Jobs,
           blocks \in [Jobs -> BlockLists \cup {<<>>}], futures' \subseteq futures, UNCHANGED <<kind, blocks>>,
           \A rk \in Reqs \X Keys : known'[rk] \in {known[rk], "none"}
    PROVE  HitIsBacked'
<1>1. \A rk \in Reqs \X Keys : known'[rk] = "hit" => disk'[rk[2]] = "whole"
  BY DEF HitIsBacked, DiskGrows
<1>2. ASSUME NEW j \in futures', kind'[j] = "load", NEW k \in KeysOf(j)'
      PROVE  disk'[k] = "whole"
  <2>1. k \in KeysOf(j) /\ j \in Jobs
    BY <1>2 DEF KeysOf
  <2>2. k \in Keys
    BY <2>1, BlockListType DEF KeysOf
  <2> QED
    BY <1>2, <2>1, <2>2 DEF HitIsBacked, DiskGrows
<1> QED
  BY <1>1, <1>2 DEF HitIsBacked

(* A load is submitted for keys some request holds HIT for; a store names  *)
(* no record as present.                                                   *)
LEMMA SubmitHit ==
    ASSUME TypeOK, PoolInv, HitIsBacked, NEW j \in Jobs, NEW ks \in BlockLists,
           SubmitStore(j, ks) \/ SubmitLoad(j, ks)
    PROVE  HitIsBacked'
<1>1. PICK job \in {"store", "load"} :
        /\ Submit(j, job, ks)
        /\ job = "load" => \E r \in Reqs : \A i \in DOMAIN ks : known[<<r, ks[i]>>] = "hit"
  BY DEF SubmitStore, SubmitLoad
<1>2. /\ disk' = disk /\ known' = known
      /\ kind' = [kind EXCEPT ![j] = job] /\ blocks' = [blocks EXCEPT ![j] = ks]
      /\ futures' \subseteq futures \cup {j}
      /\ j \notin futures
  BY <1>1 DEF Submit, diskVars, lookupVars, PoolInv
<1>3. /\ kind \in [Jobs -> {"none", "store", "load"}]
      /\ blocks \in [Jobs -> BlockLists \cup {<<>>}] /\ futures \subseteq Jobs
  BY DEF TypeOK
<1>4. ASSUME NEW i \in futures', kind'[i] = "load", NEW k \in KeysOf(i)'
      PROVE  disk'[k] = "whole"
  <2>1. CASE i # j
    <3>1. i \in futures /\ kind[i] = "load" /\ k \in KeysOf(i)
      BY <1>2, <1>3, <1>4, <2>1 DEF KeysOf
    <3> QED
      BY <1>2, <3>1 DEF HitIsBacked
  <2>2. CASE i = j
    <3>1. job = "load" /\ blocks'[i] = ks
      BY <1>2, <1>3, <1>4, <2>2
    <3>2. PICK n \in 1..Len(ks) : k = ks[n]
      BY <1>4, <3>1 DEF KeysOf
    <3>3. k \in Keys /\ n \in DOMAIN ks
      BY <3>2, BlockListType
    <3>4. PICK r \in Reqs : known[<<r, k>>] = "hit"
      BY <1>1, <3>1, <3>2, <3>3
    <3> QED
      BY <1>2, <3>3, <3>4 DEF HitIsBacked
  <2> QED
    BY <2>1, <2>2
<1> QED
  BY <1>2, <1>4 DEF HitIsBacked

(* HIT is what is_file answered. *)
LEMMA AnswerHit ==
    ASSUME TypeOK, LookupInv, HitIsBacked, NEW r \in Reqs, NEW k \in Keys, LookupAnswer(r, k)
    PROVE  HitIsBacked'
<1>1. /\ known' = [known EXCEPT ![<<r, k>>] = Answer(lookupFuture[<<r, k>>])]
      /\ lookupFuture[<<r, k>>] # NoLookup
      /\ UNCHANGED <<disk, futures, kind, blocks>>
  BY DEF LookupAnswer, diskVars, jobVars, tableVars
<1>2. known \in [Reqs \X Keys -> {"none", "hit", "miss"}]
  BY DEF TypeOK
<1>3. Answer(lookupFuture[<<r, k>>]) = "hit" => isFile[lookupFuture[<<r, k>>]] = "true"
  BY DEF Answer
<1>4. Answer(lookupFuture[<<r, k>>]) = "hit" => disk[k] = "whole"
  BY <1>1, <1>3 DEF LookupInv
<1>5. \A rk \in Reqs \X Keys : known'[rk] = "hit" => disk[rk[2]] = "whole"
  BY <1>1, <1>2, <1>4 DEF HitIsBacked
<1> QED
  BY <1>1, <1>5 DEF HitIsBacked, KeysOf

(* Every step keeps HIT true. *)
LEMMA HitStep ==
    ASSUME TypeOK, PoolInv, LookupInv, HitIsBacked, [Next]_vars
    PROVE  HitIsBacked'
<1>1. CASE Restart
  BY <1>1 DEF Restart, HitIsBacked
<1>2. CASE ~Restart
  <2>0. /\ DiskGrows
        /\ futures \in SUBSET Jobs /\ blocks \in [Jobs -> BlockLists \cup {<<>>}]
    BY <1>2, DiskOnlyGrows DEF TypeOK
  <2>1. CASE GetFinishedJobs \/ DrainCollect
    BY <2>0, <2>1, HitFrame DEF GetFinishedJobs, DrainCollect, Collect, lookupVars, jobVars
  <2>2. ASSUME NEW r \in Reqs, RequestFinished(r) PROVE HitIsBacked'
    BY <2>0, <2>2, HitFrame DEF RequestFinished, jobVars, tableVars
  <2>3. CASE \/ DrainCall \/ DrainSnapshot \/ DrainWait \/ DrainClear
             \/ Shutdown \/ ShutdownReturns \/ (\E k \in Keys : BitRot(k)) \/ UNCHANGED vars
             \/ \E r \in Reqs, k \in Keys : LookupSubmit(r, k)
             \/ \E w \in Workers : TakeJob(w) \/ RunLookup(w) \/ StoreBlock(w)
                                    \/ LoadBlock(w) \/ BlockFails(w)
    <3>1. UNCHANGED <<futures, kind, blocks, known>>
      BY <2>3 DEF DrainCall, DrainSnapshot, DrainWait, DrainClear, Shutdown, ShutdownReturns,
         BitRot, vars, LookupSubmit, TakeJob, RunLookup, StoreBlock, LoadBlock, BlockFails,
         lookupVars, jobVars, tableVars
    <3> QED
      BY <2>0, <3>1, HitFrame
  <2> QED
    BY <1>2, <2>1, <2>2, <2>3, SubmitHit, AnswerHit DEF Next
<1> QED
  BY <1>1, <1>2

(* The blocks of a transfer are its keys. *)
LEMMA BlockKey ==
    ASSUME TypeOK, NEW j \in Jobs
    PROVE  /\ Len(blocks[j]) \in Nat /\ moved[j] \in Nat
           /\ \A n \in 1..Len(blocks[j]) : blocks[j][n] \in Keys
BY BlockListType DEF TypeOK

(* A job no step touches keeps its progress. *)
LEMMA JobFrame ==
    ASSUME TypeOK, NEW j \in Jobs, JobMoved(j), DiskGrows,
           moved'[j] = moved[j], future'[j] = future[j], kind'[j] = kind[j],
           blocks'[j] = blocks[j],
           reported'[j] = reported[j] \/ reported'[j] \in {"none", future'[j]}
    PROVE  JobMoved(j)'
<1>1. future[j] = "ok" \/ future[j] = "running" =>
        \A n \in 1..moved[j] : n \in 1..Len(blocks[j]) /\ blocks[j][n] \in Keys
  BY BlockKey DEF JobMoved
<1> QED
  BY <1>1 DEF JobMoved, DiskGrows

(* Submitting starts a job at its first block. *)
LEMMA SubmitMove ==
    ASSUME TypeOK, MoveInv, DiskGrows, NEW j \in Jobs, NEW job \in {"store", "load"},
           NEW ks \in BlockLists, Submit(j, job, ks)
    PROVE  MoveInv'
<1>1. /\ garbled' = garbled /\ moved' = moved /\ reported' = reported
      /\ kind' = [kind EXCEPT ![j] = job] /\ blocks' = [blocks EXCEPT ![j] = ks]
      /\ \E f \in {"queued", "rejected"} : future' = [future EXCEPT ![j] = f]
      /\ future[j] = "none"
  BY DEF Submit
<1>2. /\ future \in [Jobs -> FutureStates] /\ blocks \in [Jobs -> BlockLists \cup {<<>>}]
      /\ kind \in [Jobs -> {"none", "store", "load"}]
      /\ reported \in [Jobs -> {"none"} \cup Done]
  BY DEF TypeOK
<1>3. ASSUME NEW i \in Jobs PROVE JobMoved(i)'
  <2>0. JobMoved(i)
    BY DEF MoveInv, JobMoved
  <2>1. CASE i # j
    BY <2>0, <2>1, <1>1, <1>2, JobFrame
  <2>2. CASE i = j
    <3>1. moved[i] = 0 /\ reported[i] = "none"
      BY <2>0, <2>2, <1>1, <1>2 DEF JobMoved, Done
    <3>2. blocks'[i] = ks /\ Len(ks) \in Nat \ {0} /\ future'[i] \in {"queued", "rejected"}
      BY <2>2, <1>1, <1>2, BlockListType
    <3> QED
      BY <3>1, <3>2, <1>1 DEF JobMoved
  <2> QED
    BY <2>1, <2>2
<1> QED
  BY <1>1, <1>3 DEF MoveInv, JobMoved

(* A thread that takes a job has moved nothing of it yet. *)
LEMMA TakeMove ==
    ASSUME TypeOK, PoolInv, MoveInv, DiskGrows, NEW w \in Workers, TakeJob(w)
    PROVE  MoveInv'
<1> DEFINE j == Head(queue)
<1>1. /\ j \in Jobs /\ future' = [future EXCEPT ![j] = "running"]
      /\ UNCHANGED <<garbled, moved, kind, blocks, reported>>
  BY DEF TakeJob
<1>2. future \in [Jobs -> FutureStates]
  BY DEF TypeOK
<1>3. queue # <<>>
  BY DEF TakeJob
<1>4. future[j] = "queued"
  BY <1>1, <1>3, TailType DEF PoolInv, JobInQueue
<1> HIDE DEF j
<1>5. ASSUME NEW i \in Jobs PROVE JobMoved(i)'
  <2>0. JobMoved(i)
    BY DEF MoveInv, JobMoved
  <2>1. CASE i # j
    BY <2>0, <2>1, <1>1, <1>2, JobFrame
  <2>2. CASE i = j
    <3>1. reported[i] = "none"
      BY <2>0, <2>2, <1>4 DEF JobMoved, TypeOK, Done
    <3> QED
      BY <2>0, <2>2, <3>1, <1>1, <1>2, <1>4 DEF JobMoved
  <2> QED
    BY <2>1, <2>2
<1> QED
  BY <1>1, <1>5 DEF MoveInv, JobMoved

(* A block that is moved is in the directory when the job is a store.      *)
LEMMA BlockMove ==
    ASSUME TypeOK, PoolInv, MoveInv, DiskGrows, NEW w \in Workers,
           StoreBlock(w) \/ LoadBlock(w) \/ BlockFails(w)
    PROVE  MoveInv'
<1>1. PICK j \in Jobs :
        /\ running[w] = j
        /\ BlockMoved(w, j) \/ JobRaises(w, j)
        /\ kind[j] = "store" /\ BlockMoved(w, j) /\ ~JobRaises(w, j) => Records!Publish(NextKey(j))
        /\ UNCHANGED <<kind, blocks, garbled, reported>>
  BY DEF StoreBlock, LoadBlock, BlockFails
<1>2. /\ future \in [Jobs -> FutureStates] /\ moved \in [Jobs -> Nat]
      /\ disk \in [Keys -> {"absent", "whole"}]
      /\ future[j] = "running" /\ reported[j] = "none"
  <2>1. /\ future \in [Jobs -> FutureStates] /\ moved \in [Jobs -> Nat]
        /\ disk \in [Keys -> {"absent", "whole"}]
        /\ reported \in [Jobs -> {"none"} \cup Done]
    BY DiskType DEF TypeOK
  <2>2. future[j] = "running"
    BY <1>1, ConstantsAssumption DEF PoolInv
  <2>3. reported[j] = "none"
    BY <2>1, <2>2 DEF MoveInv, JobMoved, Done
  <2> QED
    BY <2>1, <2>2, <2>3
<1>3. \A i \in Jobs \ {j} : future'[i] = future[i] /\ moved'[i] = moved[i]
  BY <1>1, <1>2 DEF BlockMoved, JobRaises
<1>4. JobMoved(j)
  BY DEF MoveInv, JobMoved
<1>5. JobMoved(j)'
  <2>1. CASE JobRaises(w, j)
    BY <2>1, <1>1, <1>2 DEF JobRaises, JobMoved
  <2>2. CASE BlockMoved(w, j) /\ ~JobRaises(w, j)
    <3>1. moved'[j] = moved[j] + 1 /\ moved[j] + 1 \in 1..Len(blocks[j])
      BY <2>2, <1>2, <1>4, BlockKey DEF BlockMoved, JobMoved
    <3>2. IF moved'[j] = Len(blocks[j]) THEN future'[j] = "ok" ELSE future'[j] = "running"
      BY <2>2, <3>1, <1>2 DEF BlockMoved
    <3>3. ASSUME kind[j] = "store", NEW n \in 1..moved'[j] PROVE disk'[blocks[j][n]] = "whole"
      <4>1. blocks[j][n] \in Keys
        BY <3>1, <1>2, BlockKey
      <4>2. CASE n = moved[j] + 1
        BY <4>1, <4>2, <3>3, <2>2, <1>1, <1>2 DEF Records!Publish, NextKey
      <4>3. CASE n # moved[j] + 1
        <5>1. n \in 1..moved[j]
          BY <4>3, <3>1, <1>2
        <5> QED
          BY <5>1, <4>1, <3>3, <1>2, <1>4 DEF JobMoved, DiskGrows
      <4> QED
        BY <4>2, <4>3
    <3>4. Len(blocks[j]) \in Nat
      BY BlockKey
    <3> QED
      BY <3>1, <3>2, <3>3, <3>4, <1>1, <1>2 DEF JobMoved
  <2> QED
    BY <2>1, <2>2, <1>1
<1>6. ASSUME NEW i \in Jobs, i # j PROVE JobMoved(i)'
  <2>1. JobMoved(i)
    BY DEF MoveInv, JobMoved
  <2> QED
    BY <2>1, <1>1, <1>3, <1>6, JobFrame
<1> QED
  BY <1>1, <1>5, <1>6 DEF MoveInv, JobMoved

(* Every step keeps what a job's state says about its blocks. *)
LEMMA MoveStep ==
    ASSUME TypeOK, PoolInv, MoveInv, [Next]_vars
    PROVE  MoveInv'
<1>1. CASE Restart
  <2>1. /\ garbled' = garbled /\ moved' = moved
        /\ \A j \in Jobs : /\ reported'[j] = "none"
                           /\ future'[j] \in {"none", "lost"}
                           /\ future'[j] = "none" => future[j] = "none"
    BY <1>1 DEF Restart
  <2>2. ASSUME NEW j \in Jobs PROVE JobMoved(j)'
    <3>1. future'[j] = "none" => moved'[j] = 0
      BY <2>1 DEF MoveInv, JobMoved
    <3> QED
      BY <2>1, <3>1 DEF JobMoved
  <2> QED
    BY <2>1, <2>2 DEF MoveInv, JobMoved
<1>2. CASE ~Restart
  <2>0. DiskGrows
    BY <1>2, DiskOnlyGrows
  <2>1. ASSUME UNCHANGED <<garbled, moved, future, kind, blocks>>,
               \A j \in Jobs : reported'[j] = reported[j] \/ reported'[j] \in {"none", future[j]}
        PROVE  MoveInv'
    <3>1. ASSUME NEW j \in Jobs PROVE JobMoved(j)'
      <4>1. JobMoved(j)
        BY DEF MoveInv, JobMoved
      <4> QED
        BY <4>1, <2>0, <2>1, JobFrame
    <3> QED
      BY <2>1, <3>1 DEF MoveInv, JobMoved
  <2>2. CASE GetFinishedJobs
    BY <2>1, <2>2 DEF GetFinishedJobs, Success, jobVars
  <2>3. CASE OtherAction \/ DrainCollect \/ (\E r \in Reqs, k \in Keys : LookupSubmit(r, k))
             \/ \E w \in Workers : RunLookup(w)
    BY <2>1, <2>3 DEF OtherAction, LookupAnswer, RequestFinished, DrainCall, DrainSnapshot,
       DrainWait, DrainClear, Shutdown, ShutdownReturns, BitRot, vars, jobVars, DrainCollect,
       LookupSubmit, RunLookup
  <2>4. ASSUME NEW j \in Jobs, NEW ks \in BlockLists, SubmitStore(j, ks) \/ SubmitLoad(j, ks)
        PROVE  MoveInv'
    BY <2>0, <2>4, SubmitMove DEF SubmitStore, SubmitLoad
  <2> QED
    BY <1>2, <2>0, <2>2, <2>3, <2>4, TakeMove, BlockMove DEF Next, OtherAction
<1> QED
  BY <1>1, <1>2

(* Every step keeps every queued job in the queue, every running one with  *)
(* a thread, and a closed pool empty.                                      *)
LEMMA QuietStep ==
    ASSUME TypeOK, PoolInv, QuietInv, [Next]_vars
    PROVE  QuietInv'
<1>0. /\ future \in [Jobs -> FutureStates] /\ running \in [Workers -> Jobs \cup {Idle}]
      /\ queue \in Seq(Jobs \cup LookupIds)
  BY DEF TypeOK
<1>1. ASSUME NEW x \in Jobs \cup LookupIds, queue' = Append(queue, x)
      PROVE  InQueue(x)' /\ \A j : InQueue(j) => InQueue(j)'
  <2>1. /\ Len(queue') = Len(queue) + 1 /\ Len(queue) \in Nat
        /\ \A i \in 1..Len(queue) : queue'[i] = queue[i]
        /\ queue'[Len(queue) + 1] = x
    BY <1>0, <1>1, AppendProperties
  <2> QED
    BY <2>1 DEF InQueue
<1>2. ASSUME queue # <<>>, queue' = Tail(queue)
      PROVE  \A j : InQueue(j) /\ j # Head(queue) => InQueue(j)'
  <2> SUFFICES ASSUME NEW j, InQueue(j), j # Head(queue) PROVE InQueue(j)'
    OBVIOUS
  <2>1. PICK i \in 1..Len(queue) : queue[i] = j
    BY DEF InQueue
  <2>2. i - 1 \in 1..Len(queue') /\ queue'[i - 1] = queue[(i - 1) + 1]
    BY <2>1, <1>2, TailType
  <2>3. queue'[i - 1] = j
    BY <2>1, <2>2
  <2> QED
    BY <2>2, <2>3 DEF InQueue
<1>3. ASSUME NEW j \in Jobs, NEW ks \in BlockLists, SubmitStore(j, ks) \/ SubmitLoad(j, ks)
      PROVE  QuietInv'
  <2>1. PICK job : Submit(j, job, ks)
    BY <1>3 DEF SubmitStore, SubmitLoad
  <2>2. CASE pool = "open"
    BY <1>0, <1>1, <2>1, <2>2 DEF Submit, QuietInv
  <2>3. CASE pool # "open"
    BY <1>0, <2>1, <2>3 DEF Submit, QuietInv, InQueue
  <2> QED
    BY <2>2, <2>3
<1>4. ASSUME NEW r \in Reqs, NEW k \in Keys, LookupSubmit(r, k) PROVE QuietInv'
  <2>1. PICK l \in LookupIds : queue' = Append(queue, l)
    BY <1>4 DEF LookupSubmit
  <2> QED
    BY <2>1, <1>1, <1>4 DEF LookupSubmit, jobVars, QuietInv
<1>5. ASSUME NEW w \in Workers, TakeJob(w) PROVE QuietInv'
  <2>1. /\ running[w] = Idle /\ queue # <<>> /\ Head(queue) \in Jobs
        /\ queue' = Tail(queue) /\ pool' = pool
        /\ running' = [running EXCEPT ![w] = Head(queue)]
        /\ future' = [future EXCEPT ![Head(queue)] = "running"]
    BY <1>5 DEF TakeJob
  <2>2. pool # "closed"
    BY <2>1 DEF QuietInv
  <2>3. ASSUME NEW j \in Jobs, future'[j] = "queued" PROVE InQueue(j)'
    BY <1>0, <1>2, <2>1, <2>3 DEF QuietInv
  <2>4. ASSUME NEW j \in Jobs, future'[j] = "running" PROVE \E v \in Workers : running'[v] = j
    <3>1. CASE j = Head(queue)
      BY <1>0, <2>1, <3>1
    <3>2. CASE j # Head(queue)
      <4>1. PICK v \in Workers : running[v] = j
        BY <1>0, <2>1, <2>4, <3>2 DEF QuietInv
      <4>2. v # w
        BY <2>1, <4>1, ConstantsAssumption
      <4> QED
        BY <1>0, <2>1, <4>1, <4>2
    <3> QED
      BY <3>1, <3>2
  <2> QED
    BY <2>1, <2>2, <2>3, <2>4 DEF QuietInv
<1>6. ASSUME NEW w \in Workers, RunLookup(w) PROVE QuietInv'
  <2>1. /\ queue # <<>> /\ queue' = Tail(queue) /\ Head(queue) \notin Jobs
        /\ UNCHANGED <<future, running, pool>>
    BY <1>6, ConstantsAssumption DEF RunLookup, jobVars
  <2> QED
    BY <2>1, <1>2 DEF QuietInv
<1>7. ASSUME NEW w \in Workers, StoreBlock(w) \/ LoadBlock(w) \/ BlockFails(w)
      PROVE  QuietInv'
  <2>1. PICK j \in Jobs : /\ running[w] = j
                          /\ BlockMoved(w, j) \/ JobRaises(w, j)
                          /\ queue' = queue
    BY <1>7, BlockStep
  <2>2. pool' = pool /\ j # Idle /\ pool # "closed"
    BY <1>7, <2>1, ConstantsAssumption DEF StoreBlock, LoadBlock, BlockFails, QuietInv
  <2>3. \/ UNCHANGED <<future, running>>
        \/ /\ \E f \in {"ok", "error"} : future' = [future EXCEPT ![j] = f]
           /\ running' = [running EXCEPT ![w] = Idle]
    BY <2>1 DEF BlockMoved, JobRaises
  <2>4. ASSUME NEW i \in Jobs, future'[i] \in {"queued", "running"}
        PROVE  /\ future'[i] = future[i]
               /\ \A v \in Workers : running[v] = i => running'[v] = i
    <3>1. CASE UNCHANGED <<future, running>>
      BY <3>1
    <3>2. CASE /\ \E f \in {"ok", "error"} : future' = [future EXCEPT ![j] = f]
               /\ running' = [running EXCEPT ![w] = Idle]
      <4>1. i # j /\ future'[i] = future[i]
        BY <1>0, <2>4, <3>2
      <4>2. ASSUME NEW v \in Workers, running[v] = i PROVE running'[v] = i
        BY <1>0, <2>1, <3>2, <4>1, <4>2
      <4> QED
        BY <4>1, <4>2
    <3> QED
      BY <2>3, <3>1, <3>2
  <2> QED
    BY <2>1, <2>2, <2>4 DEF QuietInv, InQueue
<1>8. CASE Restart
  BY <1>8 DEF Restart, QuietInv
<1>9. CASE GetFinishedJobs \/ DrainCollect
  BY <1>9 DEF GetFinishedJobs, DrainCollect, jobVars, poolVars, QuietInv, InQueue
<1>10. CASE OtherAction
  <2>1. UNCHANGED <<future, queue, running>>
    BY <1>10, OtherUntouched DEF PoolUntouched
  <2>2. \/ pool' = pool
        \/ pool' = "closing"
        \/ pool' = "closed" /\ queue = <<>> /\ (\A w \in Workers : running[w] = Idle)
    <3>1. CASE Shutdown
      BY <3>1 DEF Shutdown
    <3>2. CASE ShutdownReturns
      BY <3>2 DEF ShutdownReturns
    <3>3. CASE ~Shutdown /\ ~ShutdownReturns
      BY <1>10, <3>3 DEF OtherAction, LookupAnswer, RequestFinished, DrainCall, DrainSnapshot,
         DrainWait, DrainClear, BitRot, vars
    <3> QED
      BY <3>1, <3>2, <3>3
  <2> QED
    BY <2>1, <2>2 DEF QuietInv, InQueue
<1> QED
  BY <1>3, <1>4, <1>5, <1>6, <1>7, <1>8, <1>9, <1>10 DEF Next, OtherAction

(***************************************************************************)
(* Theorems.                                                               *)
(***************************************************************************)
(* An empty tier satisfies the invariant. *)
LEMMA InvInit == Init => IInv
<1> SUFFICES ASSUME Init PROVE IInv
  OBVIOUS
<1>1. TypeOK
  <2>1. /\ Records!RecordSetTypeOK
        /\ queue \in Seq(Jobs \cup LookupIds)
    BY DEF Init, Records!RecordSetInit, Records!RecordSetTypeOK
  <2>2. faults \in 0..MaxFaults /\ rots \in 0..MaxRots
        /\ drains \in 0..MaxDrains /\ restarts \in 0..MaxRestarts
    BY ConstantsAssumption DEF Init
  <2> QED
    BY <2>1, <2>2 DEF Init, TypeOK, NoDrain, FutureStates
<1>2. \A i : ~JobInQueue(i)
  BY DEF Init, JobInQueue
<1>3. PoolInv
  BY <1>2 DEF Init, PoolInv
<1>4. Counted = {} /\ \A k \in Keys : Holding(Counted, k) = {} /\ inflight[k] = 0
  BY DEF Init, Counted, Rejected, Holding
<1>5. InflightExact
  BY <1>4, FS_EmptySet DEF InflightExact, Count, Counted, Holding
<1>6. LookupInv /\ HitIsBacked
  BY DEF Init, LookupInv, HitIsBacked
<1>7. MoveInv /\ QuietInv
  BY DEF Init, MoveInv, JobMoved, QuietInv
<1> QED
  BY <1>1, <1>3, <1>5, <1>6, <1>7 DEF IInv

(* The inductive invariant holds in every reachable state. *)
LEMMA Invariance == Spec => []IInv
<1>1. IInv /\ [Next]_vars => IInv'
  BY TypeStep, PoolStepInv, CountStep, LookupStep, HitStep, MoveStep, QuietStep DEF IInv
<1> QED
  BY InvInit, <1>1, PTL DEF Spec

(* Every variable of the tier keeps its type. *)
THEOREM TypeCorrect == Spec => []TypeOK
<1>1. IInv => TypeOK
  BY DEF IInv
<1> QED
  BY Invariance, <1>1, PTL

(* For any number of jobs, keys, threads and callers, _inflight_keys       *)
(* counts exactly the uncollected jobs of each key (and the refused ones). *)
THEOREM InflightCountsExact == Spec => []InflightExact
<1>1. IInv => InflightExact
  BY DEF IInv
<1> QED
  BY Invariance, <1>1, PTL

(* has_pending_work() = False means no pool thread holds or will take a    *)
(* job: vLLM may reuse every primary slot.                                 *)
THEOREM NoPendingMeansQuiet == Spec => []NoHiddenWork
<1>1. IInv => NoHiddenWork
  <2> SUFFICES ASSUME IInv, futures = {}, NEW j \in Jobs
               PROVE  ~InQueue(j) /\ \A w \in Workers : running[w] # j
    BY DEF NoHiddenWork, HasPendingWork
  <2>1. future[j] \notin {"queued", "running"}
    BY DEF IInv, PoolInv
  <2>2. ~InQueue(j)
    BY <2>1 DEF IInv, PoolInv, InQueue, JobInQueue
  <2>3. \A w \in Workers : running[w] # j
    BY <2>1, ConstantsAssumption DEF IInv, PoolInv
  <2> QED
    BY <2>2, <2>3
<1> QED
  BY Invariance, <1>1, PTL

(* No request is told HIT or MISS for a key that an uncollected job names, *)
(* whoever calls: the inflight test of lookup is enough.                   *)
THEOREM RetryDuringTransfer == Spec => NoAnswerDuringTransfer
<1> DEFINE Quiet == \A r \in Reqs, k \in Keys :
                      known'[<<r, k>>] \notin {"none", known[<<r, k>>]}
                          => \A j \in futures : k \notin KeysOf(j)
<1>1. IInv /\ [Next]_vars => [Quiet]_vars
  <2> SUFFICES ASSUME IInv, Next, NEW r \in Reqs, NEW k \in Keys,
                      known'[<<r, k>>] \notin {"none", known[<<r, k>>]},
                      NEW j \in futures
               PROVE  k \notin KeysOf(j)
    OBVIOUS
  <2>1. known \in [Reqs \X Keys -> {"none", "hit", "miss"}]
    BY DEF IInv, TypeOK
  <2>2. known' # known
    OBVIOUS
  <2>3. \/ \E q \in Reqs, m \in Keys : LookupAnswer(q, m)
        \/ \E q \in Reqs : RequestFinished(q)
        \/ Restart
    BY <2>2 DEF Next, SubmitStore, SubmitLoad, Submit, GetFinishedJobs, LookupSubmit,
         TakeJob, RunLookup, StoreBlock, LoadBlock, BlockFails, DrainCall, DrainSnapshot,
         DrainWait, DrainCollect, DrainClear, Shutdown, ShutdownReturns, BitRot, lookupVars
  <2>4. LookupAnswer(r, k)
    <3>1. \A q \in Reqs : ~RequestFinished(q)
      BY <2>1 DEF RequestFinished
    <3>2. ~Restart
      BY DEF Restart
    <3>3. PICK q \in Reqs, m \in Keys : LookupAnswer(q, m)
      BY <2>3, <3>1, <3>2
    <3>4. q = r /\ m = k
      BY <2>1, <3>3 DEF LookupAnswer
    <3> QED
      BY <3>3, <3>4
  <2>5. Cardinality(Holding(Counted, k)) = 0
    BY <2>4 DEF LookupAnswer, IInv, InflightExact, Count, Counted, Holding
  <2>6. Counted \in SUBSET Jobs
    BY DEF IInv, TypeOK, Counted, Rejected
  <2>7. Holding(Counted, k) = {}
    BY <2>5, <2>6, CountFinite, FS_EmptySet
  <2> QED
    BY <2>7 DEF Holding, Counted
<1> QED
  BY Invariance, <1>1, PTL DEF Spec, NoAnswerDuringTransfer

(* A request that was told HIT finds the record, and so does every load it *)
(* starts, until the server restarts: nothing in the tier removes records. *)
THEOREM HitStaysTrue == Spec => []HitIsBacked
<1>1. IInv => HitIsBacked
  BY DEF IInv
<1> QED
  BY Invariance, <1>1, PTL

(* A JobResult with success=True is true of every block of the job: all    *)
(* were moved, a store's records are in the directory, and no load put     *)
(* damaged data into a primary slot.                                       *)
THEOREM SuccessMeansMoved == Spec => []OkMeansMoved
<1>1. IInv => OkMeansMoved
  <2> SUFFICES ASSUME IInv, NEW j \in Jobs, reported[j] = "ok"
               PROVE  /\ moved[j] = Len(blocks[j]) /\ j \notin garbled
                      /\ kind[j] = "store" => \A k \in KeysOf(j) : disk[k] = "whole"
    BY DEF OkMeansMoved
  <2>1. future[j] = "ok" /\ moved[j] = Len(blocks[j]) /\ garbled = {}
    BY DEF IInv, MoveInv, JobMoved
  <2>2. kind[j] = "store" => \A n \in 1..Len(blocks[j]) : disk[blocks[j][n]] = "whole"
    BY <2>1 DEF IInv, MoveInv, JobMoved
  <2> QED
    BY <2>1, <2>2 DEF KeysOf
<1> QED
  BY Invariance, <1>1, PTL

(* shutdown(wait=True) returns only when every accepted job has run.       *)
THEOREM ClosedMeansQuiet == Spec => []ClosedPoolIsQuiet
<1>1. IInv => ClosedPoolIsQuiet
  <2> SUFFICES ASSUME IInv, pool = "closed", NEW j \in Jobs
               PROVE  future[j] \notin {"queued", "running"}
    BY DEF ClosedPoolIsQuiet
  <2>1. queue = <<>> /\ \A w \in Workers : running[w] = Idle
    BY DEF IInv, QuietInv
  <2>2. ~InQueue(j) /\ j # Idle
    BY <2>1, ConstantsAssumption DEF InQueue
  <2> QED
    BY <2>1, <2>2 DEF IInv, QuietInv
<1> QED
  BY Invariance, <1>1, PTL
=============================================================================
