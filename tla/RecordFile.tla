------------------------------ MODULE RecordFile ------------------------------
(***************************************************************************)
(* store_record_atomic (integrations/vllm_codec.py): the protocol by which *)
(* concurrent writer threads, in one or several processes that share a     *)
(* record directory, publish the record of an offload key.  One action per *)
(* file-system call; a call may fail, a process may die between two calls  *)
(* and be restarted under the same process id, the power may fail.         *)
(*                                                                         *)
(* A file is "absent", "torn" (created, bytes missing), "written" (all     *)
(* bytes in the page cache) or "synced" (all bytes on the medium).  Two    *)
(* records of one key have the same bytes (the key is a content hash), so  *)
(* the bytes themselves are not modelled.                                  *)
(***************************************************************************)
EXTENDS Naturals, FiniteSets

CONSTANTS Keys,              \* offload keys
          Procs,             \* process ids of the servers sharing the directory
          Threads,           \* thread ids
          Writers,           \* the <<process, thread>> pairs that write records
          MaxFaults,         \* bound: OS errors raised by file-system calls
          MaxCrashes         \* bound: process deaths and power failures

ASSUME WritersAssumption == Writers \subseteq Procs \X Threads
ASSUME BoundsAssumption == MaxFaults \in Nat /\ MaxCrashes \in Nat

VARIABLES record,            \* record[k]: the file at k's record path
          tmp,               \* tmp[<<k, n>>]: the temporary file of k named by n
          pc,                \* pc[w]: the next call of writer w
          key,               \* key[w]: the key of w's latest call
          raising,           \* raising[w]: an exception is on its way out
          result,            \* result[w]: how w's latest call ended
          leftover,          \* temporary files nobody will remove (history)
          durable,           \* keys whose record name survives a power loss
          boots,             \* power failures so far (history)
          faults, crashes    \* counters for the two bounds

writerVars == <<pc, key, raising, result>>
vars == <<record, tmp, pc, key, raising, result, leftover, durable,
          boots, faults, crashes>>

FileStates == {"absent", "torn", "written", "synced"}
Stages     == {"idle", "check", "open", "write", "fsync", "replace", "unlink"}
InTry      == {"open", "write", "fsync", "replace"}

(* temporary = path.with_name(".name.<pid>.<thread id>.tmp") *)
TempNameByProcess(w) == CHOOSE v \in Writers : v[1] = w[1]
TempName(w) == <<w[1], w[2]>>

Temp(w) == <<key[w], TempName(w)>>

(* A left-over file is there, and no call fills or renames it.             *)
Abandoned(f) ==
    /\ tmp[f] # "absent"
    /\ \A w \in Writers : pc[w] \in {"write", "fsync", "replace"} => Temp(w) # f

(* The types of the variables.  What is left over was abandoned: a call    *)
(* that meets a stale file of its own name raises (open "xb") and never    *)
(* fills or publishes it.                                                  *)
TypeOK ==
    /\ record \in [Keys -> FileStates]
    /\ tmp \in [Keys \X Writers -> FileStates]
    /\ pc \in [Writers -> Stages]
    /\ key \in [Writers -> Keys]
    /\ raising \in [Writers -> BOOLEAN]
    /\ result \in [Writers -> {"none", "ok", "error"}]
    /\ leftover \subseteq Keys \X Writers /\ \A f \in leftover : Abandoned(f)
    /\ durable \subseteq Keys
    /\ boots \in Nat
    /\ faults \in 0..MaxFaults
    /\ crashes \in 0..MaxCrashes

Init ==
    /\ record = [k \in Keys |-> "absent"]
    /\ tmp = [f \in Keys \X Writers |-> "absent"]
    /\ pc = [w \in Writers |-> "idle"]
    /\ key \in [Writers -> Keys]
    /\ raising = [w \in Writers |-> FALSE]
    /\ result = [w \in Writers |-> "none"]
    /\ leftover = {}
    /\ durable = {}
    /\ boots = 0
    /\ faults = 0
    /\ crashes = 0

(***************************************************************************)
(* The call returns or raises.                                             *)
(***************************************************************************)
EndCall(w, outcome) ==
    /\ pc' = [pc EXCEPT ![w] = "idle"]
    /\ raising' = [raising EXCEPT ![w] = FALSE]
    /\ result' = [result EXCEPT ![w] = outcome]

(* An exception leaves the try block: the finally clause runs next. *)
Raise(w) ==
    /\ pc' = [pc EXCEPT ![w] = "unlink"]
    /\ raising' = [raising EXCEPT ![w] = TRUE]
    /\ UNCHANGED result

Goto(w, stage) ==
    /\ pc' = [pc EXCEPT ![w] = stage]
    /\ UNCHANGED <<raising, result>>

SetTemp(w, state) == tmp' = [tmp EXCEPT ![Temp(w)] = state]

(* A pool thread calls store_record_atomic for k. *)
Begin(w, k) ==
    /\ pc[w] = "idle"
    /\ pc' = [pc EXCEPT ![w] = "check"]
    /\ key' = [key EXCEPT ![w] = k]
    /\ result' = [result EXCEPT ![w] = "none"]
    /\ UNCHANGED <<record, tmp, raising, leftover, durable, boots, faults, crashes>>

(* mkdir, then the early return when the record is already there. *)
CheckExists(w) ==
    /\ pc[w] = "check"
    /\ IF record[key[w]] # "absent" THEN EndCall(w, "ok") ELSE Goto(w, "open")
    /\ UNCHANGED <<record, tmp, key, leftover, durable, boots, faults, crashes>>

(* open("xb") creates the file, or raises when the name is taken. *)
OpenTempSpins(w) ==
    /\ pc[w] = "open"
    /\ tmp[Temp(w)] = "absent"
    /\ SetTemp(w, "torn")
    /\ Goto(w, "write")
    /\ UNCHANGED <<record, key, leftover, durable, boots, faults, crashes>>

OpenTempTruncates(w) ==
    /\ pc[w] = "open"
    /\ SetTemp(w, "torn")
    /\ Goto(w, "write")
    /\ UNCHANGED <<record, key, leftover, durable, boots, faults, crashes>>

OpenTempOutsideTry(w) ==
    /\ pc[w] = "open"
    /\ IF tmp[Temp(w)] = "absent"
         THEN SetTemp(w, "torn") /\ Goto(w, "write")
         ELSE UNCHANGED tmp /\ EndCall(w, "error")
    /\ UNCHANGED <<record, key, leftover, durable, boots, faults, crashes>>

OpenTemp(w) ==
    /\ pc[w] = "open"
    /\ IF tmp[Temp(w)] = "absent"
         THEN SetTemp(w, "torn") /\ Goto(w, "write")
         ELSE UNCHANGED tmp /\ Raise(w)
    /\ UNCHANGED <<record, key, leftover, durable, boots, faults, crashes>>

(* write and flush hand every byte to the page cache. *)
WriteTemp(w) ==
    /\ pc[w] = "write"
    /\ SetTemp(w, "written")
    /\ Goto(w, "fsync")
    /\ UNCHANGED <<record, key, leftover, durable, boots, faults, crashes>>

FsyncTempSkipped(w) ==
    /\ pc[w] = "fsync"
    /\ Goto(w, "replace")
    /\ UNCHANGED <<record, tmp, key, leftover, durable, boots, faults, crashes>>

FsyncTemp(w) ==
    /\ pc[w] = "fsync"
    /\ SetTemp(w, "synced")
    /\ Goto(w, "replace")
    /\ UNCHANGED <<record, key, leftover, durable, boots, faults, crashes>>

(* os.replace renames the file over the record, whatever was there. *)
Replace(w) ==
    /\ pc[w] = "replace"
    /\ IF tmp[Temp(w)] = "absent"
         THEN UNCHANGED <<record, tmp>> /\ Raise(w)
         ELSE /\ record' = [record EXCEPT ![key[w]] = tmp[Temp(w)]]
              /\ SetTemp(w, "absent")
              /\ Goto(w, "unlink")
    /\ UNCHANGED <<key, leftover, durable, boots, faults, crashes>>

(* The finally clause; a missing file is the normal case and is ignored. *)
UnlinkSwallows(w) ==
    /\ pc[w] = "unlink"
    /\ SetTemp(w, "absent")
    /\ leftover' = leftover \ {Temp(w)}
    /\ EndCall(w, "ok")
    /\ UNCHANGED <<record, key, durable, boots, faults, crashes>>

UnlinkRecord(w) ==
    /\ pc[w] = "unlink"
    /\ record' = IF raising[w] THEN [record EXCEPT ![key[w]] = "absent"] ELSE record
    /\ SetTemp(w, "absent")
    /\ leftover' = leftover \ {Temp(w)}
    /\ EndCall(w, IF raising[w] THEN "error" ELSE "ok")
    /\ UNCHANGED <<key, durable, boots, faults, crashes>>

UnlinkOnlyOnSuccess(w) ==
    /\ pc[w] = "unlink"
    /\ IF raising[w] THEN UNCHANGED tmp ELSE SetTemp(w, "absent")
    /\ leftover' = leftover \ {Temp(w)}
    /\ EndCall(w, IF raising[w] THEN "error" ELSE "ok")
    /\ UNCHANGED <<record, key, durable, boots, faults, crashes>>

Unlink(w) ==
    /\ pc[w] = "unlink"
    /\ SetTemp(w, "absent")
    /\ leftover' = leftover \ {Temp(w)}
    /\ EndCall(w, IF raising[w] THEN "error" ELSE "ok")
    /\ UNCHANGED <<record, key, durable, boots, faults, crashes>>

(***************************************************************************)
(* Failures.                                                               *)
(***************************************************************************)
(* A file-system call raises OSError.  mkdir and exists are outside the    *)
(* try block; a failing write leaves the temporary file as it was.         *)
OSErrorRaised(w) ==
    /\ faults < MaxFaults
    /\ faults' = faults + 1
    /\ \/ pc[w] = "check" /\ EndCall(w, "error")
       \/ pc[w] \in InTry /\ Raise(w)
    /\ UNCHANGED <<record, tmp, key, leftover, durable, boots, crashes>>

(* unlink raises something other than FileNotFoundError. *)
UnlinkRaises(w) ==
    /\ pc[w] = "unlink"
    /\ faults < MaxFaults
    /\ faults' = faults + 1
    /\ leftover' = IF tmp[Temp(w)] = "absent" THEN leftover
                                              ELSE leftover \cup {Temp(w)}
    /\ EndCall(w, "error")
    /\ UNCHANGED <<record, tmp, key, durable, boots, crashes>>

(* The threads of P are gone; a new server may get the same process id. *)
StopWriters(P) ==
    /\ pc' = [w \in Writers |-> IF w[1] \in P THEN "idle" ELSE pc[w]]
    /\ raising' = [w \in Writers |-> IF w[1] \in P THEN FALSE ELSE raising[w]]
    /\ result' = [w \in Writers |-> IF w[1] \in P THEN "none" ELSE result[w]]
    /\ UNCHANGED key

OwnedBy(P) == {f \in Keys \X Writers : tmp[f] # "absent" /\ f[2][1] \in P}

Crash(p) ==
    /\ crashes < MaxCrashes
    /\ crashes' = crashes + 1
    /\ StopWriters({p})
    /\ leftover' = leftover \cup OwnedBy({p})
    /\ UNCHANGED <<record, tmp, durable, boots, faults>>

(* Power loss.  Durable names stay, the others are kept or lost.  A file   *)
(* that was not synced may come back torn.  A temporary name is kept, lost *)
(* or, when the rename is what was lost, back again; nobody reads it, so   *)
(* it is "torn" whatever it holds.                                         *)
PowerFail ==
    /\ crashes < MaxCrashes
    /\ crashes' = crashes + 1
    /\ boots' = boots + 1
    /\ \E kept \in SUBSET {k \in Keys : record[k] # "absent"} :
         /\ durable \subseteq kept
         /\ durable' = kept
         /\ \E torn \in SUBSET {k \in kept : record[k] # "synced"} :
              record' = [k \in Keys |-> CASE k \notin kept -> "absent"
                                          [] k \in torn    -> "torn"
                                          [] OTHER         -> "synced"]
         /\ \E names \in SUBSET {f \in Keys \X Writers :
                                   \/ tmp[f] # "absent"
                                   \/ record[f[1]] # "absent" /\ f[1] \notin kept} :
              /\ tmp' = [f \in Keys \X Writers |-> IF f \in names THEN "torn"
                                                                 ELSE "absent"]
              /\ leftover' = names
    /\ StopWriters(Procs)
    /\ UNCHANGED faults

(***************************************************************************)
(* The specification.  Fairness: a started call keeps running.             *)
(***************************************************************************)
Call(w) == \/ CheckExists(w) \/ OpenTemp(w) \/ WriteTemp(w) \/ FsyncTemp(w)
           \/ Replace(w) \/ Unlink(w)

Next ==
    \/ \E w \in Writers :
         \/ \E k \in Keys : Begin(w, k)
         \/ CheckExists(w) \/ OpenTemp(w) \/ WriteTemp(w) \/ FsyncTemp(w)
         \/ Replace(w) \/ Unlink(w)
         \/ OSErrorRaised(w) \/ UnlinkRaises(w)
    \/ \E p \in Procs : Crash(p)
    \/ PowerFail

Spec == Init /\ [][Next]_vars

FairSpec == Spec /\ \A w \in Writers : WF_vars(Call(w))

(***************************************************************************)
(* Properties.                                                             *)
(***************************************************************************)
(* No reader of a record path ever opens a file with bytes missing, or one *)
(* a power loss could still damage: every interleaving of writers, failed  *)
(* call, crash and power failure leaves a record absent or synced          *)
(* (write, fsync and replace in this order).                               *)
TornFree == \A k \in Keys : record[k] \in {"absent", "synced"}

(* The temporary file a thread is filling is its own until it renames it:  *)
(* no other thread, process or finally clause removes it or creates it     *)
(* first (the process id and thread id in the temporary name, open "xb").  *)
TempOwned ==
    \A w \in Writers :
        /\ pc[w] = "write"   => tmp[Temp(w)] = "torn"
        /\ pc[w] = "fsync"   => tmp[Temp(w)] = "written"
        /\ pc[w] = "replace" => tmp[Temp(w)] = "synced"

(* A call that returned normally, by the early return or by renaming, left *)
(* the record in place, and only a power loss (which ends every caller)    *)
(* can take it away: the tier reports such a store as successful.          *)
OkMeansStored ==
    \A w \in Writers : result[w] = "ok" => record[key[w]] # "absent"

(* A temporary file outlives its call only when the process died, the      *)
(* power failed or unlink itself raised: on every other path the finally   *)
(* clause has removed it, also after a name collision.                     *)
Filling == {Temp(w) : w \in {v \in Writers : pc[v] \in {"write", "fsync", "replace", "unlink"}}}

NoOrphanTemp ==
    \A f \in Keys \X Writers : tmp[f] # "absent" => f \in leftover \/ f \in Filling

(* The directory is a RecordSet: records appear whole in one step and      *)
(* never vanish or change except by power loss.                            *)
View(k) == CASE record[k] = "absent" -> "absent"
             [] record[k] = "synced" -> "whole"
             [] OTHER                -> "damaged"

Records == INSTANCE RecordSet WITH view <- [k \in Keys |-> View(k)]

ImplementsRecordSet == Records!RecordSetSpec

(* A started call ends: it returns or raises, it never waits for another   *)
(* writer or for a stale temporary file to disappear.                      *)
CallsEnd == \A w \in Writers : pc[w] # "idle" ~> pc[w] = "idle"

(* A key is never wedged.  A stale temporary file of a dead process with   *)
(* the same process and thread id makes one attempt fail, and that         *)
(* attempt's finally clause removes it: a key that is attempted again and  *)
(* again is stored in the end.                                             *)
NeverWedged ==
    \A k \in Keys :
        []<>(\E w \in Writers : pc[w] = "check" /\ key[w] = k)
            => <>[](record[k] # "absent")
=============================================================================
