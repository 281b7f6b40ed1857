-------------------------- MODULE RecordFile_proofs --------------------------
(***************************************************************************)
(* Proofs about RecordFile for any set of keys, processes and threads and  *)
(* any number of faults and crashes.  The safety properties are proved     *)
(* together: TornFree needs TempOwned (what is renamed is synced), which   *)
(* needs the temporary names of two writers to differ.                     *)
(***************************************************************************)
EXTENDS RecordFile, TLAPS

(* In the finally clause without an exception, the rename has happened. *)
UnlinkAfterReplace ==
    \A w \in Writers : pc[w] = "unlink" => raising[w] \/ record[key[w]] # "absent"

(* The inductive invariant of store_record_atomic's writers. *)
IInv == /\ TypeOK /\ TornFree /\ TempOwned /\ UnlinkAfterReplace
        /\ OkMeansStored /\ NoOrphanTemp

(* A step of one call: everything but the failures that stop writers. *)
WriterStep(w) ==
    \/ \E k \in Keys : Begin(w, k)
    \/ CheckExists(w) \/ OpenTemp(w) \/ WriteTemp(w) \/ FsyncTemp(w)
    \/ Replace(w) \/ Unlink(w) \/ OSErrorRaised(w) \/ UnlinkRaises(w)

(* Two writers never share a temporary name: it holds the process id and   *)
(* the thread id (vllm_codec.py line 130), so it names the writer.         *)
LEMMA TempNameIsWriter ==
    ASSUME NEW w \in Writers
    PROVE  TempName(w) = w
BY WritersAssumption DEF TempName

(* The temporary file of a writer is one of the modelled files. *)
LEMMA TempType ==
    ASSUME TypeOK, NEW w \in Writers
    PROVE  /\ Temp(w) \in Keys \X Writers
           /\ Temp(w)[1] = key[w]
           /\ key[w] \in Keys
           /\ \A v \in Writers : Temp(v) = Temp(w) => v = w
BY TempNameIsWriter DEF TypeOK, Temp

(* However a call goes on, the control variables keep their types. *)
LEMMA ControlType ==
    ASSUME TypeOK, NEW w \in Writers,
           \/ \E outcome \in {"ok", "error"} : EndCall(w, outcome)
           \/ \E stage \in Stages : Goto(w, stage)
           \/ Raise(w)
    PROVE  /\ pc' \in [Writers -> Stages]
           /\ raising' \in [Writers -> BOOLEAN]
           /\ result' \in [Writers -> {"none", "ok", "error"}]
BY DEF TypeOK, EndCall, Goto, Raise, Stages

(* Whatever happens to a temporary file, it stays a file. *)
LEMMA SetTempType ==
    ASSUME TypeOK, NEW w \in Writers, NEW state \in FileStates, SetTemp(w, state)
    PROVE  tmp' \in [Keys \X Writers -> FileStates]
BY TempType DEF TypeOK, SetTemp

(* The left-over files stay abandoned.                                     *)
AllAbandoned == \A f \in leftover : Abandoned(f)

(* A step of a call keeps every variable in its type. *)
LEMMA WriterStepType ==
    ASSUME TypeOK, NEW w \in Writers, WriterStep(w), AllAbandoned'
    PROVE  TypeOK'
<1> USE DEF AllAbandoned
<1>1. CASE \E k \in Keys : Begin(w, k)
  BY <1>1 DEF Begin, TypeOK, Stages
<1>2. CASE CheckExists(w)
  <2>1. EndCall(w, "ok") \/ Goto(w, "open")
    BY <1>2 DEF CheckExists
  <2> QED
    BY <1>2, <2>1, ControlType DEF CheckExists, TypeOK, Stages
<1>3. CASE OpenTemp(w)
  <2>1. Goto(w, "write") \/ Raise(w)
    BY <1>3 DEF OpenTemp
  <2>2. UNCHANGED tmp \/ SetTemp(w, "torn")
    BY <1>3 DEF OpenTemp
  <2>3. tmp' \in [Keys \X Writers -> FileStates]
    BY <2>2, SetTempType DEF TypeOK, FileStates
  <2> QED
    BY <1>3, <2>1, <2>3, ControlType DEF OpenTemp, TypeOK, Stages
<1>4. CASE WriteTemp(w)
  BY <1>4, ControlType, SetTempType DEF WriteTemp, TypeOK, Stages, FileStates
<1>5. CASE FsyncTemp(w)
  BY <1>5, ControlType, SetTempType DEF FsyncTemp, TypeOK, Stages, FileStates
<1>6. CASE Replace(w)
  <2>1. Goto(w, "unlink") \/ Raise(w)
    BY <1>6 DEF Replace
  <2>2. UNCHANGED tmp \/ SetTemp(w, "absent")
    BY <1>6 DEF Replace
  <2>3. tmp' \in [Keys \X Writers -> FileStates]
    BY <2>2, SetTempType DEF TypeOK, FileStates
  <2>4. record' \in [Keys -> FileStates]
    BY <1>6, TempType DEF Replace, TypeOK
  <2> QED
    BY <1>6, <2>1, <2>3, <2>4, ControlType DEF Replace, TypeOK, Stages
<1>7. CASE Unlink(w)
  <2>1. EndCall(w, "ok") \/ EndCall(w, "error")
    BY <1>7 DEF Unlink
  <2> QED
    BY <1>7, <2>1, ControlType, SetTempType DEF Unlink, TypeOK, FileStates
<1>8. CASE OSErrorRaised(w)
  <2>1. faults' \in 0..MaxFaults
    BY <1>8, BoundsAssumption DEF OSErrorRaised, TypeOK
  <2>2. EndCall(w, "error") \/ Raise(w)
    BY <1>8 DEF OSErrorRaised
  <2> QED
    BY <1>8, <2>1, <2>2, ControlType DEF OSErrorRaised, TypeOK
<1>9. CASE UnlinkRaises(w)
  <2>1. faults' \in 0..MaxFaults
    BY <1>9, BoundsAssumption DEF UnlinkRaises, TypeOK
  <2>2. leftover' \subseteq Keys \X Writers
    BY <1>9, TempType DEF UnlinkRaises, TypeOK
  <2> QED
    BY <1>9, <2>1, <2>2, ControlType DEF UnlinkRaises, TypeOK
<1> QED
  BY <1>1, <1>2, <1>3, <1>4, <1>5, <1>6, <1>7, <1>8, <1>9 DEF WriterStep

(* A process death keeps every variable in its type. *)
LEMMA CrashType ==
    ASSUME TypeOK, NEW p \in Procs, Crash(p), AllAbandoned'
    PROVE  TypeOK'
<1> USE DEF AllAbandoned
<1>1. /\ pc' \in [Writers -> Stages]
      /\ raising' \in [Writers -> BOOLEAN]
      /\ result' \in [Writers -> {"none", "ok", "error"}]
      /\ key' \in [Writers -> Keys]
  BY DEF TypeOK, Crash, StopWriters, Stages
<1>2. leftover' \subseteq Keys \X Writers
  BY DEF TypeOK, Crash, OwnedBy
<1>3. crashes' \in 0..MaxCrashes
  BY BoundsAssumption DEF TypeOK, Crash
<1> QED
  BY <1>1, <1>2, <1>3 DEF TypeOK, Crash

(* A power failure keeps every variable in its type. *)
LEMMA PowerFailType ==
    ASSUME TypeOK, PowerFail, AllAbandoned'
    PROVE  TypeOK'
<1> USE DEF AllAbandoned
<1>1. /\ pc' \in [Writers -> Stages]
      /\ raising' \in [Writers -> BOOLEAN]
      /\ result' \in [Writers -> {"none", "ok", "error"}]
      /\ key' \in [Writers -> Keys]
  BY DEF TypeOK, PowerFail, StopWriters, Stages
<1>2. record' \in [Keys -> FileStates]
  BY DEF TypeOK, PowerFail, FileStates
<1>3. /\ tmp' \in [Keys \X Writers -> FileStates]
      /\ leftover' \subseteq Keys \X Writers
      /\ durable' \subseteq Keys
      /\ boots' \in Nat
  BY DEF TypeOK, PowerFail, FileStates
<1>4. faults' \in 0..MaxFaults /\ crashes' \in 0..MaxCrashes
  BY BoundsAssumption DEF TypeOK, PowerFail
<1> QED
  BY <1>1, <1>2, <1>3, <1>4 DEF TypeOK

(* The files a step of w's call does not touch: everybody else's.          *)
LEMMA OthersUntouched ==
    ASSUME TypeOK, NEW w \in Writers, WriterStep(w)
    PROVE  \A v \in Writers \ {w} :
             /\ pc'[v] = pc[v] /\ key'[v] = key[v]
             /\ raising'[v] = raising[v] /\ result'[v] = result[v]
             /\ Temp(v)' = Temp(v) /\ tmp'[Temp(v)] = tmp[Temp(v)]
<1> SUFFICES ASSUME NEW v \in Writers \ {w}
             PROVE  /\ pc'[v] = pc[v] /\ key'[v] = key[v]
                    /\ raising'[v] = raising[v] /\ result'[v] = result[v]
                    /\ Temp(v)' = Temp(v) /\ tmp'[Temp(v)] = tmp[Temp(v)]
  OBVIOUS
<1>1. Temp(v) \in Keys \X Writers /\ Temp(w) \in Keys \X Writers /\ Temp(v) # Temp(w)
  BY TempType
<1>2. /\ pc'[v] = pc[v] /\ key'[v] = key[v]
      /\ raising'[v] = raising[v] /\ result'[v] = result[v]
  BY DEF WriterStep, TypeOK, Begin, CheckExists, OpenTemp, WriteTemp, FsyncTemp, Replace,
         Unlink, OSErrorRaised, UnlinkRaises, EndCall, Raise, Goto
<1>3. UNCHANGED tmp \/ \E s \in FileStates : SetTemp(w, s)
  BY DEF WriterStep, TypeOK, Begin, CheckExists, OpenTemp, WriteTemp, FsyncTemp, Replace,
         Unlink, OSErrorRaised, UnlinkRaises, FileStates
<1>4. tmp'[Temp(v)] = tmp[Temp(v)]
  BY <1>1, <1>3 DEF SetTemp, TypeOK
<1> QED
  BY <1>2, <1>4 DEF Temp

(* A call opens a file that is not there, so what it fills and renames was *)
(* never left over; the finally clause takes what it removes off the list. *)
LEMMA WriterAbandons ==
    ASSUME TypeOK, NEW w \in Writers, WriterStep(w)
    PROVE  AllAbandoned'
<1>0. \A f \in leftover : /\ f \in Keys \X Writers /\ tmp[f] # "absent"
                          /\ \A v \in Writers : pc[v] \in {"write", "fsync", "replace"}
                                                 => Temp(v) # f
  BY DEF TypeOK, Abandoned
<1> SUFFICES ASSUME NEW f, f \in leftover'
             PROVE  /\ tmp'[f] # "absent"
                    /\ \A v \in Writers : pc'[v] \in {"write", "fsync", "replace"}
                                           => Temp(v)' # f
  BY DEF AllAbandoned, Abandoned
<1>1. \/ f \in leftover
      \/ UnlinkRaises(w) /\ f = Temp(w) /\ tmp[f] # "absent"
  <2>1. CASE UnlinkRaises(w)
    BY <2>1 DEF UnlinkRaises
  <2>2. CASE ~UnlinkRaises(w)
    <3>1. leftover' = leftover \/ leftover' = leftover \ {Temp(w)}
      BY <2>2 DEF WriterStep, Begin, CheckExists, OpenTemp, WriteTemp, FsyncTemp, Replace,
                  Unlink, OSErrorRaised
    <3>2. QED
      BY <3>1
  <2>3. QED
    BY <2>1, <2>2
<1>2. f \in Keys \X Writers /\ Temp(w) \in Keys \X Writers
  BY <1>0, <1>1, TempType
<1>3. \A v \in Writers \ {w} : pc'[v] \in {"write", "fsync", "replace"} => Temp(v)' # f
  <2> TAKE v \in Writers \ {w}
  <2>1. pc'[v] = pc[v] /\ Temp(v)' = Temp(v) /\ Temp(v) # Temp(w)
    BY OthersUntouched, TempType
  <2>2. QED
    BY <1>0, <1>1, <2>1
<1>4. /\ tmp'[f] # "absent"
      /\ pc'[w] \in {"write", "fsync", "replace"} => Temp(w)' # f
  <2>1. CASE \E k \in Keys : Begin(w, k)
    BY <1>0, <1>1, <2>1 DEF Begin, UnlinkRaises, TypeOK
  <2>2. CASE CheckExists(w)
    BY <1>0, <1>1, <2>2 DEF CheckExists, UnlinkRaises, EndCall, Goto, TypeOK
  <2>3. CASE OpenTemp(w)
    <3>1. f \in leftover /\ tmp[f] # "absent"
      BY <1>0, <1>1, <2>3 DEF OpenTemp, UnlinkRaises
    <3>2. CASE tmp[Temp(w)] = "absent"
      BY <1>2, <2>3, <3>1, <3>2 DEF OpenTemp, SetTemp, Goto, Temp, TypeOK
    <3>3. CASE tmp[Temp(w)] # "absent"
      BY <2>3, <3>1, <3>3 DEF OpenTemp, Raise, TypeOK
    <3>4. QED
      BY <3>2, <3>3
  <2>4. CASE WriteTemp(w)
    BY <1>0, <1>1, <1>2, <2>4 DEF WriteTemp, UnlinkRaises, SetTemp, Goto, Temp, TypeOK
  <2>5. CASE FsyncTemp(w)
    BY <1>0, <1>1, <1>2, <2>5 DEF FsyncTemp, UnlinkRaises, SetTemp, Goto, Temp, TypeOK
  <2>6. CASE Replace(w)
    <3>1. f \in leftover /\ tmp[f] # "absent" /\ f # Temp(w)
      BY <1>0, <1>1, <2>6 DEF Replace, UnlinkRaises
    <3>2. pc'[w] = "unlink"
      BY <2>6 DEF Replace, Raise, Goto, TypeOK
    <3>3. UNCHANGED tmp \/ SetTemp(w, "absent")
      BY <2>6 DEF Replace
    <3>4. QED
      BY <1>2, <3>1, <3>2, <3>3 DEF SetTemp, TypeOK
  <2>7. CASE Unlink(w)
    <3>1. f \in leftover /\ tmp[f] # "absent" /\ f # Temp(w)
      BY <1>0, <1>1, <2>7 DEF Unlink, UnlinkRaises
    <3>2. pc'[w] = "idle" /\ SetTemp(w, "absent")
      BY <2>7 DEF Unlink, EndCall, TypeOK
    <3>3. QED
      BY <1>2, <3>1, <3>2 DEF SetTemp, TypeOK
  <2>8. CASE OSErrorRaised(w)
    <3>1. tmp' = tmp /\ pc'[w] \in {"idle", "unlink"}
      BY <2>8 DEF OSErrorRaised, EndCall, Raise, TypeOK
    <3>2. tmp[f] # "absent"
      BY <1>0, <1>1
    <3>3. QED
      BY <3>1, <3>2
  <2>9. CASE UnlinkRaises(w)
    <3>1. tmp' = tmp /\ pc'[w] = "idle"
      BY <2>9 DEF UnlinkRaises, EndCall, TypeOK
    <3>2. tmp[f] # "absent"
      BY <1>0, <1>1
    <3>3. QED
      BY <3>1, <3>2
  <2>10. QED
    BY <2>1, <2>2, <2>3, <2>4, <2>5, <2>6, <2>7, <2>8, <2>9 DEF WriterStep
<1>5. QED
  BY <1>3, <1>4

(* A process death abandons the files its writers were filling.            *)
LEMMA CrashAbandons ==
    ASSUME TypeOK, NEW p \in Procs, Crash(p)
    PROVE  AllAbandoned'
<1> SUFFICES ASSUME NEW f, f \in leftover'
             PROVE  /\ tmp'[f] # "absent"
                    /\ \A v \in Writers : pc'[v] \in {"write", "fsync", "replace"}
                                           => Temp(v)' # f
  BY DEF AllAbandoned, Abandoned
<1>1. /\ tmp' = tmp
      /\ \A v \in Writers : /\ Temp(v)' = Temp(v)
                             /\ \/ pc'[v] = "idle"
                                \/ pc'[v] = pc[v] /\ v[1] # p
  BY DEF Crash, StopWriters, Temp
<1>2. CASE f \in leftover
  BY <1>1, <1>2 DEF TypeOK, Abandoned
<1>3. CASE f \in OwnedBy({p})
  <2>1. tmp[f] # "absent" /\ f[2][1] = p
    BY <1>3 DEF OwnedBy
  <2>2. \A v \in Writers : Temp(v)[2][1] = v[1]
    BY DEF Temp, TempName
  <2>3. QED
    BY <1>1, <2>1, <2>2
<1>4. QED
  BY <1>2, <1>3 DEF Crash

(* A power failure stops every writer.                                     *)
LEMMA PowerFailAbandons ==
    ASSUME TypeOK, PowerFail
    PROVE  AllAbandoned'
<1>1. \A v \in Writers : pc'[v] = "idle"
  BY WritersAssumption DEF PowerFail, StopWriters
<1>2. \A f \in leftover' : tmp'[f] # "absent"
  BY DEF PowerFail
<1>3. QED
  BY <1>1, <1>2 DEF AllAbandoned, Abandoned

(* Every variable keeps its type in every step of the specification. *)
LEMMA TypeStep ==
    ASSUME TypeOK, [Next]_vars
    PROVE  TypeOK'
<1>1. CASE \E w \in Writers : WriterStep(w)
  BY <1>1, WriterAbandons, WriterStepType
<1>2. CASE \E p \in Procs : Crash(p)
  BY <1>2, CrashAbandons, CrashType
<1>3. CASE PowerFail
  BY <1>3, PowerFailAbandons, PowerFailType
<1>4. CASE UNCHANGED vars
  BY <1>4 DEF TypeOK, vars, Abandoned, Temp
<1> QED
  BY <1>1, <1>2, <1>3, <1>4 DEF Next, WriterStep

(* A call's step keeps TempOwned: its own file follows the stages, the     *)
(* files of the others are untouched.                                      *)
LEMMA TempOwnedStep ==
    ASSUME TypeOK, TempOwned, NEW w \in Writers, WriterStep(w)
    PROVE  TempOwned'
<1> DEFINE Owned(v) == /\ pc[v] = "write"   => tmp[Temp(v)] = "torn"
                       /\ pc[v] = "fsync"   => tmp[Temp(v)] = "written"
                       /\ pc[v] = "replace" => tmp[Temp(v)] = "synced"
<1>1. \A v \in Writers \ {w} : Owned(v)'
  BY OthersUntouched DEF TempOwned
<1>2. Owned(w)'
  <2> USE TempType DEF TypeOK, EndCall, Raise, Goto, SetTemp, Temp
  <2>1. CASE \E k \in Keys : Begin(w, k)
    BY <2>1 DEF Begin
  <2>2. CASE CheckExists(w)
    BY <2>2 DEF CheckExists
  <2>3. CASE OpenTemp(w)
    BY <2>3 DEF OpenTemp
  <2>4. CASE WriteTemp(w)
    BY <2>4 DEF WriteTemp
  <2>5. CASE FsyncTemp(w)
    BY <2>5 DEF FsyncTemp
  <2>6. CASE Replace(w)
    BY <2>6 DEF Replace
  <2>7. CASE Unlink(w)
    BY <2>7 DEF Unlink
  <2>8. CASE OSErrorRaised(w)
    BY <2>8 DEF OSErrorRaised
  <2>9. CASE UnlinkRaises(w)
    BY <2>9 DEF UnlinkRaises
  <2> QED
    BY <2>1, <2>2, <2>3, <2>4, <2>5, <2>6, <2>7, <2>8, <2>9 DEF WriterStep
<1> QED
  BY <1>1, <1>2 DEF TempOwned

(* A call changes a record only by renaming a synced file over it. *)
LEMMA RecordStep ==
    ASSUME TypeOK, TempOwned, NEW w \in Writers, WriterStep(w)
    PROVE  /\ record' = record \/ record' = [record EXCEPT ![key[w]] = "synced"]
           /\ durable' = durable /\ boots' = boots
BY DEF WriterStep, TempOwned, Begin, CheckExists, OpenTemp, WriteTemp, FsyncTemp, Replace,
       Unlink, OSErrorRaised, UnlinkRaises

(* A call that reports success found the record or has just renamed it. *)
LEMMA OkMeansStoredStep ==
    ASSUME TypeOK, TempOwned, OkMeansStored, UnlinkAfterReplace,
           NEW w \in Writers, WriterStep(w)
    PROVE  OkMeansStored'
<1>1. \A k \in Keys : record[k] # "absent" => record'[k] # "absent"
  BY RecordStep DEF TypeOK
<1>2. \A v \in Writers \ {w} : result'[v] = "ok" => record'[key'[v]] # "absent"
  BY <1>1, OthersUntouched DEF OkMeansStored, TypeOK
<1>3. result'[w] = "ok" => record'[key'[w]] # "absent"
  <2> USE <1>1 DEF TypeOK, EndCall, Raise, Goto, OkMeansStored, UnlinkAfterReplace
  <2>1. CASE \E k \in Keys : Begin(w, k)
    BY <2>1 DEF Begin
  <2>2. CASE CheckExists(w)
    BY <2>2 DEF CheckExists
  <2>3. CASE OpenTemp(w)
    BY <2>3 DEF OpenTemp
  <2>4. CASE WriteTemp(w)
    BY <2>4 DEF WriteTemp
  <2>5. CASE FsyncTemp(w)
    BY <2>5 DEF FsyncTemp
  <2>6. CASE Replace(w)
    BY <2>6 DEF Replace
  <2>7. CASE Unlink(w)
    BY <2>7 DEF Unlink
  <2>8. CASE OSErrorRaised(w)
    BY <2>8 DEF OSErrorRaised
  <2>9. CASE UnlinkRaises(w)
    BY <2>9 DEF UnlinkRaises
  <2> QED
    BY <2>1, <2>2, <2>3, <2>4, <2>5, <2>6, <2>7, <2>8, <2>9 DEF WriterStep
<1> QED
  BY <1>2, <1>3 DEF OkMeansStored

(* A call's step keeps UnlinkAfterReplace: only Replace enters the finally *)
(* clause without an exception.                                            *)
LEMMA UnlinkAfterReplaceStep ==
    ASSUME TypeOK, TempOwned, UnlinkAfterReplace, NEW w \in Writers, WriterStep(w)
    PROVE  UnlinkAfterReplace'
<1>1. \A k \in Keys : record[k] # "absent" => record'[k] # "absent"
  BY RecordStep DEF TypeOK
<1>2. \A v \in Writers \ {w} : pc'[v] = "unlink" => raising'[v] \/ record'[key'[v]] # "absent"
  BY <1>1, OthersUntouched DEF UnlinkAfterReplace, TypeOK
<1>3. pc'[w] = "unlink" => raising'[w] \/ record'[key'[w]] # "absent"
  <2> USE <1>1 DEF TypeOK, EndCall, Raise, Goto
  <2>1. CASE Replace(w)
    BY <2>1 DEF Replace, TempOwned
  <2>2. CASE CheckExists(w)
    BY <2>2 DEF CheckExists
  <2>3. CASE OpenTemp(w)
    BY <2>3 DEF OpenTemp
  <2>4. CASE OSErrorRaised(w)
    BY <2>4 DEF OSErrorRaised
  <2>5. CASE \/ \E k \in Keys : Begin(w, k)
             \/ WriteTemp(w) \/ FsyncTemp(w) \/ Unlink(w) \/ UnlinkRaises(w)
    BY <2>5 DEF Begin, WriteTemp, FsyncTemp, Unlink, UnlinkRaises
  <2> QED
    BY <2>1, <2>2, <2>3, <2>4, <2>5 DEF WriterStep
<1> QED
  BY <1>2, <1>3 DEF UnlinkAfterReplace

(* A call's step leaves no temporary file without an owner. *)
LEMMA NoOrphanTempStep ==
    ASSUME TypeOK, NoOrphanTemp, NEW w \in Writers, WriterStep(w)
    PROVE  NoOrphanTemp'
<1> SUFFICES ASSUME NEW f \in Keys \X Writers, tmp'[f] # "absent"
             PROVE  (f \in leftover \/ f \in Filling)'
  BY DEF NoOrphanTemp
<1> DEFINE Busy(v) == pc[v] \in {"write", "fsync", "replace", "unlink"}
<1>1. \A v \in Writers : Busy(v)' => Temp(v)' \in Filling'
  BY DEF Filling
<1>2. /\ UNCHANGED tmp \/ \E s \in FileStates : SetTemp(w, s)
      /\ \A g \in leftover : g # Temp(w) => g \in leftover'
  BY DEF WriterStep, TypeOK, Begin, CheckExists, OpenTemp, WriteTemp, FsyncTemp, Replace,
         Unlink, OSErrorRaised, UnlinkRaises, FileStates
<1>3. CASE f # Temp(w)
  <2>1. tmp[f] # "absent"
    BY <1>2, <1>3, TempType DEF SetTemp, TypeOK
  <2>2. CASE f \in leftover
    BY <2>2, <1>2, <1>3
  <2>3. CASE f \in Filling
    <3>1. PICK v \in Writers : Busy(v) /\ f = Temp(v)
      BY <2>3 DEF Filling
    <3>2. v # w
      BY <3>1, <1>3
    <3> QED
      BY <3>1, <3>2, <1>1, OthersUntouched
  <2> QED
    BY <2>1, <2>2, <2>3 DEF NoOrphanTemp
<1>4. CASE f = Temp(w)
  <2>1. ~Busy(w) /\ tmp[f] # "absent" => f \in leftover
    BY <1>4, TempType DEF NoOrphanTemp, Filling
  <2>2. Busy(w)' /\ key'[w] = key[w] => f \in Filling'
    BY <1>1, <1>4 DEF Temp
  <2> HIDE DEF Busy
  <2> USE <1>4, <2>1, <2>2, TempType DEF TypeOK, EndCall, Raise, Goto, SetTemp
  <2>3. CASE \E k \in Keys : Begin(w, k)
    BY <2>3 DEF Begin, Busy
  <2>4. CASE CheckExists(w)
    BY <2>4 DEF CheckExists, Busy
  <2>5. CASE OpenTemp(w)
    BY <2>5 DEF OpenTemp, Busy
  <2>6. CASE WriteTemp(w)
    BY <2>6 DEF WriteTemp, Busy
  <2>7. CASE FsyncTemp(w)
    BY <2>7 DEF FsyncTemp, Busy
  <2>8. CASE Replace(w)
    BY <2>8 DEF Replace, Busy
  <2>9. CASE Unlink(w)
    BY <2>9 DEF Unlink
  <2>10. CASE OSErrorRaised(w)
    BY <2>10 DEF OSErrorRaised, Busy, InTry
  <2>11. CASE UnlinkRaises(w)
    BY <2>11 DEF UnlinkRaises
  <2> QED
    BY <2>3, <2>4, <2>5, <2>6, <2>7, <2>8, <2>9, <2>10, <2>11 DEF WriterStep
<1> QED
  BY <1>3, <1>4

(* A process death keeps the invariant: its writers stop, the files stay. *)
LEMMA CrashInv ==
    ASSUME IInv, NEW p \in Procs, Crash(p)
    PROVE  IInv'
<1> USE DEF IInv
<1>1. TypeOK'
  BY CrashAbandons, CrashType
<1>2. /\ record' = record /\ tmp' = tmp /\ key' = key
      /\ \A w \in Writers : Temp(w)' = Temp(w)
  BY DEF Crash, StopWriters, Temp
<1>3. \A w \in Writers : \/ pc'[w] = "idle" /\ result'[w] = "none" /\ w[1] = p
                         \/ /\ pc'[w] = pc[w] /\ result'[w] = result[w]
                            /\ raising'[w] = raising[w]
  BY DEF Crash, StopWriters
<1>4. TornFree' /\ TempOwned' /\ UnlinkAfterReplace' /\ OkMeansStored'
  BY <1>2, <1>3 DEF TornFree, TempOwned, UnlinkAfterReplace, OkMeansStored
<1>5. NoOrphanTemp'
  <2> SUFFICES ASSUME NEW f \in Keys \X Writers, tmp'[f] # "absent"
               PROVE  (f \in leftover \/ f \in Filling)'
    BY DEF NoOrphanTemp
  <2>1. CASE f \in leftover \/ f[2][1] = p
    BY <2>1, <1>2 DEF Crash, OwnedBy
  <2>2. CASE f \notin leftover /\ f[2][1] # p
    <3>1. PICK w \in Writers : /\ pc[w] \in {"write", "fsync", "replace", "unlink"}
                               /\ f = Temp(w)
      BY <2>2, <1>2 DEF NoOrphanTemp, Filling
    <3>2. f[2][1] = w[1]
      BY <3>1 DEF Temp, TempName
    <3>3. pc'[w] = pc[w]
      BY <1>3, <2>2, <3>2
    <3> QED
      BY <3>1, <3>3, <1>2 DEF Filling
  <2> QED
    BY <2>1, <2>2
<1> QED
  BY <1>1, <1>4, <1>5

(* A power failure keeps the invariant: every writer stops, and a record   *)
(* that comes back was synced, so it is not torn.                          *)
LEMMA PowerFailInv ==
    ASSUME IInv, PowerFail
    PROVE  IInv'
<1> USE DEF IInv
<1>1. TypeOK'
  BY PowerFailAbandons, PowerFailType
<1>2. \A w \in Writers : pc'[w] = "idle" /\ result'[w] = "none"
  BY WritersAssumption DEF PowerFail, StopWriters
<1>3. TornFree'
  BY DEF PowerFail, TornFree
<1>4. TempOwned' /\ UnlinkAfterReplace' /\ OkMeansStored'
  BY <1>2 DEF TempOwned, UnlinkAfterReplace, OkMeansStored
<1>5. NoOrphanTemp'
  BY DEF PowerFail, NoOrphanTemp
<1> QED
  BY <1>1, <1>3, <1>4, <1>5

(* Every step keeps the invariant. *)
LEMMA InvStep ==
    ASSUME IInv, [Next]_vars
    PROVE  IInv'
<1>1. ASSUME NEW w \in Writers, WriterStep(w) PROVE IInv'
  <2>1. TornFree'
    BY <1>1, RecordStep DEF IInv, TornFree, TypeOK
  <2> QED
    BY <1>1, <2>1, WriterAbandons, WriterStepType, TempOwnedStep, UnlinkAfterReplaceStep,
       OkMeansStoredStep, NoOrphanTempStep DEF IInv
<1>2. CASE \E p \in Procs : Crash(p)
  BY <1>2, CrashInv
<1>3. CASE PowerFail
  BY <1>3, PowerFailInv
<1>4. CASE UNCHANGED vars
  BY <1>4 DEF vars, IInv, TypeOK, Abandoned, TornFree, TempOwned, UnlinkAfterReplace,
              OkMeansStored, NoOrphanTemp, Filling, Temp
<1> QED
  BY <1>1, <1>2, <1>3, <1>4 DEF Next, WriterStep

(* The empty directory and idle writers satisfy the invariant. *)
LEMMA InvInit == Init => IInv
BY BoundsAssumption DEF Init, IInv, TypeOK, TornFree, TempOwned, UnlinkAfterReplace,
   OkMeansStored, NoOrphanTemp, Stages, FileStates

(* The inductive invariant holds in every reachable state. *)
LEMMA Invariance == Spec => []IInv
<1>1. IInv /\ [Next]_vars => IInv'
  BY InvStep
<1> QED
  BY InvInit, <1>1, PTL DEF Spec

(* Every variable of the record protocol keeps its type. *)
THEOREM TypeCorrect == Spec => []TypeOK
<1>1. IInv => TypeOK
  BY DEF IInv
<1> QED
  BY Invariance, <1>1, PTL

(* Whatever the number of servers, threads, failing calls, crashes and     *)
(* power failures, a record path never names a torn or unsynced file.      *)
THEOREM RecordsNeverTorn == Spec => []TornFree
<1>1. IInv => TornFree
  BY DEF IInv
<1> QED
  BY Invariance, <1>1, PTL

(* A writer's temporary file is never created, filled or removed by        *)
(* another writer.                                                         *)
THEOREM TempsNeverShared == Spec => []TempOwned
<1>1. IInv => TempOwned
  BY DEF IInv
<1> QED
  BY Invariance, <1>1, PTL

(* A store_record_atomic call that returns normally has stored the record. *)
THEOREM OkIsStored == Spec => []OkMeansStored
<1>1. IInv => OkMeansStored
  BY DEF IInv
<1> QED
  BY Invariance, <1>1, PTL

(* Only crashes, power failures and a failing unlink leave temporary files. *)
THEOREM TempsAccountedFor == Spec => []NoOrphanTemp
<1>1. IInv => NoOrphanTemp
  BY DEF IInv
<1> QED
  BY Invariance, <1>1, PTL

(* An untorn record is either absent or whole for the record set. *)
LEMMA ViewOfUntorn ==
    ASSUME TornFree, NEW k \in Keys
    PROVE  /\ record[k] = "absent" <=> View(k) = "absent"
           /\ record[k] = "synced" <=> View(k) = "whole"
           /\ View(k) \in {"absent", "whole"}
BY DEF TornFree, View

(* Every step of the protocol is a step of the record set or a stutter: a  *)
(* rename publishes, a power failure is a power loss, nothing else shows.  *)
LEMMA StepRefines ==
    ASSUME IInv, IInv', [Next]_vars
    PROVE  [Records!RecordSetNext]_Records!recordSetVars
<1> DEFINE view == [k \in Keys |-> View(k)]
<1> USE DEF IInv
<1>1. ASSUME NEW w \in Writers, WriterStep(w)
      PROVE  [Records!RecordSetNext]_Records!recordSetVars
  <2>1. CASE record' = record
    <3>1. view' = view
      BY <2>1 DEF View
    <3>2. durable' = durable /\ boots' = boots
      BY <1>1, RecordStep
    <3> QED
      BY <3>1, <3>2 DEF Records!recordSetVars
  <2>2. CASE record' = [record EXCEPT ![key[w]] = "synced"]
    <3>1. key[w] \in Keys
      BY DEF TypeOK
    <3>2. view' = [view EXCEPT ![key[w]] = "whole"]
      BY <2>2, <3>1 DEF View, TypeOK
    <3>3. durable' = durable /\ boots' = boots
      BY <1>1, RecordStep
    <3> QED
      BY <3>1, <3>2, <3>3 DEF Records!RecordSetNext, Records!Publish
  <2> QED
    BY <1>1, <2>1, <2>2, RecordStep
<1>2. ASSUME NEW p \in Procs, Crash(p)
      PROVE  [Records!RecordSetNext]_Records!recordSetVars
  <2>1. view' = view /\ durable' = durable /\ boots' = boots
    BY <1>2 DEF Crash, View
  <2> QED
    BY <2>1 DEF Records!recordSetVars
<1>3. CASE PowerFail
  <2>1. PICK kept \in SUBSET {k \in Keys : record[k] # "absent"} :
          /\ durable \subseteq kept
          /\ durable' = kept
          /\ \E torn \in SUBSET {k \in kept : record[k] # "synced"} :
               record' = [k \in Keys |-> CASE k \notin kept -> "absent"
                                           [] k \in torn    -> "torn"
                                           [] OTHER         -> "synced"]
    BY <1>3 DEF PowerFail
  <2>2. record' = [k \in Keys |-> IF k \in kept THEN "synced" ELSE "absent"]
    BY <2>1 DEF TornFree
  <2>3. view' = [k \in Keys |-> IF k \in kept THEN "whole" ELSE "absent"]
    BY <2>2 DEF View
  <2>4. kept \in SUBSET {k \in Keys : view[k] = "whole"}
    BY <2>1 DEF TornFree, View
  <2>5. boots' = boots + 1
    BY <1>3 DEF PowerFail
  <2> QED
    BY <2>1, <2>3, <2>4, <2>5 DEF Records!RecordSetNext, Records!PowerLoss
<1>4. CASE UNCHANGED vars
  <2>1. view' = view /\ durable' = durable /\ boots' = boots
    BY <1>4 DEF vars, View
  <2> QED
    BY <2>1 DEF Records!recordSetVars
<1> QED
  BY <1>1, <1>2, <1>3, <1>4 DEF Next, WriterStep

(* The protocol starts as the empty record set. *)
LEMMA InitRefines == Init => Records!RecordSetInit
BY DEF Init, Records!RecordSetInit, View

(* store_record_atomic implements RecordSet: for every reader of the       *)
(* directory records appear whole, in one step, and only power loss takes  *)
(* one away.  SecondaryTier is built on RecordSet because of this theorem. *)
THEOREM RecordFileImplementsRecordSet == Spec => ImplementsRecordSet
<1>1. IInv /\ IInv' /\ [Next]_vars => [Records!RecordSetNext]_Records!recordSetVars
  BY StepRefines
<1> QED
  BY Invariance, InitRefines, <1>1, PTL DEF Spec, ImplementsRecordSet, Records!RecordSetSpec
=============================================================================
