------------------------------ MODULE RecordSet ------------------------------
(***************************************************************************)
(* What the KVSSD record directory promises the vLLM tier: a record is     *)
(* either absent or whole, it appears in one step, and nothing but a power *)
(* loss takes it away again.  A power loss may drop records whose directory *)
(* entry was not yet on the medium (store_record_atomic does not fsync the *)
(* directory), but it never damages one.                                   *)
(***************************************************************************)
EXTENDS Naturals

CONSTANT Keys                \* offload keys (content hash and cache group)

VARIABLES view,              \* view[k]: what an open() of k's record path finds
          durable,           \* keys whose directory entry survives a power loss
          boots              \* power losses so far

recordSetVars == <<view, durable, boots>>

RecordSetTypeOK ==
    /\ view \in [Keys -> {"absent", "whole"}]
    /\ durable \subseteq {k \in Keys : view[k] = "whole"}
    /\ boots \in Nat

RecordSetInit ==
    /\ view = [k \in Keys |-> "absent"]
    /\ durable = {}
    /\ boots = 0

(* The record of k appears, complete; publishing it again changes nothing. *)
Publish(k) ==
    /\ view' = [view EXCEPT ![k] = "whole"]
    /\ UNCHANGED <<durable, boots>>

(* A power loss keeps every durable record and any part of the others. *)
PowerLoss ==
    /\ boots' = boots + 1
    /\ \E kept \in SUBSET {k \in Keys : view[k] = "whole"} :
        /\ durable \subseteq kept
        /\ view' = [k \in Keys |-> IF k \in kept THEN "whole" ELSE "absent"]
        /\ durable' = kept

RecordSetNext == (\E k \in Keys : Publish(k)) \/ PowerLoss

RecordSetSpec == RecordSetInit /\ [][RecordSetNext]_recordSetVars
=============================================================================
