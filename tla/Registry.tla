-------------------------------- MODULE Registry --------------------------------
(***************************************************************************)
(* The rule by which storage/registry.py and backends/registry.py turn a   *)
(* requested name into a backend.  A name is taken as strip().lower()      *)
(* leaves it.  "available" is the set of names whose probe() succeeds now. *)
(***************************************************************************)
EXTENDS Naturals, Sequences

CONSTANT NoBackend           \* ValueError or RuntimeError

(* With a name that is not available taken for auto. *)
ResolveFallback(requested, order, registered, available) ==
    LET usable == {n \in 1..Len(order) : order[n] \in registered \cap available}
    IN  CASE requested # "auto" /\ requested \in registered \cap available -> requested
          [] usable # {} -> order[CHOOSE n \in usable : \A m \in usable : n <= m]
          [] OTHER -> NoBackend

(* auto: the first candidate in the fixed order that is registered and     *)
(* available.  A name: that backend, if it is registered and available.    *)
Resolve(requested, order, registered, available) ==
    LET usable == {n \in 1..Len(order) : order[n] \in registered \cap available}
    IN  CASE requested # "auto" /\ requested \in registered \cap available -> requested
          [] requested = "auto" /\ usable # {} ->
                 order[CHOOSE n \in usable : \A m \in usable : n <= m]
          [] OTHER -> NoBackend

StorageOrder == <<"gds", "direct", "buffered">>
StorageBackends == {"gds", "direct", "buffered"}

(* resolve_attention_backend: on a CPU auto is the reference backend. *)
AttentionOrder(device) ==
    IF device = "cuda" THEN <<"cuda", "triton", "reference">> ELSE <<"reference">>
AttentionBackends == {"cuda", "triton", "reference"}

ASSUME RegistryAssumption == NoBackend \notin StorageBackends \cup AttentionBackends
===============================================================================
