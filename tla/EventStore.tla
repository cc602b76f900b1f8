---------------------------- MODULE EventStore ----------------------------
(***************************************************************************)
(* What POST /v1/events promises its uploaders, abstracted from handlers,  *)
(* transactions and lost answers (internal/modules/observability/store.go, *)
(* events.go): a valid batch goes into the store whole, in one step and    *)
(* any number of times; an uploader that is told so is told once and for   *)
(* good; a batch that is not valid is dropped and leaves nothing.          *)
(***************************************************************************)
CONSTANTS
    Batches,
    Payload,   \* [Batches -> the events of each]
    Valid      \* the batches that may be stored

VARIABLES
    stored,    \* the events in the store
    outcome    \* what the uploader of each batch was told

Init ==
    /\ stored = {}
    /\ outcome = [b \in Batches |-> "open"]

\* The batch is stored and its uploader is told, or never hears of it.
Store(b, told) ==
    /\ b \in Valid
    /\ stored' = stored \union Payload[b]
    /\ told => outcome[b] = "open"
    /\ outcome' = IF told THEN [outcome EXCEPT ![b] = "acked"] ELSE outcome

Drop(b) ==
    /\ b \notin Valid /\ outcome[b] = "open"
    /\ outcome' = [outcome EXCEPT ![b] = "dropped"]
    /\ UNCHANGED stored

Next == \E b \in Batches : Drop(b) \/ \E told \in BOOLEAN : Store(b, told)

Spec == Init /\ [][Next]_<<stored, outcome>>
=============================================================================
