--------------------------- MODULE PromiseTracker ---------------------------
(***************************************************************************)
(* PromiseTracker (shared/promise_utils.h): promises handed to JavaScript  *)
(* under increasing ids, each settled at most once through its id.         *)
(*                                                                         *)
(* No class of the addon uses it; they keep the same map by hand           *)
(* (pending_flushes_, pending_decodes_).  The module is therefore also the *)
(* abstract specification of those maps: Codec and ImageDecoder instantiate*)
(* it, with their own first id, and are shown to implement it.             *)
(***************************************************************************)
EXTENDS Integers

CONSTANTS
  FirstId,       \* the first id given out (1 in the class itself)
  MaxPromises    \* bound on the promises ever created

VARIABLES
  nextId,   \* nextId_
  pending,  \* the keys of pending_
  outcome   \* what JavaScript sees of each promise: "unset" until settled

promiseVars == <<nextId, pending, outcome>>

Ids == FirstId .. FirstId + MaxPromises - 1

TrackerInit ==
  /\ nextId = FirstId
  /\ pending = {}
  /\ outcome = [id \in Ids |-> "unset"]

CreatePromise ==
  /\ nextId \in Ids
  /\ nextId' = nextId + 1
  /\ pending' = pending \cup {nextId}
  /\ UNCHANGED outcome

(* Resolve and Reject find the promise pending, settle and erase it; an id *)
(* that is not pending changes nothing.                                    *)
Settle(id, how) ==
  /\ id \in pending
  /\ outcome' = [outcome EXCEPT ![id] = how]
  /\ pending' = pending \ {id}
  /\ UNCHANGED nextId

Resolve(id) == Settle(id, "resolved")
Reject(id)  == Settle(id, "rejected")

RejectAll ==
  /\ outcome' = [id \in Ids |-> IF id \in pending THEN "rejected" ELSE outcome[id]]
  /\ pending' = {}
  /\ UNCHANGED nextId

(* The destructor: pending promises are left unsettled for ever.           *)
Destroy ==
  /\ pending' = {}
  /\ UNCHANGED <<nextId, outcome>>

TrackerNext ==
  \/ CreatePromise
  \/ \E id \in pending : Resolve(id) \/ Reject(id)
  \/ RejectAll
  \/ Destroy

TrackerSpec == TrackerInit /\ [][TrackerNext]_promiseVars
=============================================================================
