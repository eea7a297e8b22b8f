------------------------------- MODULE Inbox -------------------------------
(***************************************************************************)
(* What the ingestion of Meta messages promises, without saying how: each  *)
(* id Meta reports becomes one stored message at most, and the automations *)
(* hear of it once at most, after it is stored.  MetaIngest implements it. *)
(***************************************************************************)
EXTENDS Naturals

CONSTANT Ids

VARIABLES stored,     \* [Ids -> documents stored for the id]
          heard       \* [Ids -> events emitted for the id]

Init == stored = [id \in Ids |-> 0] /\ heard = [id \in Ids |-> 0]

Store(id) ==
    /\ stored[id] = 0
    /\ stored' = [stored EXCEPT ![id] = 1]
    /\ UNCHANGED heard

Hear(id) ==
    /\ stored[id] = 1 /\ heard[id] = 0
    /\ heard' = [heard EXCEPT ![id] = 1]
    /\ UNCHANGED stored

Next == \E id \in Ids : Store(id) \/ Hear(id)

Spec == Init /\ [][Next]_<<stored, heard>>
=============================================================================
