--------------------------- MODULE LeaseContract ----------------------------
(***************************************************************************)
(* What a managed worker's lease relay promises, seen from Snowcat and the *)
(* relay together (ADR-0010, managed-workers.md "at most one item"): the   *)
(* worker is never owed more than one item, binds an item only when it has *)
(* no unfinished one, reports an item finished only when Snowcat no longer *)
(* leases anything to it, and never comes back from a lost lease.          *)
(***************************************************************************)
CONSTANTS Items, NoItem

VARIABLES
  owned,    \* items Snowcat leases to this worker
  session,  \* "none", "held", "finished" or "lost", as the relay sees it
  item      \* the item the session is or was about

contractVars == <<owned, session, item>>

MayBind == session \in {"none", "finished"}

ContractInit == owned = {} /\ session = "none" /\ item = NoItem

Grant == /\ owned = {} /\ MayBind
         /\ \E i \in Items : owned' = {i}
         /\ UNCHANGED <<session, item>>

\* The lease ends at Snowcat: finished, lapsed or withdrawn.
Settle == owned # {} /\ owned' = {} /\ UNCHANGED <<session, item>>

Bind == /\ MayBind
        /\ session' = "held" /\ item' \in Items
        /\ owned \subseteq {item'} /\ UNCHANGED owned

Finish == /\ session = "held" /\ owned = {}
          /\ session' = "finished" /\ UNCHANGED <<owned, item>>

Lose == session = "held" /\ session' = "lost" /\ UNCHANGED <<owned, item>>

ContractNext == Grant \/ Settle \/ Bind \/ Finish \/ Lose

ContractSpec == ContractInit /\ [][ContractNext]_contractVars
=============================================================================
