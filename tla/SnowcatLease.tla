---------------------------- MODULE SnowcatLease ----------------------------
(***************************************************************************)
(* The part of the Snowcat server that a worker's lease relay depends on:  *)
(* work items, the one lease an item may carry, and the five lifecycle     *)
(* tools.  Snowcat is not part of this repository; this module models it   *)
(* from how internal/leaseproxy uses it and what its documents rely on.    *)
(*                                                                         *)
(* Time is counted in units, of which the relay's renewal interval has     *)
(* several.  A lease keeps the number of units it has left, so no clock    *)
(* value grows without bound.                                              *)
(***************************************************************************)
EXTENDS Naturals

CONSTANTS
  Items,       \* work items of the queue
  NoItem,      \* stands for "no item"
  LeaseTicks,  \* leaseSeconds (120 s) in units of time
  MaxClaims    \* bound: how many leases Snowcat mints for this worker

ASSUME SnowcatAssumption ==
  /\ NoItem \notin Items
  /\ LeaseTicks \in Nat \ {0}
  /\ MaxClaims \in Nat \ {0}

VARIABLES
  grant,   \* grant[i]: who has item i now, under which token, for how long
  ledger   \* ledger[t]: the item token t was minted for and what became of it

snowcatVars == <<grant, ledger>>

Tokens  == 1 .. MaxClaims
NoToken == 0
MaybeToken == Tokens \cup {NoToken}
MaybeItem  == Items \cup {NoItem}

Finishing == {"complete_work", "block_work", "release_work"}
Lifecycle == {"claim_work", "heartbeat_work"} \cup Finishing

\* The fate a finishing tool gives the lease, which is also the status the
\* relay's marker takes from it.
FateOf(tool) ==
  CASE tool = "complete_work" -> "completed"
    [] tool = "block_work"    -> "blocked"
    [] tool = "release_work"  -> "released"

Grants == [state : {"free", "leased", "other", "closed"},
           token : MaybeToken, left : 0 .. LeaseTicks]
Fates  == {"unminted", "live", "completed", "blocked", "released",
           "lapsed", "revoked"}
Reply  == [ok : BOOLEAN, item : MaybeItem, token : MaybeToken,
           left : 0 .. LeaseTicks]

Unheld(state) == [state |-> state, token |-> NoToken, left |-> 0]
Refusal == [ok |-> FALSE, item |-> NoItem, token |-> NoToken, left |-> 0]

SnowcatInit ==
  /\ grant  = [i \in Items |-> Unheld("free")]
  /\ ledger = [t \in Tokens |-> [item |-> NoItem, fate |-> "unminted"]]

SnowcatTypeOK ==
  /\ grant \in [Items -> Grants]
  /\ ledger \in [Tokens -> [item : MaybeItem, fate : Fates]]

-----------------------------------------------------------------------------
\* Requests of this worker.  A request is [tool, id, token].

Carries(i, token) ==
  i \in Items /\ grant[i].state = "leased" /\ grant[i].token = token

Fresh(t) ==
  /\ ledger[t].fate = "unminted"
  /\ \A u \in Tokens : u < t => ledger[u].fate # "unminted"

\* claim_work leases some free item under a token never used before.
GrantClaim(request, reply) ==
  \E i \in Items, t \in Tokens :
    /\ request.tool = "claim_work"
    /\ grant[i].state = "free"
    /\ Fresh(t)
    /\ grant' = [grant EXCEPT ![i] =
                   [state |-> "leased", token |-> t, left |-> LeaseTicks]]
    /\ ledger' = [ledger EXCEPT ![t] = [item |-> i, fate |-> "live"]]
    /\ reply = [ok |-> TRUE, item |-> i, token |-> t, left |-> LeaseTicks]

\* heartbeat_work under the item's current token extends the lease.
ExtendLease(request, reply) ==
  /\ request.tool = "heartbeat_work"
  /\ Carries(request.id, request.token)
  /\ grant' = [grant EXCEPT ![request.id].left = LeaseTicks]
  /\ reply = [ok |-> TRUE, item |-> request.id, token |-> request.token,
              left |-> LeaseTicks]
  /\ UNCHANGED ledger

\* complete_work, block_work and release_work end the lease; only a released
\* item can be claimed again.
FinishLease(request, reply) ==
  /\ request.tool \in Finishing
  /\ Carries(request.id, request.token)
  /\ grant' = [grant EXCEPT ![request.id] =
                 Unheld(IF request.tool = "release_work" THEN "free" ELSE "closed")]
  /\ ledger' = [ledger EXCEPT ![request.token].fate = FateOf(request.tool)]
  /\ reply = [ok |-> TRUE, item |-> request.id, token |-> NoToken, left |-> 0]

\* Snowcat refuses a claim when it has nothing to offer, a call whose token is
\* not the item's, and a completion its policy does not accept.
RefuseCall(request, reply) ==
  /\ \/ request.tool \in {"claim_work"} \cup Finishing
     \/ request.tool = "heartbeat_work" /\ ~Carries(request.id, request.token)
  /\ reply = Refusal
  /\ UNCHANGED snowcatVars

Serve(request, reply) ==
  \/ GrantClaim(request, reply)
  \/ ExtendLease(request, reply)
  \/ FinishLease(request, reply)
  \/ RefuseCall(request, reply)

-----------------------------------------------------------------------------
\* What else happens at Snowcat.

\* A unit of time: a lease with nothing left lapses and its item is claimable again.
LeasesAge ==
  LET Lapsing == {i \in Items : grant[i].state = "leased" /\ grant[i].left <= 1}
  IN  /\ grant' = [i \in Items |->
                     IF i \in Lapsing THEN Unheld("free")
                     ELSE IF grant[i].state = "leased"
                          THEN [grant[i] EXCEPT !.left = @ - 1]
                          ELSE grant[i]]
      /\ ledger' = [t \in Tokens |->
                      IF \E i \in Lapsing : grant[i].token = t
                      THEN [ledger[t] EXCEPT !.fate = "lapsed"]
                      ELSE ledger[t]]

\* An operator withdraws the item from under the worker.
Revoke(i) ==
  /\ grant[i].state = "leased"
  /\ grant' = [grant EXCEPT ![i] = Unheld("closed")]
  /\ ledger' = [ledger EXCEPT ![grant[i].token].fate = "revoked"]

\* Another worker takes a free item, and gives it back.
TakenByOther(i) ==
  /\ grant[i].state = "free"
  /\ grant' = [grant EXCEPT ![i] = Unheld("other")]
  /\ UNCHANGED ledger

ReturnedByOther(i) ==
  /\ grant[i].state = "other"
  /\ grant' = [grant EXCEPT ![i] = Unheld("free")]
  /\ UNCHANGED ledger

SnowcatElsewhere ==
  \E i \in Items : Revoke(i) \/ TakenByOther(i) \/ ReturnedByOther(i)
=============================================================================
