------------------------------- MODULE Relay --------------------------------
(***************************************************************************)
(* The worker-local lease relay, internal/leaseproxy/relay.go: an MCP      *)
(* stdio process between one provider and Snowcat.  Two goroutines share   *)
(* its state: the scanner loop of Run, which hands the provider's calls to *)
(* Handle one at a time, and the renewal ticker.  A lifecycle call and a   *)
(* renewal each hold lifecycleMutex from before their request is built     *)
(* until its response has been observed; every other call runs without it. *)
(***************************************************************************)
EXTENDS SnowcatLease, Integers

CONSTANTS
  Interval,         \* renewalInterval (30 s) in units of time
  MarkerWritesFail  \* may writeMarkerLocked fail (best effort in the code)?

ASSUME RelayAssumption ==
  /\ Interval \in Nat \ {0}
  /\ MarkerWritesFail \in BOOLEAN

VARIABLES
  active,     \* relay.active: the lease held, or NoLease
  lost,       \* relay.lost
  terminal,   \* relay.terminal
  attempted,  \* relay.completeAttempted
  acknowledged,  \* relay.completeAcknowledged
  marker,     \* .agents/cockpit-lifecycle.json
  phase,      \* life of the relay process
  call,       \* the provider call Handle is working on
  renewal,    \* the heartbeat renew is working on
  wait,       \* units since the ticker last fired, or since Run started it
  due,        \* the ticker has fired and renew has not started yet
  late        \* requests given up by the relay that may still reach Snowcat

relayVars == <<active, lost, terminal, attempted, acknowledged, marker>>
vars == <<grant, ledger, active, lost, terminal, attempted, acknowledged,
          marker, phase, call, renewal, wait, due, late>>

Request == [tool : Lifecycle \cup {"other"}, id : MaybeItem, token : MaybeToken]
NoRequest == [tool |-> "other", id |-> NoItem, token |-> NoToken]

\* Units left until an expiry the relay was told; negative once it has passed,
\* and no longer counted an interval later.
Remaining == -Interval .. LeaseTicks

\* An HTTP exchange: its request, how far it got, Snowcat's reply.
Answers == [ok : BOOLEAN, item : MaybeItem, token : MaybeToken, left : Remaining]
Exchange == [stage : {"idle", "sent", "answered", "failed"},
             request : Request, reply : Answers]
Idle == [stage |-> "idle", request |-> NoRequest, reply |-> Refusal]
Sent(request) == [stage |-> "sent", request |-> request, reply |-> Refusal]

Leases == [item : MaybeItem, token : MaybeToken, left : Remaining]
NoLease == [item |-> NoItem, token |-> NoToken, left |-> 0]

MarkerStatus == {"claimed", "lease-lost", "completed", "blocked", "released",
                 "provider-exited"}
Markers == [item : MaybeItem, status : MarkerStatus \cup {"none"},
            attempted : BOOLEAN, acknowledged : BOOLEAN]
NoMarker == [item |-> NoItem, status |-> "none",
             attempted |-> FALSE, acknowledged |-> FALSE]

Phases == {"running",  \* Run is scanning
           "eof",      \* input closed: the renewer is cancelled and awaited
           "error",    \* forward or write failed: the same, Run returns err
           "exited",   \* the process is gone
           "panicked"} \* so is it, by a panic of its own
Up == phase \notin {"exited", "panicked"}

TypeOK ==
  /\ SnowcatTypeOK
  /\ active \in Leases
  /\ lost \in BOOLEAN /\ terminal \in BOOLEAN
  /\ attempted \in BOOLEAN /\ acknowledged \in BOOLEAN
  /\ marker \in Markers
  /\ phase \in Phases
  /\ call \in Exchange /\ renewal \in Exchange
  /\ wait \in 0 .. Interval - 1 /\ due \in BOOLEAN
  /\ late \subseteq Request

Init ==
  /\ SnowcatInit
  /\ active = NoLease
  /\ lost = FALSE /\ terminal = FALSE
  /\ attempted = FALSE /\ acknowledged = FALSE
  /\ marker = NoMarker
  /\ phase = "running"
  /\ call = Idle /\ renewal = Idle
  /\ wait = 0 /\ due = FALSE
  /\ late = {}

-----------------------------------------------------------------------------
HasLease == active.item # NoItem

\* The lease renew renews and whose loss loseLease announces.
Holding == HasLease /\ ~terminal /\ ~lost

\* lifecycleMutex, as each of its two users finds it.
MutexIgnoredByCall  == TRUE  \* Mutant: Handle does not take lifecycleMutex
MutexFreeForCall    == renewal.stage = "idle"
MutexFreeForRenewal ==
  call.stage = "idle" \/ call.request.tool \notin Lifecycle

\* writeMarkerLocked(status) with the field values of the step's end.
WriteMarker(status) ==
  \/ marker' = IF active'.item = NoItem THEN marker
               ELSE [item |-> active'.item, status |-> status,
                     attempted |-> attempted', acknowledged |-> acknowledged']
  \/ MarkerWritesFail /\ UNCHANGED marker

\* loseLease, a no-op unless a lease is held.
LoseLease ==
  /\ UNCHANGED <<active, terminal, attempted, acknowledged>>
  /\ IF Holding
     THEN lost' = TRUE /\ WriteMarker("lease-lost")
     ELSE UNCHANGED <<lost, marker>>

-----------------------------------------------------------------------------
\* The scanner loop: Handle, up to the request it forwards.  A call refused
\* with an error result changes nothing and is no step.

\* prepareClaim lets a claim through when no unfinished lease is held.
ClaimUnchecked == TRUE                             \* Mutant: no check at all
ClaimAfterLoss == ~HasLease \/ terminal \/ lost    \* Mutant: a loss unlocks it
MayClaim       == ~HasLease \/ terminal

ClaimRequest == [tool |-> "claim_work", id |-> NoItem, token |-> NoToken]

HandleClaim ==
  /\ phase = "running" /\ call.stage = "idle" /\ MutexFreeForCall
  /\ MayClaim
  /\ call' = Sent(ClaimRequest)
  /\ UNCHANGED <<grant, ledger, relayVars, phase, renewal, wait, due, late>>

\* bindLease: the held lease replaces the provider's arguments unless they
\* name another item.
Bound(tool, id, token) ==
  IF HasLease /\ id \in {NoItem, active.item}
  THEN [tool |-> tool, id |-> active.item, token |-> active.token]
  ELSE [tool |-> tool, id |-> id, token |-> token]

\* noteCompletionAttempt: a completion is noted, and marked, before it is
\* forwarded; the other tools pass unnoted.
NoteInMemoryOnly(tool) ==  \* Mutant: the marker is left for the answer
  attempted' = (attempted \/ tool = "complete_work") /\ UNCHANGED marker
NoteAsCompleted(tool) ==   \* Mutant: the marker runs ahead of Snowcat
  IF tool = "complete_work"
  THEN attempted' = TRUE /\ WriteMarker("completed")
  ELSE UNCHANGED <<attempted, marker>>
NoteAttempt(tool) ==
  IF tool = "complete_work"
  THEN attempted' = TRUE /\ WriteMarker("claimed")
  ELSE UNCHANGED <<attempted, marker>>

\* heartbeat_work, complete_work, block_work, release_work.  A token other
\* than one Snowcat minted for that item is refused whatever it is: NoToken.
HandleLifecycle(tool, id, token) ==
  /\ phase = "running" /\ call.stage = "idle" /\ MutexFreeForCall
  /\ token # NoToken => id # NoItem /\ ledger[token].item = id
  /\ ~lost
  /\ call' = Sent(Bound(tool, id, token))
  /\ UNCHANGED <<active, lost, terminal, acknowledged>>
  /\ NoteAttempt(tool)
  /\ UNCHANGED <<grant, ledger, phase, renewal, wait, due, late>>

\* A heartbeat_work without arguments while no lease is held: bindLease
\* returns early, so leaseSeconds is stored into a nil map and Handle panics.
HandleBareHeartbeat ==
  /\ phase = "running" /\ call.stage = "idle" /\ MutexFreeForCall
  /\ ~HasLease
  /\ phase' = "panicked" /\ due' = FALSE
  /\ UNCHANGED <<grant, ledger, relayVars, call, renewal, wait, late>>

\* Any other tool call, checked against lost and forwarded without the mutex;
\* "initialize" and "tools/list" are forwarded whatever the lease is.
HandleOther(isTool) ==
  /\ phase = "running" /\ call.stage = "idle"
  /\ isTool => ~lost
  /\ call' = Sent(NoRequest)
  /\ UNCHANGED <<grant, ledger, relayVars, phase, renewal, wait, due, late>>

-----------------------------------------------------------------------------
\* The scanner loop: observe, and the response written to the provider.

ObserveClaim(reply) ==
  /\ active' = [item |-> reply.item, token |-> reply.token, left |-> reply.left]
  /\ lost' = FALSE /\ terminal' = FALSE
  /\ UNCHANGED <<attempted, acknowledged>>
  /\ WriteMarker("claimed")

ObserveHeartbeat(reply) ==
  /\ active' = IF HasLease /\ active.item = reply.item
               THEN [active EXCEPT !.left = reply.left] ELSE active
  /\ UNCHANGED <<lost, terminal, attempted, acknowledged, marker>>

ReleaseKeepsLease(tool) ==  \* Mutant: a release does not end the session
  /\ terminal' = (terminal \/ tool # "release_work")
  /\ acknowledged' = (acknowledged \/ tool = "complete_work")
  /\ UNCHANGED <<active, lost, attempted>>
  /\ WriteMarker(FateOf(tool))
ObserveFinish(tool) ==
  /\ terminal' = TRUE
  /\ acknowledged' = (acknowledged \/ tool = "complete_work")
  /\ UNCHANGED <<active, lost, attempted>>
  /\ WriteMarker(FateOf(tool))

\* A refused heartbeat loses the lease only if it was for the held item.
AnyRefusalLoses(request) ==  \* Mutant: the item is not compared
  IF request.tool = "heartbeat_work" THEN LoseLease ELSE UNCHANGED relayVars
ObserveRefusal(request) ==
  IF request.tool = "heartbeat_work" /\ HasLease /\ request.id = active.item
  THEN LoseLease
  ELSE UNCHANGED relayVars

Observe(request, reply) ==
  \/ ~reply.ok /\ ObserveRefusal(request)
  \/ reply.ok /\ request.tool = "claim_work"     /\ ObserveClaim(reply)
  \/ reply.ok /\ request.tool = "heartbeat_work" /\ ObserveHeartbeat(reply)
  \/ reply.ok /\ request.tool \in Finishing      /\ ObserveFinish(request.tool)

\* Handle returns; a response the provider no longer reads ends Run.
FinishCall ==
  /\ phase = "running" /\ call.stage = "answered"
  /\ Observe(call.request, call.reply)
  /\ phase' \in {"running", "error"}
  /\ call' = Idle
  /\ UNCHANGED <<grant, ledger, renewal, wait, due, late>>

\* forward returned an error: Run cancels the renewer and returns it.
FailCall ==
  /\ phase = "running" /\ call.stage = "failed"
  /\ phase' = "error"
  /\ call' = Idle
  /\ UNCHANGED <<grant, ledger, relayVars, renewal, wait, due, late>>

-----------------------------------------------------------------------------
\* The renewal goroutine.

\* The ticker fired with nothing to renew.
SkipRenewal ==
  /\ Up /\ due /\ renewal.stage = "idle" /\ MutexFreeForRenewal
  /\ ~Holding
  /\ due' = FALSE
  /\ UNCHANGED <<grant, ledger, relayVars, phase, call, renewal, wait, late>>

\* renew copies the lease and forwards its heartbeat; once Run has cancelled
\* the context the forward fails at once.
BeginRenewal ==
  /\ Up /\ due /\ renewal.stage = "idle" /\ MutexFreeForRenewal
  /\ Holding
  /\ due' = FALSE
  /\ renewal' = [stage |-> IF phase = "running" THEN "sent" ELSE "failed",
                 request |-> [tool |-> "heartbeat_work", id |-> active.item,
                              token |-> active.token],
                 reply |-> Refusal]
  /\ UNCHANGED <<grant, ledger, relayVars, phase, call, wait, late>>

\* No answer: the lease is lost once the expiry renew copied has passed.  The
\* copy cannot have moved: only observe and renew set it, under the mutex.
UnansweredIsIgnored == renewal.stage = "failed" /\ UNCHANGED relayVars  \* fault
RenewalUnanswered ==
  /\ renewal.stage = "failed"
  /\ IF active.left <= 0 THEN LoseLease ELSE UNCHANGED relayVars

RefusedIsIgnored ==  \* Mutant: only the local expiry can lose the lease
  /\ renewal.stage = "answered"
  /\ ~renewal.reply.ok \/ renewal.reply.item # renewal.request.id
  /\ UNCHANGED relayVars
RenewalRefused ==
  /\ renewal.stage = "answered"
  /\ ~renewal.reply.ok \/ renewal.reply.item # renewal.request.id
  /\ LoseLease

RenewalGranted ==
  /\ renewal.stage = "answered"
  /\ renewal.reply.ok /\ renewal.reply.item = renewal.request.id
  /\ active' = IF active.item = renewal.request.id
               THEN [active EXCEPT !.left = renewal.reply.left] ELSE active
  /\ UNCHANGED <<lost, terminal, attempted, acknowledged, marker>>

FinishRenewal ==
  /\ Up
  /\ RenewalUnanswered \/ RenewalRefused \/ RenewalGranted
  /\ renewal' = Idle
  /\ UNCHANGED <<grant, ledger, phase, call, wait, due, late>>

-----------------------------------------------------------------------------
\* The end of the process.

\* The provider closes stdin between two calls.
ReadEOF ==
  /\ phase = "running" /\ call.stage = "idle"
  /\ phase' = "eof"
  /\ UNCHANGED <<grant, ledger, relayVars, call, renewal, wait, due, late>>

\* Run has waited for the renewer; only a clean EOF runs markProviderExit.
ExitRun ==
  /\ phase \in {"eof", "error"} /\ renewal.stage = "idle"
  /\ phase' = "exited" /\ due' = FALSE
  /\ UNCHANGED <<active, lost, terminal, attempted, acknowledged>>
  /\ IF phase = "eof" /\ Holding
     THEN WriteMarker("provider-exited") ELSE UNCHANGED marker
  /\ UNCHANGED <<grant, ledger, call, renewal, wait, late>>

\* The requests of an exchange that may still reach Snowcat.
Pending(exchange) ==
  IF exchange.stage = "sent" /\ exchange.request.tool # "other"
  THEN {exchange.request} ELSE {}

\* The process is killed, with its pane, between any two steps.
Kill ==
  /\ Up
  /\ phase' = "exited"
  /\ call' = Idle /\ renewal' = Idle /\ due' = FALSE
  /\ late' = late \cup Pending(call) \cup Pending(renewal)
  /\ UNCHANGED <<grant, ledger, relayVars, wait>>

-----------------------------------------------------------------------------
\* The network and Snowcat.

Answered(exchange, reply) == [exchange EXCEPT !.stage = "answered", !.reply = reply]

ServeCall ==
  /\ call.stage = "sent"
  /\ \E reply \in Reply :
       /\ IF call.request.tool = "other"
          THEN reply = Refusal /\ UNCHANGED snowcatVars
          ELSE Serve(call.request, reply)
       /\ call' = Answered(call, reply)
  /\ UNCHANGED <<relayVars, phase, renewal, wait, due, late>>

ServeRenewal ==
  /\ renewal.stage = "sent"
  /\ \E reply \in Reply : /\ Serve(renewal.request, reply)
                          /\ renewal' = Answered(renewal, reply)
  /\ UNCHANGED <<relayVars, phase, call, wait, due, late>>

Failed(exchange) ==
  [stage |-> "failed", request |-> exchange.request, reply |-> Refusal]

\* The request or its response is lost, times out, or gets an HTTP error; a
\* request that timed out may be served after the relay stopped waiting.
DropCall ==
  /\ call.stage \in {"sent", "answered"}
  /\ call' = Failed(call)
  /\ \/ late' = late \cup Pending(call)
     \/ UNCHANGED late
  /\ UNCHANGED <<grant, ledger, relayVars, phase, renewal, wait, due>>

DropRenewal ==
  /\ renewal.stage \in {"sent", "answered"}
  /\ renewal' = Failed(renewal)
  /\ \/ late' = late \cup Pending(renewal)
     \/ UNCHANGED late
  /\ UNCHANGED <<grant, ledger, relayVars, phase, call, wait, due>>

\* Snowcat takes what it was sent for a notification: 202 or 204, nothing to
\* observe and nothing for the provider.  (A renewal takes it as no answer.)
NoAnswer ==
  /\ phase = "running" /\ call.stage = "sent"
  /\ call' = Idle
  /\ UNCHANGED <<grant, ledger, relayVars, phase, renewal, wait, due, late>>

ServeLate ==
  /\ \E request \in late :
       /\ late' = late \ {request}
       /\ \E reply \in Reply : Serve(request, reply)
  /\ UNCHANGED <<relayVars, phase, call, renewal, wait, due>>

Elsewhere ==
  /\ SnowcatElsewhere
  /\ UNCHANGED <<relayVars, phase, call, renewal, wait, due, late>>

\* Time left a unit later.
AgedForEver(left) == left - 1  \* Mutant: counts on below the range
Aged(left) == IF left = -Interval THEN left ELSE left - 1

Older(exchange) ==
  [exchange EXCEPT !.reply.left = IF exchange.reply.ok THEN Aged(@) ELSE @]

\* A unit of time passes, whatever is under way.  The ticker counts from the
\* start of Run, so a lease may expire at any moment between two firings; its
\* channel holds one firing and drops the next.  The expiry of a finished or
\* lost lease is never read again and is not counted on.
Tick ==
  /\ LeasesAge
  /\ IF Up
     THEN /\ active' = [active EXCEPT !.left = IF Holding THEN Aged(@) ELSE @]
          /\ call' = Older(call) /\ renewal' = Older(renewal)
          /\ wait' = IF wait + 1 = Interval THEN 0 ELSE wait + 1
          /\ due' = (due \/ wait' = 0)
     ELSE UNCHANGED <<active, call, renewal, wait, due>>
  /\ UNCHANGED <<lost, terminal, attempted, acknowledged, marker, phase, late>>

-----------------------------------------------------------------------------
HandleSome ==
  \E tool \in Lifecycle \ {"claim_work"}, id \in MaybeItem, token \in MaybeToken :
    HandleLifecycle(tool, id, token)

Next ==
  \/ HandleClaim \/ HandleSome \/ HandleBareHeartbeat
  \/ \E isTool \in BOOLEAN : HandleOther(isTool)
  \/ FinishCall \/ FailCall
  \/ SkipRenewal \/ BeginRenewal \/ FinishRenewal
  \/ ReadEOF \/ ExitRun \/ Kill
  \/ ServeCall \/ ServeRenewal \/ DropCall \/ DropRenewal \/ NoAnswer
  \/ ServeLate
  \/ Elsewhere \/ Tick

Spec == Init /\ [][Next]_vars

\* WF: an HTTP exchange ends (the client's timeout), Handle and Run return,
\* time passes.  SF for the renewer's start: the provider may take the mutex
\* again and again, but sync.Mutex hands it to a waiter starved for 1 ms.
Fairness ==
  /\ SF_vars(BeginRenewal) /\ SF_vars(SkipRenewal)
  /\ WF_vars(FinishRenewal) /\ WF_vars(ServeRenewal \/ DropRenewal)
  /\ WF_vars(ServeCall \/ DropCall \/ NoAnswer)
  /\ WF_vars(FinishCall) /\ WF_vars(FailCall)
  /\ WF_vars(ExitRun) /\ WF_vars(Tick)

FairSpec == Spec /\ Fairness

-----------------------------------------------------------------------------
\* Properties.

Ours == {i \in Items : grant[i].state = "leased"}

\* A finishing call Snowcat has served and the relay has not observed yet.
FinishUnobserved ==
  call.request.tool \in Finishing /\ call.stage \in {"answered", "failed"}

\* A running relay that believes its lease has time left is right: Snowcat
\* still leases the item under that token for at least as long, unless an
\* operator withdrew it or the answer to a finishing call is on its way.
BeliefIsBacked ==
  phase = "running" /\ Holding /\ active.left > 0 /\ ~FinishUnobserved =>
    \/ ledger[active.token].fate = "revoked"
    \/ /\ Carries(active.item, active.token)
       /\ grant[active.item].left >= active.left

\* A renewal in progress is for the lease held now: it is never overtaken by
\* the completion, loss or replacement of that lease (lifecycleMutex).
RenewalIsForHeldLease ==
  renewal.stage # "idle" =>
    /\ Holding
    /\ renewal.request.id = active.item /\ renewal.request.token = active.token

\* A lease whose last reported expiry had passed when the ticker last fired
\* (active.left + wait is what was left then) is about to be renewed or lost:
\* the renewer is woken or at work.  So no lease is held, with the renewer
\* asleep, for a whole renewal interval past its expiry.
LapseIsNoticed ==
  Up /\ Holding /\ active.left + wait <= 0 =>
    due \/ renewal.stage # "idle"

\* However calls, renewals, failures and late requests interleave, Snowcat
\* never leases two items to one worker (managed-workers.md: "claim at most
\* one item"; relay.go: "cockpit worker already owns one lease").
OneLeasePerWorker == \A i, j \in Ours : i = j

\* The marker reports an item completed, blocked or released only when
\* Snowcat has taken that outcome for that item from this worker.
MarkerNeverInvents ==
  marker.status \in {"completed", "blocked", "released"} =>
    \E t \in Tokens : ledger[t] = [item |-> marker.item, fate |-> marker.status]

\* Once Snowcat has completed the held item, even through a request whose
\* answer never came or that arrived after the relay died, the marker on disk
\* says a completion was attempted (needs a writable marker).
AttemptIsWrittenAhead ==
  HasLease /\ ledger[active.token].fate = "completed" =>
    marker.item = active.item /\ marker.attempted

\* The relay announces a lost lease only if Snowcat really ended it, or its
\* last reported expiry passed unrenewed; never because of a renewal that
\* crossed a completion, or a refused heartbeat for another item.
LossIsJustified ==
  lost => \/ ledger[active.token].fate \in {"lapsed", "revoked"}
          \/ active.left <= 0

\* A lost lease stays lost for the life of the relay: no later claim, finish
\* or renewal brings the worker back, whatever was in flight.
LossIsFinal == [][lost => lost' /\ ~terminal' /\ active'.item = active.item]_vars

\* When Snowcat has ended the lease of a relay that still holds it, the relay
\* finds out and announces it, or stops, or observes its own finishing call.
LapseIsSignalled ==
  (Up /\ Holding /\ ledger[active.token].fate # "live") ~> (~Holding \/ ~Up)

-----------------------------------------------------------------------------
\* The inductive invariant behind OneLeasePerWorker, RenewalIsForHeldLease and
\* LossIsFinal.  Parts are named for what they say.

\* No further provider call will be handled.
Closing == phase # "running" \/ call.stage = "failed"

CallsEndWithRun ==
  /\ phase # "running" => call.stage = "idle"
  /\ ~Up => renewal.stage = "idle"
  /\ call.stage = "idle" => call.request.tool = "other"

\* The two users of lifecycleMutex exclude each other.
MutexHeldOnce ==
  renewal.stage # "idle" =>
    MutexFreeForRenewal /\ renewal.request.tool = "heartbeat_work"

\* A lost lease blocks every lifecycle call, so none is in progress.
LossBlocksCalls == lost => HasLease /\ ~terminal /\ call.request.tool \notin Lifecycle

\* A claim that can still be served finds no lease, and there is one such.
ClaimsAreAlone ==
  /\ \A r \in late \cup {call.request} : r.tool = "claim_work" => r = ClaimRequest
  /\ ClaimRequest \in late => Closing /\ Ours = {}
  /\ call.stage = "sent" /\ call.request = ClaimRequest => Ours = {}
  /\ call.request = ClaimRequest => MayClaim

\* Whatever Snowcat leases to this worker the relay has, or is about to
\* observe, or will never get to observe.
LeasesAreKnown ==
  \A i \in Ours :
    \/ HasLease /\ ~terminal /\ grant[i].token = active.token
    \/ /\ call.stage = "answered" /\ call.request = ClaimRequest
       /\ call.reply.ok /\ call.reply.token = grant[i].token
    \/ Closing

\* An answer not observed yet: a claim's is about an item, a finishing call's
\* comes when nothing is leased any more.
AnswersAreCurrent ==
  call.stage = "answered" /\ call.reply.ok =>
    /\ call.request = ClaimRequest => call.reply.item # NoItem
    /\ call.request.tool \in Finishing => Ours = {}

Custody ==
  /\ CallsEndWithRun /\ MutexHeldOnce /\ RenewalIsForHeldLease
  /\ LossBlocksCalls /\ ClaimsAreAlone /\ LeasesAreKnown /\ AnswersAreCurrent
  /\ OneLeasePerWorker

-----------------------------------------------------------------------------
\* The refinement mapping: what the relay and Snowcat make of the contract.
Session ==
  IF ~HasLease THEN "none"
  ELSE IF terminal THEN "finished"
  ELSE IF lost THEN "lost" ELSE "held"

Contract == INSTANCE LeaseContract WITH
  owned <- Ours, session <- Session, item <- active.item

\* Relay and Snowcat together keep the lease contract.
ContractKept == Contract!ContractSpec
=============================================================================
