---------------------------- MODULE RelayProofs -----------------------------
(***************************************************************************)
(* Theorems about the lease relay, for any set of items, any lease length  *)
(* and any number of claims.                                               *)
(***************************************************************************)
EXTENDS Relay, TLAPS

USE SnowcatAssumption, RelayAssumption DEF SnowcatAssumption, RelayAssumption

-----------------------------------------------------------------------------
\* Types.

\* The operators that make up records return records of the declared sets.
LEMMA RecordTypes ==
  /\ NoLease \in Leases /\ NoMarker \in Markers
  /\ NoRequest \in Request /\ Refusal \in Reply /\ Idle \in Exchange
  /\ Reply \subseteq Answers
  /\ \A s \in {"free", "closed", "other"} : Unheld(s) \in Grants
BY DEF NoLease, Leases, NoMarker, Markers, MarkerStatus, NoRequest, Request,
       Refusal, Reply, Answers, Idle, Exchange, Remaining, Unheld, Grants, MaybeItem,
       MaybeToken,
       NoToken, Lifecycle, Finishing

\* What bindLease forwards is a request.
LEMMA BoundType ==
  ASSUME NEW tool \in Lifecycle \cup {"other"}, NEW id \in MaybeItem,
         NEW token \in MaybeToken, active \in Leases
  PROVE  Bound(tool, id, token) \in Request
BY DEF Request, Bound, Leases

\* A request just sent is an exchange under way.
LEMMA SentIsExchange == \A r \in Request : Sent(r) \in Exchange
BY RecordTypes DEF Sent, Exchange

\* A marker written has the declared fields.
LEMMA WriteMarkerType ==
  ASSUME marker \in Markers, active' \in Leases, attempted' \in BOOLEAN,
         acknowledged' \in BOOLEAN, NEW status \in MarkerStatus,
         WriteMarker(status)
  PROVE  marker' \in Markers
BY DEF WriteMarker, Markers, Leases, MarkerStatus

\* Whatever Snowcat answers, its own state keeps its type.
LEMMA ServeType ==
  ASSUME SnowcatTypeOK, NEW request \in Request, NEW reply \in Reply,
         Serve(request, reply)
  PROVE  SnowcatTypeOK'
<1>1. CASE GrantClaim(request, reply)
  BY <1>1 DEF GrantClaim, SnowcatTypeOK, Grants, MaybeToken, MaybeItem, Fates
<1>2. CASE ExtendLease(request, reply)
  BY <1>2 DEF ExtendLease, SnowcatTypeOK, Grants, Carries
<1>3. CASE FinishLease(request, reply)
  BY <1>3, RecordTypes
  DEF FinishLease, SnowcatTypeOK, Fates, FateOf, Finishing, Request
<1>4. CASE RefuseCall(request, reply)
  BY <1>4 DEF RefuseCall, SnowcatTypeOK, snowcatVars
<1> QED
  BY <1>1, <1>2, <1>3, <1>4 DEF Serve

\* So it does when time passes, or an operator or another worker acts.
LEMMA LeasesAgeType == SnowcatTypeOK /\ LeasesAge => SnowcatTypeOK'
<1> SUFFICES ASSUME SnowcatTypeOK, LeasesAge PROVE SnowcatTypeOK'
  OBVIOUS
<1> DEFINE Lapsing == {i \in Items : grant[i].state = "leased" /\ grant[i].left <= 1}
<1>1. ASSUME NEW i \in Items PROVE grant'[i] \in Grants
  <2>1. grant[i] \in Grants
    BY DEF SnowcatTypeOK
  <2>2. CASE i \in Lapsing
    BY <2>2, RecordTypes DEF LeasesAge
  <2>3. CASE i \notin Lapsing /\ grant[i].state = "leased"
    <3>1. grant[i].left - 1 \in 0 .. LeaseTicks
      BY <2>1, <2>3 DEF Grants
    <3>2. grant'[i] = [grant[i] EXCEPT !.left = @ - 1]
      BY <2>3 DEF LeasesAge
    <3> QED
      BY <2>1, <3>1, <3>2 DEF Grants
  <2>4. CASE i \notin Lapsing /\ grant[i].state # "leased"
    BY <2>1, <2>4 DEF LeasesAge
  <2> QED
    BY <2>2, <2>3, <2>4
<1>2. grant' = [i \in Items |-> grant'[i]]
  BY DEF LeasesAge
<1>3. grant' \in [Items -> Grants]
  BY <1>1, <1>2
<1>4. ledger' \in [Tokens -> [item : MaybeItem, fate : Fates]]
  BY DEF SnowcatTypeOK, LeasesAge, Fates
<1> QED
  BY <1>3, <1>4 DEF SnowcatTypeOK

\* What other clients do at Snowcat keeps its types.
LEMMA ElsewhereType == SnowcatTypeOK /\ SnowcatElsewhere => SnowcatTypeOK'
<1> SUFFICES ASSUME SnowcatTypeOK, NEW i \in Items,
                    Revoke(i) \/ TakenByOther(i) \/ ReturnedByOther(i)
             PROVE  SnowcatTypeOK'
  BY DEF SnowcatElsewhere
<1>1. CASE Revoke(i)
  BY <1>1, RecordTypes DEF SnowcatTypeOK, Revoke, Grants, Fates, MaybeToken, NoToken
<1>2. CASE TakenByOther(i)
  BY <1>2, RecordTypes DEF SnowcatTypeOK, TakenByOther
<1>3. CASE ReturnedByOther(i)
  BY <1>3, RecordTypes DEF SnowcatTypeOK, ReturnedByOther
<1> QED
  BY <1>1, <1>2, <1>3

\* Observing a response, or losing the lease, keeps the relay's own types.
RelayTypeOK ==
  /\ active \in Leases
  /\ lost \in BOOLEAN /\ terminal \in BOOLEAN
  /\ attempted \in BOOLEAN /\ acknowledged \in BOOLEAN
  /\ marker \in Markers

\* Losing the lease (markLeaseLost) keeps the relay's types.
LEMMA LoseLeaseType == RelayTypeOK /\ LoseLease => RelayTypeOK'
<1> SUFFICES ASSUME RelayTypeOK, LoseLease PROVE RelayTypeOK'
  OBVIOUS
<1>1. CASE Holding
  BY <1>1, WriteMarkerType DEF RelayTypeOK, LoseLease, MarkerStatus
<1>2. CASE ~Holding
  BY <1>2 DEF RelayTypeOK, LoseLease
<1> QED
  BY <1>1, <1>2

\* Observing any answer to any request (observe) keeps the relay's types.
LEMMA ObserveType ==
  ASSUME RelayTypeOK, NEW request \in Request, NEW reply \in Answers,
         Observe(request, reply)
  PROVE  RelayTypeOK'
<1>1. CASE ~reply.ok /\ ObserveRefusal(request)
  BY <1>1, LoseLeaseType DEF ObserveRefusal, RelayTypeOK, relayVars
<1>2. CASE reply.ok /\ request.tool = "claim_work" /\ ObserveClaim(reply)
  <2>1. active' \in Leases
    BY <1>2 DEF ObserveClaim, Leases, Answers
  <2> QED
    BY <1>2, <2>1, WriteMarkerType DEF ObserveClaim, RelayTypeOK, MarkerStatus
<1>3. CASE reply.ok /\ request.tool = "heartbeat_work" /\ ObserveHeartbeat(reply)
  BY <1>3 DEF ObserveHeartbeat, RelayTypeOK, Leases, Answers
<1>4. CASE reply.ok /\ request.tool \in Finishing /\ ObserveFinish(request.tool)
  <2>1. FateOf(request.tool) \in MarkerStatus
    BY <1>4 DEF FateOf, Finishing, MarkerStatus
  <2>2. acknowledged' \in BOOLEAN
    BY <1>4 DEF ObserveFinish, RelayTypeOK
  <2> QED
    BY <1>4, <2>1, <2>2, WriteMarkerType DEF ObserveFinish, RelayTypeOK
<1> QED
  BY <1>1, <1>2, <1>3, <1>4 DEF Observe
ProcessTypeOK ==
  /\ phase \in Phases /\ call \in Exchange /\ renewal \in Exchange
  /\ wait \in 0 .. Interval - 1 /\ due \in BOOLEAN /\ late \subseteq Request

\* The type invariant is that of Snowcat, of the relay and of the process.
LEMMA TypeSplit ==
  /\ TypeOK <=> SnowcatTypeOK /\ RelayTypeOK /\ ProcessTypeOK
  /\ TypeOK' <=> SnowcatTypeOK' /\ RelayTypeOK' /\ ProcessTypeOK'
BY DEF TypeOK, RelayTypeOK, ProcessTypeOK

\* What an exchange may still deliver to Snowcat is a request.
LEMMA PendingType ==
  ASSUME NEW exchange \in Exchange PROVE Pending(exchange) \subseteq Request
BY DEF Pending, Exchange

\* A unit of time changes how old an answer is, and nothing else about it.
LEMMA AgeExchange ==
  ASSUME NEW exchange \in Exchange
  PROVE  /\ Older(exchange) \in Exchange
         /\ Older(exchange).stage = exchange.stage
         /\ Older(exchange).request = exchange.request
         /\ Older(exchange).reply.ok = exchange.reply.ok
         /\ Older(exchange).reply.item = exchange.reply.item
         /\ Older(exchange).reply.token = exchange.reply.token
         /\ exchange.reply.ok => Older(exchange).reply.left = Aged(exchange.reply.left)
<1>1. \A n \in Remaining : Aged(n) \in Remaining
  BY DEF Aged, Remaining
<1> DEFINE Reply2 == [exchange.reply EXCEPT
                       !.left = IF exchange.reply.ok THEN Aged(@) ELSE @]
<1>2. exchange.reply \in Answers
  BY DEF Exchange
<1>3. /\ Reply2 \in Answers
      /\ Reply2.ok = exchange.reply.ok /\ Reply2.item = exchange.reply.item
      /\ Reply2.token = exchange.reply.token
      /\ exchange.reply.ok => Reply2.left = Aged(exchange.reply.left)
  BY <1>1, <1>2 DEF Answers
<1>4. Older(exchange) = [exchange EXCEPT !.reply = Reply2]
  BY DEF Older, Exchange
<1> HIDE DEF Reply2
<1> QED
  BY <1>3, <1>4 DEF Exchange

\* What a unit of time does to the relay: answers and the lease held get older.
LEMMA AgeRelay ==
  ASSUME RelayTypeOK, ProcessTypeOK, Tick
  PROVE  /\ active' \in Leases /\ active'.item = active.item
         /\ active'.token = active.token
         /\ active'.left = IF Up /\ Holding THEN Aged(active.left) ELSE active.left
         /\ call' \in Exchange /\ renewal' \in Exchange
         /\ call' = IF Up THEN Older(call) ELSE call
         /\ renewal' = IF Up THEN Older(renewal) ELSE renewal
         /\ wait' \in 0 .. Interval - 1 /\ due' \in BOOLEAN
<1>1. \A n \in Remaining : Aged(n) \in Remaining
  BY DEF Aged, Remaining
<1>2. /\ active' \in Leases /\ active'.item = active.item
      /\ active'.token = active.token
      /\ active'.left = IF Up /\ Holding THEN Aged(active.left) ELSE active.left
  BY <1>1 DEF Tick, RelayTypeOK, Leases
<1>3. /\ call' = IF Up THEN Older(call) ELSE call
      /\ renewal' = IF Up THEN Older(renewal) ELSE renewal
  BY DEF Tick
<1>4. call' \in Exchange /\ renewal' \in Exchange
  BY <1>3, AgeExchange DEF ProcessTypeOK
<1>5. wait' \in 0 .. Interval - 1
  BY DEF Tick, ProcessTypeOK
<1>6. due' \in BOOLEAN
  <2>1. CASE Up
    <3>1. due' = (due \/ wait' = 0)
      BY <2>1 DEF Tick
    <3> QED
      BY <3>1
  <2>2. CASE ~Up
    BY <2>2 DEF Tick, ProcessTypeOK
  <2> QED
    BY <2>1, <2>2
<1> QED
  BY <1>2, <1>3, <1>4, <1>5, <1>6

\* Every step keeps the type invariant.
LEMMA TypeStep == TypeOK /\ [Next]_vars => TypeOK'
<1> SUFFICES ASSUME TypeOK, [Next]_vars PROVE TypeOK'
  OBVIOUS
<1> USE TypeSplit DEF Phases, ProcessTypeOK
<1>1. CASE HandleClaim
  <2>1. ClaimRequest \in Request
    BY DEF ClaimRequest, Request, Lifecycle, MaybeItem, MaybeToken
  <2> QED
    BY <1>1, <2>1, SentIsExchange
    DEF HandleClaim, RelayTypeOK, relayVars, SnowcatTypeOK, Lifecycle
<1>2. CASE HandleSome
  <2>1. PICK tool \in Lifecycle \ {"claim_work"}, id \in MaybeItem,
             token \in MaybeToken : HandleLifecycle(tool, id, token)
    BY <1>2 DEF HandleSome
  <2>2. call' \in Exchange
    BY <2>1, BoundType, SentIsExchange DEF HandleLifecycle, RelayTypeOK
  <2>3. attempted' \in BOOLEAN
    BY <2>1 DEF HandleLifecycle, NoteAttempt, RelayTypeOK
  <2>4. marker' \in Markers
    BY <2>1, <2>3, WriteMarkerType
    DEF HandleLifecycle, NoteAttempt, RelayTypeOK, MarkerStatus
  <2> QED
    BY <2>1, <2>2, <2>3, <2>4 DEF HandleLifecycle, RelayTypeOK, SnowcatTypeOK
<1>3. CASE HandleBareHeartbeat
  BY <1>3 DEF HandleBareHeartbeat, RelayTypeOK, relayVars, SnowcatTypeOK
<1>4. CASE \E isTool \in BOOLEAN : HandleOther(isTool)
  BY <1>4, RecordTypes, SentIsExchange
  DEF HandleOther, RelayTypeOK, relayVars, SnowcatTypeOK
<1>5. CASE FinishCall
  <2>1. call.request \in Request /\ call.reply \in Answers
    BY DEF Exchange
  <2>2. RelayTypeOK'
    BY <1>5, <2>1, ObserveType DEF FinishCall
  <2> QED
    BY <1>5, <2>2, RecordTypes DEF FinishCall, SnowcatTypeOK
<1>6. CASE FailCall
  BY <1>6, RecordTypes DEF FailCall, RelayTypeOK, relayVars, SnowcatTypeOK
<1>7. CASE SkipRenewal
  BY <1>7 DEF SkipRenewal, RelayTypeOK, relayVars, SnowcatTypeOK
<1>8. CASE BeginRenewal
  <2>1. [tool |-> "heartbeat_work", id |-> active.item, token |-> active.token]
          \in Request
    BY DEF RelayTypeOK, Leases, Request, Lifecycle
  <2>2. renewal' \in Exchange
    BY <1>8, <2>1, RecordTypes DEF BeginRenewal, Exchange
  <2> QED
    BY <1>8, <2>2 DEF BeginRenewal, RelayTypeOK, relayVars, SnowcatTypeOK
<1>9. CASE FinishRenewal
  <2>1. RelayTypeOK'
    <3>1. CASE RenewalUnanswered
      BY <3>1, LoseLeaseType DEF RenewalUnanswered, RelayTypeOK, relayVars
    <3>2. CASE RenewalRefused
      BY <3>2, LoseLeaseType DEF RenewalRefused
    <3>3. CASE RenewalGranted
      BY <3>3 DEF RenewalGranted, RelayTypeOK, Leases, Exchange, Answers
    <3> QED
      BY <1>9, <3>1, <3>2, <3>3 DEF FinishRenewal
  <2> QED
    BY <1>9, <2>1, RecordTypes DEF FinishRenewal, SnowcatTypeOK
<1>10. CASE ReadEOF
  BY <1>10 DEF ReadEOF, RelayTypeOK, relayVars, SnowcatTypeOK
<1>11. CASE ExitRun
  <2>1. marker' \in Markers
    BY <1>11, WriteMarkerType DEF ExitRun, RelayTypeOK, MarkerStatus
  <2> QED
    BY <1>11, <2>1 DEF ExitRun, RelayTypeOK, SnowcatTypeOK
<1>12. CASE Kill
  BY <1>12, RecordTypes, PendingType
  DEF Kill, RelayTypeOK, relayVars, SnowcatTypeOK
<1>13. CASE ServeCall
  <2>1. PICK reply \in Reply :
          /\ IF call.request.tool = "other"
             THEN reply = Refusal /\ UNCHANGED snowcatVars
             ELSE Serve(call.request, reply)
          /\ call' = Answered(call, reply)
    BY <1>13 DEF ServeCall
  <2>2. call' \in Exchange
    BY <2>1, RecordTypes DEF Answered, Exchange
  <2>3. SnowcatTypeOK'
    BY <2>1, ServeType DEF Exchange, SnowcatTypeOK, snowcatVars
  <2> QED
    BY <1>13, <2>2, <2>3 DEF ServeCall, RelayTypeOK, relayVars
<1>14. CASE ServeRenewal
  <2>1. PICK reply \in Reply : /\ Serve(renewal.request, reply)
                               /\ renewal' = Answered(renewal, reply)
    BY <1>14 DEF ServeRenewal
  <2>2. renewal' \in Exchange
    BY <2>1, RecordTypes DEF Answered, Exchange
  <2>3. SnowcatTypeOK'
    BY <2>1, ServeType DEF Exchange
  <2> QED
    BY <1>14, <2>2, <2>3 DEF ServeRenewal, RelayTypeOK, relayVars
<1>15. CASE DropCall
  <2>1. call' \in Exchange
    BY <1>15, RecordTypes DEF DropCall, Failed, Exchange
  <2> QED
    BY <1>15, <2>1, PendingType DEF DropCall, RelayTypeOK, relayVars, SnowcatTypeOK
<1>16. CASE DropRenewal
  <2>1. renewal' \in Exchange
    BY <1>16, RecordTypes DEF DropRenewal, Failed, Exchange
  <2> QED
    BY <1>16, <2>1, PendingType DEF DropRenewal, RelayTypeOK, relayVars, SnowcatTypeOK
<1>17. CASE ServeLate
  <2>1. SnowcatTypeOK' /\ late' \subseteq Request
    BY <1>17, ServeType DEF ServeLate
  <2> QED
    BY <1>17, <2>1 DEF ServeLate, RelayTypeOK, relayVars
<1>18. CASE Elsewhere
  BY <1>18, ElsewhereType DEF Elsewhere, RelayTypeOK, relayVars
<1>19. CASE Tick
  BY <1>19, AgeRelay, LeasesAgeType DEF Tick, RelayTypeOK
<1>20. CASE UNCHANGED vars
  BY <1>20 DEF vars, RelayTypeOK, SnowcatTypeOK
<1>21. CASE NoAnswer
  BY <1>21, RecordTypes DEF NoAnswer, RelayTypeOK, relayVars, SnowcatTypeOK
<1> QED
  BY <1>1, <1>2, <1>3, <1>4, <1>5, <1>6, <1>7, <1>8, <1>9, <1>10, <1>11, <1>12,
     <1>13, <1>14, <1>15, <1>16, <1>17, <1>18, <1>19, <1>20, <1>21 DEF Next

\* Every variable keeps its type, for every number of items, claims and ticks.
THEOREM TypeCorrect == Spec => []TypeOK
<1>1. Init => TypeOK
  <2> SUFFICES ASSUME Init PROVE TypeOK
    OBVIOUS
  <2>1. SnowcatTypeOK
    BY RecordTypes DEF Init, SnowcatInit, SnowcatTypeOK, MaybeItem, Fates
  <2>2. 0 \in 0 .. Interval - 1
    OBVIOUS
  <2> QED
    BY <2>1, <2>2, RecordTypes DEF Init, TypeOK, Phases
<1> QED
  BY <1>1, TypeStep, PTL DEF Spec
-----------------------------------------------------------------------------
\* The two goroutines: the part of Custody that does not speak of Snowcat.

Sync == /\ CallsEndWithRun /\ MutexHeldOnce /\ RenewalIsForHeldLease
        /\ LossBlocksCalls

\* What a unit of time leaves alone.
LEMMA TickFrame ==
  ASSUME TypeOK, Tick
  PROVE  /\ active'.item = active.item /\ active'.token = active.token
         /\ call'.stage = call.stage /\ call'.request = call.request
         /\ renewal'.stage = renewal.stage /\ renewal'.request = renewal.request
         /\ call'.reply.ok = call.reply.ok /\ call'.reply.item = call.reply.item
         /\ call'.reply.token = call.reply.token
         /\ renewal'.reply.ok = renewal.reply.ok
         /\ renewal'.reply.item = renewal.reply.item
<1>1. call \in Exchange /\ renewal \in Exchange
  BY DEF TypeOK
<1>2. /\ call' = IF Up THEN Older(call) ELSE call
      /\ renewal' = IF Up THEN Older(renewal) ELSE renewal
      /\ active'.item = active.item /\ active'.token = active.token
  BY AgeRelay, TypeSplit
<1> QED
  BY <1>1, <1>2, AgeExchange

\* Every step keeps what is known of the mutex and of the exchanges under way.
LEMMA SyncStep == TypeOK /\ Sync /\ [Next]_vars => Sync'
<1> SUFFICES ASSUME TypeOK, Sync, [Next]_vars PROVE Sync'
  OBVIOUS
<1> USE DEF Sync, CallsEndWithRun, MutexHeldOnce, RenewalIsForHeldLease,
            LossBlocksCalls, MutexFreeForRenewal, HasLease, Holding, Up, relayVars
<1>1. CASE HandleClaim
  BY <1>1 DEF HandleClaim, MayClaim, MutexFreeForCall, Sent
<1>2. CASE HandleSome
  <2>1. PICK tool \in Lifecycle \ {"claim_work"}, id \in MaybeItem,
             token \in MaybeToken : HandleLifecycle(tool, id, token)
    BY <1>2 DEF HandleSome
  <2> QED
    BY <2>1 DEF HandleLifecycle, MutexFreeForCall, Sent
<1>3. CASE HandleBareHeartbeat
  BY <1>3 DEF HandleBareHeartbeat
<1>4. CASE \E isTool \in BOOLEAN : HandleOther(isTool)
  BY <1>4 DEF HandleOther, Sent, NoRequest, Lifecycle, Finishing
<1>5. CASE FinishCall
  <2>1. CASE call.request.tool \notin Lifecycle
    <3>1. UNCHANGED relayVars
      BY <1>5, <2>1 DEF FinishCall, Observe, ObserveRefusal, Lifecycle
    <3> QED
      BY <1>5, <3>1 DEF FinishCall, Idle, NoRequest, Lifecycle, Finishing
  <2>2. CASE call.request.tool \in Lifecycle
    <3>1. renewal.stage = "idle" /\ ~lost
      BY <1>5, <2>2 DEF FinishCall
    <3>2. lost' => HasLease' /\ ~terminal'
      BY <1>5, <3>1
      DEF FinishCall, Observe, ObserveRefusal, LoseLease, ObserveClaim,
          ObserveHeartbeat, ObserveFinish
    <3> QED
      BY <1>5, <3>1, <3>2 DEF FinishCall, Idle, NoRequest, Lifecycle, Finishing
  <2> QED
    BY <2>1, <2>2
<1>6. CASE FailCall
  BY <1>6 DEF FailCall, Idle, NoRequest, Lifecycle, Finishing
<1>7. CASE SkipRenewal
  BY <1>7 DEF SkipRenewal
<1>8. CASE BeginRenewal
  BY <1>8 DEF BeginRenewal
<1>9. CASE FinishRenewal
  <2>1. renewal.stage # "idle" /\ renewal'.stage = "idle" /\ UNCHANGED <<phase, call>>
    BY <1>9 DEF FinishRenewal, RenewalUnanswered, RenewalRefused, RenewalGranted, Idle
  <2>2. HasLease' /\ ~terminal' /\ call.request.tool \notin Lifecycle
    BY <1>9, <2>1
    DEF FinishRenewal, RenewalUnanswered, RenewalRefused, RenewalGranted, LoseLease,
        TypeOK, Leases, Lifecycle, Finishing
  <2> QED
    BY <2>1, <2>2
<1>10. CASE ReadEOF
  BY <1>10 DEF ReadEOF
<1>11. CASE ExitRun
  BY <1>11 DEF ExitRun
<1>12. CASE Kill
  BY <1>12 DEF Kill, Idle, NoRequest, Lifecycle, Finishing
<1>13. CASE ServeCall
  BY <1>13 DEF ServeCall, Answered, TypeOK, Exchange
<1>14. CASE ServeRenewal
  BY <1>14 DEF ServeRenewal, Answered, TypeOK, Exchange
<1>15. CASE DropCall
  BY <1>15 DEF DropCall, Failed, TypeOK, Exchange
<1>16. CASE DropRenewal
  BY <1>16 DEF DropRenewal, Failed, TypeOK, Exchange
<1>17. CASE ServeLate
  BY <1>17 DEF ServeLate
<1>18. CASE Elsewhere
  BY <1>18 DEF Elsewhere
<1>19. CASE Tick
  <2>1. /\ active'.item = active.item /\ active'.token = active.token
        /\ call'.stage = call.stage /\ call'.request = call.request
        /\ renewal'.stage = renewal.stage /\ renewal'.request = renewal.request
    BY <1>19, TickFrame
  <2> QED
    BY <1>19, <2>1 DEF Tick
<1>20. CASE UNCHANGED vars
  BY <1>20 DEF vars
<1>21. CASE NoAnswer
  BY <1>21 DEF NoAnswer, Idle, NoRequest, Lifecycle, Finishing
<1> QED
  BY <1>1, <1>2, <1>3, <1>4, <1>5, <1>6, <1>7, <1>8, <1>9, <1>10, <1>11, <1>12,
     <1>13, <1>14, <1>15, <1>16, <1>17, <1>18, <1>19, <1>20, <1>21 DEF Next
-----------------------------------------------------------------------------
\* What Snowcat's steps do to the set of items leased to this worker.

\* The leases of this worker only shrink, and keep their tokens.
OursShrink == Ours' \subseteq Ours /\ \A i \in Ours' : grant'[i].token = grant[i].token

\* Only a claim adds a lease: exactly the one its reply names.
LEMMA ServeClaimOurs ==
  ASSUME SnowcatTypeOK, NEW request, request.tool = "claim_work",
         NEW reply \in Reply, Serve(request, reply)
  PROVE  \/ OursShrink /\ ~reply.ok
         \/ /\ Ours' = Ours \cup {reply.item} /\ reply.item \in Items
            /\ grant'[reply.item].token = reply.token
            /\ \A i \in Ours : grant'[i].token = grant[i].token
<1>1. CASE GrantClaim(request, reply)
  <2>1. PICK i \in Items, t \in Tokens :
          /\ grant[i].state = "free"
          /\ grant' = [grant EXCEPT ![i] =
                         [state |-> "leased", token |-> t, left |-> LeaseTicks]]
          /\ reply = [ok |-> TRUE, item |-> i, token |-> t, left |-> LeaseTicks]
    BY <1>1 DEF GrantClaim
  <2>2. grant'[i].state = "leased" /\ grant'[i].token = t /\ reply.item = i
        /\ reply.token = t
    BY <2>1 DEF SnowcatTypeOK
  <2>3. \A j \in Items : j # i => grant'[j] = grant[j]
    BY <2>1 DEF SnowcatTypeOK
  <2> QED
    BY <2>1, <2>2, <2>3 DEF Ours
<1>2. CASE RefuseCall(request, reply)
  BY <1>2 DEF RefuseCall, snowcatVars, Refusal, Ours, OursShrink
<1> QED
  BY <1>1, <1>2 DEF Serve, ExtendLease, FinishLease, Finishing

\* Serving anything but a claim gives the relay no lease it did not have.
LEMMA ServeOtherOurs ==
  ASSUME SnowcatTypeOK, NEW request, request.tool # "claim_work",
         NEW reply \in Reply, Serve(request, reply)
  PROVE  /\ OursShrink
         /\ request.tool \in Finishing /\ reply.ok /\ OneLeasePerWorker => Ours' = {}
<1>1. CASE ExtendLease(request, reply)
  <2>1. request.id \in Items /\ grant[request.id] \in Grants
    BY <1>1 DEF ExtendLease, Carries, SnowcatTypeOK
  <2>2. \A i \in Items : /\ grant'[i].state = grant[i].state
                         /\ grant'[i].token = grant[i].token
    BY <1>1, <2>1 DEF ExtendLease, SnowcatTypeOK, Grants
  <2> QED
    BY <1>1, <2>2 DEF ExtendLease, Finishing, Ours, OursShrink
<1>2. CASE FinishLease(request, reply)
  <2>1. request.id \in Ours
    BY <1>2 DEF FinishLease, Carries, Ours
  <2>2. \A i \in Items : i # request.id => grant'[i] = grant[i]
    BY <1>2 DEF FinishLease, SnowcatTypeOK
  <2>3. request.id \notin Ours'
    BY <1>2, <2>1 DEF FinishLease, SnowcatTypeOK, Unheld, Ours
  <2> QED
    BY <2>1, <2>2, <2>3 DEF Ours, OursShrink, OneLeasePerWorker
<1>3. CASE RefuseCall(request, reply)
  BY <1>3 DEF RefuseCall, snowcatVars, Refusal, Ours, OursShrink
<1> QED
  BY <1>1, <1>2, <1>3 DEF Serve, GrantClaim

\* Time only takes leases away.
LEMMA AgeOurs == SnowcatTypeOK /\ LeasesAge => OursShrink
<1> SUFFICES ASSUME SnowcatTypeOK, LeasesAge PROVE OursShrink
  OBVIOUS
<1>1. ASSUME NEW i \in Ours'
      PROVE  i \in Ours /\ grant'[i].token = grant[i].token
  <2>1. i \in Items /\ grant[i] \in Grants /\ grant'[i].state = "leased"
    BY <1>1 DEF Ours, SnowcatTypeOK
  <2>2. grant[i].state = "leased"
    BY <2>1 DEF LeasesAge
  <2>3. grant'[i] = [grant[i] EXCEPT !.left = @ - 1]
    BY <2>1, <2>2 DEF LeasesAge, Unheld
  <2> QED
    BY <2>1, <2>2, <2>3 DEF Ours, Grants
<1> QED
  BY <1>1 DEF OursShrink

\* Other clients only take leases away.
LEMMA ElsewhereOurs == SnowcatTypeOK /\ SnowcatElsewhere => OursShrink
BY DEF SnowcatTypeOK, SnowcatElsewhere, Revoke, TakenByOther, ReturnedByOther,
       Unheld, Ours, OursShrink
-----------------------------------------------------------------------------
\* At most one lease.

Leasing == /\ ClaimsAreAlone /\ LeasesAreKnown /\ AnswersAreCurrent
           /\ OneLeasePerWorker

\* A step that leaves the lease, the calls and the phase alone, and under
\* which the leases of this worker only shrink, keeps Leasing.
LEMMA LeasingFrame ==
  ASSUME Leasing, OursShrink, late' \subseteq late,
         HasLease' = HasLease, terminal' = terminal, active'.token = active.token,
         phase' = phase, call'.stage = call.stage, call'.request = call.request,
         call'.reply.ok = call.reply.ok, call'.reply.item = call.reply.item,
         call'.reply.token = call.reply.token
  PROVE  Leasing'
BY DEF Leasing, ClaimsAreAlone, LeasesAreKnown, AnswersAreCurrent,
       OneLeasePerWorker, OursShrink, Closing, ClaimRequest, MayClaim

\* Every step keeps what is known of the leases that are the relay's.
LEMMA LeasingStep == TypeOK /\ Sync /\ Leasing /\ [Next]_vars => Leasing'
<1> SUFFICES ASSUME TypeOK, Sync, Leasing, [Next]_vars PROVE Leasing'
  OBVIOUS
<1>0. UNCHANGED <<grant, ledger>> => OursShrink
  BY DEF OursShrink, Ours
<1> USE DEF relayVars, MayClaim, HasLease
<1>1. CASE HandleClaim
  <2>1. Ours = {}
    BY <1>1 DEF HandleClaim, MayClaim, Leasing, LeasesAreKnown, Closing
  <2>2. Ours' = {} /\ ClaimRequest \notin late
    BY <1>1, <2>1
    DEF HandleClaim, Ours, Leasing, ClaimsAreAlone, Closing
  <2> QED
    BY <1>1, <2>1, <2>2
    DEF HandleClaim, Sent, Leasing, ClaimsAreAlone, LeasesAreKnown,
        AnswersAreCurrent, OneLeasePerWorker
<1>2. CASE HandleSome
  <2>1. PICK tool \in Lifecycle \ {"claim_work"}, id \in MaybeItem,
             token \in MaybeToken : HandleLifecycle(tool, id, token)
    BY <1>2 DEF HandleSome
  <2>2. call'.stage = "sent" /\ call'.request.tool = tool /\ tool # "claim_work"
    BY <2>1 DEF HandleLifecycle, Sent, Bound
  <2>3. Ours' = Ours /\ UNCHANGED <<active, terminal, grant, late, phase>>
    BY <2>1 DEF HandleLifecycle, Ours
  <2>4. call.stage = "idle" /\ phase = "running"
    BY <2>1 DEF HandleLifecycle
  <2> QED
    BY <2>2, <2>3, <2>4
    DEF Leasing, ClaimsAreAlone, LeasesAreKnown, AnswersAreCurrent,
        OneLeasePerWorker, Closing, HasLease, ClaimRequest
<1>3. CASE HandleBareHeartbeat
  BY <1>3 DEF HandleBareHeartbeat, Ours, Leasing, ClaimsAreAlone, LeasesAreKnown,
      AnswersAreCurrent, OneLeasePerWorker, Closing
<1>4. CASE \E isTool \in BOOLEAN : HandleOther(isTool)
  BY <1>4
  DEF HandleOther, Sent, NoRequest, Ours, Leasing, ClaimsAreAlone, LeasesAreKnown,
      AnswersAreCurrent, OneLeasePerWorker, Closing, HasLease, ClaimRequest, Finishing
<1>5. CASE FinishCall
  <2>1. /\ Ours' = Ours /\ UNCHANGED <<grant, late>> /\ phase = "running"
        /\ call.stage = "answered" /\ call' = Idle
    BY <1>5 DEF FinishCall, Ours
  <2>2. /\ call'.stage = "idle" /\ call'.request.tool = "other"
    BY <2>1 DEF Idle, NoRequest
  <2>3. ClaimRequest \notin late
    BY <2>1 DEF Leasing, ClaimsAreAlone, Closing
  <2>4. ClaimsAreAlone' /\ AnswersAreCurrent' /\ OneLeasePerWorker'
    BY <2>1, <2>2, <2>3
    DEF Leasing, ClaimsAreAlone, AnswersAreCurrent, OneLeasePerWorker, ClaimRequest
  <2>5. ASSUME NEW i \in Ours'
        PROVE  HasLease' /\ ~terminal' /\ grant[i].token = active'.token
    <3>1. i \in Ours
      BY <2>1, <2>5
    <3>2. CASE call.request = ClaimRequest /\ call.reply.ok
      <4>1. ObserveClaim(call.reply)
        BY <1>5, <3>2
        DEF FinishCall, Observe, ClaimRequest, Finishing
      <4>2. call.reply.item # NoItem
        BY <2>1, <3>2 DEF Leasing, AnswersAreCurrent
      <4>3. grant[i].token = call.reply.token
        BY <2>1, <3>1, <3>2 DEF Leasing, ClaimsAreAlone, LeasesAreKnown, Closing
      <4> QED
        BY <4>1, <4>2, <4>3 DEF ObserveClaim, HasLease
    <3>3. CASE ~(call.request = ClaimRequest /\ call.reply.ok)
      <4>1. HasLease /\ ~terminal /\ grant[i].token = active.token
        BY <2>1, <3>1, <3>3 DEF Leasing, LeasesAreKnown, Closing
      <4>2. ~(call.reply.ok /\ call.request.tool \in Finishing)
        BY <2>1, <3>1 DEF Leasing, AnswersAreCurrent
      <4>3. ~(call.reply.ok /\ call.request.tool = "claim_work")
        BY <3>3 DEF Leasing, ClaimsAreAlone
      <4>4. UNCHANGED terminal /\ active'.item = active.item /\ active'.token = active.token
        BY <1>5, <4>2, <4>3
        DEF FinishCall, Observe, ObserveRefusal, LoseLease, ObserveHeartbeat,
            TypeOK, Leases
      <4> QED
        BY <4>1, <4>4 DEF HasLease
    <3> QED
      BY <3>2, <3>3
  <2> QED
    BY <2>1, <2>4, <2>5 DEF Leasing, LeasesAreKnown
<1>6. CASE FailCall
  BY <1>6 DEF FailCall, Idle, NoRequest, Ours, Leasing, ClaimsAreAlone,
      LeasesAreKnown, AnswersAreCurrent, OneLeasePerWorker, Closing, ClaimRequest
<1>7. CASE SkipRenewal
  BY <1>0, <1>7, LeasingFrame DEF SkipRenewal, HasLease
<1>8. CASE BeginRenewal
  BY <1>0, <1>8, LeasingFrame DEF BeginRenewal, HasLease
<1>9. CASE FinishRenewal
  <2>1. active'.item = active.item /\ active'.token = active.token /\ UNCHANGED terminal
    BY <1>9 DEF FinishRenewal, RenewalUnanswered, RenewalRefused, RenewalGranted,
        LoseLease, TypeOK, Leases
  <2> QED
    BY <1>0, <1>9, <2>1, LeasingFrame DEF FinishRenewal, HasLease
<1>10. CASE ReadEOF
  BY <1>10 DEF ReadEOF, Ours, Leasing, ClaimsAreAlone, LeasesAreKnown,
      AnswersAreCurrent, OneLeasePerWorker, Closing
<1>11. CASE ExitRun
  BY <1>0, <1>11 DEF ExitRun, Ours, Leasing, ClaimsAreAlone, LeasesAreKnown,
      AnswersAreCurrent, OneLeasePerWorker, Closing
<1>12. CASE Kill
  <2>1. call'.stage = "idle" /\ call'.request.tool = "other" /\ phase' = "exited"
    BY <1>12 DEF Kill, Idle, NoRequest
  <2>2. \A r \in late' : r.tool = "claim_work" =>
          /\ r = ClaimRequest
          /\ r \in late \/ (call.stage = "sent" /\ call.request = r)
    <3>1. \A r \in Pending(call) : call.stage = "sent" /\ call.request = r
      BY DEF Pending
    <3>2. \A r \in Pending(renewal) : r.tool = "heartbeat_work"
      BY DEF Pending, Sync, MutexHeldOnce
    <3>3. late' = late \cup Pending(call) \cup Pending(renewal)
      BY <1>12 DEF Kill
    <3> QED
      BY <3>1, <3>2, <3>3 DEF Leasing, ClaimsAreAlone
  <2>3. Ours' = Ours
    BY <1>12 DEF Kill, Ours
  <2> QED
    BY <2>1, <2>2, <2>3
    DEF Leasing, ClaimsAreAlone, LeasesAreKnown, AnswersAreCurrent,
        OneLeasePerWorker, Closing, ClaimRequest
<1>13. CASE ServeCall
  <2>1. PICK reply \in Reply :
          /\ IF call.request.tool = "other"
             THEN reply = Refusal /\ UNCHANGED snowcatVars
             ELSE Serve(call.request, reply)
          /\ call' = Answered(call, reply)
    BY <1>13 DEF ServeCall
  <2>2. /\ call.stage = "sent" /\ call'.stage = "answered"
        /\ call'.request = call.request /\ call'.reply = reply
    BY <1>13, <2>1 DEF ServeCall, Answered, TypeOK, Exchange
  <2>3. UNCHANGED <<active, terminal, phase, late>>
    BY <1>13 DEF ServeCall
  <2>4. phase = "running"
    BY <2>2 DEF Sync, CallsEndWithRun
  <2>5. ClaimRequest \notin late
    BY <2>2, <2>4 DEF Leasing, ClaimsAreAlone, Closing
  <2>6. CASE call.request.tool = "claim_work"
    <3>1. call.request = ClaimRequest /\ Ours = {}
      BY <2>2, <2>6 DEF Leasing, ClaimsAreAlone
    <3>2. \/ Ours' = {} /\ ~reply.ok
          \/ /\ Ours' = {reply.item} /\ reply.item # NoItem
             /\ grant'[reply.item].token = reply.token /\ reply.ok
      <4>1. reply.ok \in BOOLEAN /\ Serve(call.request, reply)
        BY <2>1, <2>6 DEF Reply
      <4>2. CASE reply.ok
        BY <2>6, <3>1, <4>1, <4>2, ServeClaimOurs DEF TypeOK
      <4>3. CASE ~reply.ok
        BY <2>6, <3>1, <4>1, <4>3, ServeClaimOurs
        DEF TypeOK, OursShrink, Serve, GrantClaim, RefuseCall, snowcatVars, Ours,
            ExtendLease, FinishLease, Finishing
      <4> QED
        BY <4>1, <4>2, <4>3
    <3> QED
      BY <2>2, <2>3, <2>4, <2>5, <3>1, <3>2
      DEF Leasing, ClaimsAreAlone, LeasesAreKnown, AnswersAreCurrent,
          OneLeasePerWorker, ClaimRequest, Finishing
  <2>7. CASE call.request.tool # "claim_work"
    <3>1. OursShrink
      <4>1. CASE call.request.tool = "other"
        BY <2>1, <4>1 DEF snowcatVars, OursShrink, Ours
      <4>2. CASE call.request.tool # "other"
        BY <2>1, <2>7, <4>2, ServeOtherOurs DEF TypeOK
      <4> QED
        BY <4>1, <4>2
    <3>2. reply.ok /\ call.request.tool \in Finishing => Ours' = {}
      BY <2>1, <2>7, ServeOtherOurs DEF TypeOK, Leasing, Finishing
    <3> QED
      BY <2>2, <2>3, <2>4, <2>5, <2>7, <3>1, <3>2
      DEF Leasing, ClaimsAreAlone, LeasesAreKnown, AnswersAreCurrent,
          OneLeasePerWorker, ClaimRequest, OursShrink, HasLease, Closing
  <2> QED
    BY <2>6, <2>7
<1>14. CASE ServeRenewal
  <2>1. PICK reply \in Reply : Serve(renewal.request, reply)
    BY <1>14 DEF ServeRenewal
  <2>2. renewal.request.tool # "claim_work"
    BY <1>14 DEF ServeRenewal, Sync, MutexHeldOnce
  <2>3. OursShrink
    BY <2>1, <2>2, ServeOtherOurs DEF TypeOK
  <2> QED
    BY <1>14, <2>3, LeasingFrame DEF ServeRenewal, HasLease
<1>15. CASE DropCall
  <2>1. /\ call'.stage = "failed" /\ call'.request = call.request
    BY <1>15 DEF DropCall, Failed
  <2>2. \A r \in late' : r \in late \/ (call.stage = "sent" /\ call.request = r)
    BY <1>15 DEF DropCall, Pending
  <2>3. Ours' = Ours /\ UNCHANGED <<active, terminal>>
    BY <1>15 DEF DropCall, Ours
  <2> QED
    BY <2>1, <2>2, <2>3
    DEF Leasing, ClaimsAreAlone, LeasesAreKnown, AnswersAreCurrent,
        OneLeasePerWorker, Closing, ClaimRequest
<1>16. CASE DropRenewal
  <2>1. \A r \in late' : r.tool = "claim_work" => r \in late
    BY <1>16 DEF DropRenewal, Pending, Sync, MutexHeldOnce
  <2>2. Ours' = Ours /\ UNCHANGED <<grant, active, terminal, phase, call>>
    BY <1>16 DEF DropRenewal, Ours
  <2> QED
    BY <2>1, <2>2
    DEF Leasing, ClaimsAreAlone, LeasesAreKnown, AnswersAreCurrent,
        OneLeasePerWorker, Closing, ClaimRequest, HasLease
<1>17. CASE ServeLate
  <2>1. PICK r \in late : /\ late' = late \ {r}
                         /\ \E reply \in Reply : Serve(r, reply)
    BY <1>17 DEF ServeLate
  <2>2. PICK reply \in Reply : Serve(r, reply)
    BY <2>1
  <2>3. UNCHANGED <<active, terminal, phase, call>>
    BY <1>17 DEF ServeLate
  <2>4. CASE r.tool = "claim_work"
    <3>1. r = ClaimRequest /\ Closing /\ Ours = {}
      BY <2>1, <2>4 DEF Leasing, ClaimsAreAlone
    <3>2. ClaimRequest \notin late' /\ Closing'
      BY <2>1, <2>3, <3>1 DEF Closing
    <3>3. \A i, j \in Ours' : i = j
      BY <2>2, <2>4, <3>1, ServeClaimOurs DEF TypeOK, OursShrink
    <3>4. call.stage # "sent" /\ call.stage # "answered"
      BY <3>1 DEF Closing, Sync, CallsEndWithRun
    <3> QED
      BY <2>1, <2>3, <3>2, <3>3, <3>4
      DEF Leasing, ClaimsAreAlone, LeasesAreKnown, AnswersAreCurrent, OneLeasePerWorker
  <2>5. CASE r.tool # "claim_work"
    <3>1. OursShrink
      BY <2>2, <2>5, ServeOtherOurs DEF TypeOK
    <3> QED
      BY <2>1, <2>3, <3>1, LeasingFrame DEF HasLease
  <2> QED
    BY <2>4, <2>5
<1>18. CASE Elsewhere
  BY <1>18, ElsewhereOurs, LeasingFrame DEF Elsewhere, TypeOK, HasLease
<1>19. CASE Tick
  <2>1. OursShrink
    BY <1>19, AgeOurs DEF Tick, TypeOK
  <2>2. /\ active'.item = active.item /\ active'.token = active.token
        /\ call'.stage = call.stage /\ call'.request = call.request
        /\ call'.reply.ok = call.reply.ok /\ call'.reply.item = call.reply.item
        /\ call'.reply.token = call.reply.token
    BY <1>19, TickFrame
  <2> QED
    BY <1>19, <2>1, <2>2, LeasingFrame DEF Tick, HasLease
<1>20. CASE UNCHANGED vars
  BY <1>0, <1>20, LeasingFrame DEF vars, HasLease
<1>21. CASE NoAnswer
  <2>1. call.stage = "sent" /\ phase = "running" /\ UNCHANGED <<grant, active, terminal, phase, late>>
    BY <1>21 DEF NoAnswer, relayVars
  <2>2. call'.stage = "idle" /\ call'.request = NoRequest
    BY <1>21 DEF NoAnswer, Idle
  <2> QED
    BY <2>1, <2>2
    DEF Ours, Leasing, ClaimsAreAlone, LeasesAreKnown, AnswersAreCurrent,
        OneLeasePerWorker, Closing, ClaimRequest, NoRequest, HasLease
<1> QED
  BY <1>1, <1>2, <1>3, <1>4, <1>5, <1>6, <1>7, <1>8, <1>9, <1>10, <1>11, <1>12,
     <1>13, <1>14, <1>15, <1>16, <1>17, <1>18, <1>19, <1>20, <1>21 DEF Next
-----------------------------------------------------------------------------
\* The theorems.

\* Custody holds at first and every step keeps it.
LEMMA CustodyInductive ==
  /\ Init => Custody
  /\ TypeOK /\ Custody /\ [Next]_vars => Custody'
<1>1. Init => Custody
  BY DEF Init, SnowcatInit, Unheld, Idle, NoRequest, NoLease, Custody,
         CallsEndWithRun, MutexHeldOnce, RenewalIsForHeldLease, LossBlocksCalls,
         ClaimsAreAlone, ClaimRequest, LeasesAreKnown, AnswersAreCurrent,
         OneLeasePerWorker, Ours, Lifecycle, Finishing
<1>2. Custody <=> Sync /\ Leasing
  BY DEF Custody, Sync, Leasing
<1>3. Custody' <=> Sync' /\ Leasing'
  BY DEF Custody, Sync, Leasing
<1> QED
  BY <1>1, <1>2, <1>3, SyncStep, LeasingStep

\* The inductive invariant holds throughout every behaviour.
THEOREM CustodyKept == Spec => []Custody
<1>1. TypeOK /\ Custody /\ [Next]_vars => Custody'
  BY CustodyInductive
<1>2. Init => Custody
  BY CustodyInductive
<1> QED
  BY <1>1, <1>2, TypeCorrect, PTL DEF Spec

\* However calls, renewals, lost and late requests interleave, Snowcat never
\* leases two items to the worker at once (prepareClaim's guarantee).
THEOREM AtMostOneLease == Spec => []OneLeasePerWorker
<1>1. Custody => OneLeasePerWorker
  BY DEF Custody
<1> QED
  BY <1>1, CustodyKept, PTL

\* A renewal under way is always for the lease the relay holds at that moment:
\* lifecycleMutex keeps claims, completions and losses out of its way.
THEOREM RenewalsAreForHeldLease == Spec => []RenewalIsForHeldLease
<1>1. Custody => RenewalIsForHeldLease
  BY DEF Custody
<1> QED
  BY <1>1, CustodyKept, PTL

\* No step of relay, provider, network or Snowcat revives a lost lease.
THEOREM LossStaysFinal == Spec => LossIsFinal
<1>1. TypeOK /\ Custody /\ Custody' /\ [Next]_vars
        => [lost => lost' /\ ~terminal' /\ active'.item = active.item]_vars
  <2> SUFFICES ASSUME TypeOK, Custody, Custody', Next, lost
               PROVE  lost' /\ ~terminal' /\ active'.item = active.item
    OBVIOUS
  <2>1. HasLease /\ ~terminal /\ call.request.tool \notin Lifecycle
    BY DEF Custody, LossBlocksCalls
  <2>2. lost' => ~terminal'
    BY DEF Custody, LossBlocksCalls
  <2>3. lost' /\ active'.item = active.item
    <3> USE <2>1 DEF relayVars
    <3>1. CASE HandleClaim \/ HandleSome \/ HandleBareHeartbeat
               \/ \E isTool \in BOOLEAN : HandleOther(isTool)
      BY <3>1 DEF HandleClaim, HandleSome, HandleLifecycle, HandleBareHeartbeat,
                  HandleOther
    <3>2. CASE FinishCall
      BY <3>2 DEF FinishCall, Observe, ObserveRefusal, Lifecycle
    <3>3. CASE FinishRenewal
      BY <3>3 DEF FinishRenewal, RenewalUnanswered, RenewalRefused, RenewalGranted,
                  LoseLease, Custody, RenewalIsForHeldLease, Holding
    <3>4. CASE Tick
      BY <3>4, TickFrame DEF Tick
    <3>5. CASE FailCall \/ SkipRenewal \/ BeginRenewal \/ ReadEOF \/ ExitRun \/ Kill
      BY <3>5 DEF FailCall, SkipRenewal, BeginRenewal, ReadEOF, ExitRun, Kill
    <3>6. CASE ServeCall \/ ServeRenewal \/ DropCall \/ DropRenewal \/ ServeLate
               \/ Elsewhere \/ NoAnswer
      BY <3>6 DEF ServeCall, ServeRenewal, DropCall, DropRenewal, ServeLate, Elsewhere,
                  NoAnswer
    <3> QED
      BY <3>1, <3>2, <3>3, <3>4, <3>5, <3>6 DEF Next
  <2> QED
    BY <2>2, <2>3
<1> QED
  BY <1>1, TypeCorrect, CustodyKept, PTL DEF Spec, LossIsFinal
=============================================================================
