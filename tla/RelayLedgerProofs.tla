------------------------- MODULE RelayLedgerProofs --------------------------
(***************************************************************************)
(* What the relay believes, announces and writes down, against what        *)
(* Snowcat's books say: theorems for any items, lease length and number of *)
(* claims.  They rest on Custody (RelayProofs), which knows who holds what *)
(* but nothing of time and of outcomes.                                    *)
(***************************************************************************)
EXTENDS RelayProofs

USE SnowcatAssumption, RelayAssumption
  DEF SnowcatAssumption, RelayAssumption, Remaining

Ended == {"lapsed", "revoked"}

-----------------------------------------------------------------------------
\* The inductive invariant, in parts.

\* Snowcat's two books agree: an item is leased under a token exactly when
\* that token is live.
BooksAgree ==
  /\ \A i \in Items : grant[i].state = "leased" =>
       /\ grant[i].token \in Tokens /\ grant[i].left > 0
       /\ ledger[grant[i].token] = [item |-> i, fate |-> "live"]
  /\ \A t \in Tokens : ledger[t].fate = "live" => Carries(ledger[t].item, t)

\* A token was minted for the item.
Minted(i, t) == t \in Tokens /\ ledger[t].item = i /\ ledger[t].fate # "unminted"

LeaseIsMinted == HasLease => Minted(active.item, active.token)

\* A lifecycle call for the held item carries the held token (bindLease).
CallsAreBound ==
  /\ call.request.tool \in Lifecycle /\ HasLease /\ call.request.id = active.item =>
       call.request.token = active.token
  /\ ClaimRequest \in late => MayClaim

\* A finishing call that Snowcat may have served, or may serve late.
FinishServed ==
  /\ call.request.tool \in Finishing
  /\ call.stage = "failed" \/ (call.stage = "answered" /\ call.reply.ok)

\* Until then nobody but Snowcat ends the lease: no finishing request has been
\* left in the network, and the token has no outcome of this worker.
Watched == phase = "running" \/ renewal.stage \in {"sent", "answered"}
NoFinishAbroad ==
  /\ Watched /\ ~(call.request.tool \in Finishing /\ call.stage = "failed") =>
       \A r \in late : r.tool \notin Finishing
  /\ Watched /\ ~FinishServed /\ Holding =>
       ledger[active.token].fate \in {"live"} \cup Ended

\* Snowcat leases the item under the token for at least so long, or an
\* operator withdrew it.
Backed(i, t, left) ==
  left > 0 => \/ ledger[t].fate = "revoked"
              \/ Carries(i, t) /\ grant[i].left >= left

LeaseIsBacked ==
  phase = "running" /\ Holding /\ ~FinishServed =>
    Backed(active.item, active.token, active.left)

\* Answers not observed yet are as good as the books: of a claim,
ClaimAnswered ==
  call.stage = "answered" /\ call.reply.ok /\ call.request.tool = "claim_work" =>
    /\ Minted(call.reply.item, call.reply.token)
    /\ ledger[call.reply.token].fate \in {"live"} \cup Ended
    /\ Backed(call.reply.item, call.reply.token, call.reply.left)

\* of a heartbeat of the provider's,
HeartbeatAnswered ==
  call.stage = "answered" /\ call.request.tool = "heartbeat_work" =>
    /\ call.reply.ok =>
         /\ HasLease /\ call.reply.item = active.item
         /\ Backed(active.item, active.token, call.reply.left)
    /\ ~call.reply.ok /\ Holding /\ call.request.id = active.item =>
         ledger[active.token].fate \in Ended

\* of a finishing call,
FinishAnswered ==
  call.stage = "answered" /\ call.reply.ok /\ call.request.tool \in Finishing =>
    /\ HasLease
    /\ ledger[active.token].fate = FateOf(call.request.tool)

\* and of a renewal.
RenewalAnswered ==
  renewal.stage = "answered" =>
    IF renewal.reply.ok
    THEN /\ renewal.reply.item = active.item
         /\ Backed(active.item, active.token, renewal.reply.left)
    ELSE ledger[active.token].fate \in Ended

Bookkeeping ==
  /\ BooksAgree /\ LeaseIsMinted /\ CallsAreBound /\ NoFinishAbroad /\ LeaseIsBacked
  /\ ClaimAnswered /\ HeartbeatAnswered /\ FinishAnswered /\ RenewalAnswered
  /\ LossIsJustified

-----------------------------------------------------------------------------
\* Time: what a claim, a heartbeat or a renewal was granted had not expired when
\* the ticker last fired, or the ticker has fired meanwhile.
Timely(left) == due \/ left + wait > 0

Lapsing ==
  /\ LapseIsNoticed
  /\ call.stage = "answered" /\ call.reply.ok
       /\ call.request.tool \in {"claim_work", "heartbeat_work"} =>
         Timely(call.reply.left)
  /\ renewal.stage = "answered" /\ renewal.reply.ok => Timely(renewal.reply.left)

\* The marker of a relay whose writes succeed is about the held item, and every
\* completion Snowcat took, or may take, has been noted.
MarkerFollows ==
  /\ HasLease => marker.item = active.item /\ marker.attempted = attempted
  /\ \A r \in late \cup {call.request} : r.tool = "complete_work" => attempted
  /\ \A t \in Tokens : ledger[t].fate = "completed" => attempted

-----------------------------------------------------------------------------
\* What Snowcat's steps do to the tokens it has minted.

\* A token keeps its item, and its outcome once it has one.
FatesArePermanent ==
  \A t \in Tokens : ledger[t].fate # "unminted" =>
    /\ ledger'[t].item = ledger[t].item /\ ledger'[t].fate # "unminted"
    /\ ledger[t].fate # "live" => ledger'[t].fate = ledger[t].fate

\* No lease is ended on behalf of this worker.
FatesAreQuiet ==
  \A t \in Tokens : ledger[t].fate \in {"live"} \cup Ended =>
    ledger'[t].fate \in {"live"} \cup Ended

\* No time passes for the leases.
LeasesLast ==
  \A t \in Tokens, i \in MaybeItem, left \in Remaining :
    Minted(i, t) /\ Backed(i, t, left) => Backed(i, t, left)'

\* A step that leaves Snowcat alone leaves its tokens alone.
LEMMA SnowcatIdle ==
  ASSUME BooksAgree, UNCHANGED <<grant, ledger>>
  PROVE  BooksAgree' /\ FatesArePermanent /\ FatesAreQuiet /\ LeasesLast
BY DEF BooksAgree, Carries, FatesArePermanent, FatesAreQuiet, LeasesLast, Backed

\* A leased item's token was minted for it and has no outcome yet.
LEMMA LeasedIsLive ==
  ASSUME BooksAgree, NEW i \in Items, grant[i].state = "leased"
  PROVE  ledger[grant[i].token].item = i /\ ledger[grant[i].token].fate = "live"
<1>1. ledger[grant[i].token] = [item |-> i, fate |-> "live"]
  BY DEF BooksAgree
<1> QED
  BY <1>1

\* Serving any request keeps the books in agreement and the outcomes final.
LEMMA ServeBooks ==
  ASSUME SnowcatTypeOK, BooksAgree, NEW request, NEW reply, Serve(request, reply)
  PROVE  BooksAgree' /\ FatesArePermanent
<1>1. CASE GrantClaim(request, reply)
  <2>1. PICK i \in Items, t \in Tokens :
          /\ grant[i].state = "free" /\ ledger[t].fate = "unminted"
          /\ grant' = [grant EXCEPT ![i] =
                         [state |-> "leased", token |-> t, left |-> LeaseTicks]]
          /\ ledger' = [ledger EXCEPT ![t] = [item |-> i, fate |-> "live"]]
    BY <1>1 DEF GrantClaim, Fresh
  <2>2. /\ grant'[i] = [state |-> "leased", token |-> t, left |-> LeaseTicks]
        /\ \A j \in Items \ {i} : grant'[j] = grant[j]
        /\ ledger'[t] = [item |-> i, fate |-> "live"]
        /\ \A u \in Tokens \ {t} : ledger'[u] = ledger[u]
    BY <2>1 DEF SnowcatTypeOK
  <2>3. \A j \in Items : grant'[j].state = "leased" =>
          /\ grant'[j].token \in Tokens /\ grant'[j].left > 0
          /\ ledger'[grant'[j].token] = [item |-> j, fate |-> "live"]
    BY <2>1, <2>2 DEF BooksAgree
  <2>4. \A u \in Tokens : ledger'[u].fate = "live" =>
          /\ ledger'[u].item \in Items
          /\ grant'[ledger'[u].item].state = "leased"
          /\ grant'[ledger'[u].item].token = u
    BY <2>1, <2>2 DEF BooksAgree, Carries
  <2> QED
    BY <2>1, <2>2, <2>3, <2>4 DEF BooksAgree, Carries, FatesArePermanent
<1>2. CASE ExtendLease(request, reply)
  <2>1. /\ request.id \in Items /\ ledger' = ledger
        /\ \A j \in Items : /\ grant'[j].state = grant[j].state
                             /\ grant'[j].token = grant[j].token
                             /\ grant'[j].left \in {grant[j].left, LeaseTicks}
    BY <1>2 DEF ExtendLease, Carries, SnowcatTypeOK, Grants
  <2> QED
    BY <2>1 DEF BooksAgree, Carries, FatesArePermanent
<1>3. CASE FinishLease(request, reply)
  <2> DEFINE i == request.id
             t == request.token
  <2>1. /\ i \in Items /\ grant[i].state = "leased" /\ grant[i].token = t
        /\ t \in Tokens /\ ledger[t] = [item |-> i, fate |-> "live"]
    BY <1>3 DEF FinishLease, Carries, BooksAgree
  <2>2. /\ grant'[i].state # "leased"
        /\ \A j \in Items \ {i} : grant'[j] = grant[j]
        /\ ledger'[t].item = i /\ ledger'[t].fate \notin {"live", "unminted"}
        /\ \A u \in Tokens \ {t} : ledger'[u] = ledger[u]
    BY <1>3, <2>1 DEF FinishLease, SnowcatTypeOK, Unheld, FateOf, Finishing
  <2>3. \A j \in Items : grant'[j].state = "leased" =>
          /\ grant'[j].token \in Tokens \ {t} /\ grant'[j].left > 0
          /\ ledger'[grant'[j].token] = [item |-> j, fate |-> "live"]
    BY <2>1, <2>2 DEF BooksAgree
  <2>4. \A u \in Tokens : ledger'[u].fate = "live" =>
          /\ ledger'[u].item \in Items
          /\ grant'[ledger'[u].item].state = "leased"
          /\ grant'[ledger'[u].item].token = u
    BY <2>1, <2>2 DEF BooksAgree, Carries
  <2> QED
    BY <2>1, <2>2, <2>3, <2>4 DEF BooksAgree, Carries, FatesArePermanent
<1>4. CASE RefuseCall(request, reply)
  BY <1>4, SnowcatIdle DEF RefuseCall, snowcatVars
<1> QED
  BY <1>1, <1>2, <1>3, <1>4 DEF Serve

\* Unless it is a finishing call granted, it shortens no lease and ends none.
LEMMA ServeQuiet ==
  ASSUME SnowcatTypeOK, BooksAgree, NEW request, NEW reply, Serve(request, reply),
         request.tool \notin Finishing \/ ~reply.ok
  PROVE  FatesAreQuiet /\ LeasesLast
<1>1. CASE GrantClaim(request, reply)
  <2>1. PICK i \in Items, t \in Tokens :
          /\ grant[i].state = "free" /\ ledger[t].fate = "unminted"
          /\ grant' = [grant EXCEPT ![i] =
                         [state |-> "leased", token |-> t, left |-> LeaseTicks]]
          /\ ledger' = [ledger EXCEPT ![t] = [item |-> i, fate |-> "live"]]
    BY <1>1 DEF GrantClaim, Fresh
  <2>2. /\ \A j \in Items \ {i} : grant'[j] = grant[j]
        /\ \A u \in Tokens \ {t} : ledger'[u] = ledger[u]
    BY <2>1 DEF SnowcatTypeOK
  <2> QED
    BY <2>1, <2>2 DEF FatesAreQuiet, Ended, LeasesLast, Minted, Backed, Carries
<1>2. CASE ExtendLease(request, reply)
  <2>1. /\ request.id \in Items /\ ledger' = ledger
        /\ \A j \in Items : /\ grant'[j].state = grant[j].state
                             /\ grant'[j].token = grant[j].token
                             /\ grant'[j].left \in {grant[j].left, LeaseTicks}
    BY <1>2 DEF ExtendLease, Carries, SnowcatTypeOK, Grants
  <2> QED
    BY <2>1 DEF FatesAreQuiet, LeasesLast, Backed, Carries
<1>3. CASE RefuseCall(request, reply)
  BY <1>3, SnowcatIdle DEF RefuseCall, snowcatVars
<1>4. ~FinishLease(request, reply)
  BY DEF FinishLease
<1> QED
  BY <1>1, <1>2, <1>3, <1>4 DEF Serve

\* An operator or another worker ends no lease on this worker's behalf.
LEMMA ElsewhereBooks ==
  ASSUME SnowcatTypeOK, BooksAgree, SnowcatElsewhere
  PROVE  BooksAgree' /\ FatesArePermanent /\ FatesAreQuiet /\ LeasesLast
<1>1. PICK i \in Items : Revoke(i) \/ TakenByOther(i) \/ ReturnedByOther(i)
  BY DEF SnowcatElsewhere
<1>2. CASE Revoke(i)
  <2> DEFINE t == grant[i].token
  <2>1. /\ grant[i].state = "leased"
        /\ t \in Tokens /\ ledger[t] = [item |-> i, fate |-> "live"]
    BY <1>2 DEF Revoke, BooksAgree
  <2>2. /\ grant'[i].state # "leased"
        /\ \A j \in Items \ {i} : grant'[j] = grant[j]
        /\ ledger'[t] = [item |-> i, fate |-> "revoked"]
        /\ \A u \in Tokens \ {t} : ledger'[u] = ledger[u]
    BY <1>2, <2>1 DEF Revoke, SnowcatTypeOK, Unheld
  <2>3. \A j \in Items : grant'[j].state = "leased" =>
          /\ grant'[j].token \in Tokens \ {t} /\ grant'[j].left > 0
          /\ ledger'[grant'[j].token] = [item |-> j, fate |-> "live"]
    BY <2>1, <2>2 DEF BooksAgree
  <2>4. \A u \in Tokens : ledger'[u].fate = "live" =>
          /\ ledger'[u].item \in Items
          /\ grant'[ledger'[u].item].state = "leased"
          /\ grant'[ledger'[u].item].token = u
    BY <2>1, <2>2 DEF BooksAgree, Carries
  <2>5. LeasesLast
    BY <2>1, <2>2 DEF LeasesLast, Minted, Backed, Carries
  <2> QED
    BY <2>1, <2>2, <2>3, <2>4, <2>5
    DEF BooksAgree, Carries, FatesArePermanent, FatesAreQuiet, Ended
<1>3. CASE TakenByOther(i) \/ ReturnedByOther(i)
  <2>1. /\ grant[i].state # "leased" /\ grant'[i].state # "leased" /\ ledger' = ledger
        /\ \A j \in Items \ {i} : grant'[j] = grant[j]
    BY <1>3 DEF TakenByOther, ReturnedByOther, SnowcatTypeOK, Unheld
  <2> QED
    BY <2>1 DEF BooksAgree, Carries, FatesArePermanent, FatesAreQuiet, LeasesLast, Backed
<1> QED
  BY <1>1, <1>2, <1>3

\* A tick takes one from every lease, at Snowcat as in the relay.
LEMMA AgeBooks ==
  ASSUME SnowcatTypeOK, BooksAgree, LeasesAge
  PROVE  /\ BooksAgree' /\ FatesArePermanent /\ FatesAreQuiet
         /\ \A t \in Tokens, i \in MaybeItem, left \in Remaining :
              Minted(i, t) /\ Backed(i, t, left) => Backed(i, t, Aged(left))'
<1> DEFINE Lapses(i) == grant[i].state = "leased" /\ grant[i].left <= 1
<1>0. \A i \in Items : grant[i].state = "leased" =>
        /\ ledger[grant[i].token].item = i
        /\ ledger[grant[i].token].fate = "live"
  BY LeasedIsLive
<1>1. ASSUME NEW i \in Items
      PROVE  /\ Lapses(i) => grant'[i].state # "leased"
             /\ ~Lapses(i) => /\ grant'[i].state = grant[i].state
                              /\ grant'[i].token = grant[i].token
             /\ grant'[i].state = "leased" => grant'[i].left = grant[i].left - 1
  <2>1. grant[i] \in Grants
    BY DEF SnowcatTypeOK
  <2>2. grant'[i] = IF Lapses(i) THEN Unheld("free")
                    ELSE IF grant[i].state = "leased"
                         THEN [grant[i] EXCEPT !.left = @ - 1] ELSE grant[i]
    BY DEF LeasesAge
  <2>3. CASE Lapses(i)
    BY <2>2, <2>3 DEF Unheld
  <2>4. CASE ~Lapses(i) /\ grant[i].state = "leased"
    BY <2>1, <2>2, <2>4 DEF Grants
  <2>5. CASE grant[i].state # "leased"
    BY <2>2, <2>5
  <2> QED
    BY <2>3, <2>4, <2>5
<1>2. ASSUME NEW t \in Tokens
      PROVE  /\ (\E i \in Items : Lapses(i) /\ grant[i].token = t) =>
                   ledger'[t] = [ledger[t] EXCEPT !.fate = "lapsed"]
             /\ ~(\E i \in Items : Lapses(i) /\ grant[i].token = t) =>
                   ledger'[t] = ledger[t]
  BY DEF LeasesAge
<1>3. ASSUME NEW t \in Tokens
      PROVE  /\ ledger'[t].item = ledger[t].item
             /\ \/ ledger'[t].fate = ledger[t].fate
                \/ ledger[t].fate = "live" /\ ledger'[t].fate = "lapsed"
             /\ ledger'[t].fate = "live" =>
                  \A i \in Items : grant[i].token = t => ~Lapses(i)
  <2>1. ledger[t] \in [item : MaybeItem, fate : Fates]
    BY DEF SnowcatTypeOK
  <2>2. CASE \E i \in Items : Lapses(i) /\ grant[i].token = t
    <3>0. PICK i \in Items : Lapses(i) /\ grant[i].token = t
      BY <2>2
    <3>1. ledger[grant[i].token].fate = "live"
      BY <1>0, <3>0
    <3>2. ledger'[t] = [ledger[t] EXCEPT !.fate = "lapsed"]
      BY <1>2, <2>2
    <3> QED
      BY <2>1, <3>0, <3>1, <3>2
  <2>3. CASE ~(\E i \in Items : Lapses(i) /\ grant[i].token = t)
    BY <1>2, <2>3
  <2> QED
    BY <2>2, <2>3
<1>4. FatesArePermanent /\ FatesAreQuiet
  BY <1>3 DEF FatesArePermanent, FatesAreQuiet, Ended
<1>5. \A j \in Items : grant'[j].state = "leased" =>
        /\ grant'[j].token \in Tokens /\ grant'[j].left > 0
        /\ ledger'[grant'[j].token] = [item |-> j, fate |-> "live"]
  <2> SUFFICES ASSUME NEW j \in Items, grant'[j].state = "leased"
               PROVE  /\ grant'[j].token \in Tokens /\ grant'[j].left > 0
                      /\ ledger'[grant'[j].token] = [item |-> j, fate |-> "live"]
    OBVIOUS
  <2>1. /\ ~Lapses(j) /\ grant[j].state = "leased" /\ grant'[j].token = grant[j].token
        /\ grant'[j].left = grant[j].left - 1
    BY <1>1
  <2>2. grant[j].left \in Nat /\ grant[j].left > 1
    BY <2>1 DEF SnowcatTypeOK, Grants
  <2>3. /\ grant[j].token \in Tokens
        /\ ledger[grant[j].token] = [item |-> j, fate |-> "live"]
    BY <2>1 DEF BooksAgree
  <2>4. ASSUME NEW i \in Items, Lapses(i), grant[i].token = grant[j].token PROVE FALSE
    <3>1. ledger[grant[i].token].item = i
      BY <1>0, <2>4
    <3> QED
      BY <2>1, <2>3, <2>4, <3>1
  <2>5. ledger'[grant[j].token] = ledger[grant[j].token]
    BY <1>2, <2>3, <2>4
  <2> QED
    BY <2>1, <2>2, <2>3, <2>5
<1>6. \A u \in Tokens : ledger'[u].fate = "live" =>
        /\ ledger'[u].item \in Items
        /\ grant'[ledger'[u].item].state = "leased"
        /\ grant'[ledger'[u].item].token = u
  BY <1>1, <1>3 DEF BooksAgree, Carries
<1>7. ASSUME NEW t \in Tokens, NEW i \in MaybeItem, NEW left \in Remaining,
             Minted(i, t), Backed(i, t, left), left > 1
      PROVE  ledger'[t].fate = "revoked" \/ (Carries(i, t)' /\ grant'[i].left >= left - 1)
  <2>1. CASE ledger[t].fate = "revoked"
    BY <1>3, <2>1
  <2>2. CASE Carries(i, t) /\ grant[i].left >= left
    <3>1. i \in Items /\ grant[i].left \in Nat
      BY <2>2 DEF Carries, SnowcatTypeOK, Grants
    <3>2. ~Lapses(i)
      BY <1>7, <2>2, <3>1
    <3> QED
      BY <1>1, <1>7, <2>2, <3>1, <3>2 DEF Carries
  <2> QED
    BY <1>7, <2>1, <2>2 DEF Backed
<1>8. \A t \in Tokens, i \in MaybeItem, left \in Remaining :
        Minted(i, t) /\ Backed(i, t, left) => Backed(i, t, Aged(left))'
  BY <1>7 DEF Aged, Backed, Remaining
<1> QED
  BY <1>4, <1>5, <1>6, <1>8 DEF BooksAgree, Carries

-----------------------------------------------------------------------------
\* Bookkeeping is inductive, given Custody.

\* A step of Snowcat's that ends no lease on this worker's behalf, while relay
\* and exchanges stand still, keeps all parts.
LEMMA BookkeepingFrame ==
  ASSUME TypeOK, Custody, Bookkeeping,
         BooksAgree', FatesArePermanent, FatesAreQuiet, LeasesLast,
         UNCHANGED <<relayVars, phase, call, renewal>>, late' \subseteq late
  PROVE  Bookkeeping'
<1> USE DEF Bookkeeping, relayVars, HasLease, Holding
<1>1. active \in Leases /\ call.reply \in Answers /\ renewal.reply \in Answers
  BY DEF TypeOK, Exchange
<1>2. /\ active.item \in MaybeItem /\ active.left \in Remaining
      /\ call.reply.item \in MaybeItem /\ call.reply.left \in Remaining
      /\ renewal.reply.left \in Remaining
  BY <1>1 DEF Leases, Answers
<1>3. \A t \in Tokens : ledger[t].fate \in Ended => ledger'[t].fate \in Ended
  BY DEF FatesArePermanent, Ended
<1>4. HasLease => Minted(active.item, active.token) /\ active.token \in Tokens
  BY DEF LeaseIsMinted, Minted
<1>5. LeaseIsMinted'
  BY DEF LeaseIsMinted, Minted, FatesArePermanent
<1>6. CallsAreBound'
  BY DEF CallsAreBound, MayClaim
<1>7. NoFinishAbroad'
  BY <1>4 DEF NoFinishAbroad, Watched, FinishServed, FatesAreQuiet
<1>8. LeaseIsBacked'
  BY <1>2, <1>4 DEF LeaseIsBacked, FinishServed, LeasesLast, Backed, Carries
<1>9. ClaimAnswered'
  BY <1>2 DEF ClaimAnswered, LeasesLast, FatesAreQuiet, FatesArePermanent, Minted, Backed, Carries
<1>10. HeartbeatAnswered'
  BY <1>2, <1>3, <1>4 DEF HeartbeatAnswered, LeasesLast, Backed, Carries
<1>11. FinishAnswered'
  BY <1>4 DEF FinishAnswered, FatesArePermanent, FateOf, Finishing, Minted
<1>12. RenewalAnswered'
  BY <1>2, <1>3, <1>4 DEF RenewalAnswered, LeasesLast, Backed, Carries, Custody,
     RenewalIsForHeldLease
<1>13. LossIsJustified'
  BY <1>3, <1>4 DEF LossIsJustified, Ended, Custody, LossBlocksCalls
<1> QED
  BY <1>5, <1>6, <1>7, <1>8, <1>9, <1>10, <1>11, <1>12, <1>13

\* Every step keeps the books, and what relay and answers say of them.
LEMMA BookkeepingStep == TypeOK /\ Custody /\ Bookkeeping /\ [Next]_vars => Bookkeeping'
<1> SUFFICES ASSUME TypeOK, Custody, Bookkeeping, [Next]_vars PROVE Bookkeeping'
  OBVIOUS
<1> USE DEF Bookkeeping, relayVars, HasLease, Holding
<1>a. active \in Leases /\ call \in Exchange /\ renewal \in Exchange
  BY DEF TypeOK
<1>b. HasLease => Minted(active.item, active.token) /\ active.token \in Tokens
  BY DEF LeaseIsMinted, Minted
<1>c. UNCHANGED <<grant, ledger>> => BooksAgree'
  BY SnowcatIdle
<1>d. call.request.tool \in Lifecycle => renewal.stage = "idle"
  BY DEF Custody, MutexHeldOnce, MutexFreeForRenewal, CallsEndWithRun, Lifecycle, Finishing
<1>e. phase # "running" => call.stage = "idle"
  BY DEF Custody, CallsEndWithRun
<1>f. call.stage = "idle" => call.request.tool \notin Lifecycle
  BY DEF Custody, CallsEndWithRun, Lifecycle, Finishing
<1>g. Finishing \subseteq Lifecycle
  BY DEF Lifecycle
<1>1. CASE HandleClaim
  BY <1>1, <1>c, <1>f, <1>g
  DEF HandleClaim, Sent, ClaimRequest, LeaseIsMinted, Minted, CallsAreBound, MayClaim,
      NoFinishAbroad, Watched, FinishServed, LeaseIsBacked, Backed, Carries,
      ClaimAnswered, HeartbeatAnswered, FinishAnswered, RenewalAnswered,
      LossIsJustified, Finishing
<1>2. CASE HandleSome
  <2>1. PICK tool \in Lifecycle \ {"claim_work"}, id \in MaybeItem,
             token \in MaybeToken : HandleLifecycle(tool, id, token)
    BY <1>2 DEF HandleSome
  <2>2. /\ call'.stage = "sent" /\ call'.request.tool = tool
        /\ HasLease /\ call'.request.id = active.item =>
              call'.request.token = active.token
        /\ call.stage = "idle"
        /\ UNCHANGED <<grant, ledger, active, lost, terminal, phase, renewal, late>>
    BY <2>1 DEF HandleLifecycle, Sent, Bound
  <2> QED
    BY <2>2, <1>c, <1>f, <1>g
    DEF LeaseIsMinted, Minted, CallsAreBound, MayClaim, NoFinishAbroad, Watched,
        FinishServed, LeaseIsBacked, Backed, Carries, ClaimAnswered,
        HeartbeatAnswered, FinishAnswered, RenewalAnswered, LossIsJustified
<1>3. CASE HandleBareHeartbeat
  BY <1>3, <1>c, <1>f, <1>g
  DEF HandleBareHeartbeat, LeaseIsMinted, CallsAreBound, MayClaim, NoFinishAbroad,
      Watched, FinishServed, LeaseIsBacked, ClaimAnswered, HeartbeatAnswered,
      FinishAnswered, RenewalAnswered, Backed, Carries, LossIsJustified
<1>4. CASE \E isTool \in BOOLEAN : HandleOther(isTool)
  <2>1. call.stage = "idle" /\ call'.stage = "sent" /\ call'.request.tool = "other"
    BY <1>4 DEF HandleOther, Sent, NoRequest
  <2>2. "other" \notin Lifecycle
    BY DEF Lifecycle, Finishing
  <2> QED
    BY <1>4, <2>1, <2>2, <1>c, <1>f, <1>g
    DEF HandleOther, LeaseIsMinted, Minted, CallsAreBound, MayClaim, NoFinishAbroad,
        Watched, FinishServed, LeaseIsBacked, Backed, Carries, ClaimAnswered,
        HeartbeatAnswered, FinishAnswered, RenewalAnswered, LossIsJustified
<1>6. CASE FailCall
  <2>1. call'.stage = "idle" /\ call'.request.tool = "other" /\ call.stage = "failed"
    BY <1>6 DEF FailCall, Idle, NoRequest
  <2>2. "other" \notin Lifecycle
    BY DEF Lifecycle, Finishing
  <2> QED
    BY <1>6, <2>1, <2>2, <1>c, <1>d, <1>g
    DEF FailCall, LeaseIsMinted, Minted, CallsAreBound, MayClaim, NoFinishAbroad,
        Watched, FinishServed, LeaseIsBacked, ClaimAnswered, HeartbeatAnswered,
        FinishAnswered, RenewalAnswered, Backed, Carries, LossIsJustified
<1>7. CASE SkipRenewal
  BY <1>7, <1>c, SnowcatIdle, BookkeepingFrame DEF SkipRenewal
<1>8. CASE BeginRenewal
  BY <1>8, <1>c
  DEF BeginRenewal, LeaseIsMinted, Minted, CallsAreBound, MayClaim, NoFinishAbroad,
      Watched, FinishServed, LeaseIsBacked, Backed, Carries, ClaimAnswered,
      HeartbeatAnswered, FinishAnswered, RenewalAnswered, LossIsJustified
<1>10. CASE ReadEOF
  BY <1>10, <1>c, <1>f, <1>g
  DEF ReadEOF, LeaseIsMinted, Minted, CallsAreBound, MayClaim, NoFinishAbroad,
      Watched, FinishServed, LeaseIsBacked, ClaimAnswered, HeartbeatAnswered,
      FinishAnswered, RenewalAnswered, Backed, Carries, LossIsJustified
<1>11. CASE ExitRun
  BY <1>11, <1>c, <1>e, <1>f, <1>g
  DEF ExitRun, LeaseIsMinted, Minted, CallsAreBound, MayClaim, NoFinishAbroad,
      Watched, FinishServed, LeaseIsBacked, ClaimAnswered, HeartbeatAnswered,
      FinishAnswered, RenewalAnswered, LossIsJustified
<1>12. CASE Kill
  <2>1. /\ call'.stage = "idle" /\ call'.request.tool = "other"
        /\ renewal'.stage = "idle" /\ phase' = "exited"
    BY <1>12 DEF Kill, Idle, NoRequest
  <2>2. "other" \notin Lifecycle
    BY DEF Lifecycle, Finishing
  <2>3. \A r \in Pending(call) \cup Pending(renewal) : r = ClaimRequest => MayClaim
    BY DEF Pending, ClaimRequest, Custody, ClaimsAreAlone, MutexHeldOnce
  <2> QED
    BY <1>12, <2>1, <2>2, <2>3, <1>c, <1>g
    DEF Kill, LeaseIsMinted, Minted, CallsAreBound, MayClaim, NoFinishAbroad,
        Watched, FinishServed, LeaseIsBacked, ClaimAnswered, HeartbeatAnswered,
        FinishAnswered, RenewalAnswered, LossIsJustified
<1>15. CASE DropCall
  <2>1. /\ call'.stage = "failed" /\ call'.request = call.request
        /\ call.stage \in {"sent", "answered"}
    BY <1>15, <1>a DEF DropCall, Failed, Exchange
  <2>2. \A r \in late' : r \in late \/ r = call.request
    BY <1>15 DEF DropCall, Pending
  <2>3. call.request = ClaimRequest => MayClaim
    BY DEF Custody, ClaimsAreAlone
  <2> QED
    BY <1>15, <2>1, <2>2, <2>3, <1>c
    DEF DropCall, LeaseIsMinted, Minted, CallsAreBound, MayClaim, NoFinishAbroad,
        Watched, FinishServed, LeaseIsBacked, Backed, Carries, ClaimAnswered,
        HeartbeatAnswered, FinishAnswered, RenewalAnswered, LossIsJustified
<1>16. CASE DropRenewal
  <2>1. /\ renewal'.stage = "failed"
        /\ renewal.stage \in {"sent", "answered"}
    BY <1>16, <1>a DEF DropRenewal, Failed, Exchange
  <2>2. \A r \in late' : r \in late \/ r.tool = "heartbeat_work"
    BY <1>16, <1>a DEF DropRenewal, Pending, Custody, MutexHeldOnce
  <2> QED
    BY <1>16, <2>1, <2>2, <1>c
    DEF DropRenewal, LeaseIsMinted, Minted, CallsAreBound, MayClaim, NoFinishAbroad,
        Watched, FinishServed, LeaseIsBacked, Backed, Carries, ClaimAnswered,
        HeartbeatAnswered, FinishAnswered, RenewalAnswered, LossIsJustified,
        Finishing, ClaimRequest
<1>18. CASE Elsewhere
  BY <1>18, ElsewhereBooks, BookkeepingFrame DEF Elsewhere, TypeOK
<1>20. CASE UNCHANGED vars
  BY <1>20, SnowcatIdle, BookkeepingFrame DEF vars
<1>5. CASE FinishCall
  <2>1. /\ phase = "running" /\ call.stage = "answered"
        /\ call'.stage = "idle" /\ call'.request.tool = "other"
        /\ UNCHANGED <<grant, ledger, renewal, due, late>>
        /\ Observe(call.request, call.reply)
    BY <1>5 DEF FinishCall, Idle, NoRequest
  <2>2. "other" \notin Lifecycle
    BY DEF Lifecycle, Finishing
  <2>3. \A r \in late : r.tool \notin Finishing /\ r # ClaimRequest
    BY <2>1 DEF NoFinishAbroad, Watched, Custody, ClaimsAreAlone, Closing
  <2>4. /\ CallsAreBound' /\ ClaimAnswered' /\ HeartbeatAnswered' /\ FinishAnswered'
        /\ \A r \in late' : r.tool \notin Finishing
        /\ ~FinishServed' /\ (phase = "running")
    BY <2>1, <2>2, <2>3, <1>g
    DEF CallsAreBound, ClaimAnswered, HeartbeatAnswered, FinishAnswered, FinishServed
  <2> USE DEF LeaseIsMinted, Minted, NoFinishAbroad, Watched, LeaseIsBacked, Backed,
              Carries, RenewalAnswered, LossIsJustified
  <2>5. CASE UNCHANGED relayVars /\ ~(call.reply.ok /\ call.request.tool \in Finishing)
    BY <2>1, <2>4, <2>5, <1>c DEF FinishServed
  <2>6. CASE /\ ~call.reply.ok /\ call.request.tool = "heartbeat_work"
             /\ HasLease /\ call.request.id = active.item /\ LoseLease
    BY <2>1, <2>4, <2>6, <1>c, <1>d
    DEF LoseLease, HeartbeatAnswered, Lifecycle, Ended, FinishServed, Finishing
  <2>7. CASE call.reply.ok /\ call.request.tool = "claim_work" /\ ObserveClaim(call.reply)
    BY <2>1, <2>4, <2>7, <1>c, <1>d DEF ObserveClaim, ClaimAnswered, Lifecycle
  <2>8. CASE /\ call.reply.ok /\ call.request.tool = "heartbeat_work"
             /\ ObserveHeartbeat(call.reply)
    <3>1. /\ active'.item = active.item /\ active'.token = active.token
          /\ active'.left = call.reply.left
      BY <2>1, <2>8, <1>a DEF ObserveHeartbeat, HeartbeatAnswered, Leases
    <3>2. ~lost
      BY <2>8 DEF Custody, LossBlocksCalls, Lifecycle
    <3> QED
      BY <2>1, <2>4, <2>8, <3>1, <3>2, <1>c, <1>d
      DEF ObserveHeartbeat, HeartbeatAnswered, Lifecycle, Finishing, FinishServed
  <2>9. CASE /\ call.reply.ok /\ call.request.tool \in Finishing
             /\ ObserveFinish(call.request.tool)
    <3>1. ~lost
      BY <2>9, <1>g DEF Custody, LossBlocksCalls
    <3> QED
      BY <2>1, <2>4, <2>9, <3>1, <1>c, <1>d, <1>g DEF ObserveFinish
  <2> QED
    BY <2>1, <2>5, <2>6, <2>7, <2>8, <2>9 DEF Observe, ObserveRefusal
<1>9. CASE FinishRenewal
  <2>1. /\ renewal.stage \in {"answered", "failed"} /\ renewal'.stage = "idle"
        /\ UNCHANGED <<grant, ledger, phase, call, late>>
    BY <1>9 DEF FinishRenewal, RenewalUnanswered, RenewalRefused, RenewalGranted, Idle
  <2>2. call.request.tool \notin Lifecycle
    BY <2>1, <1>d
  <2>3. "claim_work" \in Lifecycle /\ "heartbeat_work" \in Lifecycle
    BY DEF Lifecycle
  <2>4. Holding /\ renewal.request.id = active.item
    BY <2>1 DEF Custody, RenewalIsForHeldLease
  <2>5. ~FinishServed /\ ~FinishServed'
    BY <2>1, <2>2, <1>g DEF FinishServed
  <2>6. /\ ClaimAnswered' /\ HeartbeatAnswered' /\ FinishAnswered' /\ RenewalAnswered'
    BY <2>1, <2>2, <2>3, <1>g
    DEF ClaimAnswered, HeartbeatAnswered, FinishAnswered, RenewalAnswered
  <2> USE DEF LeaseIsMinted, Minted, CallsAreBound, MayClaim, NoFinishAbroad, Watched,
              LeaseIsBacked, Backed, Carries, LossIsJustified
  <2>7. CASE active.left <= 0 /\ LoseLease
    BY <2>1, <2>2, <2>4, <2>5, <2>6, <2>7, <1>c, <1>g DEF LoseLease
  <2>8. CASE UNCHANGED relayVars
    BY <2>1, <2>2, <2>4, <2>5, <2>6, <2>8, <1>c, <1>g
  <2>9. CASE RenewalRefused
    <3>1. ledger[active.token].fate \in Ended
      BY <2>4, <2>9 DEF RenewalRefused, RenewalAnswered
    <3> QED
      BY <2>1, <2>2, <2>4, <2>5, <2>6, <2>9, <3>1, <1>c, <1>g
      DEF RenewalRefused, LoseLease, Ended
  <2>10. CASE RenewalGranted
    <3>1. /\ active'.item = active.item /\ active'.token = active.token
          /\ active'.left = renewal.reply.left
          /\ Backed(active.item, active.token, renewal.reply.left)
          /\ UNCHANGED <<lost, terminal>>
      BY <2>4, <2>10, <1>a DEF RenewalGranted, RenewalAnswered, Leases
    <3> QED
      BY <2>1, <2>2, <2>4, <2>5, <2>6, <3>1, <1>c, <1>g
  <2> QED
    BY <1>9, <2>7, <2>8, <2>9, <2>10 DEF FinishRenewal, RenewalUnanswered
<1>13. CASE ServeCall
  <2>1. PICK reply \in Reply :
          /\ IF call.request.tool = "other"
             THEN reply = Refusal /\ UNCHANGED snowcatVars
             ELSE Serve(call.request, reply)
          /\ call' = Answered(call, reply)
    BY <1>13 DEF ServeCall
  <2>2. /\ call.stage = "sent" /\ call'.stage = "answered"
        /\ call'.request = call.request /\ call'.reply = reply
        /\ UNCHANGED <<relayVars, phase, renewal, due, late>>
    BY <1>13, <2>1, <1>a DEF ServeCall, Answered, Exchange
  <2>3. phase = "running" /\ ~FinishServed
    BY <2>2, <1>e DEF FinishServed
  <2>4. BooksAgree' /\ FatesArePermanent
    BY <2>1, SnowcatIdle, ServeBooks DEF TypeOK, snowcatVars
  <2>5. LeaseIsMinted' /\ CallsAreBound' /\ LossIsJustified'
    BY <2>2, <2>4, <1>b
    DEF LeaseIsMinted, Minted, FatesArePermanent, CallsAreBound, MayClaim,
        LossIsJustified, Custody, LossBlocksCalls
  <2>6. \A r \in late' : r.tool \notin Finishing
    BY <2>2, <2>3 DEF NoFinishAbroad, Watched
  <2>7. CASE call.request.tool \in Finishing /\ reply.ok
    <3>1. /\ Carries(call.request.id, call.request.token)
          /\ ledger' = [ledger EXCEPT ![call.request.token].fate = FateOf(call.request.tool)]
      BY <2>1, <2>7
      DEF Serve, GrantClaim, ExtendLease, FinishLease, RefuseCall, Refusal, Finishing
    <3>2. HasLease /\ call.request.token = active.token
      BY <2>2, <2>3, <2>7, <3>1
      DEF Carries, Ours, Custody, LeasesAreKnown, Closing
    <3>3. ledger'[active.token].fate = FateOf(call.request.tool)
      BY <3>1, <3>2, <1>b DEF TypeOK, SnowcatTypeOK
    <3>4. FinishServed'
      BY <2>2, <2>7 DEF FinishServed
    <3>5. NoFinishAbroad' /\ LeaseIsBacked'
      BY <2>2, <2>6, <3>4 DEF NoFinishAbroad, LeaseIsBacked
    <3>6. ClaimAnswered' /\ HeartbeatAnswered' /\ FinishAnswered'
      BY <2>2, <2>7, <3>2, <3>3
      DEF ClaimAnswered, HeartbeatAnswered, FinishAnswered, Finishing
    <3>7. RenewalAnswered'
      BY <2>2, <2>7, <1>d, <1>g DEF RenewalAnswered
    <3> QED
      BY <2>4, <2>5, <3>5, <3>6, <3>7
  <2>8. CASE ~(call.request.tool \in Finishing /\ reply.ok)
    <3>1. FatesAreQuiet /\ LeasesLast
      BY <2>1, <2>8, SnowcatIdle, ServeQuiet DEF TypeOK, snowcatVars
    <3>2. ~FinishServed'
      BY <2>2, <2>8 DEF FinishServed
    <3>3. active.item \in MaybeItem /\ active.left \in Remaining
          /\ renewal.reply.left \in Remaining /\ reply.left \in Remaining
      BY <1>a DEF Leases, Exchange, Answers, Reply, Remaining
    <3>4. NoFinishAbroad'
      BY <2>2, <2>3, <2>6, <3>1, <1>b DEF NoFinishAbroad, Watched, FatesAreQuiet
    <3>5. LeaseIsBacked'
      BY <2>2, <2>3, <3>1, <3>3, <1>b DEF LeaseIsBacked, LeasesLast, Backed, Carries
    <3>6. RenewalAnswered'
      <4>1. renewal.stage = "answered" => Holding
        BY DEF Custody, RenewalIsForHeldLease
      <4>2. \A t \in Tokens : ledger[t].fate \in Ended => ledger'[t].fate \in Ended
        BY <2>4 DEF FatesArePermanent, Ended
      <4> QED
        BY <2>2, <3>1, <3>3, <4>1, <4>2, <1>b DEF RenewalAnswered, LeasesLast, Backed, Carries
    <3>7. FinishAnswered'
      BY <2>2, <2>8 DEF FinishAnswered
    <3>8. ClaimAnswered'
      <4>1. CASE call.request.tool = "claim_work" /\ reply.ok
        <5>1. PICK i \in Items, t \in Tokens :
                /\ grant' = [grant EXCEPT ![i] =
                               [state |-> "leased", token |-> t, left |-> LeaseTicks]]
                /\ ledger' = [ledger EXCEPT ![t] = [item |-> i, fate |-> "live"]]
                /\ reply = [ok |-> TRUE, item |-> i, token |-> t, left |-> LeaseTicks]
          BY <2>1, <4>1
          DEF Serve, GrantClaim, ExtendLease, FinishLease, RefuseCall, Refusal, Finishing
        <5>2. /\ grant'[i] = [state |-> "leased", token |-> t, left |-> LeaseTicks]
              /\ ledger'[t] = [item |-> i, fate |-> "live"]
          BY <5>1 DEF TypeOK, SnowcatTypeOK
        <5>3. reply.item = i /\ reply.token = t /\ reply.left = LeaseTicks
          BY <5>1
        <5> QED
          BY <2>2, <5>2, <5>3 DEF ClaimAnswered, Minted, Backed, Carries
      <4> QED
        BY <2>2, <4>1 DEF ClaimAnswered
    <3>9. HeartbeatAnswered'
      <4>1. CASE call.request.tool = "heartbeat_work" /\ reply.ok
        <5>1. /\ Carries(call.request.id, call.request.token)
              /\ grant' = [grant EXCEPT ![call.request.id].left = LeaseTicks]
              /\ reply.item = call.request.id
          BY <2>1, <4>1
          DEF Serve, GrantClaim, ExtendLease, FinishLease, RefuseCall, Refusal, Finishing
        <5>2. HasLease /\ call.request.token = active.token
          BY <2>2, <2>3, <4>1, <5>1
          DEF Carries, Ours, Custody, LeasesAreKnown, Closing, ClaimRequest
        <5>3. call.request.id = active.item
          BY <5>1, <5>2, <1>b, LeasedIsLive DEF Carries, Minted
        <5>4. Carries(active.item, active.token)' /\ grant'[active.item].left = LeaseTicks
          BY <2>2, <5>1, <5>2, <5>3 DEF Carries, TypeOK, SnowcatTypeOK, Grants
        <5> QED
          BY <2>2, <3>3, <4>1, <5>1, <5>2, <5>3, <5>4 DEF HeartbeatAnswered, Backed, Carries
      <4>2. CASE /\ call.request.tool = "heartbeat_work" /\ ~reply.ok
                 /\ Holding /\ call.request.id = active.item
        <5>1. ~Carries(call.request.id, call.request.token) /\ ledger' = ledger
          BY <2>1, <4>2
          DEF Serve, GrantClaim, ExtendLease, FinishLease, RefuseCall, Finishing, snowcatVars
        <5>2. call.request.token = active.token
          BY <4>2 DEF CallsAreBound, Lifecycle
        <5>3. ledger[active.token].fate # "live"
          BY <4>2, <5>1, <5>2, <1>b DEF BooksAgree, Minted
        <5>4. ledger[active.token].fate \in Ended
          BY <2>3, <4>2, <5>3 DEF NoFinishAbroad, Watched
        <5> QED
          BY <2>2, <4>2, <5>1, <5>4 DEF HeartbeatAnswered
      <4> QED
        BY <2>2, <4>1, <4>2 DEF HeartbeatAnswered
    <3> QED
      BY <2>4, <2>5, <3>4, <3>5, <3>6, <3>7, <3>8, <3>9
  <2> QED
    BY <2>7, <2>8
<1>14. CASE ServeRenewal
  <2>1. PICK reply \in Reply : /\ Serve(renewal.request, reply)
                               /\ renewal' = Answered(renewal, reply)
    BY <1>14 DEF ServeRenewal
  <2>2. /\ renewal.stage = "sent" /\ renewal'.stage = "answered"
        /\ renewal'.reply = reply
        /\ UNCHANGED <<relayVars, phase, call, due, late>>
    BY <1>14, <2>1, <1>a DEF ServeRenewal, Answered, Exchange
  <2>3. /\ Holding /\ renewal.request.tool = "heartbeat_work"
        /\ renewal.request.id = active.item /\ renewal.request.token = active.token
    BY <2>2 DEF Custody, RenewalIsForHeldLease, MutexHeldOnce
  <2>4. BooksAgree' /\ FatesArePermanent /\ FatesAreQuiet /\ LeasesLast
    BY <2>1, <2>3, ServeBooks, ServeQuiet DEF TypeOK, Finishing
  <2>5. ~FinishServed /\ call.request.tool \notin Lifecycle
    BY <2>2, <1>d, <1>g DEF FinishServed
  <2>6. active.item \in MaybeItem /\ active.left \in Remaining
        /\ reply.left \in Remaining
    BY <1>a DEF Leases, Reply, Remaining
  <2>7. LeaseIsMinted' /\ CallsAreBound' /\ LossIsJustified'
    BY <2>2, <2>3, <2>4, <1>b
    DEF LeaseIsMinted, Minted, FatesArePermanent, CallsAreBound, MayClaim, LossIsJustified
  <2>8. NoFinishAbroad'
    BY <2>2, <2>4, <2>5, <1>b
    DEF NoFinishAbroad, Watched, FinishServed, FatesAreQuiet
  <2>9. LeaseIsBacked'
    BY <2>2, <2>4, <2>6, <1>b DEF LeaseIsBacked, FinishServed, LeasesLast, Backed, Carries
  <2>10. ClaimAnswered' /\ HeartbeatAnswered' /\ FinishAnswered'
    BY <2>2, <2>5, <1>g DEF ClaimAnswered, HeartbeatAnswered, FinishAnswered, Lifecycle
  <2>11. RenewalAnswered'
    <3>1. CASE reply.ok
      <4>1. /\ Carries(active.item, active.token) /\ reply.item = active.item
            /\ reply.left = LeaseTicks
            /\ grant' = [grant EXCEPT ![active.item].left = LeaseTicks]
        BY <2>1, <2>3, <3>1
        DEF Serve, GrantClaim, ExtendLease, FinishLease, RefuseCall, Refusal, Finishing
      <4>2. Carries(active.item, active.token)' /\ grant'[active.item].left = LeaseTicks
        BY <2>2, <4>1 DEF Carries, TypeOK, SnowcatTypeOK, Grants
      <4> QED
        BY <2>2, <3>1, <4>1, <4>2 DEF RenewalAnswered, Backed, Carries
    <3>2. CASE ~reply.ok
      <4>1. ~Carries(active.item, active.token) /\ ledger' = ledger
        BY <2>1, <2>3, <3>2
        DEF Serve, GrantClaim, ExtendLease, FinishLease, RefuseCall, Finishing, snowcatVars
      <4>2. ledger[active.token].fate # "live"
        BY <2>3, <4>1, <1>b DEF BooksAgree, Minted
      <4>3. ledger[active.token].fate \in Ended
        BY <2>2, <2>3, <2>5, <4>2 DEF NoFinishAbroad, Watched
      <4> QED
        BY <2>2, <3>2, <4>1, <4>3 DEF RenewalAnswered
    <3> QED
      BY <3>1, <3>2
  <2> QED
    BY <2>4, <2>7, <2>8, <2>9, <2>10, <2>11
<1>17. CASE ServeLate
  <2>1. PICK r \in late : /\ late' = late \ {r}
                         /\ \E reply \in Reply : Serve(r, reply)
    BY <1>17 DEF ServeLate
  <2>2. PICK reply \in Reply : Serve(r, reply)
    BY <2>1
  <2>3. UNCHANGED <<relayVars, phase, call, renewal, due>> /\ late' \subseteq late
    BY <1>17, <2>1 DEF ServeLate
  <2>4. BooksAgree' /\ FatesArePermanent
    BY <2>2, ServeBooks DEF TypeOK
  <2>5. CASE r.tool \notin Finishing
    <3>1. FatesAreQuiet /\ LeasesLast
      BY <2>2, <2>5, ServeQuiet DEF TypeOK
    <3> QED
      BY <2>3, <2>4, <3>1, BookkeepingFrame
  <2>6. CASE r.tool \in Finishing
    <3>1. Watched => call.request.tool \in Finishing /\ call.stage = "failed"
      BY <2>1, <2>6 DEF NoFinishAbroad
    <3>2. renewal.stage \notin {"sent", "answered"} /\ call.stage # "answered"
      BY <3>1, <1>d, <1>e, <1>g DEF Watched
    <3>3. Watched => FinishServed
      BY <3>1 DEF FinishServed
    <3>4. LeaseIsMinted' /\ CallsAreBound' /\ LossIsJustified'
      BY <2>3, <2>4, <1>b
      DEF LeaseIsMinted, Minted, FatesArePermanent, CallsAreBound, MayClaim,
          LossIsJustified, Custody, LossBlocksCalls
    <3>5. NoFinishAbroad' /\ LeaseIsBacked'
      BY <2>3, <3>1, <3>3 DEF NoFinishAbroad, LeaseIsBacked, Watched, FinishServed
    <3>6. ClaimAnswered' /\ HeartbeatAnswered' /\ FinishAnswered' /\ RenewalAnswered'
      BY <2>3, <3>2 DEF ClaimAnswered, HeartbeatAnswered, FinishAnswered, RenewalAnswered
    <3> QED
      BY <2>4, <3>4, <3>5, <3>6
  <2> QED
    BY <2>5, <2>6
<1>19. CASE Tick
  <2>1. /\ BooksAgree' /\ FatesArePermanent /\ FatesAreQuiet
        /\ \A t \in Tokens, i \in MaybeItem, left \in Remaining :
             Minted(i, t) /\ Backed(i, t, left) => Backed(i, t, Aged(left))'
    BY <1>19, AgeBooks DEF Tick, TypeOK
  <2>2. /\ active'.item = active.item /\ active'.token = active.token
        /\ active'.left = IF Up /\ Holding THEN Aged(active.left) ELSE active.left
        /\ call'.stage = call.stage /\ call'.request = call.request
        /\ call'.reply.ok = call.reply.ok /\ call'.reply.item = call.reply.item
        /\ call'.reply.token = call.reply.token
        /\ Up /\ call.reply.ok => call'.reply.left = Aged(call.reply.left)
        /\ renewal'.stage = renewal.stage
        /\ renewal'.reply.ok = renewal.reply.ok
        /\ renewal'.reply.item = renewal.reply.item
        /\ Up /\ renewal.reply.ok => renewal'.reply.left = Aged(renewal.reply.left)
        /\ UNCHANGED <<lost, terminal, phase, late>>
    <3>1. /\ call' = IF Up THEN Older(call) ELSE call
          /\ renewal' = IF Up THEN Older(renewal) ELSE renewal
          /\ active'.left = IF Up /\ Holding THEN Aged(active.left) ELSE active.left
      BY <1>19, AgeRelay, TypeSplit
    <3>2. UNCHANGED <<lost, terminal, phase, late>>
      BY <1>19 DEF Tick
    <3> QED
      BY <1>19, <1>a, <3>1, <3>2, TickFrame, AgeExchange
  <2>3. /\ active.item \in MaybeItem /\ active.left \in Remaining
        /\ call.reply.item \in MaybeItem /\ call.reply.left \in Remaining
        /\ renewal.reply.left \in Remaining
    BY <1>a DEF Leases, Exchange, Answers
  <2>4. \A t \in Tokens : ledger[t].fate \in Ended => ledger'[t].fate \in Ended
    <3>1. FatesArePermanent
      BY <2>1
    <3> QED
      BY <3>1 DEF FatesArePermanent, Ended
  <2>5. /\ phase = "running" => Up
        /\ call.stage = "answered" => Up /\ phase = "running"
        /\ renewal.stage = "answered" => Up /\ Holding
    BY <1>e DEF Up, Custody, CallsEndWithRun, RenewalIsForHeldLease
  <2>6. LeaseIsMinted' /\ CallsAreBound'
    BY <2>1, <2>2 DEF LeaseIsMinted, Minted, FatesArePermanent, CallsAreBound, MayClaim
  <2>7. NoFinishAbroad'
    BY <2>1, <2>2, <1>b DEF NoFinishAbroad, Watched, FinishServed, FatesAreQuiet
  <2>8. LeaseIsBacked'
    BY <2>1, <2>2, <2>3, <2>5, <1>b DEF LeaseIsBacked, FinishServed, Backed, Carries
  <2>9. ClaimAnswered'
    BY <2>1, <2>2, <2>3, <2>5
    DEF ClaimAnswered, FatesAreQuiet, FatesArePermanent, Minted, Backed, Carries
  <2>10. HeartbeatAnswered'
    BY <2>1, <2>2, <2>3, <2>4, <2>5, <1>b DEF HeartbeatAnswered, Backed, Carries
  <2>11. FinishAnswered'
    BY <2>1, <2>2, <1>b
    DEF FinishAnswered, FatesArePermanent, FateOf, Finishing, Minted
  <2>12. RenewalAnswered'
    BY <2>1, <2>2, <2>3, <2>4, <2>5, <1>b DEF RenewalAnswered, Backed, Carries
  <2>13. LossIsJustified'
    BY <2>2, <2>4, <1>b DEF LossIsJustified, Ended, Custody, LossBlocksCalls
  <2> QED
    BY <2>1, <2>6, <2>7, <2>8, <2>9, <2>10, <2>11, <2>12, <2>13
<1>21. CASE NoAnswer
  <2>1. /\ call'.stage = "idle" /\ call'.request.tool = "other" /\ call.stage = "sent"
    BY <1>21 DEF NoAnswer, Idle, NoRequest
  <2>2. "other" \notin Lifecycle
    BY DEF Lifecycle, Finishing
  <2> QED
    BY <1>21, <2>1, <2>2, <1>c, <1>d, <1>g
    DEF NoAnswer, LeaseIsMinted, Minted, CallsAreBound, MayClaim, NoFinishAbroad,
        Watched, FinishServed, LeaseIsBacked, ClaimAnswered, HeartbeatAnswered,
        FinishAnswered, RenewalAnswered, Backed, Carries, LossIsJustified
<1> QED
  BY <1>1, <1>2, <1>3, <1>4, <1>5, <1>6, <1>7, <1>8, <1>9, <1>10, <1>11, <1>12,
     <1>13, <1>14, <1>15, <1>16, <1>17, <1>18, <1>19, <1>20, <1>21 DEF Next

\* The inductive invariant holds throughout every behaviour.
THEOREM BookkeepingKept == Spec => []Bookkeeping
<1>1. Init => Bookkeeping
  BY DEF Init, SnowcatInit, Bookkeeping, BooksAgree, LeaseIsMinted, CallsAreBound,
         NoFinishAbroad, LeaseIsBacked, ClaimAnswered, HeartbeatAnswered,
         FinishAnswered, RenewalAnswered, LossIsJustified, HasLease, Holding,
         NoLease, Idle, NoRequest, Unheld, Lifecycle, Finishing
<1>2. TypeOK /\ Custody /\ Bookkeeping /\ [Next]_vars => Bookkeeping'
  BY BookkeepingStep
<1> QED
  BY <1>1, <1>2, TypeCorrect, CustodyKept, PTL DEF Spec

\* A running relay that counts on time left is right (observe and renew only
\* take over what Snowcat answered under the mutex): Snowcat leases the item
\* under that token for at least as long, unless an operator withdrew it or
\* the answer to a finishing call is on its way.
THEOREM BeliefKept == Spec => []BeliefIsBacked
<1>1. Bookkeeping => BeliefIsBacked
  BY DEF Bookkeeping, LeaseIsBacked, FinishServed, Backed, BeliefIsBacked, FinishUnobserved
<1> QED
  BY <1>1, BookkeepingKept, PTL

\* loseLease runs only when Snowcat ended the lease without this worker's
\* doing, or when its last reported expiry passed unrenewed.
THEOREM LossesAreJustified == Spec => []LossIsJustified
<1>1. Bookkeeping => LossIsJustified
  BY DEF Bookkeeping
<1> QED
  BY <1>1, BookkeepingKept, PTL

-----------------------------------------------------------------------------
\* Time.

\* Every step keeps Lapsing: until the ticker fires, wait grows by what left
\* loses, and only a renewal, or the lack of a lease, clears due.
LEMMA LapsingStep ==
  TypeOK /\ Custody /\ Bookkeeping /\ Lapsing /\ [Next]_vars => Lapsing'
<1> SUFFICES ASSUME TypeOK, Custody, Bookkeeping, Lapsing, [Next]_vars PROVE Lapsing'
  OBVIOUS
<1> USE DEF Lapsing, LapseIsNoticed, Timely, relayVars, HasLease, Holding, Up
<1>a. active \in Leases /\ call \in Exchange /\ renewal \in Exchange
  BY DEF TypeOK
<1>b. call.request.tool \in {"claim_work", "heartbeat_work"} => renewal.stage = "idle"
  BY DEF Custody, MutexHeldOnce, MutexFreeForRenewal, CallsEndWithRun, Lifecycle
<1>c. call.stage # "idle" => phase = "running"
  BY DEF Custody, CallsEndWithRun
<1>d. /\ active.left \in Remaining /\ call.reply.left \in Remaining
      /\ renewal.reply.left \in Remaining /\ wait \in 0 .. Interval - 1
  BY <1>a DEF Leases, Exchange, Answers, TypeOK
<1>1. CASE HandleClaim
  BY <1>1 DEF HandleClaim, Sent
<1>2. CASE HandleSome
  BY <1>2 DEF HandleSome, HandleLifecycle, Sent
<1>3. CASE HandleBareHeartbeat
  BY <1>3 DEF HandleBareHeartbeat, MutexFreeForCall
<1>4. CASE \E isTool \in BOOLEAN : HandleOther(isTool)
  BY <1>4 DEF HandleOther, Sent
<1>5. CASE FinishCall
  <2>1. /\ call.stage = "answered" /\ call'.stage = "idle" /\ phase = "running"
        /\ UNCHANGED <<wait, due, renewal>> /\ Observe(call.request, call.reply)
    BY <1>5 DEF FinishCall, Idle
  <2>2. \/ UNCHANGED relayVars
        \/ lost' \/ terminal'
        \/ /\ call.reply.ok /\ call.request.tool \in {"claim_work", "heartbeat_work"}
           /\ active'.left = call.reply.left
    BY <2>1, <1>a
    DEF Observe, ObserveRefusal, LoseLease, ObserveClaim, ObserveHeartbeat,
        ObserveFinish, Bookkeeping, HeartbeatAnswered, Leases
  <2> QED
    BY <2>1, <2>2, <1>d DEF Phases
<1>6. CASE FailCall
  BY <1>6 DEF FailCall, Idle
<1>7. CASE SkipRenewal
  BY <1>7, <1>b DEF SkipRenewal, MutexFreeForRenewal, Lifecycle
<1>8. CASE BeginRenewal
  BY <1>8, <1>b DEF BeginRenewal, MutexFreeForRenewal, Lifecycle
<1>9. CASE FinishRenewal
  <2>1. /\ renewal.stage # "idle" /\ renewal'.stage = "idle"
        /\ UNCHANGED <<call, phase, wait, due>>
    BY <1>9 DEF FinishRenewal, RenewalUnanswered, RenewalRefused, RenewalGranted, Idle
  <2>2. Holding /\ renewal.request.id = active.item
    BY <2>1 DEF Custody, RenewalIsForHeldLease
  <2>3. CASE RenewalUnanswered
    BY <2>1, <2>2, <2>3, <1>b, <1>d DEF RenewalUnanswered, LoseLease
  <2>4. CASE RenewalRefused
    BY <2>1, <2>2, <2>4, <1>b DEF RenewalRefused, LoseLease
  <2>5. CASE RenewalGranted
    BY <2>1, <2>2, <2>5, <1>a, <1>b, <1>d
    DEF RenewalGranted, Bookkeeping, RenewalAnswered, Leases, Exchange, Answers
  <2> QED
    BY <1>9, <2>3, <2>4, <2>5 DEF FinishRenewal
<1>10. CASE ReadEOF
  BY <1>10 DEF ReadEOF
<1>11. CASE ExitRun
  BY <1>11, <1>c DEF ExitRun
<1>12. CASE Kill
  BY <1>12 DEF Kill, Idle
<1>13. CASE ServeCall
  <2>1. PICK reply \in Reply :
          /\ IF call.request.tool = "other"
             THEN reply = Refusal /\ UNCHANGED snowcatVars
             ELSE Serve(call.request, reply)
          /\ call' = Answered(call, reply)
    BY <1>13 DEF ServeCall
  <2>2. /\ call'.request = call.request /\ call'.reply = reply
        /\ UNCHANGED <<relayVars, phase, renewal, wait, due>>
    BY <1>13, <2>1, <1>a DEF ServeCall, Answered, Exchange
  <2>3. reply.ok /\ call.request.tool \in {"claim_work", "heartbeat_work"} =>
          reply.left = LeaseTicks
    BY <2>1
    DEF Serve, GrantClaim, ExtendLease, FinishLease, RefuseCall, Refusal, Finishing
  <2> QED
    BY <2>2, <2>3, <1>d
<1>14. CASE ServeRenewal
  <2>1. PICK reply \in Reply : /\ Serve(renewal.request, reply)
                               /\ renewal' = Answered(renewal, reply)
    BY <1>14 DEF ServeRenewal
  <2>2. /\ renewal'.stage = "answered" /\ renewal'.reply = reply
        /\ UNCHANGED <<relayVars, phase, call, wait, due>>
    BY <1>14, <2>1, <1>a DEF ServeRenewal, Answered, Exchange
  <2>3. renewal.request.tool = "heartbeat_work"
    BY <1>14 DEF ServeRenewal, Custody, MutexHeldOnce
  <2>4. reply.ok => reply.left = LeaseTicks
    BY <2>1, <2>3
    DEF Serve, GrantClaim, ExtendLease, FinishLease, RefuseCall, Refusal, Finishing
  <2> QED
    BY <2>2, <2>4, <1>c, <1>d
<1>15. CASE DropCall
  BY <1>15, <1>a DEF DropCall, Failed, Exchange
<1>16. CASE DropRenewal
  BY <1>16, <1>a DEF DropRenewal, Failed, Exchange
<1>17. CASE ServeLate
  BY <1>17 DEF ServeLate
<1>18. CASE Elsewhere
  BY <1>18 DEF Elsewhere
<1>19. CASE Tick
  <2> DEFINE Now == Up
  <2>1. CASE Now
    <3>1. /\ wait' = IF wait + 1 = Interval THEN 0 ELSE wait + 1
          /\ due' = (due \/ wait' = 0)
          /\ UNCHANGED <<lost, terminal, phase>>
      BY <1>19, <2>1 DEF Tick
    <3>2. /\ call' = Older(call) /\ renewal' = Older(renewal)
          /\ active'.item = active.item
          /\ active'.left = IF Holding THEN Aged(active.left) ELSE active.left
      BY <1>19, <2>1, AgeRelay, TypeSplit
    <3>3. /\ call'.stage = call.stage /\ call'.request = call.request
          /\ renewal'.stage = renewal.stage
          /\ call'.reply.ok = call.reply.ok /\ renewal'.reply.ok = renewal.reply.ok
          /\ call.reply.ok => call'.reply.left = Aged(call.reply.left)
          /\ renewal.reply.ok => renewal'.reply.left = Aged(renewal.reply.left)
      BY <1>a, <3>2, AgeExchange
    <3>4. ASSUME NEW left \in Remaining, Timely(left)
          PROVE  due' \/ Aged(left) + wait' > 0
      <4>1. CASE due \/ wait + 1 = Interval
        BY <3>1, <4>1
      <4>2. CASE ~due /\ wait + 1 # Interval
        <5>1. left + wait > 0 /\ wait' = wait + 1
          BY <3>1, <3>4, <4>2
        <5>2. left # -Interval
          BY <5>1, <1>d
        <5>3. Aged(left) = left - 1
          BY <5>2 DEF Aged
        <5> QED
          BY <5>1, <5>3, <1>d
      <4> QED
        BY <4>1, <4>2
    <3>5. Timely(active.left) \/ renewal.stage # "idle" \/ ~Holding
      BY <2>1, <1>d
    <3>6. LapseIsNoticed'
      <4>1. CASE Holding /\ renewal.stage = "idle"
        <5>1. due' \/ active'.left + wait' > 0
          BY <3>2, <3>4, <3>5, <4>1, <1>d
        <5>2. active'.left \in Remaining /\ wait' \in Int
          BY <3>1, <3>2, <1>d DEF Aged
        <5> QED
          BY <5>1, <5>2
      <4>2. CASE ~Holding \/ renewal.stage # "idle"
        BY <3>1, <3>2, <3>3, <4>2
      <4> QED
        BY <4>1, <4>2
    <3> QED
      BY <3>3, <3>4, <3>6, <1>d
  <2>2. CASE ~Now
    BY <1>19, <2>2, <1>c DEF Tick, Custody, CallsEndWithRun
  <2> QED
    BY <2>1, <2>2
<1>20. CASE UNCHANGED vars
  BY <1>20 DEF vars
<1>21. CASE NoAnswer
  BY <1>21 DEF NoAnswer, Idle
<1> QED
  BY <1>1, <1>2, <1>3, <1>4, <1>5, <1>6, <1>7, <1>8, <1>9, <1>10, <1>11, <1>12,
     <1>13, <1>14, <1>15, <1>16, <1>17, <1>18, <1>19, <1>20, <1>21 DEF Next

\* A lease whose last reported expiry had passed when the ticker last fired is
\* being renewed or about to be, wherever between two firings it expired: no
\* interleaving of ticker, calls and failures lets the renewer overlook it.
THEOREM LapsesAreNoticed == Spec => []LapseIsNoticed
<1>1. Init => Lapsing
  BY DEF Init, Lapsing, LapseIsNoticed, Holding, HasLease, NoLease, Idle
<1>2. Spec => []Lapsing
  BY <1>1, LapsingStep, TypeCorrect, CustodyKept, BookkeepingKept, PTL DEF Spec
<1>3. Lapsing => LapseIsNoticed
  BY DEF Lapsing
<1> QED
  BY <1>2, <1>3, PTL

-----------------------------------------------------------------------------
\* The marker file.

\* A token's item and outcome are permanent under every step.
LEMMA FatesStep == TypeOK /\ Bookkeeping /\ [Next]_vars => FatesArePermanent
<1> SUFFICES ASSUME TypeOK, Bookkeeping, [Next]_vars PROVE FatesArePermanent
  OBVIOUS
<1>1. BooksAgree /\ SnowcatTypeOK
  BY DEF Bookkeeping, TypeOK
<1>2. CASE UNCHANGED <<grant, ledger>>
  BY <1>1, <1>2, SnowcatIdle
<1>3. CASE ServeCall
  BY <1>1, <1>3, SnowcatIdle, ServeBooks DEF ServeCall, snowcatVars
<1>4. CASE ServeRenewal
  BY <1>1, <1>4, ServeBooks DEF ServeRenewal
<1>5. CASE ServeLate
  BY <1>1, <1>5, ServeBooks DEF ServeLate
<1>6. CASE Elsewhere
  BY <1>1, <1>6, ElsewhereBooks DEF Elsewhere
<1>7. CASE Tick
  BY <1>1, <1>7, AgeBooks DEF Tick
<1>8. \/ ServeCall \/ ServeRenewal \/ ServeLate \/ Elsewhere \/ Tick
      \/ UNCHANGED <<grant, ledger>>
  BY DEF Next, HandleClaim, HandleSome, HandleLifecycle, HandleBareHeartbeat,
         HandleOther, FinishCall, FailCall, SkipRenewal, BeginRenewal, FinishRenewal,
         ReadEOF, ExitRun, Kill, DropCall, DropRenewal, NoAnswer, vars
<1> QED
  BY <1>2, <1>3, <1>4, <1>5, <1>6, <1>7, <1>8

\* Only one step writes an outcome into the marker: the answer to a finishing
\* call, and it writes the outcome that call asked for.
LEMMA OutcomesWritten ==
  ASSUME TypeOK, [Next]_vars,
         marker'.status \in {"completed", "blocked", "released"}, marker' # marker
  PROVE  /\ call.stage = "answered" /\ call.reply.ok /\ call.request.tool \in Finishing
         /\ marker'.item = active.item /\ marker'.status = FateOf(call.request.tool)
         /\ HasLease
<1> DEFINE Told(status) == marker' = marker \/ marker'.status = status
<1>1. ASSUME NEW status, WriteMarker(status)
      PROVE  /\ Told(status)
             /\ marker' # marker => active'.item # NoItem /\ marker'.item = active'.item
  BY <1>1 DEF WriteMarker
<1>2. LoseLease => Told("lease-lost")
  BY <1>1 DEF LoseLease
<1>3. CASE HandleSome
  BY <1>1, <1>3 DEF HandleSome, HandleLifecycle, NoteAttempt
<1>4. CASE ExitRun
  BY <1>1, <1>4 DEF ExitRun
<1>5. CASE FinishRenewal
  BY <1>2, <1>5
  DEF FinishRenewal, RenewalUnanswered, RenewalRefused, RenewalGranted, relayVars
<1>6. CASE FinishCall
  <2>1. call.stage = "answered" /\ Observe(call.request, call.reply)
    BY <1>6 DEF FinishCall
  <2>2. ~ObserveRefusal(call.request)
    BY <1>2 DEF ObserveRefusal, relayVars
  <2>3. ~ObserveClaim(call.reply) /\ ~ObserveHeartbeat(call.reply)
    BY <1>1 DEF ObserveClaim, ObserveHeartbeat
  <2>4. /\ call.reply.ok /\ call.request.tool \in Finishing
        /\ ObserveFinish(call.request.tool)
    BY <2>1, <2>2, <2>3 DEF Observe
  <2> QED
    BY <1>1, <2>1, <2>4 DEF ObserveFinish, HasLease
<1>7. HandleSome \/ ExitRun \/ FinishRenewal \/ FinishCall
  BY DEF Next, HandleClaim, HandleBareHeartbeat, HandleOther, FailCall, SkipRenewal,
         BeginRenewal, ReadEOF, Kill, ServeCall, ServeRenewal, DropCall, DropRenewal,
         NoAnswer, ServeLate, Elsewhere, Tick, relayVars, vars
<1> QED
  BY <1>3, <1>4, <1>5, <1>6, <1>7

\* The marker names an outcome only when Snowcat has given the item that
\* outcome for this worker, whether or not earlier markers could be written.
THEOREM MarkerIsTrue == Spec => []MarkerNeverInvents
<1>1. Init => MarkerNeverInvents
  BY DEF Init, MarkerNeverInvents, NoMarker
<1>2. TypeOK /\ TypeOK' /\ Bookkeeping /\ MarkerNeverInvents /\ [Next]_vars
        => MarkerNeverInvents'
  <2> SUFFICES ASSUME TypeOK, TypeOK', Bookkeeping, MarkerNeverInvents, [Next]_vars,
                      marker'.status \in {"completed", "blocked", "released"}
               PROVE  \E t \in Tokens :
                        ledger'[t] = [item |-> marker'.item, fate |-> marker'.status]
    BY DEF MarkerNeverInvents
  <2>1. FatesArePermanent
    BY FatesStep
  <2>2. ASSUME NEW t \in Tokens, ledger[t].item = marker'.item,
               ledger[t].fate = marker'.status
        PROVE  ledger'[t] = [item |-> marker'.item, fate |-> marker'.status]
    <3>1. ledger'[t].item = marker'.item /\ ledger'[t].fate = marker'.status
      BY <2>1, <2>2 DEF FatesArePermanent
    <3>2. ledger'[t] \in [item : MaybeItem, fate : Fates]
      BY DEF TypeOK, SnowcatTypeOK
    <3> QED
      BY <3>1, <3>2
  <2>3. CASE marker' = marker
    <3>1. PICK t \in Tokens : ledger[t] = [item |-> marker.item, fate |-> marker.status]
      BY <2>3 DEF MarkerNeverInvents
    <3> QED
      BY <2>2, <2>3, <3>1
  <2>4. CASE marker' # marker
    <3>1. /\ call.stage = "answered" /\ call.reply.ok /\ call.request.tool \in Finishing
          /\ marker'.item = active.item /\ marker'.status = FateOf(call.request.tool)
          /\ HasLease
      BY <2>4, OutcomesWritten
    <3>2. /\ active.token \in Tokens /\ ledger[active.token].item = active.item
          /\ ledger[active.token].fate = FateOf(call.request.tool)
      BY <3>1 DEF Bookkeeping, LeaseIsMinted, Minted, FinishAnswered
    <3> QED
      BY <2>2, <3>1, <3>2
  <2> QED
    BY <2>3, <2>4
<1> QED
  BY <1>1, <1>2, TypeCorrect, BookkeepingKept, PTL DEF Spec

\* Snowcat completes an item only when a complete_work is served.
LEMMA CompletionIsAsked ==
  ASSUME SnowcatTypeOK, NEW request, NEW reply, Serve(request, reply),
         request.tool # "complete_work", NEW t \in Tokens, ledger'[t].fate = "completed"
  PROVE  ledger[t].fate = "completed"
<1>1. CASE GrantClaim(request, reply)
  BY <1>1 DEF GrantClaim, SnowcatTypeOK
<1>2. CASE FinishLease(request, reply)
  BY <1>2 DEF FinishLease, FateOf, Finishing, SnowcatTypeOK
<1>3. CASE ExtendLease(request, reply) \/ RefuseCall(request, reply)
  BY <1>3 DEF ExtendLease, RefuseCall, snowcatVars
<1> QED
  BY <1>1, <1>2, <1>3 DEF Serve

\* With a writable marker every step keeps it in line with what was attempted.
LEMMA MarkerFollowsStep ==
  ~MarkerWritesFail /\ TypeOK /\ Custody /\ MarkerFollows /\ [Next]_vars => MarkerFollows'
<1> SUFFICES ASSUME ~MarkerWritesFail, TypeOK, Custody, MarkerFollows, [Next]_vars
             PROVE  MarkerFollows'
  OBVIOUS
<1> USE DEF MarkerFollows, relayVars, HasLease
<1>a. /\ active \in Leases /\ call \in Exchange /\ renewal \in Exchange
      /\ SnowcatTypeOK /\ attempted \in BOOLEAN
  BY DEF TypeOK
<1>b. ASSUME NEW status, WriteMarker(status)
      PROVE  active'.item # NoItem =>
               marker'.item = active'.item /\ marker'.attempted = attempted'
  BY <1>b DEF WriteMarker
<1>c. LoseLease => (HasLease => marker'.item = active'.item /\ marker'.attempted = attempted')
                   /\ UNCHANGED <<active, attempted>>
  BY <1>b DEF LoseLease, Holding
<1>1. CASE HandleClaim
  BY <1>1 DEF HandleClaim, Sent, ClaimRequest
<1>2. CASE HandleSome
  <2>1. PICK tool \in Lifecycle \ {"claim_work"}, id \in MaybeItem,
             token \in MaybeToken : HandleLifecycle(tool, id, token)
    BY <1>2 DEF HandleSome
  <2>2. call'.request.tool = tool /\ UNCHANGED <<ledger, active, late>>
    BY <2>1 DEF HandleLifecycle, Sent, Bound
  <2>3. CASE tool = "complete_work"
    BY <2>1, <2>2, <2>3, <1>b DEF HandleLifecycle, NoteAttempt
  <2>4. CASE tool # "complete_work"
    BY <2>1, <2>2, <2>4 DEF HandleLifecycle, NoteAttempt
  <2> QED
    BY <2>3, <2>4
<1>3. CASE HandleBareHeartbeat
  BY <1>3 DEF HandleBareHeartbeat
<1>4. CASE \E isTool \in BOOLEAN : HandleOther(isTool)
  BY <1>4 DEF HandleOther, Sent, NoRequest
<1>5. CASE FinishCall
  <2>1. /\ call'.request.tool = "other" /\ UNCHANGED <<ledger, late>>
        /\ Observe(call.request, call.reply)
    BY <1>5 DEF FinishCall, Idle, NoRequest
  <2>2. UNCHANGED attempted
    BY <2>1 DEF Observe, ObserveRefusal, LoseLease, ObserveClaim, ObserveHeartbeat,
                ObserveFinish
  <2>3. HasLease' => marker'.item = active'.item /\ marker'.attempted = attempted'
    <3>1. CASE ObserveRefusal(call.request)
      BY <3>1, <1>c DEF ObserveRefusal
    <3>2. CASE ObserveClaim(call.reply)
      BY <3>2, <1>b DEF ObserveClaim
    <3>3. CASE ObserveHeartbeat(call.reply)
      BY <3>3, <1>a DEF ObserveHeartbeat, Leases
    <3>4. CASE ObserveFinish(call.request.tool)
      BY <3>4, <1>b DEF ObserveFinish
    <3> QED
      BY <2>1, <3>1, <3>2, <3>3, <3>4 DEF Observe
  <2> QED
    BY <2>1, <2>2, <2>3
<1>6. CASE FailCall
  BY <1>6 DEF FailCall, Idle, NoRequest
<1>7. CASE SkipRenewal
  BY <1>7 DEF SkipRenewal
<1>8. CASE BeginRenewal
  BY <1>8 DEF BeginRenewal
<1>9. CASE FinishRenewal
  <2>1. UNCHANGED <<ledger, call, late, attempted>>
    BY <1>9 DEF FinishRenewal, RenewalUnanswered, RenewalRefused, RenewalGranted, LoseLease
  <2>2. HasLease' => marker'.item = active'.item /\ marker'.attempted = attempted'
    BY <1>9, <1>a, <1>c
    DEF FinishRenewal, RenewalUnanswered, RenewalRefused, RenewalGranted, Leases
  <2> QED
    BY <2>1, <2>2
<1>10. CASE ReadEOF
  BY <1>10 DEF ReadEOF
<1>11. CASE ExitRun
  BY <1>11, <1>b DEF ExitRun
<1>12. CASE Kill
  <2>1. /\ call'.request.tool = "other"
        /\ UNCHANGED <<ledger, active, attempted, marker>>
    BY <1>12 DEF Kill, Idle, NoRequest
  <2>2. \A r \in late' : \/ r \in late \/ r = call.request
                          \/ r.tool = "heartbeat_work"
    BY <1>12 DEF Kill, Pending, Custody, MutexHeldOnce
  <2> QED
    BY <2>1, <2>2
<1>13. CASE ServeCall
  <2>1. call'.request = call.request /\ UNCHANGED <<active, attempted, marker, late>>
    BY <1>13, <1>a DEF ServeCall, Answered, Exchange
  <2>2. \A t \in Tokens : ledger'[t].fate = "completed" => attempted
    <3>1. CASE call.request.tool = "complete_work"
      BY <3>1
    <3>2. CASE call.request.tool # "complete_work"
      BY <1>13, <1>a, <3>2, CompletionIsAsked DEF ServeCall, snowcatVars
    <3> QED
      BY <3>1, <3>2
  <2> QED
    BY <2>1, <2>2
<1>14. CASE ServeRenewal
  <2>1. UNCHANGED <<call, active, attempted, marker, late>>
    BY <1>14 DEF ServeRenewal
  <2>2. renewal.request.tool = "heartbeat_work"
    BY <1>14 DEF ServeRenewal, Custody, MutexHeldOnce
  <2>3. \A t \in Tokens : ledger'[t].fate = "completed" => attempted
    BY <1>14, <1>a, <2>2, CompletionIsAsked DEF ServeRenewal
  <2> QED
    BY <2>1, <2>3
<1>15. CASE DropCall
  <2>1. call'.request = call.request /\ UNCHANGED <<ledger, active, attempted, marker>>
    BY <1>15, <1>a DEF DropCall, Failed, Exchange
  <2>2. \A r \in late' : r \in late \/ r = call.request
    BY <1>15 DEF DropCall, Pending
  <2> QED
    BY <2>1, <2>2
<1>16. CASE DropRenewal
  <2>1. UNCHANGED <<ledger, call, active, attempted, marker>>
    BY <1>16 DEF DropRenewal
  <2>2. \A r \in late' : r \in late \/ r.tool = "heartbeat_work"
    BY <1>16 DEF DropRenewal, Pending, Custody, MutexHeldOnce
  <2> QED
    BY <2>1, <2>2
<1>17. CASE ServeLate
  <2>1. PICK r \in late : /\ late' = late \ {r}
                         /\ \E reply \in Reply : Serve(r, reply)
    BY <1>17 DEF ServeLate
  <2>2. UNCHANGED <<call, active, attempted, marker>>
    BY <1>17 DEF ServeLate
  <2>3. \A t \in Tokens : ledger'[t].fate = "completed" => attempted
    <3>1. CASE r.tool = "complete_work"
      BY <3>1
    <3>2. CASE r.tool # "complete_work"
      BY <1>a, <2>1, <3>2, CompletionIsAsked
    <3> QED
      BY <3>1, <3>2
  <2> QED
    BY <2>1, <2>2, <2>3
<1>18. CASE Elsewhere
  <2>1. UNCHANGED <<call, active, attempted, marker, late>>
    BY <1>18 DEF Elsewhere
  <2>2. \A t \in Tokens : ledger'[t].fate = "completed" => ledger[t].fate = "completed"
    BY <1>18, <1>a
    DEF Elsewhere, SnowcatElsewhere, Revoke, TakenByOther, ReturnedByOther, SnowcatTypeOK
  <2> QED
    BY <2>1, <2>2
<1>19. CASE Tick
  <2>1. /\ active'.item = active.item /\ call'.request = call.request
        /\ UNCHANGED <<attempted, marker, late>>
    BY <1>19, TickFrame DEF Tick
  <2>2. \A t \in Tokens : ledger'[t].fate = "completed" => ledger[t].fate = "completed"
    BY <1>19, <1>a DEF Tick, LeasesAge, SnowcatTypeOK
  <2> QED
    BY <2>1, <2>2
<1>20. CASE UNCHANGED vars
  BY <1>20 DEF vars
<1>21. CASE NoAnswer
  BY <1>21 DEF NoAnswer, Idle, NoRequest
<1> QED
  BY <1>1, <1>2, <1>3, <1>4, <1>5, <1>6, <1>7, <1>8, <1>9, <1>10, <1>11, <1>12,
     <1>13, <1>14, <1>15, <1>16, <1>17, <1>18, <1>19, <1>20, <1>21 DEF Next

\* Whenever Snowcat has completed the held item, however late the request was
\* served, the marker already says that a completion was attempted
\* (noteCompletionAttempt comes before forward).
THEOREM AttemptsAreWrittenAhead == ~MarkerWritesFail => (Spec => []AttemptIsWrittenAhead)
<1> SUFFICES ASSUME ~MarkerWritesFail PROVE Spec => []AttemptIsWrittenAhead
  OBVIOUS
<1>1. Init => MarkerFollows
  BY DEF Init, SnowcatInit, MarkerFollows, HasLease, NoLease, Idle, NoRequest
<1>2. TypeOK /\ Custody /\ MarkerFollows /\ [Next]_vars => MarkerFollows'
  BY MarkerFollowsStep
<1>3. Bookkeeping /\ MarkerFollows => AttemptIsWrittenAhead
  BY DEF Bookkeeping, LeaseIsMinted, Minted, MarkerFollows, AttemptIsWrittenAhead
<1> QED
  BY <1>1, <1>2, <1>3, TypeCorrect, CustodyKept, BookkeepingKept, PTL DEF Spec

-----------------------------------------------------------------------------
\* The refinement: relay and Snowcat implement the lease contract.

\* Snowcat alone: leases that can only be taken away are settled or kept.
LEMMA ShrinkingSettles ==
  ASSUME OursShrink, OneLeasePerWorker,
         active'.item = active.item, UNCHANGED <<lost, terminal>>
  PROVE  Contract!Settle \/ UNCHANGED Contract!contractVars
BY DEF OursShrink, OneLeasePerWorker, Contract!Settle, Contract!contractVars, Session,
       HasLease

\* A claim served while the relay may claim is a grant, if it is not refused.
LEMMA ClaimGrants ==
  ASSUME SnowcatTypeOK, Ours = {}, MayClaim, NEW request, request.tool = "claim_work",
         NEW reply \in Reply, Serve(request, reply), UNCHANGED <<active, lost, terminal>>
  PROVE  Contract!Grant \/ UNCHANGED Contract!contractVars
<1>1. UNCHANGED <<Session, active>>
  BY DEF Session, HasLease
<1>2. Contract!MayBind
  BY DEF Contract!MayBind, Session, MayClaim
<1>3. CASE OursShrink
  BY <1>1, <1>3 DEF OursShrink, Contract!contractVars
<1>4. CASE \E i \in Items : Ours' = {i}
  BY <1>1, <1>2, <1>4 DEF Contract!Grant
<1>5. OursShrink \/ \E i \in Items : Ours' = {i}
  BY ServeClaimOurs
<1> QED
  BY <1>3, <1>4, <1>5

\* Every step is a step of the contract or leaves its variables alone.
LEMMA ContractStep ==
  TypeOK /\ Custody /\ Bookkeeping /\ [Next]_vars
    => [Contract!ContractNext]_(Contract!contractVars)
<1> SUFFICES ASSUME TypeOK, Custody, Bookkeeping, [Next]_vars
             PROVE  Contract!ContractNext \/ UNCHANGED Contract!contractVars
  OBVIOUS
<1> USE DEF Contract!ContractNext
<1>a. /\ active \in Leases /\ call \in Exchange /\ renewal \in Exchange
      /\ SnowcatTypeOK /\ OneLeasePerWorker
  BY DEF TypeOK, Custody
<1>b. ASSUME UNCHANGED grant, active'.item = active.item, UNCHANGED <<lost, terminal>>
      PROVE  UNCHANGED Contract!contractVars
  BY <1>b DEF Contract!contractVars, Ours, Session, HasLease
<1>c. ASSUME LoseLease, UNCHANGED grant
      PROVE  Contract!Lose \/ UNCHANGED Contract!contractVars
  <2>1. CASE Holding
    BY <1>c, <2>1
    DEF LoseLease, Holding, HasLease, Session, Ours, Contract!Lose
  <2>2. CASE ~Holding
    BY <1>b, <1>c, <2>2 DEF LoseLease
  <2> QED
    BY <2>1, <2>2
<1>1. CASE HandleClaim \/ HandleSome \/ HandleBareHeartbeat
           \/ \E isTool \in BOOLEAN : HandleOther(isTool)
  BY <1>1, <1>b
  DEF HandleClaim, HandleSome, HandleLifecycle, HandleBareHeartbeat, HandleOther, relayVars
<1>2. CASE FinishCall
  <2>1. /\ call.stage = "answered" /\ UNCHANGED grant
        /\ Observe(call.request, call.reply) /\ phase = "running"
    BY <1>2 DEF FinishCall
  <2>2. CASE ~call.reply.ok /\ ObserveRefusal(call.request)
    BY <1>b, <1>c, <2>1, <2>2 DEF ObserveRefusal, relayVars
  <2>3. CASE call.reply.ok /\ call.request.tool = "claim_work" /\ ObserveClaim(call.reply)
    <3>1. call.request = ClaimRequest /\ MayClaim
      BY <2>3 DEF Custody, ClaimsAreAlone
    <3>2. call.reply.item \in Items
      BY <1>a, <2>1, <2>3, <3>1 DEF Custody, AnswersAreCurrent, Exchange, Answers, MaybeItem
    <3>3. Ours \subseteq {call.reply.item}
      <4> SUFFICES ASSUME NEW i \in Ours PROVE i = call.reply.item
        OBVIOUS
      <4>1. grant[i].token = call.reply.token
        BY <2>1, <3>1 DEF Custody, LeasesAreKnown, Closing, MayClaim
      <4>2. ledger[call.reply.token].item = call.reply.item
        BY <2>1, <2>3 DEF Bookkeeping, ClaimAnswered, Minted
      <4> QED
        BY <4>1, <4>2, LeasedIsLive DEF Bookkeeping, Ours
    <3>4. active'.item = call.reply.item /\ ~lost' /\ ~terminal' /\ Ours' = Ours
      BY <2>1, <2>3 DEF ObserveClaim, Ours
    <3>5. Contract!MayBind
      BY <3>1 DEF Contract!MayBind, Session, MayClaim
    <3>6. Session' = "held"
      BY <3>2, <3>4 DEF Session, HasLease
    <3> QED
      BY <3>2, <3>3, <3>4, <3>5, <3>6 DEF Contract!Bind
  <2>4. CASE /\ call.reply.ok /\ call.request.tool = "heartbeat_work"
             /\ ObserveHeartbeat(call.reply)
    BY <1>a, <1>b, <2>1, <2>4 DEF ObserveHeartbeat, Leases
  <2>5. CASE /\ call.reply.ok /\ call.request.tool \in Finishing
             /\ ObserveFinish(call.request.tool)
    <3>1. HasLease /\ ~lost /\ Ours = {}
      BY <2>1, <2>5
      DEF Bookkeeping, FinishAnswered, Custody, LossBlocksCalls, AnswersAreCurrent,
          Lifecycle
    <3>2. UNCHANGED <<active, lost>> /\ terminal' = TRUE /\ Ours' = Ours
      BY <2>1, <2>5 DEF ObserveFinish, Ours
    <3>3. CASE terminal
      BY <1>b, <2>1, <3>2, <3>3 DEF TypeOK
    <3>4. CASE ~terminal
      BY <3>1, <3>2, <3>4 DEF Contract!Finish, Session, HasLease
    <3> QED
      BY <3>3, <3>4
  <2> QED
    BY <2>1, <2>2, <2>3, <2>4, <2>5 DEF Observe
<1>3. CASE FinishRenewal
  <2>1. UNCHANGED grant
    BY <1>3 DEF FinishRenewal
  <2>2. CASE LoseLease
    BY <1>c, <2>1, <2>2
  <2>3. CASE RenewalGranted
    BY <1>a, <1>b, <2>1, <2>3 DEF RenewalGranted, Leases
  <2>4. CASE UNCHANGED relayVars
    BY <1>b, <2>1, <2>4 DEF relayVars
  <2> QED
    BY <1>3, <2>2, <2>3, <2>4 DEF FinishRenewal, RenewalUnanswered, RenewalRefused
<1>4. CASE FailCall \/ SkipRenewal \/ BeginRenewal \/ ReadEOF \/ ExitRun \/ Kill
           \/ DropCall \/ DropRenewal \/ NoAnswer
  BY <1>4, <1>b
  DEF FailCall, SkipRenewal, BeginRenewal, ReadEOF, ExitRun, Kill, DropCall,
      DropRenewal, NoAnswer, relayVars
<1>5. CASE ServeCall
  <2>1. call.stage = "sent" /\ UNCHANGED <<active, lost, terminal>>
    BY <1>5 DEF ServeCall, relayVars
  <2>2. CASE call.request.tool = "other"
    BY <1>5, <1>b, <2>1, <2>2 DEF ServeCall, snowcatVars
  <2>3. CASE call.request.tool = "claim_work"
    <3>1. Ours = {} /\ MayClaim
      BY <2>1, <2>3 DEF Custody, ClaimsAreAlone
    <3>2. PICK reply \in Reply : Serve(call.request, reply)
      BY <1>5, <2>3 DEF ServeCall
    <3> QED
      BY <1>a, <2>1, <2>3, <3>1, <3>2, ClaimGrants
  <2>4. CASE call.request.tool \notin {"other", "claim_work"}
    <3>1. OursShrink
      BY <1>5, <1>a, <2>4, ServeOtherOurs DEF ServeCall
    <3> QED
      BY <1>a, <2>1, <3>1, ShrinkingSettles
  <2> QED
    BY <2>2, <2>3, <2>4
<1>6. CASE ServeRenewal
  <2>1. OursShrink
    BY <1>6, <1>a, ServeOtherOurs DEF ServeRenewal, Custody, MutexHeldOnce
  <2> QED
    BY <1>6, <1>a, <2>1, ShrinkingSettles DEF ServeRenewal, relayVars
<1>7. CASE ServeLate
  <2>1. PICK r \in late, reply \in Reply : Serve(r, reply)
    BY <1>7 DEF ServeLate
  <2>2. UNCHANGED <<active, lost, terminal>>
    BY <1>7 DEF ServeLate, relayVars
  <2>3. CASE r.tool = "claim_work"
    <3>1. Ours = {} /\ MayClaim
      BY <2>1, <2>3 DEF Custody, ClaimsAreAlone, Bookkeeping, CallsAreBound
    <3> QED
      BY <1>a, <2>1, <2>2, <2>3, <3>1, ClaimGrants
  <2>4. CASE r.tool # "claim_work"
    <3>1. OursShrink
      BY <1>a, <2>1, <2>4, ServeOtherOurs
    <3> QED
      BY <1>a, <2>2, <3>1, ShrinkingSettles
  <2> QED
    BY <2>3, <2>4
<1>8. CASE Elsewhere
  BY <1>8, <1>a, ElsewhereOurs, ShrinkingSettles DEF Elsewhere, relayVars
<1>9. CASE Tick
  <2>1. OursShrink /\ active'.item = active.item /\ UNCHANGED <<lost, terminal>>
    BY <1>9, <1>a, AgeOurs, TickFrame DEF Tick
  <2> QED
    BY <1>a, <2>1, ShrinkingSettles
<1>10. CASE UNCHANGED vars
  BY <1>10, <1>b DEF vars
<1> QED
  BY <1>1, <1>2, <1>3, <1>4, <1>5, <1>6, <1>7, <1>8, <1>9, <1>10 DEF Next

\* The relay, with any provider, network and Snowcat, implements LeaseContract.
THEOREM RelayKeepsContract == Spec => ContractKept
<1>1. Init => Contract!ContractInit
  BY DEF Init, SnowcatInit, Unheld, NoLease, Contract!ContractInit, Ours, Session, HasLease
<1>2. TypeOK /\ Custody /\ Bookkeeping /\ [Next]_vars
        => [Contract!ContractNext]_(Contract!contractVars)
  BY ContractStep
<1> QED
  BY <1>1, <1>2, TypeCorrect, CustodyKept, BookkeepingKept, PTL
  DEF Spec, ContractKept, Contract!ContractSpec
=============================================================================
