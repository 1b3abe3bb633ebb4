---------------------------- MODULE TargetProofs ----------------------------
(* Proofs about Target: any number of branches, any number of changes,     *)
(* with or without a provider that acts while its helper runs.             *)
EXTENDS Target, TLAPS

-----------------------------------------------------------------------------
(* Commits.                                                                *)

\* A commit on top of another is one, and of a change nobody had authored.
LEMMA FreshCommit ==
  ASSUME TypeOK, made < MaxChanges, NEW c \in Commits \cup {NoCommit}
  PROVE  c \cup {Fresh} \in Commits /\ Fresh \in Changes /\ Fresh \notin 1..made
BY ChangesAssumption DEF TypeOK, Fresh, Commits, Changes, NoCommit

LEMMA HeadIsCommit == ASSUME TypeOK PROVE HEAD \in Commits
BY DEF TypeOK, HEAD

LEMMA FirstCommits == Base \in Commits /\ Submitted \in Commits
BY ChangesAssumption DEF Base, Submitted, Commits, Changes

\* What a branch is moved to is what both GitHub and its API know then.
LEMMA MovedRef ==
  ASSUME TypeOK, NEW r \in Refs, NEW c \in Commits, MoveRef(r, c)
  PROVE  /\ refs' \in [Refs -> Commits \cup {NoCommit}]
         /\ pull' \in [state : {"open", "closed", "merged"}, ref : Refs, head : Commits]
         /\ refs'[r] = c /\ \A q \in Refs \ {r} : refs'[q] = refs[q]
BY DEF TypeOK, MoveRef

-----------------------------------------------------------------------------
(* The inductive invariant.                                                *)

\* A push is under way for a bound branch, on top of its bound head.
PushIsBound ==
  job.op = "push" =>
    marker.mode = "branch" /\ job.ref = marker.ref /\ marker.bound \subseteq job.head

\* Only the item's head is ever prepared.
ItemIsBound ==
  /\ job.op = "prepare" => job.head = item.head
  /\ marker.mode # "none" => marker.bound = item.head

\* What is in the workspace, in a helper's hands or in the lease.
Heads == {tree.branch, tree.away, job.head, marker.lease}

\* Every change was authored before; so whoever commits makes a head nobody
\* else has, and a branch is at a head the worker knows only if the worker put
\* it there, or the item did.
Authored ==
  /\ \A c \in Heads \cup {item.head} : c \subseteq 1..made
  /\ \A r \in Refs : refs[r] \subseteq 1..made

Provenance ==
  \A r \in Refs : refs[r] # NoCommit /\ refs[r] \in Heads => refs[r] \in own \cup {item.head}

IInv == TypeOK /\ PushIsBound /\ ItemIsBound /\ Authored /\ Provenance

-----------------------------------------------------------------------------
(* Types.                                                                  *)

LEMMA InitTypes == Init => TypeOK
<1> SUFFICES ASSUME Init PROVE TypeOK
  OBVIOUS
<1>1. refs \in [Refs -> Commits \cup {NoCommit}]
  BY FirstCommits DEF Init
<1>2. pull \in [state : {"open", "closed", "merged"}, ref : Refs, head : Commits]
  BY FirstCommits DEF Init
<1>3. item \in [mode : Modes, head : Commits]
  BY FirstCommits DEF Init
<1>4. tree \in [on : {"cockpit", "away"}, branch : Commits, away : Commits, clean : BOOLEAN]
  BY FirstCommits DEF Init
<1>5. made \in 2..MaxChanges
  BY ChangesAssumption DEF Init
<1> QED  BY <1>1, <1>2, <1>3, <1>4, <1>5 DEF Init, TypeOK

\* One of the helper's own steps.
LEMMA HelperTypes ==
  ASSUME TypeOK, PushIsBound, BeginPrepare \/ BeginPush \/ HelperSteps \/ HelperEnds
  PROVE  TypeOK'
<1> USE DEF At, Go, Return
<1>0. HEAD \in Commits
  BY HeadIsCommit
<1>1. CASE BeginPrepare
  <2>1. job' \in Jobs
    BY <1>1 DEF BeginPrepare, TypeOK, Jobs, Steps
  <2> QED  BY <1>1, <2>1 DEF BeginPrepare, TypeOK
<1>2. CASE BeginPush
  <2>1. marker \in Markers
    BY <1>2 DEF BeginPush, TypeOK, NoMarker
  <2>2. job' \in Jobs
    BY <1>0, <1>2, <2>1 DEF BeginPush, Jobs, Steps, Markers
  <2> QED  BY <1>2, <2>2 DEF BeginPush, TypeOK
<1>3. CASE InspectPrepared
  <2>1. job \in Jobs
    BY <1>3 DEF InspectPrepared, TypeOK, NoJob
  <2>2. job' \in Jobs \cup {NoJob} /\ disturbed' \in BOOLEAN
    BY <1>3, <2>1 DEF InspectPrepared, TypeOK, Jobs, Steps
  <2> QED  BY <1>3, <2>2 DEF InspectPrepared, TypeOK
<1>4. CASE Fetch
  <2>1. job' \in Jobs \cup {NoJob}
    BY <1>4 DEF Fetch, TypeOK, Jobs, Steps, NoJob
  <2> QED  BY <1>4, <2>1 DEF Fetch, TypeOK
<1>5. CASE Checkout
  <2>1. job \in Jobs
    BY <1>5 DEF Checkout, TypeOK, NoJob
  <2>2. job' \in Jobs
    BY <1>5, <2>1 DEF Checkout, Jobs, Steps
  <2>3. tree' \in [on : {"cockpit", "away"}, branch : Commits, away : Commits, clean : BOOLEAN]
    BY <1>5, <2>1 DEF Checkout, TypeOK, Jobs
  <2> QED  BY <1>5, <2>2, <2>3 DEF Checkout, TypeOK
<1>6. CASE WriteTarget
  <2>1. job \in Jobs
    BY <1>6 DEF WriteTarget, TypeOK, NoJob
  <2>2. marker' \in Markers
    BY <1>6, <2>1 DEF WriteTarget, TypeOK, Markers, Jobs
  <2> QED  BY <1>6, <2>2 DEF WriteTarget, TypeOK
<1>7. CASE InspectLeased
  <2>1. job' \in Jobs \cup {NoJob}
    BY <1>7 DEF InspectLeased, TypeOK, Jobs, Steps, NoJob
  <2> QED  BY <1>7, <2>1 DEF InspectLeased, TypeOK
<1>8. CASE Push
  <2>1. job \in Jobs
    BY <1>8 DEF Push, TypeOK, NoJob
  <2>2. job.ref \in Refs
    BY <2>1 DEF Jobs
  <2>3. refs' \in [Refs -> Commits \cup {NoCommit}]
        /\ pull' \in [state : {"open", "closed", "merged"}, ref : Refs, head : Commits]
    BY <1>0, <1>8, <2>2, MovedRef DEF Push
  <2>4. job' \in Jobs \cup {NoJob} /\ disturbed' \in BOOLEAN
    BY <1>8, <2>1 DEF Push, TypeOK, Jobs, Steps
  <2>5. own' \subseteq Commits
    BY <1>0, <1>8 DEF Push, TypeOK
  <2> QED  BY <1>8, <2>3, <2>4, <2>5 DEF Push, TypeOK
<1>9. CASE PushRefused
  BY <1>9 DEF PushRefused, TypeOK
<1>10. CASE RecordPush
  <2>1. job \in Jobs /\ job.head \in Commits
    BY <1>10 DEF RecordPush, TypeOK, NoJob, Jobs
  <2>2. marker \in Markers
    BY <1>10 DEF RecordPush, PushIsBound, TypeOK, NoMarker
  <2>3. marker' \in Markers
    BY <1>10, <2>1, <2>2 DEF RecordPush, Markers
  <2> QED  BY <1>10, <2>3 DEF RecordPush, TypeOK
<1>11. CASE HelperEnds
  BY <1>11 DEF HelperEnds, TypeOK
<1> QED  BY <1>1, <1>2, <1>3, <1>4, <1>5, <1>6, <1>7, <1>8, <1>9, <1>10, <1>11 DEF HelperSteps

\* The provider's and everybody else's steps.
LEMMA OutsideTypes ==
  ASSUME TypeOK, Edit \/ Commit \/ SwitchBranch \/ OthersPush \/ Rename \/ Close
  PROVE  TypeOK'
<1>1. CASE Edit
  BY <1>1 DEF Edit, TypeOK
<1>2. CASE Commit
  <2>1. PICK base \in {HEAD, Base} :
          tree' = IF tree.on = "cockpit"
                  THEN [tree EXCEPT !.branch = base \cup {Fresh}, !.clean = TRUE]
                  ELSE [tree EXCEPT !.away = base \cup {Fresh}, !.clean = TRUE]
    BY <1>2 DEF Commit
  <2>2. base \cup {Fresh} \in Commits
    BY <1>2, HeadIsCommit, FirstCommits, FreshCommit DEF Commit
  <2>3. made' \in 2..MaxChanges
    BY <1>2, ChangesAssumption DEF Commit, TypeOK, Fresh
  <2>4. tree' \in [on : {"cockpit", "away"}, branch : Commits, away : Commits, clean : BOOLEAN]
    <3> DEFINE c == base \cup {Fresh}
    <3>1. c \in Commits
      BY <2>2
    <3>2. tree' = IF tree.on = "cockpit" THEN [tree EXCEPT !.branch = c, !.clean = TRUE]
                  ELSE [tree EXCEPT !.away = c, !.clean = TRUE]
      BY <2>1
    <3> HIDE DEF c
    <3> QED  BY <3>1, <3>2 DEF TypeOK
  <2> QED  BY <1>2, <2>3, <2>4 DEF Commit, TypeOK
<1>3. CASE SwitchBranch
  BY <1>3 DEF SwitchBranch, TypeOK
<1>4. CASE OthersPush
  <2>1. \E c \in Commits : MoveRef(pull.ref, c)
    <3>1. CASE MoveRef(pull.ref, item.head)
      BY <3>1 DEF TypeOK
    <3>2. CASE made < MaxChanges
               /\ \E base \in {refs[pull.ref], Base} : MoveRef(pull.ref, base \cup {Fresh})
      <4>1. refs[pull.ref] \in Commits \cup {NoCommit}
        BY DEF TypeOK
      <4> QED  BY <3>2, <4>1, FirstCommits, FreshCommit
    <3> QED  BY <1>4, <3>1, <3>2 DEF OthersPush
  <2>2. refs' \in [Refs -> Commits \cup {NoCommit}]
        /\ pull' \in [state : {"open", "closed", "merged"}, ref : Refs, head : Commits]
    BY <2>1, MovedRef DEF TypeOK
  <2>3. made' \in 2..MaxChanges
    BY <1>4, ChangesAssumption DEF OthersPush, TypeOK, Fresh
  <2> QED  BY <1>4, <2>2, <2>3 DEF OthersPush, Touched, TypeOK
<1>5. CASE Rename
  BY <1>5 DEF Rename, Touched, TypeOK
<1>6. CASE Close
  BY <1>6 DEF Close, Touched, TypeOK
<1> QED  BY <1>1, <1>2, <1>3, <1>4, <1>5, <1>6

-----------------------------------------------------------------------------
(* The invariant is inductive.                                             *)

LEMMA InitInv == Init => IInv
<1> SUFFICES ASSUME Init PROVE IInv
  OBVIOUS
<1>1. TypeOK
  BY InitTypes
<1>2. PushIsBound /\ ItemIsBound
  BY DEF Init, PushIsBound, ItemIsBound, NoJob, NoMarker
<1>3. Heads = {Base, NoCommit} /\ item.head \in {Submitted, Base}
  BY DEF Init, Heads, NoJob, NoMarker, NoCommit
<1>4. \A r \in Refs : refs[r] \in {Submitted, NoCommit}
  BY DEF Init
<1>5. Base \subseteq 1..made /\ Submitted \subseteq 1..made
  BY DEF Init, Base, Submitted
<1>6. Authored
  BY <1>3, <1>4, <1>5 DEF Authored, NoCommit
<1>7. Provenance
  BY <1>3, <1>4 DEF Provenance, NoCommit, Base, Submitted
<1> QED  BY <1>1, <1>2, <1>6, <1>7 DEF IInv

LEMMA BoundStep ==
  ASSUME IInv, [Next]_vars
  PROVE  PushIsBound' /\ ItemIsBound'
<1> USE DEF PushIsBound, ItemIsBound, At, Go, Return, NoJob, NoMarker
<1>0. TypeOK /\ PushIsBound /\ ItemIsBound
  BY DEF IInv
<1>1. CASE BeginPrepare
  BY <1>0, <1>1 DEF BeginPrepare
<1>2. CASE BeginPush
  BY <1>0, <1>2 DEF BeginPush
<1>3. CASE InspectPrepared
  <2>1. job \in Jobs /\ job.op = "prepare" /\ UNCHANGED <<item, marker>>
    BY <1>0, <1>3 DEF InspectPrepared, TypeOK
  <2>2. job' = NoJob \/ (job'.op = "prepare" /\ job'.head = job.head)
    BY <1>3, <2>1 DEF InspectPrepared, Jobs
  <2> QED  BY <1>0, <2>1, <2>2
<1>4. CASE Fetch \/ Checkout \/ InspectLeased
  BY <1>0, <1>4 DEF Fetch, Checkout, InspectLeased, TypeOK, Jobs
<1>5. CASE WriteTarget
  BY <1>0, <1>5 DEF WriteTarget
<1>6. CASE Push \/ PushRefused \/ HelperEnds
  BY <1>0, <1>6 DEF Push, PushRefused, HelperEnds, TypeOK, Jobs
<1>7. CASE RecordPush
  BY <1>0, <1>7 DEF RecordPush, TypeOK, Markers
<1>8. CASE Edit \/ Commit \/ SwitchBranch \/ OthersPush \/ Rename \/ Close \/ UNCHANGED vars
  BY <1>0, <1>8 DEF Edit, Commit, SwitchBranch, OthersPush, Rename, Close, vars
<1> QED  BY <1>1, <1>2, <1>3, <1>4, <1>5, <1>6, <1>7, <1>8 DEF Next, HelperSteps

\* A step that makes no new change, knows no head it did not know and puts no
\* branch where it was not keeps the provenance of heads.
LEMMA KnownHeads ==
  ASSUME Authored, Provenance, UNCHANGED <<item, made>>, own \subseteq own',
         \A c \in Heads' : c = NoCommit \/ c = item.head \/ c \in Heads,
         \A r \in Refs : refs'[r] \in {refs[q] : q \in Refs} \cup {NoCommit, item.head} \cup (own' \cap Heads)
  PROVE  Authored' /\ Provenance'
<1>1. Authored'
  BY DEF Authored, NoCommit
<1>2. ASSUME NEW r \in Refs, refs'[r] # NoCommit, refs'[r] \in Heads'
      PROVE  refs'[r] \in own' \cup {item.head}
  <2>1. CASE refs'[r] \in Heads /\ \E q \in Refs : refs'[r] = refs[q]
    BY <1>2, <2>1 DEF Provenance
  <2> QED  BY <1>2, <2>1
<1>3. Provenance'
  BY <1>2 DEF Provenance
<1> QED  BY <1>1, <1>3

LEMMA ProvenanceStep ==
  ASSUME IInv, [Next]_vars
  PROVE  Authored' /\ Provenance'
<1> USE DEF At, Go, Return
<1>0. TypeOK /\ PushIsBound /\ ItemIsBound /\ Authored /\ Provenance
  BY DEF IInv
<1>a. HEAD \in Heads
  BY DEF HEAD, Heads
<1>1. CASE BeginPrepare
  BY <1>0, <1>1, KnownHeads DEF BeginPrepare, Heads
<1>2. CASE BeginPush
  BY <1>0, <1>a, <1>2, KnownHeads DEF BeginPush, Heads
<1>3. CASE InspectPrepared \/ Fetch \/ InspectLeased \/ PushRefused \/ HelperEnds
  <2>1. UNCHANGED <<item, refs, tree, marker, made, own>>
        /\ (job'.head = job.head \/ job'.head = NoCommit)
    <3>1. UNCHANGED <<item, refs, tree, marker, made, own>>
      BY <1>3 DEF InspectPrepared, Fetch, InspectLeased, PushRefused, HelperEnds
    <3>2. job \in Jobs
      BY <1>0, <1>3 DEF InspectPrepared, Fetch, InspectLeased, PushRefused, HelperEnds, NoJob, TypeOK
    <3>3. job' = NoJob \/ (job' \in Jobs /\ job'.head = job.head)
      BY <1>0, <1>3, <3>2 DEF InspectPrepared, Fetch, InspectLeased, PushRefused, HelperEnds, Jobs, TypeOK, Steps
    <3> QED  BY <3>1, <3>3 DEF NoJob
  <2> QED  BY <1>0, <2>1, KnownHeads DEF Heads
<1>4. CASE Checkout
  <2>1. job'.head = job.head /\ job.head = item.head /\ job.head \in Heads
    BY <1>0, <1>4 DEF Checkout, ItemIsBound, TypeOK, Jobs, NoJob, Heads
  <2>2. tree'.branch \in Heads /\ tree'.away \in Heads
    BY <1>0, <1>4, <2>1 DEF Checkout, TypeOK, Heads
  <2> QED  BY <1>0, <1>4, <2>1, <2>2, KnownHeads DEF Checkout, Heads
<1>5. CASE WriteTarget
  <2>1. job.head = item.head
    BY <1>0, <1>5 DEF WriteTarget, ItemIsBound
  <2> QED  BY <1>0, <1>5, <2>1, KnownHeads DEF WriteTarget, Heads, NoJob
<1>6. CASE Push
  <2>1. job'.head = job.head \/ job'.head = NoCommit
    BY <1>0, <1>6 DEF Push, TypeOK, Jobs, NoJob
  <2>2. job.ref \in Refs /\ MoveRef(job.ref, HEAD) /\ HEAD \in Commits
    BY <1>0, <1>6, HeadIsCommit DEF Push, TypeOK, Jobs, NoJob
  <2>3. \A r \in Refs : refs'[r] = HEAD \/ refs'[r] = refs[r]
    BY <1>0, <2>2, MovedRef
  <2>4. HEAD \in own' \cap Heads /\ own \subseteq own'
    BY <1>a, <1>6 DEF Push
  <2>5. \A c \in Heads' : c = NoCommit \/ c \in Heads
    BY <1>6, <2>1 DEF Push, Heads
  <2> QED  BY <1>0, <1>6, <2>3, <2>4, <2>5, KnownHeads DEF Push
<1>7. CASE RecordPush
  <2>1. marker'.lease \in Heads \/ marker'.lease = marker.lease
    BY <1>0, <1>7 DEF RecordPush, TypeOK, Markers, NoMarker, Heads
  <2> QED  BY <1>0, <1>7, <2>1, KnownHeads DEF RecordPush, Heads, NoJob
<1>8. CASE Edit \/ SwitchBranch \/ UNCHANGED vars
  <2>1. UNCHANGED <<item, refs, marker, job, made, own>>
        /\ tree'.branch = tree.branch /\ tree'.away = tree.away
    BY <1>0, <1>8 DEF Edit, SwitchBranch, vars, TypeOK
  <2> QED  BY <1>0, <2>1, KnownHeads DEF Heads
<1>9. CASE Commit
  <2>1. PICK c : c \subseteq 1..made /\ Heads' \subseteq Heads \cup {c \cup {Fresh}}
    <3>1. PICK base \in {HEAD, Base} :
            tree' = IF tree.on = "cockpit"
                    THEN [tree EXCEPT !.branch = base \cup {Fresh}, !.clean = TRUE]
                    ELSE [tree EXCEPT !.away = base \cup {Fresh}, !.clean = TRUE]
      BY <1>9 DEF Commit
    <3>2. base \subseteq 1..made
      BY <1>0, <1>a DEF Authored, Base, TypeOK
    <3>3. tree'.branch \in {tree.branch, base \cup {Fresh}}
          /\ tree'.away \in {tree.away, base \cup {Fresh}}
      BY <1>0, <3>1 DEF TypeOK
    <3> QED  BY <1>9, <3>2, <3>3 DEF Commit, Heads
  <2>2. made \in Nat /\ made' = made + 1 /\ Fresh = made + 1
    BY <1>0, <1>9 DEF Commit, Fresh, TypeOK
  <2>3. c \cup {Fresh} \subseteq 1..made' /\ 1..made \subseteq 1..made' /\ Fresh \notin 1..made
    BY <2>1, <2>2
  <2>4. UNCHANGED <<item, refs, own>>
    BY <1>9 DEF Commit
  <2>5. Authored'
    BY <1>0, <2>1, <2>3, <2>4 DEF Authored
  <2>6. \A r \in Refs : refs[r] # c \cup {Fresh}
    BY <1>0, <2>3 DEF Authored
  <2>7. Provenance'
    BY <1>0, <2>1, <2>4, <2>6 DEF Provenance
  <2> QED  BY <2>5, <2>7
<1>10. CASE OthersPush
  <2>0. UNCHANGED <<item, tree, marker, job, own>> /\ Heads' = Heads /\ made \in Nat
        /\ pull.ref \in Refs /\ item.head \in Commits
    BY <1>0, <1>10 DEF OthersPush, Heads, TypeOK
  <2>1. CASE MoveRef(pull.ref, item.head) /\ UNCHANGED made
    <3>1. \A r \in Refs : refs'[r] = item.head \/ refs'[r] = refs[r]
      BY <1>0, <2>0, <2>1, MovedRef
    <3> QED  BY <1>0, <2>0, <2>1, <3>1, KnownHeads
  <2>2. CASE /\ made < MaxChanges /\ made' = Fresh
             /\ \E base \in {refs[pull.ref], Base} : MoveRef(pull.ref, base \cup {Fresh})
    <3>1. PICK base \in {refs[pull.ref], Base} : MoveRef(pull.ref, base \cup {Fresh})
      BY <2>2
    <3>2. base \in Commits \cup {NoCommit} /\ base \subseteq 1..made
      <4>1. Base \subseteq 1..made
        BY <1>0, ChangesAssumption DEF Base, TypeOK
      <4>2. refs[pull.ref] \in Commits \cup {NoCommit} /\ refs[pull.ref] \subseteq 1..made
        BY <1>0, <2>0 DEF Authored, TypeOK
      <4> QED  BY <4>1, <4>2, FirstCommits
    <3>3. base \cup {Fresh} \in Commits /\ Fresh \notin 1..made
      BY <1>0, <2>2, <3>2, FreshCommit
    <3>4. \A r \in Refs : refs'[r] = base \cup {Fresh} \/ refs'[r] = refs[r]
      BY <1>0, <2>0, <3>1, <3>3, MovedRef
    <3>5. base \cup {Fresh} \subseteq 1..made' /\ 1..made \subseteq 1..made'
      BY <2>0, <2>2, <3>2 DEF Fresh
    <3>6. Authored'
      BY <1>0, <2>0, <3>4, <3>5 DEF Authored
    <3>7. base \cup {Fresh} \notin Heads
      BY <1>0, <3>3 DEF Authored
    <3>8. Provenance'
      BY <1>0, <2>0, <3>4, <3>7 DEF Provenance
    <3> QED  BY <3>6, <3>8
  <2> QED  BY <1>10, <2>1, <2>2 DEF OthersPush
<1>11. CASE Rename
  <2>1. \A r \in Refs : refs'[r] \in {refs[q] : q \in Refs} \cup {NoCommit}
    BY <1>0, <1>11 DEF Rename, TypeOK
  <2> QED  BY <1>0, <1>11, <2>1, KnownHeads DEF Rename, Heads
<1>12. CASE Close
  <2>1. \A r \in Refs : refs'[r] \in {refs[q] : q \in Refs} \cup {NoCommit}
    BY <1>0, <1>12 DEF Close, TypeOK
  <2> QED  BY <1>0, <1>12, <2>1, KnownHeads DEF Close, Heads
<1> QED  BY <1>1, <1>2, <1>3, <1>4, <1>5, <1>6, <1>7, <1>8, <1>9, <1>10, <1>11, <1>12
         DEF Next, HelperSteps

\* All parts of the invariant hold in every state.
THEOREM InvariantHolds == Spec => []IInv
<1>1. ASSUME IInv, [Next]_vars PROVE TypeOK'
  <2>1. TypeOK /\ PushIsBound
    BY <1>1 DEF IInv
  <2>2. CASE UNCHANGED vars
    BY <2>1, <2>2 DEF vars, TypeOK
  <2> QED  BY <1>1, <2>1, <2>2, HelperTypes, OutsideTypes DEF Next
<1>2. IInv /\ [Next]_vars => IInv'
  BY <1>1, BoundStep, ProvenanceStep DEF IInv
<1> QED  BY <1>2, InitInv, PTL DEF Spec

-----------------------------------------------------------------------------
(* What follows.                                                           *)

\* Markers, jobs, workspace and branches are what the code takes them for; a
\* marker is read and written back only where there is one.
THEOREM TypeCorrect == Spec => []TypeOK
<1>1. IInv => TypeOK
  BY DEF IInv
<1> QED  BY <1>1, InvariantHolds, PTL

\* PushTarget never takes the branch from a head that is neither the bound one
\* nor one this worker put there, whatever people and provider do between its
\* commands.
THEOREM OthersKept == Spec => PushKeepsOthers
<1> DEFINE Kept == /\ refs[marker.ref] \in own \cup {marker.bound}
                   /\ HEAD = job.head => marker.bound \subseteq refs'[marker.ref]
<1>1. ASSUME IInv, Next, Pushing
      PROVE  Kept
  <2>0. TypeOK /\ PushIsBound /\ ItemIsBound /\ Provenance
    BY <1>1 DEF IInv
  <2>1. Push
    BY <1>1 DEF Pushing, At, Go, Return, NoJob, Next, HelperSteps, BeginPrepare, BeginPush,
       InspectPrepared, Fetch, Checkout, WriteTarget, InspectLeased, PushRefused, RecordPush,
       HelperEnds, Edit, Commit, SwitchBranch, OthersPush, Rename, Close
  <2>2. job.op = "push" /\ job \in Jobs /\ job.ref \in Refs /\ job.ref = marker.ref
        /\ marker.mode = "branch" /\ marker.bound \subseteq job.head
    BY <2>0, <2>1 DEF Push, At, PushIsBound, TypeOK, Jobs, NoJob
  <2>3. marker \in Markers /\ marker.lease \in Commits /\ marker.bound = item.head
    BY <2>0, <2>2 DEF TypeOK, NoMarker, Markers, ItemIsBound
  <2>4. refs'[job.ref] = HEAD /\ \A q \in Refs \ {job.ref} : refs'[q] = refs[q]
    BY <2>0, <2>1, <2>2, HeadIsCommit, MovedRef DEF Push
  <2>5. refs[job.ref] # HEAD
    BY <1>1, <2>0, <2>1, <2>2 DEF Pushing, Push, MoveRef, TypeOK
  <2>6. refs[job.ref] = marker.lease
    BY <2>1, <2>5 DEF Push, Accepts
  <2>7. refs[marker.ref] \in own \cup {marker.bound}
    BY <2>0, <2>2, <2>3, <2>6 DEF Provenance, Heads, Commits, NoCommit
  <2> QED  BY <2>2, <2>4, <2>7
<1>2. IInv /\ [Next]_vars => [Pushing => Kept]_vars
  BY <1>1
<1> QED  BY <1>2, InvariantHolds, PTL DEF Spec, PushKeepsOthers
=============================================================================
