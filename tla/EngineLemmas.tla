----------------------------- MODULE EngineLemmas -----------------------------
(***************************************************************************)
(* Proofs about the admission core: type correctness, and the agreement of *)
(* the library's gates with the runtime policy, for any number of torrents,*)
(* any failures and any commands.                                          *)
(*                                                                         *)
(* The argument is local to one runtime.  Good is the set of runtimes that *)
(* are well typed and whose gates agree with their policy; every transform *)
(* that the engine applies maps a good runtime to a good one, and every    *)
(* action replaces runtimes by transforms of themselves.                   *)
(***************************************************************************)
EXTENDS Engine, RuntimePolicyProofs, FiniteSetTheorems

GateOK(r) ==
    /\ r.down => PayloadEligible(r.policy) /\ ~r.writeError
    /\ r.up => UploadEligible(r.policy) /\ ~BTNoUpload

Good == {r \in Runtimes : GateOK(r)}

-----------------------------------------------------------------------------
\* Tokens.

\* Fresh is a number outside its finite argument.
LEMMA FreshIsNew ==
  ASSUME NEW used, IsFiniteSet(used)
  PROVE  Fresh(used) \in Nat /\ Fresh(used) \notin used
<1> DEFINE n == Cardinality(used)
<1>1. n \in Nat
  BY FS_CardinalityType
<1>2. ASSUME 0 .. n \subseteq used PROVE FALSE
  <2>1. Cardinality(0 .. n) = n + 1
    BY <1>1, FS_Interval
  <2>2. Cardinality(0 .. n) <= n
    BY <1>2, FS_Subset, Zenon
  <2> QED
    BY <1>1, <2>1, <2>2
<1>3. \E k \in 0 .. n : k \notin used
  BY <1>2
<1>4. Fresh(used) \in 0 .. n /\ Fresh(used) \notin used
  BY <1>3 DEF Fresh
<1> QED
  BY <1>1, <1>4

\* The tokens that a finite set of work records holds are finitely many.
LEMMA HeldTokensFinite ==
  ASSUME NEW S, IsFiniteSet(S)
  PROVE  /\ IsFiniteSet({w.epoch : w \in S})
         /\ IsFiniteSet({w.slot : w \in S})
         /\ IsFiniteSet({w.gen : w \in S})
         /\ IsFiniteSet({w.fence.att : w \in S})
<1>1. [w \in S |-> w.epoch] \in Surjection(S, {w.epoch : w \in S})
  BY DEF Surjection
<1>2. [w \in S |-> w.slot] \in Surjection(S, {w.slot : w \in S})
  BY DEF Surjection
<1>3. [w \in S |-> w.gen] \in Surjection(S, {w.gen : w \in S})
  BY DEF Surjection
<1>4. [w \in S |-> w.fence.att] \in Surjection(S, {w.fence.att : w \in S})
  BY DEF Surjection
<1> QED
  BY <1>1, <1>2, <1>3, <1>4, FS_Surjection

-----------------------------------------------------------------------------
\* Transforms of one runtime.

\* applyStateEventLocked keeps the type and moves no gate.
LEMMA EventType ==
  ASSUME NEW r \in Runtimes, NEW d \in Decisions
  PROVE  /\ Event(r, d) \in Runtimes
         /\ Event(r, d).policy = d.policy
         /\ Event(r, d).down = r.down
         /\ Event(r, d).up = r.up
         /\ Event(r, d).writeError = r.writeError
         /\ Event(r, d).gen = r.gen
<1> DEFINE e == IF d.policy = r.policy THEN r.epoch ELSE r.epoch + 1
           s == r.started /\ ~d.resetDownload
           a == IF d.invalidateApplied THEN 0 ELSE r.applied
<1>1. e \in Nat /\ s \in BOOLEAN /\ a \in Nat
  BY DEF Runtimes
<1>2. Event(r, d) = [r EXCEPT !.policy = d.policy, !.epoch = e,
                              !.started = s, !.applied = a]
  BY DEF Event
<1> HIDE DEF e, s, a
<1>3. d.policy \in Policies
  BY DEF Decisions
<1> DEFINE r1 == [r EXCEPT !.policy = d.policy]
           r2 == [r1 EXCEPT !.epoch = e]
           r3 == [r2 EXCEPT !.started = s]
           r4 == [r3 EXCEPT !.applied = a]
<1>4. r1 \in Runtimes
  BY <1>3 DEF Runtimes
<1> HIDE DEF r1
<1>5. r2 \in Runtimes
  BY <1>1, <1>4 DEF Runtimes
<1> HIDE DEF r2
<1>6. r3 \in Runtimes
  BY <1>1, <1>5 DEF Runtimes
<1> HIDE DEF r3
<1>7. r4 \in Runtimes
  BY <1>1, <1>6 DEF Runtimes
<1> HIDE DEF r4
<1>8. Event(r, d) = r4
  BY <1>2 DEF r1, r2, r3, r4
<1>9. /\ Event(r, d).policy = d.policy
      /\ Event(r, d).down = r.down
      /\ Event(r, d).up = r.up
      /\ Event(r, d).writeError = r.writeError
      /\ Event(r, d).gen = r.gen
  BY <1>2 DEF Runtimes
<1> QED
  BY <1>7, <1>8, <1>9

\* Fields that no gate depends on may take any value of their type.
LEMMA GoodFlag ==
  ASSUME NEW r \in Good, NEW b \in BOOLEAN
  PROVE  /\ [r EXCEPT !.preparing = b] \in Good
         /\ [r EXCEPT !.probing = b] \in Good
         /\ [r EXCEPT !.started = b] \in Good
         /\ [r EXCEPT !.verifying = b] \in Good
         /\ [r EXCEPT !.expected = b] \in Good
         /\ [r EXCEPT !.info = b] \in Good
         /\ [r EXCEPT !.detaching = b] \in Good
         /\ [r EXCEPT !.persisted = b] \in Good
<1>1. [r EXCEPT !.preparing = b] \in Good
  BY DEF Good, GateOK, Runtimes
<1>2. [r EXCEPT !.probing = b] \in Good
  BY DEF Good, GateOK, Runtimes
<1>3. [r EXCEPT !.started = b] \in Good
  BY DEF Good, GateOK, Runtimes
<1>4. [r EXCEPT !.verifying = b] \in Good
  BY DEF Good, GateOK, Runtimes
<1>5. [r EXCEPT !.expected = b] \in Good
  BY DEF Good, GateOK, Runtimes
<1>6. [r EXCEPT !.info = b] \in Good
  BY DEF Good, GateOK, Runtimes
<1>7. [r EXCEPT !.detaching = b] \in Good
  BY DEF Good, GateOK, Runtimes
<1>8. [r EXCEPT !.persisted = b] \in Good
  BY DEF Good, GateOK, Runtimes
<1> QED
  BY <1>1, <1>2, <1>3, <1>4, <1>5, <1>6, <1>7, <1>8

\* Tokens are compared by their holders; no gate depends on their values.
LEMMA GoodToken ==
  ASSUME NEW r \in Good, NEW n \in Nat
  PROVE  /\ [r EXCEPT !.epoch = n] \in Good
         /\ [r EXCEPT !.slotToken = n] \in Good
         /\ [r EXCEPT !.gen = n] \in Good
<1>1. [r EXCEPT !.epoch = n] \in Good
  BY DEF Good, GateOK, Runtimes
<1>2. [r EXCEPT !.slotToken = n] \in Good
  BY DEF Good, GateOK, Runtimes
<1>3. [r EXCEPT !.gen = n] \in Good
  BY DEF Good, GateOK, Runtimes
<1> QED
  BY <1>1, <1>2, <1>3

\* A binding (bindRuntime) installs a fence and an acknowledgment only.
LEMMA GoodBinding ==
  ASSUME NEW r \in Good, NEW f \in Fences, NEW n \in Nat
  PROVE  [r EXCEPT !.fence = f, !.applied = n] \in Good
  BY Zenon DEF Good, GateOK, Runtimes

\* The keys that a binding carries forward do not move a gate.
LEMMA GoodSafety ==
  ASSUME NEW r \in Good, NEW k \in SUBSET SafetyKinds
  PROVE  [r EXCEPT !.safety = k] \in Good
  BY DEF Good, GateOK, Runtimes

\* Readers come and go without moving a gate.
LEMMA GoodReaders ==
  ASSUME NEW r \in Good, NEW s \in SUBSET {"stream", "preload"}
  PROVE  [r EXCEPT !.readers = s] \in Good
  BY DEF Good, GateOK, Runtimes

\* Closing a gate keeps a runtime good.
LEMMA GoodClose ==
  ASSUME NEW r \in Good
  PROVE  /\ [r EXCEPT !.down = FALSE] \in Good
         /\ [r EXCEPT !.up = FALSE] \in Good
         /\ [r EXCEPT !.down = FALSE, !.up = FALSE] \in Good
<1> DEFINE s == [r EXCEPT !.down = FALSE]
<1>1. s \in Good
  BY Zenon DEF Good, GateOK, Runtimes
<1>2. [r EXCEPT !.up = FALSE] \in Good
  BY Zenon DEF Good, GateOK, Runtimes
<1> HIDE DEF s
<1>3. [s EXCEPT !.up = FALSE] \in Good
  BY <1>1, Zenon DEF Good, GateOK, Runtimes
<1> QED
  BY <1>1, <1>2, <1>3 DEF s

\* applyQuiesceLocked executes a safe decision safely.
LEMMA QuiesceGood ==
  ASSUME NEW r \in Good, NEW d, Safe(r.policy, d)
  PROVE  Quiesce(r, d) \in Good /\ Quiesce(r, d).policy = d.policy
<1> DEFINE e == Event(r, d)
           x == e.down /\ ~d.closePayload
           y == e.up /\ ~d.closeUpload
<1>1. r \in Runtimes /\ d \in Decisions /\ r.policy \in Policies
  BY DEF Good, Safe, Runtimes
<1>2. /\ e \in Runtimes
      /\ e.policy = d.policy
      /\ e.down = r.down
      /\ e.up = r.up
      /\ e.writeError = r.writeError
  BY <1>1, EventType
<1>3. x \in BOOLEAN /\ y \in BOOLEAN
  OBVIOUS
<1>4. Quiesce(r, d) = [e EXCEPT !.down = x, !.up = y]
  BY DEF Quiesce
<1>5. x => PayloadEligible(d.policy) /\ ~r.writeError
  BY <1>1, <1>2, Zenon DEF Good, GateOK, Safe, GateSafe
<1>6. y => UploadEligible(d.policy) /\ ~BTNoUpload
  BY <1>1, <1>2, Zenon DEF Good, GateOK, Safe, GateSafe
<1> HIDE DEF e, x, y
<1>7. [e EXCEPT !.down = x, !.up = y] \in Runtimes
  BY <1>2, <1>3, Zenon DEF Runtimes
<1>8. /\ [e EXCEPT !.down = x, !.up = y].down = x
      /\ [e EXCEPT !.down = x, !.up = y].up = y
      /\ [e EXCEPT !.down = x, !.up = y].policy = e.policy
      /\ [e EXCEPT !.down = x, !.up = y].writeError = e.writeError
  BY <1>2 DEF Runtimes
<1> QED
  BY <1>2, <1>4, <1>5, <1>6, <1>7, <1>8, Zenon DEF Good, GateOK

\* Reopening upload by a safe decision as well.
LEMMA ReopenGood ==
  ASSUME NEW r \in Good, NEW d, Safe(r.policy, d)
  PROVE  Reopen(r, d) \in Good
<1> DEFINE q == Quiesce(r, d)
           y == q.up \/ (d.allowUpload /\ ~BTNoUpload)
<1>1. q \in Good /\ q.policy = d.policy
  BY QuiesceGood
<1>2. y \in BOOLEAN
  OBVIOUS
<1>3. Reopen(r, d) = [q EXCEPT !.up = y]
  BY DEF Reopen
<1>4. y => UploadEligible(d.policy) /\ ~BTNoUpload
  BY <1>1 DEF Good, GateOK, Safe, GateSafe
<1> HIDE DEF q, y
<1> QED
  BY <1>1, <1>2, <1>3, <1>4 DEF Good, GateOK, Runtimes

\* A fault and a failed apply close both gates.
LEMMA FaultGood ==
  ASSUME NEW r \in Good, NEW kind \in SafetyKinds
  PROVE  Fault(r, kind) \in Good /\ ApplyFailed(r) \in Good
<1>1. r.policy \in Policies
  BY DEF Good, Runtimes
<1>2. {kind} \in SUBSET Faults /\ {} \in SUBSET Faults
  BY DEF SafetyKinds, Faults
<1>3. Safe(r.policy, Faulted(r.policy, {kind})) /\ Safe(r.policy, Faulted(r.policy, {}))
  BY <1>1, <1>2, StoppingSafe, Zenon
<1> DEFINE q == Quiesce(r, Faulted(r.policy, {kind}))
<1>4. q \in Good /\ ApplyFailed(r) \in Good
  BY <1>3, QuiesceGood DEF ApplyFailed
<1> HIDE DEF q
<1>5. q.safety \cup {kind} \in SUBSET SafetyKinds
  BY <1>4 DEF Good, Runtimes
<1>6. Fault(r, kind) = [q EXCEPT !.safety = q.safety \cup {kind}]
  BY DEF Fault, q
<1> QED
  BY <1>4, <1>5, <1>6, GoodSafety

\* A decision that closes neither gate may release the background gate.
LEMMA BackgroundGood ==
  ASSUME NEW r \in Good, NEW d, Safe(r.policy, d), ~d.closePayload, ~d.closeUpload
  PROVE  Background(r, d) \in Good
<1> DEFINE e == Event(r, d)
           x == e.down /\ ~(d.closeBackground /\ "stream" \notin r.readers)
<1>1. r \in Runtimes /\ d \in Decisions /\ r.policy \in Policies
  BY DEF Good, Safe, Runtimes
<1>2. /\ e \in Runtimes
      /\ e.policy = d.policy
      /\ e.down = r.down
      /\ e.up = r.up
      /\ e.writeError = r.writeError
  BY <1>1, EventType
<1>3. x \in BOOLEAN
  OBVIOUS
<1>4. Background(r, d) = [e EXCEPT !.down = x]
  BY DEF Background
<1>5. x => PayloadEligible(d.policy) /\ ~r.writeError
  BY <1>1, <1>2, Zenon DEF Good, GateOK, Safe, GateSafe
<1>6. e.up => UploadEligible(d.policy) /\ ~BTNoUpload
  BY <1>1, <1>2, Zenon DEF Good, GateOK, Safe, GateSafe
<1> HIDE DEF e, x
<1> QED
  BY <1>2, <1>3, <1>4, <1>5, <1>6 DEF Good, GateOK, Runtimes

\* An event without effects on the gates is accepted by its permission.
LEMMA UnforcedGood ==
  ASSUME NEW r \in Good, NEW d, Safe(r.policy, d), ~d.closePayload, ~d.closeUpload
  PROVE  Event(r, d) \in Good
<1>1. r \in Runtimes /\ d \in Decisions /\ r.policy \in Policies
  BY DEF Good, Safe, Runtimes
<1> QED
  BY <1>1, EventType DEF Good, GateOK, Safe, GateSafe

\* The disk latch closes the payload gate.
LEMMA BlockDownloadGood ==
  ASSUME NEW r \in Good, NEW reason \in Reasons, NEW saved \in BOOLEAN
  PROVE  BlockDownload(r, reason, saved) \in Good
<1> DEFINE d == DiskBlocked(r.policy, reason)
           e == Event(r, d)
           x == (e.persisted /\ r.policy.disk = reason) \/ saved
<1>1. r \in Runtimes /\ r.policy \in Policies
  BY DEF Good, Runtimes
<1>2. Safe(r.policy, d) /\ ~d.closeUpload
  BY <1>1, DiskBlockedSafe, Zenon DEF DiskBlocked, Decision
<1>3. d \in Decisions
  BY <1>2 DEF Safe
<1>4. /\ e \in Runtimes
      /\ e.policy = d.policy
      /\ e.up = r.up
  BY <1>1, <1>3, EventType
<1>5. e.up => UploadEligible(e.policy) /\ ~BTNoUpload
  BY <1>1, <1>2, <1>4, Zenon DEF Good, GateOK, Safe, GateSafe
<1>6. x \in BOOLEAN
  OBVIOUS
<1>7. BlockDownload(r, reason, saved) = [e EXCEPT !.down = FALSE, !.persisted = x]
  BY DEF BlockDownload
<1> HIDE DEF d, e, x
<1> DEFINE c == [e EXCEPT !.down = FALSE]
<1>8. c \in Good
  BY <1>4, <1>5, Zenon DEF Good, GateOK, Runtimes
<1> HIDE DEF c
<1>9. [c EXCEPT !.persisted = x] \in Good
  BY <1>6, <1>8, GoodFlag, Zenon
<1> QED
  BY <1>7, <1>9 DEF c

\* An observed completion keeps the agreement of gates and policy.
LEMMA ReconcileSelectionGood ==
  ASSUME NEW r \in Good, NEW c \in Completions
  PROVE  ReconcileSelection(r, c) \in Good
<1>1. r.policy \in Policies
  BY DEF Good, Runtimes
<1>2. c.selected \in BOOLEAN /\ c.whole \in BOOLEAN /\ c.empty \in BOOLEAN
  BY CompletionAssumption
<1> DEFINE o == SelectionObserved(r.policy, c.selected, c.whole, c.empty)
<1>3. Safe(r.policy, o)
  BY <1>1, <1>2, SlotEventsSafe
<1>4. ~o.closePayload /\ ~o.closeUpload
  BY DEF SelectionObserved, Decision, Unforced
<1> HIDE DEF o
<1> QED
  BY <1>3, <1>4, BackgroundGood DEF ReconcileSelection, o

\* A granted slot opens no gate.
LEMMA GrantGood ==
  ASSUME NEW r \in Good
  PROVE  Grant(r) \in Good
<1> DEFINE q == SlotRequested(r.policy)
           e == Event(r, q)
<1>1. r.policy \in Policies
  BY DEF Good, Runtimes
<1>2. Safe(r.policy, q)
  BY <1>1, SlotEventsSafe, Zenon
<1>3. ~q.closePayload /\ ~q.closeUpload
  BY DEF SlotRequested, Decision, Unforced
<1>4. Grant(r) = [e EXCEPT !.slotToken = e.slotToken + 1]
  BY DEF Grant
<1> HIDE DEF q
<1>5. e \in Good
  BY <1>2, <1>3, UnforcedGood
<1> HIDE DEF e
<1>6. e.slotToken + 1 \in Nat
  BY <1>5 DEF Good, Runtimes
<1> QED
  BY <1>4, <1>5, <1>6, GoodToken, Zenon

\* A released slot closes the payload gate or leaves it to a stream.
LEMMA ReleaseSlotGood ==
  ASSUME NEW r \in Good
  PROVE  ReleaseSlot(r) \in Good
<1> DEFINE q == SlotReleased(r.policy)
<1>1. r.policy \in Policies
  BY DEF Good, Runtimes
<1>2. Safe(r.policy, q)
  BY <1>1, SlotEventsSafe, Zenon
<1>3. ~q.closePayload /\ ~q.closeUpload
  BY DEF SlotReleased, Decision
<1> HIDE DEF q
<1> QED
  BY <1>2, <1>3, BackgroundGood DEF ReleaseSlot, q

\* The absent runtime, also while its library object is being dropped.
LEMMA AbsentGood == Absent \in Good /\ Detached \in Good
<1>1. Absent \in Runtimes /\ ~Absent.down /\ ~Absent.up
  BY ZeroPolicyType DEF Absent, Runtimes, Unbound, Fences
<1>2. Absent \in Good
  BY <1>1 DEF Good, GateOK
<1> QED
  BY <1>2, GoodFlag, Zenon DEF Detached

-----------------------------------------------------------------------------
\* Runtimes of the commands and of verification.

\* A full activation closes the payload gate and may reopen upload.
LEMMA ActivateGood ==
  ASSUME NEW r \in Good, NEW phase, NEW err, NEW recovered \in BOOLEAN
  PROVE  Activate(r, phase, err, recovered) \in Good
<1> DEFINE d == Activated(r.policy, phase, err, r.policy.disk, recovered)
           n == Reopen(r, d)
           m == [n EXCEPT !.down = FALSE]
<1>1. r.policy \in Policies
  BY DEF Good, Runtimes
<1>2. r.policy.disk \in Reasons \cup {NoReason}
  BY <1>1 DEF Policies
<1>3. Safe(r.policy, d)
  BY <1>1, <1>2, ImportingSafe
<1>4. d.allowUpload => UploadEligible(d.policy)
  BY DEF Activated, Reconciled, Decision
<1> HIDE DEF d
<1>5. n \in Good
  BY <1>3, <1>4, ReopenGood, Zenon
<1> HIDE DEF n
<1>6. m \in Good
  BY <1>5, GoodClose, Zenon
<1>7. Activate(r, phase, err, recovered) =
        IF recovered
        THEN [n EXCEPT !.down = FALSE, !.persisted = FALSE, !.safety = {},
                       !.expected = FALSE]
        ELSE m
  BY DEF Activate, n, d
<1>8. [n EXCEPT !.down = FALSE, !.persisted = FALSE, !.safety = {},
                !.expected = FALSE] \in Good
  <2> DEFINE a == [m EXCEPT !.persisted = FALSE]
             b == [a EXCEPT !.safety = {}]
             c == [b EXCEPT !.expected = FALSE]
  <2> HIDE DEF m
  <2>1. a \in Good
    BY <1>6, GoodFlag, Zenon
  <2> HIDE DEF a
  <2>2. b \in Good
    BY <2>1, GoodSafety
  <2> HIDE DEF b
  <2>3. c \in Good
    BY <2>2, GoodFlag, Zenon
  <2> QED
    BY <2>3 DEF m, a, b, c
<1> QED
  BY <1>6, <1>7, <1>8

\* A check begins, ends and is restored with its own axes only.
LEMMA VerificationGood ==
  ASSUME NEW r \in Good, NEW ok \in BOOLEAN, NEW durable \in BOOLEAN
  PROVE  /\ Completed(r, ok, durable) \in Good
         /\ Checking(r) \in Good
         /\ [Quiesce(r, VerificationRestored(r.policy)) EXCEPT
               !.down = FALSE, !.up = FALSE] \in Good
<1>1. r.policy \in Policies
  BY DEF Good, Runtimes
<1> DEFINE b == ok /\ durable
           e == VerificationEnd(r.policy, b)
           s == VerificationBegin(r.policy)
           v == VerificationRestored(r.policy)
<1>2. b \in BOOLEAN
  OBVIOUS
<1>3. Completed(r, ok, durable) = [Reopen(r, e) EXCEPT !.verifying = FALSE]
  BY DEF Completed
<1> HIDE DEF b
<1>4. Safe(r.policy, e) /\ Safe(r.policy, s) /\ Safe(r.policy, v)
  BY <1>1, <1>2, VerificationSafe
<1>5. e.allowUpload => UploadEligible(e.policy)
  BY DEF VerificationEnd, Reconciled, Decision
<1>6. Checking(r) = [Quiesce(r, s) EXCEPT !.verifying = TRUE, !.down = FALSE,
                                          !.up = FALSE]
  BY DEF Checking
<1> HIDE DEF e, s, v
<1>7. Reopen(r, e) \in Good /\ Quiesce(r, s) \in Good /\ Quiesce(r, v) \in Good
  BY <1>4, <1>5, ReopenGood, QuiesceGood
<1>8. Completed(r, ok, durable) \in Good
  BY <1>3, <1>7, GoodFlag, Zenon
<1>9. Checking(r) \in Good
  <2> DEFINE q == Quiesce(r, s)
             c == [q EXCEPT !.verifying = TRUE]
  <2>1. q \in Good
    BY <1>7
  <2>2. Checking(r) = [c EXCEPT !.down = FALSE, !.up = FALSE]
    BY <1>6
  <2> HIDE DEF q
  <2>3. c \in Good
    BY <2>1, GoodFlag, Zenon
  <2> HIDE DEF c
  <2> QED
    BY <2>2, <2>3, GoodClose, Zenon
<1>10. [Quiesce(r, v) EXCEPT !.down = FALSE, !.up = FALSE] \in Good
  BY <1>7, GoodClose, Zenon
<1> QED
  BY <1>8, <1>9, <1>10 DEF v

\* The events that stop a runtime.
LEMMA StoppedGood ==
  ASSUME NEW r \in Good, NEW full \in BOOLEAN
  PROVE  /\ Quiesce(r, Paused(r.policy, full)) \in Good
         /\ Quiesce(r, Staged(r.policy)) \in Good
         /\ Quiesce(r, Terminated(r.policy)) \in Good
<1>1. r.policy \in Policies /\ {} \in SUBSET Faults
  BY DEF Good, Runtimes
<1>2. /\ Safe(r.policy, Paused(r.policy, full))
      /\ Safe(r.policy, Staged(r.policy))
      /\ Safe(r.policy, Terminated(r.policy))
  BY <1>1, StoppingSafe
<1> QED
  BY <1>2, QuiesceGood

\* A runtime that has just been registered has both gates closed.
LEMMA NewRuntimeGood ==
  ASSUME TypeOK, NEW h \in Hashes, NEW phase, NEW err,
         NEW disk \in Reasons \cup {NoReason}, NEW info \in BOOLEAN
  PROVE  NewRuntime(h, phase, err, disk, info) \in Good
<1> DEFINE d == Registered(ZeroPolicy, phase, err, disk, TRUE, disk)
           e == Event(Absent, d)
           g == NewGeneration(h)
           x == disk # NoReason
           W == {v \in work : v.hash = h}
<1>1. d \in Decisions
  BY ZeroPolicyType, ImportingSafe, Zenon DEF Safe
<1>2. Absent \in Runtimes /\ ~Absent.down /\ ~Absent.up
  BY AbsentGood DEF Good, Absent
<1> HIDE DEF d
<1>3. e \in Runtimes /\ ~e.down /\ ~e.up
  BY <1>1, <1>2, EventType, Zenon
<1> USE DEF d
<1>4. IsFiniteSet(W)
  BY FS_Subset DEF TypeOK
<1>5. IsFiniteSet({w.gen : w \in W})
  BY <1>4, HeldTokensFinite, Zenon
<1>6. IsFiniteSet({0} \cup {w.gen : w \in W})
  BY <1>5, FS_Singleton, FS_Union, Zenon
<1>7. g \in Nat
  BY <1>6, FreshIsNew DEF NewGeneration
<1>8. x \in BOOLEAN
  OBVIOUS
<1>9. NewRuntime(h, phase, err, disk, info) =
        [e EXCEPT !.gen = g, !.epoch = 1, !.persisted = x, !.info = info]
  BY DEF NewRuntime
<1> HIDE DEF d, e, g, x
<1> DEFINE m == [e EXCEPT !.gen = g]
           n == [m EXCEPT !.epoch = 1]
           o == [n EXCEPT !.persisted = x]
<1>10. NewRuntime(h, phase, err, disk, info) = [o EXCEPT !.info = info]
  BY <1>9
<1>11. e \in Good
  BY <1>3 DEF Good, GateOK
<1>12. m \in Good
  BY <1>7, <1>11, GoodToken, Zenon
<1> HIDE DEF m
<1>13. n \in Good
  BY <1>12, GoodToken, Zenon
<1> HIDE DEF n
<1>14. o \in Good
  BY <1>8, <1>13, GoodFlag, Zenon
<1> HIDE DEF o
<1> QED
  BY <1>10, <1>14, GoodFlag, Zenon

\* Renaming the tokens of a runtime changes nothing else.
LEMMA SettleGood ==
  ASSUME TypeOK, NEW h \in Hashes, NEW r \in Good
  PROVE  Settle(h, r) \in Good
<1> DEFINE H == WorkOf(h, r.gen)
           f == Fresh({w.epoch : w \in H} \cup {cmd[h].epoch})
           g == Fresh({w.slot : w \in H})
           e == IF r.epoch = rt[h].epoch /\ r.gen = rt[h].gen THEN r.epoch ELSE f
           s == IF r.slotToken = rt[h].slotToken THEN r.slotToken ELSE g
<1>1. IsFiniteSet(H)
  BY FS_Subset DEF TypeOK, WorkOf
<1>2. IsFiniteSet({w.epoch : w \in H}) /\ IsFiniteSet({w.slot : w \in H})
  BY <1>1, HeldTokensFinite, Zenon
<1>3. IsFiniteSet({w.epoch : w \in H} \cup {cmd[h].epoch})
  BY <1>2, FS_Singleton, FS_Union, Zenon
<1>4. f \in Nat /\ g \in Nat
  BY <1>2, <1>3, FreshIsNew
<1>5. Settle(h, r) = [r EXCEPT !.epoch = e, !.slotToken = s]
  BY DEF Settle
<1> HIDE DEF f, g
<1>6. e \in Nat /\ s \in Nat
  BY <1>4 DEF Good, Runtimes
<1> HIDE DEF e, s
<1> DEFINE q == [r EXCEPT !.epoch = e]
<1>7. q \in Good
  BY <1>6, GoodToken, Zenon
<1> HIDE DEF q
<1>8. [q EXCEPT !.slotToken = s] \in Good
  BY <1>6, <1>7, GoodToken, Zenon
<1> QED
  BY <1>5, <1>8 DEF q

\* What a failed preparation does to its slot.
LEMMA AfterFailureGood ==
  ASSUME NEW r \in Good, NEW w
  PROVE  AfterFailure(w, r) \in Good
<1> DEFINE c == [r EXCEPT !.started = FALSE]
<1>1. c \in Good
  BY GoodFlag, Zenon
<1>2. ReleaseSlot(c) \in Good
  BY <1>1, ReleaseSlotGood
<1> HIDE DEF c
<1> QED
  BY <1>1, <1>2 DEF AfterFailure, c

-----------------------------------------------------------------------------
\* The inductive invariant, and how single updates keep its parts.

\* TypeOK with GatesFollowPolicy, one conjunct per variable.
Sound ==
    /\ rt \in [Hashes -> Good]
    /\ db \in [Hashes -> Records]
    /\ latch \in [Hashes -> Reasons \cup {NoReason}]
    /\ cmd \in [Hashes -> Commands]
    /\ work \in SUBSET Works
    /\ IsFiniteSet(work)
    /\ life \in {"up", "closing"}
    /\ boot \in SUBSET Hashes

\* Sound is the type invariant together with the agreement of the gates.
LEMMA SoundMeans == Sound <=> TypeOK /\ GatesFollowPolicy
<1>1. Sound => TypeOK
  <2> SUFFICES ASSUME Sound PROVE TypeOK
    OBVIOUS
  <2>1. rt \in [Hashes -> Runtimes]
    BY DEF Sound, Good
  <2> QED
    BY <2>1 DEF Sound, TypeOK
<1>2. Sound => GatesFollowPolicy
  BY DEF Sound, Good, GateOK, GatesFollowPolicy
<1>3. TypeOK /\ GatesFollowPolicy => Sound
  <2> SUFFICES ASSUME TypeOK, GatesFollowPolicy PROVE Sound
    OBVIOUS
  <2>1. rt \in [Hashes -> Good]
    BY DEF TypeOK, Good, GateOK, GatesFollowPolicy
  <2> QED
    BY <2>1 DEF Sound, TypeOK
<1> QED
  BY <1>1, <1>2, <1>3

\* Replacing one runtime by a good one.
LEMMA RtUpdate ==
  ASSUME Sound, NEW h \in Hashes, NEW r \in Good, rt' = [rt EXCEPT ![h] = r]
  PROVE  rt' \in [Hashes -> Good]
  BY DEF Sound

\* Replacing one record.
LEMMA DbUpdate ==
  ASSUME Sound, NEW h \in Hashes, NEW d \in Records, db' = [db EXCEPT ![h] = d]
  PROVE  db' \in [Hashes -> Records]
  BY DEF Sound

\* Blocks are added to and removed from a record of their kinds only.
LEMMA RecordTypes ==
  ASSUME NEW d \in Records, NEW r, NEW kind \in BlockKinds, NEW saved, NEW ok
  PROVE  /\ PutBlock(d, kind) \in Records
         /\ SafetyRow(r, d, kind, saved) \in Records
         /\ CompletedRow(d, ok, saved) \in Records
<1>1. \A k \in BlockKinds : PutBlock(d, k) \in Records
  BY DEF PutBlock, Records
<1>2. SafetyRow(r, d, kind, saved) \in Records
  BY <1>1 DEF SafetyRow
<1>3. CompletedRow(d, ok, saved) \in Records
  <2>1. [d EXCEPT !.blocks = @ \ {"verification"}] \in Records
    BY DEF Records
  <2>2. PutBlock(d, "verification") \in Records
    BY <1>1 DEF BlockKinds
  <2> QED
    BY <2>1, <2>2 DEF CompletedRow
<1> QED
  BY <1>1, <1>2, <1>3

\* A row of torrent_download_blocks holds a reason.
LEMMA LatchUpdate ==
  ASSUME Sound, NEW h \in Hashes, NEW reason \in Reasons, NEW saved, NEW r,
         latch' = [latch EXCEPT ![h] = BlockRow(r, reason, saved, @)]
  PROVE  latch' \in [Hashes -> Reasons \cup {NoReason}]
  BY DEF Sound, BlockRow

\* A command moves on, ends, or starts.
LEMMA CmdEnter ==
  ASSUME Sound, NEW h \in Hashes, NEW op \in Ops, NEW step \in Steps,
         NEW phase \in Phases, Enter(h, op, step, phase)
  PROVE  cmd' \in [Hashes -> Commands]
<1> DEFINE c == [Idle EXCEPT !.op = op, !.pc = step, !.phase = phase]
<1>1. c \in Commands
  BY Zenon DEF Idle, Commands, Errors, Fences, Unbound
<1>2. cmd' = [cmd EXCEPT ![h] = c]
  BY DEF Enter
<1> HIDE DEF c
<1> QED
  BY <1>1, <1>2 DEF Sound

\* A command goes to its next step.
LEMMA CmdGoto ==
  ASSUME Sound, NEW h \in Hashes, NEW step \in Steps, Goto(h, step)
  PROVE  cmd' \in [Hashes -> Commands]
<1>1. cmd[h].op \in Ops /\ "Queued" \in Phases
  BY DEF Sound, Commands, Phases
<1>2. Enter(h, cmd[h].op, step, "Queued")
  BY DEF Goto
<1> QED
  BY <1>1, <1>2, CmdEnter

\* A command returns.
LEMMA CmdFinish ==
  ASSUME Sound, NEW h \in Hashes, Finish(h)
  PROVE  cmd' \in [Hashes -> Commands]
<1>1. Idle \in Commands
  BY DEF Idle, Commands, Ops, Steps, Phases, Errors, Fences, Unbound
<1> QED
  BY <1>1 DEF Sound, Finish

\* A command reports its failure or returns it.
LEMMA CmdFails ==
  ASSUME Sound, NEW h \in Hashes, Fails(h)
  PROVE  cmd' \in [Hashes -> Commands]
<1>1. "fail" \in Steps
  BY DEF Steps
<1> QED
  BY <1>1, CmdGoto, CmdFinish DEF Fails

\* A binding that only observes goes on to its check or returns.
LEMMA CmdObserved ==
  ASSUME Sound, NEW h \in Hashes, Observed(h)
  PROVE  cmd' \in [Hashes -> Commands]
<1>1. "verify" \in Steps
  BY DEF Steps
<1> QED
  BY <1>1, CmdGoto, CmdFinish DEF Observed

\* A window captures the tokens of its runtime.
LEMMA CmdCapture ==
  ASSUME Sound, NEW h \in Hashes, NEW step \in Steps, NEW err \in Errors,
         Capture(h, step, err)
  PROVE  cmd' \in [Hashes -> Commands]
<1> DEFINE c == [cmd[h] EXCEPT !.pc = step, !.err = err, !.epoch = rt[h].epoch,
                               !.fence = rt[h].fence,
                               !.wver = rt[h].writeVersion]
<1>1. /\ rt[h].epoch \in Nat
      /\ rt[h].fence \in Fences
      /\ rt[h].writeVersion \in Nat
  BY DEF Sound, Good, Runtimes
<1> DEFINE a == [cmd[h] EXCEPT !.pc = step, !.err = err]
           b == [a EXCEPT !.epoch = rt[h].epoch, !.fence = rt[h].fence]
<1>a. a \in Commands
  BY Zenon DEF Sound, Commands
<1> HIDE DEF a
<1>b. b \in Commands
  BY <1>1, <1>a, Zenon DEF Commands
<1> HIDE DEF b
<1>c. [b EXCEPT !.wver = rt[h].writeVersion] \in Commands
  BY <1>1, <1>b, Zenon DEF Commands
<1>2. c \in Commands
  BY <1>c DEF a, b
<1>3. cmd' = [cmd EXCEPT ![h] = c]
  BY Zenon DEF Capture, Sound
<1> HIDE DEF c
<1> QED
  BY <1>2, <1>3 DEF Sound

\* The error text beside a projected phase.
LEMMA ProjectedErrorType ==
  ASSUME NEW p
  PROVE  ProjectedError(p) \in Errors
  BY DEF ProjectedError, Errors

\* AttachRuntime allots an attachment number that nothing captured holds.
LEMMA NewAttachmentType ==
  ASSUME Sound, NEW h \in Hashes
  PROVE  NewAttachment(h) \in Nat
<1> DEFINE W == {v \in work : v.hash = h}
           A == {0, db[h].att, rt[h].fence.att, cmd[h].fence.att}
<1>1. IsFiniteSet(W)
  BY FS_Subset DEF Sound
<1>2. IsFiniteSet({w.fence.att : w \in W})
  BY <1>1, HeldTokensFinite, Zenon
<1>3. IsFiniteSet(A)
  <2> DEFINE X == {0} \cup {db[h].att}
             Y == {rt[h].fence.att} \cup {cmd[h].fence.att}
  <2>1. A = X \cup Y
    OBVIOUS
  <2>2. IsFiniteSet(X) /\ IsFiniteSet(Y)
    BY FS_Singleton, FS_Union, Zenon
  <2> HIDE DEF A, X, Y
  <2> QED
    BY <2>1, <2>2, FS_Union, Zenon
<1>4. IsFiniteSet(A \cup {w.fence.att : w \in W})
  BY <1>2, <1>3, FS_Union, Zenon
<1> QED
  BY <1>4, FreshIsNew DEF NewAttachment

\* AttachRuntime writes the attachment and hands its fence to the command.
LEMMA AttachTypes ==
  ASSUME Sound, NEW h \in Hashes, NEW step \in Steps, Attach(h, step)
  PROVE  /\ cmd' \in [Hashes -> Commands]
         /\ db' \in [Hashes -> Records]
<1> DEFINE a == NewAttachment(h)
           f == [rev |-> db[h].rev, att |-> a]
           c == [cmd[h] EXCEPT !.pc = step, !.fence = f]
           d == [db[h] EXCEPT !.att = a]
<1>1. a \in Nat
  BY NewAttachmentType
<1>2. db[h] \in Records /\ cmd[h] \in Commands
  BY DEF Sound
<1>3. cmd' = [cmd EXCEPT ![h] = c] /\ db' = [db EXCEPT ![h] = d]
  BY Zenon DEF Attach, Sound
<1> HIDE DEF a
<1>4. f \in Fences
  BY <1>1, <1>2 DEF Fences, Records
<1> HIDE DEF f
<1>5. c \in Commands
  BY <1>2, <1>4, Zenon DEF Commands
<1>6. d \in Records
  BY <1>1, <1>2 DEF Records
<1> HIDE DEF c, d
<1> QED
  BY <1>3, <1>5, <1>6 DEF Sound

\* A verifier that ends releases the command that waits for it.
LEMMA ReleaseReaderType ==
  ASSUME Sound, NEW w, ReleaseReader(w)
  PROVE  cmd' \in [Hashes -> Commands]
<1>1. Idle \in Commands
  BY DEF Idle, Commands, Ops, Steps, Phases, Errors, Fences, Unbound
<1> QED
  BY <1>1, Zenon DEF Sound, ReleaseReader

\* Records of work carry the tokens of a runtime.
LEMMA JobTypes ==
  ASSUME NEW kind \in WorkKinds, NEW h \in Hashes, NEW r \in Runtimes
  PROVE  /\ Job(kind, h, r) \in Works
         /\ Ticket(kind, h, r) \in Works
         /\ Watcher(kind, h, r) \in Works
<1>1. /\ r.gen \in Nat
      /\ r.epoch \in Nat
      /\ r.fence \in Fences
      /\ r.slotToken \in Nat
      /\ r.info \in BOOLEAN
  BY DEF Runtimes
<1>2. Job(kind, h, r) \in Works
  BY <1>1 DEF Job, Works
<1>3. Ticket(kind, h, r) \in Works
  BY <1>1, <1>2, Zenon DEF Ticket, Works
<1>4. Unbound \in Fences
  BY DEF Unbound, Fences
<1>5. Watcher(kind, h, r) \in Works
  BY <1>2, <1>4, Zenon DEF Watcher, Works
<1> QED
  BY <1>2, <1>3, <1>5

\* The set of work stays a finite set of work records.
LEMMA WorkUpdate ==
  ASSUME Sound, NEW w, NEW v \in Works,
         \/ work' = work \ {w}
         \/ work' = work \cup {v}
         \/ work' = (work \ {w}) \cup {v}
  PROVE  work' \in SUBSET Works /\ IsFiniteSet(work')
<1>1. work \in SUBSET Works /\ IsFiniteSet(work)
  BY DEF Sound
<1>2. IsFiniteSet(work \ {w})
  BY <1>1, FS_RemoveElement
<1>3. IsFiniteSet(work \cup {v}) /\ IsFiniteSet((work \ {w}) \cup {v})
  BY <1>1, <1>2, FS_AddElement
<1> QED
  BY <1>1, <1>2, <1>3

\* Work that ends leaves the others.
LEMMA WorkRemove ==
  ASSUME Sound, NEW w, work' = work \ {w}
  PROVE  work' \in SUBSET Works /\ IsFiniteSet(work')
<1>1. work \in SUBSET Works /\ IsFiniteSet(work)
  BY DEF Sound
<1>2. IsFiniteSet(work \ {w})
  BY <1>1, FS_RemoveElement
<1> QED
  BY <1>1, <1>2

\* Registration publishes a runtime and starts its metadata watcher.
LEMMA PublishTypes ==
  ASSUME Sound, NEW h \in Hashes, NEW r \in Good, Publish(h, r)
  PROVE  /\ rt' \in [Hashes -> Good]
         /\ work' \in SUBSET Works
         /\ IsFiniteSet(work')
<1>1. rt' \in [Hashes -> Good]
  BY RtUpdate, Zenon DEF Publish
<1>2. r \in Runtimes /\ "watch" \in WorkKinds
  BY DEF Good, WorkKinds
<1>3. Watcher("watch", h, r) \in Works
  BY <1>2, JobTypes
<1>4. work' = work \cup {Watcher("watch", h, r)}
  BY DEF Publish
<1> QED
  BY <1>1, <1>3, <1>4, WorkUpdate

-----------------------------------------------------------------------------
\* A step seen from one hash.

\* What a sound state says about one hash.
LEMMA AtHash ==
  ASSUME Sound, NEW h \in Hashes
  PROVE  /\ TypeOK
         /\ rt[h] \in Good
         /\ rt[h] \in Runtimes
         /\ db[h] \in Records
         /\ cmd[h] \in Commands
         /\ latch[h] \in Reasons \cup {NoReason}
<1>1. TypeOK
  BY SoundMeans
<1> QED
  BY <1>1 DEF Sound, Good

\* The reasons of a disk probe are disk reasons.
LEMMA ProbeReasonsType == ProbeResults \ {NoReason} \subseteq Reasons
  BY DEF ProbeResults, ProbeReasons

\* A dropped result leaves a good runtime behind.
LEMMA DropSound ==
  ASSUME Sound, NEW w \in work, NEW r \in Good, Drop(w, r)
  PROVE  Sound'
<1>1. w.hash \in Hashes
  BY DEF Sound, Works
<1>2. rt' \in [Hashes -> Good]
  BY <1>1, RtUpdate, Zenon DEF Drop
<1>3. work' \in SUBSET Works /\ IsFiniteSet(work')
  BY WorkRemove DEF Drop
<1> QED
  BY <1>2, <1>3 DEF Sound, Drop

\* blockDownloadLocked keeps the runtime good and its row typed.
LEMMA BlockedTypes ==
  ASSUME Sound, NEW h \in Hashes, NEW r \in Good, NEW reason \in Reasons,
         NEW saved \in Outcomes("database"),
         rt' = [rt EXCEPT ![h] = Settle(h, BlockDownload(r, reason, saved))],
         latch' = [latch EXCEPT ![h] = BlockRow(r, reason, saved, @)]
  PROVE  /\ rt' \in [Hashes -> Good]
         /\ latch' \in [Hashes -> Reasons \cup {NoReason}]
<1>1. saved \in BOOLEAN /\ TypeOK
  BY AtHash, Zenon DEF Outcomes
<1>2. Settle(h, BlockDownload(r, reason, saved)) \in Good
  BY <1>1, BlockDownloadGood, SettleGood
<1>3. rt' \in [Hashes -> Good]
  BY <1>2, RtUpdate, Zenon
<1>4. latch' \in [Hashes -> Reasons \cup {NoReason}]
  BY LatchUpdate, Zenon
<1> QED
  BY <1>3, <1>4

\* quiesceFaultLocked keeps the runtime good and the record typed.
LEMMA FaultTypes ==
  ASSUME Sound, NEW h \in Hashes, NEW r \in Good, NEW kind \in SafetyKinds,
         NEW saved,
         rt' = [rt EXCEPT ![h] = Settle(h, Fault(r, kind))],
         db' = [db EXCEPT ![h] = SafetyRow(r, db[h], kind, saved)]
  PROVE  rt' \in [Hashes -> Good] /\ db' \in [Hashes -> Records]
<1>1. TypeOK /\ db[h] \in Records /\ kind \in BlockKinds
  BY AtHash DEF SafetyKinds, BlockKinds
<1>2. Settle(h, Fault(r, kind)) \in Good
  BY <1>1, FaultGood, SettleGood
<1>3. SafetyRow(r, db[h], kind, saved) \in Records
  BY <1>1, RecordTypes
<1> QED
  BY <1>2, <1>3, RtUpdate, DbUpdate, Zenon

\* An event that settles on a good runtime.
LEMMA SettledUpdate ==
  ASSUME Sound, NEW h \in Hashes, NEW r \in Good,
         rt' = [rt EXCEPT ![h] = Settle(h, r)]
  PROVE  rt' \in [Hashes -> Good]
<1>1. Settle(h, r) \in Good
  BY AtHash, SettleGood
<1> QED
  BY <1>1, RtUpdate, Zenon
=============================================================================
