------------------------- MODULE RuntimePolicyProofs -------------------------
(***************************************************************************)
(* What runtimeTransition guarantees for every policy: its decisions are   *)
(* well formed, and a decision that takes a permission away always carries *)
(* the effect that closes the gate.                                        *)
(***************************************************************************)
EXTENDS RuntimePolicy, TLAPS

\* A decision: the next policy and the effects the executor performs.
Decisions ==
    [policy : Policies, resetDownload : BOOLEAN, closePayload : BOOLEAN,
     closeUpload : BOOLEAN, allowUpload : BOOLEAN, closeBackground : BOOLEAN,
     invalidateApplied : BOOLEAN]

\* A decision on p is safe for the gates: what it does not close was closed or
\* is still permitted, and it only opens upload when the new policy permits it.
GateSafe(p, d) ==
    /\ PayloadEligible(p) /\ ~d.closePayload => PayloadEligible(d.policy)
    /\ UploadEligible(p) /\ ~d.closeUpload => UploadEligible(d.policy)
    /\ d.allowUpload => UploadEligible(d.policy)

Safe(p, d) == d \in Decisions /\ GateSafe(p, d)

-----------------------------------------------------------------------------

\* The zero policy is a policy, and permits nothing.
LEMMA ZeroPolicyType == ZeroPolicy \in Policies /\ ~UploadEligible(ZeroPolicy)
  BY DEF ZeroPolicy, Policies, Runs, Faults, UploadEligible

\* Eligibility is a Boolean.
LEMMA EligibleBoolean ==
  ASSUME NEW p \in Policies
  PROVE  UploadEligible(p) \in BOOLEAN /\ PayloadEligible(p) \in BOOLEAN
  BY DEF UploadEligible, PayloadEligible

\* Decision builds decisions; so do the three shapes made from it.
LEMMA ShapeTypes ==
  ASSUME NEW p \in Policies
  PROVE  /\ \A a, b, c, d, e \in BOOLEAN : Decision(p, a, b, c, d, e) \in Decisions
         /\ Quiesced(p) \in Decisions
         /\ Unforced(p) \in Decisions
         /\ Reconciled(p) \in Decisions
  BY EligibleBoolean, Zenon DEF Decision, Decisions, Quiesced, Unforced, Reconciled

\* A decision that closes both gates and opens none is safe for any policy.
LEMMA QuiescedSafe ==
  ASSUME NEW p \in Policies, NEW q \in Policies
  PROVE  Safe(p, Quiesced(q))
  BY ShapeTypes DEF Safe, GateSafe, Quiesced, Decision

\* So is one that closes payload and gives or takes upload by the new policy.
LEMMA ReconciledSafe ==
  ASSUME NEW p \in Policies, NEW q \in Policies
  PROVE  Safe(p, Reconciled(q))
  BY ShapeTypes, EligibleBoolean DEF Safe, GateSafe, Reconciled, Decision

-----------------------------------------------------------------------------
\* The importing events.

\* The faults a compatibility phase stands for are faults.
LEMMA ImportedFaultsType ==
  ASSUME NEW phase, NEW err
  PROVE  ImportedFaults(phase, err) \in SUBSET Faults
  BY DEF ImportedFaults, Faults

\* Importing a compatibility phase yields a policy.
LEMMA ImportType ==
  ASSUME NEW p \in Policies, NEW phase, NEW err,
         NEW text \in Reasons \cup {NoReason}
  PROVE  Import(p, phase, err, text) \in Policies
<1> DEFINE f == p.faults \cup ImportedFaults(phase, err)
           v == p.verificationFault \/ (phase = "Error" /\ err = "verification")
           k == IF phase = "DiskFull" /\ p.disk = NoReason THEN text ELSE p.disk
           u == IF phase = "Paused" THEN "paused" ELSE "enabled"
<1>1. f \in SUBSET Faults
  BY ImportedFaultsType DEF Policies
<1>2. v \in BOOLEAN
  OBVIOUS
<1>3. k \in Reasons \cup {NoReason}
  BY DEF Policies
<1>4. u \in Runs
  BY DEF Runs
<1> HIDE DEF f, v, k, u
<1> DEFINE q == [p EXCEPT !.run = u, !.faults = f]
           s == [q EXCEPT !.verificationFault = v, !.disk = k]
<1>a. q \in Policies
  BY <1>1, <1>4, Zenon DEF Policies
<1> HIDE DEF q
<1>b. s \in Policies
  BY <1>a, <1>2, <1>3, Zenon DEF Policies
<1> HIDE DEF s
<1>c. [s EXCEPT !.slot = FALSE, !.payloadComplete = FALSE] \in Policies
  BY <1>b, Zenon DEF Policies
<1>5. [p EXCEPT !.run = u, !.faults = f, !.verificationFault = v, !.disk = k,
                !.slot = FALSE, !.payloadComplete = FALSE] \in Policies
  BY <1>c DEF q, s
<1> QED
  BY <1>5 DEF Import, f, v, k, u

\* Registration and activation give every policy a safe decision.
LEMMA ImportingSafe ==
  ASSUME NEW p \in Policies, NEW phase, NEW err,
         NEW text \in Reasons \cup {NoReason}, NEW b \in BOOLEAN,
         NEW disk \in Reasons \cup {NoReason}
  PROVE  /\ Safe(p, Registered(p, phase, err, text, b, disk))
         /\ Safe(p, Activated(p, phase, err, text, b))
<1> DEFINE q == [p EXCEPT !.registered = TRUE, !.initializing = b, !.disk = disk]
           k == IF b THEN NoReason ELSE p.disk
           f == IF b THEN {} ELSE p.faults
           s == [p EXCEPT !.initializing = FALSE, !.disk = k, !.faults = f]
<1>a. q \in Policies
  BY Zenon DEF Policies
<1>b. k \in Reasons \cup {NoReason} /\ f \in SUBSET Faults
  BY DEF Policies
<1> HIDE DEF k, f
<1>1. s \in Policies
  BY <1>b, Zenon DEF Policies
<1> USE DEF k, f
<1>2. Import(q, phase, err, text) \in Policies /\ Import(s, phase, err, text) \in Policies
  BY <1>a, <1>1, ImportType
<1> QED
  BY <1>2, ReconciledSafe DEF Registered, Activated

-----------------------------------------------------------------------------
\* The other events.

\* Every event that stops a runtime is safe: it closes both gates.
LEMMA StoppingSafe ==
  ASSUME NEW p \in Policies, NEW b \in BOOLEAN, NEW added \in SUBSET Faults
  PROVE  /\ Safe(p, Terminated(p))
         /\ Safe(p, Paused(p, b))
         /\ Safe(p, Staged(p))
         /\ Safe(p, Faulted(p, added))
<1> DEFINE u == p.uncertain \/ p.checking
           i == p.initializing /\ ~b
<1>a. u \in BOOLEAN /\ i \in BOOLEAN
  OBVIOUS
<1> HIDE DEF u, i
<1>b. [p EXCEPT !.terminal = TRUE, !.initializing = TRUE, !.uncertain = u,
                !.checking = FALSE, !.slot = FALSE] \in Policies
  BY <1>a, Zenon DEF Policies
<1>c. [p EXCEPT !.run = "paused", !.slot = FALSE, !.initializing = i] \in Policies
  BY <1>a, Zenon DEF Policies, Runs
<1>1. [p EXCEPT !.terminal = TRUE, !.initializing = TRUE,
                !.uncertain = @ \/ p.checking, !.checking = FALSE,
                !.slot = FALSE] \in Policies
  BY <1>b DEF u
<1>2. [p EXCEPT !.run = "paused", !.slot = FALSE,
                !.initializing = @ /\ ~b] \in Policies
  BY <1>c DEF i
<1>3. [p EXCEPT !.initializing = TRUE, !.slot = FALSE] \in Policies
  BY Zenon DEF Policies
<1> DEFINE f == p.faults \cup added
<1>d. f \in SUBSET Faults
  BY DEF Policies
<1> HIDE DEF f
<1>e. [p EXCEPT !.initializing = TRUE, !.slot = FALSE, !.faults = f] \in Policies
  BY <1>d, Zenon DEF Policies
<1>4. [p EXCEPT !.initializing = TRUE, !.slot = FALSE,
                !.faults = @ \cup added] \in Policies
  BY <1>e DEF f
<1> QED
  BY <1>1, <1>2, <1>3, <1>4, QuiescedSafe DEF Terminated, Paused, Staged, Faulted

\* The disk event closes payload and leaves upload permitted as it was.
LEMMA DiskBlockedSafe ==
  ASSUME NEW p \in Policies, NEW reason \in Reasons
  PROVE  Safe(p, DiskBlocked(p, reason))
<1> DEFINE q == [p EXCEPT !.disk = reason, !.slot = FALSE]
<1>1. q \in Policies /\ (UploadEligible(p) => UploadEligible(q))
  BY Zenon DEF Policies, UploadEligible
<1> HIDE DEF q
<1>2. DiskBlocked(p, reason) = Decision(q, TRUE, TRUE, FALSE, FALSE, FALSE)
  BY DEF DiskBlocked, q
<1>3. Decision(q, TRUE, TRUE, FALSE, FALSE, FALSE) \in Decisions
  BY <1>1 DEF Decision, Decisions
<1>4. GateSafe(p, Decision(q, TRUE, TRUE, FALSE, FALSE, FALSE))
  BY <1>1 DEF GateSafe, Decision
<1> QED
  BY <1>2, <1>3, <1>4, Zenon DEF Safe

\* Verification events close payload and reconcile upload.
LEMMA VerificationSafe ==
  ASSUME NEW p \in Policies, NEW b \in BOOLEAN
  PROVE  /\ Safe(p, VerificationBegin(p))
         /\ Safe(p, VerificationEnd(p, b))
         /\ Safe(p, VerificationRestored(p))
<1>1. [p EXCEPT !.checking = TRUE, !.uncertain = TRUE,
                !.selectedComplete = FALSE, !.payloadComplete = FALSE,
                !.slot = FALSE] \in Policies
  BY Zenon DEF Policies
<1> DEFINE c == ~b
<1>a. c \in BOOLEAN
  OBVIOUS
<1> HIDE DEF c
<1>b. [p EXCEPT !.checking = FALSE, !.uncertain = c,
                !.verificationFault = c, !.slot = FALSE] \in Policies
  BY <1>a, Zenon DEF Policies
<1>2. [p EXCEPT !.checking = FALSE, !.uncertain = ~b,
                !.verificationFault = ~b, !.slot = FALSE] \in Policies
  BY <1>b DEF c
<1>3. [p EXCEPT !.uncertain = TRUE, !.slot = FALSE] \in Policies
  BY Zenon DEF Policies
<1> QED
  BY <1>1, <1>2, <1>3, ReconciledSafe
     DEF VerificationBegin, VerificationEnd, VerificationRestored

\* The slot is not among the facts that eligibility depends on.
LEMMA SlotIrrelevant ==
  ASSUME NEW p \in Policies, NEW b \in BOOLEAN
  PROVE  /\ [p EXCEPT !.slot = b] \in Policies
         /\ UploadEligible([p EXCEPT !.slot = b]) = UploadEligible(p)
         /\ [p EXCEPT !.slot = b].disk = p.disk
  BY DEF Policies, UploadEligible

\* Completion and slots move no fact that eligibility depends on.
LEMMA SlotEventsSafe ==
  ASSUME NEW p \in Policies, NEW selected \in BOOLEAN, NEW whole \in BOOLEAN,
         NEW empty \in BOOLEAN
  PROVE  /\ Safe(p, SelectionObserved(p, selected, whole, empty))
         /\ Safe(p, SlotRequested(p))
         /\ Safe(p, SlotReleased(p))
<1> DEFINE seen == [p EXCEPT !.selectedComplete = selected,
                             !.payloadComplete = whole, !.selectionEmpty = empty]
           freed == [seen EXCEPT !.slot = FALSE]
           taken == [p EXCEPT !.slot = TRUE]
           given == [p EXCEPT !.slot = FALSE]
<1>0. seen = [p EXCEPT !.selectedComplete = selected,
                       !.payloadComplete = whole, !.selectionEmpty = empty]
  OBVIOUS
<1> HIDE DEF seen
<1>1. /\ seen \in Policies
      /\ UploadEligible(seen) = UploadEligible(p)
      /\ seen.disk = p.disk
  <2> DEFINE p1 == [p EXCEPT !.selectedComplete = selected]
             p2 == [p1 EXCEPT !.payloadComplete = whole]
             p3 == [p2 EXCEPT !.selectionEmpty = empty]
  <2>1. p1 \in Policies
    BY Zenon DEF Policies
  <2> HIDE DEF p1
  <2>2. p2 \in Policies
    BY <2>1, Zenon DEF Policies
  <2> HIDE DEF p2
  <2>3. p3 \in Policies
    BY <2>2, Zenon DEF Policies
  <2> HIDE DEF p3
  <2>4. seen = p3
    BY <1>0 DEF p1, p2, p3
  <2>5. /\ seen.registered = p.registered
        /\ seen.terminal = p.terminal
        /\ seen.run = p.run
        /\ seen.checking = p.checking
        /\ seen.uncertain = p.uncertain
        /\ seen.initializing = p.initializing
        /\ seen.verificationFault = p.verificationFault
        /\ seen.faults = p.faults
        /\ seen.disk = p.disk
    BY <1>0 DEF Policies
  <2>6. UploadEligible(seen) = UploadEligible(p)
    BY <2>5, Zenon DEF UploadEligible
  <2> QED
    BY <2>3, <2>4, <2>5, <2>6
<1>2. /\ freed \in Policies
      /\ UploadEligible(freed) = UploadEligible(p)
      /\ freed.disk = p.disk
  BY <1>1, SlotIrrelevant, Zenon
<1>3. /\ taken \in Policies
      /\ UploadEligible(taken) = UploadEligible(p)
      /\ taken.disk = p.disk
  BY SlotIrrelevant, Zenon
<1>4. /\ given \in Policies
      /\ UploadEligible(given) = UploadEligible(p)
      /\ given.disk = p.disk
  BY SlotIrrelevant, Zenon
<1>5. SelectionObserved(p, selected, whole, empty)
        = IF selected \/ ~PayloadEligible(seen)
          THEN Decision(freed, p.slot, FALSE, FALSE, p.slot, FALSE)
          ELSE Unforced(seen)
  BY DEF SelectionObserved, seen
<1>6. SlotRequested(p) = Unforced(taken)
  BY DEF SlotRequested
<1>7. SlotReleased(p) = Decision(given, TRUE, FALSE, FALSE, TRUE, FALSE)
  BY DEF SlotReleased
<1> HIDE DEF freed, taken, given
<1>8. p.slot \in BOOLEAN
  BY DEF Policies
<1>9. Safe(p, Decision(freed, p.slot, FALSE, FALSE, p.slot, FALSE))
  BY <1>2, <1>8, ShapeTypes, Zenon DEF Safe, GateSafe, PayloadEligible, Decision
<1>10. Safe(p, Unforced(seen)) /\ Safe(p, Unforced(taken))
  BY <1>1, <1>3, ShapeTypes DEF Safe, GateSafe, PayloadEligible, Decision, Unforced
<1>11. Safe(p, Decision(given, TRUE, FALSE, FALSE, TRUE, FALSE))
  BY <1>4, ShapeTypes, Zenon DEF Safe, GateSafe, PayloadEligible, Decision
<1> QED
  BY <1>5, <1>6, <1>7, <1>9, <1>10, <1>11, Zenon

\* runtimeTransition never leaves a gate open that it no longer permits: every
\* decision, for every policy and every event, either closes a gate or keeps
\* the permission for it, and opens upload only by the new policy.
THEOREM DecisionsAreSafe ==
  ASSUME NEW p \in Policies, NEW phase, NEW err,
         NEW disk \in Reasons \cup {NoReason}, NEW reason \in Reasons,
         NEW b \in BOOLEAN, NEW whole \in BOOLEAN, NEW empty \in BOOLEAN,
         NEW added \in SUBSET Faults
  PROVE  \A d \in {Registered(p, phase, err, disk, b, disk),
                   Activated(p, phase, err, disk, b), Terminated(p),
                   Paused(p, b), Staged(p), Faulted(p, added),
                   DiskBlocked(p, reason), VerificationBegin(p),
                   VerificationEnd(p, b), VerificationRestored(p),
                   SelectionObserved(p, b, whole, empty), SlotRequested(p),
                   SlotReleased(p)} : Safe(p, d)
<1>1. /\ Safe(p, Registered(p, phase, err, disk, b, disk))
      /\ Safe(p, Activated(p, phase, err, disk, b))
  BY ImportingSafe
<1>2. /\ Safe(p, Terminated(p))
      /\ Safe(p, Paused(p, b))
      /\ Safe(p, Staged(p))
      /\ Safe(p, Faulted(p, added))
  BY StoppingSafe
<1>3. Safe(p, DiskBlocked(p, reason))
  BY DiskBlockedSafe
<1>4. /\ Safe(p, VerificationBegin(p))
      /\ Safe(p, VerificationEnd(p, b))
      /\ Safe(p, VerificationRestored(p))
  BY VerificationSafe
<1>5. /\ Safe(p, SelectionObserved(p, b, whole, empty))
      /\ Safe(p, SlotRequested(p))
      /\ Safe(p, SlotReleased(p))
  BY SlotEventsSafe
<1> QED
  BY <1>1, <1>2, <1>3, <1>4, <1>5, Zenon
=============================================================================
