-------------------------- MODULE EngineWorkProofs --------------------------
(***************************************************************************)
(* The steps of the background keep Sound: results of work that ran        *)
(* outside admissionMu, the passes that start such work, and the library's *)
(* reports.                                                                *)
(***************************************************************************)
EXTENDS EngineLemmas

-----------------------------------------------------------------------------
\* Results of work.

\* Payload preparation (admitPayloadLocked after its window).
LEMMA PreparationSound ==
  ASSUME Sound, NEW w \in work,
         \/ FinishStalePreparation(w)
         \/ FinishBlockedPreparation(w)
         \/ FinishFaultyPreparation(w)
         \/ FinishEarlyPreparation(w)
         \/ FinishPreparation(w)
  PROVE  Sound'
<1> DEFINE h == w.hash
           r == [rt[h] EXCEPT !.preparing = FALSE]
<1>1. h \in Hashes
  BY DEF Sound, Works
<1>2. rt[h] \in Good /\ TypeOK /\ db[h] \in Records
  BY <1>1, AtHash
<1>3. r \in Good
  BY <1>2, GoodFlag, Zenon
<1> HIDE DEF r
<1>4. CASE FinishStalePreparation(w)
  <2> DEFINE x == Settle(h, AfterFailure(w, r))
  <2>1. x \in Good
    BY <1>1, <1>2, <1>3, AfterFailureGood, SettleGood
  <2>2. Drop(w, IF w.gen # rt[h].gen THEN rt[h] ELSE x)
    BY <1>4 DEF FinishStalePreparation, r
  <2> HIDE DEF x
  <2>3. CASE w.gen # rt[h].gen
    BY <1>2, <2>2, <2>3, DropSound
  <2>4. CASE w.gen = rt[h].gen
    BY <2>1, <2>2, <2>4, DropSound
  <2> QED
    BY <2>3, <2>4
<1>5. CASE FinishBlockedPreparation(w)
  <2>1. PICK reason \in ProbeResults \ {NoReason}, saved \in Outcomes("database") :
          /\ rt' = [rt EXCEPT ![h] = Settle(h, BlockDownload(r, reason, saved))]
          /\ latch' = [latch EXCEPT ![h] = BlockRow(r, reason, saved, @)]
    BY <1>5, Zenon DEF FinishBlockedPreparation, r
  <2>2. reason \in Reasons
    BY ProbeReasonsType
  <2>3. /\ rt' \in [Hashes -> Good]
        /\ latch' \in [Hashes -> Reasons \cup {NoReason}]
    BY <1>1, <1>3, <2>1, <2>2, BlockedTypes, Zenon
  <2>4. work' \in SUBSET Works /\ IsFiniteSet(work')
    BY <1>5, WorkRemove DEF FinishBlockedPreparation
  <2> QED
    BY <1>5, <2>3, <2>4 DEF Sound, FinishBlockedPreparation
<1>6. CASE FinishFaultyPreparation(w)
  <2>1. PICK kind \in {"metadata", "selection"}, saved \in Outcomes("database") :
          /\ rt' = [rt EXCEPT ![h] = Settle(h, Fault(r, kind))]
          /\ db' = [db EXCEPT ![h] = SafetyRow(r, db[h], kind, saved)]
    BY <1>6, Zenon DEF FinishFaultyPreparation, r
  <2>2. kind \in SafetyKinds
    BY DEF SafetyKinds
  <2>3. rt' \in [Hashes -> Good] /\ db' \in [Hashes -> Records]
    BY <1>1, <1>3, <2>1, <2>2, FaultTypes, Zenon
  <2>4. work' \in SUBSET Works /\ IsFiniteSet(work')
    BY <1>6, WorkRemove, Zenon DEF FinishFaultyPreparation
  <2> QED
    BY <1>6, <2>3, <2>4 DEF Sound, FinishFaultyPreparation
<1>7. CASE FinishEarlyPreparation(w)
  <2> DEFINE x == Settle(h, AfterFailure(w, r))
  <2>1. x \in Good
    BY <1>1, <1>2, <1>3, AfterFailureGood, SettleGood
  <2>2. Drop(w, x)
    BY <1>7 DEF FinishEarlyPreparation, r
  <2> QED
    BY <2>1, <2>2, DropSound
<1>8. CASE FinishPreparation(w)
  <2>1. work' \in SUBSET Works /\ IsFiniteSet(work')
    BY <1>8, WorkRemove, Zenon DEF FinishPreparation
  <2>2. UNCHANGED <<db, cmd, life, boot>>
    BY <1>8, Zenon DEF FinishPreparation
  <2>3. CASE \E opened \in SUBSET ReaderKinds :
               /\ ~r.writeError
               /\ rt' = [rt EXCEPT ![h] = [r EXCEPT !.down = TRUE,
                                             !.readers = @ \cup opened]]
               /\ UNCHANGED latch
    <3>1. PICK opened \in SUBSET ReaderKinds :
               /\ ~r.writeError
               /\ rt' = [rt EXCEPT ![h] = [r EXCEPT !.down = TRUE,
                                             !.readers = @ \cup opened]]
               /\ UNCHANGED latch
      BY <2>3, Zenon
    <3>2. PayloadEligible(r.policy)
      BY <1>2, <1>8, Zenon DEF FinishPreparation, Admissible, r, Good, Runtimes
    <3> DEFINE o == [r EXCEPT !.down = TRUE]
               x == r.readers \cup opened
    <3>3. o \in Good
      BY <1>3, <3>1, <3>2, Zenon DEF Good, GateOK, Runtimes
    <3>4. x \in SUBSET {"stream", "preload"}
      BY <1>3, CompletionAssumption, Zenon DEF Good, Runtimes
    <3>5. rt' = [rt EXCEPT ![h] = [o EXCEPT !.readers = x]]
      BY <3>1
    <3> HIDE DEF o, x
    <3>6. [o EXCEPT !.readers = x] \in Good
      BY <3>3, <3>4, GoodReaders
    <3>7. rt' \in [Hashes -> Good]
      BY <1>1, <3>5, <3>6, RtUpdate, Zenon
    <3> QED
      BY <2>1, <2>2, <3>1, <3>7 DEF Sound
  <2>4. CASE \E saved \in Outcomes("database") :
               /\ rt' = [rt EXCEPT ![h] = Settle(h, BlockDownload(r, "write", saved))]
               /\ latch' = [latch EXCEPT ![h] = BlockRow(r, "write", saved, @)]
    <3>1. PICK saved \in Outcomes("database") :
               /\ rt' = [rt EXCEPT ![h] = Settle(h, BlockDownload(r, "write", saved))]
               /\ latch' = [latch EXCEPT ![h] = BlockRow(r, "write", saved, @)]
      BY <2>4, Zenon
    <3>2. "write" \in Reasons
      BY EngineAssumption
    <3>3. /\ rt' \in [Hashes -> Good]
          /\ latch' \in [Hashes -> Reasons \cup {NoReason}]
      BY <1>1, <1>3, <3>1, <3>2, BlockedTypes, Zenon
    <3> QED
      BY <2>1, <2>2, <3>3 DEF Sound
  <2> QED
    BY <1>8, <2>3, <2>4, Zenon DEF FinishPreparation, r
<1> QED
  BY <1>4, <1>5, <1>6, <1>7, <1>8

\* Health probes (manageResources after its window).
LEMMA ProbeSound ==
  ASSUME Sound, NEW w \in work,
         FinishStaleProbe(w) \/ FinishBlockedProbe(w) \/ FinishProbe(w)
  PROVE  Sound'
<1> DEFINE h == w.hash
           r == [rt[h] EXCEPT !.probing = FALSE]
<1>1. h \in Hashes
  BY DEF Sound, Works
<1>2. rt[h] \in Good /\ TypeOK
  BY <1>1, AtHash
<1>3. r \in Good
  BY <1>2, GoodFlag, Zenon
<1> HIDE DEF r
<1>4. CASE FinishStaleProbe(w)
  <2> DEFINE b == rt[h].probing /\ w.gen # rt[h].gen
             x == [rt[h] EXCEPT !.probing = b]
  <2>1. b \in BOOLEAN
    BY <1>2 DEF Good, Runtimes
  <2>2. Drop(w, x)
    BY <1>4 DEF FinishStaleProbe
  <2> HIDE DEF b
  <2>3. x \in Good
    BY <1>2, <2>1, GoodFlag, Zenon
  <2> QED
    BY <2>2, <2>3, DropSound
<1>5. CASE FinishBlockedProbe(w)
  <2>1. PICK reason \in ProbeResults \ {NoReason}, saved \in Outcomes("database") :
          /\ rt' = [rt EXCEPT ![h] = Settle(h, BlockDownload(r, reason, saved))]
          /\ latch' = [latch EXCEPT ![h] = BlockRow(r, reason, saved, @)]
    BY <1>5, Zenon DEF FinishBlockedProbe, r
  <2>2. reason \in Reasons
    BY ProbeReasonsType
  <2>3. /\ rt' \in [Hashes -> Good]
        /\ latch' \in [Hashes -> Reasons \cup {NoReason}]
    BY <1>1, <1>3, <2>1, <2>2, BlockedTypes, Zenon
  <2>4. work' \in SUBSET Works /\ IsFiniteSet(work')
    BY <1>5, WorkRemove, Zenon DEF FinishBlockedProbe
  <2> QED
    BY <1>5, <2>3, <2>4 DEF Sound, FinishBlockedProbe
<1>6. CASE FinishProbe(w)
  <2>1. PICK seen \in {ReconcileSelection(r, c) : c \in Completions} :
          LET granted == AcceptsSlotRequest(seen.policy,
                             SlotAvailable([rt EXCEPT ![h] = seen], h))
              x == Settle(h, IF granted THEN Grant(seen) ELSE seen)
          IN  \/ /\ rt' = [rt EXCEPT ![h] = [x EXCEPT !.started = TRUE,
                                                      !.preparing = TRUE]]
                 /\ work' = (work \ {w}) \cup {Ticket("sched", h, x)}
              \/ /\ rt' = [rt EXCEPT ![h] = x]
                 /\ work' = work \ {w}
    BY <1>6, Zenon DEF FinishProbe, r
  <2>2. seen \in Good
    BY <1>3, ReconcileSelectionGood
  <2> DEFINE granted == AcceptsSlotRequest(seen.policy,
                            SlotAvailable([rt EXCEPT ![h] = seen], h))
             g == IF granted THEN Grant(seen) ELSE seen
             x == Settle(h, g)
             s == [x EXCEPT !.started = TRUE]
             t == Ticket("sched", h, x)
  <2>3. \/ /\ rt' = [rt EXCEPT ![h] = [s EXCEPT !.preparing = TRUE]]
           /\ work' = (work \ {w}) \cup {t}
        \/ /\ rt' = [rt EXCEPT ![h] = x]
           /\ work' = work \ {w}
    BY <2>1, Zenon
  <2> HIDE DEF granted
  <2>4. g \in Good
    BY <2>2, GrantGood
  <2> HIDE DEF g
  <2>5. x \in Good
    BY <1>1, <1>2, <2>4, SettleGood
  <2>6. t \in Works
    BY <1>1, <2>5, JobTypes DEF Good, WorkKinds
  <2> HIDE DEF x, t
  <2>7. s \in Good
    BY <2>5, GoodFlag, Zenon
  <2> HIDE DEF s
  <2>8. [s EXCEPT !.preparing = TRUE] \in Good
    BY <2>7, GoodFlag, Zenon
  <2>9. rt' \in [Hashes -> Good]
    BY <1>1, <2>3, <2>5, <2>8, RtUpdate
  <2>10. work' \in SUBSET Works /\ IsFiniteSet(work')
    BY <2>3, <2>6, WorkUpdate
  <2> QED
    BY <1>6, <2>9, <2>10, Zenon DEF Sound, FinishProbe
<1> QED
  BY <1>4, <1>5, <1>6

\* The metadata watcher and the missing payload scan.
LEMMA WatchSound ==
  ASSUME Sound, NEW w \in work,
         \/ BeginSave(w)
         \/ FinishStaleWatch(w)
         \/ FinishFailedSave(w)
         \/ FinishSave(w)
         \/ FinishPresent(w)
         \/ FinishMissing(w)
  PROVE  Sound'
<1> DEFINE h == w.hash
<1>1. h \in Hashes
  BY DEF Sound, Works
<1>2. rt[h] \in Good /\ rt[h] \in Runtimes
  BY <1>1, AtHash
<1>3. CASE BeginSave(w)
  <2>1. Job("save", h, rt[h]) \in Works
    BY <1>1, <1>2, JobTypes DEF WorkKinds
  <2>2. work' = (work \ {w}) \cup {Job("save", h, rt[h])}
    BY <1>3 DEF BeginSave
  <2>3. work' \in SUBSET Works /\ IsFiniteSet(work')
    BY <2>1, <2>2, WorkUpdate
  <2> QED
    BY <1>3, <2>3 DEF Sound, BeginSave
<1>4. CASE FinishStaleWatch(w) \/ FinishPresent(w)
  BY <1>2, <1>4, DropSound DEF FinishStaleWatch, FinishPresent
<1>5. CASE FinishFailedSave(w)
  <2>1. PICK saved \in Outcomes("database") :
          db' = [db EXCEPT ![h] = SafetyRow(rt[h], db[h], "metadata", saved)]
    BY <1>5, Zenon DEF FinishFailedSave
  <2>2. rt' = [rt EXCEPT ![h] = Settle(h, Fault(rt[h], "metadata"))]
    BY <1>5 DEF FinishFailedSave
  <2>3. rt' \in [Hashes -> Good] /\ db' \in [Hashes -> Records]
    BY <1>1, <1>2, <2>1, <2>2, FaultTypes, Zenon DEF SafetyKinds
  <2>4. work' \in SUBSET Works /\ IsFiniteSet(work')
    BY <1>5, WorkRemove DEF FinishFailedSave
  <2> QED
    BY <1>5, <2>3, <2>4 DEF Sound, FinishFailedSave
<1>6. CASE FinishSave(w)
  <2> DEFINE s == [rt[h] EXCEPT !.started = TRUE]
             t == Ticket("meta", h, s)
  <2>1. \/ /\ rt' = [rt EXCEPT ![h] = [s EXCEPT !.preparing = TRUE]]
           /\ work' = (work \ {w}) \cup {t}
        \/ /\ rt' = [rt EXCEPT ![h] = s] \/ rt' = [rt EXCEPT ![h] = rt[h]]
           /\ work' = work \ {w}
    BY <1>6, Zenon DEF FinishSave
  <2>2. s \in Good
    BY <1>2, GoodFlag, Zenon
  <2> HIDE DEF s
  <2>3. t \in Works
    BY <1>1, <2>2, JobTypes DEF Good, WorkKinds
  <2> HIDE DEF t
  <2>4. [s EXCEPT !.preparing = TRUE] \in Good
    BY <2>2, GoodFlag, Zenon
  <2>5. rt' \in [Hashes -> Good]
    BY <1>1, <1>2, <2>1, <2>2, <2>4, RtUpdate
  <2>6. work' \in SUBSET Works /\ IsFiniteSet(work')
    BY <2>1, <2>3, WorkUpdate
  <2> QED
    BY <1>6, <2>5, <2>6 DEF Sound, FinishSave
<1>7. CASE FinishMissing(w)
  <2>1. PICK saved \in Outcomes("database") :
          db' = [db EXCEPT ![h] = SafetyRow(rt[h], db[h], "missing", saved)]
    BY <1>7, Zenon DEF FinishMissing
  <2>2. rt' = [rt EXCEPT ![h] = Settle(h, Fault(rt[h], "missing"))]
    BY <1>7 DEF FinishMissing
  <2>3. rt' \in [Hashes -> Good] /\ db' \in [Hashes -> Records]
    BY <1>1, <1>2, <2>1, <2>2, FaultTypes, Zenon DEF SafetyKinds
  <2>4. work' \in SUBSET Works /\ IsFiniteSet(work')
    BY <1>7, WorkRemove DEF FinishMissing
  <2> QED
    BY <1>7, <2>3, <2>4 DEF Sound, FinishMissing
<1> QED
  BY <1>3, <1>4, <1>5, <1>6, <1>7

\* The end of a check (completeVerificationLocked), also of a detached one.
LEMMA VerifierSound ==
  ASSUME Sound, NEW w \in work,
         FinishVerification(w) \/ FinishStaleVerification(w)
  PROVE  Sound'
<1> DEFINE h == w.hash
<1>1. h \in Hashes
  BY DEF Sound, Works
<1>2. rt[h] \in Good /\ TypeOK /\ db[h] \in Records
  BY <1>1, AtHash
<1>3. cmd' \in [Hashes -> Commands]
  BY ReleaseReaderType DEF FinishVerification, FinishStaleVerification
<1>4. work' \in SUBSET Works /\ IsFiniteSet(work')
  BY WorkRemove DEF FinishVerification, FinishStaleVerification
<1>5. CASE FinishVerification(w)
  <2> DEFINE durable(saved) == saved /\ ExactFence(db[h], rt[h].fence)
  <2>1. PICK ok \in Outcomes("verify"), saved \in Outcomes("database") :
          /\ rt' = [rt EXCEPT ![h] = Settle(h, Completed(rt[h], ok, durable(saved)))]
          /\ db' = [db EXCEPT ![h] = CompletedRow(db[h], ok, durable(saved))]
    BY <1>5, Zenon DEF FinishVerification
  <2> DEFINE u == durable(saved)
  <2>2. ok \in BOOLEAN /\ u \in BOOLEAN
    BY Zenon DEF Outcomes
  <2>3. /\ rt' = [rt EXCEPT ![h] = Settle(h, Completed(rt[h], ok, u))]
        /\ db' = [db EXCEPT ![h] = CompletedRow(db[h], ok, u)]
    BY <2>1
  <2> HIDE DEF u
  <2>4. Settle(h, Completed(rt[h], ok, u)) \in Good
    BY <1>1, <1>2, <2>2, VerificationGood, SettleGood, Zenon
  <2>5. CompletedRow(db[h], ok, u) \in Records
    <3>1. "missing" \in BlockKinds
      BY DEF BlockKinds
    <3> QED
      BY <1>2, <3>1, RecordTypes
  <2>6. rt' \in [Hashes -> Good] /\ db' \in [Hashes -> Records]
    BY <1>1, <2>3, <2>4, <2>5, RtUpdate, DbUpdate, Zenon
  <2> QED
    BY <1>3, <1>4, <1>5, <2>6 DEF Sound, FinishVerification
<1>6. CASE FinishStaleVerification(w)
  <2> DEFINE b == rt[h].verifying /\ w.gen # rt[h].gen
  <2>1. b \in BOOLEAN
    BY <1>2 DEF Good, Runtimes
  <2>2. rt' = [rt EXCEPT ![h] = [rt[h] EXCEPT !.verifying = b]]
    BY <1>6 DEF FinishStaleVerification
  <2> HIDE DEF b
  <2>3. [rt[h] EXCEPT !.verifying = b] \in Good
    BY <1>2, <2>1, GoodFlag, Zenon
  <2>4. rt' \in [Hashes -> Good]
    BY <1>1, <2>2, <2>3, RtUpdate, Zenon
  <2> QED
    BY <1>3, <1>4, <1>6, <2>4 DEF Sound, FinishStaleVerification
<1> QED
  BY <1>5, <1>6

\* Every result of work keeps the state sound.
LEMMA FinishWorkSound ==
  ASSUME Sound, NEW w \in work, FinishWork(w)
  PROVE  Sound'
  BY PreparationSound, ProbeSound, WatchSound, VerifierSound DEF FinishWork

-----------------------------------------------------------------------------
\* Steps the background starts, and those of the library and its readers.

\* The library reports metadata or a failed write, and readers come and go.
LEMMA LibrarySound ==
  ASSUME Sound, NEW h \in Hashes,
         \/ GotInfo(h)
         \/ WriteFails(h)
         \/ OpenReadyStream(h)
         \/ CloseStream(h)
  PROVE  Sound'
<1>1. rt[h] \in Good /\ rt[h] \in Runtimes /\ cmd[h] \in Commands
  BY AtHash
<1>2. CASE GotInfo(h)
  <2>1. rt' = [rt EXCEPT ![h] = [rt[h] EXCEPT !.info = TRUE]]
    BY <1>2 DEF GotInfo
  <2>2. [rt[h] EXCEPT !.info = TRUE] \in Good
    BY <1>1, GoodFlag, Zenon
  <2>3. rt' \in [Hashes -> Good]
    BY <2>1, <2>2, RtUpdate, Zenon
  <2> QED
    BY <1>2, <2>3 DEF Sound, GotInfo
<1>3. CASE WriteFails(h)
  <2> DEFINE v == IF At(h, "probing") THEN Fresh({cmd[h].wver}) ELSE 0
             x == [rt[h] EXCEPT !.writeError = TRUE, !.down = FALSE,
                                !.writeVersion = v]
  <2>1. v \in Nat
    BY FS_Singleton, FreshIsNew, Zenon
  <2>2. rt' = [rt EXCEPT ![h] = x]
    BY <1>3, Zenon DEF WriteFails, Sound
  <2> HIDE DEF v
  <2>3. x \in Good
    BY <1>1, <2>1, Zenon DEF Good, GateOK, Runtimes
  <2> HIDE DEF x
  <2>4. rt' \in [Hashes -> Good]
    BY <2>2, <2>3, RtUpdate, Zenon
  <2> QED
    BY <1>3, <2>4 DEF Sound, WriteFails
<1>4. CASE OpenReadyStream(h)
  <2>1. PICK reader \in ReaderKinds :
          rt' = [rt EXCEPT ![h].readers = @ \cup {reader}, ![h].expected = TRUE]
    BY <1>4, Zenon DEF OpenReadyStream
  <2> DEFINE s == rt[h].readers \cup {reader}
             x == [rt[h] EXCEPT !.readers = s]
  <2>2. s \in SUBSET {"stream", "preload"}
    BY <1>1, CompletionAssumption DEF Runtimes
  <2>3. rt' = [rt EXCEPT ![h] = [x EXCEPT !.expected = TRUE]]
    BY <2>1, Zenon DEF Sound
  <2> HIDE DEF s
  <2>4. x \in Good
    BY <1>1, <2>2, GoodReaders
  <2> HIDE DEF x
  <2>5. [x EXCEPT !.expected = TRUE] \in Good
    BY <2>4, GoodFlag, Zenon
  <2>6. rt' \in [Hashes -> Good]
    BY <2>3, <2>5, RtUpdate, Zenon
  <2> QED
    BY <1>4, <2>6, Zenon DEF Sound, OpenReadyStream
<1>5. CASE CloseStream(h)
  <2>1. PICK reader \in rt[h].readers :
          rt' = [rt EXCEPT ![h] = [rt[h] EXCEPT !.readers = @ \ {reader}]]
    BY <1>5, Zenon DEF CloseStream
  <2> DEFINE s == rt[h].readers \ {reader}
  <2>2. s \in SUBSET {"stream", "preload"}
    BY <1>1 DEF Runtimes
  <2>3. rt' = [rt EXCEPT ![h] = [rt[h] EXCEPT !.readers = s]]
    BY <2>1
  <2> HIDE DEF s
  <2>4. [rt[h] EXCEPT !.readers = s] \in Good
    BY <1>1, <2>2, GoodReaders
  <2>5. rt' \in [Hashes -> Good]
    BY <2>3, <2>4, RtUpdate, Zenon
  <2> QED
    BY <1>5, <2>5 DEF Sound, CloseStream
<1> QED
  BY <1>2, <1>3, <1>4, <1>5

\* Probes, admissions and scans begin; a writer error is handled.
LEMMA BackgroundSound ==
  ASSUME Sound, NEW h \in Hashes, BackgroundStep(h)
  PROVE  Sound'
<1>1. rt[h] \in Good /\ rt[h] \in Runtimes
  BY AtHash
<1>2. CASE BeginProbe(h)
  <2>1. rt' = [rt EXCEPT ![h] = [rt[h] EXCEPT !.probing = TRUE]]
    BY <1>2 DEF BeginProbe
  <2>2. [rt[h] EXCEPT !.probing = TRUE] \in Good
    BY <1>1, GoodFlag, Zenon
  <2>3. rt' \in [Hashes -> Good]
    BY <2>1, <2>2, RtUpdate, Zenon
  <2>4. Job("probe", h, rt[h]) \in Works
    BY <1>1, JobTypes DEF WorkKinds
  <2>5. work' = work \cup {Job("probe", h, rt[h])}
    BY <1>2 DEF BeginProbe
  <2>6. work' \in SUBSET Works /\ IsFiniteSet(work')
    BY <2>4, <2>5, WorkUpdate
  <2> QED
    BY <1>2, <2>3, <2>6 DEF Sound, BeginProbe
<1>3. CASE HandleWriteError(h)
  <2>1. PICK saved \in Outcomes("database") :
          /\ rt' = [rt EXCEPT ![h] =
                      Settle(h, BlockDownload(rt[h], "write", saved))]
          /\ latch' = [latch EXCEPT ![h] = BlockRow(rt[h], "write", saved, @)]
    BY <1>3, Zenon DEF HandleWriteError
  <2>2. /\ rt' \in [Hashes -> Good]
        /\ latch' \in [Hashes -> Reasons \cup {NoReason}]
    BY <1>1, <2>1, BlockedTypes, EngineAssumption, Zenon
  <2> QED
    BY <1>3, <2>2 DEF Sound, HandleWriteError
<1>4. CASE OpenStream(h)
  <2>1. rt' = [rt EXCEPT ![h] = [rt[h] EXCEPT !.preparing = TRUE]]
    BY <1>4 DEF OpenStream, Reserve
  <2>2. [rt[h] EXCEPT !.preparing = TRUE] \in Good
    BY <1>1, GoodFlag, Zenon
  <2>3. rt' \in [Hashes -> Good]
    BY <2>1, <2>2, RtUpdate, Zenon
  <2>4. Ticket("stream", h, rt[h]) \in Works
    BY <1>1, JobTypes DEF WorkKinds
  <2>5. work' = work \cup {Ticket("stream", h, rt[h])}
    BY <1>4 DEF OpenStream, Reserve
  <2>6. work' \in SUBSET Works /\ IsFiniteSet(work')
    BY <2>4, <2>5, WorkUpdate
  <2> QED
    BY <1>4, <2>3, <2>6 DEF Sound, OpenStream
<1>5. CASE BeginMissing(h)
  <2>1. Job("missing", h, rt[h]) \in Works
    BY <1>1, JobTypes DEF WorkKinds
  <2>2. work' = work \cup {Job("missing", h, rt[h])}
    BY <1>5 DEF BeginMissing
  <2>3. work' \in SUBSET Works /\ IsFiniteSet(work')
    BY <2>1, <2>2, WorkUpdate
  <2> QED
    BY <1>5, <2>3 DEF Sound, BeginMissing
<1> QED
  BY <1>2, <1>3, <1>4, <1>5, LibrarySound DEF BackgroundStep
=============================================================================
