------------------------- MODULE EngineIntentProofs -------------------------
(***************************************************************************)
(* The steps of intent commands keep Sound: activation, Resume's windows,  *)
(* binding, failure, Resume, Pause, priorities and metadata.               *)
(***************************************************************************)
EXTENDS EngineLemmas

-----------------------------------------------------------------------------
\* Activation.

\* Where an activation goes on.
LEMMA AfterActivationType ==
  ASSUME NEW h
  PROVE  AfterActivation(h) \in Steps
  BY DEF AfterActivation, Steps

\* FinishRestore, its windows and its failures.
LEMMA ActivationSound ==
  ASSUME Sound, NEW h \in Hashes,
         \/ ActivateBegin(h)
         \/ ActivateConflict(h)
         \/ ActivateFault(h)
         \/ ResumeProbe(h)
         \/ ActivateFinish(h)
  PROVE  Sound'
<1>1. rt[h] \in Good /\ cmd[h] \in Commands
  BY AtHash
<1>2. CASE ActivateBegin(h)
  <2>1. "saving" \in Steps
    BY DEF Steps
  <2>2. cmd' \in [Hashes -> Commands]
    BY <1>2, <2>1, CmdCapture, CmdFails, ProjectedErrorType, Zenon DEF ActivateBegin
  <2> QED
    BY <1>2, <2>2 DEF Sound, ActivateBegin
<1>3. CASE ActivateConflict(h)
  <2>1. cmd' \in [Hashes -> Commands]
    BY <1>3, CmdFails DEF ActivateConflict
  <2> QED
    BY <1>3, <2>1 DEF Sound, ActivateConflict
<1>4. CASE ActivateFault(h)
  <2>1. PICK kind \in {"metadata", "selection"}, saved \in Outcomes("database") :
          /\ rt' = [rt EXCEPT ![h] = Settle(h, Fault(rt[h], kind))]
          /\ db' = [db EXCEPT ![h] = SafetyRow(rt[h], db[h], kind, saved)]
    BY <1>4, Zenon DEF ActivateFault
  <2>2. kind \in SafetyKinds
    BY DEF SafetyKinds
  <2>3. rt' \in [Hashes -> Good] /\ db' \in [Hashes -> Records]
    BY <1>1, <2>1, <2>2, FaultTypes, Zenon
  <2>4. cmd' \in [Hashes -> Commands]
    BY <1>4, CmdFails DEF ActivateFault
  <2> QED
    BY <1>4, <2>3, <2>4 DEF Sound, ActivateFault
<1>5. CASE ResumeProbe(h)
  <2>1. "probing" \in Steps /\ cmd[h].err \in Errors
    BY <1>1 DEF Steps, Commands
  <2>2. cmd' \in [Hashes -> Commands]
    BY <1>5, <2>1, CmdCapture DEF ResumeProbe
  <2> QED
    BY <1>5, <2>2 DEF Sound, ResumeProbe
<1>6. CASE ActivateFinish(h)
  <2> DEFINE r == Activate(rt[h], cmd[h].phase, cmd[h].err, FALSE)
  <2>1. \/ /\ rt' = [rt EXCEPT ![h] = Settle(h, r)]
           /\ Goto(h, AfterActivation(h))
        \/ /\ rt' = [rt EXCEPT ![h] = Settle(h, ApplyFailed(r))]
           /\ Fails(h)
    BY <1>6, Zenon DEF ActivateFinish
  <2>2. r \in Good
    BY <1>1, ActivateGood, Zenon
  <2> HIDE DEF r
  <2>3. "missing" \in SafetyKinds
    BY DEF SafetyKinds
  <2>4. ApplyFailed(r) \in Good
    BY <2>2, <2>3, FaultGood
  <2>5. rt' \in [Hashes -> Good]
    BY <2>1, <2>2, <2>4, SettledUpdate
  <2>6. cmd' \in [Hashes -> Commands]
    BY <2>1, CmdGoto, CmdFails, AfterActivationType
  <2> QED
    BY <1>6, <2>5, <2>6 DEF Sound, ActivateFinish
<1> QED
  BY <1>2, <1>3, <1>4, <1>5, <1>6

\* The second window of an explicit Resume.
LEMMA ResumeWindowSound ==
  ASSUME Sound, NEW h \in Hashes,
         ResumeBlocked(h) \/ ResumeFinish(h) \/ ResumeVerdict(h)
  PROVE  Sound'
<1>1. rt[h] \in Good /\ cmd[h] \in Commands
  BY AtHash
<1>2. "fail" \in Steps /\ "verdict" \in Steps /\ "attach" \in Steps
  BY DEF Steps
<1>3. CASE ResumeBlocked(h)
  <2>1. PICK reason \in (ProbeResults \ {NoReason}) \cup {"resume"},
             saved \in Outcomes("database") :
          /\ rt' = [rt EXCEPT ![h] = Settle(h, BlockDownload(rt[h], reason, saved))]
          /\ latch' = [latch EXCEPT ![h] = BlockRow(rt[h], reason, saved, @)]
    BY <1>3, Zenon DEF ResumeBlocked
  <2>2. reason \in Reasons
    BY ProbeReasonsType, EngineAssumption
  <2>3. /\ rt' \in [Hashes -> Good]
        /\ latch' \in [Hashes -> Reasons \cup {NoReason}]
    BY <1>1, <2>1, <2>2, BlockedTypes, Zenon
  <2>4. cmd' \in [Hashes -> Commands]
    BY <1>2, <1>3, CmdGoto DEF ResumeBlocked
  <2> QED
    BY <1>3, <2>3, <2>4 DEF Sound, ResumeBlocked
<1>4. CASE ResumeFinish(h)
  <2> DEFINE c == WriterCleared(h)
             r == Activate(c, "Queued", cmd[h].err, TRUE)
  <2>1. /\ \/ rt' = [rt EXCEPT ![h] = Settle(h, r)]
           \/ rt' = [rt EXCEPT ![h] = Settle(h, ApplyFailed(r))]
           \/ rt' = [rt EXCEPT ![h] = c]
        /\ latch' = [latch EXCEPT ![h] = NoReason] \/ UNCHANGED latch
        /\ Goto(h, "verdict") \/ Goto(h, "fail")
    BY <1>4, Zenon DEF ResumeFinish
  <2>2. c \in Good
    BY <1>1, Zenon DEF WriterCleared, Good, GateOK, Runtimes
  <2> HIDE DEF c
  <2>3. r \in Good
    BY <2>2, ActivateGood, Zenon
  <2> HIDE DEF r
  <2>4. ApplyFailed(r) \in Good
    <3>1. "missing" \in SafetyKinds
      BY DEF SafetyKinds
    <3> QED
      BY <2>3, <3>1, FaultGood
  <2>5. rt' \in [Hashes -> Good]
    BY <2>1, <2>2, <2>3, <2>4, SettledUpdate, RtUpdate
  <2>6. latch' \in [Hashes -> Reasons \cup {NoReason}]
    BY <2>1 DEF Sound
  <2>7. cmd' \in [Hashes -> Commands]
    BY <1>2, <2>1, CmdGoto
  <2> QED
    BY <1>4, <2>5, <2>6, <2>7, Zenon DEF Sound, ResumeFinish
<1>5. CASE ResumeVerdict(h)
  <2>1. cmd' \in [Hashes -> Commands]
    BY <1>2, <1>5, CmdGoto DEF ResumeVerdict
  <2> QED
    BY <1>5, <2>1 DEF Sound, ResumeVerdict
<1> QED
  BY <1>3, <1>4, <1>5

-----------------------------------------------------------------------------
\* Commands: binding and failure.

\* The keys a binding carries are activation blocks.
LEMMA CarriedType ==
  ASSUME NEW r \in Runtimes
  PROVE  Carried(r) \in SUBSET BlockKinds
  BY DEF Carried, Runtimes, SafetyKinds, BlockKinds

\* Adding keys to the record of h.
LEMMA BlocksAdded ==
  ASSUME Sound, NEW h \in Hashes, NEW keys \in SUBSET BlockKinds,
         db' = [db EXCEPT ![h].blocks = @ \cup keys]
  PROVE  db' \in [Hashes -> Records]
<1> DEFINE d == [db[h] EXCEPT !.blocks = @ \cup keys]
<1>1. d \in Records
  BY DEF Sound, Records
<1>2. db' = [db EXCEPT ![h] = d]
  OBVIOUS
<1> QED
  BY <1>1, <1>2, DbUpdate, Zenon

\* bindRuntime writes the carried keys and installs its fence, or fails.
LEMMA BindTypes ==
  ASSUME Sound, NEW h \in Hashes, NEW applied \in Nat, NEW next, NEW failed,
         BindRuntime(h, applied, next, failed)
  PROVE  /\ rt' \in [Hashes -> Good]
         /\ db' \in [Hashes -> Records]
         /\ next \/ failed
<1> DEFINE r == rt[h]
           f == cmd[h].fence
<1>1. r \in Good /\ r \in Runtimes /\ cmd[h] \in Commands
  BY AtHash
<1>2. f \in Fences
  BY <1>1 DEF Commands
<1>3. Carried(r) \in SUBSET BlockKinds
  BY <1>1, CarriedType
<1>4. CASE /\ db' = [db EXCEPT ![h].blocks = @ \cup Carried(r)]
           /\ rt' = [rt EXCEPT ![h].fence = f, ![h].applied = applied]
           /\ next
  <2> DEFINE x == [r EXCEPT !.fence = f, !.applied = applied]
  <2>1. rt' = [rt EXCEPT ![h] = x]
    BY <1>4, Zenon DEF Sound
  <2>2. x \in Good
    BY <1>1, <1>2, GoodBinding, Zenon
  <2> HIDE DEF x
  <2>3. rt' \in [Hashes -> Good]
    BY <2>1, <2>2, RtUpdate, Zenon
  <2>4. db' \in [Hashes -> Records]
    BY <1>3, <1>4, BlocksAdded, Zenon
  <2> QED
    BY <1>4, <2>3, <2>4
<1>5. CASE failed /\ UNCHANGED <<rt, db>>
  BY <1>5 DEF Sound
<1>6. CASE /\ \E part \in Partial(Carried(r)) :
                db' = [db EXCEPT ![h].blocks = @ \cup part]
           /\ failed
           /\ UNCHANGED rt
  <2>1. PICK part \in Partial(Carried(r)) :
          db' = [db EXCEPT ![h].blocks = @ \cup part]
    BY <1>6, Zenon
  <2>2. part \in SUBSET BlockKinds
    BY <1>3 DEF Partial
  <2>3. db' \in [Hashes -> Records]
    BY <2>1, <2>2, BlocksAdded, Zenon
  <2> QED
    BY <1>6, <2>3 DEF Sound
<1> QED
  BY <1>4, <1>5, <1>6 DEF BindRuntime

\* Attaching and binding, with and without acknowledgment.
LEMMA BindingSound ==
  ASSUME Sound, NEW h \in Hashes,
         \/ AttachRuntime(h)
         \/ BindApplied(h)
         \/ AttachObserved(h)
         \/ BindObserved(h)
         \/ Sync(h)
  PROVE  Sound'
<1>1. cmd[h] \in Commands
  BY AtHash
<1>2. /\ "bind" \in Steps /\ "fail" \in Steps /\ "bindObserved" \in Steps
      /\ "observe" \in Steps /\ "sync" \in Ops /\ "Queued" \in Phases
  BY DEF Steps, Ops, Phases
<1>3. CASE AttachRuntime(h)
  <2>1. \/ Finish(h) /\ UNCHANGED db
        \/ Attach(h, "bind")
        \/ Goto(h, "fail") /\ UNCHANGED db
    BY <1>3 DEF AttachRuntime
  <2>2. cmd' \in [Hashes -> Commands]
    BY <1>2, <2>1, CmdFinish, CmdGoto, AttachTypes
  <2>3. db' \in [Hashes -> Records]
    BY <1>2, <2>1, AttachTypes DEF Sound
  <2> QED
    BY <1>3, <2>2, <2>3 DEF Sound, AttachRuntime
<1>4. CASE BindApplied(h)
  <2>1. BindRuntime(h, cmd[h].fence.rev, Finish(h), Goto(h, "fail"))
    BY <1>4 DEF BindApplied
  <2>2. cmd[h].fence.rev \in Nat
    BY <1>1 DEF Commands, Fences
  <2>3. /\ rt' \in [Hashes -> Good]
        /\ db' \in [Hashes -> Records]
        /\ Finish(h) \/ Goto(h, "fail")
    BY <2>1, <2>2, BindTypes
  <2>4. cmd' \in [Hashes -> Commands]
    BY <1>2, <2>3, CmdFinish, CmdGoto
  <2> QED
    BY <1>4, <2>3, <2>4 DEF Sound, BindApplied
<1>5. CASE AttachObserved(h)
  <2>1. \/ Observed(h) /\ UNCHANGED db
        \/ Attach(h, "bindObserved")
        \/ Finish(h) /\ UNCHANGED db
    BY <1>5 DEF AttachObserved
  <2>2. cmd' \in [Hashes -> Commands]
    BY <1>2, <2>1, CmdFinish, CmdObserved, AttachTypes
  <2>3. db' \in [Hashes -> Records]
    BY <1>2, <2>1, AttachTypes DEF Sound
  <2> QED
    BY <1>5, <2>2, <2>3 DEF Sound, AttachObserved
<1>6. CASE BindObserved(h)
  <2>1. BindRuntime(h, 0, Observed(h), Finish(h))
    BY <1>6 DEF BindObserved
  <2>2. /\ rt' \in [Hashes -> Good]
        /\ db' \in [Hashes -> Records]
        /\ Observed(h) \/ Finish(h)
    BY <2>1, BindTypes
  <2>3. cmd' \in [Hashes -> Commands]
    BY <2>2, CmdFinish, CmdObserved
  <2> QED
    BY <1>6, <2>2, <2>3 DEF Sound, BindObserved
<1>7. CASE Sync(h)
  <2>1. cmd' \in [Hashes -> Commands]
    BY <1>2, <1>7, CmdEnter DEF Sync
  <2> QED
    BY <1>7, <2>1 DEF Sound, Sync
<1> QED
  BY <1>3, <1>4, <1>5, <1>6, <1>7

\* failedIntentApply: the failure event and the keys it carries.
LEMMA FailureSound ==
  ASSUME Sound, NEW h \in Hashes, FailIntentApply(h) \/ CarrySafety(h)
  PROVE  Sound'
<1>1. rt[h] \in Good /\ rt[h] \in Runtimes
  BY AtHash
<1>2. "carry" \in Steps /\ "bindObserved" \in Steps /\ "missing" \in SafetyKinds
  BY DEF Steps, SafetyKinds
<1>3. CASE FailIntentApply(h)
  <2>1. \/ rt' = [rt EXCEPT ![h] = Settle(h, ApplyFailed(rt[h]))]
        \/ rt' = [rt EXCEPT ![h] = rt[h]]
    BY <1>3, Zenon DEF FailIntentApply
  <2>2. ApplyFailed(rt[h]) \in Good
    BY <1>1, <1>2, FaultGood
  <2>3. rt' \in [Hashes -> Good]
    BY <1>1, <2>1, <2>2, SettledUpdate, RtUpdate
  <2>4. cmd' \in [Hashes -> Commands]
    BY <1>2, <1>3, CmdGoto DEF FailIntentApply
  <2> QED
    BY <1>3, <2>3, <2>4, Zenon DEF Sound, FailIntentApply
<1>4. CASE CarrySafety(h)
  <2>1. \/ Finish(h) /\ UNCHANGED db
        \/ Finish(h) /\ \E part \in SUBSET rt[h].safety :
                          db' = [db EXCEPT ![h].blocks = @ \cup part]
        \/ Attach(h, "bindObserved")
    BY <1>4 DEF CarrySafety
  <2>2. cmd' \in [Hashes -> Commands]
    BY <1>2, <2>1, CmdFinish, AttachTypes
  <2>3. rt[h].safety \in SUBSET BlockKinds
    BY <1>1 DEF Runtimes, SafetyKinds, BlockKinds
  <2>4. ASSUME NEW part \in SUBSET rt[h].safety,
               db' = [db EXCEPT ![h].blocks = @ \cup part]
        PROVE  db' \in [Hashes -> Records]
    <3>1. part \in SUBSET BlockKinds
      BY <2>3
    <3> QED
      BY <2>4, <3>1, BlocksAdded, Zenon
  <2>5. db' \in [Hashes -> Records]
    BY <1>2, <2>1, <2>4, AttachTypes DEF Sound
  <2> QED
    BY <1>4, <2>2, <2>5 DEF Sound, CarrySafety
<1> QED
  BY <1>3, <1>4

-----------------------------------------------------------------------------
\* Commands: Resume, Pause, priorities and metadata.

\* The steps and operations these commands name.
LEMMA IntentNames ==
  /\ {"stage", "commit", "activate", "fail", "reconcile", "attach", "apply"}
       \subseteq Steps
  /\ {"resume", "pause", "priority", "metadata"} \subseteq Ops
  /\ {"Queued", "Paused"} \subseteq Phases
  BY DEF Steps, Ops, Phases

\* engine.Pause and its full form, when the runtime is managed.
LEMMA PausedUpdate ==
  ASSUME Sound, NEW h \in Hashes, NEW full \in BOOLEAN,
         \/ rt' = [rt EXCEPT ![h] = Settle(h, Quiesce(rt[h], Paused(rt[h].policy, full)))]
         \/ rt' = [rt EXCEPT ![h] = rt[h]]
  PROVE  rt' \in [Hashes -> Good]
<1>1. rt[h] \in Good
  BY AtHash
<1>2. Quiesce(rt[h], Paused(rt[h].policy, full)) \in Good
  BY <1>1, StoppedGood
<1> QED
  BY <1>1, <1>2, SettledUpdate, RtUpdate

\* resumeLocked up to its commit.
LEMMA ResumeSound ==
  ASSUME Sound, NEW h \in Hashes,
         ResumeBegin(h) \/ ResumeStage(h) \/ ResumeCommit(h)
  PROVE  Sound'
<1>1. /\ rt[h] \in Good
      /\ db[h] \in Records
      /\ TypeOK
      /\ latch[h] \in Reasons \cup {NoReason}
  BY AtHash
<1>2. CASE ResumeBegin(h)
  <2>1. cmd' \in [Hashes -> Commands]
    BY <1>2, CmdEnter, IntentNames DEF ResumeBegin
  <2> QED
    BY <1>2, <2>1 DEF Sound, ResumeBegin
<1>3. CASE ResumeStage(h)
  <2>1. cmd' \in [Hashes -> Commands]
    <3>1. Goto(h, "fail") \/ Goto(h, "commit")
      BY <1>3, Zenon DEF ResumeStage
    <3> QED
      BY <3>1, CmdGoto, IntentNames
  <2> DEFINE phase == IF db[h].run = "paused" THEN "Paused" ELSE "Queued"
             x == Quiesce(rt[h], Staged(rt[h].policy))
  <2>2. \/ UNCHANGED <<rt, work>>
        \/ rt' = [rt EXCEPT ![h] = Settle(h, x)] /\ UNCHANGED work
        \/ \E source \in Sources :
             Publish(h, NewRuntime(h, phase, "none", latch[h], source = "file"))
    BY <1>3, Zenon DEF ResumeStage
  <2>3. x \in Good
    BY <1>1, StoppedGood, Zenon
  <2>4. \A b \in BOOLEAN : NewRuntime(h, phase, "none", latch[h], b) \in Good
    BY <1>1, NewRuntimeGood
  <2> HIDE DEF x, phase
  <2>5. CASE UNCHANGED <<rt, work>>
    BY <1>3, <2>1, <2>5 DEF Sound, ResumeStage
  <2>6. CASE rt' = [rt EXCEPT ![h] = Settle(h, x)] /\ UNCHANGED work
    <3>1. rt' \in [Hashes -> Good]
      BY <2>3, <2>6, SettledUpdate, Zenon
    <3> QED
      BY <1>3, <2>1, <2>6, <3>1 DEF Sound, ResumeStage
  <2>7. CASE \E source \in Sources :
               Publish(h, NewRuntime(h, phase, "none", latch[h], source = "file"))
    <3>1. PICK source \in Sources :
            Publish(h, NewRuntime(h, phase, "none", latch[h], source = "file"))
      BY <2>7
    <3> DEFINE b == source = "file"
    <3>2. b \in BOOLEAN /\ Publish(h, NewRuntime(h, phase, "none", latch[h], b))
      BY <3>1
    <3> HIDE DEF b
    <3>3. /\ rt' \in [Hashes -> Good]
          /\ work' \in SUBSET Works
          /\ IsFiniteSet(work')
      BY <2>4, <3>2, PublishTypes
    <3> QED
      BY <1>3, <2>1, <3>3 DEF Sound, ResumeStage
  <2> QED
    BY <2>2, <2>5, <2>6, <2>7
<1>4. CASE ResumeCommit(h)
  <2>1. cmd' \in [Hashes -> Commands]
    <3>1. Goto(h, "activate") \/ Goto(h, "fail")
      BY <1>4, Zenon DEF ResumeCommit
    <3> QED
      BY <3>1, CmdGoto, IntentNames
  <2> DEFINE d == [db[h] EXCEPT !.blocks = {}, !.run = "enabled", !.rev = @ + 1]
  <2>2. d \in Records
    <3>1. "enabled" \in Runs /\ db[h].rev + 1 \in Nat
      BY <1>1 DEF Records, Runs
    <3> QED
      BY <1>1, <3>1, Zenon DEF Records
  <2>3. /\ \/ db' = [db EXCEPT ![h] = d]
           \/ db' = db
        /\ \/ rt' = rt
           \/ rt' = [rt EXCEPT ![h] =
                       Settle(h, Quiesce(rt[h], Paused(rt[h].policy, FALSE)))]
           \/ rt' = [rt EXCEPT ![h] = rt[h]]
    BY <1>4, Zenon DEF ResumeCommit, Sound
  <2> HIDE DEF d
  <2>4. db' \in [Hashes -> Records]
    BY <2>2, <2>3, DbUpdate DEF Sound
  <2>5. rt' \in [Hashes -> Good]
    BY <2>3, PausedUpdate, Zenon DEF Sound
  <2> QED
    BY <1>4, <2>1, <2>4, <2>5 DEF Sound, ResumeCommit
<1> QED
  BY <1>2, <1>3, <1>4

\* Pause.
LEMMA PauseSound ==
  ASSUME Sound, NEW h \in Hashes,
         PauseBegin(h) \/ PauseCommit(h) \/ PauseReconcile(h)
  PROVE  Sound'
<1>1. db[h] \in Records
  BY AtHash
<1>2. CASE PauseBegin(h)
  <2>1. cmd' \in [Hashes -> Commands]
    BY <1>2, CmdEnter, IntentNames DEF PauseBegin
  <2>2. \/ rt' = [rt EXCEPT ![h] =
                    Settle(h, Quiesce(rt[h], Paused(rt[h].policy, FALSE)))]
        \/ rt' = [rt EXCEPT ![h] = rt[h]]
    BY <1>2, Zenon DEF PauseBegin
  <2>3. rt' \in [Hashes -> Good]
    BY <2>2, PausedUpdate, Zenon
  <2> QED
    BY <1>2, <2>1, <2>3, Zenon DEF Sound, PauseBegin
<1>3. CASE PauseCommit(h)
  <2>1. cmd' \in [Hashes -> Commands]
    <3>1. Goto(h, "reconcile") \/ Goto(h, "fail")
      BY <1>3 DEF PauseCommit
    <3> QED
      BY <3>1, CmdGoto, IntentNames
  <2> DEFINE d == [db[h] EXCEPT !.run = "paused", !.rev = @ + 1]
  <2>2. d \in Records
    <3>1. "paused" \in Runs /\ db[h].rev + 1 \in Nat
      BY <1>1 DEF Records, Runs
    <3> QED
      BY <1>1, <3>1, Zenon DEF Records
  <2>3. db' = [db EXCEPT ![h] = d] \/ db' = db
    BY <1>3, Zenon DEF PauseCommit, Sound
  <2> HIDE DEF d
  <2>4. db' \in [Hashes -> Records]
    BY <2>2, <2>3, DbUpdate DEF Sound
  <2> QED
    BY <1>3, <2>1, <2>4 DEF Sound, PauseCommit
<1>4. CASE PauseReconcile(h)
  <2>1. cmd' \in [Hashes -> Commands]
    BY <1>4, CmdGoto, IntentNames DEF PauseReconcile
  <2>2. \/ rt' = [rt EXCEPT ![h] =
                    Settle(h, Quiesce(rt[h], Paused(rt[h].policy, TRUE)))]
        \/ rt' = [rt EXCEPT ![h] = rt[h]]
    BY <1>4, Zenon DEF PauseReconcile
  <2>3. rt' \in [Hashes -> Good]
    BY <2>2, PausedUpdate, Zenon
  <2> QED
    BY <1>4, <2>1, <2>3, Zenon DEF Sound, PauseReconcile
<1> QED
  BY <1>2, <1>3, <1>4

\* Priorities and the metadata of a second Add.
LEMMA IncrementalSound ==
  ASSUME Sound, NEW h \in Hashes,
         PriorityCommit(h) \/ PriorityApply(h) \/ MetadataCommit(h)
  PROVE  Sound'
<1>1. rt[h] \in Good /\ db[h] \in Records
  BY AtHash
<1>2. CASE PriorityCommit(h) \/ MetadataCommit(h)
  <2>1. cmd' \in [Hashes -> Commands]
    BY <1>2, CmdEnter, IntentNames DEF PriorityCommit, MetadataCommit
  <2> DEFINE d == [db[h] EXCEPT !.rev = @ + 1]
  <2>2. d \in Records
    BY <1>1 DEF Records
  <2>3. db' = [db EXCEPT ![h] = d]
    BY <1>2 DEF PriorityCommit, MetadataCommit
  <2> HIDE DEF d
  <2>4. db' \in [Hashes -> Records]
    BY <2>2, <2>3, DbUpdate, Zenon
  <2> QED
    BY <1>2, <2>1, <2>4 DEF Sound, PriorityCommit, MetadataCommit
<1>3. CASE PriorityApply(h)
  <2> DEFINE n == rt[h].epoch + 1
             r == [rt[h] EXCEPT !.epoch = n]
  <2>1. n \in Nat
    BY <1>1 DEF Good, Runtimes
  <2>2. cmd' \in [Hashes -> Commands]
    <3>1. Goto(h, "attach") \/ Goto(h, "fail")
      BY <1>3 DEF PriorityApply
    <3> QED
      BY <3>1, CmdGoto, IntentNames
  <2>3. \/ UNCHANGED <<rt, db>>
        \/ rt' = [rt EXCEPT ![h] = Settle(h, r)] /\ UNCHANGED db
        \/ \E saved \in Outcomes("database") :
             /\ rt' = [rt EXCEPT ![h] = Settle(h, Fault(r, "selection"))]
             /\ db' = [db EXCEPT ![h] = SafetyRow(r, db[h], "selection", saved)]
    BY <1>3 DEF PriorityApply
  <2> HIDE DEF n
  <2>4. r \in Good
    BY <1>1, <2>1, GoodToken, Zenon
  <2> HIDE DEF r
  <2>5. "selection" \in SafetyKinds
    BY DEF SafetyKinds
  <2>6. rt' \in [Hashes -> Good] /\ db' \in [Hashes -> Records]
    BY <2>3, <2>4, <2>5, SettledUpdate, FaultTypes DEF Sound
  <2> QED
    BY <1>3, <2>2, <2>6 DEF Sound, PriorityApply
<1> QED
  BY <1>2, <1>3
=============================================================================
