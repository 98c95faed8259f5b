---------------------------- MODULE EngineProofs ----------------------------
(***************************************************************************)
(* Sound is inductive: every action of the admission core keeps all types  *)
(* and keeps the library's gates in agreement with the runtime policy.     *)
(* The theorems at the end hold for any number of torrents, any failures,  *)
(* any commands and any bounds.                                            *)
(***************************************************************************)
EXTENDS EngineWorkProofs, EngineIntentProofs

-----------------------------------------------------------------------------
\* Commands: checks, Add, Delete and the restores.

\* A registration with or without its info dictionary.
LEMMA RegistrationTypes ==
  ASSUME Sound, NEW h \in Hashes, NEW phase, NEW err,
         NEW disk \in Reasons \cup {NoReason}, NEW source,
         Publish(h, NewRuntime(h, phase, err, disk, source = "file"))
  PROVE  /\ rt' \in [Hashes -> Good]
         /\ work' \in SUBSET Works
         /\ IsFiniteSet(work')
<1> DEFINE b == source = "file"
<1>1. b \in BOOLEAN /\ Publish(h, NewRuntime(h, phase, err, disk, b))
  OBVIOUS
<1> HIDE DEF b
<1>2. NewRuntime(h, phase, err, disk, b) \in Good
  BY <1>1, AtHash, NewRuntimeGood
<1> QED
  BY <1>1, <1>2, PublishTypes

\* Recheck and local reads up to their check.
LEMMA InspectSound ==
  ASSUME Sound, NEW h \in Hashes, RecheckBegin(h) \/ ReadBegin(h)
  PROVE  Sound'
<1>1. latch[h] \in Reasons \cup {NoReason} /\ TypeOK
  BY AtHash
<1>2. PICK op \in {"recheck", "read"} : InspectBegin(h, op)
  BY DEF RecheckBegin, ReadBegin
<1>3. /\ op \in Ops /\ "observe" \in Steps /\ "activate" \in Steps
      /\ "Queued" \in Phases /\ "Paused" \in Phases
  BY DEF Ops, Steps, Phases
<1>4. cmd' \in [Hashes -> Commands]
  <2>1. Enter(h, op, "observe", "Queued") \/ Enter(h, op, "activate", "Paused")
    BY <1>2, Zenon DEF InspectBegin
  <2> QED
    BY <1>3, <2>1, CmdEnter
<1>5. CASE UNCHANGED <<rt, work>>
  BY <1>2, <1>4, <1>5 DEF Sound, InspectBegin
<1>6. CASE Publish(h, NewRuntime(h, "Paused", "none", latch[h], TRUE))
  <2>1. NewRuntime(h, "Paused", "none", latch[h], TRUE) \in Good
    BY <1>1, NewRuntimeGood, Zenon
  <2>2. /\ rt' \in [Hashes -> Good]
        /\ work' \in SUBSET Works
        /\ IsFiniteSet(work')
    BY <1>6, <2>1, PublishTypes, Zenon
  <2> QED
    BY <1>2, <1>4, <2>2 DEF Sound, InspectBegin
<1> QED
  BY <1>2, <1>5, <1>6, Zenon DEF InspectBegin

\* A check begins, or is refused after it began.
LEMMA CheckSound ==
  ASSUME Sound, NEW h \in Hashes,
         VerifySkip(h) \/ VerifyStart(h) \/ VerifyAbort(h)
  PROVE  Sound'
<1>1. rt[h] \in Good /\ rt[h] \in Runtimes /\ db[h] \in Records
  BY AtHash
<1>2. "inactive" \in Steps /\ "verification" \in BlockKinds /\ "verify" \in WorkKinds
  BY DEF Steps, BlockKinds, WorkKinds
<1>3. Checking(rt[h]) \in Good
  BY <1>1, VerificationGood, Zenon
<1>4. CASE VerifySkip(h)
  <2>1. cmd' \in [Hashes -> Commands]
    BY <1>4, CmdFinish DEF VerifySkip
  <2> QED
    BY <1>4, <2>1 DEF Sound, VerifySkip
<1>5. CASE VerifyStart(h)
  <2>1. cmd' \in [Hashes -> Commands]
    BY <1>2, <1>5, CmdFinish, CmdGoto, Zenon DEF VerifyStart
  <2>2. rt' = [rt EXCEPT ![h] = Settle(h, Checking(rt[h]))]
    BY <1>5, Zenon DEF VerifyStart
  <2>3. rt' \in [Hashes -> Good]
    BY <1>3, <2>2, SettledUpdate, Zenon
  <2>4. PutBlock(db[h], "verification") \in Records
    BY <1>1, <1>2, RecordTypes, Zenon
  <2>5. db' = [db EXCEPT ![h] = PutBlock(db[h], "verification")]
    BY <1>5, Zenon DEF VerifyStart
  <2>6. db' \in [Hashes -> Records]
    BY <2>4, <2>5, DbUpdate, Zenon
  <2>7. Watcher("verify", h, rt[h]) \in Works
    BY <1>1, <1>2, JobTypes
  <2>8. work' = work \cup {Watcher("verify", h, rt[h])}
    BY <1>5, Zenon DEF VerifyStart
  <2>9. work' \in SUBSET Works /\ IsFiniteSet(work')
    BY <2>7, <2>8, WorkUpdate
  <2> QED
    BY <1>5, <2>1, <2>3, <2>6, <2>9 DEF Sound, VerifyStart
<1>6. CASE VerifyAbort(h)
  <2>1. cmd' \in [Hashes -> Commands]
    BY <1>6, CmdFinish, Zenon DEF VerifyAbort
  <2> DEFINE durable(a, b) == ExactFence(db[h], rt[h].fence) /\ (a \/ b)
  <2>2. PICK first \in Outcomes("database"), again \in Outcomes("database") :
          /\ rt' = [rt EXCEPT ![h] =
                      Settle(h, Completed(Checking(rt[h]), FALSE, again))]
          /\ db' = [db EXCEPT ![h] =
                      CompletedRow(db[h], FALSE, durable(first, again))]
    BY <1>6, Zenon DEF VerifyAbort
  <2>3. again \in BOOLEAN
    BY Zenon DEF Outcomes
  <2>4. Completed(Checking(rt[h]), FALSE, again) \in Good
    BY <1>3, <2>3, VerificationGood, Zenon
  <2>5. rt' \in [Hashes -> Good]
    BY <2>2, <2>4, SettledUpdate, Zenon
  <2>6. CompletedRow(db[h], FALSE, durable(first, again)) \in Records
    BY <1>1, <1>2, RecordTypes, Zenon
  <2>7. db' \in [Hashes -> Records]
    BY <2>2, <2>6, DbUpdate, Zenon
  <2> QED
    BY <1>6, <2>1, <2>5, <2>7, Zenon DEF Sound, VerifyAbort
<1> QED
  BY <1>4, <1>5, <1>6

\* Add up to its activation.
LEMMA AddSound ==
  ASSUME Sound, NEW h \in Hashes, AddRegister(h) \/ AddCreate(h)
  PROVE  Sound'
<1>1. rt[h] \in Good
  BY AtHash
<1>2. /\ "add" \in Ops /\ "Queued" \in Phases
      /\ "create" \in Steps /\ "activate" \in Steps /\ "dropping" \in Steps
  BY DEF Ops, Steps, Phases
<1>3. CASE AddRegister(h)
  <2>1. cmd' \in [Hashes -> Commands]
    BY <1>2, <1>3, CmdEnter, Zenon DEF AddRegister
  <2>2. PICK source \in Sources :
          Publish(h, NewRuntime(h, "Queued", "none", NoReason, source = "file"))
    BY <1>3 DEF AddRegister
  <2>3. /\ rt' \in [Hashes -> Good]
        /\ work' \in SUBSET Works
        /\ IsFiniteSet(work')
    BY <2>2, RegistrationTypes, Zenon
  <2> QED
    BY <1>3, <2>1, <2>3 DEF Sound, AddRegister
<1>4. CASE AddCreate(h)
  <2> DEFINE d == [NoRecord EXCEPT !.exists = TRUE, !.rev = 1, !.run = "enabled"]
  <2>1. d \in Records
    BY Zenon DEF NoRecord, Records, Runs
  <2>2. \/ /\ db' = [db EXCEPT ![h] = d]
           /\ Goto(h, "activate")
           /\ UNCHANGED rt
        \/ /\ rt' = [rt EXCEPT ![h] = Detached] \/ rt' = [rt EXCEPT ![h] = rt[h]]
           /\ Goto(h, "dropping") \/ Finish(h)
           /\ UNCHANGED db
    BY <1>4 DEF AddCreate
  <2> HIDE DEF d
  <2>3. db' \in [Hashes -> Records]
    BY <2>1, <2>2, DbUpdate DEF Sound
  <2>4. rt' \in [Hashes -> Good]
    BY <1>1, <2>2, AbsentGood, RtUpdate DEF Sound
  <2>5. cmd' \in [Hashes -> Commands]
    BY <1>2, <2>2, CmdGoto, CmdFinish
  <2> QED
    BY <1>4, <2>3, <2>4, <2>5 DEF Sound, AddCreate
<1> QED
  BY <1>3, <1>4

\* Delete: the workflow row, the dropped runtime, the record.
LEMMA DeleteSound ==
  ASSUME Sound, NEW h \in Hashes,
         DeleteBegin(h) \/ DeleteDetach(h) \/ DropFinished(h) \/ DeleteRemove(h)
  PROVE  Sound'
<1>1. rt[h] \in Good /\ db[h] \in Records
  BY AtHash
<1>2. /\ "delete" \in Ops /\ "Queued" \in Phases
      /\ "detach" \in Steps /\ "remove" \in Steps /\ "dropping" \in Steps
  BY DEF Ops, Steps, Phases
<1>3. CASE DeleteBegin(h)
  <2>1. cmd' \in [Hashes -> Commands]
    BY <1>2, <1>3, CmdEnter DEF DeleteBegin
  <2>2. [db[h] EXCEPT !.deleting = TRUE] \in Records
    BY <1>1, Zenon DEF Records
  <2>3. db' = [db EXCEPT ![h] = [db[h] EXCEPT !.deleting = TRUE]]
    BY <1>3 DEF DeleteBegin
  <2>4. db' \in [Hashes -> Records]
    BY <2>2, <2>3, DbUpdate, Zenon
  <2> QED
    BY <1>3, <2>1, <2>4 DEF Sound, DeleteBegin
<1>4. CASE DeleteDetach(h)
  <2>1. rt' = rt \/ rt' = [rt EXCEPT ![h] = Detached]
    BY <1>4 DEF DeleteDetach
  <2>2. Finish(h) \/ Goto(h, "remove") \/ Goto(h, "dropping")
    BY <1>4 DEF DeleteDetach
  <2>3. rt' \in [Hashes -> Good]
    BY <2>1, AbsentGood, RtUpdate DEF Sound
  <2>4. cmd' \in [Hashes -> Commands]
    BY <1>2, <2>2, CmdGoto, CmdFinish
  <2> QED
    BY <1>4, <2>3, <2>4 DEF Sound, DeleteDetach
<1>5. CASE DropFinished(h)
  <2>1. rt' = [rt EXCEPT ![h] = [rt[h] EXCEPT !.detaching = FALSE]]
    BY <1>5 DEF DropFinished
  <2>2. [rt[h] EXCEPT !.detaching = FALSE] \in Good
    BY <1>1, GoodFlag, Zenon
  <2>3. rt' \in [Hashes -> Good]
    BY <2>1, <2>2, RtUpdate, Zenon
  <2>4. cmd' \in [Hashes -> Commands]
    BY <1>2, <1>5, CmdGoto, CmdFinish DEF DropFinished
  <2> QED
    BY <1>5, <2>3, <2>4 DEF Sound, DropFinished
<1>6. CASE DeleteRemove(h)
  <2>1. NoRecord \in Records
    BY DEF NoRecord, Records, Runs
  <2>2. cmd' \in [Hashes -> Commands]
    BY <1>6, CmdFinish DEF DeleteRemove
  <2>3. /\ db' \in [Hashes -> Records]
        /\ latch' \in [Hashes -> Reasons \cup {NoReason}]
    BY <1>6, <2>1 DEF Sound, DeleteRemove
  <2> QED
    BY <1>6, <2>2, <2>3 DEF Sound, DeleteRemove
<1> QED
  BY <1>3, <1>4, <1>5, <1>6

\* restoreActivation names a phase that activation accepts.
LEMMA RestorePhaseType ==
  ASSUME NEW d, NEW disk
  PROVE  RestorePhase(d, disk) \in Phases
  BY DEF RestorePhase, Phases

\* The startup restore of one record, and of its verification key.
LEMMA RestoreSound ==
  ASSUME Sound, NEW h \in Hashes, RestoreBegin(h) \/ RestoreVerification(h)
  PROVE  Sound'
<1>1. rt[h] \in Good /\ latch[h] \in Reasons \cup {NoReason}
  BY AtHash
<1>2. /\ "restore" \in Ops /\ "restoreInactive" \in Ops
      /\ "activate" \in Steps /\ "attach" \in Steps
  BY DEF Ops, Steps
<1>3. CASE RestoreBegin(h)
  <2> DEFINE phase == RestorePhase(db[h], latch[h])
             offline == db[h].run = "paused" \/ db[h].blocks # {}
             op == IF offline THEN "restoreInactive" ELSE "restore"
  <2>1. \/ /\ \E source \in Sources :
                Publish(h, NewRuntime(h, phase, RestoreError(db[h]), latch[h],
                                      source = "file"))
           /\ Enter(h, op, "activate", phase)
        \/ UNCHANGED <<rt, cmd, work>>
    BY <1>3, Zenon DEF RestoreBegin
  <2>2. phase \in Phases /\ op \in Ops
    BY <1>2, RestorePhaseType
  <2> HIDE DEF phase, op
  <2>3. boot' \in SUBSET Hashes
    BY <1>3, Zenon DEF Sound, RestoreBegin
  <2>4. CASE UNCHANGED <<rt, cmd, work>>
    BY <1>3, <2>3, <2>4, Zenon DEF Sound, RestoreBegin
  <2>5. CASE /\ \E source \in Sources :
                  Publish(h, NewRuntime(h, phase, RestoreError(db[h]), latch[h],
                                        source = "file"))
             /\ Enter(h, op, "activate", phase)
    <3>1. PICK source \in Sources :
            Publish(h, NewRuntime(h, phase, RestoreError(db[h]), latch[h],
                                  source = "file"))
      BY <2>5
    <3>2. /\ rt' \in [Hashes -> Good]
          /\ work' \in SUBSET Works
          /\ IsFiniteSet(work')
      BY <1>1, <3>1, RegistrationTypes, Zenon
    <3>3. cmd' \in [Hashes -> Commands]
      BY <1>2, <2>2, <2>5, CmdEnter
    <3> QED
      BY <1>3, <2>3, <3>2, <3>3, Zenon DEF Sound, RestoreBegin
  <2> QED
    BY <2>1, <2>4, <2>5, Zenon
<1>4. CASE RestoreVerification(h)
  <2> DEFINE x == [Quiesce(rt[h], VerificationRestored(rt[h].policy)) EXCEPT
                     !.down = FALSE, !.up = FALSE]
  <2>1. rt' = rt \/ rt' = [rt EXCEPT ![h] = Settle(h, x)]
    BY <1>4 DEF RestoreVerification
  <2>2. Goto(h, "attach") \/ Finish(h)
    BY <1>4 DEF RestoreVerification
  <2>3. x \in Good
    BY <1>1, VerificationGood, Zenon
  <2> HIDE DEF x
  <2>4. rt' \in [Hashes -> Good]
    BY <2>1, <2>3, SettledUpdate DEF Sound
  <2>5. cmd' \in [Hashes -> Commands]
    BY <1>2, <2>2, CmdGoto, CmdFinish
  <2> QED
    BY <1>4, <2>4, <2>5 DEF Sound, RestoreVerification
<1> QED
  BY <1>3, <1>4

-----------------------------------------------------------------------------
\* Shutdown and restart.

\* BeginShutdown, Close and the death of the process.
LEMMA ProcessSound ==
  ASSUME Sound, BeginShutdown \/ CloseEngine \/ Crash
  PROVE  Sound'
<1>1. CASE BeginShutdown
  BY <1>1 DEF Sound, BeginShutdown
<1>2. CASE CloseEngine
  <2> DEFINE x(h) == Settle(h, Quiesce(rt[h], Terminated(rt[h].policy)))
             y(h) == [x(h) EXCEPT !.readers = {}]
  <2>1. rt' = [h \in Hashes |-> IF Live(rt[h].policy) THEN y(h) ELSE rt[h]]
    BY <1>2 DEF CloseEngine
  <2>2. ASSUME NEW h \in Hashes
        PROVE  rt[h] \in Good /\ y(h) \in Good
    <3>1. rt[h] \in Good /\ TypeOK
      BY AtHash
    <3>2. x(h) \in Good
      BY <3>1, StoppedGood, SettleGood, Zenon
    <3> HIDE DEF x
    <3>3. y(h) \in Good
      BY <3>2, GoodReaders, Zenon
    <3> QED
      BY <3>1, <3>3
  <2> HIDE DEF y
  <2>3. rt' \in [Hashes -> Good]
    BY <2>1, <2>2
  <2> QED
    BY <1>2, <2>3 DEF Sound, CloseEngine
<1>3. CASE Crash
  <2>1. Idle \in Commands
    BY DEF Idle, Commands, Ops, Steps, Phases, Errors, Fences, Unbound
  <2>2. rt' \in [Hashes -> Good]
    BY <1>3, AbsentGood DEF Crash
  <2>3. cmd' \in [Hashes -> Commands]
    BY <1>3, <2>1 DEF Crash
  <2>4. work' \in SUBSET Works /\ IsFiniteSet(work')
    BY <1>3, FS_EmptySet DEF Crash
  <2> QED
    BY <1>3, <2>2, <2>3, <2>4 DEF Sound, Crash
<1> QED
  BY <1>1, <1>2, <1>3

-----------------------------------------------------------------------------
\* The theorems.

\* A fresh or an upgraded database, before anything is restored, is sound.
LEMMA InitSound == Init => Sound
<1> SUFFICES ASSUME Init PROVE Sound
  OBVIOUS
<1>1. PICK old \in [Hashes -> Legacy], reason \in ProbeReasons :
        /\ db = [h \in Hashes |-> Upgraded(old[h])]
        /\ latch = [h \in Hashes |-> IF old[h] = "DiskFull" THEN reason
                                     ELSE NoReason]
        /\ boot = {h \in Hashes : old[h] # "none"}
  BY DEF Init
<1>2. \A state : Upgraded(state) \in Records
  <2> TAKE state
  <2> DEFINE run == IF state \in {"Queued", "DiskFull"} THEN "enabled" ELSE "paused"
             keys == CASE state = "Error" -> {"legacy"}
                       [] state = "MissingFiles" -> {"missing"}
                       [] OTHER -> {}
  <2>1. run \in Runs /\ keys \in SUBSET BlockKinds
    BY DEF Runs, BlockKinds
  <2>2. NoRecord \in Records
    BY DEF NoRecord, Records, Runs
  <2>3. Upgraded(state) = IF state = "none" THEN NoRecord
                          ELSE [NoRecord EXCEPT !.exists = TRUE, !.rev = 1,
                                                !.run = run, !.blocks = keys]
    BY DEF Upgraded
  <2> HIDE DEF run, keys
  <2>4. [NoRecord EXCEPT !.exists = TRUE, !.rev = 1, !.run = run,
                         !.blocks = keys] \in Records
    BY <2>1, <2>2, Zenon DEF Records
  <2> QED
    BY <2>2, <2>3, <2>4
<1>3. db \in [Hashes -> Records]
  BY <1>1, <1>2
<1>4. latch \in [Hashes -> Reasons \cup {NoReason}]
  BY <1>1 DEF ProbeReasons
<1>5. rt \in [Hashes -> Good]
  BY AbsentGood DEF Init
<1>6. Idle \in Commands
  BY DEF Idle, Commands, Ops, Steps, Phases, Errors, Fences, Unbound
<1>7. cmd \in [Hashes -> Commands]
  BY <1>6 DEF Init
<1>8. work \in SUBSET Works /\ IsFiniteSet(work)
  BY FS_EmptySet DEF Init
<1> QED
  BY <1>1, <1>3, <1>4, <1>5, <1>7, <1>8 DEF Sound, Init

\* No step of any actor leaves the sound states.
LEMMA NextSound == Sound /\ [Next]_vars => Sound'
<1> SUFFICES ASSUME Sound, [Next]_vars PROVE Sound'
  OBVIOUS
<1>1. CASE UNCHANGED vars
  BY <1>1 DEF Sound, vars
<1>2. ASSUME NEW h \in Hashes, BackgroundStep(h)
      PROVE  Sound'
  BY <1>2, BackgroundSound
<1>3. ASSUME NEW h \in Hashes, CommandStart(h)
      PROVE  Sound'
  BY <1>3, AddSound, ResumeSound, PauseSound, IncrementalSound, InspectSound,
     BindingSound, DeleteSound DEF CommandStart
<1>4. ASSUME NEW h \in Hashes, CommandStep(h)
      PROVE  Sound'
  BY <1>4, AddSound, ActivationSound, ResumeWindowSound, BindingSound,
     FailureSound, ResumeSound, PauseSound, IncrementalSound, CheckSound,
     DeleteSound, RestoreSound DEF CommandStep
<1>5. ASSUME NEW h \in Hashes, RestoreBegin(h)
      PROVE  Sound'
  BY <1>5, RestoreSound
<1>6. ASSUME NEW w \in work, FinishWork(w)
      PROVE  Sound'
  BY <1>6, FinishWorkSound
<1>7. CASE BeginShutdown \/ CloseEngine \/ Crash
  BY <1>7, ProcessSound
<1> QED
  BY <1>1, <1>2, <1>3, <1>4, <1>5, <1>6, <1>7 DEF Next

\* Every state the engine, the commands and the database reach, through any
\* interleaving, failure and restart, is well typed.
THEOREM TypeCorrect == Spec => []TypeOK
<1>1. Spec => []Sound
  BY InitSound, NextSound, PTL DEF Spec
<1>2. Sound => TypeOK
  BY SoundMeans
<1> QED
  BY <1>1, <1>2, PTL

\* The payload and upload gates of the library never admit what the runtime
\* policy vetoes: each place that opens a gate re-validates after its window,
\* and each event that withdraws a permission closes the gate in its section
\* (admitPayloadLocked, applyQuiesceLocked, FinishRestore, blockDownloadLocked).
THEOREM GatesCorrect == Spec => []GatesFollowPolicy
<1>1. Spec => []Sound
  BY InitSound, NextSound, PTL DEF Spec
<1>2. Sound => GatesFollowPolicy
  BY SoundMeans
<1> QED
  BY <1>1, <1>2, PTL
=============================================================================
