---------------------------- MODULE EngineCommands ----------------------------
(***************************************************************************)
(* The commands of usecase.TorrentUseCase as they drive the engine and the *)
(* repository.  Each holds the lock of its record from its first step to   *)
(* its last, so at most one runs for a hash; between two steps anything    *)
(* the background does may happen.  A step is one call that takes          *)
(* admissionMu or one database transaction.                                *)
(***************************************************************************)
EXTENDS EngineScheduler

CONSTANTS
    Issued,     \* the commands users issue
    Sources     \* metadata an added torrent comes with: "file", "magnet"

ASSUME CommandAssumption ==
    /\ Issued \subseteq Ops
    /\ Sources \subseteq {"file", "magnet"}

\* The HTTP API and the workers start when the startup restore is done.
Serving == /\ boot = {}
           /\ \A h \in Hashes : cmd[h].op \notin {"restore", "restoreInactive"}

Starts(h, op) == op \in Issued /\ Serving /\ At(h, "idle")

\* A record that no deletion holds.
Available(h) == db[h].exists /\ ~db[h].deleting

\* The capability captured by a window that unlocks admissionMu.
Capture(h, step, err) ==
    cmd' = [cmd EXCEPT ![h].pc = step, ![h].err = err,
                       ![h].epoch = rt[h].epoch, ![h].fence = rt[h].fence,
                       ![h].wver = rt[h].writeVersion]

WindowValid(h) ==
    /\ life = "up"
    /\ cmd[h].epoch = rt[h].epoch
    /\ cmd[h].fence = rt[h].fence

-----------------------------------------------------------------------------
\* registerTorrent: a staged runtime, published with its gates closed.

NewGeneration(h) ==
    Fresh({0} \cup {w.gen : w \in {v \in work : v.hash = h}})

StaleWork(h) == {w \in work : w.hash = h /\ w.gen # rt[h].gen}

\* Mutated form of NewRuntime: the stored latch is not seeded.
NewRuntimeUnlatched(h, phase, err, disk, info) ==
    [Event(Absent, Registered(ZeroPolicy, phase, err, NoReason, TRUE, NoReason))
       EXCEPT !.gen = NewGeneration(h), !.epoch = 1, !.info = info]

\* The library keeps the gates a spec closed; registration opens neither.
NewRuntime(h, phase, err, disk, info) ==
    [Event(Absent, Registered(ZeroPolicy, phase, err, disk, TRUE, disk)) EXCEPT
        !.gen = NewGeneration(h), !.epoch = 1,
        !.persisted = disk # NoReason, !.info = info]

\* watchMetadata starts with the generation.
Publish(h, r) ==
    /\ Cardinality(StaleWork(h)) <= MaxStale
    /\ rt' = [rt EXCEPT ![h] = r]
    /\ work' = work \cup {Watcher("watch", h, r)}

\* engine.Delete, first half: terminal event, gates, namespace reservation.
\* The dropped runtime is of no further use; its late work finds no owner.
Detached == [Absent EXCEPT !.detaching = TRUE]

-----------------------------------------------------------------------------
\* AddMagnetWithPolicy, AddTorrentFileWithPolicy and finishAddLocked.

\* A new torrent is registered staged; its record is created next.
AddRegister(h) ==
    /\ Starts(h, "add")
    /\ life = "up"
    /\ ~db[h].exists
    /\ rt[h].gen = 0
    /\ ~rt[h].detaching
    /\ \E source \in Sources :
         Publish(h, NewRuntime(h, "Queued", "none", NoReason, source = "file"))
    /\ Enter(h, "add", "create", "Queued")
    /\ UNCHANGED <<db, latch, life, boot>>

AddCreate(h) ==
    /\ cmd[h].op = "add"
    /\ At(h, "create")
    /\ \/ /\ db' = [db EXCEPT ![h] = [NoRecord EXCEPT !.exists = TRUE, !.rev = 1,
                                                      !.run = "enabled"]]
          /\ Goto(h, "activate")
          /\ UNCHANGED rt
       \/ /\ "database" \in Failures
          /\ rt' = [rt EXCEPT ![h] = IF life = "up" THEN Detached ELSE @]
          /\ IF life = "up" THEN Goto(h, "dropping") ELSE Finish(h)
          /\ UNCHANGED db
    /\ UNCHANGED <<latch, work, life, boot>>

-----------------------------------------------------------------------------
\* FinishRestore, shared by Add, Resume and the restores.

\* Commands that report a failed apply; the others just return the error.
Reporting == {"add", "resume", "restore"}

Fails(h) == IF cmd[h].op \in Reporting THEN Goto(h, "fail") ELSE Finish(h)

\* The event is checked before any I/O, and its error text read here.
ActivateBegin(h) ==
    /\ At(h, "activate")
    /\ IF Managed(h) /\ AcceptsActivated(rt[h].policy, cmd[h].phase, TRUE)
       THEN Capture(h, "saving", ProjectedError(rt[h].policy))
       ELSE Fails(h)
    /\ UNCHANGED <<rt, db, latch, work, life, boot>>

\* The first window saved the metainfo; the policy moved on meanwhile.
ActivateConflict(h) ==
    /\ cmd[h].pc \in {"saving", "probing"}
    /\ ~WindowValid(h)
    /\ Fails(h)
    /\ UNCHANGED <<rt, db, latch, work, life, boot>>

ActivateFault(h) ==
    /\ At(h, "saving")
    /\ WindowValid(h)
    /\ \E kind \in {"metadata", "selection"}, saved \in Outcomes("database") :
         /\ kind = "metadata" => rt[h].info /\ "metainfo" \in Failures
         /\ kind = "selection" => rt[h].info /\ "selection" \in Failures
         /\ rt' = [rt EXCEPT ![h] = Settle(h, Fault(rt[h], kind))]
         /\ db' = [db EXCEPT ![h] = SafetyRow(rt[h], @, kind, saved)]
    /\ Fails(h)
    /\ UNCHANGED <<latch, work, life, boot>>

\* An explicit Resume opens a second window for its disk probe.
ResumeProbe(h) ==
    /\ At(h, "saving")
    /\ WindowValid(h)
    /\ cmd[h].op = "resume"
    /\ Capture(h, "probing", cmd[h].err)
    /\ UNCHANGED <<rt, db, latch, work, life, boot>>

\* The activated runtime, its gates, and where its command goes on.
Activate(r, phase, err, recovered) ==
    LET d == Activated(r.policy, phase, err, r.policy.disk, recovered)
        n == Reopen(r, d)
    IN  IF recovered
        THEN [n EXCEPT !.down = FALSE, !.persisted = FALSE, !.safety = {},
                       !.expected = FALSE]
        ELSE [n EXCEPT !.down = FALSE]

AfterActivation(h) ==
    CASE cmd[h].op = "resume" -> "verdict"
      [] cmd[h].op \in {"add", "restore"} -> "attach"
      [] cmd[h].op = "restoreInactive" -> "restoreVerification"
      [] OTHER -> "observe"

\* Outside these phases FinishRestore enables networking; its MergeSpec may
\* refuse the sources of a torrent that was restored offline.
Online(p) == Projection(p) \notin {"Paused", "Error", "MissingFiles", "DiskFull"}

ActivateFinish(h) ==
    LET r == Activate(rt[h], cmd[h].phase, cmd[h].err, FALSE)
    IN  /\ At(h, "saving")
        /\ WindowValid(h)
        /\ cmd[h].op # "resume"
        /\ \/ /\ rt' = [rt EXCEPT ![h] = Settle(h, r)]
              /\ Goto(h, AfterActivation(h))
           \/ /\ "merge" \in Failures
              /\ Online(r.policy)
              /\ rt' = [rt EXCEPT ![h] = Settle(h, ApplyFailed(r))]
              /\ Fails(h)
        /\ UNCHANGED <<db, latch, work, life, boot>>

\* The probe failed, or a write failed while it ran.
ResumeBlocked(h) ==
    /\ At(h, "probing")
    /\ WindowValid(h)
    /\ \E reason \in (ProbeResults \ {NoReason})
                       \cup (IF cmd[h].wver # rt[h].writeVersion
                             THEN {"resume"} ELSE {}),
          saved \in Outcomes("database") :
         /\ rt' = [rt EXCEPT ![h] = Settle(h, BlockDownload(rt[h], reason, saved))]
         /\ latch' = [latch EXCEPT ![h] = BlockRow(rt[h], reason, saved, @)]
    /\ Goto(h, "fail")
    /\ UNCHANGED <<db, work, life, boot>>

\* Mutated form of WriterCleared: the library keeps its latch.
WriterUncleared(h) == rt[h]

\* ClearWriteChunkErrorIfVersion, for the version the window captured.
WriterCleared(h) == [rt[h] EXCEPT !.writeError = FALSE]

\* The writer error is cleared, then the row, then the runtime's latch.
ResumeFinish(h) ==
    LET r == Activate(WriterCleared(h), "Queued", cmd[h].err, TRUE)
    IN  /\ At(h, "probing")
        /\ WindowValid(h)
        /\ cmd[h].wver = rt[h].writeVersion
        /\ \/ /\ rt' = [rt EXCEPT ![h] = Settle(h, r)]
              /\ latch' = [latch EXCEPT ![h] = NoReason]
              /\ Goto(h, "verdict")
           \/ /\ "merge" \in Failures
              /\ Online(r.policy)
              /\ rt' = [rt EXCEPT ![h] = Settle(h, ApplyFailed(r))]
              /\ latch' = [latch EXCEPT ![h] = NoReason]
              /\ Goto(h, "fail")
           \/ /\ "database" \in Failures
              /\ rt' = [rt EXCEPT ![h] = WriterCleared(h)]
              /\ UNCHANGED latch
              /\ Goto(h, "fail")
        /\ UNCHANGED <<db, work, life, boot>>

\* After a scheduler pass Resume reports a latch that is set again.
ResumeVerdict(h) ==
    /\ At(h, "verdict")
    /\ Goto(h, IF rt[h].policy.disk # NoReason THEN "fail" ELSE "attach")
    /\ UNCHANGED <<rt, db, latch, work, life, boot>>

-----------------------------------------------------------------------------
\* AttachRuntime and bindRuntime.

NewAttachment(h) ==
    Fresh({0, db[h].att, rt[h].fence.att, cmd[h].fence.att}
            \cup {w.fence.att : w \in {v \in work : v.hash = h}})

\* Rows of the next attachment, and the fence that its binding installs.
Attach(h, step) ==
    /\ Available(h)
    /\ db' = [db EXCEPT ![h].att = NewAttachment(h)]
    /\ cmd' = [cmd EXCEPT ![h].pc = step,
                          ![h].fence = [rev |-> db[h].rev,
                                        att |-> NewAttachment(h)]]

BoundAt(h, rev) == rt[h].fence.rev = rev /\ rt[h].fence.att # 0

\* bindIncrementalRuntime acknowledges one change on top of an applied one.
Incremental == {"priority", "metadata"}

BindSkipped(h) ==
    \/ rt[h].gen = 0
    \/ BoundAt(h, db[h].rev) /\ rt[h].applied = db[h].rev
    \/ /\ cmd[h].op \in Incremental
       /\ \/ rt[h].fence.rev # db[h].rev - 1
          \/ rt[h].applied # rt[h].fence.rev

AttachRuntime(h) ==
    /\ At(h, "attach")
    /\ \/ BindSkipped(h) /\ Finish(h) /\ UNCHANGED db
       \/ ~BindSkipped(h) /\ Attach(h, "bind")
       \/ /\ ~BindSkipped(h)
          /\ "database" \in Failures
          /\ Goto(h, "fail")
          /\ UNCHANGED db
    /\ UNCHANGED <<rt, latch, work, life, boot>>

\* The keys a binding must carry to the new attachment before it is installed.
Carried(r) == r.safety \cup (IF r.policy.uncertain THEN {"verification"} ELSE {})

\* Mutated form of BindRefused: initialization does not veto acknowledgment.
BindRefusedIfStale(r, f, applied) ==
    life # "up" \/ r.gen = 0 \/ r.fence.rev > f.rev

BindRefused(r, f, applied) ==
    \/ life # "up"
    \/ r.gen = 0
    \/ applied > 0 /\ r.policy.initializing
    \/ r.fence.rev > f.rev

\* The prefixes of the carried keys that a refused write may leave behind:
\* verification goes first, the others in any order.
Partial(keys) ==
    {part \in SUBSET keys : /\ part # keys
                            /\ "verification" \in keys /\ part # {} =>
                                 "verification" \in part}

\* Installs the fence once every key is written under it, else fails.
BindRuntime(h, applied, next, failed) ==
    LET r == rt[h]
        f == cmd[h].fence
    IN  \/ /\ ~BindRefused(r, f, applied)
           /\ db' = [db EXCEPT ![h].blocks = @ \cup Carried(r)]
           /\ rt' = [rt EXCEPT ![h].fence = f, ![h].applied = applied]
           /\ next
        \/ /\ BindRefused(r, f, applied)
           /\ failed
           /\ UNCHANGED <<rt, db>>
        \/ /\ ~BindRefused(r, f, applied)
           /\ "database" \in Failures
           /\ \E part \in Partial(Carried(r)) :
                db' = [db EXCEPT ![h].blocks = @ \cup part]
           /\ failed
           /\ UNCHANGED rt

BindApplied(h) ==
    /\ At(h, "bind")
    /\ BindRuntime(h, cmd[h].fence.rev, Finish(h), Goto(h, "fail"))
    /\ UNCHANGED <<latch, work, life, boot>>

\* bindVerificationRuntime and the sampler bind without acknowledging.
Observed(h) == IF cmd[h].op \in {"recheck", "read"} THEN Goto(h, "verify")
               ELSE Finish(h)

AttachObserved(h) ==
    /\ At(h, "observe")
    /\ \/ BoundAt(h, db[h].rev) /\ Observed(h) /\ UNCHANGED db
       \/ ~BoundAt(h, db[h].rev) /\ Attach(h, "bindObserved")
       \/ /\ ~BoundAt(h, db[h].rev)
          /\ "database" \in Failures
          /\ Finish(h)
          /\ UNCHANGED db
    /\ UNCHANGED <<rt, latch, work, life, boot>>

BindObserved(h) ==
    /\ At(h, "bindObserved")
    /\ BindRuntime(h, 0, Observed(h), Finish(h))
    /\ UNCHANGED <<latch, work, life, boot>>

\* capturePersistableRuntime attaches a runtime that was never bound.
Sync(h) ==
    /\ Starts(h, "sync")
    /\ Available(h)
    /\ rt[h].gen # 0
    /\ rt[h].fence.att = 0
    /\ Enter(h, "sync", "observe", "Queued")
    /\ UNCHANGED <<rt, db, latch, work, life, boot>>

-----------------------------------------------------------------------------
\* failedIntentApply.

\* FailIntentApply looks at no context; a terminal runtime refuses the event.
FailIntentApply(h) ==
    /\ At(h, "fail")
    /\ rt' = [rt EXCEPT ![h] =
                 IF Live(@.policy) /\ @.fence.rev <= db[h].rev
                 THEN Settle(h, ApplyFailed(@)) ELSE @]
    /\ Goto(h, "carry")
    /\ UNCHANGED <<db, latch, work, life, boot>>

\* Keys of the runtime that no binding has written yet are written now; a
\* runtime without a binding is attached for that, not acknowledged.
CarrySafety(h) ==
    LET r == rt[h]
    IN  /\ At(h, "carry")
        /\ \/ /\ r.safety = {}
              /\ Finish(h)
              /\ UNCHANGED db
           \/ /\ r.safety # {}
              /\ r.fence.att # 0
              /\ \E part \in SUBSET r.safety :
                   /\ part # r.safety => "database" \in Failures
                                           \/ ~SafetyFence(db[h], r.fence)
                   /\ part # {} => SafetyFence(db[h], r.fence)
                   /\ db' = [db EXCEPT ![h].blocks = @ \cup part]
              /\ Finish(h)
           \/ /\ r.safety # {}
              /\ r.fence.att = 0
              /\ Attach(h, "bindObserved")
           \/ /\ r.safety # {}
              /\ r.fence.att = 0
              /\ "database" \in Failures
              /\ Finish(h)
              /\ UNCHANGED db
        /\ UNCHANGED <<rt, latch, work, life, boot>>

-----------------------------------------------------------------------------
\* resumeLocked.

\* Retryable blocks do not stop a Resume; a verification block does.
ResumeBegin(h) ==
    /\ Starts(h, "resume")
    /\ Available(h)
    /\ "verification" \notin db[h].blocks
    /\ db[h].rev < MaxRevision
    /\ Enter(h, "resume", "stage", "Queued")
    /\ UNCHANGED <<rt, db, latch, work, life, boot>>

\* StageExistingRestore, or a registration of a torrent only the database has.
ResumeStage(h) ==
    LET r == rt[h]
        phase == IF db[h].run = "paused" THEN "Paused" ELSE "Queued"
    IN  /\ At(h, "stage")
        /\ \/ /\ life # "up"
              /\ Goto(h, "fail")
              /\ UNCHANGED <<rt, work>>
           \/ /\ life = "up"
              /\ r.gen # 0
              /\ IF AcceptsStaged(r.policy)
                 THEN /\ rt' = [rt EXCEPT ![h] =
                                  Settle(h, Quiesce(r, Staged(r.policy)))]
                      /\ Goto(h, "commit")
                 ELSE Goto(h, "fail") /\ UNCHANGED rt
              /\ UNCHANGED work
           \/ /\ life = "up"
              /\ r.gen = 0
              /\ \E source \in Sources :
                   Publish(h, NewRuntime(h, phase, "none", latch[h],
                                         source = "file"))
              /\ Goto(h, "commit")
        /\ UNCHANGED <<db, latch, life, boot>>

\* CommitResumeRetry removes the retryable keys with the enabled intent; when
\* it cannot, the runtime is paused before the failure is reported.
ResumeCommit(h) ==
    /\ cmd[h].op = "resume"
    /\ At(h, "commit")
    /\ \/ /\ Available(h)
          /\ "verification" \notin db[h].blocks
          /\ db' = [db EXCEPT ![h].blocks = {}, ![h].run = "enabled",
                              ![h].rev = @ + 1]
          /\ Goto(h, "activate")
          /\ UNCHANGED rt
       \/ /\ \/ ~Available(h)
             \/ "verification" \in db[h].blocks
             \/ "database" \in Failures
          /\ rt' = [rt EXCEPT ![h] =
                       IF Managed(h)
                       THEN Settle(h, Quiesce(@, Paused(@.policy, FALSE)))
                       ELSE @]
          /\ Goto(h, "fail")
          /\ UNCHANGED db
    /\ UNCHANGED <<latch, work, life, boot>>

-----------------------------------------------------------------------------
\* Pause.

\* Mutated form of PauseBegin: the intent is committed before the gates close.
PauseBeginUnquiesced(h) ==
    /\ Starts(h, "pause")
    /\ db[h].exists
    /\ db[h].rev < MaxRevision
    /\ Enter(h, "pause", IF life = "up" THEN "commit" ELSE "fail", "Queued")
    /\ UNCHANGED <<rt, db, latch, work, life, boot>>

\* engine.Pause quiesces before the intent is committed.
PauseBegin(h) ==
    /\ Starts(h, "pause")
    /\ db[h].exists
    /\ db[h].rev < MaxRevision
    /\ rt' = [rt EXCEPT ![h] =
                 IF Managed(h)
                 THEN Settle(h, Quiesce(@, Paused(@.policy, FALSE)))
                 ELSE @]
    /\ Enter(h, "pause", IF life = "up" THEN "commit" ELSE "fail", "Queued")
    /\ UNCHANGED <<db, latch, work, life, boot>>

PauseCommit(h) ==
    /\ cmd[h].op = "pause"
    /\ At(h, "commit")
    /\ \/ /\ Available(h)
          /\ db' = [db EXCEPT ![h].run = "paused", ![h].rev = @ + 1]
          /\ Goto(h, "reconcile")
       \/ /\ db[h].deleting \/ "database" \in Failures
          /\ Goto(h, "fail")
          /\ UNCHANGED db
    /\ UNCHANGED <<rt, latch, work, life, boot>>

\* ReconcilePausedIntent: only this full Pause ends initialization.
PauseReconcile(h) ==
    /\ At(h, "reconcile")
    /\ rt' = [rt EXCEPT ![h] =
                 IF Managed(h)
                 THEN Settle(h, Quiesce(@, Paused(@.policy, TRUE)))
                 ELSE @]
    /\ Goto(h, IF life = "up" THEN "attach" ELSE "fail")
    /\ UNCHANGED <<db, latch, work, life, boot>>

-----------------------------------------------------------------------------
\* SetFilePriority, SetTorrentFilesPriority and the metadata of a second Add.

\* Intent first: the files a priority names are known from the catalog.
PriorityCommit(h) ==
    /\ Starts(h, "priority")
    /\ Available(h)
    /\ rt[h].gen # 0 => rt[h].info
    /\ db[h].rev < MaxRevision
    /\ db' = [db EXCEPT ![h].rev = @ + 1]
    /\ Enter(h, "priority", "apply", "Queued")
    /\ UNCHANGED <<rt, latch, work, life, boot>>

PriorityApply(h) ==
    LET r == [rt[h] EXCEPT !.epoch = @ + 1]
    IN  /\ At(h, "apply")
        /\ \/ /\ life # "up"
              /\ Goto(h, "fail")
              /\ UNCHANGED <<rt, db>>
           \/ /\ life = "up"
              /\ r.gen = 0
              /\ Goto(h, "attach")
              /\ UNCHANGED <<rt, db>>
           \/ /\ Managed(h)
              /\ rt' = [rt EXCEPT ![h] = Settle(h, r)]
              /\ Goto(h, IF r.policy.initializing THEN "fail" ELSE "attach")
              /\ UNCHANGED db
           \/ /\ Managed(h)
              /\ "selection" \in Failures
              /\ ~r.policy.initializing
              /\ \E saved \in Outcomes("database") :
                   db' = [db EXCEPT ![h] = SafetyRow(r, @, "selection", saved)]
              /\ rt' = [rt EXCEPT ![h] = Settle(h, Fault(r, "selection"))]
              /\ Goto(h, "fail")
        /\ UNCHANGED <<latch, work, life, boot>>

\* Adding a torrent that is managed only commits its metadata.
MetadataCommit(h) ==
    /\ Starts(h, "metadata")
    /\ Available(h)
    /\ Managed(h)
    /\ latch[h] = NoReason
    /\ db[h].rev < MaxRevision
    /\ db' = [db EXCEPT ![h].rev = @ + 1]
    /\ Enter(h, "metadata", "attach", "Queued")
    /\ UNCHANGED <<rt, latch, work, life, boot>>

-----------------------------------------------------------------------------
\* Recheck and prepareReadLocked.

\* A paused torrent that only the database has is opened offline from its
\* cached metainfo; both commands then bind before they verify.
InspectBegin(h, op) ==
    /\ Starts(h, op)
    /\ Available(h)
    /\ \/ /\ rt[h].gen # 0
          /\ Enter(h, op, "observe", "Queued")
          /\ UNCHANGED <<rt, work>>
       \/ /\ rt[h].gen = 0
          /\ life = "up"
          /\ db[h].run = "paused"
          /\ Publish(h, NewRuntime(h, "Paused", "none", latch[h], TRUE))
          /\ Enter(h, op, "activate", "Paused")
    /\ UNCHANGED <<db, latch, life, boot>>

RecheckBegin(h) == InspectBegin(h, "recheck")

ReadBegin(h) == InspectBegin(h, "read")

\* A check may begin: startRecheckLocked excludes readers, VerifyInactive runs
\* on a paused torrent only.
AcceptsCheck(h) ==
    /\ Managed(h)
    /\ AcceptsVerificationBegin(rt[h].policy)
    /\ cmd[h].op = "recheck" => rt[h].info /\ rt[h].readers = {}
    /\ cmd[h].op = "read" => rt[h].policy.run = "paused"

Checking(r) ==
    [Quiesce(r, VerificationBegin(r.policy)) EXCEPT
        !.verifying = TRUE, !.down = FALSE, !.up = FALSE]

\* No check: refused, one runs already, or the file to read is ready.
VerifySkip(h) ==
    /\ At(h, "verify")
    /\ AcceptsCheck(h) => cmd[h].op = "read"
    /\ Finish(h)
    /\ UNCHANGED <<rt, db, latch, work, life, boot>>

\* The durable block is written before the verifier runs.
VerifyStart(h) ==
    /\ At(h, "verify")
    /\ AcceptsCheck(h)
    /\ ExactFence(db[h], rt[h].fence)
    /\ rt' = [rt EXCEPT ![h] = Settle(h, Checking(@))]
    /\ db' = [db EXCEPT ![h] = PutBlock(@, "verification")]
    /\ work' = work \cup {Watcher("verify", h, rt[h])}
    /\ IF cmd[h].op = "read" THEN Goto(h, "inactive") ELSE Finish(h)
    /\ UNCHANGED <<latch, life, boot>>

\* The block or the task was refused: the attempt completes as failed, which
\* tries once more to write the block.
VerifyAbort(h) ==
    /\ At(h, "verify")
    /\ AcceptsCheck(h)
    /\ \E first, again \in Outcomes("database") :
         LET fenced == ExactFence(db[h], rt[h].fence)
         IN  /\ \/ ~(first /\ fenced)
                \/ cmd[h].op = "recheck" /\ "tasks" \in Failures
             /\ rt' = [rt EXCEPT ![h] =
                         Settle(h, Completed(Checking(@), FALSE, again))]
             /\ db' = [db EXCEPT ![h] =
                         CompletedRow(@, FALSE, fenced /\ (first \/ again))]
    /\ Finish(h)
    /\ UNCHANGED <<latch, work, life, boot>>

-----------------------------------------------------------------------------
\* Delete without payload removal.

DeleteBegin(h) ==
    /\ Starts(h, "delete")
    /\ db[h].exists
    /\ db' = [db EXCEPT ![h].deleting = TRUE]
    /\ Enter(h, "delete", "detach", "Queued")
    /\ UNCHANGED <<rt, latch, work, life, boot>>

DeleteDetach(h) ==
    /\ At(h, "detach")
    /\ \/ life # "up" /\ Finish(h) /\ UNCHANGED rt
       \/ /\ life = "up"
          /\ rt[h].gen = 0
          /\ Goto(h, "remove")
          /\ UNCHANGED rt
       \/ /\ Managed(h)
          /\ rt' = [rt EXCEPT ![h] = Detached]
          /\ Goto(h, "dropping")
    /\ UNCHANGED <<db, latch, work, life, boot>>

\* Drop has returned: the namespace is free again.
DropFinished(h) ==
    /\ At(h, "dropping")
    /\ rt' = [rt EXCEPT ![h].detaching = FALSE]
    /\ IF cmd[h].op = "delete" THEN Goto(h, "remove") ELSE Finish(h)
    /\ UNCHANGED <<db, latch, work, life, boot>>

\* DeleteTorrent removes the record and its row of torrent_download_blocks.
DeleteRemove(h) ==
    /\ At(h, "remove")
    /\ \/ /\ db' = [db EXCEPT ![h] = NoRecord]
          /\ latch' = [latch EXCEPT ![h] = NoReason]
       \/ "database" \in Failures /\ UNCHANGED <<db, latch>>
    /\ Finish(h)
    /\ UNCHANGED <<rt, work, life, boot>>

-----------------------------------------------------------------------------
\* Startup restore, shutdown and restart.

\* Mutated forms of RestorePhase: paused intent loses to the others, or a check
\* that was interrupted is restored as a phase of its own.
RestorePhaseEnabled(d, disk) == IF disk # NoReason THEN "DiskFull" ELSE "Queued"

RestorePhaseChecking(d, disk) ==
    IF "verification" \in d.blocks THEN "Checking"
    ELSE IF d.run = "paused" THEN "Paused" ELSE "Queued"

\* restoreActivation: the phase and error that durable facts restore to.
RestorePhase(d, disk) ==
    CASE d.run = "paused" -> "Paused"
      [] d.run # "paused" /\ disk # NoReason -> "DiskFull"
      [] d.run # "paused" /\ disk = NoReason /\ "missing" \in d.blocks ->
           "MissingFiles"
      [] d.run # "paused" /\ disk = NoReason /\ "missing" \notin d.blocks
           /\ d.blocks # {} -> "Error"
      [] OTHER -> "Queued"

RestoreError(d) ==
    CASE "metadata" \in d.blocks -> "metadata"
      [] "metadata" \notin d.blocks /\ "selection" \in d.blocks -> "selection"
      [] d.blocks = {"verification"} -> "verification"
      [] OTHER -> "other"

\* restoreMappedTorrentLocked: one record at a time, in queue order.  Paused
\* and blocked records open offline and need their metainfo; without it they
\* are deferred, like a record that is being deleted.
RestoreBegin(h) ==
    LET d == db[h]
        phase == RestorePhase(d, latch[h])
        offline == d.run = "paused" \/ d.blocks # {}
    IN  /\ life = "up"
        /\ h \in boot
        /\ \A g \in boot : h <= g
        /\ \A g \in Hashes : At(g, "idle")
        /\ boot' = boot \ {h}
        /\ \/ /\ ~d.deleting
              /\ \E source \in Sources :
                   /\ offline => source = "file"
                   /\ Publish(h, NewRuntime(h, phase, RestoreError(d), latch[h],
                                            source = "file"))
              /\ Enter(h, IF offline THEN "restoreInactive" ELSE "restore",
                       "activate", phase)
           \/ /\ d.deleting \/ (offline /\ "magnet" \in Sources)
              /\ UNCHANGED <<rt, cmd, work>>
        /\ UNCHANGED <<db, latch, life>>

\* Mutated form of RestoreVerification: the key is not looked at.
RestoreVerificationSkipped(h) ==
    /\ At(h, "restoreVerification")
    /\ Goto(h, "attach")
    /\ UNCHANGED <<rt, db, latch, work, life, boot>>

\* RestoreVerificationBlock, for a record with the verification key.
RestoreVerification(h) ==
    LET r == rt[h]
        restored == [Quiesce(r, VerificationRestored(r.policy)) EXCEPT
                        !.down = FALSE, !.up = FALSE]
    IN  /\ At(h, "restoreVerification")
        /\ IF "verification" \notin db[h].blocks
           THEN Goto(h, "attach") /\ UNCHANGED rt
           ELSE IF Live(r.policy)
           THEN Goto(h, "attach") /\ rt' = [rt EXCEPT ![h] = Settle(h, restored)]
           ELSE Finish(h) /\ UNCHANGED rt
        /\ UNCHANGED <<db, latch, work, life, boot>>

\* BeginShutdown cancels the engine context and every context under it.
BeginShutdown ==
    /\ "shutdown" \in Failures
    /\ life = "up"
    /\ life' = "closing"
    /\ UNCHANGED <<rt, db, latch, cmd, work, boot>>

\* Close quiesces every runtime that is still published.
CloseEngine ==
    /\ life = "closing"
    /\ \E h \in Hashes : Live(rt[h].policy)
    /\ rt' = [h \in Hashes |->
                IF Live(rt[h].policy)
                THEN [Settle(h, Quiesce(rt[h], Terminated(rt[h].policy)))
                        EXCEPT !.readers = {}]
                ELSE rt[h]]
    /\ UNCHANGED <<db, latch, cmd, work, life, boot>>

\* The process dies, or exits after Close, and starts again.
Crash ==
    /\ "crash" \in Failures
    /\ rt' = [h \in Hashes |-> Absent]
    /\ cmd' = [h \in Hashes |-> Idle]
    /\ work' = {}
    /\ life' = "up"
    /\ boot' = {h \in Hashes : db[h].exists}
    /\ UNCHANGED <<db, latch>>

-----------------------------------------------------------------------------

CommandStart(h) ==
    \/ AddRegister(h)
    \/ ResumeBegin(h)
    \/ PauseBegin(h)
    \/ PriorityCommit(h)
    \/ MetadataCommit(h)
    \/ RecheckBegin(h)
    \/ ReadBegin(h)
    \/ Sync(h)
    \/ DeleteBegin(h)

CommandStep(h) ==
    \/ AddCreate(h)
    \/ ActivateBegin(h)
    \/ ActivateConflict(h)
    \/ ActivateFault(h)
    \/ ResumeProbe(h)
    \/ ActivateFinish(h)
    \/ ResumeBlocked(h)
    \/ ResumeFinish(h)
    \/ ResumeVerdict(h)
    \/ AttachRuntime(h)
    \/ BindApplied(h)
    \/ AttachObserved(h)
    \/ BindObserved(h)
    \/ FailIntentApply(h)
    \/ CarrySafety(h)
    \/ ResumeStage(h)
    \/ ResumeCommit(h)
    \/ PauseCommit(h)
    \/ PauseReconcile(h)
    \/ PriorityApply(h)
    \/ VerifySkip(h)
    \/ VerifyStart(h)
    \/ VerifyAbort(h)
    \/ DeleteDetach(h)
    \/ DropFinished(h)
    \/ DeleteRemove(h)
    \/ RestoreVerification(h)
=============================================================================
