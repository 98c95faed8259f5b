--------------------------- MODULE EngineScheduler ---------------------------
(***************************************************************************)
(* The background half of the admission core: the resource manager's       *)
(* passes, payload preparation, the metadata watcher, verification results,*)
(* writer errors, missing payload and streams.                             *)
(*                                                                         *)
(* A pass of manageResources handles one torrent at a time and re-reads    *)
(* everything it decides on under admissionMu, so a pass (the ticker's or  *)
(* the one a command starts) is a sequence of BeginProbe and FinishProbe   *)
(* steps of its torrents.                                                  *)
(***************************************************************************)
EXTENDS EngineState

CONSTANTS
    Completions,   \* what an observation of the verified pieces may say
    ReaderKinds    \* kinds of reader clients open

\* An empty selection counts as complete; a complete payload completes any.
ASSUME CompletionAssumption ==
    /\ Completions \subseteq {c \in [selected : BOOLEAN, whole : BOOLEAN,
                                     empty : BOOLEAN] :
                                (c.whole \/ c.empty) => c.selected}
    /\ ReaderKinds \subseteq {"stream", "preload"}

ProbeReasons == Reasons \ {"write", "resume"}

\* What a disk probe may answer: no error, or a reason to block.
ProbeResults == {NoReason} \cup (IF "disk" \in Failures THEN ProbeReasons ELSE {})

Job(kind, h, r) ==
    [kind |-> kind, hash |-> h, gen |-> r.gen, epoch |-> r.epoch,
     fence |-> r.fence, slot |-> 0, info |-> FALSE]

\* A payloadPreparation ticket; info says whether metainfo will be saved.
Ticket(kind, h, r) ==
    [Job(kind, h, r) EXCEPT !.slot = r.slotToken, !.info = r.info]

\* A watcher or a verifier is bound to its generation only.
Watcher(kind, h, r) == [Job(kind, h, r) EXCEPT !.epoch = 0, !.fence = Unbound]

\* A result for a generation that is gone, or that moved on, is dropped.
Drop(w, r) == /\ rt' = [rt EXCEPT ![w.hash] = r]
              /\ work' = work \ {w}
              /\ UNCHANGED <<db, latch, cmd, life, boot>>

-----------------------------------------------------------------------------
\* Slots and FIFO order.

Waiting(r) == /\ PayloadEligible(r.policy)
              /\ ~r.policy.slot
              /\ ~r.policy.selectedComplete
              /\ ~r.policy.payloadComplete

SlotHolders(m) == {h \in Hashes : m[h].policy.slot}


\* schedulerHeadLocked and slotCountLocked over the runtimes m.
SchedulerHead(m, h) ==
    Waiting(m[h]) /\ \A g \in Hashes : Waiting(m[g]) => h <= g

\* Mutated form of SlotAvailable: a full pool is off by one.
SlotAvailableOffByOne(m, h) ==
    /\ Cardinality(SlotHolders(m)) <= MaxActiveDownloads
    /\ SchedulerHead(m, h)

SlotAvailable(m, h) ==
    /\ Cardinality(SlotHolders(m)) < MaxActiveDownloads
    /\ SchedulerHead(m, h)

\* reconcileSelectionLocked.
ReconcileSelection(r, c) ==
    IF r.info /\ AcceptsSelection(r.policy, c.selected, c.whole)
    THEN Background(r, SelectionObserved(r.policy, c.selected, c.whole, c.empty))
    ELSE r

Grant(r) ==
    [Event(r, SlotRequested(r.policy)) EXCEPT !.slotToken = @ + 1]

\* releaseFailedSlotLocked.
ReleaseSlot(r) ==
    IF AcceptsSlotRelease(r.policy)
    THEN Background(r, SlotReleased(r.policy))
    ELSE r

-----------------------------------------------------------------------------
\* admitPayloadLocked.

\* The checks before the reservation.
AdmissionOpen(r) == PayloadEligible(r.policy) /\ ~r.preparing

\* The reservation: the ticket goes to work, admissionMu is released.
Reserve(kind, h, r) ==
    /\ rt' = [rt EXCEPT ![h] = [r EXCEPT !.preparing = TRUE]]
    /\ work' = work \cup {Ticket(kind, h, r)}

\* What a failed preparation does to the slot that started it.  Only the
\* scheduler looks at the error, and only while the same grant is held.
AfterFailure(w, r) ==
    LET cleared == [r EXCEPT !.started = FALSE]
    IN  IF w.kind = "sched" /\ r.policy.slot /\ r.slotToken = w.slot
        THEN IF life = "up" THEN ReleaseSlot(cleared) ELSE cleared
        ELSE r

\* Mutated form of Admissible: eligibility is not tested again after the probe.
AdmissibleAsReserved(w) == Current(w) /\ w.fence = rt[w.hash].fence

\* A ticket whose epoch, fence, grant or eligibility changed meanwhile.
Admissible(w) ==
    /\ Unchanged(w)
    /\ PayloadEligible(rt[w.hash].policy)
    /\ w.slot = rt[w.hash].slotToken

PrepKinds == {"sched", "meta", "stream"}

\* A stale preparation retires its own ticket, never a later generation's.
FinishStalePreparation(w) ==
    LET r == rt[w.hash]
    IN  /\ w.kind \in PrepKinds
        /\ ~Admissible(w)
        /\ Drop(w, IF w.gen # r.gen THEN r
                   ELSE Settle(w.hash,
                               AfterFailure(w, [r EXCEPT !.preparing = FALSE])))

\* The disk probe failed: the latch is installed before it is persisted.
FinishBlockedPreparation(w) ==
    LET h == w.hash
        r == [rt[h] EXCEPT !.preparing = FALSE]
    IN  /\ w.kind \in PrepKinds
        /\ Admissible(w)
        /\ \E reason \in ProbeResults \ {NoReason}, saved \in Outcomes("database") :
             /\ rt' = [rt EXCEPT ![h] = Settle(h, BlockDownload(r, reason, saved))]
             /\ latch' = [latch EXCEPT ![h] = BlockRow(r, reason, saved, @)]
        /\ work' = work \ {w}
        /\ UNCHANGED <<db, cmd, life, boot>>

\* Saving the metainfo or applying the selection failed.
FinishFaultyPreparation(w) ==
    LET h == w.hash
        r == [rt[h] EXCEPT !.preparing = FALSE]
    IN  /\ w.kind \in PrepKinds
        /\ Admissible(w)
        /\ \E kind \in {"metadata", "selection"}, saved \in Outcomes("database") :
             /\ kind = "metadata" => w.info /\ "metainfo" \in Failures
             /\ kind = "selection" => r.info /\ "selection" \in Failures
             /\ rt' = [rt EXCEPT ![h] = Settle(h, Fault(r, kind))]
             /\ db' = [db EXCEPT ![h] = SafetyRow(r, @, kind, saved)]
        /\ work' = work \ {w}
        /\ UNCHANGED <<latch, cmd, life, boot>>

\* Without metadata there are no priorities to apply: an error, no effect.
FinishEarlyPreparation(w) ==
    LET r == [rt[w.hash] EXCEPT !.preparing = FALSE]
    IN  /\ w.kind \in PrepKinds
        /\ Admissible(w)
        /\ ~r.info
        /\ Drop(w, Settle(w.hash, AfterFailure(w, r)))

\* Everything succeeded: the payload gate opens unless a write failed.
FinishPreparation(w) ==
    LET h == w.hash
        r == [rt[h] EXCEPT !.preparing = FALSE]
    IN  /\ w.kind \in PrepKinds
        /\ Admissible(w)
        /\ r.info
        /\ work' = work \ {w}
        /\ \/ /\ ~r.writeError
              /\ \E opened \in SUBSET ReaderKinds :
                   /\ opened # {} => w.kind = "stream"
                   /\ rt' = [rt EXCEPT ![h] =
                               [r EXCEPT !.down = TRUE,
                                         !.readers = @ \cup opened]]
              /\ UNCHANGED latch
           \/ /\ r.writeError
              /\ \E saved \in Outcomes("database") :
                   /\ rt' = [rt EXCEPT ![h] =
                               Settle(h, BlockDownload(r, "write", saved))]
                   /\ latch' = [latch EXCEPT ![h] = BlockRow(r, "write", saved, @)]
        /\ UNCHANGED <<db, cmd, life, boot>>

-----------------------------------------------------------------------------
\* manageResources, for one torrent.

\* Health probes are coalesced per generation.
BeginProbe(h) ==
    /\ Managed(h)
    /\ ~rt[h].probing
    /\ rt' = [rt EXCEPT ![h].probing = TRUE]
    /\ work' = work \cup {Job("probe", h, rt[h])}
    /\ UNCHANGED <<db, latch, cmd, life, boot>>

\* Mutated form of FinishStaleProbe: an early return keeps the ticket.
FinishStaleProbeKeepingTicket(w) ==
    /\ w.kind = "probe"
    /\ ~Unchanged(w)
    /\ Drop(w, rt[w.hash])

FinishStaleProbe(w) ==
    /\ w.kind = "probe"
    /\ ~Unchanged(w)
    /\ Drop(w, [rt[w.hash] EXCEPT !.probing = @ /\ w.gen # rt[w.hash].gen])

FinishBlockedProbe(w) ==
    LET h == w.hash
        r == [rt[h] EXCEPT !.probing = FALSE]
    IN  /\ w.kind = "probe"
        /\ Unchanged(w)
        /\ \E reason \in ProbeResults \ {NoReason}, saved \in Outcomes("database") :
             /\ rt' = [rt EXCEPT ![h] = Settle(h, BlockDownload(r, reason, saved))]
             /\ latch' = [latch EXCEPT ![h] = BlockRow(r, reason, saved, @)]
        /\ work' = work \ {w}
        /\ UNCHANGED <<db, cmd, life, boot>>

\* The probe succeeded: observe completion, ask for a slot, start to prepare.
FinishProbe(w) ==
    LET h == w.hash
    IN  /\ w.kind = "probe"
        /\ Unchanged(w)
        /\ \E seen \in {ReconcileSelection([rt[h] EXCEPT !.probing = FALSE], c) :
                          c \in Completions} :
             LET granted == AcceptsSlotRequest(seen.policy,
                                SlotAvailable([rt EXCEPT ![h] = seen], h))
                 r == Settle(h, IF granted THEN Grant(seen) ELSE seen)
                 prepare == /\ AdmissionOpen(r)
                            /\ r.policy.slot
                            /\ ~r.started
                            /\ r.info
             IN  IF prepare
                 THEN /\ rt' = [rt EXCEPT ![h] = [r EXCEPT !.started = TRUE,
                                                           !.preparing = TRUE]]
                      /\ work' = (work \ {w}) \cup {Ticket("sched", h, r)}
                 ELSE /\ rt' = [rt EXCEPT ![h] = r]
                      /\ work' = work \ {w}
        /\ UNCHANGED <<db, latch, cmd, life, boot>>

-----------------------------------------------------------------------------
\* watchMetadata.

\* The library received the info dictionary of a magnet.
GotInfo(h) ==
    /\ rt[h].gen # 0
    /\ ~rt[h].info
    /\ rt' = [rt EXCEPT ![h].info = TRUE]
    /\ UNCHANGED <<db, latch, cmd, work, life, boot>>

\* The watcher wakes: it augments the trackers and saves the metainfo outside
\* admissionMu, in two windows with nothing between them.
BeginSave(w) ==
    /\ w.kind = "watch"
    /\ Current(w)
    /\ rt[w.hash].info
    /\ work' = (work \ {w}) \cup {Job("save", w.hash, rt[w.hash])}
    /\ UNCHANGED <<rt, db, latch, cmd, life, boot>>

\* The context or the generation ended, or the runtime moved on: no retry.
FinishStaleWatch(w) ==
    /\ \/ w.kind = "watch" /\ ~Current(w)
       \/ w.kind = "save" /\ ~Unchanged(w)
    /\ Drop(w, rt[w.hash])

FinishFailedSave(w) ==
    LET h == w.hash
    IN  /\ w.kind = "save"
        /\ Unchanged(w)
        /\ "metainfo" \in Failures
        /\ \E saved \in Outcomes("database") :
             db' = [db EXCEPT ![h] = SafetyRow(rt[h], @, "metadata", saved)]
        /\ rt' = [rt EXCEPT ![h] = Settle(h, Fault(rt[h], "metadata"))]
        /\ work' = work \ {w}
        /\ UNCHANGED <<latch, cmd, life, boot>>

\* A torrent that already holds a slot starts now.  The error of the admission
\* is discarded: with a preparation in flight the flag is set and nothing runs.
FinishSave(w) ==
    LET h == w.hash
        r == rt[h]
        start == r.policy.slot /\ ~r.started /\ PayloadEligible(r.policy)
        s == [r EXCEPT !.started = TRUE]
    IN  /\ w.kind = "save"
        /\ Unchanged(w)
        /\ IF start /\ AdmissionOpen(s)
           THEN /\ rt' = [rt EXCEPT ![h] = [s EXCEPT !.preparing = TRUE]]
                /\ work' = (work \ {w}) \cup {Ticket("meta", h, s)}
           ELSE /\ rt' = [rt EXCEPT ![h] = IF start THEN s ELSE r]
                /\ work' = work \ {w}
        /\ UNCHANGED <<db, latch, cmd, life, boot>>

-----------------------------------------------------------------------------
\* Writer errors, missing payload and readers.

\* Library: a chunk write failed.  The gate closes synchronously, even when
\* the write belongs to a request made before the gate was last closed.
WriteFails(h) ==
    /\ "write" \in Failures
    /\ rt[h].gen # 0
    /\ rt[h].info
    /\ rt' = [rt EXCEPT ![h].writeError = TRUE, ![h].down = FALSE,
                        ![h].writeVersion =
                            IF At(h, "probing") THEN Fresh({cmd[h].wver})
                            ELSE 0]
    /\ UNCHANGED <<db, latch, cmd, work, life, boot>>

\* payloadWriteError, run for every queued notification and again each second
\* while the library latch is set.
HandleWriteError(h) ==
    /\ Managed(h)
    /\ rt[h].writeError
    /\ \E saved \in Outcomes("database") :
         /\ rt' = [rt EXCEPT ![h] =
                     Settle(h, BlockDownload(rt[h], "write", saved))]
         /\ latch' = [latch EXCEPT ![h] = BlockRow(rt[h], "write", saved, @)]
    /\ UNCHANGED <<db, cmd, work, life, boot>>

\* OpenStreamSource falls back to the torrent: admission first.
OpenStream(h) ==
    /\ Managed(h)
    /\ ReaderKinds # {}
    /\ rt[h].info
    /\ AdmissionOpen(rt[h])
    /\ Reserve("stream", h, rt[h])
    /\ UNCHANGED <<db, latch, cmd, life, boot>>

\* A verified file is read without admission; its presence is then expected.
OpenReadyStream(h) ==
    /\ Managed(h)
    /\ rt[h].info
    /\ \E reader \in ReaderKinds :
         rt' = [rt EXCEPT ![h].readers = @ \cup {reader}, ![h].expected = TRUE]
    /\ UNCHANGED <<db, latch, cmd, work, life, boot>>

\* The last session of a kind ended and its debounce expired.
CloseStream(h) ==
    /\ \E reader \in rt[h].readers :
         rt' = [rt EXCEPT ![h].readers = @ \ {reader}]
    /\ UNCHANGED <<db, latch, cmd, work, life, boot>>

\* detectMissingExpectedPayload looks at the file outside admissionMu.
BeginMissing(h) ==
    /\ "missing" \in Failures
    /\ Managed(h)
    /\ rt[h].expected
    /\ ~(rt[h].policy.initializing \/ rt[h].policy.checking
           \/ rt[h].policy.uncertain)
    /\ ~\E w \in work : w.kind = "missing" /\ w.hash = h
    /\ work' = work \cup {Job("missing", h, rt[h])}
    /\ UNCHANGED <<rt, db, latch, cmd, life, boot>>

\* Stale, or the file is there after all.
FinishPresent(w) == w.kind = "missing" /\ Drop(w, rt[w.hash])

FinishMissing(w) ==
    LET h == w.hash
    IN  /\ w.kind = "missing"
        /\ Unchanged(w)
        /\ \E saved \in Outcomes("database") :
             db' = [db EXCEPT ![h] = SafetyRow(rt[h], @, "missing", saved)]
        /\ rt' = [rt EXCEPT ![h] = Settle(h, Fault(rt[h], "missing"))]
        /\ work' = work \ {w}
        /\ UNCHANGED <<latch, cmd, life, boot>>

-----------------------------------------------------------------------------
\* completeVerificationLocked.

\* How a check ends: durable says that its database write took effect, and a
\* success that could not be recorded is a failure.
Completed(r, ok, durable) ==
    [Reopen(r, VerificationEnd(r.policy, ok /\ durable))
       EXCEPT !.verifying = FALSE]

\* Mutated form of CompletedRow: a failed check removes the block as well.
CompletedRowCleared(d, ok, durable) ==
    IF durable THEN [d EXCEPT !.blocks = @ \ {"verification"}] ELSE d

CompletedRow(d, ok, durable) ==
    IF ~durable THEN d
    ELSE IF ok THEN [d EXCEPT !.blocks = @ \ {"verification"}]
    ELSE PutBlock(d, "verification")

\* The attempt is still the runtime's own.
AttemptCurrent(w) ==
    /\ Current(w)
    /\ rt[w.hash].verifying
    /\ AcceptsVerificationEnd(rt[w.hash].policy)


\* The command that waits for a local check of a paused torrent goes on.
ReleaseReader(w) ==
    cmd' = [cmd EXCEPT ![w.hash] =
              IF At(w.hash, "inactive") /\ w.gen = rt[w.hash].gen
              THEN Idle ELSE @]

FinishVerification(w) ==
    LET h == w.hash
        r == rt[h]
    IN  /\ w.kind = "verify"
        /\ AttemptCurrent(w)
        /\ \E ok \in Outcomes("verify"), saved \in Outcomes("database") :
             LET durable == saved /\ ExactFence(db[h], r.fence)
             IN  /\ rt' = [rt EXCEPT ![h] = Settle(h, Completed(r, ok, durable))]
                 /\ db' = [db EXCEPT ![h] = CompletedRow(@, ok, durable)]
        /\ work' = work \ {w}
        /\ ReleaseReader(w)
        /\ UNCHANGED <<latch, life, boot>>

\* Mutated form of FinishStaleVerification: a cancelled attempt stays current.
FinishStaleVerificationIgnored(w) ==
    /\ w.kind = "verify"
    /\ ~AttemptCurrent(w)
    /\ work' = work \ {w}
    /\ ReleaseReader(w)
    /\ UNCHANGED <<rt, db, latch, life, boot>>

\* Detached generations may finish their history, never a gate or a key.
FinishStaleVerification(w) ==
    /\ w.kind = "verify"
    /\ ~AttemptCurrent(w)
    /\ rt' = [rt EXCEPT ![w.hash].verifying = @ /\ w.gen # rt[w.hash].gen]
    /\ work' = work \ {w}
    /\ ReleaseReader(w)
    /\ UNCHANGED <<db, latch, life, boot>>

-----------------------------------------------------------------------------

FinishWork(w) ==
    \/ FinishStalePreparation(w)
    \/ FinishBlockedPreparation(w)
    \/ FinishFaultyPreparation(w)
    \/ FinishEarlyPreparation(w)
    \/ FinishPreparation(w)
    \/ FinishStaleProbe(w)
    \/ FinishBlockedProbe(w)
    \/ FinishProbe(w)
    \/ BeginSave(w)
    \/ FinishStaleWatch(w)
    \/ FinishFailedSave(w)
    \/ FinishSave(w)
    \/ FinishPresent(w)
    \/ FinishMissing(w)
    \/ FinishVerification(w)
    \/ FinishStaleVerification(w)

BackgroundStep(h) ==
    \/ BeginProbe(h)
    \/ GotInfo(h)
    \/ WriteFails(h)
    \/ HandleWriteError(h)
    \/ OpenStream(h)
    \/ OpenReadyStream(h)
    \/ CloseStream(h)
    \/ BeginMissing(h)
=============================================================================
