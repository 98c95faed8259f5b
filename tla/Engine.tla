-------------------------------- MODULE Engine --------------------------------
(***************************************************************************)
(* The admission core as a whole: user commands, the startup restore, the  *)
(* scheduler and the library, interleaved, over a database that survives   *)
(* restarts; and what it promises.                                         *)
(***************************************************************************)
EXTENDS EngineCommands

CONSTANT Legacy   \* states of the rows an upgraded database starts from

ASSUME LegacyAssumption ==
    Legacy \subseteq {"none", "Queued", "Paused", "Error", "MissingFiles",
                      "DiskFull"}

\* Migration 0009 gives every old row an intent, and a block where the old
\* state was a failure; a DiskFull row keeps its latch.
Upgraded(state) ==
    IF state = "none" THEN NoRecord
    ELSE [NoRecord EXCEPT
            !.exists = TRUE, !.rev = 1,
            !.run = IF state \in {"Queued", "DiskFull"} THEN "enabled"
                    ELSE "paused",
            !.blocks = CASE state = "Error" -> {"legacy"}
                         [] state = "MissingFiles" -> {"missing"}
                         [] OTHER -> {}]

Init ==
    /\ rt = [h \in Hashes |-> Absent]
    /\ \E old \in [Hashes -> Legacy], reason \in ProbeReasons :
         /\ db = [h \in Hashes |-> Upgraded(old[h])]
         /\ latch = [h \in Hashes |-> IF old[h] = "DiskFull" THEN reason
                                      ELSE NoReason]
         /\ boot = {h \in Hashes : old[h] # "none"}
    /\ cmd = [h \in Hashes |-> Idle]
    /\ work = {}
    /\ life = "up"

Next ==
    \/ \E h \in Hashes : BackgroundStep(h) \/ CommandStart(h) \/ CommandStep(h)
                           \/ RestoreBegin(h)
    \/ \E w \in work : FinishWork(w)
    \/ BeginShutdown
    \/ CloseEngine
    \/ Crash

Spec == Init /\ [][Next]_vars

\* The resource monitor keeps passing over the torrents, an accepted probe or
\* verifier returns, the startup loop goes on and a command runs to its end.
FairSpec ==
    /\ Spec
    /\ \A h \in Hashes :
         /\ WF_vars(BeginProbe(h))
         /\ WF_vars(RestoreBegin(h))
         /\ WF_vars(CommandStep(h))
         /\ \A k \in {"probe", "verify"} :
              WF_vars(\E w \in work : w.hash = h /\ w.kind = k /\ FinishWork(w))

-----------------------------------------------------------------------------
\* Invariants.

\* The library's payload gate is open only while every independent fact of the
\* runtime policy permits payload and no write has failed since; the upload
\* gate likewise (payloadEligible, uploadEligible and each place that opens or
\* closes a gate after admissionMu was released and taken again).
GatesFollowPolicy ==
    \A h \in Hashes :
        /\ rt[h].down => PayloadEligible(rt[h].policy) /\ ~rt[h].writeError
        /\ rt[h].up => UploadEligible(rt[h].policy) /\ ~BTNoUpload

\* An open payload gate has a durable authority: the record exists, its last
\* committed intent is enabled and no verification block is stored, whatever
\* commands, results, failures and restarts came before (commitRunIntent,
\* completeVerificationLocked, admitPayloadLocked).
OpenGateAuthorised ==
    \A h \in Hashes : rt[h].down => /\ db[h].exists
                                    /\ db[h].run = "enabled"
                                    /\ "verification" \notin db[h].blocks

\* Slots are only held by torrents that may download, and never more than
\* cfg.MaxActiveDownloads of them (manageResources, slotCountLocked).
SlotsBounded ==
    /\ Cardinality(SlotHolders(rt)) <= MaxActiveDownloads
    /\ \A h \in SlotHolders(rt) : PayloadEligible(rt[h].policy)

\* While a verifier runs its block is in the database, also across the rebinds
\* that other commands make meanwhile (startRecheckLocked, bindRuntime).
VerifierIsDurable ==
    \A h \in Hashes : rt[h].verifying => "verification" \in db[h].blocks

\* downloadBlockPersisted tells the truth: the row holds the runtime's reason
\* (blockDownloadLocked skips the write when it is set).
PersistedLatchIsReal ==
    \A h \in Hashes : rt[h].persisted => latch[h] = rt[h].policy.disk

\* A runtime that acknowledges the current revision runs what the revision
\* says, and everything it found wrong is in the database under its binding
\* (bindAppliedRuntime, bindIncrementalRuntime, FailIntentApply).
AcknowledgedIsApplied ==
    \A h \in Hashes :
        rt[h].applied > 0 /\ rt[h].applied = db[h].rev =>
            /\ ~rt[h].policy.initializing
            /\ rt[h].policy.run = db[h].run
            /\ rt[h].safety \subseteq db[h].blocks

\* README: a stored disk block keeps the payload gate of its torrent closed.
LatchGovernsGate ==
    \A h \in Hashes : latch[h] # NoReason => ~rt[h].down

\* phase 37: downloadAllStarted does not stay set after a failed admission: a
\* slot that has started is preparing, open, or about to be blocked.
StartedIsHonest ==
    \A h \in Hashes :
        rt[h].started /\ rt[h].policy.slot =>
            rt[h].down \/ rt[h].preparing \/ rt[h].writeError

\* STATE.md: only an explicit Resume lifts a metadata, selection, missing or
\* legacy fault, and it removes the key with it: a torrent whose payload gate
\* is open has no activation block in the database.
DurableBlocksGovernGate ==
    \A h \in Hashes : rt[h].down => db[h].blocks = {}

\* Upload of a torrent with a stored verification block is closed except in
\* the one window of the offline restore between FinishRestore and
\* RestoreVerificationBlock.
UploadAwaitsVerification ==
    \A h \in Hashes :
        rt[h].up /\ "verification" \in db[h].blocks =>
            At(h, "restoreVerification")

-----------------------------------------------------------------------------
\* Action properties.

\* The runtime's disk latch is only lifted together with the stored one and
\* with no write error pending (FinishRestore of an explicit Resume).
DiskRecoveryIsDurable ==
    [][\A h \in Hashes :
         /\ rt[h].policy.disk # NoReason
         /\ rt'[h].policy.disk = NoReason
         /\ rt'[h].gen = rt[h].gen
         => latch'[h] = NoReason /\ ~rt'[h].writeError]_vars

\* A verification block disappears only with its record, or when the attempt
\* of the current generation succeeds and its uncertainty ends with it.
VerificationKeyOwned ==
    [][\A h \in Hashes :
         "verification" \in db[h].blocks \ db'[h].blocks /\ db'[h].exists =>
             /\ rt[h].verifying
             /\ ~rt'[h].policy.uncertain
             /\ db'[h].blocks = db[h].blocks \ {"verification"}]_vars

\* Results that belong to a dropped generation change nothing but the list of
\* work (currentTorrent and the pointer checks after every unlocked window).
DetachedWorkIsInert ==
    [][\A w \in work \ work' :
         w.gen # rt[w.hash].gen /\ rt'[w.hash].gen = rt[w.hash].gen =>
             /\ rt[w.hash].gen # 0 => rt'[w.hash] = rt[w.hash]
             /\ db'[w.hash] = db[w.hash]
             /\ latch'[w.hash] = latch[w.hash]]_vars


\* A torrent that loses its slot, by completion, failure, fault, check or
\* command, keeps its payload gate open only for an active stream; a preload is
\* not one (applyBackgroundReleaseLocked, applyQuiesceLocked).
LostSlotClosesGate ==
    [][\A h \in Hashes :
         /\ rt[h].policy.slot
         /\ ~rt'[h].policy.slot
         => ~rt'[h].down \/ "stream" \in rt'[h].readers]_vars


-----------------------------------------------------------------------------
\* Liveness.


\* A free slot does not stay free while its first candidate waits: a stale or
\* coalesced probe never stops the later ones (manageResources).
FreeSlotIsGranted ==
    \A h \in Hashes :
        life = "up" /\ SlotAvailable(rt, h)
            ~> life # "up" \/ ~SlotAvailable(rt, h)

\* A running check ends, so readers, Resume and Delete are not locked out for
\* good (finishVerification, also for a cancelled context).
ChecksEnd ==
    \A h \in Hashes : rt[h].verifying ~> ~rt[h].verifying
=============================================================================
