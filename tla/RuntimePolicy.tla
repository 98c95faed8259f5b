---------------------------- MODULE RuntimePolicy ----------------------------
(***************************************************************************)
(* The pure runtime policy of internal/engine/runtime_policy.go: the       *)
(* independent facts that decide whether a torrent may receive or serve    *)
(* payload, and what each state event does to them.                        *)
(*                                                                         *)
(* runtimeTransition is one Go function with a switch over the event kind. *)
(* Here each kind is a pair of operators: Accepts<Kind>, the conjunction   *)
(* of its rejections negated, and <Kind>, the decision it returns.  A      *)
(* decision carries the next policy and the effects its executor performs. *)
(***************************************************************************)
EXTENDS Naturals, FiniteSets

CONSTANTS
    Reasons,     \* texts a disk probe or a payload writer blocks with
    NoReason     \* the empty disk reason: no latch

ASSUME ReasonsAssumption == NoReason \notin Reasons

\* metadataFault, selectionFault, missingFault and legacyFault: each is owned
\* by its own producer and is either empty or one fixed text, so a set of the
\* faults that are present says the same.
Faults == {"missing", "metadata", "selection", "legacy"}

Runs == {"none", "paused", "enabled"}

\* The persisted phases registration and full activation accept.
Phases == {"Paused", "Queued", "Downloading", "Seeding", "Streaming",
           "DiskFull", "Error", "MissingFiles"}

\* ErrorReason as far as an imported phase tells it apart.
Errors == {"none", "verification", "metadata", "selection", "other"}

Policies ==
    [registered : BOOLEAN, terminal : BOOLEAN, run : Runs, slot : BOOLEAN,
     checking : BOOLEAN, uncertain : BOOLEAN, initializing : BOOLEAN,
     verificationFault : BOOLEAN, disk : Reasons \cup {NoReason},
     faults : SUBSET Faults, selectedComplete : BOOLEAN,
     payloadComplete : BOOLEAN, selectionEmpty : BOOLEAN]

\* runtimePolicy{}: the policy of a torrent object nobody registered yet.
ZeroPolicy ==
    [registered |-> FALSE, terminal |-> FALSE, run |-> "none", slot |-> FALSE,
     checking |-> FALSE, uncertain |-> FALSE, initializing |-> FALSE,
     verificationFault |-> FALSE, disk |-> NoReason, faults |-> {},
     selectedComplete |-> FALSE, payloadComplete |-> FALSE,
     selectionEmpty |-> FALSE]

-----------------------------------------------------------------------------

UploadEligible(p) ==
    /\ p.registered
    /\ ~p.terminal
    /\ p.run = "enabled"
    /\ ~p.initializing
    /\ ~p.checking
    /\ ~p.uncertain
    /\ ~p.verificationFault
    /\ p.faults = {}

PayloadEligible(p) == UploadEligible(p) /\ p.disk = NoReason

\* What the user is shown.  The order of the arms is the display precedence.
Projection(p) ==
    CASE p.run = "paused" -> "Paused"
      [] p.run # "paused" /\ p.disk # NoReason -> "DiskFull"
      [] p.run # "paused" /\ p.disk = NoReason /\ "missing" \in p.faults ->
           "MissingFiles"
      [] p.run # "paused" /\ p.disk = NoReason /\ "missing" \notin p.faults
           /\ (p.faults # {} \/ (p.verificationFault /\ ~p.checking)) -> "Error"
      [] OTHER ->
           LET settled == ~(p.terminal \/ p.initializing \/ p.checking
                              \/ p.uncertain)
           IN  IF settled /\ p.payloadComplete /\ ~p.selectionEmpty
               THEN "Seeding"
               ELSE IF settled /\ p.slot THEN "Downloading" ELSE "Queued"

\* The error text beside the phase, as far as a later import tells it apart:
\* disk, missing and legacy texts are all "other" to the importer.
ProjectedError(p) ==
    CASE Projection(p) \in {"DiskFull", "MissingFiles"} -> "other"
      [] Projection(p) = "Error" /\ "metadata" \in p.faults -> "metadata"
      [] Projection(p) = "Error" /\ "metadata" \notin p.faults
           /\ "selection" \in p.faults -> "selection"
      [] Projection(p) = "Error" /\ p.faults = {"legacy"} -> "other"
      [] Projection(p) = "Error" /\ p.faults = {} -> "verification"
      [] OTHER -> "none"

-----------------------------------------------------------------------------
\* The shapes of decision the events share.

Decision(p, reset, closePayload, closeUpload, closeBackground, invalidate) ==
    [policy |-> p, resetDownload |-> reset, closePayload |-> closePayload,
     closeUpload |-> closeUpload, allowUpload |-> FALSE,
     closeBackground |-> closeBackground, invalidateApplied |-> invalidate]

Quiesced(p) == Decision(p, TRUE, TRUE, TRUE, FALSE, TRUE)

Unforced(p) == Decision(p, FALSE, FALSE, FALSE, FALSE, FALSE)

\* Registration, activation and verification close payload and then give or
\* take upload by what the new policy says.
Reconciled(p) ==
    [Decision(p, TRUE, TRUE, ~UploadEligible(p), FALSE, FALSE)
       EXCEPT !.allowUpload = UploadEligible(p)]

Live(p) == p.registered /\ ~p.terminal

-----------------------------------------------------------------------------
\* Registered and Activated: the only events that import a persisted phase.

ImportedFaults(phase, err) ==
    CASE phase = "MissingFiles" -> {"missing"}
      [] phase = "Error" /\ err = "metadata" -> {"metadata"}
      [] phase = "Error" /\ err = "selection" -> {"selection"}
      [] phase = "Error" /\ err \in {"none", "other"} -> {"legacy"}
      [] OTHER -> {}

\* text is the disk reason a DiskFull phase carries when no latch is set yet.
Import(p, phase, err, text) ==
    [p EXCEPT !.run = IF phase = "Paused" THEN "paused" ELSE "enabled",
              !.faults = @ \cup ImportedFaults(phase, err),
              !.verificationFault =
                  @ \/ (phase = "Error" /\ err = "verification"),
              !.disk = IF phase = "DiskFull" /\ @ = NoReason THEN text ELSE @,
              !.slot = FALSE,
              !.payloadComplete = FALSE]

AcceptsRegistered(p, phase) == phase \in Phases /\ ~p.registered /\ ~p.terminal

Registered(p, phase, err, text, staged, diskReason) ==
    Reconciled(Import([p EXCEPT !.registered = TRUE, !.initializing = staged,
                                !.disk = diskReason],
                      phase, err, text))

AcceptsActivated(p, phase, full) ==
    /\ Live(p)
    /\ phase \in Phases
    /\ ~p.checking
    /\ ~p.uncertain
    /\ p.initializing => full

\* recovered is the capability an explicit Resume earns with its disk probe:
\* the only way a disk latch or one of the four faults is ever removed.
Activated(p, phase, err, text, recovered) ==
    Reconciled(Import([p EXCEPT !.initializing = FALSE,
                                !.disk = IF recovered THEN NoReason ELSE @,
                                !.faults = IF recovered THEN {} ELSE @],
                      phase, err, text))

-----------------------------------------------------------------------------
\* Events that stop a runtime.

Terminated(p) ==
    Quiesced([p EXCEPT !.terminal = TRUE, !.initializing = TRUE,
                       !.uncertain = @ \/ p.checking, !.checking = FALSE,
                       !.slot = FALSE])

Paused(p, full) ==
    Quiesced([p EXCEPT !.run = "paused", !.slot = FALSE,
                       !.initializing = @ /\ ~full])

AcceptsStaged(p) == Live(p) /\ ~p.checking /\ ~p.uncertain

Staged(p) == Quiesced([p EXCEPT !.initializing = TRUE, !.slot = FALSE])

\* ApplyFailed has no fault of its own: added is then empty.
Faulted(p, added) ==
    Quiesced([p EXCEPT !.initializing = TRUE, !.slot = FALSE,
                       !.faults = @ \cup added])

AcceptsDiskBlocked(p, reason) == Live(p) /\ reason # NoReason

DiskBlocked(p, reason) ==
    Decision([p EXCEPT !.disk = reason, !.slot = FALSE],
             TRUE, TRUE, FALSE, FALSE, FALSE)

-----------------------------------------------------------------------------
\* Verification changes only its own axes, and always gives up the slot.

AcceptsVerificationBegin(p) == Live(p) /\ ~p.checking /\ ~p.initializing

VerificationBegin(p) ==
    Reconciled([p EXCEPT !.checking = TRUE, !.uncertain = TRUE,
                         !.selectedComplete = FALSE,
                         !.payloadComplete = FALSE, !.slot = FALSE])

AcceptsVerificationEnd(p) == Live(p) /\ p.checking

\* Failed and cancelled checks end alike: uncertainty and fault both stay.
VerificationEnd(p, succeeded) ==
    Reconciled([p EXCEPT !.checking = FALSE, !.uncertain = ~succeeded,
                         !.verificationFault = ~succeeded, !.slot = FALSE])

VerificationRestored(p) ==
    Reconciled([p EXCEPT !.uncertain = TRUE, !.slot = FALSE])

-----------------------------------------------------------------------------
\* Selection completion and background slots.

AcceptsSelection(p, selected, whole) ==
    /\ Live(p)
    /\ whole => selected
    /\ ~p.initializing
    /\ ~p.checking
    /\ ~p.uncertain

SelectionObserved(p, selected, whole, empty) ==
    LET seen == [p EXCEPT !.selectedComplete = selected,
                          !.payloadComplete = whole, !.selectionEmpty = empty]
    IN  IF selected \/ ~PayloadEligible(seen)
        THEN Decision([seen EXCEPT !.slot = FALSE],
                      p.slot, FALSE, FALSE, p.slot, FALSE)
        ELSE Unforced(seen)

AcceptsSlotRequest(p, available) ==
    /\ PayloadEligible(p)
    /\ ~p.slot
    /\ ~p.selectedComplete
    /\ ~p.payloadComplete
    /\ available

SlotRequested(p) == Unforced([p EXCEPT !.slot = TRUE])

AcceptsSlotRelease(p) == Live(p) /\ p.slot

SlotReleased(p) ==
    Decision([p EXCEPT !.slot = FALSE], TRUE, FALSE, FALSE, TRUE, FALSE)
=============================================================================
