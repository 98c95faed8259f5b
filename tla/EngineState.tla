----------------------------- MODULE EngineState -----------------------------
(***************************************************************************)
(* The state of the admission core: the managed runtime of each torrent    *)
(* (engine.ManagedTorrent with the gates of its library torrent), what     *)
(* SQLite holds of it, the command that owns its record lock, and the work *)
(* in flight outside admissionMu.                                          *)
(*                                                                         *)
(* admissionMu serialises every section that decides something, so a       *)
(* section is one step.  A section that unlocks for I/O is two steps: the  *)
(* first leaves a record in work (or in cmd) that carries the tokens the   *)
(* code captured, the second compares them with the current ones.          *)
(*                                                                         *)
(* Generation pointers, policy epochs, slot tokens, attachments and writer *)
(* error versions are only ever compared for equality.  Transforms below   *)
(* increment them as the code does; Settle then renames a changed token to *)
(* the least one no captured value holds, which keeps every comparison.    *)
(***************************************************************************)
EXTENDS RuntimePolicy

CONSTANTS
    Hashes,              \* torrents, numbered in queue order
    MaxActiveDownloads,  \* cfg.MaxActiveDownloads
    BTNoUpload,          \* cfg.BTNoUpload
    Failures,            \* kinds of failure the environment may cause
    MaxRevision,         \* bound on the intent revision of one record
    MaxStale             \* bound on work left behind by dropped generations

FailureKinds == {"disk", "write", "metainfo", "selection", "missing",
                 "database", "verify", "tasks", "merge", "shutdown", "crash"}

ASSUME EngineAssumption ==
    /\ Hashes \subseteq Nat
    /\ IsFiniteSet(Hashes)
    /\ MaxActiveDownloads \in Nat
    /\ BTNoUpload \in BOOLEAN
    /\ Failures \subseteq FailureKinds
    /\ MaxRevision \in Nat
    /\ MaxStale \in Nat
    /\ {"write", "resume"} \subseteq Reasons

VARIABLES
    rt,      \* hash -> the managed runtime, Absent when there is none
    db,      \* hash -> the intent row and activation blocks of its record
    latch,   \* hash -> the row of torrent_download_blocks, NoReason without
    cmd,     \* hash -> the command that holds the record lock
    work,    \* tasks in flight outside admissionMu
    life,    \* "up", or "closing" once the engine context is cancelled
    boot     \* hashes the startup restore has not reached

vars == <<rt, db, latch, cmd, work, life, boot>>

-----------------------------------------------------------------------------
\* Types.

\* A runtime fence: the intent revision and attachment a runtime is bound to.
\* The record identity of the code's fence is left out: Delete drops a runtime
\* before its record, so a runtime never meets another record of its hash.
Fences == [rev : Nat, att : Nat]

Unbound == [rev |-> 0, att |-> 0]

BlockKinds == {"verification", "missing", "metadata", "selection", "legacy"}

\* Safety keys a runtime fault writes; each has the name of its fault.
SafetyKinds == {"missing", "metadata", "selection"}

Runtimes ==
    [gen : Nat, detaching : BOOLEAN, policy : Policies, epoch : Nat,
     slotToken : Nat, fence : Fences, applied : Nat, started : BOOLEAN,
     preparing : BOOLEAN, probing : BOOLEAN, verifying : BOOLEAN,
     persisted : BOOLEAN, safety : SUBSET SafetyKinds, expected : BOOLEAN,
     down : BOOLEAN, up : BOOLEAN, info : BOOLEAN, writeError : BOOLEAN,
     writeVersion : Nat, readers : SUBSET {"stream", "preload"}]

Absent ==
    [gen |-> 0, detaching |-> FALSE, policy |-> ZeroPolicy, epoch |-> 0,
     slotToken |-> 0, fence |-> Unbound, applied |-> 0, started |-> FALSE,
     preparing |-> FALSE, probing |-> FALSE, verifying |-> FALSE,
     persisted |-> FALSE, safety |-> {}, expected |-> FALSE, down |-> FALSE,
     up |-> FALSE, info |-> FALSE, writeError |-> FALSE, writeVersion |-> 0,
     readers |-> {}]

Records ==
    [exists : BOOLEAN, rev : Nat, run : Runs, blocks : SUBSET BlockKinds,
     att : Nat, deleting : BOOLEAN]

NoRecord == [exists |-> FALSE, rev |-> 0, run |-> "none", blocks |-> {},
             att |-> 0, deleting |-> FALSE]

Ops == {"none", "add", "resume", "pause", "priority", "metadata", "recheck",
        "read", "sync", "delete", "restore", "restoreInactive"}

Steps == {"idle", "create", "stage", "commit", "activate", "saving", "probing",
          "verdict", "reconcile", "apply", "restoreVerification", "attach",
          "bind", "observe", "bindObserved", "verify", "inactive", "fail",
          "carry", "detach", "dropping", "remove"}

Commands == [op : Ops, pc : Steps, phase : Phases, err : Errors,
             epoch : Nat, fence : Fences, wver : Nat]

Idle == [op |-> "none", pc |-> "idle", phase |-> "Queued", err |-> "none",
         epoch |-> 0, fence |-> Unbound, wver |-> 0]

WorkKinds == {"probe", "sched", "meta", "stream", "watch", "save", "verify",
              "missing"}

Works == [kind : WorkKinds, hash : Hashes, gen : Nat, epoch : Nat,
          fence : Fences, slot : Nat, info : BOOLEAN]

TypeOK ==
    /\ rt \in [Hashes -> Runtimes]
    /\ db \in [Hashes -> Records]
    /\ latch \in [Hashes -> Reasons \cup {NoReason}]
    /\ cmd \in [Hashes -> Commands]
    /\ work \in SUBSET Works
    /\ IsFiniteSet(work)
    /\ life \in {"up", "closing"}
    /\ boot \in SUBSET Hashes

-----------------------------------------------------------------------------
\* Tokens.

\* The least number not in a finite set of numbers.
Fresh(used) == CHOOSE n \in 0 .. Cardinality(used) : n \notin used

WorkOf(h, g) == {w \in work : w.hash = h /\ w.gen = g}

\* Gives the changed tokens of h's next runtime r names no captured value has.
Settle(h, r) ==
    LET held == WorkOf(h, r.gen)
    IN  [r EXCEPT !.epoch = IF @ = rt[h].epoch /\ r.gen = rt[h].gen THEN @
                            ELSE Fresh({w.epoch : w \in held}
                                         \cup {cmd[h].epoch}),
                  !.slotToken =
                      IF @ = rt[h].slotToken THEN @
                      ELSE Fresh({w.slot : w \in held})]

\* Mutated forms of Current: the pointer check, or the context, is forgotten.
CurrentOfAnyGeneration(w) == life = "up"


\* currentTorrent: the engine runs and w belongs to the published generation.
Current(w) == life = "up" /\ w.gen = rt[w.hash].gen

\* The common test of a result: same generation, policy epoch and fence.
Unchanged(w) ==
    /\ Current(w)
    /\ w.epoch = rt[w.hash].epoch
    /\ w.fence = rt[w.hash].fence

Managed(h) == life = "up" /\ rt[h].gen # 0

\* The ways an operation of this kind may end.
Outcomes(kind) == IF kind \in Failures THEN BOOLEAN ELSE {TRUE}

-----------------------------------------------------------------------------
\* What one accepted event and its effects do to a runtime.

\* applyStateEventLocked.
Event(r, d) ==
    [r EXCEPT !.policy = d.policy,
              !.epoch = IF d.policy = r.policy THEN @ ELSE @ + 1,
              !.started = @ /\ ~d.resetDownload,
              !.applied = IF d.invalidateApplied THEN 0 ELSE @]

\* applyQuiesceLocked: both gates by the decision.
Quiesce(r, d) ==
    [Event(r, d) EXCEPT !.down = @ /\ ~d.closePayload,
                        !.up = @ /\ ~d.closeUpload]

\* The tail of activation and of a completed check: upload may reopen.
Reopen(r, d) ==
    [Quiesce(r, d) EXCEPT !.up = @ \/ (d.allowUpload /\ ~BTNoUpload)]

\* quiesceFaultLocked, the runtime half: the fault, both gates, and the key
\* that a first binding carries forward.
Fault(r, kind) ==
    [Quiesce(r, Faulted(r.policy, {kind})) EXCEPT !.safety = @ \cup {kind}]

ApplyFailed(r) == Quiesce(r, Faulted(r.policy, {}))

\* Mutated form of Background: any reader keeps the gate open.
BackgroundForReaders(r, d) ==
    [Event(r, d) EXCEPT !.down = @ /\ ~(d.closeBackground /\ r.readers = {})]

\* applyBackgroundReleaseLocked: an active stream keeps the payload gate open.
Background(r, d) ==
    [Event(r, d) EXCEPT
        !.down = @ /\ ~(d.closeBackground /\ "stream" \notin r.readers)]

\* Mutated form of BlockDownload: the flag outlives the reason it was set for.
BlockDownloadSticky(r, reason, saved) ==
    [Event(r, DiskBlocked(r.policy, reason)) EXCEPT
        !.down = FALSE, !.persisted = @ \/ saved]

\* blockDownloadLocked, the runtime half.  The row is written only when the
\* reason is new or the last write failed; saved is that write's outcome.
BlockDownload(r, reason, saved) ==
    [Event(r, DiskBlocked(r.policy, reason)) EXCEPT
        !.down = FALSE,
        !.persisted = (@ /\ r.policy.disk = reason) \/ saved]

BlockRow(r, reason, saved, row) ==
    IF saved /\ ~(r.persisted /\ r.policy.disk = reason) THEN reason ELSE row

-----------------------------------------------------------------------------
\* Fenced database writers.

\* PutActivationBlock and ClearActivationBlock act under the exact fence.
ExactFence(d, f) == d.exists /\ f.att # 0 /\ d.rev = f.rev /\ d.att = f.att

\* PutRuntimeSafetyBlock also accepts a later revision of the same attachment.
SafetyFence(d, f) == d.exists /\ f.att # 0 /\ d.rev >= f.rev /\ d.att = f.att

\* Mutated form of PutBlock: only the safety kinds are stored.
PutSafetyBlock(d, kind) ==
    IF kind \in SafetyKinds THEN [d EXCEPT !.blocks = @ \cup {kind}] ELSE d

PutBlock(d, kind) == [d EXCEPT !.blocks = @ \cup {kind}]

\* persistSafetyFaultLocked, the database half.
SafetyRow(r, d, kind, saved) ==
    IF saved /\ SafetyFence(d, r.fence) THEN PutBlock(d, kind) ELSE d

-----------------------------------------------------------------------------
\* Moving the command of a record on.

Enter(h, op, step, phase) ==
    cmd' = [cmd EXCEPT ![h] = [Idle EXCEPT !.op = op, !.pc = step,
                                           !.phase = phase]]

Goto(h, step) == Enter(h, cmd[h].op, step, "Queued")

Finish(h) == cmd' = [cmd EXCEPT ![h] = Idle]

At(h, step) == cmd[h].pc = step
=============================================================================
