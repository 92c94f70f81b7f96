# Syntroph in TLA+

Syntroph closes an engineering session into an immutable *Session Diary*, keeps
it in a local memory store, mirrors it to one remote object (a GitHub Issue or a
Wiki page), and recovers interrupted work through explicit commands. Several
`syntroph` processes may run at once on one data root, any of them may crash
between two steps, and the remote side is edited by people. There is no daemon:
everything that must survive is in files, and everything that happens happens
because somebody ran a command.

This directory models that behaviour, checks it with TLC on small instances and
proves the safety of it with TLAPS for every instance. Source paths below are relative
to `src/`.

## 1. Inventory

| Part | State it keeps | Operations | What is hard about it |
|---|---|---|---|
| Mirror Locks (`storage/recovery.go`, `storage/process_*.go`) | `locks/<key>.lock` with an owner record | `Acquire`, `Release`, `ClearOrphan` | every file-system call interleaves with other processes; check-then-unlink; PID reuse; crash before the record is written |
| Managed mirror (`storage/recovery.go`) | Remote Binding, Conflict Snapshots | `Mirror`, `Recover`, `Resolve` around one lock | three durable writes after a remote effect, a crash or an error between any two |
| GitHub Issues semantics (`adapters/githubissues/issues_semantics.go`, `rest.go`) | Issues, comments (remote) | create, provisional binding, close, scan, compare, correct | lost answers, re-sent requests, edits between read and write, redelivered decisions |
| Issues over MCP (`mcp.go`, `mcp_client.go`) | child process, pending requests | same semantics over JSON-RPC on stdio | time-outs, late answers, restart, shutdown |
| GitHub Wiki (`adapters/githubwiki/wiki.go`) | git repository (remote), clone | clone, compare, commit, push, keep modes | push races, lost push answers, head of the repository compared for one page |
| Session close (`core/session.go`) | memory store (one file per diary) | `Close` | idempotent resubmission, crash between diary, events, effect and outcome |
| Saga Journal (`core/journal.go`), Event Bus (`core/bus.go`) | append-only file per saga | append, read, publish with handlers | torn writes, order of appends of several processes, failing handlers |
| Recovery View (`core/recovery.go`) | none: a fold over the journal | `InspectRecovery` | late outcomes reopen or settle obligations |
| CLI sync commands (`cmd/syntroph/main.go`) | none | `sync retry`, `sync resolve`, `sync recovery --clear-lock` | read, decide and act with other commands in between |
| Graph port (`core/graph.go`, `adapters/graphify`) | graph snapshots, active pointer | publish, retry | a failure must keep the last valid graph |
| Skill journal and records (`core/skill_*.go`) | skill sagas, artifacts | prepare, reconcile at close, link | replays beside each other and beside closes, a crash between port, attempt and event |
| Skill catalog (`adapters/skillfilesystem`) | lock, staging area, object store, index | synchronise, inspect, recover | crash at every checkpoint; index must name complete bundles |
| Configuration, CLI wiring, validation, rendering | none | parsing, printing | nothing a model checker adds to |

Interactions: a command calls `SessionCloser.Close` or a `sync` function; those
append to the Saga Journal and call the Storage Port; the port's adapter
(`adapters/storageadapter/core_adapter.go`) calls the managed mirror, which takes the Mirror
Lock, runs the provider's semantics against the remote, writes binding and
snapshot and releases the lock; the result returns to the command, which
journals it. Commands meet only in the files (journal, memory store, lock,
binding, snapshots) and at the remote.

What makes each part correct: locks exclude, release their own and can be
recovered (up to a race that the code has, see `robbed` below); a binding keeps its identity; conflicts keep their evidence until
the user decides, on what was displayed; effects are journaled before they
happen; obligations settle if retried; redelivery repeats no effect; snapshots,
graphs and catalogs are replaced as a whole or not at all. The list of hazards,
each at its line, is `hazards` of PROJECT.json.

## 2. Modules

    MirrorOwnership         what a lock promises (abstract); its theorem is inside
      ^ implemented by (refinement mappings, checked and proved)
    MirrorLocks             the lock-file protocol of Mirror Locks, one action per
                            system call                      MirrorLocksProofs
    SkillCatalog            synchronisation and recovery of the Skill Catalog; its
                            lock implements MirrorOwnership too
                                                             SkillCatalogProofs

    MirrorObligation        what a closed session is promised of its mirror (abstract)
      ^ implemented by StorageSync and WikiSync (refinement mappings, checked and proved)

    ManagedMirror           one call of ManagedMirror.run, for any provider
      ^ extended by
    IssuesMirror            ... around the GitHub Issues semantics
    WikiMirror              ... around the GitHub Wiki's clone, compare and push
    StorageCommands         close, retry, resolve over journal, memory store and a
                            managed mirror, for any provider
    StorageSync             = StorageCommands + IssuesMirror   StorageSyncProofs
    WikiSync                = StorageCommands + WikiMirror     WikiSyncProofs

    McpClient               provider, client, read loops and children of the MCP
                            transport of GitHub Issues         McpClientProofs
    GraphSync               closes, retries and exports over the code graph
                                                               GraphSyncProofs
    SkillInvocations        preparations, session closes and the saga they share
                                                               SkillInvocationsProofs

`MCStorageSync` and `MCSkillInvocations` add the symmetry sets of two runs, nothing
else. Each specification has a section "Faulty variants": changed forms of its own
actions, used only to show that a property notices the change.

Where components meet: `StorageCommands` and the mirrors are composed by
extension and share the program counters of a call (`at`) and of a command (`cmd`).
The lock is one variable in `ManagedMirror`: that the lock files behave like it, as
long as nobody is robbed, is what `MirrorLocks` is shown to implement; a clear-lock that
is overtaken (below) is not part of the compositions, so what they show of the storage
side holds where no lock is robbed. `SkillInvocations` takes the catalog as
an index that changes at any moment (`Sync`), which is what `SkillCatalog` shows of
it. `McpClient` says how a tool call comes to an answer or an error; in
`IssuesMirror` a request succeeds, fails before or fails after its effect, which
are the outcomes of such a call.

### MirrorOwnership, MirrorLocks

`MirrorLocks` is the file `locks/<key>.lock` as processes see it. An acquisition
draws a fresh OwnerID, and the OwnerID also names the file it creates, so an
unlinked file that its creator still writes to is a different thing from the file
now under the name (`path`). `Create`/`FindExisting` is `OpenFile` with `O_EXCL`;
`Write`/`WriteFails` the owner record; `ReadExisting` what a contended `Acquire`
does; `EndEffect`, `CheckOwner`, `Unlink` the deferred `Release`, which compares
and then unlinks; `ReadOwner`, `Probe`, `Remove` the three calls of
`ClearOrphan`. `Die` and `Start` end a process anywhere and reuse its PID: the
probe then sees a live process that is not the owner, as `kill -0` does.
Any of these may overlap: several processes mirror (`Mirrorers`) and several clear
locks (`Clearers`), in any order.

`Unlink`, `Remove` and `WriteFails` remove whatever has the lock's name, without a
second look at it. That is a race of the code: a clear-lock finds the orphan's process
dead, the orphan goes in another way and a mirror takes the key, and the removal hits
the live lock (the first finding of PROJECT.json). It is modelled, and recorded in a
history variable: `robbed` has the acquisitions whose file was removed on the account
of another. What the code keeps is stated in its terms: exclusion and the own release
hold up to robbed acquisitions, and `PreemptsOnlyInRaces` says who can rob.

`MirrorOwnership` states what is promised: at most one attempt holds the key; only
who holds it, or was robbed of it, runs the effect; and the key is only removed on the
account of an attempt that was judged to be past its effect, because it is gone or
because it is the owner itself (`Judge`, `Remove`). The mapping takes the file under
the name as the holder, and as judged whoever stands between a check and its removal.
`gone` is not in the code: it is what is true of an acquisition whose call is over.

### ManagedMirror, IssuesMirror, WikiMirror

`ManagedMirror` is `run` of `storage/recovery.go`: `Call` is the entry of
`Mirror`, `Recover` or `Resolve`; `TakeLock`, `Contended`, `AcquireFails` the lock
and the load of the binding (the binding is written only under the lock, so nothing
can change it between the two); `WriteSnapshot`, `SaveBinding`, `KeepFails`,
`Release` what `run` does with a result. `End` and `EndUnverified` choose among
them as `run` does: conflicts go to the snapshot, mirrored results to the binding,
everything else to the release, and nothing is bound to an object whose identity is
not verified. A file that is seen not to be written may be in place all the same (the
rename is done, the directory could not be synced): `KeepFails` and `SaveProvisional`
have both outcomes. A crash leaves the lock as an `orphan`, or, between the creation of
the file and its owner record, as a file without a record (`empty`), which `ClearLock`
leaves and which blocks the key.

`IssuesMirror` adds the Issues and comments. `Route` is the choice in
`issueSemantics.mirror`; `FinishExisting` and `Resolve` are the functions of the
same names; `ReadComment`/`ReadPredecessor` are `effectiveRemote`. Faults: a
request may fail before or after its effect (`RequestFails`, `CreateIssueLost`,
`CloseIssueLost`, `CreateCorrectionLost`), be answered 409 (`Refused`), a file may
not be written, the process may die (`Die`); each uses one of `MaxFaults`.
`Reposts` allows the transport's second POST after a create request whose answer
counts as transient (`rest.go:485`), of an Issue or of a correction; `resent` is the
history of the corrections that were sent again. A conflict from a 409 to the close
request has no remote content, so its snapshot is an empty file: `blanks` has the
revisions whose last snapshot is one. A text is the process that rendered it
(renderings differ in `created_at`) or the result of an edit; a revision is kind,
number, version and text, which is what `updated_at` and the content hash tell apart.

`WikiMirror` adds the branch of the Wiki's repository, `commits`: for each commit
the text of the diary's page and who pushed it. `Clone` is clone, fetch and reset
with the comparison of `apply` (`Mode`, `ComparePage` without a decision,
`CompareDecision` with one); `Push` succeeds only if the branch is where it was
cloned; `PushRejected` and `Refresh` are `refreshConflict`; `PushLost` a push whose
success is not seen. People write, edit and remove the page, or another one
(`Edit`), and make the Wiki's first page (`FirstPage`). A page without the diary's
marker is the text `unmarked`.

### StorageCommands, StorageSync, WikiSync

`session close` is `FindDiary`, `SaveDiary`, `RenameDiary`, `Publish`,
`RequestStorage`, `PrerequisiteMissing`, `CloseOutcome`, in the code's order;
`Retry`, `RetryOutcome`, `Shutdown` and `Decide`, `ResolveOutcome` are the two
`sync` commands, `ClearLock` is `sync recovery --clear-lock`. `view` is the value
of the fold that `InspectRecovery` computes, and `Observe` is one step of the fold:
as the journal is append-only and every reader folds all of it, the value determines
everything a command does. An attempt record changes only the displayed diagnostic,
so attempt and event are one step; an append that fails ends the command, as a crash
before it would. `Ends` says whether the transport has an end of command that can
fail (MCP has, the Wiki has not).

### MirrorObligation

The life of the one storage obligation of a closed session, said once for both
providers: `recorded` (a diary is in the journal), `stage` (nothing owed, due,
disputed, settled), `grounds` (the evidence a dispute points at), `effects` (objects
made for the diary), `bound` and `kept`. It is where the order of the durable writes
is a promise: record, then owe, then affect; make or keep, then bind; bind, then
settle; keep, then dispute. Steps may repeat and settled obligations may be owed again,
since the code allows both (see the findings), but the binding names one object for
ever.

The mapping of both compositions takes `recorded` from the closed diary in `view`,
`stage` and `grounds` from the fold as `InspectRecovery` displays it (`Stage`,
`Grounds` of `StorageCommands`), `kept` from the snapshots. Over Issues `effects` is
the set of marked Issues and `bound` the Issue of the binding, and there is no
evidence without identity (`Strangers` is empty). Over a Wiki there is one object, the
diary's page, made once a process of ours has pushed it; `Strangers` are the revisions
of a page without the marker, on which a dispute may rest although nothing is bound.
`Honest` is what a reader of the journal may conclude.

### SkillCatalog

`.syntroph/catalog` as several `skill sync` and `skill recovery --clear-orphan`
commands use it. `at` is the next change a command makes to the directory; its
sets `Taking`, `Working`, `Leaving` and `Recovering` are `acquireSyncLock`, `Sync`
with the lock, the deferred clean-up and `RecoverOrphanedSync`. A candidate is
complete before it has its name and is linked to `sync.lock`, so a lock, a
candidate and a staging directory are known by their OwnerID, and `pid` is what
the owner record says. `LoadPackage` is `loadPackage` up to the staged object,
`PublishObject` the rename into the store, `StageIndex` the staged index with its
verification, `PublishIndex` the function of this name, `EndWork` the start of the
deferred clean-up; `SyncFails`, `LinkFails`,
`CleanFails`, `ReleaseFails` and `RecoveryFails` are every error return with
what it leaves behind; `CheckOwner` and `Unlink` are `Release`, for both
callers. `Die` and `Start` are as in `MirrorLocks`, `EditSource` an edit of a
Skill Source at any time.

Data: a package is a name and a version of its source, which is what the package
hash tells apart; the versions in `Broken` fail validation and become Unsupported
entries. Finding all candidates is one step, and so is reading the lock's owner and probing
all owners (`ProbeOwners`; a synchronisation whose process was dead once is over, so
the order does not matter). A failure after a rename (a directory that cannot be synced) is the
rename followed by `SyncFails`. Readers (`list`, `show`, `prepare`) change
nothing in the directory; what they rely on is `IndexComplete`.

Recoveries may overlap with everything, each other included (`Syncers`,
`Recoverers`). A recovery compares the OwnerID and then removes the name, so of two
recoveries of one orphan the slower may remove the lock of a new synchronisation (see
the findings). As in `MirrorLocks`, `robbed` records whose lock that was, and
`publisher` who published the active index; what rests on the lock is stated up to
them. `IndexComplete` does not rest on the lock and holds without exception.

### McpClient

The calling goroutine (`at`), a read loop for every child that was started
(`loop`, `held`) and the children (`proc` and their pipes). `Operate`, `Finish`,
`Abandon`, `BeginCommand`, `EndCommand` are `run`, `prepare` and the command
bracket of `mcp.go`; `Start`, `CloseStdin`, `Reap`, `Reset` are `Start`, `Close`
and `reset` of the client; `Send`, `Write`, `Receive`, `ReceiveError`, `TimeOut`,
`Notify` are `call` and `notify`; `Read`, `Deliver`, `DeliverError` are `readLoop`
and `sendReadError`, which look at the client's channels when they send, not when
they were started. When a child is reaped, a prefix of what it wrote may still be
in the scanner of its read loop, which goes on delivering it (`Reap`). `Again` bounds
how many requests TLC explores; the code bounds no listing. A child takes requests, answers them in any order, twice or
never, writes notifications and garbage and exits when it likes; nothing it writes
has to do with the protocol. A child is known by its era, so that a message of a
replaced child can be told from one of the current child, which the code cannot.

### GraphSync

`Close`, `Resolve`, `SaveDiary`, `Publish` are the graph side of `session close`
(`resolveCodeReferences`), `Retry`, `RetryResolve`, `JournalAttempt` are
`retryGraph`, and `StoreSnapshot`, `Activate`, `PublishFails` are
`LocalGraphPort.Publish` for both: the file of the snapshot, then the pointer.
`Resolve` has the outcomes of `resolveCodeReferences`: no port, an error of the port
(`Unreadable`), no usable graph, references found and not found.
`Export` is the tool outside that publishes a graph of the code. A snapshot's hash
is its content, so the content is its own address.

### SkillInvocations

`Begin` to `PrepareEnds` are `SkillPreparer.Prepare` with one action for each append
and one for the port; `PortPrepare` chooses between a Catalog of its own (each
command) and one that other callers share (`known`, what `Catalog.Prepare` keeps
while its index stays the same). `Close` to `CloseEnds` are what a session close does
about a declared record: `Verdict` is the reconciliation with the saga,
`RenameDiary` the saved diary, `Link` the event in the invocation's saga. The
arguments are `none`, `text` or `number`: `Journaled` and `Normalized` are the two
decodings that a number goes through.

## 3. Runs

| Run | Asks | Result |
|---|---|---|
| `mirror_locks` | exclusion and own release up to robbery, who can rob, refinement, calls return, orphans go | holds |
| `storage_sync` | accounted effects, evidence, corrections, cost of duplicates, refinement, over Issues | holds |
| `storage_sync_live` | do obligations settle? | holds under fairness |
| `storage_sync_duplicate` | one Issue per diary? | violated: crash or lost answer before the provisional binding |
| `storage_sync_stale` | are conflicts settled explicitly only? | violated: late success of a close |
| `wiki_sync` | nothing lost, forward bindings, strangers, refinement, over a Wiki | holds |
| `mcp_client` | answers, negotiation, reaping, requests return | holds |
| `skill_catalog` | complete index; no older index and reachable staging up to robbery; refinement, orphans go | holds |
| `skill_invocations` | explained bundles, evidence, links, replays | holds |
| `skill_invocations_faithful` | does a faithful record pass? | violated: a numeric argument |
| `graph_sync` | stored pointer, provenance, publication | holds |
| `graph_sync_confidence` | is a confidence earned? | violated: a resolution resolves the next |

The violated properties quote the repository's documents; PROJECT.json `findings`
has the lines and the scenario of each, and of further disagreements that are plain
from the models (a clear-lock that removes a live lock or stops at an empty one, a
create request that the transport sends twice, a conflict with an empty snapshot, a
retry that reopens a settled saga, a crash before the intent, two catalog recoveries
at once, a graph retry that is never settled, an end of file that reaches the wrong
child, ...) and have no run of their own.

What the properties say. Each relates several parts that no single component sees.

- `mirror_locks`. `MutualExclusion`: two processes run the effect only if one was
  robbed. `ReleasesItsOwn`: who was not robbed finds its own lock at the release.
  `PreemptsOnlyInRaces`: the owner a clear-lock judged is over when it removes the
  file, and a lock is robbed only by a clear-lock that was overtaken or by a call that
  was robbed itself. `ImplementsOwnership`, `CallsReturn`, and `OrphanCleared`: a
  complete record of a dead process goes away, unless its PID is in use again.
  `storage_sync_live` asks `ObligationsSettle`, with the one exception of a crash that
  left an empty lock.
- `storage_sync`. `EffectsAreAccountedFor`: an Issue exists only if the saga is
  listed, or is settled and bound. `ConflictHasEvidence`: a listed conflict has its
  snapshot and a binding, and the snapshot has the content whenever people wrote it.
  `CorrectionsSupersedeKept`: a correction supersedes only a version that was kept in
  a snapshot. `CorrectionsAreUnique`: no two corrections of one version say the same,
  unless people edited them to or the transport sent that correction twice. `DuplicatesCostFaults`: every Issue beyond the first
  has a fault of its own, however many commands run side by side.
  `ImplementsObligation`: every step is one of `MirrorObligation`, so intent comes
  before effect, binding before success, evidence before conflict, and the binding
  does not move to another Issue.
- `wiki_sync`. `ReplacesOnlyKept`: a push replaces a page only if the page at that
  very head was kept. `BindingAdvances`: the bound head never goes back.
  `ImplementsObligation` as above; a page of unverified identity may be disputed and
  stays unbound.
  `StrangersStayUnbound`: a page without the marker is bound by a decision only.
- `mcp_client`. `AnswersMatch`: a message under the identifier that is waited for
  answers that request. `EffectsNegotiated`: the child whose tool is called has itself
  been negotiated with. `ChildrenReaped`: one child at a time, none left over when
  the operation or the command that started it is over. `RequestsReturn`: no step of an
  operation lasts for ever; it ends or sends one more request (how many is up to the
  server, see the hazards).
- `skill_catalog`. `IndexComplete`: what the active index calls Ready is in the
  store, whole. `IndexAdvances`: no package goes back to an older version than was
  published. `StagingIsReachable`: what is left in the staging area is named by the
  lock, the only place recovery looks. Both except synchronisations that were robbed. `OrphansRecovered`: what a dead command left
  goes away, unless the PID in it, or in something else that was left, is in use.
- `skill_invocations`. `DeliveredIsExplained`: a bundle was given away only after
  its request, its attempt and itself were journaled, in this order.
  `VerifiedHasEvidence`: what a diary calls journal-verified agrees with the saga.
  `LinksLeadToDiaries`, `ReplaysReturnTheirBundle`.
- `graph_sync`. `ActiveIsStored`: the pointer names a stored snapshot.
  `ProvenanceHolds`: a diary keeps the snapshot that resolved it, of its commit.
  `ReadyIsPublished`: a diary that says ready was pushed.

Bounds. They are as small as the interesting cases allow, as the proofs cover every
larger instance of the safety properties. `mirror_locks`: of three processes two
mirror and two clear locks, one of them both; three OwnerIDs are three generations of
the lock: an orphan, the acquisition that is robbed in its place, and the one that
takes the key beside it. `storage_sync`: two processes, one human
edit and one fault (a crash, a lost answer or a file that is not written) with every
interleaving of the two; `MaxIssues` is 3, one more than a fault can make,
`MaxComments` 2 (3 in the liveness
run), the two corrections that must not be equal; `Reposts` is on, so that the fault can
be a request that was sent twice. The edit of the safety run keeps the diary marker.
The liveness run has the same fault and, to keep the graph that TLC searches for cycles
small, no edit. `wiki_sync`: one edit, which writes the page as a person or a
stranger, changes it or removes it; two faults, so that a push that was lost can be
followed by a crash; one process closes, both retry and resolve. `mcp_client`: two
children are a replaced one and its successor; channel and pipes hold one line, so
that each of them is full in some state; one message of noise is a repeated answer, a
notification or garbage; three requests (`Again`) allow a second page or a second
tool call. `skill_catalog`: two synchronisations that may overlap with each other and
with two recoveries, of one of their processes and of a third, one crash or failed
recovery, and one package
with two versions, of which the second is invalid; packages only meet in the index,
which is replaced whole. `skill_invocations`: two preparations and one close of one
invocation, the index going away and coming back, two faults; `number` is left to the
run that shows its divergence. `graph_sync`: two closes and a retry over two commits
and one name, so that a snapshot of the wrong commit is there; two exports, two
faults. Symmetry (exchange of processes) is used only in runs without liveness.
Deadlock is not checked: the systems may stop when nothing is due.

Fairness. In `MirrorLocks` a call that is under way goes on (none of its steps
waits for another process), and operators repeat clear-lock while an orphan is
there, from whichever process; that not every repetition is ended by a crash is strong
fairness of its steps. In `StorageSync` a running command goes on, somebody retries while a
retry is due, and clears the orphaned lock if it has a record; the last two are what the documents
ask of the operator (`sync recovery` prints them as next actions), as the code does
nothing by itself. In `SkillCatalog` a command under way goes on, and the processes
in `Recoverers` repeat the recovery that a refused synchronisation asks for; nobody
has to synchronise. In `McpClient` the calling goroutine runs, deadlines pass, and a
child that runs reads its input: without the last the code waits for ever in `Write`,
which has no deadline. Children need not answer or exit, and read loops need not run.
Faults have no fairness and are bounded.

## 4. Proofs

Every safety property of a passing run is proved for all values of its
constants, under the named assumptions only, and so is every refinement.
`MirrorOwnership` proves `OwnershipIsExclusive` of itself. Each proof module has the inductive invariant
(`IInv` or its parts), a lemma that the initial states satisfy it, step lemmas with one
case per action, and the theorems. The constants' assumptions say that sets of
identifiers do not overlap (`None`, `orphan`, `unmarked` are not processes or texts),
that bounds are numbers, and (`RevisionAssumption`) that `None` is not itself a
revision.

**MirrorLocksProofs.** `TypeCorrect`, `EffectIsExclusive`, `ReleaseIsOwn`,
`ClearIsSafe` and `LocksImplementOwnership`, that is `Spec => Ownership!Spec`, for any
sets of mirroring and clearing processes that overlap in any way. That two processes
are not both in the effect does not say why the file's name belongs to the one that is.
The invariant adds `OwnInv` (a process has an OwnerID exactly while it holds a file,
and the record has its own PID), `PathInv` (the file of a process that is writing, in
the effect or releasing *is* the file under the name, or it was robbed; and a file that
was removed does not come back) and `ClearInv` (a clear-lock has read a complete record,
and between probe and removal that acquisition is over). The refinement uses the
invariant on both ends of a step.

**SkillCatalogProofs.** `TypeCorrect`, `IndexIsComplete`, `StagingStaysReachable`,
`IndexOnlyAdvances` and `CatalogImplementsOwnership`, for any number of overlapping
synchronisations and recoveries. `StoreInv` alone gives `IndexIsComplete`: objects
appear whole, and an index is published once its objects are there. The invariant of
the others has five parts besides the types. `IdInv`: an OwnerID belongs to the process
that drew it. `LockInv`: from the link to the unlink the lock holds the
synchronisation's own OwnerID, or it was robbed. `RecoveryInv`: after its probe the
synchronisation that a recovery found is over for good. `StagingInv`: nothing is staged
under an OwnerID before `make_staging` and once its lock may be released. `IndexInv`:
what a synchronisation has loaded is no older than the published index, unless it or the
publisher was robbed, and no newer than the sources.

**StorageSyncProofs.** `TypeCorrect`, `EffectsAreRemembered`, `ConflictsAreEvident`,
`CorrectionsAreDecided`, `BindingIsFaithful`, for any number of processes, Issues,
edits and faults; and `CorrectionsAreTakenOver`, whether or not the transport sends
create requests again (two comments of one request are equal, as the second POST
follows the first without a look for it, and `resent` names them). A call reads, decides and writes
in steps with other processes and people in between; why may it still rely on what it
read? Remote objects are never removed and never change their Issue, so what is known
of them (`Known`) and which of them belong to one Issue (`Akin`) only grows; the
binding and the comments of the program are written under the lock (`LockInv`: who is
between acquiring and releasing is the holder); and no edit says what a process says
(`Unsaid`, the predecessor has no correction by this text, or it was sent again). `CallInv` has what each
step of a call knows in these terms, `StoreInv` what the files, the journal and the
comments say of the remote.

Three more results stand on that invariant, each with a strengthening of its own.

- `IssuesKeepThePromise` (`Spec => Promise!Spec`): what a step of a call means for the
  promise is in `CallInv` already (a call under way belongs to an obligation, a result
  `mirrored` means that the binding is written, a conflict that it is kept). What it
  lacks is the order in the journal: `SagaInv` says that a saga that owes a mirror has
  recorded a diary, that a command about to journal an intent has recorded one, and
  that a command which journals that the storage is not ready, or fails at its end,
  has an obligation. `JournalIsHonest` is the corollary that a reader of the journal
  relies on; `BindingIsFaithful` and `ConflictsAreEvident` stay as theorems of their
  own.
- `DuplicatesAreCounted`: that there is at most one Issue per fault, plus one, is not
  inductive, because a process may create one while nothing is bound. `CostInv` says
  why it may: either there is an Issue fewer than that, or the last one is bound or its
  maker is about to bind it (`Covered`), and both exclude another creation, the one
  because a binding routes every call to its Issue, the other because its maker has the
  lock. `FaultsAloneDuplicate` is the case of no fault, where the code's documents are
  right: the run `storage_sync_duplicate` needs one.
- `KeysAreGivenBack`: a process has the lock exactly in the middle of its call.
  `LockInv` has one direction, `HolderInv` the other: none of the many early returns
  of a call leaves the key locked by a living process.

**WikiSyncProofs.** `TypeCorrect`, `EditsAreKept`, `ConflictsAreEvident`,
`BindingGoesForward`, `StrangersAreLeftAlone`. The history only grows, so a cloned head
stays a commit of it (`Heads`), and a revision that a result carries is one of its
heads or the refreshed head of a page that has gone (`Faithful`). `CallInv` keeps that a
push follows a comparison in which the page was absent or had been kept, and
the fast-forward condition carries that to the commit it replaces.
`WikiKeepsThePromise`, `JournalIsHonest` and `KeysAreGivenBack` are as above; here
the refinement needs `PromiseInv`: `SagaInv`; `DeliverInv`, that a call under way
belongs to an obligation, that what it is about to bind was pushed or is kept, and that
a result `mirrored` means that the binding is written; that a settled obligation is
bound; and `PageInv`, that a page which says what a process says was pushed by one, so
that a page found equal to the rendered diary may be bound without a push.

**McpClientProofs.** `TypeCorrect`, `AnswersAreMatched`, `EffectsAreNegotiated`,
`ChildrenAreReaped`, for any number of children, operations, messages and sizes. A
message that carries the identifier waited for could come from an older child; the
invariant says of every message, wherever it is (stdin, taken, stdout, held by a loop, in
the channel), that its identifier was drawn and that under the current identifier there
is the current call only (`MessageInv`), which `reset` keeps as it keeps `nextID`.
`StageInv` and `LifeInv` tie the program counter to the child that runs, `NegotiationInv`
to what that child has answered, `RoomInv` the channels to their child.

**GraphSyncProofs.** `TypeCorrect`, `ActiveStaysStored`, `DiariesKeepProvenance`,
`ReadyWasPublished`. `DraftInv`: what a process carries retains its snapshot;
`PublishInv`: between the two steps of a publication the snapshot is in the store, and
from then on a ready diary is published; `JobInv`: a retry has a saga that is listed.

**SkillInvocationsProofs.** `TypeCorrect`, `DeliveriesAreExplained`,
`VerificationIsEvident`, `LinksAreSound`, `ReplaysAreStable`. Journals are append-only
(`SagasGrow`), so what they vouch for stays; `PreparationsInv` says what the saga has at
each step of a preparation, `ClosesInv` what a close may rely on although replays go on.

Only model-checked: liveness (the prover has no ENABLED), that is `CallsReturn`,
`OrphanCleared`, `ObligationsSettle`, `OrphansRecovered`, `RequestsReturn`.

## 5. What is left out

- In the storage compositions: a clear-lock that removes a live lock. `ClearLock` is one
  step there; the race and its reach are in `MirrorLocks`.
- The failure of `Release` and of `ClearOrphan` by an error of the file system other
  than a name that has gone; `Release`'s is ignored by the code.
- Whether a comment advances its Issue's `updated_at`: `CommentTouches` is there,
  the runs take FALSE, as the repository's fakes behave.
- In `Retry`, the error path without any state change (`retryErr`), and sagas
  other than the one modelled: sagas share no state but the process's lifetime.
- The `Status` operation of the mirrors: it takes no lock and changes nothing.
- Rate limits, pagination, rendering, redaction, configuration, output: conversions.
- In the catalog: what makes a package valid and its hash; temporary files that a
  crash leaves beside the ones modelled; a candidate whose name cannot be removed
  after it was linked; the Windows variants of link and rename.
- In the MCP transport: what the tools' schemas and results say; the semantics behind
  the calls is `IssuesMirror`.
- In the graph: the Graphify adapter, which reads one file and changes nothing.
- In the skill journal: runtime artifacts (one look at the file system) and the
  started and completed events, which no part of the program emits.
- The event bus: the program publishes one event and subscribes no handler, so a
  publication is the journal append of the `Publish` actions.
- The bytes of a journal file: an append is one step. That a torn last line stops
  every listing is a hazard without a property.
- Parts with status `not_modelled` in PROJECT.json, with the reason.

## 6. What is next

1. **Journal**: an append as bytes, a torn last line and what listing does with it.
2. A composition of `McpClient` with the calls of `IssuesMirror`, a failed
   `EndCommand` included, in place of the `Ends` choice.
