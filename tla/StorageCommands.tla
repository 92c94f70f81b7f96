--------------------------- MODULE StorageCommands ---------------------------
(***************************************************************************)
(* The storage side of one session's saga: `session close` of              *)
(* core/session.go, and `sync retry --storage`, `sync resolve` and         *)
(* `sync recovery --clear-lock` of cmd/syntroph/main.go, run by several     *)
(* processes over one memory store, one Saga Journal and a managed mirror. *)
(* StorageSync puts them over GitHub Issues, WikiSync over a GitHub Wiki;   *)
(* the actions here say nothing of the remote side.                        *)
(*                                                                         *)
(* The journal is append-only and every command reads it through           *)
(* InspectRecovery, a left fold over its records; `view` is the value of   *)
(* that fold for the saga. Attempts of the storage handlers change only    *)
(* the diagnostic that is displayed, so an attempt and the event appended  *)
(* after it are one step: a crash between them leaves what a crash before  *)
(* them leaves, and so does an append that fails.                          *)
(***************************************************************************)

EXTENDS ManagedMirror

CONSTANTS
  Closers, \* the processes that close the session
  Ends     \* whether the transport has an end of command that can fail (MCP)

ASSUME CommandsAssumption == Closers \subseteq Proc /\ Ends \in BOOLEAN

VARIABLES
  diary,  \* the rendering in the memory store, or None
  view,   \* what InspectRecovery makes of the journal
  cmd     \* the next step of the process's command

commandVars == <<diary, view, cmd>>

-----------------------------------------------------------------------------
(* InspectRecovery *)

EmptyView == [closed |-> None, storage |-> None, settled |-> FALSE]

\* Faulty variant: an intent without a state is taken as it is.
ObligationStateless(s) == [state |-> "", rev |-> None]

\* The storage result that an event carries, as far as recovery depends on it.
Obligation(s) == [state |-> s, rev |-> None]
Carried(r) == [state |-> r.state,
               rev |-> IF r.state = "conflict" THEN r.rev ELSE None]

\* One more record: the first session.closed gives the diary, the last storage
\* event the state; "succeeded" and "resolved" settle it, the others reopen it.
Observe(v, type, content) ==
  CASE type = "session.closed" ->
         IF v.closed = None THEN [v EXCEPT !.closed = content] ELSE v
    [] type \in {"storage.sync.succeeded", "storage.sync.resolved"} ->
         [v EXCEPT !.storage = content, !.settled = TRUE]
    [] type \in {"storage.sync.requested", "storage.sync.pending",
                 "storage.sync.conflict", "storage.prerequisite.missing"} ->
         [v EXCEPT !.storage = content, !.settled = FALSE]
    [] OTHER -> v

StorageEventType(s) ==
  CASE s = "mirrored" -> "storage.sync.succeeded"
    [] s = "conflict" -> "storage.sync.conflict"
    [] s = "prerequisite" -> "storage.prerequisite.missing"
    [] OTHER -> "storage.sync.pending"

\* The saga has a recovery item with the storage state s.
Listed(s) == view.storage # None /\ ~view.settled /\ view.storage.state = s
Retryable == Listed("pending") \/ Listed("prerequisite")

\* The stage of the obligation that the journal shows, and what a conflict is on.
Stage ==
  CASE view.storage = None -> "none"
    [] view.storage # None /\ view.settled -> "settled"
    [] Listed("conflict") -> "disputed"
    [] OTHER -> "due"
Grounds == IF Stage = "disputed" THEN view.storage.rev ELSE None

Journal(type, content) == view' = Observe(view, type, content)
JournalResult(r) == Journal(StorageEventType(r.state), Carried(r))

Then(p, step) == cmd' = [cmd EXCEPT ![p] = step]
During(p, step) == cmd[p] = step
Done(p) == at[p] = "done"

CommandInit ==
  /\ diary = None
  /\ view = EmptyView
  /\ cmd = [p \in Proc |-> "idle"]

-----------------------------------------------------------------------------
(* A faulty variant: what the properties are there to catch. *)

\* The mirror runs before its intent is in the journal.
RequestStorageLate(p) ==
  /\ During(p, "intent")
  /\ Then(p, "mirror")
  /\ Call(p, "mirror", p, None)
  /\ UNCHANGED <<diary, view>>

-----------------------------------------------------------------------------
(* session close *)

\* FindByIdempotencyKey; a diary that is there is returned and nothing is done.
FindDiary(p) ==
  /\ p \in Closers
  /\ During(p, "idle")
  /\ diary = None
  /\ Then(p, "save")
  /\ UNCHANGED <<managedVars, diary, view>>

\* SaveDiary looks for the file: the same key there counts as saved.
SaveDiary(p) ==
  /\ During(p, "save")
  /\ Then(p, IF diary = None THEN "rename" ELSE "publish")
  /\ UNCHANGED <<managedVars, diary, view>>

\* It renames its own rendering into place, whatever is there by now.
RenameDiary(p) ==
  /\ During(p, "rename")
  /\ diary' = p
  /\ Then(p, "publish")
  /\ UNCHANGED <<managedVars, view>>

\* Publish journals session.closed with the diary of this process.
Publish(p) ==
  /\ During(p, "publish")
  /\ Journal("session.closed", p)
  /\ Then(p, "intent")
  /\ UNCHANGED <<managedVars, diary>>

\* The intent is journaled after the preflight and before any remote effect.
RequestStorage(p) ==
  /\ During(p, "intent")
  /\ Journal("storage.sync.requested", Obligation("pending"))
  /\ \/ Then(p, "mirror") /\ Call(p, "mirror", p, None)
     \/ Then(p, "unready") /\ UNCHANGED managedVars
  /\ UNCHANGED diary

\* The preflight was not ready: the mirror is left out.
PrerequisiteMissing(p) ==
  /\ During(p, "unready")
  /\ Journal("storage.prerequisite.missing", Obligation("prerequisite"))
  /\ Then(p, "idle")
  /\ UNCHANGED <<managedVars, diary>>

\* The outcome of the mirror; of an attempt that found another in progress
\* only the skipped attempt is journaled.
CloseOutcome(p) ==
  /\ During(p, "mirror") /\ Done(p)
  /\ IF result[p].busy THEN UNCHANGED view ELSE JournalResult(result[p])
  /\ Return(p)
  /\ Then(p, "idle")
  /\ UNCHANGED <<store, bounds, diary>>

-----------------------------------------------------------------------------
(* sync retry --storage *)

\* The items are inspected, the retry is journaled and recovery is called.
Retry(p) ==
  /\ During(p, "idle")
  /\ Retryable
  /\ view.closed # None
  /\ Call(p, "recover", view.closed, None)
  /\ Then(p, "retry")
  /\ UNCHANGED <<diary, view>>

RetryOutcome(p) ==
  /\ During(p, "retry") /\ Done(p)
  /\ JournalResult(result[p])
  /\ Return(p)
  /\ Then(p, "shutdown")
  /\ UNCHANGED <<store, bounds, diary>>

\* EndCommand of an MCP transport; its failure is journaled as pending for
\* every saga the command retried.
Shutdown(p) ==
  /\ During(p, "shutdown")
  /\ \/ UNCHANGED <<view, bounds>>
     \/ Ends /\ Fault /\ Journal("storage.sync.pending", Obligation("pending"))
  /\ Then(p, "idle")
  /\ UNCHANGED <<store, at, request, got, result, diary>>

-----------------------------------------------------------------------------
(* sync resolve *)

\* The journaled conflict is displayed with its snapshot and decided on.
Decide(p, choice) ==
  /\ During(p, "idle")
  /\ view.closed # None
  /\ Listed("conflict")
  /\ view.storage.rev \in snapshots
  /\ Call(p, choice, view.closed, view.storage.rev)
  /\ Then(p, "resolve")
  /\ UNCHANGED <<diary, view>>

ResolveOutcome(p) ==
  /\ During(p, "resolve") /\ Done(p)
  /\ IF result[p].state = "mirrored"
     THEN Journal("storage.sync.resolved", Carried(result[p]))
     ELSE JournalResult(result[p])
  /\ Return(p)
  /\ Then(p, "idle")
  /\ UNCHANGED <<store, bounds, diary>>

-----------------------------------------------------------------------------
(* The commands of a process *)

Crash(p) ==
  /\ ~During(p, "idle")
  /\ Die(p)
  /\ Then(p, "idle")
  /\ UNCHANGED <<diary, view>>

\* What a running command does next, apart from the steps of its call.
CommandStep(p) ==
  \/ SaveDiary(p) \/ RenameDiary(p) \/ Publish(p) \/ RequestStorage(p)
  \/ PrerequisiteMissing(p) \/ CloseOutcome(p)
  \/ RetryOutcome(p) \/ Shutdown(p) \/ ResolveOutcome(p)

\* What a user or another program may begin, and what may end a process.
Begin(p) ==
  \/ FindDiary(p) \/ Retry(p) \/ Crash(p)
  \/ \E choice \in Resolutions : Decide(p, choice)

-----------------------------------------------------------------------------
CommandsTyped ==
  /\ diary \in Proc \cup {None}
  /\ view.closed \in Proc \cup {None} /\ view.settled \in BOOLEAN
  /\ cmd \in [Proc -> {"idle", "save", "rename", "publish", "intent", "mirror", "unready",
                       "retry", "shutdown", "resolve"}]
=============================================================================
