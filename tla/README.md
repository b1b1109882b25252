# TLA+ specification of Privacy HUD

Privacy HUD watches what a Codex session sends out: hooks report every prompt,
tool call and compaction to a daemon, which finds sensitive values, holds
prompts that carry credentials until the user confirms them, accounts what
crossed to whom in an SQLite ledger, and shows a percentage. This directory
models the stateful core of it in TLA+, checks small instances with TLC and
proves with TLAPS, for instances of any size, every safety property the passing
runs check. Every definition is translated from the Python source under
`src/src/privacy_hud`; `PROJECT.json` maps each one to its lines.

1. [The system](#the-system)
2. [What is hard about it](#what-is-hard-about-it)
3. [The modules](#the-modules)
4. [The runs](#the-runs)
5. [The proofs](#the-proofs)
6. [What the checks found](#what-the-checks-found)
7. [What is not modelled](#what-is-not-modelled)
8. [Plan](#plan)
9. [Running it](#running-it)

## The system

```
 Codex ──hook──▶ hooks/handler.py ──socket──▶ daemon ──▶ ledger (SQLite)
                 (one process each)           │  worker threads,
                                              │  one State.lock
                                              ├──▶ HUD snapshot files ──▶ status line
                                              └──▶ deep-scan workers
 repair / setup / uninstall ── locks, receipt, storage ──┘
 MCP server, local UI, doctor: readers of the committed ledger
```

| Component | State it keeps | Operations | Correct when |
|---|---|---|---|
| Prompt confirmation gate (`prompt_hold.py`, the UserPromptSubmit path of `dispatch.py`) | per session: open windows, reusable credentials, verdicts and provisional confirmations by delivery key | decide, finish_confirmation, clear | no prompt with a credential passes unless the user was answered a hold for it and came back in time; a confirmation counts once and only when recorded; nothing survives the session |
| Version-2 session accounting (`ledger.py`, `engine.py`, `dispatch.py`) | session row, subjects, recipients, observations, events, disclosures; the accounting key and engine in memory | activate, attach, record_observation, end, startup invalidation, summary | a pair of value and recipient is charged once; a delivery is recorded once and whole; a lost key is never replaced; the percentage is withheld unless exact; no identity survives the end |
| Outcome resolution (`hook_evidence.py`, `engine._observe_v2`, `accounting.resolve_outcomes`) | the observations and events of an action | normalize, record, resolve | only a receipt closes what a hook left open; contradictions stay open; what is not counted as open is explained |
| Storage cutover (`runtime_storage.py`) | the historical database and its log, the staged copy, the fence, the retained files, the journal | prepare_storage and its stages, resumed after any crash | no row is lost, there is never a second ledger, nothing is overwritten, a retry gets on |
| Runtime repair and activation (`runtime_repair.py`, `runtime_owner.py`, `runtime.py`) | transition lock, startup lock, writer lease, receipt (`runtime.json`) | repair_runtime, setup, acquire, assert_current | the ledger is moved while no daemon of its generation has it open; only the selected runtime writes |
| Daemon lifetime (`daemon.py`) | socket path, worker threads, live session references | startup, serve, drain, `_close` | a daemon that serves is reachable; one that leaves disturbs no successor; hooks are served again |
| Hook client and policy client (`hooks/handler.py`, `runtime_client.py`, `runtime_contract.py`) | spawn latch, selection read from the receipt, deadline | connect, spawn, hello, request, answer or fall back | a request is sent at most once, what the client says is true of it, no outbound call goes unruled unless with a warning |
| HUD snapshots (`hud_snapshot.py`, `session_services.py`) | one file per session, written by several threads and processes | publish, hide, retire, heartbeat, read | no surface shows a dead session as live; a daemon vouches only for readings of its own |
| Detection and deep scans (`engine.py`, `detect/`) | one pipeline and its lock, one outbound permit, a task and a worker per outbound scan | admit, wait, infer, time out, observe | the pipeline is never entered twice, the permit is never lost, what was not read is a gap on record |
| Policies and consent (`ledger.py`, `policy_services.py`, `guard_targets.py`) | rules, one-shot tokens, guard targets and their in-memory index | save, mint, consume, expire, mark | a consent admits one call; a saved rule holds for every later ruling; a mark names a recorded event |
| Version-1 records and coverage (`ledger.py`, `dispatch.py`) | session row and its score, events, coverage rows, scan gaps, the unattributed mark | start, attach, record, end, rebuild, note unobserved hooks, summarise | the score is the sum of its rows; nothing late is charged; a verified session was watched |
| Session liveness (`dispatch.py`, `daemon.py`) | last hook of each session, requests in flight | touch, staleness, linger, drain, idle exit | the daemon cuts off nobody it accepted and goes in the end |
| Readers (`render.py`, `ambient.py`, `mcp`, local UI, `doctor.py`, `offline.py`) | none | render, list, diagnose | — |

How they meet. A hook process opens the socket, says hello with the activation
it belongs to and sends one event. The daemon handles each connection on a
thread of its own; a handler takes `State.lock` for the steps that read or
write shared state, and the UserPromptSubmit handler takes it three times, with
the deep scan between. Everything durable goes through
`Ledger._write_transaction`, which asks the lease three times whether the
runtime is still the selected one. A repair is a separate process that meets
the daemon only through lock files, the receipt, the socket and the open files
of the ledger. Processes of older builds know none of these.

## What is hard about it

`PROJECT.json` lists each hazard at its line. In short:

* the gate rules in one lock hold and finishes in another, with a scan, other
  deliveries, the session's end and the daemon's death in between;
* SQLite and the memory of the daemon commit separately: a key exists between
  the commit that makes a session available and being held, and dies with the
  process;
* deliveries are repeated, after a restart or the end of the session too;
* the cutover may be interrupted between any two durable steps, and an older
  build may open the very path that is being moved;
* a closing daemon, starting daemons and a repair race for three locks, a
  socket path and a receipt, and a worker thread outlives the socket;
* what came of an action is told by rows that arrive in any order, with
  different scopes, some without an identity, some contradicting others, and
  after the key that correlates them is gone;
* limits and deadlines: the confirmation window, the linger and idle exits
  against a connection that is still queued, the one outbound permit that
  outlives its caller;
* an answer may be lost after the request was sent, and the client has to say
  something true all the same;
* the client and the daemon decide by different rules what is outbound, and the
  client's is the one that counts when there is no daemon;
* three writers share one temporary file name for a session's snapshot, and
  only one of them holds the lock;
* a call is ruled on with what is true after its scan: rules, consents, the
  session and the ledger's layout may all have changed since it came in.

## The modules

| Module | Models | Extended by |
|---|---|---|
| `PromptHold` | the gate of one session and the handler that drives it | `MCPromptHold`, `PromptHold_proofs` |
| `Accounting` | abstract: what accounting promises | instantiated by `AccountedSession` |
| `AccountedSession` | one session's rows, key and engine under version-2 accounting | `MCAccountedSession`, `AccountedSession_proofs` |
| `ActionOutcomes` | the hooks of one action, the rows they leave and what is concluded from them | `MCActionOutcomes`, `ActionOutcomes_proofs` |
| `StorageCutover` | the ledger's move behind the fence | `MCStorageCutover`, `StorageCutover_proofs` |
| `RuntimeOwnership` | locks, lease, socket and receipt between daemons and a repair | `MCRuntimeOwnership`, `RuntimeOwnership_proofs` |
| `HookService` | hook and policy clients, the daemon's accept loop and its lifetime policy | `MCHookService`, `HookService_proofs` |
| `HudSnapshot` | the snapshot file of one session and its three writers | `MCHudSnapshot`; proved about in `HookService_proofs` |
| `DeepScan` | the model's lock, the outbound permit, workers and deadlines | `MCDeepScan`, `DeepScan_proofs` |
| `ObservedSession` | how a session is met, ruled on and recorded under version 1: rules, consents, coverage, guard targets | `MCObservedSession`, `ObservedSession_proofs` |

How they fit together. `RuntimeOwnership` and `HookService` are two views of
the daemon: the first has its locks and no requests, the second its requests
and no locks, and a repair is one step of the second because, by `QuietWhileMoving`
of the first, no daemon of this generation serves during it. An older build,
which takes no lock, may: it is a few steps in each of the three modules where
it matters, and what it commits meanwhile is `StorageCutover`'s. `StorageCutover` is the repair's
storage step. `DeepScan`, `PromptHold` and `ObservedSession` are what a request
does once it is dispatched: the scan between the lock holds, the prompts, and
the other calls. `AccountedSession` is the record a version-2 session keeps
instead of `ObservedSession`'s, with the rows whose evidence `ActionOutcomes`
explains. `HudSnapshot` shows the result.

Operators marked *Mutant* in a comment (`NeverPruned`, `EmptyFile`,
`ScopeAsGiven`, ...) are
not part of the models: each is a plausible mistake in the definition beside
it, kept to show that the property it is paired with in `PROJECT.json` would
catch that mistake.

### PromptHold

One action is one hold of `State.lock` by one worker thread: `Submit` reads the
clock, `Resolve` looks up or attaches the engine, `RuleHold`, `RuleAdmit`,
`RuleConfirm`, `Replay` and `RuleTemporary` are the outcomes of
`PromptGate.decide`, and `Observe` and `ObserveFails` are the last lock hold with
`finish_confirmation`. `SessionStart`, `SessionEnd`, `DaemonDies` and `Tick`
interleave with them. The four dictionaries of `PromptGate` are `pending`,
`allowed`, `deliveries` and `reserved`; `gate` numbers the engines, and so the
gates, in the order they were registered, because a late thread holds on to
the gate that ruled on it. A prompt is the set of credentials in it; the salted
hash of a credential is the credential.

### AccountedSession and Accounting

Handlers do not interleave (each keeps `State.lock` from reading the session
row to its last write), but each step may raise, and the daemon may die, so a
handler is a `job` with steps. It writes `work`, and SQLite commits it to `db`
or rolls it back. `StartArrives`, `StartKnown`, `Activate`, `Install`,
`InstallFails` are a SessionStart; `HookArrives`, `MarkUnavailable`,
`AttachKeyless`, `ObserveLegacy`, `ObserveAgain`, `BeginRecord`,
`AppendEvent`, `CommitRecord` and `Raise` any other delivery; `AppendEvent`
takes one finding of the batch at a time as `record_observation` does, after
`Coalesced` has named each pair once, as its heaviest type. What the database
itself enforces is there too (`GuardsPass`: the triggers and unique indexes of
`ledger_schema.py`), and `NoWriteAborts` says that no statement the code issues
meets one of them, so that a handler never fails on its own records. Keys
are numbered in the order `os.urandom` drew them, and the HMAC of a value
under a key is the pair of both. `Score` is the points of a group as a natural
number: any table that starts at 0 and never falls as a group grows, up to the
number of values, which is as large as a group gets. The float formula of
`budget.group_score` is one; `_storable` refuses a negative score or delta.
The other assumptions are that the values, recipients and types of a session
are finite sets, and that a batch is a sequence of findings and a mark of a
gap.

`Accounting` has three variables (`charged`, `points`, `open`) and two actions.
The refinement mapping reads `charged` out of the committed disclosures with
the real values behind the hashes, so that two hashes of one value would show
as a second charge.

Taken from the tests and not from the shipped hooks: the hook adapter supplies
no receipts today, so confirmed crossings come from callers of
`record_observation`. The session is treated as the newest of its ledger.

### ActionOutcomes

One host action, of a kind chosen at the start (`call`), and its hooks:
`PreToolUse`, `PostToolUse` and `UserPromptSubmit` each build a row
(`Found`, `Receipted`, `EventsOf`, `ScopeOf`, `Row`, the parts of
`_observe_v2` in its order) and hand it to the ledger, which records it or
refuses it (`Valid`); `LoseKey` is an end, an invalidation or a restart in
between. The row, its events and its identities are one transaction under
`State.lock`, hence one action. `Unresolved` is `_partition_unresolved` and
`UnresolvedActions` and `ReadsStopped` the two counts of `resolve_outcomes`
that are more than a bit count.

`Reports` are the receipts an adapter can add. The shipped adapter adds none
(`Silent`); the others are those of the protocol `HookEvidenceAdapter` as the
scripted adapters of `tests/test_accounting_dispatch.py` use it. Abstracted: a
pair of subject and recipient is its subject, because the events of a row are
about one recipient; a report names a pair once and gives all its pairs the
same bits; receipts about unidentified subjects and retention evidence, which
resolve nothing, are left out. `AccountedSession` takes such rows as batches
and says what they cost; `ActionOutcomes` says where they come from and what
they settle.

### StorageCutover

`pc` is the next durable step or journal write of `prepare_storage`: `Begin`,
`Check`, `ReuseCopy`/`StartCopy`/`FinishCopy`, `Compare`, `RetireDatabase`,
`RetireLog`, `PutFence`, `Publish`, with `Record` for each journal entry,
`Select` for the receipt and `NoAnswer`/`Refusal` for the ways out. `Crash` may
come before any of them; only `disk` and `journal` survive. The older build's
process starts, opens, commits (into the log), checkpoints, closes and dies;
its open files follow a rename, as they do in POSIX. It may do all that at any
time, between two stages as well as before them. A database is its set of
committed rows. The inspection of open files is one atomic look at every path a
database may have (`HolderPaths`).

### RuntimeOwnership

`phase` is the program counter of a daemon's main thread from `Spawn` (it has
loaded its activation) through `TakeLock`, `TakeLease`, `Probe`, `UnlinkStale`,
`OpenLedger`, `BuildState`, `Bind` to serving, and through `Leave`, `Unlink`,
`Discard`, `ReleaseLease`, `ReleaseLock`, `Exit`; `work` is its worker, which
passes the three checks of a write (`BeginWrite`, `LastCheck`, `Commit`) even
while the main thread closes. `Crash` and `Stopped` are deaths: the locks go,
the socket file stays. `repair` steps from the transition lock to the
handshake: look, signal, settle, lease, recheck, publish, give back, start.
`SetUp` writes a receipt of version 1, which selects nothing. The three storage
stages between the lease and the receipt are one step here; they are
`StorageCutover`'s, and `QuietWhileMoving` is what that module assumes when it
lets no daemon of this generation run during a cutover. The serve loop may end
at any time: the lifetime policy, `stop()`, Ctrl-C and a drain timeout are all
`Leave`.

A daemon of an older build takes neither lock. As long as no fence stands, here
until a runtime was selected (`used = {}`), it opens the ledger at any time
(`OlderOpens`), asks whether anybody answers at the socket path (`OlderProbes`),
then removes what is there by that time and binds (`OlderBinds`), and is killed
or closes and removes the path (`OlderEnds`). The docstring of `Daemon` says
that the probe is best effort against it and that "either side can lose"
(daemon.py:627), and so it is here: it may take the path of a daemon that
serves, and it may have the ledger open while a repair moves it, as in
`cutover_holder`. `ServingIsReachable` and `QuietWhileMoving` are about the
daemons of this generation and say so.

### HookService

A client goes `Begin`, `Connect` or `ConnectFails`, then on the one side
`Cooldown`, `LatchSeen`, `Launch`, `WriteLatch` (the latch file, the spawn and
what is written about it), on the other `Welcome` or `TurnedAway`, `Send`, and
`Replied` or `TimesOut`; `TimesOut` may come at any of its waits. `main` may
also return before it has read anything (`NeverBegins`), and `cli` turns an
exception at any later point into empty output (`Crashes`), which is what an
allowed call is answered with too. `Kinds` distinguishes an outbound call that
the client recognises, by a URL or an mcp tool (`egress`), from a shell command
that only the daemon takes to be outbound (`command`): without a ruling the
first is denied, the second gets a warning (`FailSafe`). A connection
is `queued` in the kernel until the main thread's `Accept` counts it, then on a
worker: `Hello`, `Read`, `Rule` or `Raised`, `Finish`, or `Silent` for a
frame that gets no reply. `Leave` is the loop's end by `ExitDue` and `Drained`:
a grace after the last session, the idle cap, a drain with its own deadline.
`Tick` ages the last hook and the last accept; `Die` and `SetupFails` are what
no policy foresees; `Repair` and `SetUp` change the receipt; `OlderServes` is a
daemon of an older build that begins to serve where none does. Time has two
thresholds, `Grace` and `Cap`.

### HudSnapshot

Every write is `Open` (truncate the temporary file they share), `Fill`,
`Replace`, each of which another writer may fall between; the descriptor a
writer filled may by then be the published file itself (`Relinked`). The
publisher reads the ledger under `State.lock` (`PublishReads`), the heartbeat
reads the file without it (`BeatReads`), the toggle is another process
(`ToggleReads`). `EndSession` retires, `Release` forgets a stale session,
`RepairRetires` empties the directory, `Tick` ages what is there. A document is
the number of the ledger state it was derived from, who derived it, and whether
it is hidden.

### DeepScan

A call goes through the gates of `_scan` in `Begin`, and is then either
incoming (`TakeModel`, `Infer`: it waits for the model) or outgoing (`Admit`,
`Spawn` or `SpawnFails`, `WaitReturns` or `WaitTimesOut`). The worker is eight
steps of its own (`WorkerQueues` to `WorkerLeaves`), with the two checks of the
deadline, before and after the wait for the lock. `TimePasses` is the deadline,
which may pass between any two steps; nothing else is timed. `Observe` and
`ObserveFails` are the ruling and the gap it records.

### ObservedSession

A call is `Arrive` (resolve the session, under the lock), the scan, `Lock`
(resolve it again), `NoteGap`, `Rule`, `Record` (one transaction per finding),
`Account` (the guard target) and `Answer`; `WriteFails`, `RewriteFails` and
`GiveUp` are its failures, `DaemonDies` and `Unserved` its losses. `Rule` has
`Engine.observe`'s branches in their order: read guard, hard block, consent,
origin, mask. A call that no daemon rules on gets the client's own answer
(`Fallback`): a denial if it has a URL (or an mcp tool, `url` stands for both),
else a warning with which it goes ahead (`Unchecked`). `SavePolicy`, `MintToken` and `TokenExpires` are the user;
`SessionStarts`, `SessionResumes`, `OtherStarts`, `SessionEnds`, `EndFails` and
`DaemonStarts` the session's life, with the rebuild that renames the events
table when another session's start activates version 2. `Coverage`, `Summary`
and `Listed` are what a reader computes. Salts are numbered; a hash is the
salt and the value. The times `coverage` compares are kept as before, inside
and after the session. `SessionAssumption` says that the calls are finitely
many and that findings come in lists; nothing is assumed of how findings,
origins and events go together.

## The runs

The passing runs take from seconds to about three minutes with two workers.
Deadlock is not checked anywhere: requests are used once, clocks and counters
are bounded, and the system may come to rest.

| Run | Question | Instance |
|---|---|---|
| `hold` | is what becomes reusable always held, confirmed in time and recorded, do failures take nothing away, and do reservations survive restarts and replays? | 3 submissions, 3 delivery keys, 2 credentials, 2 gates, a window of 1 tick that expires within 2; requests, keys and credentials symmetric |
| `account` | do score, charges, answers and percentage agree, is one key used, and is `Accounting` implemented? | 3 deliveries of 3 batches (one with a duplicate finding), 2 values, 3 destinations, 2 types of different weight, 3 daemons; deliveries symmetric |
| `outcomes` | what do partial, late and contradicting receipts settle, and does the ledger accept every row the engine builds? | 6 kinds of action, 3 hooks, 2 subjects, 7 receipts, the key lost anywhere |
| `cutover` | can a cutover be interrupted anywhere, intruded on anywhere, and finished? | 3 rows, 3 crashes, the older build at any time |
| `cutover_holder` | is the inspection repeated before the retirement? (violated) | 1 row |
| `ownership` | who may serve, write and move the ledger, and is somebody serving again? | 2 daemon slots, an older build, 2 epochs, 4 troubles (repairs, setups, failures, crashes) |
| `ownership_keys` | are the keys gone when ownership is? (violated) | the same, 2 troubles |
| `hooks` | is what clients answer true, does nothing go out unruled in any but the named ways, does the daemon leave cleanly and in the end? | an outbound hook that the client recognises beside the end of the session, one that it does not beside a policy request, a backlog of 1, 2 activations |
| `hud` | what may a heartbeat stamp, and does what is over disappear? | 3 writers, 2 daemons, 3 readings, 1 toggle |
| `deep` | one inference at a time, one permit, true gaps, an answer | 2 outbound calls and an incoming one, 4 kinds of text |
| `session` | do consents, rules, score, marks and coverage hold over restarts and late calls? | 2 calls, 2 daemons, 1 consent, 2 salts, 2 rules; a credential goes out in a call with a URL, a letter in one without |
| `coverage_end` | does a verified record never hide a recorded gap? (violated) | 1 call |

Why the bounds are enough for what they are meant to show. A gate needs a
submission that opens a window, one that confirms it and one that interferes
(a replay, a second hold or a failure): three; two credentials let a prompt
carry one that is confirmed and one that is not. For the account, a charge can
be first, repeated in its group, or repeated in its pair, and the second daemon
can be interrupted before a third takes over. Three hooks are the two of a
tool call and one delivered again, or a row, one that contradicts it and one
that would settle it; two subjects let a receipt cover part of what was found.
In the cutover one row is in the
database, one in its log and one is written late; after two crashes every
stage has been met both fresh and half done, and the third adds a crash during
the second recovery. In `ownership` a slot can be used by process after
process, so two slots are a closing and a starting daemon with a repair beside
them; four troubles are a repair, a failure, a crash and a setup in one
behaviour, or two repairs and what goes wrong between them. Two clients are one
in flight and one that is queued, or that spawns, while the daemon leaves; the
second activation is the one a repair puts in between. Two outbound calls meet
at the permit, and the incoming one at the model's lock. Three readings are one
of an earlier daemon, one that is being published and one that comes between.
Two calls of a session are one that holds what the other finds changed: the
consent spent, the origin remembered, the finding recorded, the mark written.
The credential is in calls with a URL, which the client denies by itself: a
daemon rules on a shell command without one in the same way, and what the client
does with it is the letter's case.
All bounds are constants: `MaxTime`, `MaxGates`, `MaxProcesses`, `MaxHooks`,
`MaxCrashes`, `MaxTroubles`, `MaxEpochs`, `Backlog`, `MaxDaemons`,
`MaxReadings`, `MaxToggles`, `MaxConsents`, `MaxSalts`.

### Fairness

* `StorageCutover`: weak fairness of `Repair`: somebody runs the repair again.
  `FencedIsPublished` assumes in addition that the older build is not running
  for ever, because its presence is a reason to refuse.
* `RuntimeOwnership`: each main and worker thread runs on; hooks keep coming
  and each finds a client that spawns a daemon when none answers (`Spawn`); a
  repair ends; an older daemon exits when idle, and so does a daemon whose path
  an older one has taken, since no hook reaches it any more (that it leaves then
  is `AlwaysExits` of `HookService`). `ServesAgain` is conditional on
  a runtime staying selected.
* `HookService`: the accept loop goes on (`Leave`, `Poll`) and time passes
  (`Tick`). Workers and clients need not move: `AlwaysExits` holds with a
  request that is never finished, by the drain timeout.
* `HudSnapshot`: a writer that has read the file finishes, the daemon's loop
  releases stale sessions, time passes. `Fades` is about sessions that ended or
  whose daemon is gone for good.
* `DeepScan`: a call's own thread goes on and its deadline passes. Neither the
  workers nor the model are fair: `OutboundIsAnswered` holds when the model
  hangs.
* `PromptHold`, `AccountedSession`, `ActionOutcomes` and `ObservedSession` have
  no liveness property: a session need not get another event.

### Properties, by what they guard

*Gate.* `AdmittedOnlyAfterWarning`, `AllowedWasConfirmedAndRecorded`,
`OneHoldOneConfirmation`, `ReservationHasOwner`, `FailureTakesNothing`.
*Account.* `SameAnswerForever`, `PercentIsExact`, `OneNamespace`,
`OpenRecordsWatched`, `ErasedAtEnd`, `NoWriteAborts`, and `Implements`, the
refinement (a pair is charged once, and only while the account is open).
*Outcomes.* `ResolvedIsExplained`, `LostKeyFreezesOutcomes`,
`EngineRecordsAreValid`.
*Cutover.* `OneStore`, `ActiveIsComplete`, `RefusalHasCause`,
`FencedIsPublished`.
*Ownership.* `ServingIsReachable`, `QuietWhileMoving`, `WritesAreSelected`,
`ServesAgain`.
*Clients.* `AnswersAreTrue`, `OutboundCallsAreRuled`, `RepliesAreFlushed`,
`AlwaysExits`.
*Display.* `VouchesForOwnReadings`, `Fades`.
*Scans.* `OneInference`, `PermitHasItsScan`, `GapsAreTrue`, `NoSilentMiss`,
`OutboundIsAnswered`.
*Sessions.* `CredentialsNeedConsent`, `SavedRulesHold`, `ScoreIsItsRows`,
`TargetsNameRecordedOnes`, `VerifiedIsWatched`, `LateEvidenceIsFree`.
Each is stated in words above its definition.

Some of them say less than one might wish, because the code does.
`ServingIsReachable` and `QuietWhileMoving` promise nothing of an older build,
which no lock excludes. `OutboundCallsAreRuled` names the two ways in which a
call goes ahead unruled: a shell command the client does not recognise, with a
warning, and a client that crashes, without one. `CredentialsNeedConsent`
leaves out the first of these; of a call that the client recognises, or that a
daemon rules on, it leaves out nothing. The second is `HookService`'s alone:
`ObservedSession` has no client that crashes.
`VouchesForOwnReadings` excepts what a toggle of another process hands on: it
copies an earlier daemon's document into the file, which the heartbeat of the
next one then stamps. `CredentialsNeedConsent` counts consents for the same
arguments: two equal calls may spend two of them in either order.

`RefusalHasCause` names one cause worth knowing: a crash while SQLite is still
copying leaves a partial `staged.db`, which no retry matches and none removes.
The cutover is safe then, and stays where it is until someone deletes the file.

## The proofs

TLAPS checks every obligation of the eight proof modules; nothing is assumed
but the named assumptions of the modules on their constants.

**`PromptHold_proofs`** (`TypeCorrect`, `WarnedBeforeAdmission`,
`DiscardedForGood`, `ReusableWasEarned`, `OneWindowOneRuling`,
`NoReservationLeaks`, `FailuresTakeNothing`). `AdmittedOnlyAfterWarning` is not
inductive: the gate forgets windows, so a scanning request must remember why it
was let through. `GateInv` adds that a window in `pending` was opened by a hold
that was answered on this gate (`PendingWasHeld`), that every stored passing
verdict, reservation and reusable credential has such a hold at least `MinGap`
old (`PassedWasWarned`), that gates and times are ordered (`InOrder`), that a
prompt with a credential is scanned only with a verdict (`RuledBeforeScan`, on
which the types depend as well), and that an unregistered gate is empty. The
lemmas say what one step may change (`ThreadStep`, `OtherStep`, `GateStep`,
`EngineStep`), that an answer once given stays (`AnswersStay`, `WarnedStays`),
and each conjunct is then proved from those summaries rather than action by
action.

The confirmations need a second invariant on top, `ConfirmInv`: what a window
was worth is known only from the request that used it up. `UnruledIsBlank` says
that a request without a ruling carries nothing, `ConsumedIsOver` that a window
some ruling has consumed is not pending again on that gate (a hold opens it
with a later time, and time does not go back), and `ReservedWasConfirmed` that
a reservation is held by a delivery whose recorded verdict is a confirmation of
that very window. `OneHoldOneConfirmation` follows from the second,
`ReservationHasOwner` and `AllowedWasConfirmedAndRecorded` need the third, and
all of them go on as conjuncts of `ConfirmInv`. `FailureTakesNothing`
is an action property that needs the types only: the two failing steps write
neither dictionary.

**`AccountedSession_proofs`** (`TypeCorrect`, `OneKeyPerSession`, `EndForgets`,
`RecorderIsWatching`, `AnswersNeverChange`, `ShownIsExact`, `WritesAreLegal`,
`SessionIsAccount`: every property of the run). The invariant `SessionInv`
speaks of the committed ledger and of the one an open transaction sees, because
a handler may stop between any two writes.

* `Serving` ties the daemon, its key and the handler's step together: one key
  is drawn at most, it is held only by a daemon that is up and before the end,
  and only a handler that records has written what is not committed.
* `Sound` holds of both ledgers, and is what one can say of rows alone: before
  version 2 there are none (`Blank`); an identity row holds a hash while it is
  resolved and the session has not ended, and no two resolved rows are about
  one thing (`Table`); an event belongs to a recorded delivery and names the
  rows of its value and destination (`EventsTold`); a disclosure charges a
  confirmed event, and no two share a pair or a place of a group
  (`ChargedOnce`); a confirmed event of resolved rows has been charged by its
  turn (`ChargedByThen`); and the deltas add up to what the charges are worth,
  and to what the events show (`Priced`).
* The committed score is the sum of the committed deltas (`Paid`), and
  `Recording` says of an open transaction what it has added so far: the new
  rows are those of the findings done, and the handler's running delta is their
  sum. Without it nothing is known at `CommitRecord`, where the score is
  written.
* `Answered` and `Watching` are the two properties about replies and coverage
  in the form that goes through a step.

A write that only sets flags (`Flagged`) keeps `Sound` whatever it is, and most
handlers write nothing else; what is left is `AppendEvent`, `CommitRecord` and
the end, which nulls the identities and so has to keep every fact that does not
need them (`EndErases`).

`PercentIsExact` and `Implements` speak of sums over the rows. An induction
over the rows is not to be had from these provers, so the lemmas at the head of
the module go another way: among the subsets of a finite set for which a lemma
would fail there is a smallest one (`LeastSubset`), and that one cannot be.
From it follow that a finite set of numbers has a greatest element
(`HasGreatest`), that the library's sum exists (`SumIsAdder`), that taking one
index out of a sum takes its summand out (`SumWith`) and that changing one
summand changes the sum by as much (`SumOfChanged`). `WorthGrows` carries them
to the points of `Accounting`: one more pair in a group adds what `Score` gives
for its place.

`SessionIsAccount` is the refinement. `AccountInit` maps the initial states.
`AccountNext` maps a step: a commit that discloses something is a `Charge` of
the pairs it disclosed, with points as `Accounting` counts them; a write that
ends the session, takes its availability or settles it at version 1 is `Close`;
every other step is a stutter, because it commits no disclosure and leaves the
account as open as it was.

**`ActionOutcomes_proofs`** (`TypeCorrect`, `NothingIsRefused`,
`OnlyReceiptsDo`, `LostKeyFreezes`, `ResolvedAreExplained`, `SilenceIsOpen`:
every property of the run and two that no run needs any more, for any set of
receipts and any number of hooks). `OutcomesInv` adds to the types that the
rows of the action have one kind, that no action is newer than the last hook,
and that what leaves the machine may have crossed (`RowsInv`). `RowFacts`
follows a row through the parts of `_observe_v2` and shows that
`_check_observation` and `_check_event` accept it. `SilenceKeepsUnresolved`
carries `OnlyReceiptsDo`: a row without a scope adds facts and obligations and
leaves the receipts as they were, so each reason to be unresolved survives it.

**`StorageCutover_proofs`** (`TypeCorrect`, `NothingLost`, `OneLedger`,
`RefusalsHaveCauses`). `CutoverInv` says where the rows are at each step: in
the historical database and its log until the copy was compared (`SourceInv`,
`LegacyInv`), in the staged copy from then on (`StagedInv`), in the active
store once it exists (`ActiveIsComplete`); `FenceInv` says that an active store
stands behind the fence, from which `OneStore` follows, and `SelectedInv` that
a daemon of this generation runs only on a published store.
`RefusalsHaveCauses` needs `CauseInv` beside it: a ledger that a repair once
found is at its path or retained (`KeptInv`), so that there is a copy to
publish; a staged copy has a source and is gone when an active store exists
(`CopyInv`), so that there is one candidate; and no repair runs with something
else at the path (`PathInv`). Each way to refuse then either contradicts these
or shows its cause. `CauseInv` was checked on the small instance first.

**`RuntimeOwnership_proofs`** (`TypeCorrect`, `ReachableWhileServing`,
`NobodyWhileMoving`, `SelectedServes`, `NoStaleCommit`). `OwnershipInv` says
which phases hold the startup lock (`LockInv`) and the lease (`LeaseInv`), that
only they have the ledger open (`LedgerInv`), and that a granted lease was granted against the receipt that is there now, or
against one that a setup took away (`SelectionInv`). A repair changes the
receipt only with the lease in hand and nobody in the ledger, which is
`QuietWhileMoving`, itself part of the invariant because the selection of a
daemon that is about to commit depends on it. An older build is in none of
these. `ReachableWhileServing` is an action property and needs `LockInv` alone:
the steps of this generation that touch the path hold the startup lock, and the
serving daemon holds it. `OwnershipInv` was checked on the
small instance too.

**`DeepScan_proofs`** (`OneAtATime`, `PermitKept`, `ScansAreTrue`,
`NothingMissedSilently`). `LockHeld` says that who is inside the model holds
the lock and that a worker belongs to a call that waits or has stopped waiting;
`PermitHeld` that the permit is free with nobody admitted or taken by exactly
one. `AllSound` is a conjunction over the calls, since a step of one leaves
what is said of another as it was: an untouched call has no result, a worker
that has not inferred has read nothing, a task that is past its inference says
what is true, and so does the gap made from it. The part that has to be added
is that a call which returned while its worker had yet to infer returned
`timeout`: with any other gap the late reading would make it false. `AllSound`
was checked on the small instance too.

**`HookService_proofs`** (`NoFalseAnswers`, `NothingGoesUnruled`,
`LeavesNobodyWaiting`). `AllHonest` is again a conjunction over the clients.
`Bound` ties a connection that is not over to the daemon that serves, which is
why a new activation never inherits one; `Greets` and `Progress` say that only
a client of that activation has been greeted and that nothing is read before
the request was sent; `Ruling` that a verdict is the one dispatch of such a
connection; `Told` that the answer fits both. `NothingGoesUnruled` follows
with `Excused`, which says of a client that is done in which of the named ways
its call went ahead. It is `Told`, with the place of
the connection in it, that keeps "nothing was sent" true after the client has
gone. `LeavesNobodyWaiting` has an invariant of its own, `CountedInv`:
`inflight` is at least the number of the connections between `Accept` and
`Finish`. It may be more, by every thread that died in its setup, which is why
the drain needs a timeout.

**`ObservedSession_proofs`** (`SessionTypes`, `ConsentsAreSpentOnce`,
`RulesBindRulings`, `ScoreStandsOnRows`, `MarksAreOnRecord`,
`VerifiedMeansWatched`, `EndedStaysSettled`: every property of the run). One
invariant, `SessionInv`, carries them all, because a call that is half recorded
holds pieces of each. It was checked as an invariant of the small instance
before it was proved.

* `LockInv`: one call at most is between `Lock` and `Answer`, only while a
  daemon serves, and each of its steps leaves the next what it needs. An open
  session whose lock is taken has an engine. `EngineInv`: an absent session has
  nothing on record, an ended one has no engine, and an engine has a salt. From
  the last two follows `EndedStaysSettled`: a late call has no salt to write.
* `RowsInv`: only the rows of an open session have a hash, and no two of them
  have the same salt, value and destination. That alone does not survive the
  end: it sets every salt to none, and two rows that become equal would be one
  row of the set, whose points the score still has twice. What excludes it is
  that the rows of one call were written under one salt, so that rows the
  erasure could confuse were distinct rows of one salt before it
  (`r.call = s.call => r.salt = s.salt`). A row's call has been ruled on, and
  while the call records, the row's salt is the engine's: an engine is dropped
  only when nobody is recording, or with its daemon.
* `ScoreIsItsRows` is kept by `Record` because the row a finding repeats is
  replaced by one of the same points, and a new one adds its own. The sums are
  handled as in `AccountedSession_proofs`, by the choice of a least subset.
* `ConsentInv` counts: for the same arguments, the calls let through and the
  unspent token are together at most the consents given. `Rule` moves one from
  the token to the calls; a mint that replaces a token takes the replaced one's
  consent off the count before it adds its own.
* `SavedRulesHold` and `TargetsNameRecordedOnes` are inductive beside the rest;
  `TargetsInv` ties the index in memory to the marks on disk, which a mark that
  failed, or a daemon that died, leaves without their counterpart.
* `WatchInv`: who is on record as an observer is a daemon that was started, a
  daemon that holds the session's engine is on record, and a call that nobody
  served leaves, once a daemon serves again, an observer that is not it.
  `VerifiedIsWatched` follows, since a verified record has one observer.

`NoPaths` is written with a choice and not with the library's `SelectSeq`,
which the provers have no facts about; `Listable` shows that the list it
chooses is there.

**`HudSnapshot`**, in `HookService_proofs` as the instance `Display`
(`StampsItsOwn`). `VouchesForOwnReadings` is about the heartbeat's document
alone; where that document comes from is the file, what lies under the shared
temporary name, and what the other two writers have open. `OwnInv` says of all
of them that a document there is of the last daemon, until a toggle hands on a
file of an earlier one, and that nobody writes for a daemon that is gone. Of
the file it says so only once the daemon has claimed it by a publication of its
own, which is the condition under which `heartbeat` stamps at all. Every step
either lets the writers carry the documents they have (`OwnKept`), lets one take
up a new one (`OwnTaken`), or writes one (`OwnWritten`). Nothing is assumed of
the constants.

**Model-checked only.** Liveness (`FencedIsPublished`, `ServesAgain`, `Fades`,
`AlwaysExits`, `OutboundIsAnswered`), which the prover's backends do not handle
under fairness. Every other property of the passing runs is proved.

## What the checks found

* `cutover_holder`. `_quiescent`'s docstring (runtime_storage.py:452) says the
  inspection is "called before the backup, before retirement and before the
  fence"; nothing calls it, and `prepare_storage` runs its check once, before
  the backup (line 328). TLC shows an older process that opens the ledger
  during the backup and has it open when the retirement begins. What it commits
  from then on is in the retained file only. `ActiveIsComplete` still holds,
  because it promises the rows committed before the check.
* `ownership_keys`. The comment in `Daemon._close` (daemon.py:1465) says that
  the workers have drained when the identities are discarded. `stop()`, Ctrl-C
  and a drain that timed out come there with a request in flight; the run shows
  a worker that takes the lock after the discard, commits an activation and
  installs a key, which outlives the lease. `WritesAreSelected` holds all the
  same.
* `coverage_end`. `SessionCoverage` (ledger.py:183) and docs/known-limits.md:35
  say that a session without the mark has nothing on record that contradicts a
  complete account. `coverage()` leaves an unattributed record of unserved hooks
  out once the session has ended and a newer one is on record, and compares its
  time with the session's start only (line 1715): a gap in the middle of the
  session, shown while it ran, is gone from its record afterwards.
* Modelled, and no run kept for it: `heartbeat` reads the file without
  `State.lock` and replaces the whole document (hud_snapshot.py:336), so a
  reading published in between is lost until the next hook of the session. Its
  docstring (line 305) says that it re-stamps and changes nothing else. The
  same pair of writers can leave the published file torn, because they share a
  temporary name; readers then show nothing.
* Modelled, and no run kept for it: `update_policy` calls "every failure it
  reports" one "after transmission" (runtime_client.py:380), but its deadline
  may pass between the hello and the send; what it then reports as unknown was
  never sent. `AnswersAreTrue` allows that: unknown is true of it.
* Modelled, and no run kept for it: `_unverified` in the hook client says "fail
  open on ingress, fail closed on egress" (handler.py:195), and
  docs/known-limits.md:194 that an unchecked outbound call is denied.
  `_looks_like_egress` (line 181) recognises an outbound call by `://` in its
  input or an mcp tool. The daemon takes more shell calls to be outbound: those
  to a network program without a URL, and those whose destination it does not
  know (dispatch.py:548). Such a call is held to the rules when a daemon
  answers, and goes ahead with a warning when none does: `FailSafe` and
  `Fallback` say so, and `OutboundCallsAreRuled` and `CredentialsNeedConsent`
  except it by name.
* Modelled, and no run kept for it: a connection that a leaving daemon never
  accepted is cut off, and the hook reports that its hello was refused
  (handler.py:539), which it was not. `RepliesAreFlushed` is about accepted
  connections.
* Read, not run: `runtime_owner.py:9` says the lease is held for as long as the
  ledger connection; neither `_close` nor `_abort_startup` closes the
  connection before giving the lease back. The third check of a write makes
  this harmless for the selection.

## What is not modelled

| Part | Why |
|---|---|
| flows, the reader of old ledger layouts, the validation of scoring profiles | `ObservedSession` and `AccountedSession` have the sessions, events, coverage and guards; these are reads of what is there |
| rules on commands, and the removal of rules | the first differ from rules on files by their text only, and no path removes a rule |
| classification of holders, interpreter probe, `stop_selected_runtime` | every refusal of these is `RepairEnds`; the heartbeat wait only delays `Settle` |
| `_daemon.json`, the sweep of old snapshots | the marker is read by the status line and by the repair, which waits for it to age |
| frame limits and encodings of the socket protocol | a frame that is not understood is `Silent` |
| an older build's protocol and locking of its own | it opens, probes, binds, writes and closes where that meets this generation (`RuntimeOwnership`, `StorageCutover`); in `HookService` it begins to serve in one step and answers no hello |
| SQLite itself, `flock`, `rename`, `mkdir` | external; atomic and durable as documented, locks die with their process |
| detectors, masking, minimisation, rendering, settings, origins of commands, parsing of payloads | pure functions of text; they appear as sets of credentials, findings or batches |
| the choice of the session an audit is about | a read of `State.live` and the ledger |
| doctor, MCP server, local UI, scripts | readers of committed state, or tools outside the running system |

## Plan

The modules of the first plan are all there. What would come next:

1. `_daemon.json`: the heartbeat that the repair waits for and the mark of
   unobserved hooks that the status line shows.
2. `HookService`'s daemon as a refinement of the serving part of
   `RuntimeOwnership`'s.

Bounds stay at two or three of everything, one passing run per module, with its
safety and its liveness on one instance.

## Running it

```
tlc -workers 2 -config MCOwnership.cfg MCRuntimeOwnership
tlapm RuntimeOwnership_proofs.tla
```

`PROJECT.json` lists the module and the configuration of every run.
