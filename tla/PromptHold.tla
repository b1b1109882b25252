----------------------------- MODULE PromptHold -----------------------------
(***************************************************************************)
(* The credential-prompt confirmation gate of ONE Codex session            *)
(* (prompt_hold.PromptGate) together with the handler that drives it       *)
(* (dispatch.dispatch, the UserPromptSubmit path).                         *)
(*                                                                         *)
(* Each request is a worker thread of the daemon.  It takes State.lock     *)
(* three times and runs unlocked in between, so every action below is one  *)
(* lock hold, and the interleavings are the ones the threads can produce:  *)
(*                                                                         *)
(*   Submit      submitted_at is read from the clock, before any lock      *)
(*   Resolve     lock 1: the session's engine is looked up or attached     *)
(*   Decide...   lock 2: the gate rules; a hold is recorded and answered   *)
(*   (unlocked)  the deep scan                                             *)
(*   Observe...  lock 3: the observation is recorded and the               *)
(*               confirmation is finished                                  *)
(*                                                                         *)
(* SessionStart, SessionEnd and the death of the daemon interleave with    *)
(* all of them.  A prompt is abstracted to the set of hold-eligible        *)
(* credentials found in it, and belongs to the delivery key its hook       *)
(* invocation drew: two requests with one key are one delivery, twice.     *)
(***************************************************************************)
EXTENDS Integers, FiniteSets

CONSTANTS
    Requests,       \* hook invocations of UserPromptSubmit, each used once
    DeliveryKeys,   \* protocol-2 delivery keys
    Credentials,    \* hold-eligible credentials (stand for their salted hashes)
    MinGap,         \* prompt_hold.MIN_GAP
    Window,         \* prompt_hold.WINDOW
    MaxTime,        \* bound on the clock
    MaxGates,       \* bound on the engines (hence gates) ever registered
    NoVerdict       \* "no verdict stored"

ASSUME GapAssumption == MinGap \in Nat \ {0} /\ Window \in Nat

ASSUME BoundAssumption == MaxTime \in Nat /\ MaxGates \in Nat

ASSUME VerdictAssumption == NoVerdict \notin [by : Requests, hold : BOOLEAN,
                                              confirmed : SUBSET Credentials]

VARIABLES
    prompt,         \* the prompt each delivery carries (never changes)
    now,            \* State.prompt_clock
    ended,          \* sessions.ended_at is set
    registered,     \* state.engines holds an engine for the session
    gate,           \* generation of the last gate registered (0: none yet)
    pending,        \* PromptGate.pending: credential -> start of its hold
    allowed,        \* PromptGate.allowed
    deliveries,     \* PromptGate.deliveries: delivery key -> verdict
    reserved,       \* PromptGate._confirmations ({} is "no entry")
    req             \* the worker threads, and what each request came to

gateVars == <<pending, allowed, deliveries, reserved>>
vars == <<prompt, now, ended, registered, gate, pending, allowed, deliveries,
          reserved, req>>

-----------------------------------------------------------------------------
\* Types

NotPending == -1

\* `by`, the request that was ruled on, stands for the identity of the Python
\* object, which finish_confirmation compares with `is`.
Verdict == [by : Requests, hold : BOOLEAN, confirmed : SUBSET Credentials]

\* "idle" -> "arrived" -> "preflight" -> "scanning" -> a final stage.
\* "held": answered with a block, which says whether record_prompt_hold could
\* write the denial and is given either way;  "admitted": answered with an
\* allow;  "failed": no valid answer, which the hook client turns into an
\* unverified pass.
LiveStages  == {"arrived", "preflight", "scanning"}
FinalStages == {"held", "admitted", "failed"}

Request == [stage     : {"idle"} \cup LiveStages \cup FinalStages,
            key       : DeliveryKeys,
            at        : Nat,             \* submitted_at
            decidedAt : Nat,             \* the clock at lock 2
            gate      : Nat,             \* the gate it was ruled on by
            verdict   : Verdict \cup {NoVerdict},
            basis     : [Credentials -> Nat \cup {NotPending}],
                                         \* history: the windows it confirmed
            notice    : SUBSET Credentials]
                                         \* what its answer says it confirmed

TypeOK ==
    /\ prompt \in [DeliveryKeys -> SUBSET Credentials]
    /\ now \in Nat
    /\ ended \in BOOLEAN
    /\ registered \in BOOLEAN
    /\ gate \in Nat
    /\ pending \in [Credentials -> Nat \cup {NotPending}]
    /\ allowed \in SUBSET Credentials
    /\ deliveries \in [DeliveryKeys -> Verdict \cup {NoVerdict}]
    /\ reserved \in [DeliveryKeys -> SUBSET Credentials]
    /\ req \in [Requests -> Request]

NothingPending == [c \in Credentials |-> NotPending]
NoDeliveries   == [k \in DeliveryKeys |-> NoVerdict]
NoReservations == [k \in DeliveryKeys |-> {}]

Init ==
    /\ prompt \in [DeliveryKeys -> SUBSET Credentials]
    /\ now = 0
    /\ ended = FALSE
    /\ registered = FALSE
    /\ gate = 0
    /\ pending = NothingPending
    /\ allowed = {}
    /\ deliveries = NoDeliveries
    /\ reserved = NoReservations
    /\ req \in [Requests -> {[stage |-> "idle", key |-> k, at |-> 0,
                              decidedAt |-> 0, gate |-> 0,
                              verdict |-> NoVerdict,
                              basis |-> NothingPending, notice |-> {}] :
                              k \in DeliveryKeys}]

\* The hold-eligible credentials the request's delivery carries.
Creds(r) == prompt[req[r].key]

-----------------------------------------------------------------------------
\* The engine

\* _get_or_start_engine for a session that has not ended: the registered
\* engine, or a new one with an empty gate.  (The gate of a discarded engine
\* has been cleared, so the variables already read as an empty one.)
ResolveEngine ==
    /\ ~ended
    /\ registered' = TRUE
    /\ gate' = IF registered THEN gate ELSE gate + 1
    /\ UNCHANGED ended

\* For an ended session _get_or_start_engine returns a temporary engine that
\* is never registered: its gate starts empty and dies with the request.
TemporaryEngine == ended /\ UNCHANGED <<ended, registered, gate>>

\* _discard_session_identity: clear_session_identity clears the gate and the
\* engine leaves state.engines.
DiscardIdentity ==
    /\ registered' = FALSE
    /\ pending' = NothingPending
    /\ allowed' = {}
    /\ deliveries' = NoDeliveries
    /\ reserved' = NoReservations

-----------------------------------------------------------------------------
\* PromptGate

\* Mutant: windows never expire.
NeverPruned == pending

\* The first lines of `decide`: windows that have expired are dropped.
Pruned == [c \in Credentials |-> IF pending[c] # NotPending
                                    /\ now > pending[c] + Window
                                 THEN NotPending ELSE pending[c]]

Unapproved(creds) == creds \ allowed

\* `decide` rules in this order.
\* (Mutant DoubleSubmitPasses: a submission queued behind its own hold passes.)
NewlySeen(creds) == \E c \in Unapproved(creds) : Pruned[c] = NotPending
DoubleSubmitPasses(creds, at) ==
    \E c \in Unapproved(creds) : at < Pruned[c]
TooSoon(creds, at) ==
    \E c \in Unapproved(creds) : at < Pruned[c] + MinGap

Holds(creds, at) == NewlySeen(creds) \/ TooSoon(creds, at)

\* What a hold does to the windows: a submission with any credential not
\* pending restarts the window of every unapproved one; one that only came
\* too soon leaves them as they were.
WindowsAfterHold(creds) ==
    IF NewlySeen(creds)
    THEN [c \in Credentials |-> IF c \in Unapproved(creds) THEN now
                                                           ELSE Pruned[c]]
    ELSE Pruned

\* What a confirmation does to them: it consumes every window it rests on.
\* (Mutant KeptWindows: the window stays open.)
KeptWindows(confirmed) == Pruned
WindowsAfterConfirmation(confirmed) ==
    [c \in Credentials |-> IF c \in confirmed THEN NotPending ELSE Pruned[c]]

NewVerdict(r, hold, confirmed) ==
    [by |-> r, hold |-> hold, confirmed |-> confirmed]

\* finish_confirmation on the registered gate; `req[r].gate # gate` is a gate
\* that was cleared with its engine, where the stored verdict is gone.
Live(r) == /\ req[r].gate = gate
           /\ deliveries[req[r].key] = req[r].verdict

\* Recorded: what was reserved becomes reusable and stops waiting.
StopsWaiting(creds) ==
    [c \in Credentials |-> IF c \in creds THEN NotPending ELSE pending[c]]

FinishRecorded(r) ==
    IF Live(r)
    THEN /\ allowed' = allowed \cup reserved[req[r].key]
         /\ pending' = StopsWaiting(reserved[req[r].key])
         /\ reserved' = [reserved EXCEPT ![req[r].key] = {}]
         /\ UNCHANGED deliveries
    ELSE UNCHANGED gateVars

\* Mutants: a failure that forgets to release what it had reserved, and one
\* that rolls the windows back over other deliveries' holds.
FailedKeepsReservation(r) ==
    IF Live(r)
    THEN /\ deliveries' = [deliveries EXCEPT ![req[r].key] = NoVerdict]
         /\ UNCHANGED <<pending, allowed, reserved>>
    ELSE UNCHANGED gateVars

FailedRollsBack(r) ==
    IF Live(r) /\ reserved[req[r].key] # {}
    THEN /\ deliveries' = [deliveries EXCEPT ![req[r].key] = NoVerdict]
         /\ reserved' = [reserved EXCEPT ![req[r].key] = {}]
         /\ pending' = NothingPending
         /\ UNCHANGED allowed
    ELSE UNCHANGED gateVars

\* Failed: the reservation and the verdict are forgotten, nothing else is.
FinishFailed(r) ==
    IF Live(r) /\ reserved[req[r].key] # {}
    THEN /\ deliveries' = [deliveries EXCEPT ![req[r].key] = NoVerdict]
         /\ reserved' = [reserved EXCEPT ![req[r].key] = {}]
         /\ UNCHANGED <<pending, allowed>>
    ELSE UNCHANGED gateVars
-----------------------------------------------------------------------------
\* The request handler

\* dispatch reads prompt_clock before anything else.
Submit(r) ==
    /\ req[r].stage = "idle"
    /\ req' = [req EXCEPT ![r] = [@ EXCEPT !.stage = "arrived", !.at = now]]
    /\ UNCHANGED <<prompt, now, ended, registered, gate, gateVars>>

\* Lock 1, then the unlocked regex scan.  A prompt without a hold-eligible
\* credential goes straight to the deep scan.
Resolve(r) ==
    /\ req[r].stage = "arrived"
    /\ ResolveEngine \/ TemporaryEngine
    /\ req' = [req EXCEPT ![r] = [@ EXCEPT
                 !.stage = IF Creds(r) = {} THEN "scanning" ELSE "preflight"]]
    /\ UNCHANGED <<prompt, now, gateVars>>

\* The request as the gate left it, on its way to `stage`.
Ruled(r, stage, v, basis) ==
    [req EXCEPT ![r] = [@ EXCEPT !.stage = stage, !.decidedAt = now,
                                 !.gate = gate', !.verdict = v,
                                 !.basis = basis]]

\* Lock 2 on a registered gate: the verdict is stored and, when it is a hold,
\* answered with a block, whether or not the ledger took its record.
RuleHold(r) ==
    /\ req[r].stage = "preflight"
    /\ ResolveEngine
    /\ deliveries[req[r].key] = NoVerdict
    /\ Holds(Creds(r), req[r].at)
    /\ LET v == NewVerdict(r, TRUE, {}) IN
       /\ pending' = WindowsAfterHold(Creds(r))
       /\ deliveries' = [deliveries EXCEPT ![req[r].key] = v]
       /\ req' = Ruled(r, "held", v, NothingPending)
    /\ UNCHANGED <<prompt, now, allowed, reserved>>

\* Lock 2, no hold and nothing to confirm.
RuleAdmit(r) ==
    /\ req[r].stage = "preflight"
    /\ ResolveEngine
    /\ deliveries[req[r].key] = NoVerdict
    /\ Unapproved(Creds(r)) = {}
    /\ LET v == NewVerdict(r, FALSE, {}) IN
       /\ pending' = Pruned
       /\ deliveries' = [deliveries EXCEPT ![req[r].key] = v]
       /\ req' = Ruled(r, "scanning", v, NothingPending)
    /\ UNCHANGED <<prompt, now, allowed, reserved>>

\* Lock 2, a confirmation: the windows are consumed and the credentials are
\* reserved for this delivery, not yet allowed.
RuleConfirm(r) ==
    /\ req[r].stage = "preflight"
    /\ ResolveEngine
    /\ deliveries[req[r].key] = NoVerdict
    /\ Unapproved(Creds(r)) # {}
    /\ ~Holds(Creds(r), req[r].at)
    /\ LET confirmed == Unapproved(Creds(r))
           v == NewVerdict(r, FALSE, confirmed) IN
       /\ pending' = WindowsAfterConfirmation(confirmed)
       /\ reserved' = [reserved EXCEPT ![req[r].key] = confirmed]
       /\ deliveries' = [deliveries EXCEPT ![req[r].key] = v]
       /\ req' = Ruled(r, "scanning", v,
                       [c \in Credentials |-> IF c \in confirmed THEN Pruned[c]
                                                              ELSE NotPending])
    /\ UNCHANGED <<prompt, now, allowed>>

\* Lock 2, a delivery key the gate has already ruled on: the stored verdict
\* again, before the windows are even pruned.
Replay(r) ==
    /\ req[r].stage = "preflight"
    /\ ResolveEngine
    /\ deliveries[req[r].key] # NoVerdict
    /\ req' = Ruled(r, IF deliveries[req[r].key].hold THEN "held" ELSE "scanning",
                    deliveries[req[r].key], NothingPending)
    /\ UNCHANGED <<prompt, now, gateVars>>

\* Lock 2 for an ended session: a temporary engine's empty gate holds
\* whatever credential it is shown, and is dropped with the request.
RuleTemporary(r) ==
    /\ req[r].stage = "preflight"
    /\ TemporaryEngine
    /\ req' = [req EXCEPT ![r] = [@ EXCEPT !.stage = "held", !.decidedAt = now]]
    /\ UNCHANGED <<prompt, now, gateVars>>

\* Locks 1 and 2 can fail before the gate rules (the ledger read of
\* _get_or_start_engine), and a process-level interruption while a hold is
\* recorded restores the gate before it propagates.
PreflightFails(r) ==
    /\ req[r].stage \in {"arrived", "preflight"}
    /\ \/ ResolveEngine \/ TemporaryEngine
       \/ UNCHANGED <<ended, registered, gate>>
    /\ req' = [req EXCEPT ![r] = [@ EXCEPT !.stage = "failed"]]
    /\ UNCHANGED <<prompt, now, gateVars>>

\* Lock 3: the observation is recorded and summarised, the confirmation
\* finished, and the prompt admitted.
Observe(r) ==
    /\ req[r].stage = "scanning"
    /\ ResolveEngine \/ TemporaryEngine
    /\ IF Creds(r) = {} THEN UNCHANGED gateVars ELSE FinishRecorded(r)
    /\ req' = [req EXCEPT ![r] = [@ EXCEPT
                 !.stage = "admitted",
                 !.notice = IF Creds(r) # {} /\ Live(r)
                            THEN req[r].verdict.confirmed ELSE {}]]
    /\ UNCHANGED <<prompt, now>>

\* The deep scan, the engine lookup, the recording or the summary raises:
\* the confirmation is finished as failed and the exception propagates.
ObserveFails(r) ==
    /\ req[r].stage = "scanning"
    /\ \/ ResolveEngine \/ TemporaryEngine
       \/ UNCHANGED <<ended, registered, gate>>
    /\ IF Creds(r) = {} THEN UNCHANGED gateVars ELSE FinishFailed(r)
    /\ req' = [req EXCEPT ![r] = [@ EXCEPT !.stage = "failed"]]
    /\ UNCHANGED <<prompt, now>>

Decide(r) == \/ RuleHold(r) \/ RuleAdmit(r) \/ RuleConfirm(r)
             \/ Replay(r) \/ RuleTemporary(r)

-----------------------------------------------------------------------------
\* What happens around the requests

\* _handle_session_start: an ended or registered session changes nothing.
SessionStart ==
    /\ ~registered
    /\ ResolveEngine
    /\ UNCHANGED <<prompt, now, gateVars, req>>

\* _handle_session_end: the identity is discarded in a `finally`, whether or
\* not the end was persisted.
SessionEnd ==
    /\ \/ ended' = TRUE
       \/ ended' = ended /\ gate < MaxGates
    /\ DiscardIdentity
    /\ UNCHANGED <<prompt, now, gate, req>>

\* The daemon process dies and another one takes its place: every thread is
\* lost with everything in memory, and the ledger keeps the session.
DaemonDies ==
    /\ gate < MaxGates
    /\ DiscardIdentity
    /\ req' = [r \in Requests |-> IF req[r].stage \in LiveStages
                                  THEN [req[r] EXCEPT !.stage = "failed"]
                                  ELSE req[r]]
    /\ UNCHANGED <<prompt, now, ended, gate>>

Tick ==
    /\ now < MaxTime
    /\ now' = now + 1
    /\ UNCHANGED <<prompt, ended, registered, gate, gateVars, req>>

Handle(r) == \/ Resolve(r) \/ Decide(r) \/ PreflightFails(r)
             \/ Observe(r) \/ ObserveFails(r)

Next ==
    \/ \E r \in Requests : Submit(r) \/ Handle(r)
    \/ SessionStart
    \/ SessionEnd
    \/ DaemonDies
    \/ Tick

Spec == Init /\ [][Next]_vars

-----------------------------------------------------------------------------
\* Properties

\* A request that was answered with a block on the session's own gate.
Blocked(r) == req[r].stage = "held" /\ req[r].gate > 0

\* h started the window that d's ruling consumed for c: d came at least
\* MinGap after h was answered and was ruled on before the window closed.
ConfirmsHold(d, h, c) ==
    /\ Blocked(h) /\ req[h].gate = req[d].gate
    /\ c \in Creds(h) \cap Creds(d)
    /\ req[d].basis[c] = req[h].decidedAt
    /\ req[d].at >= req[h].decidedAt + MinGap
    /\ req[d].decidedAt <= req[h].decidedAt + Window

\* A credential is reusable only if some delivery confirmed a hold the user
\* was answered with, in time, AND that delivery's admission was recorded
\* (dispatch: "Commit only after recording, and only on the original gate").
AllowedWasConfirmedAndRecorded ==
    \A c \in allowed : \E h, d, g \in Requests :
        /\ ConfirmsHold(d, h, c)
        /\ req[d].verdict # NoVerdict
        /\ req[g].stage = "admitted"
        /\ req[g].verdict = req[d].verdict
        /\ req[d].gate = gate

\* No prompt reaches the deep scan, and so admission, with a credential the
\* user had not been shown a hold for on the same gate: the whole point of
\* the preflight, whatever confirmations, replays and failures ran besides.
AdmittedOnlyAfterWarning ==
    \A r \in Requests :
        req[r].stage \in {"scanning", "admitted"} =>
            \A c \in Creds(r) : \E h \in Requests :
                /\ Blocked(h) /\ req[h].gate = req[r].gate
                /\ c \in Creds(h)
                /\ req[h].decidedAt + MinGap <= req[r].decidedAt

\* One hold opens the door once: two rulings on one gate never consume the
\* same window of a credential, whether the first one was recorded or failed
\* (decide: "Other deliveries cannot borrow this unrecorded authorization").
OneHoldOneConfirmation ==
    \A r1, r2 \in Requests : \A c \in Credentials :
        /\ r1 # r2 /\ req[r1].gate = req[r2].gate
        /\ req[r1].basis[c] # NotPending
        => req[r1].basis[c] # req[r2].basis[c]

\* A reservation always has a thread that will still finish it, so none can
\* leak and none can be finished by a stranger.
ReservationHasOwner ==
    \A k \in DeliveryKeys : reserved[k] # {} =>
        \E r \in Requests :
            /\ req[r].stage = "scanning" /\ req[r].key = k
            /\ req[r].gate = gate
            /\ deliveries[k] # NoVerdict
            /\ req[r].verdict = deliveries[k]
            /\ deliveries[k].confirmed = reserved[k]

\* "A concurrent hold therefore survives failure" (finish_confirmation), and
\* so does every authorization: while the engine lives, a request that fails
\* takes no window and no reusable credential away.
FailureTakesNothing ==
    [][ \A r \in Requests :
          (/\ req[r].stage \in LiveStages /\ req'[r].stage = "failed"
           /\ registered /\ registered')
          => /\ allowed \subseteq allowed'
             /\ \A c \in Credentials : pending'[c] = pending[c] ]_vars

\* Nothing of a session's confirmation state comes back after its identity
\* was discarded: no late completion writes to a gate that is not registered.
DiscardedGateStaysEmpty ==
    ~registered => /\ allowed = {} /\ pending = NothingPending
                   /\ deliveries = NoDeliveries /\ reserved = NoReservations
=============================================================================
