-------------------------- MODULE AccountedSession --------------------------
(***************************************************************************)
(* Version-2 accounting of ONE Codex session: its rows in the ledger       *)
(* (ledger.py), the accounting key and engine the daemon holds for it      *)
(* (dispatch.py), and the deliveries that reach both (engine.py).          *)
(*                                                                         *)
(* A handler holds State.lock from the read of the session row to the last *)
(* write, so handlers do not interleave; what can happen between two of    *)
(* their steps is that one raises, and the lock is released, or that the   *)
(* daemon dies.  `job` is the handler that holds the lock.  It writes      *)
(* `work`, which SQLite commits to `db` or rolls back; other processes     *)
(* read `db`.                                                              *)
(*                                                                         *)
(* A key is a number: the n-th that os.urandom drew for the session.  The  *)
(* HMAC of x under key k is the pair of the two, so two hashes are equal   *)
(* when key and value are.  `of` in a row, and `value`, `to` in an event,  *)
(* say what the row is about: the code stores the hash only.               *)
(***************************************************************************)
EXTENDS Integers, Sequences, SequencesExt, FiniteSets, FiniteSetsExt

CONSTANTS
    Deliveries,     \* delivery keys of the session's other hook events
    Lifecycle,      \* the delivery key of a lifecycle observation
    Values,         \* sensitive values (and guarded files)
    Destinations,   \* recipients a hook event can name
    Unnamed,        \* one of them: a recipient the event could not identify
    DataTypes,      \* data types a value is found as
    Score,          \* budget.group_score: Score[t][n]
    Batches,        \* what one delivery can establish
    MaxProcesses    \* bound on the daemons that serve the session

\* A finding of a batch: `confirmed` is Evidence.CROSSING_CONFIRMED.
Findings == [value : Values, to : Destinations, type : DataTypes,
             confirmed : BOOLEAN]

\* `gap` is a scan that could not look at everything.
ASSUME BatchAssumption ==
    /\ Unnamed \in Destinations /\ Lifecycle \notin Deliveries
    /\ Batches \subseteq [findings : Seq(Findings), gap : BOOLEAN]

ASSUME FiniteAssumption ==
    /\ IsFiniteSet(Values) /\ IsFiniteSet(Destinations) /\ IsFiniteSet(DataTypes)
    /\ MaxProcesses \in Nat

\* group_score of nothing is 0, and _storable refuses a negative score and a
\* negative delta.  A group has at most one disclosure of each value.
ASSUME ScoreAssumption ==
    \A t \in DataTypes :
        /\ Score[t][0] = 0
        /\ \A n \in 0..Cardinality(Values) : Score[t][n] \in Nat
        /\ \A n \in 1..Cardinality(Values) : Score[t][n - 1] <= Score[t][n]

VARIABLES
    db,             \* the session's rows, as committed
    work,           \* the rows as the open transaction sees them
    job,            \* the handler that holds State.lock
    process,        \* the observer id of the current or last daemon
    up,             \* a daemon is serving
    key,            \* state.accounting_keys of the session (0: none)
    engine,         \* the registered engine's accounting key, or NoEngine
    drawn,          \* how many keys were drawn
    answers         \* history: the results given for each delivery

memory == <<key, engine>>
vars == <<db, work, job, process, up, key, engine, drawn, answers>>

-----------------------------------------------------------------------------
\* The ledger

NoEngine == -1

\* A subject or recipient row.  key 0 is a NULL identity_hash; an unresolved
\* row belongs to the observation that made it.
Identity(X) == [key : Nat, of : X, resolved : BOOLEAN,
                by : Deliveries \cup {Lifecycle}]

Event == [delivery : Deliveries, subject : Nat, recipient : Nat,
          type : DataTypes, confirmed : BOOLEAN, value : Values,
          to : Destinations]

\* `n` is group_n, its place in the group that its delta is reckoned by.
Disclosure == [event : Nat, subject : Nat, recipient : Nat,
               type : DataTypes, n : Nat, delta : Nat]

Ledger == [version      : 0..2,       \* 0: no session row, 1: legacy
           available    : BOOLEAN,    \* accounting_status
           ended        : BOOLEAN,    \* ended_at is set
           score        : Nat,        \* budget_score
           watch        : SUBSET [observer : 1..MaxProcesses, start : BOOLEAN],
           missed       : BOOLEAN,    \* unobserved_hooks since started_at
           observations : SUBSET [delivery : Deliveries \cup {Lifecycle},
                                  observer : 1..MaxProcesses, gap : BOOLEAN],
           subjects     : Seq(Identity(Values)),
           recipients   : Seq(Identity(Destinations)),
           events       : Seq(Event),
           disclosures  : Seq(Disclosure)]

EmptyLedger == [version |-> 0, available |-> TRUE, ended |-> FALSE,
                score |-> 0, watch |-> {}, missed |-> FALSE,
                observations |-> {}, subjects |-> <<>>, recipients |-> <<>>,
                events |-> <<>>, disclosures |-> <<>>]

Steps == {"idle", "starting", "installing", "observing", "recording"}

Idle == [at |-> "idle", delivery |-> Lifecycle,
         batch |-> [findings |-> <<>>, gap |-> FALSE], done |-> 0,
         delta |-> 0]

Result == [events : SUBSET Nat, disclosures : SUBSET Nat, delta : Nat]

TypeOK ==
    /\ db \in Ledger /\ work \in Ledger
    /\ job \in [at : Steps, delivery : Deliveries \cup {Lifecycle},
                batch : [findings : Seq(Findings), gap : BOOLEAN],
                done : Nat, delta : Nat]
    /\ process \in 0..MaxProcesses
    /\ up \in BOOLEAN
    /\ key \in Nat /\ engine \in Nat \cup {NoEngine} /\ drawn \in Nat
    /\ answers \in [Deliveries -> SUBSET Result]

Init ==
    /\ db = EmptyLedger /\ work = EmptyLedger
    /\ job = Idle
    /\ process = 0 /\ up = FALSE
    /\ key = 0 /\ engine = NoEngine /\ drawn = 0
    /\ answers = [d \in Deliveries |-> {}]

Open(L) == L.version = 2 /\ L.available /\ ~L.ended

\* mark_accounting_unavailable
Unavailable(L) == [L EXCEPT !.available = FALSE]

\* The coverage row of start_session, INSERT OR IGNORE: an observer has one.
\* (Mutant: a session has one.)
WatchedOnce(L, start) ==
    IF L.watch # {} THEN L
    ELSE [L EXCEPT !.watch = @ \cup {[observer |-> process, start |-> start]}]
Watched(L, start) ==
    IF \E w \in L.watch : w.observer = process THEN L
    ELSE [L EXCEPT !.watch = @ \cup {[observer |-> process, start |-> start]}]

Observed(L, d, gap) ==
    [L EXCEPT !.observations = @ \cup {[delivery |-> d, observer |-> process,
                                        gap |-> gap]}]

Recorded(L, d) == \E o \in L.observations : o.delivery = d

\* The row of x in `table` for the hash under k (for 0: an unresolved one of
\* this observation), and the table with the row that was missing.
\* _identity: two hashes are equal when the key and the text are.
SameIdentity(row, k, x) == row.key = k /\ row.of = x

\* (Mutant LocalRows: resolved rows are looked up in this observation too.)
LocalRows(table, k, x, d) ==
    {i \in 1..Len(table) :
        table[i].of = x /\ table[i].key = k /\ table[i].by = d}
Rows(table, k, x, d) ==
    {i \in 1..Len(table) :
        IF k = 0 THEN table[i].of = x /\ ~table[i].resolved /\ table[i].by = d
                 ELSE SameIdentity(table[i], k, x)}

WithRow(table, k, x, d) ==
    IF Rows(table, k, x, d) # {} THEN table
    ELSE Append(table, [key |-> k, of |-> x, resolved |-> k # 0, by |-> d])

RowOf(table, k, x, d) == CHOOSE i \in Rows(WithRow(table, k, x, d), k, x, d) :
                            TRUE

\* The disclosures that count into the group of a charge.
\* (Mutant: the group is the data type, whoever received it.)
TypeGroup(L, t, recipient) ==
    {i \in 1..Len(L.disclosures) : L.disclosures[i].type = t}
Group(L, t, recipient) ==
    {i \in 1..Len(L.disclosures) : /\ L.disclosures[i].type = t
                                   /\ L.disclosures[i].recipient = recipient}

\* end_session's erasure of the identity hashes.
\* (Mutant: the recipients are forgotten.)
Nulled(table) == [i \in 1..Len(table) |-> [table[i] EXCEPT !.key = 0]]
SubjectsErased(L) == [L EXCEPT !.subjects = Nulled(@)]
Erased(L) == [L EXCEPT !.subjects = Nulled(@), !.recipients = Nulled(@)]

-----------------------------------------------------------------------------
\* What the ledger answers

\* The deltas of its disclosures.
Deltas(L) == [i \in 1..Len(L.disclosures) |-> L.disclosures[i].delta]

\* _recorded_result: a recorded delivery's result, from the immutable rows.
\* (Mutant PairResult: by the pairs its events name.)
ResultOf(L, d, paid) ==
    [events |-> {i \in 1..Len(L.events) : L.events[i].delivery = d},
     disclosures |-> paid,
     delta |-> SumFunctionOnSet(Deltas(L), paid)]

PairResult(L, d) ==
    ResultOf(L, d, {i \in 1..Len(L.disclosures) :
        \E j \in 1..Len(L.events) :
            /\ L.events[j].delivery = d
            /\ L.events[j].subject = L.disclosures[i].subject
            /\ L.events[j].recipient = L.disclosures[i].recipient})

RecordedResult(L, d) ==
    ResultOf(L, d, {i \in 1..Len(L.disclosures) :
        L.events[L.disclosures[i].event].delivery = d})

\* SessionCoverage.verified.  The session is taken to be the newest in the
\* ledger, for which every missed hook counts.
Verified(L) ==
    /\ Cardinality(L.watch) = 1
    /\ \A w \in L.watch : w.start
    /\ ~L.missed
    /\ \A o \in L.observations : ~o.gap

\* _summary_v2: the percentage is shown when nothing stands in its way.  (The
\* unresolved actions of resolve_outcomes, one more reason to withhold it,
\* are not modelled: this shows it at least as often as the code.)
PercentShown(L) ==
    /\ L.version = 2 /\ L.available /\ Verified(L)
    /\ \A i \in 1..Len(L.events) :
          /\ L.subjects[L.events[i].subject].resolved
          /\ L.recipients[L.events[i].recipient].resolved

\* _v2_events: an event shows the delta of the disclosure it first charged,
\* and every other one nothing.
DeltaShown(L, i) ==
    SumFunctionOnSet(Deltas(L), {j \in 1..Len(L.disclosures) :
                                    L.disclosures[j].event = i})

-----------------------------------------------------------------------------
\* Helpers of the handlers

Registered == engine # NoEngine

\* _get_or_start_engine and _handle_session_start find nothing to attach for
\* an ended or a registered session.
Resolved == db.version # 0 /\ (db.ended \/ Registered)

\* Only an absent session has a genuine start.
\* (Mutant: one with no engine here does.)
NoEngineHere == db.version # 1 /\ ~db.ended /\ ~Registered
GenuineStart == db.version = 0

\* _attach_keyless_v2: the lost key is written down before anything else.
MustMark(L) == L.version = 2 /\ L.available /\ key = 0

\* The keys _observe_v2 and the hook adapter hash with, read when used.
SubjectKey == IF Open(work) /\ Registered THEN engine ELSE 0
RecipientKey(to) == IF SubjectKey = 0 \/ to = Unnamed THEN 0 ELSE key

\* _discard_session_identity
DiscardIdentity == key' = 0 /\ engine' = NoEngine

\* The handler returns, or raises: what was not committed is rolled back.
\* (Mutant: what was written before the exception is committed.)
Return == job' = Idle
CommitOnError == db' = work /\ UNCHANGED work
Rollback == work' = db /\ UNCHANGED db

Committed(L) == db' = L /\ work' = L

\* coalesce_value_findings, and _unresolved_value_findings without a key: a
\* pair is named once, as the heaviest type that a detector gave it, and a
\* receipt that names it adds its evidence.
SamePair(f, g) == f.value = g.value /\ f.to = g.to

Heaviest(types) == CHOOSE t \in types : \A u \in types : Score[t][1] >= Score[u][1]

\* The members of a finite set of numbers, in order.
InOrder(S) == CHOOSE q \in [1..Cardinality(S) -> S] :
                  \A i, j \in 1..Cardinality(S) : i < j => q[i] < q[j]

Coalesced(fs) ==
    LET first == {i \in DOMAIN fs : \A j \in 1..(i - 1) : ~SamePair(fs[i], fs[j])}
        Merged(i) ==
            LET same == {fs[j] : j \in {j \in DOMAIN fs : SamePair(fs[i], fs[j])}}
            IN [fs[i] EXCEPT !.type = Heaviest({f.type : f \in same}),
                             !.confirmed = \E f \in same : f.confirmed]
        order == InOrder(first)
    IN [k \in DOMAIN order |-> Merged(order[k])]

-----------------------------------------------------------------------------
\* Handlers

\* A SessionStart, or another hook event, is dispatched and takes the lock.
StartArrives ==
    /\ up /\ job = Idle
    /\ job' = [Idle EXCEPT !.at = "starting"]
    /\ UNCHANGED <<db, work, process, up, memory, drawn, answers>>

HookArrives(d, b) ==
    /\ up /\ job = Idle
    /\ job' = [Idle EXCEPT !.at = "observing", !.delivery = d,
                           !.batch = [b EXCEPT !.findings = Coalesced(@)]]
    /\ UNCHANGED <<db, work, process, up, memory, drawn, answers>>

\* A replayed start of a known session changes nothing.
StartKnown ==
    /\ job.at = "starting"
    /\ Resolved
    /\ Return
    /\ UNCHANGED <<db, work, process, up, memory, drawn, answers>>

\* _insert_v2_session: the session's row and its start coverage.
Opened(L) == Watched([L EXCEPT !.version = 2], TRUE)

\* start_accounted_session: session, start coverage and start observation are
\* one commit.  The key is only a candidate until then.
Activate ==
    /\ job.at = "starting"
    /\ GenuineStart
    /\ Committed(Observed(Opened(db), Lifecycle, FALSE))
    /\ job' = [job EXCEPT !.at = "installing"]
    /\ UNCHANGED <<process, up, memory, drawn, answers>>

Install ==
    /\ job.at = "installing"
    /\ drawn' = drawn + 1
    /\ key' = drawn + 1 /\ engine' = drawn + 1
    /\ Return
    /\ UNCHANGED <<db, work, process, up, answers>>

\* Installation fails after the commit: the account is closed before anything
\* else can be recorded, unless closing it fails too.
InstallFails ==
    /\ job.at = "installing"
    /\ DiscardIdentity
    /\ Committed(db) \/ Committed(Unavailable(db))
    /\ drawn' = drawn + 1
    /\ Return
    /\ UNCHANGED <<process, up, answers>>

\* _attach_keyless_v2, first commit.
MarkUnavailable ==
    /\ job.at \in {"starting", "observing"}
    /\ ~Resolved
    /\ MustMark(db)
    /\ Committed(Unavailable(db))
    /\ UNCHANGED <<job, process, up, memory, drawn, answers>>

\* start_session, by _attach_keyless_v2, by the legacy branch of
\* _handle_session_start or by _get_or_start_engine, and the engine without an
\* accounting key.  A hook event of an absent session creates a legacy row.
AttachKeyless ==
    /\ job.at \in {"starting", "observing"}
    /\ ~Resolved
    /\ ~MustMark(db)
    /\ job.at = "starting" => ~GenuineStart
    /\ Committed(Watched(IF db.version = 0 THEN [db EXCEPT !.version = 1]
                                           ELSE db,
                         job.at = "starting"))
    /\ engine' = 0
    /\ UNCHANGED <<job, process, up, key, drawn, answers>>

\* A legacy session's findings go to legacy rows, which are not modelled.
ObserveLegacy ==
    /\ job.at = "observing"
    /\ Resolved
    /\ db.version = 1
    /\ Return
    /\ UNCHANGED <<db, work, process, up, memory, drawn, answers>>

\* record_observation of a delivery key already recorded.
ObserveAgain ==
    /\ job.at = "observing"
    /\ Resolved
    /\ db.version = 2
    /\ Recorded(db, job.delivery)
    /\ answers' = [answers EXCEPT ![job.delivery] =
                      @ \cup {RecordedResult(db, job.delivery)}]
    /\ Return
    /\ UNCHANGED <<db, work, process, up, memory, drawn>>

\* record_observation opens its transaction with the observation row.
BeginRecord ==
    /\ job.at = "observing"
    /\ Resolved
    /\ db.version = 2
    /\ ~Recorded(db, job.delivery)
    /\ work' = Observed(db, job.delivery, job.batch.gap)
    /\ job' = [job EXCEPT !.at = "recording"]
    /\ UNCHANGED <<db, process, up, memory, drawn, answers>>

\* The ledger with one more event, and the disclosure it makes, if any.
Disclosed(L, subject, recipient) ==
    \E i \in 1..Len(L.disclosures) : /\ L.disclosures[i].subject = subject
                                     /\ L.disclosures[i].recipient = recipient

NextDelta(t, n) == Score[t][n + 1] - Score[t][n]

WithEvent(L, d, f, subject, recipient) ==
    [L EXCEPT
       !.subjects = WithRow(@, SubjectKey, f.value, d),
       !.recipients = WithRow(@, RecipientKey(f.to), f.to, d),
       !.events = Append(@, [delivery |-> d, subject |-> subject,
                             recipient |-> recipient, type |-> f.type,
                             confirmed |-> f.confirmed, value |-> f.value,
                             to |-> f.to])]

\* _chargeable, and the session side that record_observation adds.
Chargeable(f) ==
    Open(work) /\ f.confirmed /\ SubjectKey # 0 /\ RecipientKey(f.to) # 0

\* One turn of record_observation's loop.
AppendEvent ==
    /\ job.at = "recording"
    /\ job.done < Len(job.batch.findings)
    /\ LET f == job.batch.findings[job.done + 1]
           d == job.delivery
           subject == RowOf(work.subjects, SubjectKey, f.value, d)
           recipient == RowOf(work.recipients, RecipientKey(f.to), f.to, d)
           L == WithEvent(work, d, f, subject, recipient)
           charge == Chargeable(f) /\ ~Disclosed(work, subject, recipient)
           n == Cardinality(Group(work, f.type, recipient))
           delta == IF charge THEN NextDelta(f.type, n) ELSE 0 IN
       /\ work' = IF charge
                  THEN [L EXCEPT !.disclosures =
                          Append(@, [event |-> Len(L.events),
                                     subject |-> subject,
                                     recipient |-> recipient,
                                     type |-> f.type, n |-> n + 1,
                                     delta |-> delta])]
                  ELSE L
       /\ job' = [job EXCEPT !.done = @ + 1, !.delta = @ + delta]
    /\ UNCHANGED <<db, process, up, memory, drawn, answers>>

\* The score, the scan gap and COMMIT; the caller gets the new rows.
CommitRecord ==
    /\ job.at = "recording"
    /\ job.done = Len(job.batch.findings)
    /\ Committed([work EXCEPT !.score = @ + job.delta])
    /\ answers' = [answers EXCEPT ![job.delivery] = @ \cup
           {[events |-> (Len(db.events) + 1)..Len(work.events),
             disclosures |-> (Len(db.disclosures) + 1)..Len(work.disclosures),
             delta |-> job.delta]}]
    /\ Return
    /\ UNCHANGED <<process, up, memory, drawn>>

\* A step of a handler raises.
Raise ==
    /\ job.at \notin {"idle", "installing"}
    /\ Rollback
    /\ Return
    /\ UNCHANGED <<process, up, memory, drawn, answers>>

\* _handle_session_end: lifecycle observation, end and erasure are one commit;
\* the identity is discarded in `finally`.
SessionEnd ==
    /\ up /\ job = Idle
    /\ CASE db.version = 2 ->
                Committed(Erased(Observed([db EXCEPT !.ended = TRUE],
                                          Lifecycle, FALSE)))
         [] db.version = 1 -> Committed([db EXCEPT !.ended = TRUE])
         [] OTHER -> Committed(db)
    /\ DiscardIdentity
    /\ UNCHANGED <<job, process, up, drawn, answers>>

SessionEndFails ==
    /\ up /\ job = Idle
    /\ DiscardIdentity
    /\ UNCHANGED <<db, work, job, process, up, drawn, answers>>

-----------------------------------------------------------------------------
\* The daemon

\* The process ends, at any step of a handler.
DaemonDies ==
    /\ up
    /\ up' = FALSE
    /\ Rollback
    /\ Return
    /\ DiscardIdentity
    /\ UNCHANGED <<process, drawn, answers>>

\* new_state: the hook client's spawn latch may be evidence of hooks nobody
\* observed; then every open session's account is closed, or startup fails.
NoteMissed(L) == {L} \cup (IF L.version = 0 THEN {}
                           ELSE {[L EXCEPT !.missed = TRUE]})

StartDaemon ==
    /\ ~up /\ process < MaxProcesses
    /\ process' = process + 1
    /\ \E L \in NoteMissed(db) :
          \/ /\ up' = TRUE
             /\ Committed(IF L.version = 2 /\ ~L.ended THEN Unavailable(L)
                                                       ELSE L)
          \/ up' = FALSE /\ Committed(L)
    /\ UNCHANGED <<job, memory, drawn, answers>>

Starting == StartArrives \/ StartKnown \/ Activate \/ Install \/ InstallFails

Attaching == MarkUnavailable \/ AttachKeyless

Observing ==
    \/ \E d \in Deliveries, b \in Batches : HookArrives(d, b)
    \/ ObserveLegacy \/ ObserveAgain
    \/ BeginRecord \/ AppendEvent \/ CommitRecord

Next == \/ Starting \/ Attaching \/ Observing \/ Raise
        \/ SessionEnd \/ SessionEndFails
        \/ DaemonDies \/ StartDaemon

Spec == Init /\ [][Next]_vars

-----------------------------------------------------------------------------
\* The guards of the database: its triggers and unique indexes

\* sessions_accounting_frozen
SessionFrozen(L, M) ==
    /\ L.version # 0 => M.version = L.version
    /\ M.score >= L.score
    /\ M.available => L.available
    /\ L.ended => M.ended /\ M.score = L.score

\* The append-only triggers of the history
HistoryKept(L, M) ==
    /\ L.observations \subseteq M.observations /\ L.watch \subseteq M.watch
    /\ IsPrefix(L.events, M.events) /\ IsPrefix(L.disclosures, M.disclosures)

\* The triggers of subjects and recipients: nothing but an erasure after the
\* end changes a row, and a new hash needs an open, available session.
IdentitiesKept(old, new, M) ==
    /\ Len(old) <= Len(new)
    /\ \A i \in 1..Len(old) :
          new[i] = old[i] \/ (M.ended /\ new[i] = [old[i] EXCEPT !.key = 0])
    /\ \A i \in (Len(old) + 1)..Len(new) :
          /\ M.version = 2
          /\ new[i].resolved <=> new[i].key # 0
          /\ new[i].resolved => Open(M)

\* observations_v2_only, disclosures_chargeable
NewRowsAllowed(L, M) ==
    /\ M.observations # L.observations => M.version = 2
    /\ \A i \in (Len(L.disclosures) + 1)..Len(M.disclosures) :
          LET x == M.disclosures[i]
              e == M.events[x.event]
          IN /\ Open(M)
             /\ e.confirmed /\ e.type = x.type
             /\ e.subject = x.subject /\ e.recipient = x.recipient
             /\ M.subjects[x.subject].key # 0 /\ M.recipients[x.recipient].key # 0

\* subjects_identity and recipients_identity, and the keys of events (one
\* observation tells a pair once) and of disclosures
UniqueKept(M) ==
    /\ \A i, j \in DOMAIN M.subjects :
          (i < j /\ M.subjects[i].key # 0) =>
             <<M.subjects[i].key, M.subjects[i].of>> # <<M.subjects[j].key, M.subjects[j].of>>
    /\ \A i, j \in DOMAIN M.recipients :
          (i < j /\ M.recipients[i].key # 0) =>
             <<M.recipients[i].key, M.recipients[i].of>>
                # <<M.recipients[j].key, M.recipients[j].of>>
    /\ \A i, j \in DOMAIN M.events :
          i < j => <<M.events[i].delivery, M.events[i].subject, M.events[i].recipient>>
                      # <<M.events[j].delivery, M.events[j].subject, M.events[j].recipient>>
    /\ \A i, j \in DOMAIN M.disclosures :
          LET x == M.disclosures[i]
              y == M.disclosures[j]
          IN i < j => /\ <<x.subject, x.recipient>> # <<y.subject, y.recipient>>
                      /\ <<x.type, x.recipient, x.n>> # <<y.type, y.recipient, y.n>>
                      /\ x.event # y.event

GuardsPass(L, M) ==
    /\ SessionFrozen(L, M) /\ HistoryKept(L, M) /\ NewRowsAllowed(L, M) /\ UniqueKept(M)
    /\ IdentitiesKept(L.subjects, M.subjects, M)
    /\ IdentitiesKept(L.recipients, M.recipients, M)

-----------------------------------------------------------------------------
\* Properties

Pair(e) == <<e.value, e.to>>
EventOf(L, x) == L.events[x.event]

\* The charges made, by what they are really about.
Charged(L) ==
    {[value |-> EventOf(L, L.disclosures[i]).value,
      to |-> EventOf(L, L.disclosures[i]).to,
      type |-> L.disclosures[i].type] : i \in 1..Len(L.disclosures)}

Account == INSTANCE Accounting WITH
    charged <- Charged(db), points <- db.score,
    open <- db.version # 1 /\ db.available /\ ~db.ended

\* Every commit of the ledger is a step of the abstract account: no charge is
\* half made, made twice or made after the account closed, and the account
\* never opens again.
Implements == Account!Spec

\* All identities a session ever stored were hashed under one key: "a lost key
\* is never replaced".
OneNamespace ==
    \A L \in {db, work} :
        Cardinality(({L.subjects[i].key : i \in 1..Len(L.subjects)}
                     \cup {L.recipients[i].key : i \in 1..Len(L.recipients)})
                    \ {0}) <= 1

\* No write that the handlers make is one the database aborts: not the late
\* rows of an ended session, not a hash of an account that was closed, not a
\* pair that another delivery or another process charged.  An abort would
\* lose the observation.
NoWriteAborts ==
    [][(work' # db \/ db' # db) => GuardsPass(work, work')]_vars

\* "A delivery key already recorded in the session returns its original
\* result", after any number of other deliveries, restarts and the erasure.
SameAnswerForever == \A d \in Deliveries : Cardinality(answers[d]) <= 1

\* What the percentage has to be worth: each pair a recorded event confirmed,
\* as the type it was first confirmed with.
Confirmed(L) == {i \in 1..Len(L.events) : L.events[i].confirmed}
Owed(L) ==
    {[value |-> L.events[i].value, to |-> L.events[i].to,
      type |-> L.events[i].type] :
        i \in {i \in Confirmed(L) : \A j \in Confirmed(L) :
                  Pair(L.events[j]) = Pair(L.events[i]) => i <= j}}

\* A percentage is shown only when the score is worth exactly what the
\* recorded events confirm, and then it is what the listed events add up to;
\* otherwise it is withheld.
PercentIsExact ==
    PercentShown(db) =>
        /\ db.score = Account!Worth(Owed(db))
        /\ db.score = SumFunction([i \in 1..Len(db.events) |-> DeltaShown(db, i)])

\* Whoever recorded into an open session is on record as its observer, so a
\* second daemon cannot leave the account looking watched from its start.
OpenRecordsWatched ==
    ~db.ended => \A o \in db.observations :
                    \E w \in db.watch : w.observer = o.observer

\* After the end no row of the session and no process holds an identity.
ErasedAtEnd ==
    db.ended => /\ \A i \in 1..Len(db.subjects) : db.subjects[i].key = 0
                /\ \A i \in 1..Len(db.recipients) : db.recipients[i].key = 0
                /\ key = 0 /\ engine = NoEngine
=============================================================================
