-------------------------- MODULE ObservedSession --------------------------
(***************************************************************************)
(* One session as the daemon sees it: how it is met, ruled on and recorded. *)
(*                                                                         *)
(* A hook call is resolved to the session's engine under State.lock,       *)
(* scanned without it, and ruled on and recorded under it again; only the  *)
(* calls that carry findings or a scan gap matter here, and their findings *)
(* are an input.  The ruling reads the user's saved rules, the origins the *)
(* engine remembers and the one-shot consents.  The records are those of a *)
(* version-1 session: each is a transaction of its own, so the daemon may  *)
(* die between any two.  What a version-2 session writes is AccountedSession. *)
(*                                                                         *)
(* Daemons come and go.  What each saw is in the coverage table, and what  *)
(* none saw is there too when the hook client's latch tells of it.  Times  *)
(* are kept as far as coverage compares them: before the session began,    *)
(* inside it, or after its end.                                            *)
(***************************************************************************)
EXTENDS Naturals, Sequences, FiniteSets, FiniteSetsExt

CONSTANTS
    Calls,       \* the session's hook calls, each once
    Asks,        \* what each may be
    Rules,       \* the rules a user may save: <<type, selector>>
    Inherits,    \* whether the ledger may hold the session already
    MaxDaemons,  \* daemons started
    MaxConsents, \* consents for a call that were not replaced
    MaxSalts     \* engines created

Values == {"key", "mail", "path", "rule"}
Origins == {"f", "g"}

ASSUME SessionAssumption ==
    /\ IsFiniteSet(Calls)
    /\ \A c \in Calls : \A a \in Asks[c] :
         /\ a.event \in {"result", "out", "read"}
         /\ a.origin \in Origins \cup {"none"}
         /\ a.found \in Seq(Values)
         /\ {a.upload, a.gap, a.url} \subseteq BOOLEAN
    /\ Rules \subseteq {<<"mask", "mail">>} \cup ({"block_path"} \X Origins)
    /\ Inherits \in BOOLEAN
    /\ {MaxDaemons, MaxConsents} \subseteq Nat \ {0}
    /\ MaxSalts \in Nat \ {0}

VARIABLES
    session,    \* its row: state, version, and its stored score
    rows,       \* per legacy events table: its rows
    activated,  \* whether the ledger has been rebuilt
    watch,      \* the session's coverage rows
    noted,      \* times of the unattributed unobserved_hooks rows
    gaps,       \* the calls with a row in scan_gaps
    targets,    \* the rows of guard_targets
    newer,      \* whether a session that started later is on record
    rules,      \* the policy table
    tokens,     \* per arguments: the mode of the consent for that call
    latch,      \* when the hook client last tried to spawn a daemon
    daemon,     \* the daemon that serves, 0 for none
    epochs,     \* daemons started so far
    engine,     \* the session's registered engine
    salts,      \* salts drawn so far
    call,       \* per call: where it is, what it is, its ruling, what is left to record
    consents,   \* history: consents given and neither expired nor replaced
    unseen      \* history: calls of the open session that no daemon served

ledgerVars == <<session, rows, activated, watch, noted, gaps, targets, newer>>
userVars == <<rules, tokens, consents>>
daemonVars == <<daemon, epochs, engine, salts>>
vars == <<ledgerVars, userVars, latch, daemonVars, call, unseen>>

-----------------------------------------------------------------------------
(* Data *)

Tables == {"events", "events_legacy_v1"}
NoEngine == [salt |-> 0, key |-> FALSE, seen |-> {}, came |-> [v \in Values |-> "none"]]
NoAsk == [event |-> "result", origin |-> "none", found |-> <<>>,
          upload |-> FALSE, gap |-> FALSE, url |-> FALSE]

Modes == {"allow_once", "minimize"}

\* A row of sessions, of a legacy events table, of coverage, of guard_targets
Session == [state : {"absent", "open", "ended"}, version : 0..2, score : Nat]
Row == [call : Calls, value : Values, dest : {"external_net", "model_context", "local"},
        kind : {"prevented", "local_access", "exposed"}, count : Nat,
        salt : Nat, delta : Nat]
Watch == [by : 0..MaxDaemons, reason : {"session_start", "attached"}]
Mark == [call : Calls, path : Origins, same : SUBSET Calls]

\* The registered engine: its salt, whether it has the accounting key, its
\* GuardTargetIndex, and where it saw each value enter first.
Engine == [salt : Nat, key : BOOLEAN, seen : SUBSET [path : Origins, call : Calls],
           came : [Values -> Origins \cup {"none"}]]

\* A call and its Observation and Decision
Call == [pc : {"new", "scanning", "noting", "ruling", "recording", "done"},
         ask : (UNION {Asks[c] : c \in Calls}) \cup {NoAsk},
         ruling : {"none", "allow", "rewrite", "deny", "warn"},
         todo : Seq(Values \cup {"observation"})]

Found(a) == {a.found[i] : i \in DOMAIN a.found}

\* What a consent is given for: a call's arguments, as far as calls differ here
ArgumentsOf(a) == <<a.found, a.url>>

\* The arguments of the calls a consent can matter for
Arguments == {ArgumentsOf(a) : a \in {b \in UNION {Asks[c] : c \in Calls} :
                                             b.event = "out" /\ "key" \in Found(b)}}
Destination(a) ==
    CASE a.event = "out" -> "external_net" [] a.event = "result" -> "model_context"
      [] OTHER -> "local"

\* severity times multiplier: more for a credential, nothing on local reads
Contribution(v, dest) ==
    CASE dest = "local" -> 0 [] v = "key" -> 2 [] OTHER -> 1

\* The session's time
Now == CASE session.state = "absent" -> "before"
         [] session.state = "open" -> "inside"
         [] OTHER -> "after"

\* State.lock is held from the second resolution until the answer.
Locked == \E c \in Calls : call[c].pc \in {"noting", "ruling", "recording"}
MayLock == daemon # 0 /\ ~Locked

\* (Mutant AlwaysEvents: the table's name is not looked up again.)
AlwaysEvents == "events"

\* _legacy_events_table
LegacyTable == IF activated THEN "events_legacy_v1" ELSE "events"

\* A ledger and a session that were there before, watched by a daemon of
\* then: observer 0.
Init ==
    /\ activated = FALSE
    /\ \/ /\ session = [state |-> "absent", version |-> 0, score |-> 0]
          /\ watch = {}
       \/ /\ Inherits
          /\ session = [state |-> "open", version |-> 1, score |-> 0]
          /\ watch = {[by |-> 0, reason |-> "session_start"]}
    /\ rows = [t \in Tables |-> {}]
    /\ noted = {} /\ gaps = {} /\ targets = {} /\ newer = FALSE
    /\ rules = {}
    /\ tokens = [a \in Arguments |-> "none"] /\ consents = [a \in Arguments |-> 0]
    /\ latch = "none"
    /\ daemon = 0 /\ epochs = 0 /\ salts = 0 /\ engine = NoEngine
    /\ call = [c \in Calls |-> [pc |-> "new", ask |-> NoAsk, ruling |-> "none", todo |-> <<>>]]
    /\ unseen = {}

-----------------------------------------------------------------------------
(* Meeting the session *)

\* (Mutant OncePerSession: one row per session, whoever observes it.)
OncePerSession(reason) ==
    IF watch # {} THEN watch ELSE {[by |-> daemon, reason |-> reason]}

\* start_session: one row per session and observer, and the first stays
Watched(reason) ==
    IF \E w \in watch : w.by = daemon THEN watch
    ELSE watch \cup {[by |-> daemon, reason |-> reason]}

\* `keyed`: the engine has an accounting key.
Registers(version, reason, keyed) ==
    /\ session' = [session EXCEPT !.state = "open", !.version = version]
    /\ watch' = Watched(reason)
    /\ salts' = salts + 1
    /\ engine' = [NoEngine EXCEPT !.salt = salts + 1, !.key = keyed]

\* _get_or_start_engine: a session first met by an ordinary hook is attached,
\* and is version 1 when it is new.  An ended one gets a temporary engine.
Resolves ==
    IF session.state = "ended" \/ engine # NoEngine
    THEN UNCHANGED <<session, watch, salts, engine>>
    ELSE Registers(IF session.state = "absent" THEN 1 ELSE session.version, "attached", FALSE)

\* #54's rebuild, in the transaction of a genuine start
Rebuilds ==
    /\ activated' = TRUE
    /\ rows' = IF activated THEN rows
               ELSE [t \in Tables |-> IF t = "events_legacy_v1" THEN rows["events"] ELSE {}]

\* A genuine start activates version-2 accounting, under a key of its own.
SessionStarts ==
    /\ MayLock
    /\ session.state = "absent"
    /\ Registers(2, "session_start", TRUE)
    /\ Rebuilds
    /\ UNCHANGED <<noted, gaps, targets, newer, userVars, latch, daemon, epochs, call, unseen>>

\* A start of a session another daemon met: it keeps its version and has no key.
SessionResumes ==
    /\ MayLock
    /\ session.state = "open" /\ engine = NoEngine
    /\ Registers(session.version, "session_start", FALSE)
    /\ UNCHANGED <<rows, activated, noted, gaps, targets, newer, userVars, latch, daemon, epochs,
                   call, unseen>>

\* Another session is met after this one began: at its start, or later.
OtherStarts ==
    /\ MayLock
    /\ session.state # "absent"
    /\ ~newer /\ newer' = TRUE
    /\ Rebuilds \/ UNCHANGED <<activated, rows>>
    /\ UNCHANGED <<session, watch, noted, gaps, targets, userVars, latch, daemonVars, call,
                   unseen>>

\* end_session: its hashes are erased with its end.
SessionEnds ==
    /\ MayLock
    /\ session.state = "open"
    /\ session' = [session EXCEPT !.state = "ended"]
    /\ rows' = [rows EXCEPT ![LegacyTable] = {[r EXCEPT !.salt = 0] : r \in @}]
    /\ engine' = NoEngine
    /\ UNCHANGED <<activated, watch, noted, gaps, targets, newer, userVars, latch, daemon,
                   epochs, salts, call, unseen>>

\* The end was not written: the engine is discarded nevertheless.
EndFails ==
    /\ MayLock
    /\ session.state = "open" /\ engine # NoEngine
    /\ engine' = NoEngine
    /\ UNCHANGED <<ledgerVars, userVars, latch, daemon, epochs, salts, call, unseen>>

-----------------------------------------------------------------------------
(* Daemons *)

\* note_unobserved_hooks: the latch is evidence of hooks that reached no
\* daemon.  The row names no session.
NoteUnobservedHooks == noted' = noted \cup ({latch} \ {"none"})

\* new_state
DaemonStarts ==
    /\ daemon = 0
    /\ epochs < MaxDaemons
    /\ epochs' = epochs + 1
    /\ daemon' = epochs + 1
    /\ NoteUnobservedHooks
    /\ UNCHANGED <<session, rows, activated, watch, gaps, targets, newer, userVars, latch,
                   engine, salts, call, unseen>>

\* The client's own answer.  It recognises an outbound call by a URL or an mcp
\* tool (`url`); a shell command without one, which the daemon may take to be
\* outbound, goes on with a warning.
Fallback(a) == IF a.event = "out" /\ a.url THEN "deny" ELSE "warn"

InFlight(c) == call[c].pc \notin {"new", "done"}

DaemonDies ==
    /\ daemon # 0
    /\ daemon' = 0
    /\ engine' = NoEngine
    /\ call' = [c \in Calls |-> IF InFlight(c)
         THEN [call[c] EXCEPT !.pc = "done", !.todo = <<>>, !.ruling = Fallback(call[c].ask)]
         ELSE call[c]]
    /\ unseen' = unseen \cup {c \in Calls : InFlight(c) /\ session.state = "open"}
    /\ UNCHANGED <<ledgerVars, userVars, latch, epochs, salts>>

\* _spawn_daemon leaves its latch, unless one was just spawned or spawning is
\* off.
SpawnsDaemon(c) ==
    \/ /\ latch' = Now
       /\ unseen' = IF session.state = "open" THEN unseen \cup {c} ELSE unseen
    \/ UNCHANGED <<latch, unseen>>

\* A hook that reaches no daemon
Unserved(c) ==
    /\ daemon = 0
    /\ call[c].pc = "new"
    /\ \E a \in Asks[c] :
         call' = [call EXCEPT ![c] = [@ EXCEPT !.pc = "done", !.ask = a, !.ruling = Fallback(a)]]
    /\ SpawnsDaemon(c)
    /\ UNCHANGED <<ledgerVars, userVars, daemonVars>>

-----------------------------------------------------------------------------
(* The user *)

\* add_policy appends; no path removes a rule.
AddPolicy(r) == rules' = rules \cup {r}

SavePolicy(r) ==
    /\ MayLock
    /\ AddPolicy(r)
    /\ UNCHANGED <<ledgerVars, tokens, consents, latch, daemonVars, call, unseen>>

\* allow_once, and mint_token with the other mode: part of the module's
\* interface, called by no surface of the product today.
MintToken(a, mode) ==
    /\ MayLock
    /\ consents[a] < MaxConsents \/ tokens[a] # "none"
    /\ tokens' = [tokens EXCEPT ![a] = mode]
    /\ consents' = [consents EXCEPT ![a] = IF tokens[a] = "none" THEN @ + 1 ELSE @]
    /\ UNCHANGED <<ledgerVars, rules, latch, daemonVars, call, unseen>>

TokenExpires(a) ==
    /\ tokens[a] # "none"
    /\ tokens' = [tokens EXCEPT ![a] = "none"]
    /\ consents' = [consents EXCEPT ![a] = @ - 1]
    /\ UNCHANGED <<ledgerVars, rules, latch, daemonVars, call, unseen>>

-----------------------------------------------------------------------------
(* A call *)

Goto(c, pc) == call' = [call EXCEPT ![c].pc = pc]

\* dispatch, step 1
Arrive(c) ==
    /\ MayLock
    /\ call[c].pc = "new"
    /\ \E a \in Asks[c] : call' = [call EXCEPT ![c].pc = "scanning", ![c].ask = a]
    /\ Resolves
    /\ UNCHANGED <<rows, activated, noted, gaps, targets, newer, userVars, latch, daemon,
                   epochs, unseen>>

\* dispatch, step 3: whatever happened to the session during the scan
Lock(c) ==
    /\ MayLock
    /\ call[c].pc = "scanning"
    /\ Goto(c, "noting")
    /\ Resolves
    /\ UNCHANGED <<rows, activated, noted, gaps, targets, newer, userVars, latch, daemon,
                   epochs, unseen>>

\* observe: the gap of a version-1 call is written before the ruling.
NoteGap(c) ==
    /\ call[c].pc = "noting"
    /\ Goto(c, "ruling")
    /\ gaps' = IF call[c].ask.gap /\ session.version = 1 THEN gaps \cup {c} ELSE gaps
    /\ UNCHANGED <<session, rows, activated, watch, noted, targets, newer, userVars, latch,
                   daemonVars, unseen>>

\* _remember_origins: only of a call that has run; the first origin stays.
Remembers(a) ==
    engine' = IF engine = NoEngine \/ a.event # "result" \/ a.origin = "none" THEN engine
              ELSE [engine EXCEPT !.came = [v \in Values |->
                      IF v \in Found(a) /\ @[v] = "none" THEN a.origin ELSE @[v]]]

\* policy_selectors
Saved(type) == {r[2] : r \in {r \in rules : r[1] = type}}

\* _blocked_origin
FromBlocked(a) == {engine.came[v] : v \in Found(a)} \cap Saved("block_path") # {}
HardBlocked(a) == "key" \in Found(a)
Masked(a) == Found(a) \cap Saved("mask") # {}

\* (Mutant MaskFirst: a mask rule decides before the origin does.)
MaskFirst(a, guard) ==
    IF a.event # "out" THEN "allow"
    ELSE IF a.upload THEN "deny"
    ELSE IF Masked(a) /\ ~HardBlocked(a) THEN "rewrite"
    ELSE IF FromBlocked(a) THEN "deny"
    ELSE IF HardBlocked(a) THEN "consent"
    ELSE "allow"

\* What Settings.deny_read may answer: another process may change the file at
\* any time, and one that is malformed reads as off.
DenyRead == BOOLEAN

\* The read guard sees the path that the call names, and none where no single
\* file was made out; a "path" found in such a call is in its text only.
ReadsSensitive(a) == a.origin # "none" /\ "path" \in Found(a)

\* observe: what is decided before a consent is asked for
Policy(a, guard) ==
    CASE a.event = "result" -> "allow"
      [] a.event = "read" -> IF guard /\ ReadsSensitive(a) THEN "deny" ELSE "allow"
      [] a.event = "out" /\ (a.upload \/ FromBlocked(a)) -> "deny"
      [] a.event = "out" /\ ~a.upload /\ ~FromBlocked(a) ->
           IF HardBlocked(a) THEN "consent" ELSE IF Masked(a) THEN "rewrite" ELSE "allow"

\* What a consent turns the block into
Consented(mode) ==
    CASE mode = "allow_once" -> "allow" [] mode = "minimize" -> "rewrite" [] OTHER -> "deny"

\* The findings of a list that are not paths, in its order
NoPaths(found) ==
    LET kept == {i \in DOMAIN found : found[i] # "path"}
        at == CHOOSE q \in [1..Cardinality(kept) -> kept] :
                 \A i, j \in 1..Cardinality(kept) : i < j => q[i] < q[j]
    IN [i \in 1..Cardinality(kept) |-> found[at[i]]]

\* What a version-1 session records of a call, in order.  The paths that made
\* an upload be denied are one marker of the rule.
Evidence(a) ==
    IF a.upload THEN <<"rule">> \o NoPaths(a.found) ELSE a.found

\* (Mutant Kept: a consent is looked up and not deleted.)
Kept(a, policy) == tokens

\* consume_token: a transaction of its own, before anything is recorded
Spent(a, policy) ==
    IF policy = "consent" THEN [tokens EXCEPT ![ArgumentsOf(a)] = "none"] ELSE tokens

Rule(c) ==
    /\ call[c].pc = "ruling"
    /\ \E guard \in DenyRead :
         LET a == call[c].ask
             policy == Policy(a, guard)
         IN
          /\ call' = [call EXCEPT ![c] = [@ EXCEPT
               !.pc = "recording",
               !.ruling = IF policy = "consent" THEN Consented(tokens[ArgumentsOf(a)])
                          ELSE policy,
               !.todo = IF session.version = 1 THEN Evidence(a) ELSE <<"observation">>]]
          /\ tokens' = Spent(a, policy)
          /\ Remembers(a)
    /\ UNCHANGED <<ledgerVars, rules, consents, latch, daemon, epochs, salts, unseen>>

Kind(c) ==
    CASE call[c].ruling \in {"deny", "rewrite"} -> "prevented"
      [] call[c].ask.event = "read" -> "local_access"
      [] OTHER -> "exposed"

\* (Mutant AlwaysCharged: an ended session is charged like an open one.)
AlwaysCharged(c, v) ==
    IF Kind(c) = "exposed" THEN Contribution(v, Destination(call[c].ask)) ELSE 0

\* What a new row costs
Charge(c, v) ==
    IF Kind(c) = "exposed" /\ session.state = "open"
    THEN Contribution(v, Destination(call[c].ask)) ELSE 0

\* _record_legacy, one finding in one transaction.  Late evidence has no
\* hash, so that it matches nothing.
Record(c) ==
    /\ call[c].pc = "recording"
    /\ call[c].todo # <<>> /\ session.version = 1
    /\ LET v == Head(call[c].todo)
           dest == Destination(call[c].ask)
           same == {r \in rows[LegacyTable] :
                      r.salt # 0 /\ r.salt = engine.salt /\ r.value = v /\ r.dest = dest}
           row == [call |-> c, value |-> v, dest |-> dest, kind |-> Kind(c), count |-> 1,
                   salt |-> engine.salt, delta |-> Charge(c, v)]
       IN IF same # {}
          THEN /\ rows' = [rows EXCEPT ![LegacyTable] =
                    (@ \ same) \cup {[r EXCEPT !.count = @ + 1] : r \in same}]
               /\ UNCHANGED session
          ELSE /\ rows' = [rows EXCEPT ![LegacyTable] = @ \cup {row}]
               /\ session' = [session EXCEPT !.score = @ + row.delta]
    /\ call' = [call EXCEPT ![c].todo = Tail(@)]
    /\ UNCHANGED <<activated, watch, noted, gaps, targets, newer, userVars, latch, daemonVars,
                   unseen>>

\* GuardTargetIndex.prepare: a read that was denied for its path proposes a
\* mark, which names the first recorded call that asked for the same path.
Guarded(c) == call[c].ask.event = "read" /\ call[c].ruling = "deny"
Proposal(c) ==
    [call |-> c, path |-> call[c].ask.origin,
     same |-> {s.call : s \in {s \in engine.seen : s.path = call[c].ask.origin}}]

\* GuardTargetIndex.remember, only of a mark that was committed; the first
\* stays.  (Mutant Noted: of a mark that was prepared.)
Noted(c, written) ==
    IF Proposal(c).same # {} THEN engine.seen
    ELSE engine.seen \cup {[path |-> call[c].ask.origin, call |-> c]}
Remembered(c, written) ==
    IF ~written \/ Proposal(c).same # {} THEN engine.seen
    ELSE engine.seen \cup {[path |-> call[c].ask.origin, call |-> c]}

\* _observe_v2: observation, gap and mark are one write, in which the mark has
\* a savepoint of its own; it can fail without the rest.
Account(c) ==
    /\ call[c].pc = "recording"
    /\ call[c].todo # <<>> /\ session.version = 2
    /\ call' = [call EXCEPT ![c].todo = <<>>]
    /\ gaps' = IF call[c].ask.gap THEN gaps \cup {c} ELSE gaps
    /\ IF Guarded(c) /\ engine.key
       THEN \E written \in BOOLEAN :
              /\ targets' = IF written THEN targets \cup {Proposal(c)} ELSE targets
              /\ engine' = [engine EXCEPT !.seen = Remembered(c, written)]
       ELSE UNCHANGED <<targets, engine>>
    /\ UNCHANGED <<session, rows, activated, watch, noted, newer, userVars, latch, daemon,
                   epochs, salts, unseen>>

\* dispatch raised: the daemon denies a call, wherever it goes, and warns of a
\* result.
GiveUp(c) ==
    /\ call' = [call EXCEPT ![c] = [@ EXCEPT !.pc = "done", !.todo = <<>>,
                                             !.ruling =
                     IF call[c].ask.event = "result" THEN "warn" ELSE "deny"]]
    /\ UNCHANGED <<ledgerVars, userVars, latch, daemonVars, unseen>>

\* A write raises: what earlier transactions of the call wrote stays.
WriteFails(c) ==
    /\ \/ call[c].pc \in {"noting", "ruling"}
       \/ call[c].pc = "recording" /\ call[c].todo # <<>>
    /\ GiveUp(c)

\* A rewrite needs arguments to send.  minimize_tool_input raises when a span
\* is not where it was found, as after another that overlapped it, or when the
\* rewritten arguments do not parse.  A version-1 call has its rows by then,
\* and a version-2 one has nothing.
RewriteFails(c) ==
    /\ call[c].pc = "recording" /\ call[c].ruling = "rewrite"
    /\ IF session.version = 1 THEN call[c].todo = <<>> ELSE call[c].todo # <<>>
    /\ GiveUp(c)

\* The lock is released and the answer goes out.
Answer(c) ==
    /\ call[c].pc = "recording"
    /\ call[c].todo = <<>>
    /\ Goto(c, "done")
    /\ UNCHANGED <<ledgerVars, userVars, latch, daemonVars, unseen>>

-----------------------------------------------------------------------------

CallStep(c) ==
    \/ Arrive(c) \/ Unserved(c) \/ Lock(c) \/ NoteGap(c)
    \/ Rule(c) \/ Record(c) \/ Account(c) \/ Answer(c)
    \/ WriteFails(c) \/ RewriteFails(c)

SessionStep ==
    \/ SessionStarts \/ SessionResumes \/ OtherStarts \/ SessionEnds
    \/ salts < MaxSalts /\ EndFails

UserStep ==
    \/ \E r \in Rules : SavePolicy(r)
    \/ \E a \in Arguments : TokenExpires(a)
                              \/ \E mode \in Modes : MintToken(a, mode)

Next == (\E c \in Calls : CallStep(c)) \/ SessionStep \/ UserStep \/ DaemonStarts \/ DaemonDies

Spec == Init /\ [][Next]_vars

-----------------------------------------------------------------------------
(* What the readers answer *)

\* _decision_to_output: all but a denial lets the call run.
LetThrough(c) == call[c].ruling \in {"allow", "rewrite", "warn"}

\* A call no daemon ruled on, whose client did not recognise it as outbound:
\* its user is told that nothing was checked.
Unchecked(c) == call[c].ruling = "warn" /\ ~call[c].ask.url

\* An unattributed record counts against a session that is open or the newest.
UnobservedHooks ==
    /\ session.state = "open" \/ (session.state = "ended" /\ ~newer)
    /\ noted \cap {"inside", "after"} # {}

\* coverage()
Coverage ==
    [recorded |-> session.state # "absent",
     observers |-> Cardinality(watch),
     attached |-> \E w \in watch : w.reason = "attached",
     unobserved_hooks |-> UnobservedHooks,
     shallow_scans |-> Cardinality(gaps)]

\* SessionCoverage.verified
Verified ==
    /\ Coverage.recorded /\ Coverage.observers = 1
    /\ ~Coverage.attached /\ ~Coverage.unobserved_hooks
    /\ Coverage.shallow_scans = 0

\* list_events, get_event: the rows of a version-1 session, of one kind
Listed(kind) == {r \in rows[LegacyTable] : r.kind = kind}

\* summary: the stored score, and counts of the rows
Summary ==
    [legacy_score |-> session.score,
     permitted |-> Cardinality(Listed("exposed")),
     boundary_kinds |-> Cardinality({r.dest : r \in Listed("exposed")}),
     prevented |-> Cardinality(Listed("prevented"))]

-----------------------------------------------------------------------------
(* Properties *)

TypeOK ==
    /\ session \in Session
    /\ rows \in [Tables -> SUBSET Row]
    /\ {activated, newer} \subseteq BOOLEAN
    /\ watch \subseteq Watch /\ targets \subseteq Mark
    /\ noted \subseteq {"before", "inside", "after"}
    /\ latch \in {"none", "before", "inside", "after"}
    /\ gaps \subseteq Calls /\ unseen \subseteq Calls
    /\ rules \subseteq Rules
    /\ tokens \in [Arguments -> Modes \cup {"none"}]
    /\ consents \in [Arguments -> Nat]
    /\ daemon \in 0..epochs /\ epochs \in 0..MaxDaemons
    /\ engine \in Engine
    /\ call \in [Calls -> Call]

\* No daemon lets a credential leave, whole or masked, without a consent for
\* exactly that call, and no consent lets two calls pass: not when rules,
\* retries, a replaced consent, a daemon that dies after spending it, or the
\* session's end come in between.  Nor does it leave in a call its client
\* recognises as outbound when no daemon rules on it.  A shell command without
\* a URL that no daemon rules on does go, with a warning (_looks_like_egress);
\* and what a client that crashes lets go is HookService's.
CredentialsNeedConsent ==
    \A a \in Arguments :
        Cardinality({c \in Calls : /\ call[c].ask.event = "out"
                                   /\ ArgumentsOf(call[c].ask) = a
                                   /\ HardBlocked(call[c].ask)
                                   /\ LetThrough(c) /\ ~Unchecked(c)})
            <= consents[a]

\* A rule that was saved before a call is ruled on holds for it, also when it
\* was saved during the call's scan: what this engine saw enter first from a
\* blocked file does not go out in any form, and what is to be masked does
\* not go out as it is.
SavedRulesHold ==
    \A c \in Calls : (call[c].pc = "recording" /\ call[c].ask.event = "out") =>
        /\ FromBlocked(call[c].ask) => call[c].ruling = "deny"
        /\ (Masked(call[c].ask) /\ ~HardBlocked(call[c].ask)) => call[c].ruling # "allow"

\* The score a summary shows is the sum of the exposures it can list, over
\* restarts, repeated findings, calls that fail half recorded and the rebuild
\* that renames the table: no surface shows points without their rows.
ScoreIsItsRows ==
    Summary.legacy_score = FoldSet(LAMBDA r, sum : r.delta + sum, 0, Listed("exposed"))

\* "Same evaluated target as event #n": a mark names a committed event of the
\* same path in the same session, and the first one of its engine's window,
\* although the index is read before the write and marks fail on their own.
TargetsNameRecordedOnes ==
    \A t \in targets : \A c \in t.same :
        \E u \in targets : u.call = c /\ u.path = t.path /\ u.same = {} /\ u.call # t.call

\* Nothing that arrives after a session's end, its scan begun before or not,
\* changes its score or brings back an identity.
LateEvidenceIsFree ==
    [][session.state = "ended" =>
         /\ session'.score = session.score
         /\ \A t \in Tables : \A r \in rows'[t] : r.salt = 0]_vars

\* A daemon that knows an open session and finds its record verified was
\* there for all of it: no call was lost in a crash, and none that left its
\* latch went by unserved.
VerifiedIsWatched ==
    (session.state = "open" /\ engine # NoEngine /\ Verified) => unseen = {}

\* The documentation: no mark means that nothing on record contradicts a
\* complete account.  A record of hooks that reached no daemon while the
\* session ran contradicts it.
VerifiedIsUncontradicted == Verified => "inside" \notin noted
=============================================================================
