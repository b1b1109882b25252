--------------------------- MODULE ActionOutcomes ---------------------------
(***************************************************************************)
(* What the ledger comes to say of ONE host action (a tool use, a          *)
(* delegation or a prompt): the hooks that report it, what the engine      *)
(* records of each (engine._observe_v2, hook_evidence), what the ledger    *)
(* accepts (ledger._check_observation, _check_event), and what             *)
(* accounting.resolve_outcomes concludes from the rows.                    *)
(*                                                                         *)
(* A hook by itself shows that something was asked for.  What came of it   *)
(* has to be told by a receipt of the hook adapter; the shipped adapter    *)
(* gives none (Silent), others can.  Receipts may be partial, late, about  *)
(* another boundary, and contradict each other.  The session may lose its  *)
(* key between two hooks: the later ones then name nobody, and are not     *)
(* even recognized as the same action.                                     *)
(*                                                                         *)
(* A pair of subject and recipient is its subject: an observation, its     *)
(* findings and its receipts are about one recipient.                      *)
(***************************************************************************)
EXTENDS Integers, FiniteSets

CONSTANTS
    Subjects,       \* values and files a hook can be found to carry
    Nobody,         \* the pair of an event with an unresolved identity
    Findings,       \* which of them one hook can carry
    Reports,        \* what an adapter can add to a hook; Silent is one
    MaxHooks        \* bound on the hooks delivered

Evidence == {"hook", "detected", "permission", "denyIssued", "denyEnforced",
             "rewriteIssued", "rewriteEnforced", "executed", "crossed",
             "rejected"}

\* accounting._STOPPED and _EXECUTED, engine._RESOLVING.
Stopped  == {"denyEnforced", "rejected"}
Executed == {"executed", "crossed"}
Resolving == {"denyEnforced", "rewriteEnforced", "crossed", "rejected"}

\* `own` is evidence about the whole boundary, `bits` about each pair named.
Report == [own : SUBSET (Executed \cup Resolving), bits : SUBSET (Executed \cup Resolving),
           pairs : SUBSET Subjects, scope : {"none", "pairs", "boundary"}]
Silent == [own |-> {}, bits |-> {}, pairs |-> {}, scope |-> "none"]

ASSUME SubjectAssumption == Nobody \notin Subjects /\ Findings \subseteq SUBSET Subjects
ASSUME ReportAssumption == Silent \in Reports /\ Reports \subseteq Report
ASSUME HooksAssumption == MaxHooks \in Nat

VARIABLES
    call,           \* what the action is
    available,      \* the session is open and its key held
    hooks,          \* how many hooks were delivered
    observations,   \* the rows of the action, each with its events
    refused         \* a row the engine built was refused by the ledger

vars == <<call, available, hooks, observations, refused>>

Calls == {"read", "local", "mcp", "network", "delegation", "prompt"}
Boundaries == {"B0", "B1", "B2", "B3", "B4"}
Kinds == {"prevented", "exposed", "access", "permitted", "detected"}

Event == [pair : Subjects \cup {Nobody}, kind : Kinds,
          evidence : SUBSET Evidence]

\* Action 0 is the host's own id; the n-th hook that could not be correlated
\* is an action n of its own.
Observation == [action : 0..MaxHooks,
                kind : {"read", "tool", "subagent", "prompt"},
                boundary : Boundaries, decision : {"none", "allow", "deny", "rewrite"},
                evidence : SUBSET Evidence, scope : {"none", "pairs", "boundary"},
                potential : BOOLEAN, events : SUBSET Event]

TypeOK ==
    /\ call \in Calls
    /\ available \in BOOLEAN /\ refused \in BOOLEAN
    /\ hooks \in 0..MaxHooks
    /\ observations \in SUBSET Observation

Init == /\ call \in Calls
        /\ available = TRUE /\ refused = FALSE
        /\ hooks = 0 /\ observations = {}

-----------------------------------------------------------------------------
\* What a hook is about: hook_evidence._classify and _recipient

\* Where the call intends to send what it carries.
Intended == [read |-> "B0", local |-> "B0", mcp |-> "B3", network |-> "B4",
             delegation |-> "B2", prompt |-> "B1"]

\* One kind per action, whichever hook reports it.
ActionKind == [read |-> "read", local |-> "tool", mcp |-> "tool",
               network |-> "tool", delegation |-> "subagent",
               prompt |-> "prompt"]

\* What the model sees of the result is a crossing of its own, at B1.
Potential(hook) == hook = "post" \/ Intended[call] # "B0"

\* Nobody guesses who a subagent is, nor a recipient the command hides (the
\* network call; one that names its recipient is like mcp).  A result goes to
\* the model, or where the adapter says.
Identified(hook, boundary) ==
    available /\ (hook = "post" \/ boundary \notin {"B2", "B4"})

\* The host's id is hashed with the session's key, and only tools have one.
\* (Mutant: the hash needs no key.)
ByHostId == call # "prompt"
Correlated == available /\ call # "prompt"

ActionOf == IF Correlated THEN 0 ELSE hooks + 1

\* Evidence a decision issues (engine._ISSUED).
Issued == [none |-> {}, allow |-> {"permission"}, deny |-> {"denyIssued"},
           rewrite |-> {"permission", "rewriteIssued"}]

-----------------------------------------------------------------------------
\* What is recorded of it: engine._observe_v2

\* One draft per value found; `blind` is a file known by its rule only.
Found(values, blind, known, issued) ==
    {[pair |-> IF known THEN s ELSE Nobody,
      evidence |-> issued \cup {"detected"}] : s \in values}
    \cup (IF blind THEN {[pair |-> Nobody, evidence |-> issued]} ELSE {})

\* Receipts that name an identity cannot be recorded without the key.
Named(rep) == IF available THEN rep.pairs ELSE {}

\* A receipt adds to the draft of the pair it names, or is an event itself.
Receipted(drafts, rep) ==
    {[d EXCEPT !.evidence = IF d.pair \in Named(rep) THEN @ \cup rep.bits ELSE @] :
        d \in drafts}
    \cup {[pair |-> s, evidence |-> rep.bits] :
            s \in Named(rep) \ {d.pair : d \in drafts}}

\* hook_evidence.classify_evidence: every kind the evidence supports.
Terminal(boundary, evidence) ==
    (IF evidence \cap {"denyIssued", "denyEnforced", "rejected",
                       "rewriteEnforced"} # {} THEN {"prevented"} ELSE {})
    \cup (IF "crossed" \in evidence /\ boundary # "B0" THEN {"exposed"} ELSE {})
    \cup (IF "executed" \in evidence /\ boundary = "B0" THEN {"access"} ELSE {})
KindsOf(boundary, evidence) ==
    IF Terminal(boundary, evidence) # {} THEN Terminal(boundary, evidence)
    ELSE IF "permission" \in evidence THEN {"permitted"}
    ELSE evidence \cap {"detected"}

EventsOf(drafts, boundary) ==
    UNION {{[pair |-> d.pair, kind |-> k, evidence |-> d.evidence] :
               k \in KindsOf(boundary, d.evidence)} : d \in drafts}

\* A scope needs resolving evidence to act on: receipts dropped above leave
\* none.  (Mutant ScopeAsGiven: it stays what the adapter said.)
ScopeAsGiven(rep, observed) == rep.scope
ScopeOf(rep, observed) == IF observed \cap Resolving = {} THEN "none" ELSE rep.scope

Row(rep, drafts, boundary, potential, decision) ==
    LET observed == {"hook"} \cup rep.own \cup Issued[decision]
                    \cup UNION {d.evidence : d \in drafts}
    IN [action |-> ActionOf,
        kind |-> ActionKind[call], boundary |-> boundary,
        decision |-> decision, evidence |-> observed,
        scope |-> ScopeOf(rep, observed), potential |-> potential,
        events |-> EventsOf(drafts, boundary)]

-----------------------------------------------------------------------------
\* What the ledger accepts: _check_observation, _check_event

KindEvidence == [prevented |-> {"denyIssued", "denyEnforced", "rejected",
                                "rewriteEnforced"},
                 exposed |-> {"crossed"}, access |-> {"executed"},
                 permitted |-> {"permission"}, detected |-> {"detected"}]

ValidObservation(o) ==
    /\ "denyIssued" \in o.evidence => o.decision = "deny"
    /\ "rewriteIssued" \in o.evidence => o.decision = "rewrite"
    /\ "permission" \in o.evidence => o.decision \in {"allow", "rewrite"}
    /\ o.scope # "none" => o.evidence \cap Resolving # {}
    /\ \A p \in observations : p.action = o.action => p.kind = o.kind

ValidEvent(o, e) ==
    /\ e.evidence \subseteq o.evidence
    /\ e.evidence \cap KindEvidence[e.kind] # {}
    /\ e.kind = "exposed" => o.boundary # "B0"
    /\ e.kind = "access" => o.boundary = "B0"
    /\ ~available => e.pair = Nobody

Valid(o) == ValidObservation(o) /\ \A e \in o.events : ValidEvent(o, e)

\* One delivery, under State.lock: a row that the ledger refuses is an
\* exception, and nothing is recorded.
Deliver(hook, rep, values, blind, boundary, decision) ==
    LET drafts == Receipted(Found(values, blind, Identified(hook, boundary),
                                  Issued[decision]), rep)
        row == Row(rep, drafts, boundary, Potential(hook), decision)
    IN /\ hooks < MaxHooks /\ hooks' = hooks + 1
       /\ \/ Valid(row) /\ observations' = observations \cup {row} /\ UNCHANGED refused
          \/ ~Valid(row) /\ refused' = TRUE /\ UNCHANGED observations
       /\ UNCHANGED <<call, available>>

\* Before the action, if the daemon was there to hear it.  A guarded read and
\* an outgoing call can be denied for what was found, a command for files it
\* names or because it cannot be parsed; a rewrite needs something to mask.
\* Of a local call only that it was made is recorded.
PreToolUse ==
    \E rep \in Reports, values \in Findings, blind \in BOOLEAN :
    \E decision \in {"allow", "deny", "rewrite"} :
        /\ call # "prompt" /\ hooks = 0
        /\ values # {} => call # "local"
        /\ blind => call = "read" \/ (call = "network" /\ decision = "deny")
        /\ decision = "deny" =>
              \/ call = "network"
              \/ call \in {"read", "mcp"} /\ (values # {} \/ blind)
        /\ decision = "rewrite" => call \in {"mcp", "network"} /\ values # {}
        /\ Deliver("pre", rep, values, blind, Intended[call], decision)

\* After it; an adapter that has something to tell may tell it of the
\* boundary the call itself was about.
PostToolUse ==
    \E rep \in Reports, values \in Findings, boundary \in Boundaries :
        /\ call # "prompt"
        /\ boundary \in {"B1"} \cup (IF rep = Silent THEN {} ELSE {Intended[call]})
        /\ Deliver("post", rep, values, FALSE, boundary, "none")

\* A prompt is an action of one hook; a hold (PromptHold) denies it.
UserPromptSubmit ==
    \E rep \in Reports, values \in Findings, decision \in {"none", "deny"} :
        /\ call = "prompt" /\ hooks = 0
        /\ decision = "deny" => values # {}
        /\ Deliver("pre", rep, values, FALSE, "B1", decision)

\* The session ends, its account is invalidated, or the daemon is replaced.
LoseKey == /\ available /\ available' = FALSE
           /\ UNCHANGED <<call, hooks, observations, refused>>

Next == PreToolUse \/ PostToolUse \/ UserPromptSubmit \/ LoseKey

Spec == Init /\ [][Next]_vars

-----------------------------------------------------------------------------
\* What is concluded: accounting._partition_unresolved, of the rows G of one
\* action at one boundary

Pairs(o) == {e.pair : e \in o.events}

\* The pairs some event shows one of the bits of.
Facts(G, bits) ==
    UNION {{e.pair : e \in {e \in o.events : /\ e.pair # Nobody
                                            /\ e.evidence \cap bits # {}}} : o \in G}

\* Those a row may conclude from.  (Mutant Facts: every fact is a receipt.)
Receipts(G, bits) == Facts({o \in G : o.scope = "pairs"}, bits)

Contradictory(G) ==
    \/ Facts(G, Executed) \cap Facts(G, Stopped) # {}
    \/ Facts(G, {"crossed"}) \cap Facts(G, {"rewriteEnforced"}) # {}

Ran(G) == \E o \in G : o.evidence \cap Executed # {}
BoundaryStopped(G) ==
    \E o \in G : o.scope = "boundary" /\ o.evidence \cap Stopped # {}
ZeroReceipt(G) ==
    \E o \in G : o.scope = "boundary" /\ "crossed" \in o.evidence /\ o.events = {}

\* What may have crossed: pairs, or something nobody identified.
Crossing(G) == (UNION {Pairs(o) : o \in {o \in G : o.potential}}) \ {Nobody}
ZeroFinding(G) == \E o \in G : o.potential /\ o.events = {}

Denials(G) == {o \in G : "denyIssued" \in o.evidence}
Denied(G) == (UNION {Pairs(o) : o \in Denials(G)}) \ {Nobody}
DenialUnidentified(G) == \E o \in Denials(G) : o.events = {} \/ Nobody \in Pairs(o)

Rewrites(G) == {o \in G : "rewriteIssued" \in o.evidence}
Rewritten(o) == {e.pair : e \in {e \in o.events : "rewriteIssued" \in e.evidence}}

Unmatchable(G) == \/ \E o \in G : o.potential /\ Nobody \in Pairs(o)
                  \/ \E o \in Rewrites(G) : Nobody \in Rewritten(o)

\* Every pair at stake was stopped, and all of them are known.
PairsStopped(G) ==
    /\ Crossing(G) \cup Denied(G) # {}
    /\ ~DenialUnidentified(G) /\ ~ZeroFinding(G)
    /\ Crossing(G) \cup Denied(G) \subseteq Receipts(G, Stopped)

Unresolved(G) ==
    \/ Contradictory(G)
    \/ BoundaryStopped(G) /\ Ran(G)
    \/ Denials(G) # {} /\ (Ran(G) \/ ~(BoundaryStopped(G) \/ PairsStopped(G)))
    \/ /\ ~BoundaryStopped(G)
       /\ \/ Unmatchable(G)
          \/ ZeroFinding(G) /\ ~ZeroReceipt(G)
          \/ \E p \in Crossing(G) :
                p \notin Receipts(G, Stopped \cup {"crossed", "rewriteEnforced"})
          \/ \E o \in Rewrites(G) :
                \/ Rewritten(o) = {}
                \/ ~(Rewritten(o) \ {Nobody} \subseteq Receipts(G, {"rewriteEnforced"}))

\* accounting.resolve_outcomes: an action is unresolved if one boundary is.
\* (Mutant OfAction: receipts count wherever they were given.)
OfAction(G, a, b) == {o \in G : o.action = a}
Partition(G, a, b) == {o \in G : o.action = a /\ o.boundary = b}
UnresolvedActions(G) ==
    {a \in {o.action : o \in G} :
        \E b \in {o.boundary : o \in {o \in G : o.action = a}} :
            Unresolved(Partition(G, a, b))}

ReadsStopped(G) ==
    {a \in {o.action : o \in G} \ UnresolvedActions(G) :
        /\ \E o \in G : o.action = a /\ o.kind = "read"
        /\ \E o \in G : o.action = a /\ "denyEnforced" \in o.evidence
        /\ ~\E o \in G : o.action = a /\ o.evidence \cap Executed # {}}

-----------------------------------------------------------------------------
\* Properties

\* Nothing but a receipt closes an action: a hook that only reports, a result
\* or a second delivery included, never makes an open action look resolved
\* ("a successful tool result does not by itself confirm disclosure").
OnlyReceiptsResolve ==
    [][ \A a \in UnresolvedActions(observations) \ UnresolvedActions(observations') :
          \E o \in observations' \ observations : o.action = a /\ o.scope # "none" ]_vars

\* w tells what became of a pair, or of the whole boundary.
Tells(w, p) ==
    \/ w.scope = "boundary" /\ w.evidence \cap Stopped # {}
    \/ /\ w.scope = "pairs" /\ p # Nobody
       /\ \E f \in w.events : f.pair = p /\ f.evidence \cap Resolving # {}

\* An action that is not counted as unresolved is explained: everything that
\* may have crossed a boundary has a receipt given for that boundary.
ResolvedIsExplained ==
    \A o \in observations :
        o.potential /\ o.action \notin UnresolvedActions(observations) =>
            \A e \in o.events : \E w \in observations :
                /\ w.action = o.action /\ w.boundary = o.boundary
                /\ Tells(w, e.pair)

\* With the adapter that is shipped, whatever leaves the machine, returns a
\* result or was denied stays open, and the percentage is withheld for it
\* (Ledger._summary_v2): silence is never taken for safety.
SilentActionsAreOpen ==
    \A o \in observations :
        /\ o.boundary # "B0" \/ "denyIssued" \in o.evidence
        /\ \A w \in observations : w.action = o.action => w.scope = "none"
        => o.action \in UnresolvedActions(observations)

\* After the key is lost nothing is concluded of what was recorded before: a
\* later hook cannot be told to be of the same action.
LostKeyFreezesOutcomes ==
    [][ ~available =>
          /\ UnresolvedActions(observations) =
                UnresolvedActions(observations') \cap {o.action : o \in observations}
          /\ ReadsStopped(observations) =
                ReadsStopped(observations') \cap {o.action : o \in observations} ]_vars

\* The engine never builds a row that the ledger refuses, whatever receipts
\* come and wherever the key was lost: a hook is recorded, not raised on.
EngineRecordsAreValid == ~refused
=============================================================================
