----------------------------- MODULE HookService -----------------------------
(***************************************************************************)
(* The clients of the daemon's socket and the daemon they talk to.         *)
(*                                                                         *)
(* A client is one hook process (hooks/handler.py) or one policy request   *)
(* (runtime_client.update_policy).  It reads the receipt, connects, says   *)
(* hello, and only after a matching hello sends its one request.  A hook   *)
(* that cannot connect starts a daemon, with a latch against starting one  *)
(* per hook.  The daemon accepts on its main thread, serves every          *)
(* connection on a thread of its own and leaves by its lifetime policy.    *)
(*                                                                         *)
(* How daemons exclude each other and how a repair moves the selection is  *)
(* RuntimeOwnership's; here a repair is a step that changes the receipt    *)
(* while no daemon of this generation serves.                              *)
(***************************************************************************)
EXTENDS Naturals, FiniteSets

CONSTANTS
    Clients,     \* hooks and policy requests that may happen, each once
    Invocations, \* what they may be, beside each other
    Builds,      \* builds of the plugin
    Backlog,     \* connections the kernel queues
    MaxEpochs    \* bound: activations, one after the other

ASSUME ServiceAssumption ==
    /\ IsFiniteSet(Clients)
    /\ Invocations \subseteq
         [Clients -> {"egress", "command", "ingress", "end", "policy"}]
    /\ {"none", "older"} \cap Builds = {}
    /\ Backlog \in Nat \ {0}
    /\ MaxEpochs \in Nat

VARIABLES
    receipt,   \* the activation receipt v2 selects
    epoch,     \* the last activation's number
    client,    \* per client: what it is, where it is, its selection
    answer,    \* per client: what it told Codex, or its caller
    conn,      \* per client: its connection, seen from the daemon
    verdict,   \* per client: what a daemon's dispatch answered
    rulings,   \* per client: how often one was dispatched
    latch,     \* daemon.spawn-attempt: past its cooldown, or what it says
    boots,     \* activations of which daemons were started that do not serve yet
    served,    \* the activation of the daemon that serves
    idle,      \* time since it last accepted
    inflight,  \* Daemon._inflight
    drain,     \* Daemon._draining_since
    live       \* time since the last hook of the session in State.live

receiptVars == <<receipt, epoch>>
clientVars == <<client, answer>>
connVars == <<conn, verdict, rulings>>
spawnVars == <<latch, boots>>
daemonVars == <<served, idle, inflight, drain, live>>
vars == <<receiptVars, clientVars, connVars, spawnVars, daemonVars>>

-----------------------------------------------------------------------------
(* Data *)

None == [build |-> "none", epoch |-> 0]
\* a daemon of before protocol 2
Older == [build |-> "older", epoch |-> 0]
Activations == [build : Builds, epoch : 1..MaxEpochs]

\* An outbound call the client recognises, by a URL or an mcp tool
\* (_looks_like_egress); a shell command that only the daemon recognises as
\* outbound; any other hook; the end of the session; a policy rule.
Kinds == {"egress", "command", "ingress", "end", "policy"}
Outbound == {"egress", "command"}

\* Intervals: LINGER_GRACE, and SESSION_STALE_AFTER = IDLE_TIMEOUT.
Grace == 1
Cap == 2
\* no hook of the session is alive: the session has ended, or is stale
Gone == Cap

Answers == [why : {"none", "relayed", "unverified", "starting", "refused",
                   "saved", "unknown", "unreachable", "crashed"},
            rule : {"none", "allow", "deny", "warn"}]
NoAnswer == [why |-> "none", rule |-> "none"]
\* cli writes nothing, which is also what an allowed call is answered with.
Nothing == [why |-> "crashed", rule |-> "allow"]

\* (Mutant FailOpen: a daemon that is starting lets an outbound call go.)
FailOpen(c, why) ==
    [why |-> why, rule |-> IF client[c].kind = "egress" /\ why # "starting"
                           THEN "deny" ELSE "warn"]

\* _unverified and _runtime_refusal: what the client does not recognise as
\* outbound goes on with a warning.
FailSafe(c, why) ==
    [why |-> why, rule |-> IF client[c].kind = "egress" THEN "deny" ELSE "warn"]

\* Nothing was sent: a hook is unverified, a policy request was not made.
NotSent(c) == IF client[c].kind = "policy"
              THEN [why |-> "unreachable", rule |-> "none"]
              ELSE FailSafe(c, "unverified")

\* It may have been sent.
Unknown(c) == IF client[c].kind = "policy"
              THEN [why |-> "unknown", rule |-> "none"]
              ELSE FailSafe(c, "unverified")

\* The selection is compared with another one, or with none.
Refused(c) == IF client[c].kind = "policy"
              THEN [why |-> "unreachable", rule |-> "none"]
              ELSE FailSafe(c, "refused")

NoConn == [at |-> "none", by |-> None]

Init ==
    /\ receipt = None
    /\ epoch = 0
    /\ \E kinds \in Invocations :
         client = [c \in Clients |-> [pc |-> "new", kind |-> kinds[c], sel |-> None]]
    /\ answer = [c \in Clients |-> NoAnswer]
    /\ conn = [c \in Clients |-> NoConn]
    /\ verdict = [c \in Clients |-> "none"]
    /\ rulings = [c \in Clients |-> 0]
    /\ latch = "past"
    /\ boots = {}
    /\ served \in {None, Older}
    /\ idle = 0
    /\ inflight = 0
    /\ drain = "no"
    /\ live = Gone

Answer(c, a) ==
    /\ answer' = [answer EXCEPT ![c] = a]
    /\ client' = [client EXCEPT ![c].pc = "done"]

Goto(c, pc) == client' = [client EXCEPT ![c].pc = pc] /\ UNCHANGED answer

-----------------------------------------------------------------------------
(* The client *)

\* main, update_policy: the selection is read, before anything else, against
\* the bundle this client runs from.
Begin(c) ==
    /\ client[c].pc = "new"
    /\ \E build \in Builds :
         IF receipt # None /\ receipt.build = build
         THEN /\ client' = [client EXCEPT ![c].pc = "connect", ![c].sel = receipt]
              /\ UNCHANGED answer
         ELSE Answer(c, IF receipt = None THEN NotSent(c) ELSE Refused(c))
    /\ UNCHANGED <<receiptVars, connVars, spawnVars, daemonVars>>

\* main gives up before it reads the selection: no object on stdin, no
\* PLUGIN_DATA, an exception.
NeverBegins(c) ==
    /\ client[c].pc = "new" /\ client[c].kind # "policy"
    /\ Answer(c, Nothing)
    /\ UNCHANGED <<receiptVars, connVars, spawnVars, daemonVars>>

\* Any exception later on leaves a hook with nothing to say, and a policy
\* request without a caller.
Crashes(c) ==
    /\ client[c].pc \notin {"new", "done"}
    /\ Answer(c, IF client[c].kind = "policy" THEN NoAnswer ELSE Nothing)
    /\ UNCHANGED <<receiptVars, connVars, spawnVars, daemonVars>>

Queued == {c \in Clients : conn[c].at = "queued"}

Connect(c) ==
    /\ client[c].pc = "connect"
    /\ served # None
    /\ Cardinality(Queued) < Backlog
    /\ Goto(c, "hello")
    /\ conn' = [conn EXCEPT ![c] = [at |-> "queued", by |-> served]]
    /\ UNCHANGED <<receiptVars, verdict, rulings, spawnVars, daemonVars>>

\* Nothing listens, or the backlog is full until the budget is spent.
ConnectFails(c) ==
    /\ client[c].pc = "connect"
    /\ served = None \/ Cardinality(Queued) >= Backlog
    /\ IF client[c].kind = "policy" THEN Answer(c, NotSent(c)) ELSE Goto(c, "spawn")
    /\ UNCHANGED <<receiptVars, connVars, spawnVars, daemonVars>>

\* _spawn_daemon within the cooldown: the latch says what to answer, also
\* when another hook has truncated it and not written it yet.
Cooldown(c) ==
    /\ client[c].pc = "spawn"
    /\ latch # "past"
    /\ Answer(c, FailSafe(c, IF latch = "started" THEN "starting" ELSE "unverified"))
    /\ UNCHANGED <<receiptVars, connVars, spawnVars, daemonVars>>

LatchSeen(c) ==
    /\ client[c].pc = "spawn"
    /\ latch = "past"
    /\ Goto(c, "launch")
    /\ UNCHANGED <<receiptVars, connVars, spawnVars, daemonVars>>

\* The receipt is read again; a daemon is started detached, or cannot be.
\* The latch is then opened for writing, which empties it, and written.
Launch(c) ==
    /\ client[c].pc = "launch"
    /\ latch' = "unready"
    /\ \/ /\ receipt # None
          /\ receipt.build = client[c].sel.build
          /\ boots' = boots \cup {receipt}
          /\ Goto(c, "latch:started")
       \/ /\ Goto(c, "latch:failed")
          /\ UNCHANGED boots
    /\ UNCHANGED <<receiptVars, connVars, daemonVars>>

WriteLatch(c) ==
    /\ \/ /\ client[c].pc = "latch:started"
          /\ latch' = "started"
          /\ Answer(c, FailSafe(c, "starting"))
       \/ /\ client[c].pc = "latch:failed"
          /\ latch' = "unready"
          /\ Answer(c, FailSafe(c, "unverified"))
    /\ UNCHANGED <<receiptVars, connVars, boots, daemonVars>>

LatchAges ==
    /\ latch # "past"
    /\ latch' = "past"
    /\ UNCHANGED <<receiptVars, clientVars, connVars, boots, daemonVars>>

\* _matching_hello, is_matching_hello_reply: a hello of the selected build
\* and epoch came back on this connection.
Welcome(c) == conn[c].at = "greeted" /\ conn[c].by = client[c].sel

Greeted(c) ==
    /\ client[c].pc = "hello"
    /\ Welcome(c)
    /\ Goto(c, "send")
    /\ UNCHANGED <<receiptVars, connVars, spawnVars, daemonVars>>

\* Any other reply, and an end of the connection without one.
TurnedAway(c) ==
    /\ client[c].pc = "hello"
    /\ conn[c].at \in {"turned", "over"}
    /\ Answer(c, Refused(c))
    /\ UNCHANGED <<receiptVars, connVars, spawnVars, daemonVars>>

Send(c) ==
    /\ client[c].pc = "send"
    /\ Goto(c, "sent")
    /\ conn' = [conn EXCEPT ![c].at = IF @ = "greeted" THEN "asked" ELSE @]
    /\ UNCHANGED <<receiptVars, verdict, rulings, spawnVars, daemonVars>>

Replied(c) ==
    /\ client[c].pc = "sent"
    /\ conn[c].at \in {"ruled", "over"}
    /\ Answer(c, CASE verdict[c] = "none" -> Unknown(c)
                   [] verdict[c] # "none" /\ client[c].kind = "policy" ->
                        [why |-> "saved", rule |-> "none"]
                   [] OTHER -> [why |-> "relayed", rule |-> verdict[c]])
    /\ UNCHANGED <<receiptVars, connVars, spawnVars, daemonVars>>

\* (Mutant Retries: the exchange is begun again once.)
Retries(c) ==
    /\ client[c].pc = "sent"
    /\ Goto(c, "connect")
    /\ UNCHANGED <<receiptVars, connVars, spawnVars, daemonVars>>

\* The one deadline, wherever it strikes.  Between the hello and the request
\* update_policy reports the request as made: "unknown".
TimesOut(c) ==
    /\ client[c].pc \in {"hello", "send", "sent"}
    /\ Answer(c, IF client[c].pc = "hello" THEN NotSent(c) ELSE Unknown(c))
    /\ UNCHANGED <<receiptVars, connVars, spawnVars, daemonVars>>

-----------------------------------------------------------------------------
(* The daemon: connections *)

Move(c, from, to) ==
    /\ conn[c].at = from
    /\ conn' = [conn EXCEPT ![c].at = to]

\* (Mutant CountedLater: the thread counts it in setup.)
CountedLater == inflight

\* verify_request counts the connection before a thread has it.
Counted == inflight + 1

Accept(c) ==
    /\ Move(c, "queued", "accepted")
    /\ idle' = 0
    /\ inflight' = Counted
    /\ UNCHANGED <<receiptVars, clientVars, verdict, rulings, spawnVars, served, drain, live>>

\* The thread cannot be started, or setup raises: finish never runs.
SetupFails(c) ==
    /\ Move(c, "accepted", "over")
    /\ UNCHANGED <<receiptVars, clientVars, verdict, rulings, spawnVars, daemonVars>>

\* handle: the hello of another activation is refused, that of this one too
\* if the ledger's generation cannot be read; an older daemon closes.
Hello(c) ==
    /\ \/ Move(c, "accepted", "greeted") /\ client[c].sel = served
       \/ Move(c, "accepted", "turned")
    /\ UNCHANGED <<receiptVars, clientVars, verdict, rulings, spawnVars, daemonVars>>

\* The request is read, be its client gone or not, and a hook's session noted
\* as live.
Read(c) ==
    /\ Move(c, "asked", "working")
    /\ live' = IF client[c].kind \in Outbound \cup {"ingress"} THEN 0 ELSE live
    /\ UNCHANGED <<receiptVars, clientVars, verdict, rulings, spawnVars, served,
                   idle, inflight, drain>>

\* What dispatch may answer to it.  An exception inside it denies a tool call,
\* a shell command included, and warns about anything else.
Raised(c) == IF client[c].kind \in Outbound THEN "deny" ELSE "warn"
Verdicts(c) == (IF client[c].kind \in Outbound THEN {"allow", "deny"} ELSE {"allow"})
                    \cup {Raised(c)}

\* dispatch or apply_policy, and the reply is written.  SessionEnd releases
\* the session after the rest of its work.
Rule(c) ==
    /\ Move(c, "working", "ruled")
    /\ rulings' = [rulings EXCEPT ![c] = @ + 1]
    /\ \E v \in Verdicts(c) : verdict' = [verdict EXCEPT ![c] = v]
    /\ live' = IF client[c].kind = "end" THEN Gone ELSE live
    /\ UNCHANGED <<receiptVars, clientVars, spawnVars, served, idle, inflight, drain>>

\* Nothing is read: the client has gone without a request.  Or a policy rule could not be saved.
Silent(c) ==
    /\ \/ client[c].pc = "done" /\ Move(c, "greeted", "ruled")
       \/ client[c].kind = "policy" /\ Move(c, "working", "ruled")
    /\ UNCHANGED <<receiptVars, clientVars, verdict, rulings, spawnVars, daemonVars>>

\* finish: only now, the reply flushed, is the request no longer in flight.
Finish(c) ==
    /\ \/ Move(c, "ruled", "over")
       \/ Move(c, "turned", "over")
    /\ inflight' = IF inflight > 0 THEN inflight - 1 ELSE 0
    /\ UNCHANGED <<receiptVars, clientVars, verdict, rulings, spawnVars, served,
                   idle, drain, live>>

-----------------------------------------------------------------------------
(* The daemon: its life *)

Serving == served \in Activations

\* live_session_count, a stale session swept
LiveSessions == IF live < Cap THEN 1 ELSE 0

ExitDue == idle >= Cap \/ (idle >= Grace /\ LiveSessions = 0)

\* (Mutant Undisturbed: the drain is not bounded.)
Undisturbed == inflight = 0

Drained == inflight = 0 \/ drain = "over"

\* the connections of a daemon that is gone: the kernel closes them
CutOff == [c \in Clients |-> IF conn[c].at \in {"none", "over"} THEN conn[c]
                             ELSE [conn[c] EXCEPT !.at = "over"]]

Down ==
    /\ served' = None
    /\ idle' = 0
    /\ inflight' = 0
    /\ drain' = "no"
    /\ live' = Gone
    /\ conn' = CutOff

\* serve_forever ends when _ready_to_exit says so.
Leave ==
    /\ Serving
    /\ ExitDue
    /\ Drained
    /\ Down
    /\ UNCHANGED <<receiptVars, clientVars, verdict, rulings, spawnVars>>

\* _ready_to_exit otherwise: a stretch of draining begins or is forgotten.
Poll ==
    /\ Serving
    /\ drain' = IF ~ExitDue THEN "no" ELSE IF drain = "no" THEN "begun" ELSE drain
    /\ drain' # drain
    /\ UNCHANGED <<receiptVars, clientVars, connVars, spawnVars, served, idle,
                   inflight, live>>

\* A signal, a kill, the end of an older daemon.
Die ==
    /\ served # None
    /\ Down
    /\ UNCHANGED <<receiptVars, clientVars, verdict, rulings, spawnVars>>

Aged(t) == IF t < Cap THEN t + 1 ELSE t

Tick ==
    /\ Serving
    /\ idle' = Aged(idle)
    /\ live' = Aged(live)
    /\ drain' = IF drain = "begun" THEN "over" ELSE drain
    /\ <<idle', live', drain'>> # <<idle, live, drain>>
    /\ UNCHANGED <<receiptVars, clientVars, connVars, spawnVars, served, inflight>>

\* A started daemon binds the socket, if nobody else has it and it is still
\* the selected one; any others that were started for it find it serving.
Boot(a) ==
    /\ served = None
    /\ a = receipt
    /\ boots' = boots \ {a}
    /\ served' = a
    /\ UNCHANGED <<receiptVars, clientVars, connVars, latch, idle, inflight, drain, live>>

\* AlreadyRunning, another activation, or any failure
BootFails(a) ==
    /\ boots' = boots \ {a}
    /\ UNCHANGED <<receiptVars, clientVars, connVars, latch, daemonVars>>

\* An older daemon, which takes no lock, begins to serve.
OlderServes ==
    /\ served = None
    /\ served' = Older
    /\ UNCHANGED <<receiptVars, clientVars, connVars, spawnVars, idle, inflight, drain, live>>

\* A repair publishes an activation and starts its daemon.
Repair ==
    /\ ~Serving
    /\ epoch < MaxEpochs
    /\ epoch' = epoch + 1
    /\ \E build \in Builds : receipt' = [build |-> build, epoch |-> epoch + 1]
    /\ boots' = boots \cup {receipt'}
    /\ UNCHANGED <<clientVars, connVars, latch, daemonVars>>

\* Setup writes a receipt of version 1, which selects nothing.
SetUp ==
    /\ receipt # None
    /\ receipt' = None
    /\ UNCHANGED <<epoch, clientVars, connVars, spawnVars, daemonVars>>

ClientStep(c) ==
    \/ Begin(c) \/ NeverBegins(c) \/ Crashes(c) \/ Connect(c) \/ ConnectFails(c)
    \/ Cooldown(c) \/ LatchSeen(c) \/ Launch(c) \/ WriteLatch(c)
    \/ Greeted(c) \/ TurnedAway(c) \/ Send(c) \/ Replied(c) \/ TimesOut(c)

WorkerStep(c) ==
    \/ Accept(c) \/ SetupFails(c) \/ Hello(c) \/ Read(c) \/ Rule(c)
    \/ Silent(c) \/ Finish(c)

Next ==
    \/ \E c \in Clients : ClientStep(c) \/ WorkerStep(c)
    \/ LatchAges
    \/ Leave \/ Poll \/ Die \/ Tick
    \/ \E a \in boots : Boot(a) \/ BootFails(a)
    \/ OlderServes \/ Repair \/ SetUp

\* The serve loop polls, and time passes.  No request is assumed to end.
Spec == Init /\ [][Next]_vars /\ WF_vars(Leave) /\ WF_vars(Poll) /\ WF_vars(Tick)

-----------------------------------------------------------------------------
(* Properties *)

TypeOK ==
    /\ receipt \in Activations \cup {None}
    /\ epoch \in 0..MaxEpochs
    /\ client \in [Clients -> [pc : {"new", "connect", "spawn", "launch",
                                     "latch:started", "latch:failed",
                                     "hello", "send", "sent", "done"},
                               kind : Kinds, sel : Activations \cup {None}]]
    /\ answer \in [Clients -> Answers]
    /\ conn \in [Clients -> [at : {"none", "queued", "accepted", "greeted", "turned",
                                   "asked", "working", "ruled", "over"},
                             by : Activations \cup {None, Older}]]
    /\ verdict \in [Clients -> {"none", "allow", "deny", "warn"}]
    /\ rulings \in [Clients -> Nat]
    /\ latch \in {"past", "unready", "started"}
    /\ boots \subseteq Activations
    /\ served \in Activations \cup {None, Older}
    /\ idle \in 0..Cap /\ inflight \in Nat
    /\ drain \in {"no", "begun", "over"}
    /\ live \in 0..Gone

\* What a client says is true of what was done.  At most one dispatch, by
\* the activation the client had selected; a relayed verdict is that
\* dispatch's; and who is told that nothing compatible checked the event, or
\* that no rule was transmitted, is told so of an event nothing ever rules on.
AnswersAreTrue ==
    \A c \in Clients :
        LET why == answer[c].why
        IN /\ rulings[c] <= 1
           /\ rulings[c] = 1 => conn[c].by = client[c].sel
           /\ why \in {"relayed", "saved"} => rulings[c] = 1
           /\ why = "relayed" => answer[c].rule = verdict[c]
           /\ why \in {"refused", "starting", "unreachable"} => rulings[c] = 0

\* An outbound call goes ahead only if a daemon of the activation its hook
\* selected ruled so, whatever fails between them, with two exceptions: a
\* shell command the client does not recognise (_looks_like_egress) may go
\* ahead with a warning that nothing verified it, and a client that crashes
\* says nothing (cli; docs/known-limits.md 22).  In no other way is a call let
\* go, and never without the warning while the client lives.
OutboundCallsAreRuled ==
    \A c \in Clients :
        (client[c].kind \in Outbound /\ client[c].pc = "done" /\ answer[c].rule # "deny")
            => \/ /\ verdict[c] = "allow" /\ conn[c].by = client[c].sel
                  /\ answer[c] = [why |-> "relayed", rule |-> "allow"]
               \/ /\ client[c].kind = "command" /\ answer[c].rule = "warn"
                  /\ answer[c].why \in {"unverified", "starting", "refused"}
               \/ answer[c].why = "crashed"

\* A daemon that leaves on its own cuts no request off that it has accepted,
\* unless its drain timeout has passed.
RepliesAreFlushed ==
    [][(Leave /\ drain # "over")
         => \A c \in Clients : conn[c].at \in {"none", "queued", "over"}]_vars

\* Whatever is leaked, a session without an end or a request that is never
\* counted out, the daemon does not stay for ever.
AlwaysExits == Serving ~> (served = None)
=============================================================================
