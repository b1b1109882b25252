------------------------- MODULE HookService_proofs -------------------------
(***************************************************************************)
(* Proofs about HookService for any clients, builds, backlog and number of *)
(* activations, and about the file its daemon shows a session in           *)
(* (HudSnapshot, the instance Display below).                              *)
(***************************************************************************)
EXTENDS HookService, TLAPS, FiniteSetTheorems

USE ServiceAssumption

-----------------------------------------------------------------------------
\* The types

Pcs == {"new", "connect", "spawn", "launch", "latch:started", "latch:failed",
        "hello", "send", "sent", "done"}
Places == {"none", "queued", "accepted", "greeted", "turned", "asked", "working", "ruled",
           "over"}
Daemons == Activations \cup {None, Older}
ClientRecord == [pc : Pcs, kind : Kinds, sel : Activations \cup {None}]
ConnRecord == [at : Places, by : Daemons]

\* TypeOK, with its record types named.
LEMMA Types ==
    TypeOK <=>
      /\ receipt \in Activations \cup {None}
      /\ epoch \in 0..MaxEpochs
      /\ client \in [Clients -> ClientRecord]
      /\ answer \in [Clients -> Answers]
      /\ conn \in [Clients -> ConnRecord]
      /\ verdict \in [Clients -> {"none", "allow", "deny", "warn"}]
      /\ rulings \in [Clients -> Nat]
      /\ latch \in {"past", "unready", "started"}
      /\ boots \subseteq Activations
      /\ served \in Daemons
      /\ idle \in 0..Cap /\ inflight \in Nat
      /\ drain \in {"no", "begun", "over"}
      /\ live \in 0..Gone
BY DEF TypeOK, ClientRecord, ConnRecord, Pcs, Places, Daemons

\* The initial state is typed.
LEMMA InitTyped == Init => TypeOK
<1> SUFFICES ASSUME Init PROVE TypeOK
  OBVIOUS
<1>1. PICK kinds \in Invocations :
        client = [c \in Clients |-> [pc |-> "new", kind |-> kinds[c], sel |-> None]]
  BY DEF Init
<1>2. \A c \in Clients : kinds[c] \in Kinds
  BY <1>1, ServiceAssumption DEF Kinds
<1>3. client \in [Clients -> ClientRecord]
  BY <1>1, <1>2 DEF ClientRecord, Pcs
<1> QED
  BY <1>3, Types DEF Init, ConnRecord, Places, Daemons, Answers, NoAnswer, NoConn, Cap, Gone

\* What a client tells, and where it goes, is typed.
LEMMA ToldIsTyped ==
    ASSUME TypeOK, NEW c \in Clients
    PROVE  /\ \A why \in {"unverified", "starting", "refused"} : FailSafe(c, why) \in Answers
           /\ NotSent(c) \in Answers /\ Unknown(c) \in Answers /\ Refused(c) \in Answers
           /\ Nothing \in Answers /\ NoAnswer \in Answers
           /\ \A a \in Answers : Answer(c, a) =>
                client' \in [Clients -> ClientRecord] /\ answer' \in [Clients -> Answers]
           /\ \A pc \in Pcs : Goto(c, pc) =>
                client' \in [Clients -> ClientRecord] /\ answer' \in [Clients -> Answers]
           /\ \A from, to \in Places : Move(c, from, to) => conn' \in [Clients -> ConnRecord]
<1>1. /\ \A why \in {"unverified", "starting", "refused"} : FailSafe(c, why) \in Answers
      /\ NotSent(c) \in Answers /\ Unknown(c) \in Answers /\ Refused(c) \in Answers
      /\ Nothing \in Answers /\ NoAnswer \in Answers
  BY DEF FailSafe, NotSent, Unknown, Refused, Nothing, NoAnswer, Answers
<1>2. client[c] \in ClientRecord /\ conn[c] \in ConnRecord
  BY Types
<1>3. \A pc \in Pcs : [client[c] EXCEPT !.pc = pc] \in ClientRecord
  BY <1>2 DEF ClientRecord
<1>4. "done" \in Pcs
  BY DEF Pcs
<1>5. \A to \in Places : [conn[c] EXCEPT !.at = to] \in ConnRecord
  BY <1>2 DEF ConnRecord
<1> QED
  BY <1>1, <1>3, <1>4, <1>5, Types DEF Answer, Goto, Move

\* Every step of a client keeps the types.
LEMMA ClientTyped ==
    ASSUME TypeOK, NEW c \in Clients, ClientStep(c)
    PROVE  TypeOK'
<1> USE Types, ToldIsTyped DEF receiptVars, clientVars, connVars, spawnVars, daemonVars
<1>1. ASSUME client' \in [Clients -> ClientRecord], answer' \in [Clients -> Answers],
             UNCHANGED <<receiptVars, connVars, spawnVars, daemonVars>>
      PROVE  TypeOK'
  <2>1. client' \in [Clients -> [pc : {"new", "connect", "spawn", "launch",
                                      "latch:started", "latch:failed",
                                      "hello", "send", "sent", "done"},
                                kind : Kinds, sel : Activations \cup {None}]]
    BY <1>1 DEF ClientRecord, Pcs
  <2> QED
    BY ONLY TypeOK, <1>1, <2>1, Zenon
       DEF TypeOK, receiptVars, clientVars, connVars, spawnVars, daemonVars
<1>2. CASE Begin(c)
  <2>1. \A me \in ClientRecord, a \in Activations \cup {None} :
          [[me EXCEPT !.pc = "connect"] EXCEPT !.sel = a] \in ClientRecord
    BY DEF ClientRecord, Pcs
  <2>2. CASE /\ client' = [client EXCEPT ![c].pc = "connect", ![c].sel = receipt]
             /\ UNCHANGED answer
    BY <1>1, <1>2, <2>1, <2>2 DEF Begin
  <2>3. CASE Answer(c, NotSent(c)) \/ Answer(c, Refused(c))
    BY <1>1, <1>2, <2>3 DEF Begin
  <2> QED
    BY <1>2, <2>2, <2>3 DEF Begin
<1>3. CASE Connect(c)
  <2>1. client' \in [Clients -> ClientRecord] /\ answer' \in [Clients -> Answers]
    BY <1>3 DEF Connect, Pcs
  <2>2. [at |-> "queued", by |-> served] \in ConnRecord
    BY DEF ConnRecord, Places
  <2>3. conn' \in [Clients -> ConnRecord]
    BY <1>3, <2>2 DEF Connect
  <2> QED
    BY <1>3, <2>1, <2>3 DEF Connect, TypeOK, ClientRecord, ConnRecord, Pcs, Places, Daemons
<1>4. CASE ConnectFails(c)
  <2>1. client' \in [Clients -> ClientRecord] /\ answer' \in [Clients -> Answers]
    BY <1>4 DEF ConnectFails, Pcs
  <2> QED
    BY <1>1, <1>4, <2>1 DEF ConnectFails
<1>5. CASE Cooldown(c)
  <2>1. client' \in [Clients -> ClientRecord] /\ answer' \in [Clients -> Answers]
    BY <1>5 DEF Cooldown
  <2> QED
    BY <1>1, <1>5, <2>1 DEF Cooldown
<1>6. CASE LatchSeen(c)
  <2>1. client' \in [Clients -> ClientRecord] /\ answer' \in [Clients -> Answers]
    BY <1>6 DEF LatchSeen, Pcs
  <2> QED
    BY <1>1, <1>6, <2>1 DEF LatchSeen
<1>7. CASE Launch(c)
  <2>1. client' \in [Clients -> ClientRecord] /\ answer' \in [Clients -> Answers]
    BY <1>7 DEF Launch, Pcs
  <2>2. boots' \subseteq Activations /\ latch' = "unready"
    BY <1>7 DEF Launch
  <2> QED
    BY <1>7, <2>1, <2>2 DEF Launch, TypeOK, ClientRecord, Pcs
<1>8. CASE WriteLatch(c)
  <2>1. client' \in [Clients -> ClientRecord] /\ answer' \in [Clients -> Answers]
    BY <1>8 DEF WriteLatch
  <2> QED
    BY <1>8, <2>1 DEF WriteLatch, TypeOK, ClientRecord, Pcs
<1>9. CASE Greeted(c)
  <2>1. client' \in [Clients -> ClientRecord] /\ answer' \in [Clients -> Answers]
    BY <1>9 DEF Greeted, Pcs
  <2> QED
    BY <1>1, <1>9, <2>1 DEF Greeted
<1>13. CASE Send(c)
  <2>1. client' \in [Clients -> ClientRecord] /\ answer' \in [Clients -> Answers]
    BY <1>13 DEF Send, Pcs
  <2>2. conn[c] \in ConnRecord /\ conn \in [Clients -> ConnRecord]
    OBVIOUS
  <2>3. [conn[c] EXCEPT !.at = IF @ = "greeted" THEN "asked" ELSE @] \in ConnRecord
    BY <2>2 DEF ConnRecord, Places
  <2>4. conn' \in [Clients -> ConnRecord]
    BY <1>13, <2>2, <2>3 DEF Send
  <2> QED
    BY <1>13, <2>1, <2>4 DEF Send, TypeOK, ClientRecord, ConnRecord, Pcs, Places, Daemons
<1>14. CASE NeverBegins(c)
  BY <1>1, <1>14 DEF NeverBegins
<1>15. CASE Crashes(c)
  <2>1. client' \in [Clients -> ClientRecord] /\ answer' \in [Clients -> Answers]
    BY <1>15 DEF Crashes
  <2> QED
    BY <1>1, <1>15, <2>1 DEF Crashes
<1>10. CASE TurnedAway(c)
  <2>1. client' \in [Clients -> ClientRecord] /\ answer' \in [Clients -> Answers]
    BY <1>10 DEF TurnedAway
  <2> QED
    BY <1>1, <1>10, <2>1 DEF TurnedAway
<1>11. CASE Replied(c)
  <2>1. PICK a : /\ Answer(c, a)
                 /\ a \in {Unknown(c), [why |-> "saved", rule |-> "none"],
                           [why |-> "relayed", rule |-> verdict[c]]}
    BY <1>11 DEF Replied
  <2>2. a \in Answers
    BY <2>1 DEF Answers
  <2> QED
    BY <1>1, <1>11, <2>1, <2>2 DEF Replied
<1>12. CASE TimesOut(c)
  <2>1. client' \in [Clients -> ClientRecord] /\ answer' \in [Clients -> Answers]
    BY <1>12 DEF TimesOut
  <2> QED
    BY <1>1, <1>12, <2>1 DEF TimesOut
<1> QED
  BY <1>2, <1>3, <1>4, <1>5, <1>6, <1>7, <1>8, <1>9, <1>10, <1>11, <1>12,
     <1>13, <1>14, <1>15 DEF ClientStep

\* Every step of a connection's thread keeps the types.
LEMMA WorkerTyped ==
    ASSUME TypeOK, NEW c \in Clients, WorkerStep(c)
    PROVE  TypeOK'
<1> USE Types, ToldIsTyped DEF receiptVars, clientVars, connVars, spawnVars, daemonVars
<1>1. conn' \in [Clients -> ConnRecord]
  BY DEF WorkerStep, Accept, SetupFails, Hello, Read, Rule, Silent, Finish, Places
<1>2. inflight' \in Nat /\ idle' \in 0..Cap
  BY DEF WorkerStep, Accept, Counted, SetupFails, Hello, Read, Rule, Silent, Finish, Cap
<1>3. live' \in 0..Gone
  BY DEF WorkerStep, Accept, SetupFails, Hello, Read, Rule, Silent, Finish, Gone, Cap
<1>4. verdict' \in [Clients -> {"none", "allow", "deny", "warn"}]
  BY DEF WorkerStep, Accept, SetupFails, Hello, Read, Rule, Verdicts, Raised, Silent, Finish
<1>5. rulings' \in [Clients -> Nat]
  BY DEF WorkerStep, Accept, SetupFails, Hello, Read, Rule, Silent, Finish
<1>6. UNCHANGED <<receiptVars, clientVars, spawnVars, served, drain>>
  BY DEF WorkerStep, Accept, SetupFails, Hello, Read, Rule, Silent, Finish
<1> QED
  BY <1>1, <1>2, <1>3, <1>4, <1>5, <1>6 DEF TypeOK, ConnRecord, Places, Daemons

\* The steps of the daemon, of time, of a boot and of a repair.
LEMMA AroundTyped ==
    ASSUME TypeOK,
           \/ LatchAges \/ Leave \/ Poll \/ Die \/ Tick \/ OlderServes \/ Repair \/ SetUp
           \/ \E a \in boots : Boot(a) \/ BootFails(a)
    PROVE  TypeOK'
<1> USE Types DEF receiptVars, clientVars, connVars, spawnVars, daemonVars
<1>1. CASE LatchAges
  BY <1>1 DEF LatchAges, TypeOK
<1>2. ASSUME Down, UNCHANGED <<receiptVars, clientVars, verdict, rulings, spawnVars>>
      PROVE  TypeOK'
  <2>1. \A c \in Clients : CutOff[c] \in ConnRecord
    BY DEF CutOff, ConnRecord, Places
  <2>2. conn' \in [Clients -> ConnRecord]
    BY <1>2, <2>1 DEF Down, CutOff
  <2> QED
    BY <1>2, <2>2 DEF Down, TypeOK, ConnRecord, Places, Daemons, Cap, Gone
<1>3. CASE Leave \/ Die
  BY <1>2, <1>3 DEF Leave, Die
<1>4. CASE Poll
  BY <1>4 DEF Poll, TypeOK
<1>5. CASE Tick
  <2>1. idle' \in 0..Cap /\ live' \in 0..Gone
    BY <1>5 DEF Tick, Aged, Cap, Gone
  <2> QED
    BY <1>5, <2>1 DEF Tick, TypeOK
<1>6. CASE Repair
  <2>1. epoch \in Nat /\ epoch + 1 \in 1..MaxEpochs
    BY <1>6 DEF Repair
  <2>2. receipt' \in Activations
    BY <1>6, <2>1 DEF Repair, Activations
  <2> QED
    BY <1>6, <2>1, <2>2 DEF Repair, TypeOK
<1>7. CASE SetUp
  BY <1>7 DEF SetUp, TypeOK
<1>8. ASSUME NEW a \in boots, Boot(a) \/ BootFails(a) PROVE TypeOK'
  BY <1>8 DEF Boot, BootFails, TypeOK, Daemons
<1>9. CASE OlderServes
  BY <1>9 DEF OlderServes, TypeOK, Daemons
<1> QED
  BY <1>1, <1>3, <1>4, <1>5, <1>6, <1>7, <1>8, <1>9

\* Every step keeps the types.
LEMMA StepTyped ==
    ASSUME TypeOK, [Next]_vars
    PROVE  TypeOK'
<1>1. CASE UNCHANGED vars
  BY <1>1 DEF vars, receiptVars, clientVars, connVars, spawnVars, daemonVars, TypeOK
<1> QED
  BY <1>1, ClientTyped, WorkerTyped, AroundTyped DEF Next

\* TypeOK: the variables keep their types.
THEOREM Typed == Spec => []TypeOK
BY InitTyped, StepTyped, PTL DEF Spec

-----------------------------------------------------------------------------
\* One client, its connection and its ruling

\* A connection that is not over is one to the daemon that serves.
Bound(c) == conn[c].at \notin {"none", "over"}
              => conn[c].by = served /\ served # None

\* The thread that serves the client's connection has greeted it.
Greets(c) == conn[c].at \in {"greeted", "asked", "working"} => conn[c].by = client[c].sel

\* What is ruled is what the connection, if it has got that far, answers.
Ruling(c) ==
    /\ verdict[c] = "none" <=> rulings[c] = 0
    /\ rulings[c] # 0 => /\ rulings[c] = 1 /\ conn[c].by = client[c].sel
                         /\ conn[c].at \in {"ruled", "over"}
    /\ client[c].kind \in Outbound => verdict[c] # "warn"

\* How far the client has got: its request is read and ruled on only after
\* it was sent.
Progress(c) ==
    /\ client[c].pc \in {"new", "connect", "spawn", "launch", "latch:started",
                         "latch:failed"}
         => conn[c].at = "none" /\ rulings[c] = 0
    /\ client[c].pc \in {"hello", "send"} => conn[c].at \notin {"asked", "working"} /\ rulings[c] = 0
    /\ client[c].pc \in {"send", "sent"} => conn[c].by = client[c].sel
    /\ client[c].pc # "done" => answer[c] = NoAnswer

\* Why an outbound call of this kind may be answered so.
Excused(kind, a) ==
    \/ a.rule = "deny" \/ a.why \in {"relayed", "crashed"}
    \/ /\ kind = "command" /\ a.rule = "warn"
       /\ a.why \in {"unverified", "starting", "refused"}

\* What it was told when it was done.
Told(c) ==
    client[c].pc = "done" =>
        /\ answer[c].why \in {"relayed", "saved"} => rulings[c] = 1
        /\ answer[c].why = "relayed" => answer[c].rule = verdict[c]
        /\ answer[c].why \in {"refused", "starting", "unreachable"}
             => rulings[c] = 0 /\ conn[c].at \notin {"asked", "working"}
        /\ client[c].kind \in Outbound => Excused(client[c].kind, answer[c])

Honest(c) == Bound(c) /\ Greets(c) /\ Ruling(c) /\ Progress(c) /\ Told(c)
AllHonest == \A c \in Clients : Honest(c)

\* A step of one client or its connection leaves the others alone.
LEMMA OthersStand ==
    ASSUME TypeOK, NEW c \in Clients, ClientStep(c) \/ WorkerStep(c),
           NEW d \in Clients, d # c
    PROVE  /\ client'[d] = client[d] /\ answer'[d] = answer[d] /\ conn'[d] = conn[d]
           /\ verdict'[d] = verdict[d] /\ rulings'[d] = rulings[d] /\ served' = served
<1> USE Types DEF receiptVars, clientVars, connVars, spawnVars, daemonVars
<1>1. CASE ClientStep(c)
  <2>1. UNCHANGED <<verdict, rulings, served>> /\ conn'[d] = conn[d]
    BY <1>1 DEF ClientStep, Begin, NeverBegins, Crashes, Connect, ConnectFails, Cooldown,
                LatchSeen, Launch, WriteLatch, Greeted, TurnedAway, Send, Replied, TimesOut
  <2>2. client'[d] = client[d] /\ answer'[d] = answer[d]
    BY <1>1 DEF ClientStep, Begin, NeverBegins, Crashes, Connect, ConnectFails, Cooldown,
                LatchSeen, Launch, WriteLatch, Greeted, TurnedAway, Send, Replied, TimesOut, Goto, Answer
  <2> QED
    BY <2>1, <2>2
<1>2. CASE WorkerStep(c)
  BY <1>2 DEF WorkerStep, Accept, SetupFails, Hello, Read, Rule, Silent, Finish, Move
<1> QED
  BY <1>1, <1>2

\* What is known of one client before a step.
LEMMA OneClient ==
    ASSUME TypeOK, NEW c \in Clients, Honest(c)
    PROVE  /\ client[c] \in ClientRecord /\ answer[c] \in Answers /\ conn[c] \in ConnRecord
           /\ verdict[c] \in {"none", "allow", "deny", "warn"} /\ rulings[c] \in Nat
           /\ Bound(c) /\ Greets(c) /\ Ruling(c) /\ Progress(c) /\ Told(c)
BY Types DEF Honest

\* A client goes on, having been told nothing.
LEMMA GoesOn ==
    ASSUME TypeOK, NEW c \in Clients, Honest(c), NEW pc \in Pcs \ {"new", "done"}, Goto(c, pc),
           client[c].pc # "done", UNCHANGED <<connVars, served>>,
           pc \in {"connect", "spawn", "launch", "latch:started", "latch:failed"}
             => conn[c].at = "none" /\ rulings[c] = 0,
           pc \in {"hello", "send"} => conn[c].at \notin {"asked", "working"} /\ rulings[c] = 0,
           pc \in {"send", "sent"} => conn[c].by = client[c].sel
    PROVE  Honest(c)'
<1>1. client'[c] = [client[c] EXCEPT !.pc = pc] /\ answer'[c] = answer[c]
  BY Types DEF Goto
<1>2. Bound(c)' /\ Greets(c)' /\ Ruling(c)'
  BY <1>1, OneClient DEF connVars, Bound, Greets, Ruling, ClientRecord
<1>3. Progress(c)' /\ Told(c)'
  BY <1>1, OneClient DEF connVars, Progress, Told, ClientRecord, Pcs
<1> QED
  BY <1>2, <1>3 DEF Honest

\* A client is done, and what it tells is true.
LEMMA Tells ==
    ASSUME TypeOK, NEW c \in Clients, Honest(c), NEW a \in Answers, Answer(c, a),
           UNCHANGED <<connVars, served>>,
           a.why \in {"relayed", "saved"} => rulings[c] = 1,
           a.why = "relayed" => a.rule = verdict[c],
           a.why \in {"refused", "starting", "unreachable"}
             => rulings[c] = 0 /\ conn[c].at \notin {"asked", "working"},
           client[c].kind \in Outbound => Excused(client[c].kind, a)
    PROVE  Honest(c)'
<1>1. client'[c] = [client[c] EXCEPT !.pc = "done"] /\ answer'[c] = a
  BY Types DEF Answer
<1>2. Bound(c)' /\ Greets(c)' /\ Ruling(c)'
  BY <1>1, OneClient DEF connVars, Bound, Greets, Ruling, ClientRecord
<1>3. Progress(c)' /\ Told(c)'
  BY <1>1, OneClient DEF connVars, Progress, Told, ClientRecord, Pcs
<1> QED
  BY <1>2, <1>3 DEF Honest

\* The client's own steps.
LEMMA ClientHonest ==
    ASSUME TypeOK, NEW c \in Clients, Honest(c), ClientStep(c)
    PROVE  Honest(c)'
<1> USE OneClient, ToldIsTyped DEF Progress, daemonVars, Pcs, Excused, Outbound
<1>1. CASE Begin(c)
  <2>1. /\ client[c].pc = "new" /\ conn[c].at = "none" /\ rulings[c] = 0
        /\ verdict[c] = "none" /\ answer[c] = NoAnswer
        /\ UNCHANGED <<connVars, served>>
    BY <1>1 DEF Begin, Ruling
  <2>2. CASE /\ client' = [client EXCEPT ![c].pc = "connect", ![c].sel = receipt]
             /\ UNCHANGED answer
    <3>1. client'[c].pc = "connect" /\ client'[c].kind = client[c].kind
      BY <2>2, Types DEF ClientRecord
    <3> QED
      BY <2>1, <2>2, <3>1 DEF connVars, Honest, Bound, Greets, Ruling, Told
  <2>3. CASE Answer(c, NotSent(c))
    BY <2>1, <2>3, Tells DEF NotSent, FailSafe
  <2>4. CASE Answer(c, Refused(c))
    BY <2>1, <2>4, Tells DEF Refused, FailSafe
  <2> QED
    BY <1>1, <2>2, <2>3, <2>4 DEF Begin
<1>13. CASE NeverBegins(c)
  <2>1. /\ conn[c].at = "none" /\ rulings[c] = 0 /\ Answer(c, Nothing)
        /\ UNCHANGED <<connVars, served>>
    BY <1>13 DEF NeverBegins
  <2> QED
    BY <2>1, Tells DEF Nothing
<1>14. CASE Crashes(c)
  <2>1. UNCHANGED <<connVars, served>>
    BY <1>14 DEF Crashes
  <2>2. CASE client[c].kind = "policy" /\ Answer(c, NoAnswer)
    BY <2>1, <2>2, Tells DEF NoAnswer
  <2>3. CASE Answer(c, Nothing)
    BY <2>1, <2>3, Tells DEF Nothing
  <2> QED
    BY <1>14, <2>2, <2>3 DEF Crashes
<1>2. CASE Connect(c)
  <2>1. /\ client'[c] = [client[c] EXCEPT !.pc = "hello"] /\ answer'[c] = answer[c]
        /\ conn'[c] = [at |-> "queued", by |-> served] /\ served # None
        /\ UNCHANGED <<verdict, rulings, served>> /\ rulings[c] = 0
    BY <1>2, Types DEF Connect, Goto
  <2> QED
    BY <1>2, <2>1 DEF Honest, Bound, Greets, Ruling, Told, ClientRecord, Connect
<1>3. CASE ConnectFails(c)
  <2>1. client[c].pc = "connect" /\ conn[c].at = "none" /\ rulings[c] = 0
        /\ UNCHANGED <<connVars, served>>
    BY <1>3 DEF ConnectFails
  <2>2. CASE client[c].kind = "policy" /\ Answer(c, NotSent(c))
    BY <2>1, <2>2, Tells DEF NotSent
  <2>3. CASE Goto(c, "spawn")
    BY <2>1, <2>3, GoesOn
  <2> QED
    BY <1>3, <2>2, <2>3 DEF ConnectFails
<1>4. CASE Cooldown(c)
  <2>1. client[c].pc = "spawn" /\ conn[c].at = "none" /\ rulings[c] = 0
        /\ UNCHANGED <<connVars, served>>
    BY <1>4 DEF Cooldown
  <2>2. PICK why \in {"starting", "unverified"} : Answer(c, FailSafe(c, why))
    BY <1>4 DEF Cooldown
  <2> QED
    BY <2>1, <2>2, Tells DEF FailSafe
<1>5. CASE LatchSeen(c)
  BY <1>5, GoesOn DEF LatchSeen
<1>6. CASE Launch(c)
  BY <1>6, GoesOn DEF Launch
<1>7. CASE WriteLatch(c)
  <2>1. conn[c].at = "none" /\ rulings[c] = 0 /\ UNCHANGED <<connVars, served>>
    BY <1>7 DEF WriteLatch
  <2>2. PICK why \in {"starting", "unverified"} : Answer(c, FailSafe(c, why))
    BY <1>7 DEF WriteLatch
  <2> QED
    BY <2>1, <2>2, Tells DEF FailSafe
<1>8. CASE Greeted(c)
  BY <1>8, GoesOn DEF Greeted, Welcome
<1>9. CASE TurnedAway(c)
  <2>1. rulings[c] = 0 /\ conn[c].at \notin {"asked", "working"} /\ UNCHANGED <<connVars, served>>
    BY <1>9 DEF TurnedAway
  <2>2. Answer(c, Refused(c))
    BY <1>9 DEF TurnedAway
  <2> QED
    BY <2>1, <2>2, Tells DEF Refused, FailSafe
<1>10. CASE Send(c)
  <2>1. /\ client'[c] = [client[c] EXCEPT !.pc = "sent"] /\ answer'[c] = answer[c]
        /\ conn'[c] = [conn[c] EXCEPT !.at = IF @ = "greeted" THEN "asked" ELSE @]
        /\ UNCHANGED <<verdict, rulings, served>> /\ client[c].pc = "send"
    BY <1>10, Types DEF Send, Goto
  <2>2. Bound(c)' /\ Greets(c)' /\ Ruling(c)'
    BY <2>1 DEF Bound, Greets, Ruling, ClientRecord, ConnRecord
  <2>3. Progress(c)' /\ Told(c)'
    BY <2>1 DEF Told, ClientRecord, ConnRecord
  <2> QED
    BY <2>2, <2>3 DEF Honest
<1>11. CASE Replied(c)
  <2>1. UNCHANGED <<connVars, served>>
    BY <1>11 DEF Replied
  <2>2. CASE verdict[c] = "none"
    <3>1. Answer(c, Unknown(c))
      BY <1>11, <2>2 DEF Replied
    <3> QED
      BY <2>1, <3>1, Tells DEF Unknown, FailSafe
  <2>3. CASE verdict[c] # "none" /\ client[c].kind = "policy"
    <3>1. Answer(c, [why |-> "saved", rule |-> "none"])
      BY <1>11, <2>3 DEF Replied
    <3>2. [why |-> "saved", rule |-> "none"] \in Answers /\ rulings[c] = 1
      BY <2>3 DEF Answers, Ruling
    <3> QED
      BY <2>1, <2>3, <3>1, <3>2, Tells
  <2>4. CASE verdict[c] # "none" /\ client[c].kind # "policy"
    <3>1. Answer(c, [why |-> "relayed", rule |-> verdict[c]])
      BY <1>11, <2>4 DEF Replied
    <3>2. [why |-> "relayed", rule |-> verdict[c]] \in Answers /\ rulings[c] = 1
      BY <2>4 DEF Answers, Ruling
    <3> QED
      BY <2>1, <3>1, <3>2, Tells
  <2> QED
    BY <2>2, <2>3, <2>4
<1>12. CASE TimesOut(c)
  <2>1. UNCHANGED <<connVars, served>>
    BY <1>12 DEF TimesOut
  <2>2. CASE client[c].pc = "hello"
    <3>1. Answer(c, NotSent(c)) /\ rulings[c] = 0 /\ conn[c].at \notin {"asked", "working"}
      BY <1>12, <2>2 DEF TimesOut
    <3> QED
      BY <2>1, <3>1, Tells DEF NotSent, FailSafe
  <2>3. CASE client[c].pc # "hello"
    <3>1. Answer(c, Unknown(c))
      BY <1>12, <2>3 DEF TimesOut
    <3> QED
      BY <2>1, <3>1, Tells DEF Unknown, FailSafe
  <2> QED
    BY <2>2, <2>3
<1> QED
  BY <1>1, <1>2, <1>3, <1>4, <1>5, <1>6, <1>7, <1>8, <1>9, <1>10, <1>11, <1>12,
     <1>13, <1>14 DEF ClientStep

\* The steps of the thread that serves it.
LEMMA WorkerHonest ==
    ASSUME TypeOK, NEW c \in Clients, Honest(c), WorkerStep(c)
    PROVE  Honest(c)'
<1> USE OneClient, Types DEF Bound, Greets, Ruling, Progress, Told, clientVars, daemonVars,
        Move, ConnRecord, Places
<1>1. CASE Accept(c)
  BY <1>1 DEF Accept, Honest
<1>2. CASE SetupFails(c)
  BY <1>2 DEF SetupFails, Honest
<1>3. CASE Hello(c)
  BY <1>3 DEF Hello, Honest
<1>4. CASE Read(c)
  BY <1>4 DEF Read, Honest
<1>5. CASE Rule(c)
  <2>1. PICK v \in Verdicts(c) : verdict' = [verdict EXCEPT ![c] = v]
    BY <1>5 DEF Rule
  <2>2. v # "none" /\ (client[c].kind \in Outbound => v # "warn")
    BY DEF Verdicts, Raised
  <2>3. /\ conn[c].at = "working" /\ conn'[c] = [conn[c] EXCEPT !.at = "ruled"]
        /\ UNCHANGED <<client, answer, served>> /\ rulings' = [rulings EXCEPT ![c] = @ + 1]
    BY <1>5 DEF Rule
  <2>4. rulings[c] = 0 /\ rulings'[c] = 1 /\ verdict'[c] = v
    BY <2>1, <2>3
  <2> QED
    BY <2>2, <2>3, <2>4 DEF Honest
<1>6. CASE Silent(c)
  BY <1>6 DEF Silent, Honest
<1>7. CASE Finish(c)
  BY <1>7 DEF Finish, Honest
<1> QED
  BY <1>1, <1>2, <1>3, <1>4, <1>5, <1>6, <1>7 DEF WorkerStep

\* The daemon goes, and every connection to it is over; another one starts
\* only when none serves.
LEMMA AroundHonest ==
    ASSUME TypeOK, NEW c \in Clients, Honest(c),
           \/ LatchAges \/ Leave \/ Poll \/ Die \/ Tick \/ OlderServes \/ Repair \/ SetUp
           \/ \E a \in boots : Boot(a) \/ BootFails(a)
    PROVE  Honest(c)'
<1> USE OneClient, Types DEF Bound, Greets, Ruling, Progress, Told, clientVars, connVars,
        daemonVars
<1>1. CASE LatchAges \/ Poll \/ Tick \/ Repair \/ SetUp
  BY <1>1 DEF LatchAges, Poll, Tick, Repair, SetUp, Honest
<1>4. CASE OlderServes
  BY <1>4 DEF OlderServes, Honest
<1>2. CASE Leave \/ Die
  <2>1. /\ conn'[c] = CutOff[c] /\ served' = None
        /\ UNCHANGED <<client, answer, verdict, rulings>>
    BY <1>2 DEF Leave, Die, Down, CutOff
  <2>2. CutOff[c] = IF conn[c].at \in {"none", "over"} THEN conn[c]
                    ELSE [conn[c] EXCEPT !.at = "over"]
    BY DEF CutOff
  <2> QED
    BY <2>1, <2>2 DEF Honest, ConnRecord, Places
<1>3. ASSUME NEW a \in boots, Boot(a) \/ BootFails(a) PROVE Honest(c)'
  BY <1>3 DEF Boot, BootFails, Honest
<1> QED
  BY <1>1, <1>2, <1>3, <1>4

\* Every step keeps every client honest.
LEMMA StepHonest ==
    ASSUME TypeOK, AllHonest, [Next]_vars
    PROVE  AllHonest'
<1> SUFFICES ASSUME NEW d \in Clients PROVE Honest(d)'
  BY DEF AllHonest
<1> Honest(d)
  BY DEF AllHonest
<1>1. CASE UNCHANGED vars
  BY <1>1 DEF vars, clientVars, connVars, daemonVars, Honest, Bound, Greets, Ruling,
              Progress, Told
<1>2. ASSUME NEW c \in Clients, ClientStep(c) \/ WorkerStep(c), c # d PROVE Honest(d)'
  BY <1>2, OthersStand DEF Honest, Bound, Greets, Ruling, Progress, Told
<1>3. CASE ClientStep(d) \/ WorkerStep(d)
  BY <1>3, ClientHonest, WorkerHonest
<1>4. CASE \/ LatchAges \/ Leave \/ Poll \/ Die \/ Tick \/ OlderServes \/ Repair \/ SetUp
           \/ \E a \in boots : Boot(a) \/ BootFails(a)
  BY <1>4, AroundHonest
<1> QED
  BY <1>1, <1>2, <1>3, <1>4 DEF Next

\* AllHonest is the inductive strengthening of the two invariants that follow.
THEOREM Honesty == Spec => []AllHonest
<1>1. Init => AllHonest
  BY DEF Init, NoConn, NoAnswer, AllHonest, Honest, Bound, Greets, Ruling, Progress, Told
<1>2. TypeOK /\ AllHonest /\ [Next]_vars => (TypeOK /\ AllHonest)'
  BY StepTyped, StepHonest
<1> QED
  BY <1>1, <1>2, InitTyped, PTL DEF Spec

\* AnswersAreTrue: hooks and policy requests tell the truth about what was
\* dispatched, for any number of clients, activations and daemons.
THEOREM NoFalseAnswers == Spec => []AnswersAreTrue
<1>1. TypeOK /\ AllHonest => AnswersAreTrue
  BY Types DEF AllHonest, Honest, Ruling, Progress, Told, AnswersAreTrue, NoAnswer
<1> QED
  BY <1>1, Typed, Honesty, PTL

\* OutboundCallsAreRuled: an outbound call goes ahead only on the word of the
\* selected daemon, on a warning if its hook does not recognise it, or when
\* the client itself has crashed; for any number of clients, activations and
\* daemons, whatever else fails.
THEOREM NothingGoesUnruled == Spec => []OutboundCallsAreRuled
<1>1. TypeOK /\ AllHonest => OutboundCallsAreRuled
  <2> SUFFICES ASSUME TypeOK, AllHonest, NEW c \in Clients, client[c].kind \in Outbound,
                      client[c].pc = "done", answer[c].rule # "deny",
                      answer[c].why # "crashed",
                      ~ (/\ client[c].kind = "command" /\ answer[c].rule = "warn"
                         /\ answer[c].why \in {"unverified", "starting", "refused"})
               PROVE  /\ verdict[c] = "allow" /\ conn[c].by = client[c].sel
                      /\ answer[c] = [why |-> "relayed", rule |-> "allow"]
    BY DEF OutboundCallsAreRuled
  <2>1. Honest(c)
    BY DEF AllHonest
  <2>2. answer[c].why = "relayed" /\ rulings[c] = 1 /\ answer[c].rule = verdict[c]
    BY <2>1, OneClient DEF Told, Excused
  <2>3. verdict[c] \notin {"none", "warn", "deny"} /\ conn[c].by = client[c].sel
    BY <2>1, <2>2, OneClient DEF Ruling
  <2>4. verdict[c] = "allow" /\ answer[c] \in Answers
    BY <2>1, <2>3, OneClient
  <2> QED
    BY <2>2, <2>3, <2>4 DEF Answers
<1> QED
  BY <1>1, Typed, Honesty, PTL

-----------------------------------------------------------------------------
\* The requests in flight

Accepted == {"accepted", "greeted", "turned", "asked", "working", "ruled"}
InFlight == {c \in Clients : conn[c].at \in Accepted}

\* The daemon counts no fewer requests than it has accepted and not finished:
\* a thread that dies in setup leaves one too many, never one too few.
CountedInv == Cardinality(InFlight) <= inflight

\* A set of clients can be counted.
LEMMA InFlightIsFinite ==
    ASSUME NEW S \in SUBSET Clients
    PROVE  IsFiniteSet(S) /\ Cardinality(S) \in Nat
BY FS_Subset, FS_CardinalityType

\* A connection that is accepted is counted at once, and counted out only when
\* it is over.
LEMMA StepCounted ==
    ASSUME TypeOK, AllHonest, CountedInv, [Next]_vars
    PROVE  CountedInv'
<1>f. /\ InFlight \in SUBSET Clients /\ InFlight' \in SUBSET Clients
      /\ inflight \in Nat
  BY DEF InFlight, TypeOK
<1>n. Cardinality(InFlight) \in Nat /\ IsFiniteSet(InFlight)
  BY <1>f, InFlightIsFinite
<1> USE Types DEF receiptVars, clientVars, connVars, spawnVars, daemonVars
<1>1. ASSUME inflight' = inflight, InFlight' \subseteq InFlight PROVE CountedInv'
  <2>1. Cardinality(InFlight') <= Cardinality(InFlight)
    BY <1>1, <1>n, FS_Subset
  <2>2. Cardinality(InFlight') \in Nat
    BY <1>f, InFlightIsFinite
  <2> QED
    BY <1>1, <1>f, <1>n, <2>1, <2>2 DEF CountedInv
<1>2. ASSUME NEW c \in Clients, ClientStep(c) PROVE CountedInv'
  <2>1. inflight' = inflight
    BY <1>2 DEF ClientStep, Begin, NeverBegins, Crashes, Connect, ConnectFails, Cooldown,
                LatchSeen, Launch, WriteLatch, Greeted, TurnedAway, Send, Replied, TimesOut
  <2>2. \/ conn' = conn
        \/ conn' = [conn EXCEPT ![c] = [at |-> "queued", by |-> served]]
        \/ conn' = [conn EXCEPT ![c].at = IF @ = "greeted" THEN "asked" ELSE @]
    BY <1>2 DEF ClientStep, Begin, NeverBegins, Crashes, Connect, ConnectFails, Cooldown,
                LatchSeen, Launch, WriteLatch, Greeted, TurnedAway, Send, Replied, TimesOut
  <2>3. InFlight' \subseteq InFlight
    BY <2>2 DEF InFlight, Accepted, ConnRecord
  <2> QED
    BY <1>1, <2>1, <2>3
<1>3. ASSUME NEW c \in Clients, Accept(c) PROVE CountedInv'
  <2>1. inflight' = inflight + 1 /\ c \notin InFlight
    BY <1>3 DEF Accept, Counted, Move, InFlight, Accepted
  <2>2. InFlight' = InFlight \cup {c}
    BY <1>3 DEF Accept, Move, InFlight, Accepted, ConnRecord
  <2>3. Cardinality(InFlight') = Cardinality(InFlight) + 1
    BY <1>n, <2>1, <2>2, FS_AddElement
  <2> QED
    BY <1>f, <1>n, <2>1, <2>3 DEF CountedInv
<1>4. ASSUME NEW c \in Clients, Finish(c) PROVE CountedInv'
  <2>1. c \in InFlight /\ InFlight' = InFlight \ {c}
    BY <1>4 DEF Finish, Move, InFlight, Accepted, ConnRecord
  <2>2. Cardinality(InFlight') = Cardinality(InFlight) - 1
    BY <1>n, <2>1, FS_RemoveElement
  <2>3. inflight' = IF inflight > 0 THEN inflight - 1 ELSE 0
    BY <1>4 DEF Finish
  <2> QED
    BY <1>f, <1>n, <2>2, <2>3 DEF CountedInv
<1>5. ASSUME NEW c \in Clients,
             SetupFails(c) \/ Hello(c) \/ Read(c) \/ Rule(c) \/ Silent(c)
      PROVE  CountedInv'
  <2>1. inflight' = inflight
    BY <1>5 DEF SetupFails, Hello, Read, Rule, Silent
  <2>2. PICK to \in {"over", "greeted", "turned", "working", "ruled"} :
          /\ conn[c].at \in Accepted
          /\ conn' = [conn EXCEPT ![c].at = to]
    BY <1>5 DEF SetupFails, Hello, Read, Rule, Silent, Move, Accepted
  <2>3. InFlight' \subseteq InFlight
    BY <2>2 DEF InFlight
  <2> QED
    BY <1>1, <2>1, <2>3
<1>6. CASE Leave \/ Die
  <2>1. inflight' = 0 /\ conn' = CutOff
    BY <1>6 DEF Leave, Die, Down
  <2>2. \A c \in Clients : conn'[c].at \in {"none", "over"}
    BY <2>1 DEF CutOff, ConnRecord
  <2>3. InFlight' = {}
    BY <2>2 DEF InFlight, Accepted
  <2> QED
    BY <2>1, <2>3, FS_EmptySet DEF CountedInv
<1>7. CASE \/ LatchAges \/ Poll \/ Tick \/ OlderServes \/ Repair \/ SetUp \/ UNCHANGED vars
           \/ \E a \in boots : Boot(a) \/ BootFails(a)
  <2>1. inflight' = inflight /\ conn' = conn
    BY <1>7 DEF LatchAges, Poll, Tick, OlderServes, Repair, SetUp, Boot, BootFails, vars
  <2> QED
    BY <1>1, <2>1 DEF InFlight
<1> QED
  BY <1>2, <1>3, <1>4, <1>5, <1>6, <1>7 DEF Next, WorkerStep

\* RepliesAreFlushed: for any number of connections, a daemon that decides to
\* leave has answered each it had accepted, unless its drain timed out.
THEOREM LeavesNobodyWaiting == Spec => RepliesAreFlushed
<1> DEFINE Flushes == (Leave /\ drain # "over")
                         => \A c \in Clients : conn[c].at \in {"none", "queued", "over"}
<1>1. ASSUME TypeOK, CountedInv, [Next]_vars PROVE [Flushes]_vars
  <2> SUFFICES ASSUME Leave, drain # "over", NEW c \in Clients
               PROVE  conn[c].at \in {"none", "queued", "over"}
    OBVIOUS
  <2>1. inflight = 0
    BY DEF Leave, Drained
  <2>2. InFlight \in SUBSET Clients
    BY DEF InFlight
  <2>3. Cardinality(InFlight) = 0 /\ IsFiniteSet(InFlight)
    BY <1>1, <2>1, <2>2, InFlightIsFinite DEF CountedInv
  <2>4. InFlight = {}
    BY <2>3, FS_EmptySet
  <2> QED
    BY <1>1, <2>4, Types DEF InFlight, Accepted, ConnRecord, Places
<1>2. Init => CountedInv
  <2> SUFFICES ASSUME Init PROVE CountedInv
    OBVIOUS
  <2>1. InFlight = {}
    BY DEF Init, NoConn, InFlight, Accepted
  <2> QED
    BY <2>1, FS_EmptySet DEF Init, CountedInv
<1>3. TypeOK /\ AllHonest /\ CountedInv /\ [Next]_vars => CountedInv'
  BY StepCounted
<1>4. Spec => []CountedInv
  BY <1>2, <1>3, Typed, Honesty, PTL DEF Spec
<1> QED
  BY <1>1, <1>4, Typed, PTL DEF Spec, RepliesAreFlushed

-----------------------------------------------------------------------------
(* The file the daemon shows a session in                                  *)
(*                                                                         *)
(* HudSnapshot stands beside the service: what a daemon publishes of one   *)
(* session when it has ruled on a hook.  It shares no variable with it.    *)

VARIABLES up, daemon, accounting, row, reading, shown, published, file, tmp, writer, toggles,
          crossing
CONSTANTS FreshFor, MaxDaemons, MaxReadings, MaxToggles

Display == INSTANCE HudSnapshot WITH live <- shown

\* The documents, with no bound on what they count
Pages == [kind : {"doc"}, by : Nat, reading : Nat, hidden : BOOLEAN, age : Nat]
Papers == Pages \cup {Display!Empty, Display!Torn, Display!Absent}
Links == {"none", "tmp", "file", "gone"}
BusyPens == [pc : {"read", "open", "filled"}, doc : Pages, at : Links]
Pens == BusyPens \cup {Display!Idle}

DisplayTyped ==
    /\ daemon \in Nat /\ reading \in Nat
    /\ file \in Papers /\ tmp \in Papers
    /\ writer \in [Display!Writers -> Pens]

\* Whose a document is
Own(page) == page.by = daemon

\* While no toggle hands on a file of an earlier daemon, whatever is being
\* written, lies under the shared temporary name, or was claimed, is of the
\* last daemon; and nobody writes for a daemon that is gone.
OwnInv ==
    /\ ~up => writer["publish"] = Display!Idle /\ writer["beat"] = Display!Idle
    /\ ~crossing =>
         /\ \A w \in Display!Writers : writer[w] # Display!Idle => Own(writer[w].doc)
         /\ Display!Parses(tmp) => Own(tmp)
         /\ (published /\ Display!Parses(file)) => Own(file)

\* A writer is idle or has a document; a paper that parses is one.
LEMMA PensAndPapers ==
    /\ Display!Idle \notin BusyPens
    /\ \A p \in Pens : p.pc # "idle" <=> p \in BusyPens
    /\ \A p \in Pens : p # Display!Idle <=> p \in BusyPens
    /\ \A f \in Papers : Display!Parses(f) <=> f \in Pages
<1>1. \A p \in BusyPens : p.pc # "idle"
  BY DEF BusyPens
<1>2. Display!Idle.pc = "idle"
  BY DEF Display!Idle
<1>3. \A f \in Pages : f.kind = "doc"
  BY DEF Pages
<1>4. Display!Empty.kind # "doc" /\ Display!Torn.kind # "doc" /\ Display!Absent.kind # "doc"
  BY DEF Display!Empty, Display!Torn, Display!Absent
<1> QED
  BY <1>1, <1>2, <1>3, <1>4 DEF Pens, Papers, Display!Parses

\* A document that is stamped, hidden or aged is of the same daemon.
LEMMA PageKept ==
    ASSUME NEW f \in Pages, NEW hidden \in BOOLEAN
    PROVE  /\ Display!Stamped(f) \in Pages /\ Display!Stamped(f).by = f.by
           /\ [Display!Stamped(f) EXCEPT !.hidden = hidden] \in Pages
           /\ [Display!Stamped(f) EXCEPT !.hidden = hidden].by = f.by
           /\ Display!Older(f) \in Pages /\ Display!Older(f).by = f.by
<1>1. Display!Stamped(f) \in Pages /\ Display!Stamped(f).by = f.by
  BY DEF Display!Stamped, Pages
<1>2. /\ [Display!Stamped(f) EXCEPT !.hidden = hidden] \in Pages
      /\ [Display!Stamped(f) EXCEPT !.hidden = hidden].by = f.by
  BY <1>1 DEF Pages
<1>3. Display!Older(f) \in Pages /\ Display!Older(f).by = f.by
  BY DEF Display!Older, Pages
<1> QED
  BY <1>1, <1>2, <1>3

\* A writer whose open file is renamed or removed keeps its document.
LEMMA RelinkedPens ==
    ASSUME NEW ws \in [Display!Writers -> Pens], NEW place, NEW next \in Links
    PROVE  /\ Display!Relinked(ws, place, next) \in [Display!Writers -> Pens]
           /\ \A w \in Display!Writers :
                LET p == Display!Relinked(ws, place, next)[w] IN
                  /\ p = Display!Idle <=> ws[w] = Display!Idle
                  /\ p # Display!Idle => p.doc = ws[w].doc
<1> SUFFICES ASSUME NEW w \in Display!Writers
             PROVE  LET p == Display!Relinked(ws, place, next)[w] IN
                      /\ p \in Pens
                      /\ p = Display!Idle <=> ws[w] = Display!Idle
                      /\ p # Display!Idle => p.doc = ws[w].doc
  BY DEF Display!Relinked
<1> DEFINE p == Display!Relinked(ws, place, next)[w]
<1>1. p = IF ws[w].pc # "idle" /\ ws[w].at = place THEN [ws[w] EXCEPT !.at = next] ELSE ws[w]
  BY DEF Display!Relinked
<1>2. CASE ws[w] \in BusyPens
  <2>1. [ws[w] EXCEPT !.at = next] \in BusyPens /\ [ws[w] EXCEPT !.at = next].doc = ws[w].doc
    BY <1>2 DEF BusyPens
  <2> HIDE DEF p
  <2>2. p \in BusyPens /\ p.doc = ws[w].doc
    BY <1>1, <1>2, <2>1
  <2> QED
    BY <1>2, <2>2, PensAndPapers DEF p, Pens
<1>3. CASE ws[w] = Display!Idle
  <2>1. ws[w].pc = "idle"
    BY <1>3 DEF Display!Idle
  <2> QED
    BY <1>1, <1>3, <2>1 DEF Pens
<1> QED
  BY <1>2, <1>3 DEF Pens

\* What a step does to the writers: each that has a document afterwards had it
\* before, but for one that takes up a new one.
Carried(ws) ==
    /\ ws \in [Display!Writers -> Pens]
    /\ \A w \in Display!Writers :
         ws[w] # Display!Idle => writer[w] # Display!Idle /\ ws[w].doc = writer[w].doc

\* A path changed under the writers leaves each its document.
LEMMA CarriedRelinked ==
    ASSUME NEW ws, Carried(ws), NEW place, NEW next \in Links
    PROVE  Carried(Display!Relinked(ws, place, next))
BY RelinkedPens DEF Carried

\* The documents stay with their daemon where the writers carry theirs and the
\* files hold what was there or what a writer had.
LEMMA OwnKept ==
    ASSUME DisplayTyped, OwnInv, Carried(writer'), UNCHANGED daemon,
           reading' \in Nat, file' \in Papers, tmp' \in Papers,
           ~crossing' => ~crossing,
           ~crossing' /\ Display!Parses(tmp') => Own(tmp'),
           ~crossing' /\ published' /\ Display!Parses(file') => Own(file'),
           ~up' => ~up \/ (writer'["publish"] = Display!Idle /\ writer'["beat"] = Display!Idle)
    PROVE  DisplayTyped' /\ OwnInv'
<1>1. DisplayTyped'
  BY DEF DisplayTyped, Carried
<1>2. OwnInv'
  BY DEF OwnInv, Carried, Own, Display!Writers, Display!Parses
<1> QED
  BY <1>1, <1>2

\* So they do where a writer takes up a document of the daemon.
LEMMA OwnTaken ==
    ASSUME DisplayTyped, OwnInv, NEW w \in Display!Writers, NEW page \in Pages,
           writer' = [writer EXCEPT ![w] = Display!Busy("read", page, "none")],
           UNCHANGED <<up, daemon, published, file, tmp>>, reading' \in Nat,
           ~crossing' => ~crossing /\ Own(page),
           up \/ w = "toggle"
    PROVE  DisplayTyped' /\ OwnInv'
<1> DEFINE pen == Display!Busy("read", page, "none")
<1>1. pen \in BusyPens /\ pen.doc = page
  BY DEF Display!Busy, BusyPens, Links
<1> HIDE DEF pen
<1>2. pen \in Pens
  BY <1>1 DEF Pens
<1>3. writer' \in [Display!Writers -> Pens] /\ writer'[w] = pen
      /\ \A v \in Display!Writers \ {w} : writer'[v] = writer[v]
  BY <1>2 DEF DisplayTyped, pen
<1>4. DisplayTyped'
  BY <1>3 DEF DisplayTyped
<1>5. OwnInv'
  BY <1>1, <1>3 DEF OwnInv, Own, Display!Writers, Display!Parses
<1> QED
  BY <1>4, <1>5

\* Writing: a writer fills the shared name, or the file that was renamed under
\* it, with the document it has, and renames what it finds there.
LEMMA OwnWritten ==
    ASSUME DisplayTyped, OwnInv, NEW w \in Display!Writers,
           Display!Step(w) \/ Display!FillFails(w)
    PROVE  DisplayTyped' /\ OwnInv'
<1> USE DEF Display!daemonVars, Display!sessionVars, Display!toggleVars, Display!fileVars
<1>0. /\ writer \in [Display!Writers -> Pens] /\ file \in Papers /\ tmp \in Papers
      /\ Display!Absent \in Papers /\ Display!Empty \in Papers /\ Display!Torn \in Papers
      /\ Display!Idle \in Pens /\ reading \in Nat
  BY DEF DisplayTyped, Papers, Pens
<1>1. ~Display!Parses(Display!Absent) /\ ~Display!Parses(Display!Empty)
      /\ ~Display!Parses(Display!Torn)
  BY DEF Display!Parses, Display!Absent, Display!Empty, Display!Torn
<1>2. writer[w].pc # "idle" => /\ writer[w] \in BusyPens /\ writer[w] # Display!Idle
                               /\ writer[w].doc \in Pages
                               /\ ~crossing => Own(writer[w].doc)
  BY <1>0, PensAndPapers DEF BusyPens, OwnInv
<1>3. Carried(writer) /\ \A ws : Carried(ws) => Carried([ws EXCEPT ![w] = Display!Idle])
  BY <1>0 DEF Carried
<1>4. CASE Display!Open(w)
  <2> DEFINE pen == Display!Busy("open", writer[w].doc, "tmp")
  <2>1. writer[w] \in BusyPens /\ writer[w] # Display!Idle
    BY <1>2, <1>4 DEF Display!Open
  <2>2. pen \in BusyPens /\ pen.doc = writer[w].doc
    BY <1>2, <1>4 DEF Display!Open, Display!Busy, BusyPens, Links
  <2>3. writer' = [writer EXCEPT ![w] = pen]
    BY <1>4 DEF Display!Open
  <2> HIDE DEF pen
  <2>4. Carried(writer')
    BY <1>0, <2>1, <2>2, <2>3 DEF Carried, Pens
  <2>5. tmp' = Display!Empty /\ UNCHANGED <<up, daemon, published, reading, crossing, file>>
    BY <1>4 DEF Display!Open
  <2> QED
    BY <1>0, <1>1, <2>4, <2>5, OwnKept DEF OwnInv, Own
<1>5. CASE Display!Fill(w)
  <2>1. writer[w] \in BusyPens /\ writer[w] # Display!Idle /\ writer[w].doc \in Pages
    BY <1>2, <1>5 DEF Display!Fill
  <2> DEFINE pen == [writer[w] EXCEPT !.pc = "filled"]
  <2>2. pen \in BusyPens /\ pen.doc = writer[w].doc /\ writer' = [writer EXCEPT ![w] = pen]
    BY <1>5, <2>1 DEF Display!Fill, BusyPens
  <2> HIDE DEF pen
  <2>3. Carried(writer')
    BY <1>0, <2>1, <2>2 DEF Carried, Pens
  <2>4. /\ tmp' \in {tmp, writer[w].doc, Display!Torn}
        /\ file' \in {file, writer[w].doc, Display!Torn}
        /\ UNCHANGED <<up, daemon, published, reading, crossing>>
    BY <1>5 DEF Display!Fill, Display!Over
  <2>5. tmp' \in Papers /\ file' \in Papers
    BY <1>0, <2>1, <2>4 DEF Papers
  <2>6. ~crossing => Own(writer[w].doc)
    BY <1>2, <1>5 DEF Display!Fill
  <2>7. /\ ~crossing /\ Display!Parses(tmp') => Own(tmp')
        /\ ~crossing /\ published /\ Display!Parses(file') => Own(file')
    BY <1>1, <2>4, <2>6 DEF OwnInv
  <2> QED
    BY <1>0, <2>3, <2>4, <2>5, <2>7, OwnKept
<1>6. CASE Display!FillFails(w)
  <2>1. Carried(Display!Relinked(writer, "tmp", "gone"))
    BY <1>3, CarriedRelinked DEF Links
  <2>2. Carried(writer')
    BY <1>3, <1>6, <2>1 DEF Display!FillFails
  <2>3. tmp' = Display!Absent /\ UNCHANGED <<up, daemon, published, reading, crossing, file>>
    BY <1>6 DEF Display!FillFails
  <2> QED
    BY <1>0, <1>1, <2>2, <2>3, OwnKept DEF OwnInv
<1>7. CASE Display!Replace(w)
  <2>1. Carried(Display!Relinked(Display!Relinked(writer, "file", "gone"), "tmp", "file"))
    BY <1>3, CarriedRelinked DEF Links
  <2>2. Carried(writer')
    BY <1>3, <1>7, <2>1 DEF Display!Replace
  <2>3. file' = tmp /\ tmp' = Display!Absent /\ UNCHANGED <<up, daemon, reading, crossing>>
    BY <1>7 DEF Display!Replace
  <2> QED
    BY <1>0, <1>1, <2>2, <2>3, OwnKept DEF OwnInv, Own
<1>8. CASE Display!ReplaceFails(w)
  <2>1. Carried(writer')
    BY <1>3, <1>8 DEF Display!ReplaceFails
  <2>2. UNCHANGED <<up, daemon, published, reading, crossing, file, tmp>>
    BY <1>8 DEF Display!ReplaceFails
  <2> QED
    BY <1>0, <2>1, <2>2, OwnKept DEF OwnInv, Own
<1> QED
  BY <1>4, <1>5, <1>6, <1>7, <1>8 DEF Display!Step

\* The other steps: a daemon that starts claims nothing, and what it finds under
\* the shared name is gone; a toggle that is under way has crossed over.
LEMMA OwnAround ==
    ASSUME DisplayTyped, OwnInv,
           \/ Display!PublishReads \/ Display!EndSession \/ Display!Release
           \/ Display!BeatReads \/ Display!DaemonStarts \/ Display!DaemonDies
           \/ Display!RepairRetires \/ Display!ToggleReads \/ Display!Tick
    PROVE  DisplayTyped' /\ OwnInv'
<1> USE DEF Display!daemonVars, Display!sessionVars, Display!toggleVars, Display!fileVars
<1>0. /\ writer \in [Display!Writers -> Pens] /\ file \in Papers /\ tmp \in Papers
      /\ Display!Absent \in Papers /\ Display!Idle \in Pens
      /\ reading \in Nat /\ daemon \in Nat
      /\ {"publish", "beat", "toggle"} = Display!Writers
  BY DEF DisplayTyped, Papers, Pens, Display!Writers
<1>1. ~Display!Parses(Display!Absent)
  BY DEF Display!Parses, Display!Absent
<1>2. Carried(writer)
  BY <1>0 DEF Carried
<1>3. CASE Display!PublishReads
  <2> DEFINE page == Display!Doc(daemon, reading + 1, Display!CurrentHidden(file), 0)
  <2>1. page \in Pages /\ Own(page)
    <3>1. Display!CurrentHidden(file) \in BOOLEAN
      BY <1>0, PensAndPapers DEF Display!CurrentHidden, Pages
    <3> QED
      BY <1>0, <3>1 DEF Display!Doc, Pages, Own
  <2>2. /\ writer' = [writer EXCEPT !["publish"] = Display!Busy("read", page, "none")]
        /\ up /\ reading' \in Nat /\ UNCHANGED <<up, daemon, published, file, tmp, crossing>>
    BY <1>0, <1>3 DEF Display!PublishReads
  <2> HIDE DEF page
  <2> QED
    BY <1>0, <2>1, <2>2, OwnTaken
<1>4. CASE Display!EndSession
  <2>1. writer' = Display!Relinked(writer, "file", "gone")
        /\ file' = Display!Absent /\ UNCHANGED <<up, daemon, reading, crossing, tmp>>
    BY <1>4 DEF Display!EndSession, Display!Unlinked
  <2>2. Carried(writer')
    BY <1>2, <2>1, CarriedRelinked DEF Links
  <2> QED
    BY <1>0, <1>1, <2>1, <2>2, OwnKept DEF OwnInv, Own
<1>5. CASE Display!Release
  <2>1. UNCHANGED <<up, daemon, published, reading, crossing, file, tmp, writer>>
    BY <1>5 DEF Display!Release
  <2> QED
    BY <1>0, <1>2, <2>1, OwnKept DEF OwnInv, Own
<1>6. CASE Display!BeatReads
  <2>1. /\ writer' = [writer EXCEPT !["beat"] =
                        Display!Busy("read", Display!Stamped(file), "none")]
        /\ up /\ published /\ Display!Parses(file)
        /\ UNCHANGED <<up, daemon, published, reading, file, tmp, crossing>>
    BY <1>6 DEF Display!BeatReads, Display!Beats
  <2>2. file \in Pages
    BY <1>0, <2>1, PensAndPapers
  <2>3. Display!Stamped(file) \in Pages /\ Display!Stamped(file).by = file.by
    BY <2>2, PageKept
  <2>4. ~crossing => Own(Display!Stamped(file))
    BY <2>1, <2>3 DEF OwnInv, Own
  <2> QED
    BY <1>0, <2>1, <2>3, <2>4, OwnTaken
<1>7. CASE Display!DaemonStarts
  <2>1. /\ ~up /\ up' /\ daemon' = daemon + 1 /\ published' = FALSE /\ tmp' = Display!Absent
        /\ crossing' = (crossing \/ writer["toggle"] # Display!Idle)
        /\ file' \in {file, Display!Absent} /\ reading' = reading
    BY <1>7 DEF Display!DaemonStarts, Display!Inherits
  <2>2. Carried(writer')
    BY <1>2, <1>7, CarriedRelinked DEF Display!DaemonStarts, Links
  <2>3. ~crossing' => \A w \in Display!Writers : writer'[w] = Display!Idle
    BY <1>0, <2>1, <2>2 DEF OwnInv, Carried
  <2>4. DisplayTyped'
    BY <1>0, <2>1, <2>2 DEF DisplayTyped, Carried
  <2>5. OwnInv'
    BY <1>1, <2>1, <2>3 DEF OwnInv, Display!Parses, Display!Writers
  <2> QED
    BY <2>4, <2>5
<1>8. CASE Display!DaemonDies
  <2>1. /\ writer' = [writer EXCEPT !["publish"] = Display!Idle, !["beat"] = Display!Idle]
        /\ UNCHANGED <<daemon, published, reading, crossing, file, tmp>>
    BY <1>8 DEF Display!DaemonDies
  <2>2. Carried(writer') /\ writer'["publish"] = Display!Idle /\ writer'["beat"] = Display!Idle
    BY <1>0, <2>1 DEF Carried
  <2> QED
    BY <1>0, <2>1, <2>2, OwnKept DEF OwnInv, Own
<1>9. CASE Display!RepairRetires
  <2>1. Carried(writer')
    BY <1>2, <1>9, CarriedRelinked DEF Display!RepairRetires, Links
  <2>2. file' = Display!Absent /\ tmp' = Display!Absent
        /\ UNCHANGED <<up, daemon, published, reading, crossing>>
    BY <1>9 DEF Display!RepairRetires
  <2> QED
    BY <1>0, <1>1, <2>1, <2>2, OwnKept
<1>10. CASE Display!ToggleReads
  <2>1. PICK hidden \in BOOLEAN :
          writer' = [writer EXCEPT !["toggle"] =
            Display!Busy("read", [Display!Stamped(file) EXCEPT !.hidden = hidden], "none")]
    BY <1>10 DEF Display!ToggleReads
  <2>2. /\ Display!Parses(file) /\ crossing' = (crossing \/ file.by # daemon)
        /\ UNCHANGED <<up, daemon, published, reading, file, tmp>>
    BY <1>10 DEF Display!ToggleReads
  <2> DEFINE page == [Display!Stamped(file) EXCEPT !.hidden = hidden]
  <2>3. file \in Pages
    BY <1>0, <2>2, PensAndPapers
  <2>4. page \in Pages /\ page.by = file.by
    BY <2>3, PageKept
  <2> HIDE DEF page
  <2>5. ~crossing' => ~crossing /\ Own(page)
    BY <2>2, <2>4 DEF Own
  <2>6. writer' = [writer EXCEPT !["toggle"] = Display!Busy("read", page, "none")]
    BY <2>1 DEF page
  <2> QED
    BY <1>0, <2>2, <2>4, <2>5, <2>6, OwnTaken
<1>11. CASE Display!Tick
  <2>1. /\ file' = Display!Older(file) /\ Display!Older(file) # file
        /\ UNCHANGED <<up, daemon, published, reading, crossing, tmp, writer>>
    BY <1>11 DEF Display!Tick
  <2>2. file \in Pages
    BY <1>0, <2>1, PensAndPapers DEF Display!Older
  <2>3. file' \in Pages /\ file'.by = file.by
    BY <2>1, <2>2, PageKept
  <2>4. file' \in Papers /\ Display!Parses(file)
    BY <1>0, <2>2, <2>3, PensAndPapers DEF Papers
  <2> QED
    BY <1>0, <1>2, <2>1, <2>3, <2>4, OwnKept DEF OwnInv, Own
<1> QED
  BY <1>3, <1>4, <1>5, <1>6, <1>7, <1>8, <1>9, <1>10, <1>11

\* VouchesForOwnReadings (#66): a heartbeat never stamps as current what an
\* earlier daemon derived, for any number of daemons, readings and toggles and
\* however the three writers share their temporary name, unless a toggle read
\* the file of an earlier daemon or outlived its own.
THEOREM StampsItsOwn == Display!Spec => []Display!VouchesForOwnReadings
<1>1. Display!Init => DisplayTyped /\ OwnInv
  BY PensAndPapers
     DEF Display!Init, DisplayTyped, OwnInv, Papers, Pens, Display!Parses, Display!Absent,
         Display!Writers
<1>2. DisplayTyped /\ OwnInv /\ [Display!Next]_(Display!vars) => DisplayTyped' /\ OwnInv'
  <2>1. ASSUME DisplayTyped, OwnInv, Display!Next PROVE DisplayTyped' /\ OwnInv'
    BY <2>1, OwnWritten, OwnAround DEF Display!Next
  <2>2. ASSUME DisplayTyped, OwnInv, UNCHANGED Display!vars PROVE DisplayTyped' /\ OwnInv'
    BY <2>2 DEF Display!vars, Display!daemonVars, Display!sessionVars, Display!toggleVars,
                Display!fileVars, DisplayTyped, OwnInv, Own, Display!Parses
  <2> QED
    BY <2>1, <2>2
<1>3. DisplayTyped /\ OwnInv => Display!VouchesForOwnReadings
  BY DEF OwnInv, Own, Display!VouchesForOwnReadings, Display!Writers
<1> QED
  BY <1>1, <1>2, <1>3, PTL DEF Display!Spec

=============================================================================
