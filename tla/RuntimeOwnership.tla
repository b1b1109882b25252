-------------------------- MODULE RuntimeOwnership --------------------------
(***************************************************************************)
(* Who may listen on the socket, who may write the ledger, and which       *)
(* runtime that is.  Daemons start (Daemon.__init__), serve and close      *)
(* (Daemon._close) under two locks that die with their process: the        *)
(* startup lock, for the socket path, and the writer lease, for the        *)
(* ledger.  A repair (runtime_repair.repair_runtime) stops whoever has the *)
(* ledger open, takes the lease, moves the storage and selects a runtime   *)
(* by writing the receipt.                                                 *)
(*                                                                         *)
(* A daemon of this generation writes only under _write_transaction, which *)
(* compares the receipt with the one its lease was granted against; its    *)
(* worker threads go on while the main thread closes.  A process that is   *)
(* killed, by SIGTERM included (nothing handles it), leaves its socket     *)
(* file behind and nothing else.                                           *)
(*                                                                         *)
(* A daemon of an older build takes neither lock.  It may start for as     *)
(* long as no runtime has been selected: the fence that a repair leaves at *)
(* the historical path keeps it off the ledger from then on                *)
(* (StorageCutover).                                                       *)
(*                                                                         *)
(* The transition lock admits one repair at a time: it is the one of this  *)
(* module.                                                                 *)
(***************************************************************************)
EXTENDS Integers, FiniteSets

CONSTANTS
    Daemons,        \* processes that may be a daemon, each many times
    Epochs,         \* activation epochs a repair may choose, each once
    Absent,         \* no receipt
    Legacy,         \* a receipt of version 1, which selects no runtime
    NoOne,          \* nobody holds the lock, nothing is at the path
    Repairer,       \* the repair, as owner of the writer lease
    Older,          \* a daemon of a build that takes neither lock
    MaxTroubles     \* bound on repairs begun, failures and crashes

ASSUME OwnersAssumption ==
    /\ {NoOne, Repairer, Older} \cap Daemons = {}
    /\ NoOne # Repairer /\ NoOne # Older /\ Repairer # Older
ASSUME ReceiptsAssumption ==
    {Absent, Legacy} \cap Epochs = {} /\ Absent # Legacy
ASSUME TroublesAssumption == MaxTroubles \in Nat

VARIABLES
    receipt,        \* runtime.json: the epoch it selects, or none
    used,           \* the epochs chosen so far
    lock,           \* who holds the startup lock
    writer,         \* who holds runtime-writer.lock
    sock,           \* who bound the socket file
    older,          \* what a daemon of an older build has got to
    phase,          \* what each daemon's main thread does next
    activation,     \* the epoch a daemon loaded
    selection,      \* the receipt its lease was granted against
    open,           \* it has a writable connection
    work,           \* its worker thread, with the request it serves
    keyed,          \* it holds an accounting key
    repair,         \* the next step of the repair
    targets,        \* whom it means to stop
    offered,        \* the epoch it published
    troubles        \* how much went wrong so far

ownership == <<lock, writer, sock>>
process == <<phase, activation, selection, open, work, keyed>>
repairing == <<repair, targets, offered>>
selecting == <<receipt, used>>
vars == <<selecting, ownership, older, process, repairing, troubles>>

Phases == {"off", "loaded", "locked", "leased", "probed", "claimed", "opened",
           "ready", "serving", "closing", "unlinked", "discarded", "released",
           "unlocked"}
RepairSteps == {"off", "locked", "looked", "waiting", "quiet", "leased",
                "moving", "published", "released", "starting"}
Receipts == Epochs \cup {Absent, Legacy}

\* Not there; with the ledger open, at its historical path; having found
\* nobody at the socket path; bound there.
OlderPhases == {"gone", "open", "claiming", "listening"}

\* Each variable has its type.
TypeOK ==
    /\ receipt \in Receipts /\ used \in SUBSET Epochs
    /\ lock \in Daemons \cup {NoOne}
    /\ writer \in Daemons \cup {NoOne, Repairer}
    /\ sock \in Daemons \cup {NoOne, Older}
    /\ older \in OlderPhases
    /\ phase \in [Daemons -> Phases]
    /\ activation \in [Daemons -> Receipts]
    /\ selection \in [Daemons -> Receipts]
    /\ open \in [Daemons -> BOOLEAN]
    /\ work \in [Daemons -> {"none", "waiting", "writing", "checked"}]
    /\ keyed \in [Daemons -> BOOLEAN]
    /\ repair \in RepairSteps
    /\ targets \in SUBSET (Daemons \cup {Older})
    /\ offered \in Receipts
    /\ troubles \in 0..MaxTroubles

Init ==
    /\ receipt \in {Absent, Legacy} /\ used = {}
    /\ lock = NoOne /\ writer = NoOne
    /\ older \in {"gone", "listening"}
    /\ sock \in IF older = "gone" THEN {NoOne, Older} ELSE {Older}
    /\ phase = [p \in Daemons |-> "off"]
    /\ activation = [p \in Daemons |-> Absent]
    /\ selection = [p \in Daemons |-> Absent]
    /\ open = [p \in Daemons |-> FALSE]
    /\ work = [p \in Daemons |-> "none"]
    /\ keyed = [p \in Daemons |-> FALSE]
    /\ repair = "off" /\ targets = {} /\ offered = Absent
    /\ troubles = 0

Trouble == troubles < MaxTroubles /\ troubles' = troubles + 1

\* A connect() to the socket path succeeds.
Answering ==
    \/ sock = Older /\ older = "listening"
    \/ \E p \in Daemons : sock = p /\ phase[p] = "serving"

\* open_holders: who has the database or a sidecar open.
Holders == {p \in Daemons : open[p]} \cup {q \in {Older} : older # "gone"}

\* WriterLease.assert_current: the lease is held, and the receipt is still
\* the one it was granted against.
Current(p) == writer = p /\ receipt = selection[p]

GoTo(p, next) == phase' = [phase EXCEPT ![p] = next]

-----------------------------------------------------------------------------
\* A daemon starts

\* load_activation reads the receipt: only one that selects a runtime lets
\* the process go on.
Loads(p) ==
    /\ phase[p] = "off"
    /\ receipt \in Epochs
    /\ GoTo(p, "loaded")
    /\ activation' = [activation EXCEPT ![p] = receipt]

\* A hook client whose connection was refused starts a daemon.
Spawn(p) ==
    /\ ~Answering
    /\ Loads(p)
    /\ UNCHANGED <<selecting, ownership, older, selection, open, work, keyed,
                   repairing, troubles>>

\* The startup lock, without waiting for it: who does not get it exits.
TakeLock(p) ==
    /\ phase[p] = "loaded"
    /\ \/ lock = NoOne /\ lock' = p /\ GoTo(p, "locked")
       \/ lock # NoOne /\ UNCHANGED lock /\ GoTo(p, "off")
    /\ UNCHANGED <<selecting, writer, sock, older, activation, selection, open,
                   work, keyed, repairing, troubles>>

\* _check_selection: nothing is selected, or this activation is.
Grantable(p) == receipt \in {Absent, Legacy, activation[p]}

\* acquire_writer, which does not wait: the lease, for the selected runtime.
Granted(p) == writer = NoOne /\ Grantable(p)

\* The lease is granted against the receipt as it then is.  A refusal unwinds
\* through _abort_startup, as every failure from here on does.
TakeLease(p) ==
    /\ phase[p] = "locked"
    /\ \/ /\ Granted(p)
          /\ writer' = p
          /\ selection' = [selection EXCEPT ![p] = receipt]
          /\ GoTo(p, "leased")
       \/ /\ ~Granted(p)
          /\ GoTo(p, "discarded")
          /\ UNCHANGED <<writer, selection>>
    /\ UNCHANGED <<selecting, lock, sock, older, activation, open, work, keyed,
                   repairing, troubles>>

\* _claim_socket_path asks whether somebody answers on the path ...
Probe(p) ==
    /\ phase[p] = "leased"
    /\ GoTo(p, IF Answering THEN "discarded" ELSE "probed")
    /\ UNCHANGED <<selecting, ownership, older, activation, selection, open,
                   work, keyed, repairing, troubles>>

\* (Mutant LeaveStale: the file stays.)
LeaveStale(p) ==
    /\ phase[p] = "probed"
    /\ GoTo(p, "claimed")
    /\ UNCHANGED <<selecting, ownership, older, activation, selection, open,
                   work, keyed, repairing, troubles>>

\* ... and removes the file of a listener that is gone.
UnlinkStale(p) ==
    /\ phase[p] = "probed"
    /\ sock' = NoOne
    /\ GoTo(p, "claimed")
    /\ UNCHANGED <<selecting, lock, writer, older, activation, selection, open,
                   work, keyed, repairing, troubles>>

\* Ledger.__init__: the lease is checked before the connection exists.
OpenLedger(p) ==
    /\ phase[p] = "claimed"
    /\ open' = [open EXCEPT ![p] = Current(p)]
    /\ GoTo(p, IF Current(p) THEN "opened" ELSE "discarded")
    /\ UNCHANGED <<selecting, ownership, older, activation, selection, work,
                   keyed, repairing, troubles>>

\* The rest of new_state: sessions whose keys are lost are invalidated, in a
\* write transaction; a failure closes the connection.
BuildState(p) ==
    /\ phase[p] = "opened"
    /\ open' = [open EXCEPT ![p] = Current(p)]
    /\ GoTo(p, IF Current(p) THEN "ready" ELSE "discarded")
    /\ UNCHANGED <<selecting, ownership, older, activation, selection, work,
                   keyed, repairing, troubles>>

\* bind() refuses a path at which something is.  The connection of a daemon
\* that could not bind is not closed.
Bind(p) ==
    /\ phase[p] = "ready"
    /\ \/ sock = NoOne /\ sock' = p /\ GoTo(p, "serving")
       \/ sock # NoOne /\ UNCHANGED sock /\ GoTo(p, "discarded")
    /\ UNCHANGED <<selecting, lock, writer, older, activation, selection, open,
                   work, keyed, repairing, troubles>>

\* Any other failure: an unsupported schema, a full disk.  (A chmod that
\* fails once bind() is done unwinds like a Bind followed by a Leave.)
StartupFails(p) ==
    /\ phase[p] \in {"locked", "leased", "probed", "claimed", "opened",
                     "ready"}
    /\ Trouble
    /\ open' = [open EXCEPT ![p] = phase[p] = "ready"]
    /\ GoTo(p, "discarded")
    /\ UNCHANGED <<selecting, ownership, older, activation, selection, work,
                   keyed, repairing>>

-----------------------------------------------------------------------------
\* Its worker threads write

\* The accept loop hands a request to a worker.
Accept(p) ==
    /\ phase[p] = "serving" /\ work[p] = "none"
    /\ work' = [work EXCEPT ![p] = "waiting"]
    /\ UNCHANGED <<selecting, ownership, older, phase, activation, selection,
                   open, keyed, repairing, troubles>>

\* A check of the lease by the worker: before BEGIN and within, or before
\* COMMIT.  A refusal rolls back.
Check(p, from, to) ==
    /\ work[p] = from
    /\ work' = [work EXCEPT ![p] = IF Current(p) THEN to ELSE "none"]
    /\ UNCHANGED <<selecting, ownership, older, phase, activation, selection,
                   open, keyed, repairing, troubles>>

\* It takes State.lock and begins its transaction,
BeginWrite(p) == Check(p, "waiting", "writing")

\* asks a last time whether it may commit,
LastCheck(p) == Check(p, "writing", "checked")

\* and commits, with the key of the session it activated.
Commit(p) ==
    /\ work[p] = "checked"
    /\ work' = [work EXCEPT ![p] = "none"]
    /\ \E activated \in BOOLEAN :
         keyed' = [keyed EXCEPT ![p] = keyed[p] \/ activated]
    /\ UNCHANGED <<selecting, ownership, older, phase, activation, selection,
                   open, repairing, troubles>>

-----------------------------------------------------------------------------
\* It closes, or dies

\* serve_forever ends: the lifetime policy, with its drain over or timed out,
\* stop(), or Ctrl-C.  server_close waits for no worker.
Leave(p) ==
    /\ phase[p] = "serving"
    /\ GoTo(p, "closing")
    /\ UNCHANGED <<selecting, ownership, older, activation, selection, open,
                   work, keyed, repairing, troubles>>

\* _close removes whatever is at the socket path,
Unlink(p) ==
    /\ phase[p] = "closing"
    /\ sock' = NoOne
    /\ GoTo(p, "unlinked")
    /\ UNCHANGED <<selecting, lock, writer, older, activation, selection, open,
                   work, keyed, repairing, troubles>>

\* discards the sessions' identities, under State.lock,
Discard(p) ==
    /\ phase[p] = "unlinked"
    /\ work[p] \notin {"writing", "checked"}
    /\ keyed' = [keyed EXCEPT ![p] = FALSE]
    /\ GoTo(p, "discarded")
    /\ UNCHANGED <<selecting, ownership, older, activation, selection, open,
                   work, repairing, troubles>>

\* gives back the lease (if this daemon has it),
ReleaseLease(p) ==
    /\ phase[p] = "discarded"
    /\ writer' = IF writer = p THEN NoOne ELSE writer
    /\ GoTo(p, "released")
    /\ UNCHANGED <<selecting, lock, sock, older, activation, selection, open,
                   work, keyed, repairing, troubles>>

\* and then the startup lock.
ReleaseLock(p) ==
    /\ phase[p] = "released"
    /\ lock' = NoOne
    /\ GoTo(p, "unlocked")
    /\ UNCHANGED <<selecting, writer, sock, older, activation, selection, open,
                   work, keyed, repairing, troubles>>

\* What is left of a process that is no more.
Gone(p) ==
    /\ phase' = [phase EXCEPT ![p] = "off"]
    /\ activation' = [activation EXCEPT ![p] = Absent]
    /\ selection' = [selection EXCEPT ![p] = Absent]
    /\ open' = [open EXCEPT ![p] = FALSE]
    /\ work' = [work EXCEPT ![p] = "none"]
    /\ keyed' = [keyed EXCEPT ![p] = FALSE]
    /\ lock' = IF lock = p THEN NoOne ELSE lock
    /\ writer' = IF writer = p THEN NoOne ELSE writer
    /\ targets' = targets \ {p}
    /\ UNCHANGED <<selecting, older, repair, offered>>

\* (Mutant CloseTwice: _close runs again, although it has run.)
CloseTwice(p) ==
    /\ phase[p] = "unlocked"
    /\ sock' = NoOne
    /\ Gone(p) /\ UNCHANGED troubles

\* The interpreter exits, its workers with it.
Exit(p) == phase[p] = "unlocked" /\ Gone(p) /\ UNCHANGED <<sock, troubles>>

\* A signal the repair sent, or any other death.
Stopped(p) ==
    /\ phase[p] # "off" /\ repair = "waiting" /\ p \in targets
    /\ Gone(p) /\ UNCHANGED <<sock, troubles>>

Crash(p) == phase[p] # "off" /\ Gone(p) /\ Trouble /\ UNCHANGED sock

-----------------------------------------------------------------------------
\* A daemon of an older build, which knows neither lock

\* It opens the ledger, whatever the repair is at, as long as there is no
\* fence.
OlderOpens ==
    /\ older = "gone" /\ used = {}
    /\ older' = "open"
    /\ UNCHANGED <<selecting, ownership, process, repairing, troubles>>

\* It asks whether somebody answers at the socket path,
OlderProbes ==
    /\ older = "open" /\ ~Answering
    /\ older' = "claiming"
    /\ UNCHANGED <<selecting, ownership, process, repairing, troubles>>

\* removes what is there by now, and binds.
OlderBinds ==
    /\ older = "claiming"
    /\ older' = "listening" /\ sock' = Older
    /\ UNCHANGED <<selecting, lock, writer, process, repairing, troubles>>

\* It is killed, or closes and removes whatever is at the path.
OlderEnds ==
    /\ older # "gone"
    /\ older' = "gone"
    /\ sock' \in {sock, NoOne}
    /\ targets' = targets \ {Older}
    /\ UNCHANGED <<selecting, lock, writer, process, repair, offered, troubles>>

-----------------------------------------------------------------------------
\* The repair

RepairGoes(next) == repair' = next

\* The transition lock, and the ledger's schema.
BeginRepair ==
    /\ repair = "off" /\ used # Epochs
    /\ Trouble
    /\ RepairGoes("locked")
    /\ UNCHANGED <<selecting, ownership, older, process, targets, offered>>

\* _quiesce finds the holders and classifies them.
Look ==
    /\ repair = "locked"
    /\ targets' = Holders
    /\ RepairGoes("looked")
    /\ UNCHANGED <<selecting, ownership, older, process, offered, troubles>>

\* stop_holders: a holder nobody classified ends the repair; those that hold
\* the ledger still are sent a signal.
Signal ==
    /\ repair = "looked"
    /\ Holders \subseteq targets
    /\ targets' = Holders
    /\ RepairGoes("waiting")
    /\ UNCHANGED <<selecting, ownership, older, process, offered, troubles>>

\* (Mutant SocketOnly: the open files are not asked for.)
SocketOnly == ~Answering

\* check_quiescence: no holder, no listener.  The heartbeat it also asks for
\* only makes the repair wait.
Quiescent == Holders = {} /\ ~Answering

\* They are gone, and the check agrees.
Settle ==
    /\ repair = "waiting"
    /\ targets = {} /\ Quiescent
    /\ RepairGoes("quiet")
    /\ UNCHANGED <<selecting, ownership, older, process, targets, offered,
                   troubles>>

\* acquire_writer, for the runtime the receipt selects.
RepairLease ==
    /\ repair = "quiet" /\ writer = NoOne
    /\ writer' = Repairer
    /\ RepairGoes("leased")
    /\ UNCHANGED <<selecting, lock, sock, older, process, targets, offered,
                   troubles>>

\* (Mutant CheckedBefore: it relies on the check of _quiesce.)
CheckedBefore ==
    /\ repair = "leased"
    /\ RepairGoes("moving")
    /\ UNCHANGED <<selecting, ownership, older, process, targets, offered,
                   troubles>>

\* prepare_storage checks again before it moves anything.
Recheck ==
    /\ repair = "leased" /\ Quiescent
    /\ RepairGoes("moving")
    /\ UNCHANGED <<selecting, ownership, older, process, targets, offered,
                   troubles>>

\* _write_receipt replaces the file at once: a reader sees the old receipt or
\* the new one.
WriteReceipt(e) == receipt' = e /\ used' = used \cup {e}

\* The ledger and the snapshots are moved: a new epoch is selected.
Publish ==
    /\ repair = "moving"
    /\ \E e \in Epochs \ used : WriteReceipt(e) /\ offered' = e
    /\ RepairGoes("published")
    /\ UNCHANGED <<ownership, older, process, targets, troubles>>

\* The lease is given back, the transition lock kept,
GiveBack ==
    /\ repair = "published"
    /\ writer' = NoOne
    /\ RepairGoes("released")
    /\ UNCHANGED <<selecting, lock, sock, older, process, targets, offered,
                   troubles>>

\* a daemon is started, which may find it is too late,
StartDaemon(p) ==
    /\ repair = "released"
    /\ Loads(p)
    /\ RepairGoes("starting")
    /\ UNCHANGED <<selecting, ownership, older, selection, open, work, keyed,
                   targets, offered, troubles>>

\* and the repair is over when one answers for the runtime it selected.
Handshake(p) ==
    /\ repair = "starting"
    /\ sock = p /\ phase[p] = "serving" /\ activation[p] = offered
    /\ RepairGoes("off") /\ offered' = Absent
    /\ UNCHANGED <<selecting, ownership, older, process, targets, troubles>>

\* Every refusal, a deadline that passed, an exception, and its death.
RepairEnds ==
    /\ repair # "off"
    /\ RepairGoes("off") /\ targets' = {} /\ offered' = Absent
    /\ writer' = IF writer = Repairer THEN NoOne ELSE writer
    /\ UNCHANGED <<selecting, lock, sock, older, process, troubles>>

\* privacy-hud-setup writes a receipt of version 1, under no lock.
SetUp ==
    /\ Trouble
    /\ receipt' = Legacy
    /\ UNCHANGED <<used, ownership, older, process, repairing>>

-----------------------------------------------------------------------------
\* The specification

Starting(p) ==
    \/ TakeLock(p) \/ TakeLease(p) \/ Probe(p) \/ UnlinkStale(p)
    \/ OpenLedger(p) \/ BuildState(p) \/ Bind(p)

Serving(p) == Accept(p) \/ BeginWrite(p) \/ LastCheck(p) \/ Commit(p)

Closing(p) ==
    Unlink(p) \/ Discard(p) \/ ReleaseLease(p) \/ ReleaseLock(p) \/ Exit(p)

RepairStep ==
    \/ Look \/ Signal \/ Settle \/ RepairLease \/ Recheck \/ Publish
    \/ GiveBack \/ RepairEnds
    \/ \E p \in Daemons : StartDaemon(p) \/ Handshake(p)

OlderBuild == OlderOpens \/ OlderProbes \/ OlderBinds \/ OlderEnds

Next ==
    \/ \E p \in Daemons :
         \/ Spawn(p) \/ Starting(p) \/ StartupFails(p) \/ Serving(p)
         \/ Leave(p) \/ Closing(p) \/ Stopped(p) \/ Crash(p)
    \/ OlderBuild \/ BeginRepair \/ RepairStep \/ SetUp

Spec == Init /\ [][Next]_vars

\* Threads run on, hooks go on coming, and a repair is over at some time.  A
\* daemon that no hook can reach is idle until it leaves.
Fairness ==
    /\ \A p \in Daemons :
         /\ WF_vars(Starting(p)) /\ WF_vars(Closing(p))
         /\ WF_vars(BeginWrite(p) \/ LastCheck(p) \/ Commit(p))
         /\ WF_vars(sock # p /\ Leave(p))
    /\ WF_vars(\E p \in Daemons : Spawn(p))
    /\ WF_vars(RepairStep)
    /\ WF_vars(OlderEnds)

FairSpec == Spec /\ Fairness

-----------------------------------------------------------------------------
\* Properties

\* A daemon that serves stays the one clients reach: whatever other daemons
\* start, close or die, none of this generation removes or replaces the file
\* it bound (Daemon._close, _claim_socket_path).  An older build may: it does
\* not take the startup lock (daemon.py:627).
ServingIsReachable ==
    [][\A p \in Daemons : phase[p] = "serving" /\ sock = p =>
         \/ sock' = p \/ phase'[p] # "serving"
         \/ OlderBinds \/ OlderEnds]_vars

\* While a repair moves the ledger and writes the receipt, no daemon of this
\* generation has the ledger open, be it a closing one with a worker left
\* (prepare_storage's check under both locks).  One of an older build may: the
\* check is made once, and it takes no lease (StorageCutover says what then
\* becomes of its rows).
QuietWhileMoving ==
    repair \in {"moving", "published"} => \A p \in Daemons : ~open[p]

\* As long as the receipt selects a runtime, a daemon that serves is that
\* runtime and may write: none answers requests it may no longer record
\* (the order in which _close gives ownership back, _check_selection).
ServingIsSelected ==
    \A p \in Daemons : phase[p] = "serving" /\ receipt \in Epochs =>
        activation[p] = receipt /\ Current(p)

\* A transaction commits for the runtime selected at that moment, or for the
\* one selected last before a setup discarded the selection, even when the
\* daemon is closing and its lease is gone (Ledger._write_transaction).
WritesAreSelected ==
    [][\A p \in Daemons : Commit(p) => receipt \in {selection[p], Legacy}]_vars

\* If a runtime stays selected, the hooks are served by it again and again,
\* whoever crashed, closed or lost a race before (stale sockets are
\* unlinked, locks die with their holder).
ServesAgain ==
    <>[](receipt \in Epochs) =>
        []<>(\E p \in Daemons : /\ phase[p] = "serving" /\ sock = p
                                /\ activation[p] = receipt /\ Current(p))

\* The comment in _close: the workers have drained, so no request can use a
\* key after the identities are discarded, and none outlives ownership.
NoKeyOutlivesOwnership ==
    \A p \in Daemons : phase[p] \in {"released", "unlocked"} => ~keyed[p]
=============================================================================
