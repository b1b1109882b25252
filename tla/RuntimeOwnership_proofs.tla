----------------------- MODULE RuntimeOwnership_proofs -----------------------
(***************************************************************************)
(* Proofs about RuntimeOwnership for any number of daemons, epochs and     *)
(* troubles.                                                               *)
(***************************************************************************)
EXTENDS RuntimeOwnership, TLAPS

USE OwnersAssumption, ReceiptsAssumption, TroublesAssumption

-----------------------------------------------------------------------------
\* The invariant

\* Between flock() and the release of the startup lock.
LockHeld == {"locked", "leased", "probed", "claimed", "opened", "ready",
             "serving", "closing", "unlinked", "discarded", "released"}

\* With the writer lease for certain; a daemon that failed, or has discarded
\* its sessions, may have it still.
LeaseHeld == {"leased", "probed", "claimed", "opened", "ready", "serving",
              "closing", "unlinked"}

\* Where its ledger is open, where it can be, and where a worker can be left.
LedgerOpen == {"opened", "ready", "serving"}
Served == {"serving", "closing", "unlinked", "discarded", "released", "unlocked"}

\* Each lock is held by whom the steps say.
LockInv == \A p \in Daemons : lock = p <=> phase[p] \in LockHeld
LeaseInv ==
    /\ \A p \in Daemons :
         /\ phase[p] \in LeaseHeld => writer = p
         /\ writer = p => phase[p] \in LeaseHeld \cup {"discarded"}
    /\ writer = Repairer <=> repair \in {"leased", "moving", "published"}

\* A worker works on an open ledger.
LedgerInv == \A p \in Daemons :
    /\ phase[p] \in LedgerOpen => open[p]
    /\ open[p] => phase[p] \in LedgerOpen \cup Served
    /\ work[p] # "none" => open[p] /\ phase[p] \in Served

\* The receipt has not moved on under who holds the lease, or has the ledger
\* open.
SelectionInv == \A p \in Daemons :
    /\ writer = p /\ receipt \in Epochs =>
         selection[p] = receipt /\ activation[p] = receipt
    /\ open[p] => receipt \in {selection[p], Legacy}

OwnershipInv ==
    /\ TypeOK
    /\ LockInv
    /\ LeaseInv
    /\ LedgerInv
    /\ QuietWhileMoving
    /\ SelectionInv

-----------------------------------------------------------------------------
\* Steps

\* Every step keeps the types.
LEMMA TypeKept == TypeOK /\ Next => TypeOK'
<1> SUFFICES ASSUME TypeOK, Next PROVE TypeOK'
  OBVIOUS
<1> USE DEF TypeOK, Phases, RepairSteps, selecting, ownership, process,
    repairing, Receipts, Holders
<1>1. ASSUME NEW p \in Daemons, Spawn(p) PROVE TypeOK'
  BY <1>1 DEF Spawn, Loads, GoTo
<1>2. ASSUME NEW p \in Daemons, Starting(p) PROVE TypeOK'
  <2>1. CASE TakeLock(p)
    BY <2>1 DEF TakeLock, GoTo
  <2>2. CASE TakeLease(p)
    BY <2>2 DEF TakeLease, Granted, GoTo, Grantable
  <2>3. CASE Probe(p)
    BY <2>3 DEF Probe, GoTo
  <2>4. CASE UnlinkStale(p)
    BY <2>4 DEF UnlinkStale, GoTo
  <2>5. CASE OpenLedger(p)
    BY <2>5 DEF OpenLedger, GoTo, Current
  <2>6. CASE BuildState(p)
    BY <2>6 DEF BuildState, GoTo, Current
  <2>7. CASE Bind(p)
    BY <2>7 DEF Bind, GoTo
  <2> QED
    BY <1>2, <2>1, <2>2, <2>3, <2>4, <2>5, <2>6, <2>7 DEF Starting
<1>3. ASSUME NEW p \in Daemons, StartupFails(p) PROVE TypeOK'
  BY <1>3 DEF StartupFails, GoTo, Trouble
<1>4. ASSUME NEW p \in Daemons, Serving(p) PROVE TypeOK'
  BY <1>4 DEF Serving, Accept, BeginWrite, Check, Current, LastCheck, Commit
<1>5. ASSUME NEW p \in Daemons, Leave(p) PROVE TypeOK'
  BY <1>5 DEF Leave, GoTo
<1>6. ASSUME NEW p \in Daemons, Closing(p) PROVE TypeOK'
  <2>1. CASE Unlink(p)
    BY <2>1 DEF Unlink, GoTo
  <2>2. CASE Discard(p)
    BY <2>2 DEF Discard, GoTo
  <2>3. CASE ReleaseLease(p)
    BY <2>3 DEF ReleaseLease, GoTo
  <2>4. CASE ReleaseLock(p)
    BY <2>4 DEF ReleaseLock, GoTo
  <2>5. CASE Exit(p)
    BY <2>5 DEF Exit, Gone
  <2> QED BY <1>6, <2>1, <2>2, <2>3, <2>4, <2>5 DEF Closing
<1>7. ASSUME NEW p \in Daemons, Stopped(p) \/ Crash(p) PROVE TypeOK'
  <2>0. ASSUME Gone(p), troubles' \in 0..MaxTroubles, sock' = sock PROVE TypeOK'
    <3>1. /\ phase' \in [Daemons -> Phases]
          /\ activation' \in [Daemons -> Receipts]
          /\ selection' \in [Daemons -> Receipts]
          /\ open' \in [Daemons -> BOOLEAN]
          /\ work' \in [Daemons -> {"none", "waiting", "writing", "checked"}]
          /\ keyed' \in [Daemons -> BOOLEAN]
      BY <2>0 DEF Gone
    <3>2. /\ lock' \in Daemons \cup {NoOne}
          /\ writer' \in Daemons \cup {NoOne, Repairer}
          /\ targets' \in SUBSET (Daemons \cup {Older})
      BY <2>0 DEF Gone
    <3> QED
      BY <2>0, <3>1, <3>2 DEF Gone
  <2>1. CASE Stopped(p)
    BY <2>0, <2>1 DEF Stopped
  <2>2. CASE Crash(p)
    BY <2>0, <2>2 DEF Crash, Trouble
  <2> QED
    BY <1>7, <2>1, <2>2
<1>8. CASE OlderBuild \/ BeginRepair \/ SetUp
  <2>1. CASE OlderBuild
    <3>1. CASE OlderOpens \/ OlderProbes \/ OlderBinds
      BY <3>1 DEF OlderOpens, OlderProbes, OlderBinds, OlderPhases
    <3>2. CASE OlderEnds
      <4>1. /\ older' \in OlderPhases
            /\ targets' \in SUBSET (Daemons \cup {Older})
            /\ sock' \in Daemons \cup {NoOne, Older}
        BY <3>2 DEF OlderEnds, OlderPhases
      <4> QED
        BY <3>2, <4>1 DEF OlderEnds
    <3> QED
      BY <2>1, <3>1, <3>2 DEF OlderBuild
  <2>2. CASE BeginRepair
    <3>1. repair' \in RepairSteps /\ troubles' \in 0..MaxTroubles
      BY <2>2 DEF BeginRepair, Trouble, RepairGoes
    <3> QED
      BY <2>2, <3>1 DEF BeginRepair
  <2>3. CASE SetUp
    BY <2>3 DEF SetUp, Trouble
  <2> QED
    BY <1>8, <2>1, <2>2, <2>3
<1>9. CASE RepairStep
  BY <1>9 DEF RepairStep, Look, RepairGoes, Holders, Signal, Settle,
      RepairLease, Recheck, Quiescent, Publish, WriteReceipt, GiveBack, RepairEnds,
      StartDaemon, Loads, GoTo, Handshake
<1> QED
  BY <1>1, <1>2, <1>3, <1>4, <1>5, <1>6, <1>7, <1>8, <1>9 DEF Next

\* A daemon takes the startup lock only when nobody has it.
LEMMA LockKept == TypeOK /\ LockInv /\ Next => LockInv'
<1> SUFFICES ASSUME TypeOK, LockInv, Next PROVE LockInv'
  OBVIOUS
<1> USE DEF TypeOK, Phases, RepairSteps, selecting, ownership, process,
    repairing, LockInv, LockHeld
<1>1. ASSUME NEW p \in Daemons, Spawn(p) PROVE LockInv'
  BY <1>1 DEF Spawn, Loads, GoTo
<1>2. ASSUME NEW p \in Daemons, Starting(p) PROVE LockInv'
  BY <1>2 DEF Starting, TakeLock, GoTo, TakeLease, Granted, Grantable, Probe,
      UnlinkStale, OpenLedger, Current, BuildState, Bind
<1>3. ASSUME NEW p \in Daemons, StartupFails(p) PROVE LockInv'
  BY <1>3 DEF StartupFails, GoTo, Trouble
<1>4. ASSUME NEW p \in Daemons, Serving(p) PROVE LockInv'
  BY <1>4 DEF Serving, Accept, BeginWrite, Check, Current, LastCheck, Commit
<1>5. ASSUME NEW p \in Daemons, Leave(p) PROVE LockInv'
  BY <1>5 DEF Leave, GoTo
<1>6. ASSUME NEW p \in Daemons, Closing(p) PROVE LockInv'
  BY <1>6 DEF Closing, Unlink, GoTo, Discard, ReleaseLease, ReleaseLock, Exit,
      Gone
<1>7. ASSUME NEW p \in Daemons, Stopped(p) \/ Crash(p) PROVE LockInv'
  BY <1>7 DEF Stopped, Gone, Crash, Trouble
<1>8. CASE OlderBuild \/ BeginRepair \/ SetUp
  BY <1>8 DEF OlderBuild, OlderOpens, OlderProbes, OlderBinds, OlderEnds,
      BeginRepair, Trouble, RepairGoes, SetUp
<1>9. CASE RepairStep
  BY <1>9 DEF RepairStep, Look, RepairGoes, Holders, Signal, Settle,
      RepairLease, Recheck, Quiescent, Publish, WriteReceipt, GiveBack, RepairEnds,
      StartDaemon, Loads, GoTo, Handshake
<1> QED
  BY <1>1, <1>2, <1>3, <1>4, <1>5, <1>6, <1>7, <1>8, <1>9 DEF Next

\* So it is with the writer lease, which a repair takes too.
LEMMA LeaseKept == TypeOK /\ LeaseInv /\ Next => LeaseInv'
<1> SUFFICES ASSUME TypeOK, LeaseInv, Next PROVE LeaseInv'
  OBVIOUS
<1> USE DEF TypeOK, Phases, RepairSteps, selecting, ownership, process,
    repairing, LeaseInv, LeaseHeld
<1>1. ASSUME NEW p \in Daemons, Spawn(p) PROVE LeaseInv'
  BY <1>1 DEF Spawn, Loads, GoTo
<1>2. ASSUME NEW p \in Daemons, Starting(p) PROVE LeaseInv'
  BY <1>2 DEF Starting, TakeLock, GoTo, TakeLease, Granted, Grantable, Probe,
      UnlinkStale, OpenLedger, Current, BuildState, Bind
<1>3. ASSUME NEW p \in Daemons, StartupFails(p) PROVE LeaseInv'
  BY <1>3 DEF StartupFails, GoTo, Trouble
<1>4. ASSUME NEW p \in Daemons, Serving(p) PROVE LeaseInv'
  BY <1>4 DEF Serving, Accept, BeginWrite, Check, Current, LastCheck, Commit
<1>5. ASSUME NEW p \in Daemons, Leave(p) PROVE LeaseInv'
  BY <1>5 DEF Leave, GoTo
<1>6. ASSUME NEW p \in Daemons, Closing(p) PROVE LeaseInv'
  BY <1>6 DEF Closing, Unlink, GoTo, Discard, ReleaseLease, ReleaseLock, Exit,
      Gone
<1>7. ASSUME NEW p \in Daemons, Stopped(p) \/ Crash(p) PROVE LeaseInv'
  BY <1>7 DEF Stopped, Gone, Crash, Trouble
<1>8. CASE OlderBuild \/ BeginRepair \/ SetUp
  BY <1>8 DEF OlderBuild, OlderOpens, OlderProbes, OlderBinds, OlderEnds,
      BeginRepair, Trouble, RepairGoes, SetUp
<1>9. CASE RepairStep
  BY <1>9 DEF RepairStep, Look, RepairGoes, Holders, Signal, Settle,
      RepairLease, Recheck, Quiescent, Publish, WriteReceipt, GiveBack, RepairEnds,
      StartDaemon, Loads, GoTo, Handshake
<1> QED
  BY <1>1, <1>2, <1>3, <1>4, <1>5, <1>6, <1>7, <1>8, <1>9 DEF Next

\* The ledger is opened before the socket is bound, and stays open.
LEMMA LedgerKept == TypeOK /\ LedgerInv /\ Next => LedgerInv'
<1> SUFFICES ASSUME TypeOK, LedgerInv, Next PROVE LedgerInv'
  OBVIOUS
<1> USE DEF TypeOK, Phases, RepairSteps, selecting, ownership, process,
    repairing, LedgerInv, LedgerOpen, Served
<1>1. ASSUME NEW p \in Daemons, Spawn(p) PROVE LedgerInv'
  BY <1>1 DEF Spawn, Loads, GoTo
<1>2. ASSUME NEW p \in Daemons, Starting(p) PROVE LedgerInv'
  <2>1. CASE TakeLock(p)
    BY <2>1 DEF TakeLock, GoTo
  <2>2. CASE TakeLease(p)
    BY <2>2 DEF TakeLease, Granted, GoTo, Grantable
  <2>3. CASE Probe(p)
    BY <2>3 DEF Probe, GoTo
  <2>4. CASE UnlinkStale(p)
    BY <2>4 DEF UnlinkStale, GoTo
  <2>5. CASE OpenLedger(p)
    BY <2>5 DEF OpenLedger, GoTo, Current
  <2>6. CASE BuildState(p)
    BY <2>6 DEF BuildState, GoTo, Current
  <2>7. CASE Bind(p)
    BY <2>7 DEF Bind, GoTo
  <2> QED
    BY <1>2, <2>1, <2>2, <2>3, <2>4, <2>5, <2>6, <2>7 DEF Starting
<1>3. ASSUME NEW p \in Daemons, StartupFails(p) PROVE LedgerInv'
  BY <1>3 DEF StartupFails, GoTo, Trouble
<1>4. ASSUME NEW p \in Daemons, Serving(p) PROVE LedgerInv'
  BY <1>4 DEF Serving, Accept, BeginWrite, Check, Current, LastCheck, Commit
<1>5. ASSUME NEW p \in Daemons, Leave(p) PROVE LedgerInv'
  BY <1>5 DEF Leave, GoTo
<1>6. ASSUME NEW p \in Daemons, Closing(p) PROVE LedgerInv'
  BY <1>6 DEF Closing, Unlink, GoTo, Discard, ReleaseLease, ReleaseLock, Exit,
      Gone
<1>7. ASSUME NEW p \in Daemons, Stopped(p) \/ Crash(p) PROVE LedgerInv'
  BY <1>7 DEF Stopped, Gone, Crash, Trouble
<1>8. CASE OlderBuild \/ BeginRepair \/ SetUp
  BY <1>8 DEF OlderBuild, OlderOpens, OlderProbes, OlderBinds, OlderEnds,
      BeginRepair, Trouble, RepairGoes, SetUp
<1>9. CASE RepairStep
  BY <1>9 DEF RepairStep, Look, RepairGoes, Holders, Signal, Settle,
      RepairLease, Recheck, Quiescent, Publish, WriteReceipt, GiveBack, RepairEnds,
      StartDaemon, Loads, GoTo, Handshake
<1> QED
  BY <1>1, <1>2, <1>3, <1>4, <1>5, <1>6, <1>7, <1>8, <1>9 DEF Next

\* The check finds no holder; a daemon becomes one with the lease, which the
\* repair has.
LEMMA QuietKept ==
    TypeOK /\ LeaseInv /\ LedgerInv /\ QuietWhileMoving /\ Next
        => QuietWhileMoving'
<1> SUFFICES ASSUME TypeOK, LeaseInv, LedgerInv, QuietWhileMoving, Next
             PROVE QuietWhileMoving'
  OBVIOUS
<1> USE DEF TypeOK, Phases, RepairSteps, selecting, ownership, process,
    repairing, LeaseInv, LeaseHeld, LedgerInv, LedgerOpen, Served,
    QuietWhileMoving, Holders
<1>1. ASSUME NEW p \in Daemons, Spawn(p) PROVE QuietWhileMoving'
  BY <1>1 DEF Spawn, Loads, GoTo
<1>2. ASSUME NEW p \in Daemons, Starting(p) PROVE QuietWhileMoving'
  BY <1>2 DEF Starting, TakeLock, GoTo, TakeLease, Granted, Grantable, Probe,
      UnlinkStale, OpenLedger, Current, BuildState, Bind
<1>3. ASSUME NEW p \in Daemons, StartupFails(p) PROVE QuietWhileMoving'
  BY <1>3 DEF StartupFails, GoTo, Trouble
<1>4. ASSUME NEW p \in Daemons, Serving(p) PROVE QuietWhileMoving'
  BY <1>4 DEF Serving, Accept, BeginWrite, Check, Current, LastCheck, Commit
<1>5. ASSUME NEW p \in Daemons, Leave(p) PROVE QuietWhileMoving'
  BY <1>5 DEF Leave, GoTo
<1>6. ASSUME NEW p \in Daemons, Closing(p) PROVE QuietWhileMoving'
  BY <1>6 DEF Closing, Unlink, GoTo, Discard, ReleaseLease, ReleaseLock, Exit,
      Gone
<1>7. ASSUME NEW p \in Daemons, Stopped(p) \/ Crash(p) PROVE QuietWhileMoving'
  BY <1>7 DEF Stopped, Gone, Crash, Trouble
<1>8. CASE OlderBuild \/ BeginRepair \/ SetUp
  BY <1>8 DEF OlderBuild, OlderOpens, OlderProbes, OlderBinds, OlderEnds,
      BeginRepair, Trouble, RepairGoes, SetUp
<1>9. CASE RepairStep
  BY <1>9 DEF RepairStep, Look, RepairGoes, Holders, Signal, Settle,
      RepairLease, Recheck, Quiescent, Publish, WriteReceipt, GiveBack, RepairEnds,
      StartDaemon, Loads, GoTo, Handshake
<1> QED
  BY <1>1, <1>2, <1>3, <1>4, <1>5, <1>6, <1>7, <1>8, <1>9 DEF Next

\* A receipt is published by who has the lease, when nobody has the ledger
\* open; a setup only takes a selection away.
LEMMA SelectionKept ==
    TypeOK /\ LeaseInv /\ LedgerInv /\ QuietWhileMoving /\ SelectionInv /\ Next
        => SelectionInv'
<1> SUFFICES ASSUME TypeOK, LeaseInv, LedgerInv, QuietWhileMoving, SelectionInv, Next
             PROVE SelectionInv'
  OBVIOUS
<1> USE DEF TypeOK, Phases, RepairSteps, selecting, ownership, process,
    repairing, LeaseInv, LeaseHeld, LedgerInv, LedgerOpen, Served,
    QuietWhileMoving, Holders, SelectionInv
<1>1. ASSUME NEW p \in Daemons, Spawn(p) PROVE SelectionInv'
  BY <1>1 DEF Spawn, Loads, GoTo
<1>2. ASSUME NEW p \in Daemons, Starting(p) PROVE SelectionInv'
  BY <1>2 DEF Starting, TakeLock, GoTo, TakeLease, Granted, Grantable, Probe,
      UnlinkStale, OpenLedger, Current, BuildState, Bind
<1>3. ASSUME NEW p \in Daemons, StartupFails(p) PROVE SelectionInv'
  BY <1>3 DEF StartupFails, GoTo, Trouble
<1>4. ASSUME NEW p \in Daemons, Serving(p) PROVE SelectionInv'
  BY <1>4 DEF Serving, Accept, BeginWrite, Check, Current, LastCheck, Commit
<1>5. ASSUME NEW p \in Daemons, Leave(p) PROVE SelectionInv'
  BY <1>5 DEF Leave, GoTo
<1>6. ASSUME NEW p \in Daemons, Closing(p) PROVE SelectionInv'
  BY <1>6 DEF Closing, Unlink, GoTo, Discard, ReleaseLease, ReleaseLock, Exit,
      Gone
<1>7. ASSUME NEW p \in Daemons, Stopped(p) \/ Crash(p) PROVE SelectionInv'
  BY <1>7 DEF Stopped, Gone, Crash, Trouble
<1>8. CASE OlderBuild \/ BeginRepair \/ SetUp
  BY <1>8 DEF OlderBuild, OlderOpens, OlderProbes, OlderBinds, OlderEnds,
      BeginRepair, Trouble, RepairGoes, SetUp
<1>9. CASE RepairStep
  BY <1>9 DEF RepairStep, Look, RepairGoes, Holders, Signal, Settle,
      RepairLease, Recheck, Quiescent, Publish, WriteReceipt, GiveBack, RepairEnds,
      StartDaemon, Loads, GoTo, Handshake
<1> QED
  BY <1>1, <1>2, <1>3, <1>4, <1>5, <1>6, <1>7, <1>8, <1>9 DEF Next

-----------------------------------------------------------------------------
\* Theorems

LEMMA Inductive == Spec => []OwnershipInv
<1>1. Init => OwnershipInv
  BY DEF Init, OwnershipInv, TypeOK, LockInv, LockHeld, LeaseInv, LeaseHeld,
         LedgerInv, LedgerOpen, Served, QuietWhileMoving, SelectionInv, Phases,
         RepairSteps, Receipts, OlderPhases
<1>2. OwnershipInv /\ Next => OwnershipInv'
  BY TypeKept, LockKept, LeaseKept, LedgerKept, QuietKept, SelectionKept DEF OwnershipInv
<1>3. OwnershipInv /\ UNCHANGED vars => OwnershipInv'
  BY DEF vars, selecting, ownership, process, repairing, OwnershipInv, TypeOK,
         LockInv, LeaseInv, LedgerInv, QuietWhileMoving, SelectionInv
<1> QED
  BY <1>1, <1>2, <1>3, PTL DEF Spec

\* Each variable has its type in every behaviour.
THEOREM TypeCorrect == Spec => []TypeOK
<1>1. OwnershipInv => TypeOK
  BY DEF OwnershipInv
<1> QED
  BY <1>1, Inductive, PTL

\* The socket file of a daemon that serves is never removed or replaced by
\* the start, the close or the death of another daemon of this generation:
\* who touches it has the startup lock.
THEOREM ReachableWhileServing == Spec => ServingIsReachable
<1> DEFINE Stays(p) == phase[p] = "serving" /\ sock = p =>
                         \/ sock' = p \/ phase'[p] # "serving"
                         \/ OlderBinds \/ OlderEnds
           Kept == \A p \in Daemons : Stays(p)
<1>1. OwnershipInv /\ [Next]_vars => [Kept]_vars
  <2> SUFFICES ASSUME OwnershipInv, Next, NEW p \in Daemons PROVE Stays(p)
    OBVIOUS
  <2> SUFFICES ASSUME phase[p] = "serving", sock = p, ~OlderBinds, ~OlderEnds
               PROVE sock' = p \/ phase'[p] # "serving"
    OBVIOUS
  <2> USE DEF selecting, ownership, process, repairing
  <2>1. \A q \in Daemons : phase[q] \in LockHeld => q = p
    BY DEF OwnershipInv, LockInv, LockHeld
  <2>2. ASSUME NEW q \in Daemons, Spawn(q) \/ StartupFails(q) \/ Serving(q) \/ Leave(q)
        PROVE sock' = p
    BY <2>2 DEF Spawn, StartupFails, Serving, Accept, BeginWrite, LastCheck,
        Check, Commit, Leave
  <2>3. ASSUME NEW q \in Daemons, Starting(q) PROVE sock' = p
    BY <2>1, <2>3 DEF Starting, TakeLock, TakeLease, Probe, UnlinkStale,
        OpenLedger, BuildState, Bind, LockHeld, OwnersAssumption
  <2>4. ASSUME NEW q \in Daemons, Closing(q) PROVE sock' = p
    BY <2>1, <2>4 DEF Closing, Unlink, Discard, ReleaseLease, ReleaseLock, Exit,
        LockHeld
  <2>5. ASSUME NEW q \in Daemons, Stopped(q) \/ Crash(q) PROVE sock' = p
    BY <2>5 DEF Stopped, Crash
  <2>6. CASE OlderBuild \/ BeginRepair \/ SetUp
    BY <2>6 DEF OlderBuild, OlderOpens, OlderProbes, BeginRepair, SetUp
  <2>7. CASE RepairStep
    BY <2>7 DEF RepairStep, Look, Signal, Settle, RepairLease, Recheck, Publish,
        GiveBack, RepairEnds, StartDaemon, Handshake
  <2> QED
    BY <2>2, <2>3, <2>4, <2>5, <2>6, <2>7 DEF Next
<1>2. Spec => [][Kept]_vars
  BY <1>1, Inductive, PTL DEF Spec
<1> QED
  BY <1>2 DEF ServingIsReachable

\* No daemon of this generation has the ledger open while a repair moves it:
\* the check finds none, and to open it is to hold the lease the repair has.
THEOREM NobodyWhileMoving == Spec => []QuietWhileMoving
<1>1. OwnershipInv => QuietWhileMoving
  BY DEF OwnershipInv
<1> QED
  BY <1>1, Inductive, PTL

\* While a runtime is selected, a daemon that serves is that runtime and may
\* write.
THEOREM SelectedServes == Spec => []ServingIsSelected
<1>1. OwnershipInv => ServingIsSelected
  BY DEF OwnershipInv, LeaseInv, LeaseHeld, SelectionInv, ServingIsSelected,
         Current
<1> QED
  BY <1>1, Inductive, PTL

\* No transaction commits for a runtime another one has replaced.
THEOREM NoStaleCommit == Spec => WritesAreSelected
<1> DEFINE Selected == \A p \in Daemons :
                Commit(p) => receipt \in {selection[p], Legacy}
<1>1. OwnershipInv => Selected
  BY DEF OwnershipInv, LedgerInv, SelectionInv, Commit
<1>2. OwnershipInv /\ [Next]_vars => [Selected]_vars
  BY <1>1
<1>3. Spec => [][Selected]_vars
  BY <1>2, Inductive, PTL DEF Spec
<1> QED
  BY <1>3 DEF WritesAreSelected
=============================================================================
