-------------------------- MODULE DeepScan_proofs --------------------------
(***************************************************************************)
(* Proofs about DeepScan for any calls and whatever each of them may ask.  *)
(***************************************************************************)
EXTENDS DeepScan, FiniteSetTheorems, TLAPS

USE ScanAssumption

-----------------------------------------------------------------------------
\* The types

Sorts == {"local", "context", "subagent", "out"}
Pcs == {"new", "admit", "spawn", "wait", "queue", "infer", "scanned", "raised", "done"}
Stages == {"none", "started", "queued", "locked", "inferring", "unlocking", "ending",
           "leaving", "gone"}
CallRecord == [pc : Pcs, to : Sorts, text : Texts]
ResultRecord == [gap : Gaps, found : BOOLEAN]
TaskRecord == [done : BOOLEAN, outcome : {"none", "unavailable", "timeout"},
               found : BOOLEAN, error : BOOLEAN, intime : BOOLEAN]

\* TypeOK, with its record types named.
LEMMA Types ==
    TypeOK <=>
      /\ call \in [Calls -> CallRecord]
      /\ result \in [Calls -> ResultRecord]
      /\ ruling \in [Calls -> {"none", "allow", "deny"}]
      /\ task \in [Calls -> TaskRecord]
      /\ worker \in [Calls -> Stages]
      /\ late \subseteq Calls
      /\ holder \in Calls \cup {Nobody}
      /\ slots \in Nat
      /\ available \in BOOLEAN
      /\ gaps \subseteq Calls
      /\ read \in [Calls -> {"no", "yes", "late"}]
BY DEF TypeOK, CallRecord, ResultRecord, TaskRecord, Pcs, Sorts, Stages

\* The steps that only move a call or a worker keep the types of both.
LEMMA MovesAreTyped ==
    ASSUME TypeOK, NEW c \in Calls
    PROVE  /\ \A pc \in Pcs : Goto(c, pc) => call' \in [Calls -> CallRecord]
           /\ \A gap \in Gaps, found \in BOOLEAN : Returns(c, gap, found) =>
                /\ call' \in [Calls -> CallRecord]
                /\ result' \in [Calls -> ResultRecord]
                /\ ruling' \in [Calls -> {"none", "allow", "deny"}]
           /\ Raises(c) => /\ call' \in [Calls -> CallRecord]
                           /\ result' \in [Calls -> ResultRecord]
                           /\ ruling' \in [Calls -> {"none", "allow", "deny"}]
           /\ \A from, to \in Stages : MoveWorker(c, from, to) => worker' \in [Calls -> Stages]
<1>1. ASSUME NEW pc \in Pcs, Goto(c, pc)
      PROVE  call' \in [Calls -> CallRecord]
  BY <1>1, Types DEF Goto, CallRecord
<1>2. "scanned" \in Pcs /\ "raised" \in Pcs
  BY DEF Pcs
<1>3. ASSUME NEW gap \in Gaps, NEW found \in BOOLEAN, Returns(c, gap, found)
      PROVE  /\ call' \in [Calls -> CallRecord]
             /\ result' \in [Calls -> ResultRecord]
             /\ ruling' \in [Calls -> {"none", "allow", "deny"}]
  BY <1>1, <1>2, <1>3, Types DEF Returns, ResultRecord, Gaps
<1>4. ASSUME Raises(c)
      PROVE  /\ call' \in [Calls -> CallRecord]
             /\ result' \in [Calls -> ResultRecord]
             /\ ruling' \in [Calls -> {"none", "allow", "deny"}]
  BY <1>1, <1>2, <1>4, Types DEF Raises
<1>5. ASSUME NEW from \in Stages, NEW to \in Stages, MoveWorker(c, from, to)
      PROVE  worker' \in [Calls -> Stages]
  BY <1>5, Types DEF MoveWorker
<1> QED
  BY <1>1, <1>3, <1>4, <1>5

\* What an inference leaves of the model, and reports.
LEMMA InferenceIsTyped ==
    ASSUME TypeOK, NEW c \in Calls, NEW how \in Ends, Inferred(c, how)
    PROVE  /\ available' \in BOOLEAN
           /\ read' \in [Calls -> {"no", "yes", "late"}]
           /\ Outcome(available') \in {"none", "unavailable"}
BY Types DEF Inferred, Outcome

\* Every step keeps the types, action by action.
LEMMA StepTyped ==
    ASSUME TypeOK, [Next]_vars
    PROVE  TypeOK'
<1>0. ASSUME UNCHANGED vars PROVE TypeOK'
  BY <1>0 DEF vars, callVars, workVars, TypeOK
<1> SUFFICES ASSUME NEW c \in Calls, CallStep(c) \/ TimePasses(c) \/ WorkerStep(c)
             PROVE  TypeOK'
  BY <1>0 DEF Next
<1> USE Types, MovesAreTyped
<1>1. CASE Begin(c)
  <2>1. PICK ask \in Asks[c] :
       /\ call' = [call EXCEPT ![c] =
            [pc |-> IF ask.to = "local" \/ ask.text = "oversize" THEN "scanned"
                    ELSE IF ask.to = "out" THEN "admit" ELSE "queue",
             to |-> ask.to, text |-> ask.text]]
       /\ result' = [result EXCEPT ![c].gap =
            IF ask.to # "local" /\ ask.text = "oversize" THEN "oversize" ELSE "none"]
    BY <1>1 DEF Begin
  <2>2. ask \in [to : Sorts, text : Texts]
    BY DEF Sorts, Texts
  <2>3. call' \in [Calls -> CallRecord]
    BY <2>1, <2>2 DEF CallRecord, Pcs
  <2>4. [result[c] EXCEPT !.gap = IF ask.to # "local" /\ ask.text = "oversize"
                                  THEN "oversize" ELSE "none"] \in ResultRecord
    BY DEF ResultRecord, Gaps
  <2>5. result' \in [Calls -> ResultRecord]
    BY <2>1, <2>4
  <2> QED
    BY <1>1, <2>3, <2>5 DEF Begin, workVars, TypeOK, CallRecord, ResultRecord, Pcs, Sorts
<1>2. CASE TimePasses(c)
  BY <1>2 DEF TimePasses, callVars, workVars, TypeOK
<1>3. CASE Admit(c)
  <2>1. CASE slots > 0 /\ slots' = slots - 1 /\ Goto(c, "spawn") /\ UNCHANGED <<result, ruling>>
    BY <1>3, <2>1 DEF Admit, workVars, TypeOK, Pcs, CallRecord, Sorts
  <2>2. CASE slots = 0 /\ Returns(c, "busy", FALSE) /\ UNCHANGED slots
    BY <1>3, <2>2 DEF Admit, workVars, TypeOK, Gaps, CallRecord, ResultRecord, Pcs, Sorts
  <2> QED
    BY <1>3, <2>1, <2>2 DEF Admit
<1>4. CASE Spawn(c)
  <2>1. call' \in [Calls -> CallRecord]
    BY <1>4 DEF Spawn, Pcs
  <2>2. worker' \in [Calls -> Stages]
    BY <1>4 DEF Spawn, Stages
  <2> QED
    BY <1>4, <2>1, <2>2 DEF Spawn, TypeOK, CallRecord, Pcs, Sorts, Stages
<1>5. CASE SpawnFails(c)
  BY <1>5 DEF SpawnFails, GivenBack, workVars, TypeOK, CallRecord, ResultRecord, Pcs, Sorts
<1>6. CASE WaitReturns(c)
  <2>1. task[c].outcome \in Gaps /\ task[c].found \in BOOLEAN
    BY DEF TaskRecord, Gaps
  <2>2. /\ call' \in [Calls -> CallRecord]
        /\ result' \in [Calls -> ResultRecord]
        /\ ruling' \in [Calls -> {"none", "allow", "deny"}]
    BY <1>6, <2>1 DEF WaitReturns, Gaps
  <2> QED
    BY <1>6, <2>2 DEF WaitReturns, workVars, TypeOK, CallRecord, ResultRecord, Pcs, Sorts
<1>7. CASE WaitTimesOut(c)
  <2>1. "timeout" \in Gaps
    BY DEF Gaps
  <2>2. /\ call' \in [Calls -> CallRecord]
        /\ result' \in [Calls -> ResultRecord]
        /\ ruling' \in [Calls -> {"none", "allow", "deny"}]
    BY <1>7, <2>1 DEF WaitTimesOut
  <2> QED
    BY <1>7, <2>2 DEF WaitTimesOut, workVars, TypeOK, CallRecord, ResultRecord, Pcs, Sorts
<1>8. CASE TakeModel(c)
  <2>1. call' \in [Calls -> CallRecord]
    BY <1>8 DEF TakeModel, Pcs
  <2> QED
    BY <1>8, <2>1 DEF TakeModel, workVars, TypeOK, CallRecord, Pcs, Sorts
<1>9. CASE Infer(c)
  <2>1. PICK how \in Ends :
       /\ Inferred(c, how)
       /\ IF available /\ how = "raises" THEN Raises(c)
          ELSE Returns(c, Outcome(available'),
                       Outcome(available') = "none" /\ how = "read" /\ Finds(call[c].text))
    BY <1>9 DEF Infer
  <2>2. Outcome(available') \in Gaps
    BY <2>1, InferenceIsTyped DEF Gaps
  <2>3. /\ call' \in [Calls -> CallRecord]
        /\ result' \in [Calls -> ResultRecord]
        /\ ruling' \in [Calls -> {"none", "allow", "deny"}]
    BY <2>1, <2>2
  <2>4. available' \in BOOLEAN /\ read' \in [Calls -> {"no", "yes", "late"}]
    BY <2>1, InferenceIsTyped
  <2> QED
    BY <1>9, <2>3, <2>4 DEF Infer, workVars, TypeOK, CallRecord, ResultRecord, Pcs, Sorts
<1>10. CASE Observe(c)
  <2>1. call' \in [Calls -> CallRecord]
    BY <1>10 DEF Observe, Pcs
  <2>2. ruling' \in [Calls -> {"none", "allow", "deny"}]
    BY <1>10 DEF Observe
  <2>3. gaps' \subseteq Calls
    BY <1>10 DEF Observe
  <2> QED
    BY <1>10, <2>1, <2>2, <2>3 DEF Observe, workVars, TypeOK, CallRecord, Pcs, Sorts
<1>11. CASE ObserveFails(c)
  BY <1>11 DEF ObserveFails, workVars, TypeOK, CallRecord, ResultRecord, Pcs, Sorts
<1>12. CASE WorkerInfers(c)
  <2>1. PICK how \in Ends :
       /\ Inferred(c, how)
       /\ task' = [task EXCEPT ![c] =
            IF available /\ how = "raises" THEN [@ EXCEPT !.error = TRUE]
            ELSE [@ EXCEPT !.outcome = Outcome(available'),
                           !.found = Outcome(available') = "none" /\ how = "read"
                                       /\ Finds(call[c].text),
                           !.intime = c \notin late]]
    BY <1>12 DEF WorkerInfers
  <2>2. Outcome(available') \in {"none", "unavailable"}
    BY <2>1, InferenceIsTyped
  <2>3. task' \in [Calls -> TaskRecord]
    <3>1. task[c] \in TaskRecord
      OBVIOUS
    <3>2. [task[c] EXCEPT !.error = TRUE] \in TaskRecord
      BY <3>1 DEF TaskRecord
    <3>3. ASSUME NEW found \in BOOLEAN, NEW intime \in BOOLEAN,
                 NEW outcome \in {"none", "unavailable"}
          PROVE  [task[c] EXCEPT !.outcome = outcome, !.found = found,
                                 !.intime = intime] \in TaskRecord
      BY <3>1 DEF TaskRecord
    <3>4. task'[c] \in TaskRecord
      BY <2>1, <2>2, <3>2, <3>3 DEF Finds
    <3> QED
      BY <2>1, <3>4
  <2>4. worker' \in [Calls -> Stages]
    BY <1>12 DEF WorkerInfers, Stages
  <2>5. available' \in BOOLEAN /\ read' \in [Calls -> {"no", "yes", "late"}]
    BY <2>1, InferenceIsTyped
  <2> QED
    BY <1>12, <2>3, <2>4, <2>5 DEF WorkerInfers, callVars, TypeOK, TaskRecord, Stages
<1>13. CASE WorkerEnds(c)
  <2>1. worker' \in [Calls -> Stages]
    BY <1>13 DEF WorkerEnds, Stages
  <2>2. [task[c] EXCEPT !.done = TRUE] \in TaskRecord
    <3>1. task[c] \in TaskRecord
      OBVIOUS
    <3> QED
      BY <3>1 DEF TaskRecord
  <2>3. task' \in [Calls -> TaskRecord]
    BY <1>13, <2>2 DEF WorkerEnds
  <2> QED
    BY <1>13, <2>1, <2>3 DEF WorkerEnds, callVars, TypeOK, TaskRecord, Stages
<1>14. CASE WorkerQueues(c) \/ WorkerLocks(c) \/ WorkerGivesUp(c) \/ WorkerRechecks(c)
              \/ WorkerUnlocks(c) \/ WorkerLeaves(c)
  <2>1. worker' \in [Calls -> Stages]
    BY <1>14 DEF WorkerQueues, WorkerLocks, WorkerGivesUp, WorkerRechecks, WorkerUnlocks,
                 WorkerLeaves, Stages
  <2>2. UNCHANGED <<callVars, task, late, available, gaps, read>>
    BY <1>14 DEF WorkerQueues, WorkerLocks, WorkerGivesUp, WorkerRechecks, WorkerUnlocks,
                 WorkerLeaves
  <2>3. holder' \in Calls \cup {Nobody} /\ slots' \in Nat
    BY <1>14 DEF WorkerQueues, WorkerLocks, WorkerGivesUp, WorkerRechecks, WorkerUnlocks,
                 WorkerLeaves
  <2> QED
    BY <2>1, <2>2, <2>3 DEF callVars, TypeOK, Stages
<1> QED
  BY <1>1, <1>2, <1>3, <1>4, <1>5, <1>6, <1>7, <1>8, <1>9, <1>10, <1>11, <1>12, <1>13,
     <1>14 DEF CallStep, WorkerStep

\* The initial state is typed.
LEMMA InitTyped == Init => TypeOK
BY Types DEF Init, CallRecord, ResultRecord, TaskRecord, Pcs, Sorts, Stages,
   Texts, Gaps, Unscanned, NewTask

\* TypeOK: the variables keep their types, whatever the calls ask.
THEOREM Typed == Spec => []TypeOK
BY InitTyped, StepTyped, PTL DEF Spec

-----------------------------------------------------------------------------
\* One call's step

Step(c) == CallStep(c) \/ TimePasses(c) \/ WorkerStep(c)

\* A step of one call leaves all that is said of another as it was.
LEMMA OthersStand ==
    ASSUME TypeOK, NEW c \in Calls, Step(c), NEW d \in Calls, d # c
    PROVE  /\ call'[d] = call[d] /\ result'[d] = result[d] /\ ruling'[d] = ruling[d]
           /\ task'[d] = task[d] /\ worker'[d] = worker[d] /\ read'[d] = read[d]
           /\ d \in late' <=> d \in late
           /\ d \in gaps' <=> d \in gaps
<1> USE DEF callVars, workVars, Goto, Returns, Raises, MoveWorker
<1>1. CASE Begin(c)
  BY <1>1, Types DEF Begin
<1>2. CASE TimePasses(c)
  BY <1>2, Types DEF TimePasses
<1>3. CASE Admit(c)
  BY <1>3, Types DEF Admit
<1>4. CASE Spawn(c)
  BY <1>4, Types DEF Spawn
<1>5. CASE SpawnFails(c)
  BY <1>5, Types DEF SpawnFails
<1>6. CASE WaitReturns(c)
  BY <1>6, Types DEF WaitReturns
<1>7. CASE WaitTimesOut(c)
  BY <1>7, Types DEF WaitTimesOut
<1>8. CASE TakeModel(c)
  BY <1>8, Types DEF TakeModel
<1>9. CASE Infer(c)
  BY <1>9, Types DEF Infer, Inferred
<1>10. CASE Observe(c)
  BY <1>10, Types DEF Observe
<1>11. CASE ObserveFails(c)
  BY <1>11, Types DEF ObserveFails
<1>12. CASE WorkerQueues(c) \/ WorkerLocks(c) \/ WorkerGivesUp(c) \/ WorkerRechecks(c)
  BY <1>12, Types DEF WorkerQueues, WorkerLocks, WorkerGivesUp, WorkerRechecks
<1>13. CASE WorkerInfers(c)
  BY <1>13, Types DEF WorkerInfers, Inferred
<1>14. CASE WorkerUnlocks(c) \/ WorkerEnds(c) \/ WorkerLeaves(c)
  BY <1>14, Types DEF WorkerUnlocks, WorkerEnds, WorkerLeaves
<1> QED
  BY <1>1, <1>2, <1>3, <1>4, <1>5, <1>6, <1>7, <1>8, <1>9, <1>10, <1>11, <1>12, <1>13,
     <1>14 DEF Step, CallStep, WorkerStep

\* Where a call and its worker go in a step of the call, and what they do to
\* the lock.
LEMMA CallMoves ==
    ASSUME TypeOK, NEW c \in Calls, CallStep(c)
    PROVE  \/ /\ worker' = worker /\ holder' = holder
              /\ call[c].pc \notin {"queue", "infer"} /\ call'[c].pc # "infer"
              /\ call[c].pc # "new" => call'[c].pc # "queue"
              /\ call[c].pc \in {"wait", "scanned"}
                   => call'[c].pc \in {"wait", "scanned", "raised", "done"}
           \/ /\ Spawn(c)
              /\ worker'[c] = "started" /\ call'[c].pc = "wait" /\ holder' = holder
           \/ /\ TakeModel(c)
              /\ holder = Nobody /\ holder' = c /\ call'[c].pc = "infer" /\ worker' = worker
           \/ /\ Infer(c)
              /\ holder' = Nobody /\ call'[c].pc \in {"scanned", "raised"} /\ worker' = worker
<1> USE DEF callVars, workVars, Goto, Returns, Raises
<1>1. CASE Begin(c)
  BY <1>1, Types DEF Begin
<1>2. CASE Admit(c) \/ SpawnFails(c)
  BY <1>2, Types DEF Admit, SpawnFails, CallRecord
<1>3. CASE Spawn(c)
  BY <1>3, Types DEF Spawn, CallRecord
<1>4. CASE WaitReturns(c) \/ WaitTimesOut(c)
  BY <1>4, Types DEF WaitReturns, WaitTimesOut, CallRecord
<1>5. CASE TakeModel(c)
  BY <1>5, Types DEF TakeModel, CallRecord
<1>6. CASE Infer(c)
  <2>1. holder' = Nobody /\ worker' = worker
    BY <1>6 DEF Infer
  <2>2. call'[c].pc \in {"scanned", "raised"}
    BY <1>6, Types DEF Infer, CallRecord
  <2> QED
    BY <1>6, <2>1, <2>2
<1>7. CASE Observe(c) \/ ObserveFails(c)
  BY <1>7, Types DEF Observe, ObserveFails, CallRecord
<1> QED
  BY <1>1, <1>2, <1>3, <1>4, <1>5, <1>6, <1>7 DEF CallStep

\* And in a step of its worker, which also gives the permit back.
LEMMA WorkerMoves ==
    ASSUME TypeOK, NEW c \in Calls, WorkerStep(c)
    PROVE  /\ call' = call /\ worker[c] \notin {"none", "gone"} /\ worker'[c] # "none"
           /\ \/ /\ holder' = holder
                 /\ worker'[c] \in {"locked", "inferring", "unlocking"}
                      <=> worker[c] \in {"locked", "inferring", "unlocking"}
              \/ /\ worker[c] = "queued" /\ worker'[c] = "locked"
                 /\ holder = Nobody /\ holder' = c
              \/ /\ worker[c] = "unlocking" /\ worker'[c] = "ending"
                 /\ holder' = Nobody
           /\ \/ slots' = slots /\ worker'[c] # "gone"
              \/ slots' = slots + 1 /\ worker'[c] = "gone"
BY Types DEF WorkerStep, WorkerQueues, WorkerLocks, ModelFree, WorkerGivesUp,
   WorkerRechecks, WorkerInfers, WorkerUnlocks, WorkerEnds, WorkerLeaves, MoveWorker, callVars

-----------------------------------------------------------------------------
\* The lock and the permit

Inside(c) == call[c].pc = "infer" \/ worker[c] \in {"locked", "inferring", "unlocking"}

\* Only the holder of the lock is inside, and a worker is one of a call that
\* waits for it, or did: so a call is not inside in two ways.
LockHeld ==
    /\ \A c \in Calls : Inside(c) => holder = c
    /\ \A c \in Calls : worker[c] # "none"
                          => call[c].pc \in {"wait", "scanned", "raised", "done"}

\* Who is inside holds the lock after every step.
LEMMA StepLocked ==
    ASSUME TypeOK, LockHeld, [Next]_vars
    PROVE  LockHeld'
<1>1. CASE UNCHANGED vars
  BY <1>1 DEF vars, callVars, workVars, LockHeld, Inside
<1> SUFFICES ASSUME NEW c \in Calls, Step(c) PROVE LockHeld'
  BY <1>1 DEF Next, Step
<1>2. c # Nobody
  OBVIOUS
<1>3. CASE CallStep(c)
  <2>1. \A d \in Calls \ {c} : Inside(d)' = Inside(d) /\ call'[d] = call[d] /\ worker'[d] = worker[d]
    BY <1>3, OthersStand DEF Step, Inside
  <2>2. CASE UNCHANGED <<worker, holder>> /\ call[c].pc \notin {"queue", "infer"}
               /\ call'[c].pc # "infer"
               /\ (call[c].pc \in {"wait", "scanned"}
                    => call'[c].pc \in {"wait", "scanned", "raised", "done"})
    <3>1. call[c].pc \in {"new", "admit", "spawn", "wait", "scanned"}
      BY <1>3, <2>2 DEF CallStep, Begin, Admit, Spawn, SpawnFails, WaitReturns, WaitTimesOut,
                        TakeModel, Infer, Observe, ObserveFails
    <3> QED
      BY <2>1, <2>2, <3>1 DEF LockHeld, Inside
  <2>3. CASE Spawn(c) /\ worker'[c] = "started" /\ call'[c].pc = "wait" /\ holder' = holder
    BY <2>1, <2>3 DEF LockHeld, Inside
  <2>4. CASE /\ TakeModel(c)
             /\ holder = Nobody /\ holder' = c /\ call'[c].pc = "infer" /\ worker' = worker
    <3>1. call[c].pc = "queue"
      BY <2>4 DEF TakeModel
    <3>2. worker[c] = "none"
      BY <3>1 DEF LockHeld
    <3> QED
      BY <1>2, <2>1, <2>4, <3>2 DEF LockHeld, Inside
  <2>5. CASE /\ Infer(c)
             /\ holder' = Nobody /\ call'[c].pc \in {"scanned", "raised"} /\ worker' = worker
    <3>1. call[c].pc = "infer"
      BY <2>5 DEF Infer
    <3>2. worker[c] = "none" /\ holder = c
      BY <3>1 DEF LockHeld, Inside
    <3> QED
      BY <1>2, <2>1, <2>5, <3>2 DEF LockHeld, Inside
  <2> QED
    BY <1>3, <2>2, <2>3, <2>4, <2>5, CallMoves
<1>4. CASE TimePasses(c)
  BY <1>4 DEF TimePasses, callVars, workVars, LockHeld, Inside
<1>5. CASE WorkerStep(c)
  BY <1>2, <1>5, OthersStand, WorkerMoves DEF Step, LockHeld, Inside
<1> QED
  BY <1>3, <1>4, <1>5 DEF Step

\* OneInference: what _TIER3_LOCK is for, of any number of calls.
THEOREM OneAtATime == Spec => []OneInference
<1>1. Init => TypeOK /\ LockHeld
  <2>1. Init => LockHeld
    BY DEF Init, LockHeld, Inside
  <2> QED
    BY <2>1, InitTyped
<1>2. TypeOK /\ LockHeld /\ [Next]_vars => (TypeOK /\ LockHeld)'
  BY StepTyped, StepLocked
<1>3. LockHeld => OneInference
  <2> SUFFICES ASSUME LockHeld PROVE OneInference
    OBVIOUS
  <2> DEFINE inside == {c \in Calls : call[c].pc = "infer" \/ worker[c] = "inferring"}
  <2>1. \A c \in inside : holder = c
    BY DEF LockHeld, Inside
  <2>2. inside \subseteq {holder}
    BY <2>1
  <2>3. IsFiniteSet({holder}) /\ Cardinality({holder}) = 1
    BY FS_Singleton
  <2>4. Cardinality(inside) <= Cardinality({holder})
    BY <2>2, <2>3, FS_Subset
  <2> QED
    BY <2>3, <2>4 DEF OneInference
<1> QED
  BY <1>1, <1>2, <1>3, PTL DEF Spec

Admitted == {c \in Calls : call[c].pc = "spawn" \/ worker[c] \notin {"none", "gone"}}

\* The permit is free and nobody is admitted, or it is taken by one.
PermitHeld ==
    \/ slots = 1 /\ Admitted = {}
    \/ slots = 0 /\ \E c \in Calls : Admitted = {c}

\* What a step of a call does to the permit.
LEMMA PermitMoves ==
    ASSUME TypeOK, NEW c \in Calls, CallStep(c)
    PROVE  \/ /\ slots' = slots /\ worker' = worker
              /\ call[c].pc # "spawn" /\ call'[c].pc # "spawn"
           \/ /\ slots > 0 /\ slots' = slots - 1 /\ worker' = worker
              /\ call'[c].pc = "spawn"
           \/ /\ slots' = slots /\ call[c].pc = "spawn" /\ worker'[c] = "started"
           \/ /\ slots' = slots + 1 /\ call[c].pc = "spawn" /\ call'[c].pc = "raised"
              /\ worker' = worker
<1> USE DEF callVars, workVars, Goto, Returns, Raises
<1>1. CASE Begin(c)
  BY <1>1, Types DEF Begin
<1>2. CASE Admit(c)
  BY <1>2, Types DEF Admit, CallRecord
<1>3. CASE Spawn(c) \/ SpawnFails(c)
  BY <1>3, Types DEF Spawn, SpawnFails, GivenBack, CallRecord
<1>4. CASE WaitReturns(c) \/ WaitTimesOut(c)
  BY <1>4, Types DEF WaitReturns, WaitTimesOut, CallRecord
<1>5. CASE TakeModel(c)
  BY <1>5, Types DEF TakeModel, CallRecord
<1>6. CASE Infer(c)
  BY <1>6, Types DEF Infer, CallRecord
<1>7. CASE Observe(c) \/ ObserveFails(c)
  BY <1>7, Types DEF Observe, ObserveFails, CallRecord
<1> QED
  BY <1>1, <1>2, <1>3, <1>4, <1>5, <1>6, <1>7 DEF CallStep

\* The permit is counted right after every step.
LEMMA StepPermitted ==
    ASSUME TypeOK, LockHeld, PermitHeld, [Next]_vars
    PROVE  PermitHeld'
<1>1. CASE UNCHANGED vars
  BY <1>1 DEF vars, callVars, workVars, PermitHeld, Admitted
<1> SUFFICES ASSUME NEW c \in Calls, Step(c) PROVE PermitHeld'
  BY <1>1 DEF Next, Step
<1>2. \A d \in Calls \ {c} : d \in Admitted' <=> d \in Admitted
  BY OthersStand DEF Admitted
<1>3. slots \in Nat
  BY DEF TypeOK
<1>4. \/ slots' = slots /\ (c \in Admitted' <=> c \in Admitted)
      \/ slots > 0 /\ slots' = slots - 1 /\ c \in Admitted'
      \/ slots' = slots + 1 /\ c \in Admitted /\ c \notin Admitted'
  <2>1. CASE CallStep(c)
    BY <2>1, PermitMoves DEF Admitted, LockHeld
  <2>2. CASE TimePasses(c)
    BY <2>2 DEF TimePasses, callVars, workVars, Admitted
  <2>3. CASE WorkerStep(c)
    BY <2>3, WorkerMoves DEF Admitted, LockHeld
  <2> QED
    BY <2>1, <2>2, <2>3 DEF Step
<1>5. CASE slots' = slots /\ (c \in Admitted' <=> c \in Admitted)
  <2>1. Admitted' = Admitted
    BY <1>2, <1>5 DEF Admitted
  <2> QED
    BY <1>5, <2>1 DEF PermitHeld
<1>6. CASE slots > 0 /\ slots' = slots - 1 /\ c \in Admitted'
  <2>1. slots = 1 /\ Admitted = {}
    BY <1>6 DEF PermitHeld
  <2>2. Admitted' = {c}
    BY <1>2, <1>6, <2>1 DEF Admitted
  <2> QED
    BY <1>6, <2>1, <2>2 DEF PermitHeld
<1>7. CASE slots' = slots + 1 /\ c \in Admitted /\ c \notin Admitted'
  <2>1. slots = 0 /\ Admitted = {c}
    BY <1>7 DEF PermitHeld
  <2>2. Admitted' = {}
    BY <1>2, <1>7, <2>1 DEF Admitted
  <2> QED
    BY <1>7, <2>1, <2>2 DEF PermitHeld
<1> QED
  BY <1>4, <1>5, <1>6, <1>7

\* PermitHasItsScan: the one permit of _TIER3_EGRESS_SLOT is neither lost nor
\* given twice, however callers and workers end.
THEOREM PermitKept == Spec => []PermitHasItsScan
<1> DEFINE Inv == TypeOK /\ LockHeld /\ PermitHeld
<1>1. Init => Inv
  BY InitTyped DEF Init, LockHeld, Inside, PermitHeld, Admitted
<1>2. Inv /\ [Next]_vars => Inv'
  BY StepTyped, StepLocked, StepPermitted
<1>3. PermitHeld => PermitHasItsScan
  <2>1. Cardinality({}) = 0 /\ \A c : Cardinality({c}) = 1
    BY FS_EmptySet, FS_Singleton
  <2>2. ASSUME PermitHeld PROVE slots + Cardinality(Admitted) = 1
    <3>1. CASE slots = 1 /\ Admitted = {}
      BY <2>1, <3>1
    <3>2. ASSUME slots = 0, NEW c \in Calls, Admitted = {c}
          PROVE  slots + Cardinality(Admitted) = 1
      <4>1. Cardinality(Admitted) = 1
        BY <2>1, <3>2
      <4> QED
        BY <3>2, <4>1
    <3> QED
      BY <2>2, <3>1, <3>2 DEF PermitHeld
  <2> QED
    BY <2>2 DEF PermitHasItsScan, Admitted
<1> QED
  BY <1>1, <1>2, <1>3, PTL DEF Spec
-----------------------------------------------------------------------------
\* What a scan says of itself

Waiting == {"new", "admit", "spawn", "wait", "queue", "infer"}
Begun == {"started", "queued", "locked", "inferring"}

\* A call whose scan has not returned has no result and no ruling, and a
\* worker that has not inferred has left nothing and read nothing.
Untouched(c) ==
    /\ worker[c] # "none" => call[c].pc \in {"wait", "scanned", "raised", "done"}
    /\ call[c].pc \in {"queue", "infer"} => call[c].to # "out"
    /\ call[c].pc \in Waiting => result[c].gap = "none" /\ ~result[c].found
    /\ worker[c] \in Begun \cup {"none"} =>
         ~task[c].done /\ task[c].outcome = "timeout" /\ ~task[c].error
    /\ task[c].done => worker[c] \in {"leaving", "gone"}
    /\ worker[c] \in Begun \/ (worker[c] = "none" /\ call[c].pc \in Waiting)
         => read[c] = "no"
    /\ worker[c] \in Begun /\ call[c].pc \in {"scanned", "done"} => result[c].gap = "timeout"
    /\ result[c].gap \in {"busy", "oversize"} => worker[c] = "none"

\* What a worker's task says when it is past its inference is true.
TrueTask(c) ==
    (worker[c] \in {"unlocking", "ending", "leaving", "gone"} /\ ~task[c].error) =>
        /\ task[c].outcome = "timeout" => c \in late
        /\ task[c].outcome = "unavailable" => read[c] = "no"
        /\ task[c].outcome = "none" =>
             /\ task[c].found = Finds(call[c].text)
             /\ IF task[c].intime THEN read[c] = "yes" ELSE c \in late

TrueGap(c) ==
    (call[c].pc \in {"scanned", "done"} /\ call[c].to # "local") =>
        /\ result[c].gap = "none" => /\ read[c] # "no"
                                     /\ call[c].to = "out" => read[c] = "yes"
                                     /\ result[c].found = Finds(call[c].text)
        /\ result[c].gap = "unavailable" => read[c] = "no" \/ call[c].text = "encrypted"
        /\ result[c].gap = "busy" => worker[c] = "none"
        /\ result[c].gap = "timeout" => c \in late
        /\ result[c].gap = "oversize" => read[c] = "no"

\* A gap is on record with the ruling, and an outbound call is not allowed
\* with a deep finding, nor when it raised.
RuledSoundly(c) ==
    /\ ruling[c] # "none" => call[c].pc \in {"raised", "done"}
    /\ (call[c].pc = "raised" /\ call[c].to = "out") => ruling[c] = "deny"
    /\ (call[c].pc = "done" /\ result[c].gap # "none") => c \in gaps
    /\ (call[c].pc = "done" /\ call[c].to = "out" /\ result[c].found) => ruling[c] = "deny"

Sound(c) == Untouched(c) /\ TrueTask(c) /\ TrueGap(c) /\ RuledSoundly(c)
AllSound == \A c \in Calls : Sound(c)

\* The typed components of one call.
LEMMA OneCall ==
    ASSUME TypeOK, NEW c \in Calls
    PROVE  /\ call[c] \in CallRecord /\ result[c] \in ResultRecord /\ task[c] \in TaskRecord
           /\ worker[c] \in Stages /\ ruling[c] \in {"none", "allow", "deny"}
           /\ read[c] \in {"no", "yes", "late"} /\ available \in BOOLEAN
BY Types

\* A scan that returns what is true.
LEMMA ReturnSound ==
    ASSUME TypeOK, NEW c \in Calls, Sound(c), call[c].pc \in {"admit", "wait", "infer"},
           NEW gap \in {"none", "unavailable", "busy", "timeout"}, NEW found \in BOOLEAN,
           Returns(c, gap, found), UNCHANGED <<task, worker, late, gaps>>,
           read'[c] = read[c] \/ worker[c] = "none",
           worker[c] \in Begun => gap = "timeout",
           gap = "none" => /\ read'[c] # "no"
                           /\ call[c].to = "out" => read'[c] = "yes"
                           /\ found = Finds(call[c].text),
           gap = "unavailable" => read'[c] = "no",
           gap = "busy" => worker[c] = "none",
           gap = "timeout" => c \in late
    PROVE  Sound(c)'
<1> USE OneCall, Types DEF Waiting, Begun, CallRecord, ResultRecord, TaskRecord, Stages,
        Gaps, Returns, Goto
<1>1. Untouched(c) /\ TrueTask(c) /\ TrueGap(c) /\ RuledSoundly(c)
  BY DEF Sound
<1>2. /\ call'[c] = [call[c] EXCEPT !.pc = "scanned"] /\ ruling'[c] = ruling[c]
      /\ result'[c] = [gap |-> IF gap = "none" /\ call[c].text = "encrypted"
                               THEN "unavailable" ELSE gap,
                       found |-> found]
  OBVIOUS
<1>3. Untouched(c)'
  BY <1>1, <1>2 DEF Untouched
<1>4. TrueTask(c)'
  BY <1>1, <1>2 DEF TrueTask
<1>5. TrueGap(c)'
  <2>1. CASE gap = "none"
    BY <1>2, <2>1 DEF TrueGap
  <2>2. CASE gap # "none"
    BY <1>2, <2>2 DEF TrueGap
  <2> QED
    BY <2>1, <2>2
<1>6. RuledSoundly(c)'
  BY <1>1, <1>2 DEF RuledSoundly
<1> QED
  BY <1>3, <1>4, <1>5, <1>6 DEF Sound

\* A call's own steps.
LEMMA CallSound ==
    ASSUME TypeOK, NEW c \in Calls, Sound(c), CallStep(c)
    PROVE  Sound(c)'
<1> USE OneCall, Types DEF Untouched, TrueTask, TrueGap, RuledSoundly, Waiting, Begun,
        callVars, workVars, CallRecord, ResultRecord, TaskRecord, Stages, Gaps
<1> Untouched(c) /\ TrueTask(c) /\ TrueGap(c) /\ RuledSoundly(c)
  BY DEF Sound
<1>1. CASE Begin(c)
  <2>1. PICK ask \in Asks[c] :
         /\ call'[c] = [pc |-> IF ask.to = "local" \/ ask.text = "oversize" THEN "scanned"
                               ELSE IF ask.to = "out" THEN "admit" ELSE "queue",
                        to |-> ask.to, text |-> ask.text]
         /\ result'[c] = [result[c] EXCEPT !.gap =
              IF ask.to # "local" /\ ask.text = "oversize" THEN "oversize" ELSE "none"]
    <3>1. call \in [Calls -> CallRecord] /\ result \in [Calls -> ResultRecord]
      OBVIOUS
    <3> QED
      BY ONLY <1>1, <3>1, Zenon DEF Begin
  <2>2. /\ call[c].pc = "new"
        /\ UNCHANGED <<ruling, workVars, late, holder, slots, available, gaps, read>>
    BY <1>1 DEF Begin
  <2>3. worker[c] = "none" /\ read[c] = "no" /\ ruling[c] = "none" /\ ~result[c].found
    BY <2>2
  <2> QED
    BY <2>1, <2>2, <2>3 DEF Sound
<1>2. CASE Admit(c)
  <2>1. CASE slots > 0 /\ slots' = slots - 1 /\ Goto(c, "spawn") /\ UNCHANGED <<result, ruling>>
    BY <1>2, <2>1 DEF Admit, Goto, Sound
  <2>2. CASE slots = 0 /\ Returns(c, "busy", FALSE) /\ UNCHANGED slots
    BY <1>2, <2>2 DEF Admit, Returns, Goto, Sound
  <2> QED
    BY <1>2, <2>1, <2>2 DEF Admit
<1>3. CASE Spawn(c)
  BY <1>3 DEF Spawn, Goto, Sound
<1>4. CASE SpawnFails(c)
  BY <1>4 DEF SpawnFails, Raises, Goto, Sound
<1>5. CASE WaitReturns(c)
  <2>1. /\ call[c].pc = "wait" /\ task[c].done /\ worker[c] \in {"leaving", "gone"}
        /\ UNCHANGED <<task, worker, late, gaps, read>>
    BY <1>5 DEF WaitReturns
  <2>2. CASE task[c].error
    BY <1>5, <2>1, <2>2 DEF WaitReturns, Raises, Goto, Sound
  <2>3. CASE ~task[c].error /\ Accepted(task[c])
    <3>1. Returns(c, "none", task[c].found)
      BY <1>5, <2>3 DEF WaitReturns
    <3>2. read[c] = "yes" /\ task[c].found = Finds(call[c].text)
      BY <2>1, <2>3 DEF Accepted
    <3>3. task[c].found \in BOOLEAN
      OBVIOUS
    <3> QED
      BY <2>1, <3>1, <3>2, <3>3, ReturnSound
  <2>4. CASE ~task[c].error /\ ~Accepted(task[c]) /\ task[c].outcome = "unavailable"
    <3>1. task[c].outcome # "none"
      BY <2>4
    <3>2. Returns(c, task[c].outcome, FALSE)
      BY <1>5, <2>4, <3>1 DEF WaitReturns
    <3>3. Returns(c, "unavailable", FALSE)
      BY <2>4, <3>2
    <3>4. read[c] = "no"
      BY <2>1, <2>4
    <3> QED
      BY <2>1, <3>3, <3>4, ReturnSound
  <2>5. CASE ~task[c].error /\ ~Accepted(task[c]) /\ task[c].outcome \in {"none", "timeout"}
    <3>1. Returns(c, "timeout", FALSE)
      BY ONLY <1>5, <2>5, Zenon DEF WaitReturns
    <3>2. c \in late
      BY <2>1, <2>5 DEF Accepted
    <3> QED
      BY <2>1, <3>1, <3>2, ReturnSound
  <2> QED
    BY <2>2, <2>3, <2>4, <2>5
<1>6. CASE WaitTimesOut(c)
  BY <1>6 DEF WaitTimesOut, Returns, Goto, Sound
<1>7. CASE TakeModel(c)
  BY <1>7 DEF TakeModel, Goto, Sound
<1>8. CASE Infer(c)
  <2>1. PICK how \in Ends :
         /\ Inferred(c, how)
         /\ IF available /\ how = "raises" THEN Raises(c)
            ELSE Returns(c, Outcome(available'),
                         Outcome(available') = "none" /\ how = "read" /\ Finds(call[c].text))
    BY <1>8 DEF Infer
  <2>2. /\ call[c].pc = "infer" /\ call[c].to # "out" /\ worker[c] = "none" /\ read[c] = "no"
        /\ ruling[c] = "none"
        /\ UNCHANGED <<task, worker, late, gaps>>
    BY <1>8 DEF Infer
  <2>3. CASE available /\ how = "raises"
    BY <2>1, <2>2, <2>3 DEF Raises, Goto, Inferred, Sound
  <2>4. CASE available /\ how = "read"
    <3>1. Outcome(available') = "none" /\ read'[c] # "no"
      <4>1. read \in [Calls -> {"no", "yes", "late"}] /\ available' = TRUE
        BY <2>1, <2>4 DEF Inferred
      <4> QED
        BY ONLY <2>1, <2>4, <4>1 DEF Inferred, Outcome
    <3>2. Returns(c, "none", Finds(call[c].text)) /\ Finds(call[c].text) \in BOOLEAN
      BY <2>1, <2>4, <3>1 DEF Finds
    <3> QED
      <4>1. call[c].pc = "infer" /\ worker[c] = "none" /\ call[c].to # "out"
            /\ UNCHANGED <<task, worker, late, gaps>>
        BY <2>2
      <4>2. "none" \notin Begun
        BY DEF Begun
      <4> QED
        BY ONLY TypeOK, Sound(c), <3>1, <3>2, <4>1, <4>2, ReturnSound
  <2>5. CASE ~available \/ how = "fails"
    <3>1. Outcome(available') = "unavailable" /\ read'[c] = "no"
      BY <2>1, <2>2, <2>5 DEF Inferred, Outcome
    <3>2. Returns(c, "unavailable", FALSE)
      BY ONLY <2>1, <2>5, <3>1
    <3> QED
      BY <2>2, <3>1, <3>2 DEF Returns, Goto, Sound
  <2> QED
    BY <2>3, <2>4, <2>5 DEF Ends
<1>9. CASE Observe(c)
  BY <1>9 DEF Observe, Noted, Goto, Sound
<1>10. CASE ObserveFails(c)
  BY <1>10 DEF ObserveFails, Raises, Goto, Sound
<1> QED
  BY <1>1, <1>2, <1>3, <1>4, <1>5, <1>6, <1>7, <1>8, <1>9, <1>10 DEF CallStep

\* The worker's, and the deadline.
LEMMA WorkerSound ==
    ASSUME TypeOK, NEW c \in Calls, Sound(c), WorkerStep(c) \/ TimePasses(c)
    PROVE  Sound(c)'
<1> USE OneCall, Types DEF Untouched, TrueTask, TrueGap, RuledSoundly, Waiting, Begun,
        callVars, workVars, CallRecord, ResultRecord, TaskRecord, Stages, Gaps, MoveWorker
<1> Untouched(c) /\ TrueTask(c) /\ TrueGap(c) /\ RuledSoundly(c)
  BY DEF Sound
<1>1. CASE TimePasses(c)
  BY <1>1 DEF TimePasses, Sound
<1>2. CASE WorkerQueues(c)
  BY <1>2 DEF WorkerQueues, Sound
<1>3. CASE WorkerLocks(c)
  BY <1>3 DEF WorkerLocks, Sound
<1>4. CASE WorkerGivesUp(c)
  BY <1>4 DEF WorkerGivesUp, Sound
<1>5. CASE WorkerRechecks(c)
  BY <1>5 DEF WorkerRechecks, Sound
<1>6. CASE WorkerInfers(c)
  <2>1. PICK how \in Ends :
         /\ Inferred(c, how)
         /\ task'[c] =
              IF available /\ how = "raises" THEN [task[c] EXCEPT !.error = TRUE]
              ELSE [task[c] EXCEPT !.outcome = Outcome(available'),
                                   !.found = Outcome(available') = "none" /\ how = "read"
                                               /\ Finds(call[c].text),
                                   !.intime = c \notin late]
    BY <1>6 DEF WorkerInfers
  <2>2. /\ worker[c] = "inferring" /\ worker'[c] = "unlocking" /\ read[c] = "no"
        /\ call[c].pc \in {"wait", "scanned", "raised", "done"}
        /\ UNCHANGED <<callVars, late, gaps>>
    BY <1>6 DEF WorkerInfers
  <2>3. ~task[c].done /\ result[c].gap \notin {"busy", "oversize"}
    BY <2>2
  <2>4. CASE available /\ how = "raises"
    <3>1. read'[c] = "no"
      BY <2>1, <2>2, <2>4 DEF Inferred
    <3> QED
      BY <2>1, <2>2, <2>3, <2>4, <3>1 DEF Sound
  <2>5. CASE available /\ how = "read"
    <3>1. Outcome(available') = "none" /\ read'[c] = (IF c \in late THEN "late" ELSE "yes")
      <4>1. read \in [Calls -> {"no", "yes", "late"}] /\ available' = TRUE
        BY <2>1, <2>5 DEF Inferred
      <4> QED
        BY ONLY <2>1, <2>5, <4>1 DEF Inferred, Outcome
    <3>2. /\ task'[c].outcome = "none" /\ task'[c].found = Finds(call[c].text)
          /\ task'[c].intime = (c \notin late) /\ ~task'[c].done /\ ~task'[c].error
      BY <2>1, <2>2, <2>3, <2>5, <3>1 DEF Finds
    <3>3. call[c].pc \in {"scanned", "done"} /\ call[c].to # "local"
            => result[c].gap = "timeout"
      BY <2>2, <2>3
    <3> QED
      BY <2>2, <2>3, <3>1, <3>2, <3>3 DEF Sound
  <2>6. CASE ~available \/ how = "fails"
    <3>1. Outcome(available') = "unavailable" /\ read'[c] = "no"
      BY <2>1, <2>2, <2>6 DEF Inferred, Outcome
    <3>2. task'[c].outcome = "unavailable" /\ ~task'[c].done
      BY <2>1, <2>3, <2>6, <3>1
    <3> QED
      BY <2>2, <2>3, <3>1, <3>2 DEF Sound
  <2> QED
    BY <2>4, <2>5, <2>6 DEF Ends
<1>7. CASE WorkerUnlocks(c)
  BY <1>7 DEF WorkerUnlocks, Sound
<1>8. CASE WorkerEnds(c)
  BY <1>8 DEF WorkerEnds, Sound
<1>9. CASE WorkerLeaves(c)
  BY <1>9 DEF WorkerLeaves, Sound
<1> QED
  BY <1>1, <1>2, <1>3, <1>4, <1>5, <1>6, <1>7, <1>8, <1>9 DEF WorkerStep

\* Every step keeps every call sound: its own, and the others.
LEMMA StepSound ==
    ASSUME TypeOK, AllSound, [Next]_vars
    PROVE  AllSound'
<1> SUFFICES ASSUME NEW d \in Calls PROVE Sound(d)'
  BY DEF AllSound
<1> Sound(d)
  BY DEF AllSound
<1> USE DEF Sound, Untouched, TrueTask, TrueGap, RuledSoundly
<1>1. CASE UNCHANGED vars
  BY <1>1 DEF vars, callVars, workVars
<1>2. ASSUME NEW c \in Calls, Step(c), c # d PROVE Sound(d)'
  BY <1>2, OthersStand
<1>3. CASE Step(d)
  BY <1>3, CallSound, WorkerSound DEF Step
<1> QED
  BY <1>1, <1>2, <1>3 DEF Next, Step

\* AllSound is the inductive strengthening of the two invariants that follow.
THEOREM Soundness == Spec => []AllSound
<1>1. Init => AllSound
  BY DEF Init, Unscanned, NewTask, AllSound, Sound, Untouched, TrueTask, TrueGap,
     RuledSoundly, Waiting, Begun
<1>2. TypeOK /\ AllSound /\ [Next]_vars => (TypeOK /\ AllSound)'
  BY StepTyped, StepSound
<1> QED
  BY <1>1, <1>2, InitTyped, PTL DEF Spec

\* GapsAreTrue: what scan returns about its own reach is true of what the
\* model really read, for any number of calls and however they interleave.
THEOREM ScansAreTrue == Spec => []GapsAreTrue
<1>1. TypeOK /\ AllSound => GapsAreTrue
  BY Types DEF AllSound, Sound, TrueGap, GapsAreTrue, ResultRecord, Gaps
<1> QED
  BY <1>1, Typed, Soundness, PTL

\* NoSilentMiss: a credential only the deep scan finds leaves unread, if it
\* leaves, on record.
THEOREM NothingMissedSilently == Spec => []NoSilentMiss
<1>1. TypeOK /\ AllSound => NoSilentMiss
  <2> SUFFICES ASSUME TypeOK, AllSound, NEW c \in Calls, call[c].to = "out",
                      call[c].text = "secret", ruling[c] = "allow"
               PROVE  c \in gaps
    BY DEF NoSilentMiss
  <2>1. Untouched(c) /\ TrueGap(c) /\ RuledSoundly(c)
    BY DEF AllSound, Sound
  <2>2. call[c].pc = "done" /\ ~result[c].found
    BY <2>1, OneCall DEF RuledSoundly, ResultRecord
  <2>3. result[c].gap # "none"
    BY <2>1, <2>2 DEF TrueGap, Finds
  <2> QED
    BY <2>1, <2>2, <2>3 DEF RuledSoundly
<1> QED
  BY <1>1, Typed, Soundness, PTL
=============================================================================
