------------------------------ MODULE DeepScan ------------------------------
(***************************************************************************)
(* The deep scan of Engine.scan, and the ruling that follows it.           *)
(*                                                                         *)
(* The model is one pipeline behind one lock, for every session.  A call   *)
(* that comes in (a prompt, a result, a delegation) waits for it.  A call  *)
(* that goes out may wait only until its deadline: it hands its text to a  *)
(* worker, admitted without waiting and one at a time, and waits for the   *)
(* worker's task.  The worker goes on after its caller has gone.  What the *)
(* deep scan did not read is a scan gap, which the ruling writes down.     *)
(*                                                                         *)
(* Detectors are left out but for what the deep one finds in a text:       *)
(* nothing, or a credential that no cheap detector sees.                   *)
(***************************************************************************)
EXTENDS Naturals, FiniteSets

CONSTANTS
    Calls,    \* the observations to scan, each once
    Asks,     \* what each may be: where its data goes, and its text
    Nobody    \* not a call

ASSUME ScanAssumption ==
    /\ IsFiniteSet(Calls)
    /\ Asks \in [Calls -> SUBSET
         [to : {"local", "context", "subagent", "out"},
          text : {"plain", "secret", "oversize", "encrypted"}]]
    /\ Nobody \notin Calls

VARIABLES
    call,       \* per call: where its thread is, its destination, its text
    result,     \* per call: what scan returned: its gap and its deep findings
    ruling,     \* per call: the answer of observe, or of the handler
    task,       \* per outbound call: its _DeepScanTask
    worker,     \* per outbound call: where its worker is
    late,       \* the outbound calls whose deadline has passed
    holder,     \* who holds _TIER3_LOCK
    slots,      \* free permits of _TIER3_EGRESS_SLOT
    available,  \* ModelDetector.available
    gaps,       \* the calls with a row in scan_gaps
    read        \* history: how a successful deep scan of each text ended

callVars == <<call, result, ruling>>
workVars == <<task, worker>>
vars == <<callVars, workVars, late, holder, slots, available, gaps, read>>

-----------------------------------------------------------------------------
(* Data *)

Texts == {"plain", "secret", "oversize", "encrypted"}
Gaps == {"none", "oversize", "unavailable", "busy", "timeout"}

\* ModelDetector.scan, on the two texts it is given
Finds(text) == text = "secret"

Unscanned == [gap |-> "none", found |-> FALSE]
NewTask == [done |-> FALSE, outcome |-> "timeout", found |-> FALSE,
            error |-> FALSE, intime |-> FALSE]

Init ==
    /\ call = [c \in Calls |-> [pc |-> "new", to |-> "local", text |-> "plain"]]
    /\ result = [c \in Calls |-> Unscanned]
    /\ ruling = [c \in Calls |-> "none"]
    /\ task = [c \in Calls |-> NewTask]
    /\ worker = [c \in Calls |-> "none"]
    /\ late = {}
    /\ holder = Nobody
    /\ slots = 1
    /\ available \in BOOLEAN
    /\ gaps = {}
    /\ read = [c \in Calls |-> "no"]

Goto(c, pc) == call' = [call EXCEPT ![c].pc = pc]

\* scan returns.  Of an encrypted delegation the visible part was scanned.
Returns(c, gap, found) ==
    /\ Goto(c, "scanned")
    /\ result' = [result EXCEPT ![c] =
         [gap |-> IF gap = "none" /\ call[c].text = "encrypted" THEN "unavailable"
                  ELSE gap,
          found |-> found]]
    /\ UNCHANGED ruling

\* An exception leaves dispatch: the handler denies a tool call that has
\* not run, delegations excepted.
Raises(c) ==
    /\ Goto(c, "raised")
    /\ ruling' = [ruling EXCEPT ![c] =
         IF call[c].to \in {"out", "local"} THEN "deny" ELSE "allow"]
    /\ UNCHANGED result

-----------------------------------------------------------------------------
(* The calls *)

\* _scan: whether there is a deep scan, and of which kind.  The deadline of
\* an outbound call starts here.
Begin(c) ==
    /\ call[c].pc = "new"
    /\ \E ask \in Asks[c] :
         /\ call' = [call EXCEPT ![c] =
              [pc |-> IF ask.to = "local" \/ ask.text = "oversize" THEN "scanned"
                      ELSE IF ask.to = "out" THEN "admit" ELSE "queue",
               to |-> ask.to, text |-> ask.text]]
         /\ result' = [result EXCEPT ![c].gap =
              IF ask.to # "local" /\ ask.text = "oversize" THEN "oversize" ELSE "none"]
    /\ UNCHANGED <<ruling, workVars, late, holder, slots, available, gaps, read>>

\* The budget of an outbound call is spent, while somebody still reads it.
TimePasses(c) ==
    /\ c \notin late
    /\ call[c].pc \in {"admit", "spawn", "wait"} \/ worker[c] \notin {"none", "gone"}
    /\ late' = late \cup {c}
    /\ UNCHANGED <<callVars, workVars, holder, slots, available, gaps, read>>

\* _deep_scan_on_a_deadline: admission does not wait
Admit(c) ==
    /\ call[c].pc = "admit"
    /\ \/ slots > 0 /\ slots' = slots - 1 /\ Goto(c, "spawn") /\ UNCHANGED <<result, ruling>>
       \/ slots = 0 /\ Returns(c, "busy", FALSE) /\ UNCHANGED slots
    /\ UNCHANGED <<workVars, late, holder, available, gaps, read>>

Spawn(c) ==
    /\ call[c].pc = "spawn"
    /\ Goto(c, "wait")
    /\ worker' = [worker EXCEPT ![c] = "started"]
    /\ UNCHANGED <<result, ruling, task, late, holder, slots, available, gaps, read>>

\* (Mutant Forgotten: a worker that never started keeps the slot.)
Forgotten == slots

\* who could not start a worker gives its permit back
GivenBack == slots + 1

SpawnFails(c) ==
    /\ call[c].pc = "spawn"
    /\ slots' = GivenBack
    /\ Raises(c)
    /\ UNCHANGED <<workVars, late, holder, available, gaps, read>>

Accepted(t) == t.outcome = "none" /\ t.intime

\* The wait returns True: an error is the caller's, a result is accepted
\* only if it was complete by the deadline.
WaitReturns(c) ==
    /\ call[c].pc = "wait"
    /\ task[c].done
    /\ IF task[c].error THEN Raises(c)
       ELSE IF Accepted(task[c]) THEN Returns(c, "none", task[c].found)
       ELSE Returns(c, IF task[c].outcome = "none" THEN "timeout" ELSE task[c].outcome, FALSE)
    /\ UNCHANGED <<workVars, late, holder, slots, available, gaps, read>>

\* (Mutant WaitsForModel: a caller whose scan has begun sees it through.)
WaitsForModel(c) ==
    /\ call[c].pc = "wait"
    /\ ~task[c].done
    /\ c \in late
    /\ holder # c
    /\ Returns(c, "timeout", FALSE)
    /\ UNCHANGED <<workVars, late, holder, slots, available, gaps, read>>

\* The wait returns False.
WaitTimesOut(c) ==
    /\ call[c].pc = "wait"
    /\ ~task[c].done
    /\ c \in late
    /\ Returns(c, "timeout", FALSE)
    /\ UNCHANGED <<workVars, late, holder, slots, available, gaps, read>>

\* _deep_scan_blocking: what comes in waits for the model, however long.
TakeModel(c) ==
    /\ call[c].pc = "queue"
    /\ holder = Nobody
    /\ holder' = c
    /\ Goto(c, "infer")
    /\ UNCHANGED <<result, ruling, workVars, late, slots, available, gaps, read>>

\* (Mutant NotReread: a failed pipeline is taken for a clean scan.)
NotReread(av) == IF available THEN "none" ELSE "unavailable"

\* _run_expensive: the availability is read before the model runs, and again
\* after, when `av` is what became of it.
Outcome(av) == IF available /\ av THEN "none" ELSE "unavailable"

\* How the model's scan may end: it succeeds, its pipeline raises and it is
\* unavailable from then on, or something else raises.
Ends == {"read", "fails", "raises"}

\* What is left of the model, and what is known of the text.
Inferred(c, how) ==
    /\ available' = (available /\ how # "fails")
    /\ read' = [read EXCEPT ![c] =
         IF available /\ how = "read" THEN (IF c \in late THEN "late" ELSE "yes") ELSE @]

Infer(c) ==
    /\ call[c].pc = "infer"
    /\ \E how \in Ends :
         /\ Inferred(c, how)
         /\ IF available /\ how = "raises" THEN Raises(c)
            ELSE LET gap == Outcome(available')
                 IN Returns(c, gap, gap = "none" /\ how = "read" /\ Finds(call[c].text))
    /\ holder' = Nobody
    /\ UNCHANGED <<workVars, late, slots, gaps>>

\* (Mutant Unnoted: a call nobody scanned leaves no row.)
Unnoted(c) == result[c].gap \notin {"none", "busy"}

\* observe: a gap is written down whatever the ruling is.
Noted(c) == result[c].gap # "none"

\* observe, under the lock: the gap first, then the ruling.  Writing it can
\* fail, and then nothing of it is kept.
Observe(c) ==
    /\ call[c].pc = "scanned"
    /\ Goto(c, "done")
    /\ gaps' = IF Noted(c) THEN gaps \cup {c} ELSE gaps
    /\ ruling' = [ruling EXCEPT ![c] =
         IF call[c].to = "out" /\ result[c].found THEN "deny" ELSE "allow"]
    /\ UNCHANGED <<result, workVars, late, holder, slots, available, read>>

ObserveFails(c) ==
    /\ call[c].pc = "scanned"
    /\ Raises(c)
    /\ UNCHANGED <<workVars, late, holder, slots, available, gaps, read>>

-----------------------------------------------------------------------------
(* The workers: _deep_scan_worker *)

MoveWorker(c, from, to) ==
    /\ worker[c] = from
    /\ worker' = [worker EXCEPT ![c] = to]

WorkerQueues(c) ==
    /\ MoveWorker(c, "started", IF c \in late THEN "ending" ELSE "queued")
    /\ UNCHANGED <<callVars, task, late, holder, slots, available, gaps, read>>

\* (Mutant Unlocked: the model is not waited for.)
Unlocked == TRUE

ModelFree == holder = Nobody

WorkerLocks(c) ==
    /\ MoveWorker(c, "queued", "locked")
    /\ ModelFree
    /\ holder' = c
    /\ UNCHANGED <<callVars, task, late, slots, available, gaps, read>>

WorkerGivesUp(c) ==
    /\ c \in late
    /\ MoveWorker(c, "queued", "ending")
    /\ UNCHANGED <<callVars, task, late, holder, slots, available, gaps, read>>

\* A deadline that passed in the queue: inference is not started.
WorkerRechecks(c) ==
    /\ MoveWorker(c, "locked", IF c \in late THEN "unlocking" ELSE "inferring")
    /\ UNCHANGED <<callVars, task, late, holder, slots, available, gaps, read>>

WorkerInfers(c) ==
    /\ MoveWorker(c, "inferring", "unlocking")
    /\ \E how \in Ends :
         /\ Inferred(c, how)
         /\ task' = [task EXCEPT ![c] =
              IF available /\ how = "raises" THEN [@ EXCEPT !.error = TRUE]
              ELSE LET gap == Outcome(available')
                   IN [@ EXCEPT !.outcome = gap,
                                !.found = gap = "none" /\ how = "read" /\ Finds(call[c].text),
                                !.intime = c \notin late]]
    /\ UNCHANGED <<callVars, late, holder, slots, gaps>>

WorkerUnlocks(c) ==
    /\ MoveWorker(c, "unlocking", "ending")
    /\ holder' = Nobody
    /\ UNCHANGED <<callVars, task, late, slots, available, gaps, read>>

\* First the task is done, then the slot is free: a caller that has its
\* answer can still find the slot taken.
WorkerEnds(c) ==
    /\ MoveWorker(c, "ending", "leaving")
    /\ task' = [task EXCEPT ![c].done = TRUE]
    /\ UNCHANGED <<callVars, late, holder, slots, available, gaps, read>>

WorkerLeaves(c) ==
    /\ MoveWorker(c, "leaving", "gone")
    /\ slots' = slots + 1
    /\ UNCHANGED <<callVars, task, late, holder, available, gaps, read>>

-----------------------------------------------------------------------------

CallStep(c) ==
    \/ Begin(c) \/ Admit(c) \/ Spawn(c) \/ SpawnFails(c)
    \/ WaitReturns(c) \/ WaitTimesOut(c)
    \/ TakeModel(c) \/ Infer(c) \/ Observe(c) \/ ObserveFails(c)

WorkerStep(c) ==
    \/ WorkerQueues(c) \/ WorkerLocks(c) \/ WorkerGivesUp(c) \/ WorkerRechecks(c)
    \/ WorkerInfers(c) \/ WorkerUnlocks(c) \/ WorkerEnds(c) \/ WorkerLeaves(c)

Next == \E c \in Calls : CallStep(c) \/ TimePasses(c) \/ WorkerStep(c)

\* Time passes and the threads of outbound calls run.  Neither an inference
\* nor a worker is assumed to end.
Fairness ==
    \A c \in Calls :
        /\ WF_vars(TimePasses(c))
        /\ WF_vars(Admit(c))
        /\ WF_vars(Spawn(c) \/ SpawnFails(c))
        /\ WF_vars(WaitReturns(c) \/ WaitTimesOut(c))
        /\ WF_vars(Observe(c) \/ ObserveFails(c))

Spec == Init /\ [][Next]_vars /\ Fairness

-----------------------------------------------------------------------------
(* Properties *)

TypeOK ==
    /\ call \in [Calls -> [pc : {"new", "admit", "spawn", "wait", "queue", "infer",
                                 "scanned", "raised", "done"},
                           to : {"local", "context", "subagent", "out"},
                           text : Texts]]
    /\ result \in [Calls -> [gap : Gaps, found : BOOLEAN]]
    /\ ruling \in [Calls -> {"none", "allow", "deny"}]
    /\ task \in [Calls -> [done : BOOLEAN, outcome : {"none", "unavailable", "timeout"},
                           found : BOOLEAN, error : BOOLEAN, intime : BOOLEAN]]
    /\ worker \in [Calls -> {"none", "started", "queued", "locked", "inferring",
                             "unlocking", "ending", "leaving", "gone"}]
    /\ late \subseteq Calls
    /\ holder \in Calls \cup {Nobody}
    /\ slots \in Nat
    /\ available \in BOOLEAN
    /\ gaps \subseteq Calls
    /\ read \in [Calls -> {"no", "yes", "late"}]

\* The shared pipeline is never entered by two threads: they would abort the
\* interpreter.
OneInference ==
    Cardinality({c \in Calls : call[c].pc = "infer" \/ worker[c] = "inferring"}) <= 1

\* The permit is taken exactly while one admitted scan is between its
\* admission and the end of its worker, whether its caller waits, has given
\* up or could not start it.
PermitHasItsScan ==
    LET admitted == {c \in Calls : call[c].pc = "spawn" \/ worker[c] \notin {"none", "gone"}}
    IN slots + Cardinality(admitted) = 1

\* What a scan says of itself is true.  No gap: the model has read this text,
\* by the deadline if there was one, and what it found is in the findings.
\* A reason is the history it names.
GapsAreTrue ==
    \A c \in Calls : (call[c].pc \in {"scanned", "done"} /\ call[c].to # "local") =>
        CASE result[c].gap = "none" -> /\ read[c] # "no"
                                       /\ call[c].to = "out" => read[c] = "yes"
                                       /\ result[c].found = Finds(call[c].text)
          [] result[c].gap = "unavailable" -> read[c] = "no" \/ call[c].text = "encrypted"
          [] result[c].gap = "busy" -> worker[c] = "none"
          [] result[c].gap = "timeout" -> c \in late
          [] OTHER -> read[c] = "no"

\* An outbound call that carries what only the deep scan would have denied
\* goes ahead only with its scan gap on record.
NoSilentMiss ==
    \A c \in Calls :
        (call[c].to = "out" /\ call[c].text = "secret" /\ ruling[c] = "allow")
            => c \in gaps

\* An outbound call is answered, also while the model is busy or hangs.
OutboundIsAnswered ==
    \A c \in Calls : (call[c].pc = "admit") ~> (ruling[c] # "none")
=============================================================================
