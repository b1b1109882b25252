------------------------- MODULE PromptHold_proofs -------------------------
(***************************************************************************)
(* Proofs about PromptHold, for every number of requests, deliveries and   *)
(* credentials, and every confirmation gap and window.                     *)
(***************************************************************************)
EXTENDS PromptHold, TLAPS

\* A request that is ruled on stays one, whatever its fields range over.
LEMMA FieldsStay ==
    ASSUME NEW S, NEW K, NEW V, NEW B, NEW N,
           NEW q \in [stage : S, key : K, at : Nat, decidedAt : Nat, gate : Nat,
                      verdict : V, basis : B, notice : N],
           NEW s \in S, NEW t \in Nat, NEW g \in Nat, NEW v \in V, NEW b \in B
    PROVE  [q EXCEPT !.stage = s, !.decidedAt = t, !.gate = g, !.verdict = v,
                     !.basis = b]
             \in [stage : S, key : K, at : Nat, decidedAt : Nat, gate : Nat,
                  verdict : V, basis : B, notice : N]
OBVIOUS

LEMMA RuledType ==
    ASSUME TypeOK, gate' \in Nat, NEW r \in Requests,
           NEW s \in {"idle"} \cup LiveStages \cup FinalStages,
           NEW v \in Verdict \cup {NoVerdict},
           NEW b \in [Credentials -> Nat \cup {NotPending}]
    PROVE  Ruled(r, s, v, b) \in [Requests -> Request]
<1> DEFINE q == [req[r] EXCEPT !.stage = s, !.decidedAt = now, !.gate = gate',
                               !.verdict = v, !.basis = b]
<1>1. q \in Request
  <2>1. req[r] \in Request /\ now \in Nat
    BY DEF TypeOK
  <2> QED
    BY <2>1, FieldsStay, Zenon DEF Request
<1>2. Ruled(r, s, v, b) = [req EXCEPT ![r] = q]
  BY DEF Ruled
<1>3. req \in [Requests -> Request]
  BY DEF TypeOK
<1> HIDE DEF q
<1> QED
  BY <1>1, <1>2, <1>3

LEMMA PrunedType == TypeOK => Pruned \in [Credentials -> Nat \cup {NotPending}]
  BY DEF TypeOK, Pruned

LEMMA EngineType ==
    ASSUME TypeOK,
           ResolveEngine \/ TemporaryEngine \/ UNCHANGED <<ended, registered, gate>>
    PROVE  ended' \in BOOLEAN /\ registered' \in BOOLEAN /\ gate' \in Nat
<1>1. CASE ResolveEngine
  BY <1>1 DEF ResolveEngine, TypeOK
<1>2. CASE TemporaryEngine
  BY <1>2 DEF TemporaryEngine, TypeOK
<1>3. CASE UNCHANGED <<ended, registered, gate>>
  BY <1>3 DEF TypeOK
<1> QED
  BY <1>1, <1>2, <1>3

-----------------------------------------------------------------------------
\* A prompt that carries a credential is scanned only with a verdict in hand:
\* what the completion of lock 3 compares with the one the gate has stored.
RuledBeforeScan ==
    \A r \in Requests :
        req[r].stage = "scanning" /\ Creds(r) # {} => req[r].verdict # NoVerdict

LEMMA InitType == Init => TypeOK
<1> SUFFICES ASSUME Init PROVE TypeOK
  OBVIOUS
<1>1. \A k \in DeliveryKeys :
         [stage |-> "idle", key |-> k, at |-> 0, decidedAt |-> 0, gate |-> 0,
          verdict |-> NoVerdict, basis |-> NothingPending, notice |-> {}]
            \in Request
  BY DEF Request, NothingPending
<1>2. req \in [Requests -> Request]
  BY <1>1 DEF Init
<1> QED
  BY <1>2 DEF Init, TypeOK, NothingPending, NoDeliveries, NoReservations

LEMMA StepType == ASSUME TypeOK, RuledBeforeScan, [Next]_vars PROVE TypeOK'
<1> USE DEF LiveStages, FinalStages
<1> \A r \in Requests : req[r] \in Request
  BY DEF TypeOK
<1>1. CASE UNCHANGED vars
  BY <1>1 DEF vars, TypeOK
<1>2. ASSUME NEW r \in Requests, Submit(r) PROVE TypeOK'
  <2>1. [req[r] EXCEPT !.stage = "arrived", !.at = now] \in Request
    BY DEF TypeOK, Request
  <2> QED
    BY <1>2, <2>1 DEF Submit, gateVars, TypeOK
<1>3. ASSUME NEW r \in Requests, Resolve(r) PROVE TypeOK'
  <2>1. /\ [req[r] EXCEPT !.stage = "scanning"] \in Request
       /\ [req[r] EXCEPT !.stage = "preflight"] \in Request
    BY DEF Request
  <2>2. req' \in [Requests -> Request]
    BY <1>3, <2>1 DEF Resolve, TypeOK
  <2> QED
    BY <1>3, <2>2, EngineType DEF Resolve, gateVars, TypeOK
<1>4. ASSUME NEW r \in Requests, RuleHold(r) PROVE TypeOK'
  <2>1. gate' \in Nat
    BY <1>4 DEF RuleHold, ResolveEngine, TypeOK
  <2>2. NewVerdict(r, TRUE, {}) \in Verdict
    BY DEF NewVerdict, Verdict
  <2>3. NothingPending \in [Credentials -> Nat \cup {NotPending}]
    BY DEF NothingPending
  <2>4. req' \in [Requests -> Request]
    <3>1. req' = Ruled(r, "held", NewVerdict(r, TRUE, {}), NothingPending)
      BY <1>4 DEF RuleHold
    <3> QED
      BY <2>1, <2>2, <2>3, <3>1, RuledType
  <2>5. pending' \in [Credentials -> Nat \cup {NotPending}]
    BY <1>4, PrunedType DEF RuleHold, WindowsAfterHold, TypeOK
  <2> QED
    BY <1>4, <2>1, <2>2, <2>3, <2>4, <2>5 DEF RuleHold, ResolveEngine, TypeOK
<1>5. ASSUME NEW r \in Requests, RuleAdmit(r) PROVE TypeOK'
  <2>1. gate' \in Nat
    BY <1>5 DEF RuleAdmit, ResolveEngine, TypeOK
  <2>2. NewVerdict(r, FALSE, {}) \in Verdict
    BY DEF NewVerdict, Verdict
  <2>3. NothingPending \in [Credentials -> Nat \cup {NotPending}]
    BY DEF NothingPending
  <2>4. req' \in [Requests -> Request]
    BY <1>5, <2>1, <2>2, <2>3, RuledType DEF RuleAdmit
  <2> QED
    BY <1>5, PrunedType, <2>1, <2>2, <2>3, <2>4 DEF RuleAdmit, ResolveEngine, TypeOK
<1>6. ASSUME NEW r \in Requests, RuleConfirm(r) PROVE TypeOK'
  <2> DEFINE confirmed == Unapproved(Creds(r))
             b == [c \in Credentials |-> IF c \in confirmed THEN Pruned[c]
                                                       ELSE NotPending]
  <2>1. gate' \in Nat
    BY <1>6 DEF RuleConfirm, ResolveEngine, TypeOK
  <2>2. confirmed \in SUBSET Credentials
    BY DEF Unapproved, Creds, TypeOK, Request
  <2>3. NewVerdict(r, FALSE, confirmed) \in Verdict
    BY <2>2 DEF NewVerdict, Verdict
  <2>4. b \in [Credentials -> Nat \cup {NotPending}]
    BY PrunedType
  <2>5. req' = Ruled(r, "scanning", NewVerdict(r, FALSE, confirmed), b)
    BY <1>6 DEF RuleConfirm
  <2>6. req' \in [Requests -> Request]
    BY <2>1, <2>3, <2>4, <2>5, RuledType
  <2>7. pending' \in [Credentials -> Nat \cup {NotPending}]
    BY <1>6, PrunedType DEF RuleConfirm, WindowsAfterConfirmation
  <2> QED
    BY <1>6, <2>2, <2>3, <2>6, <2>7, EngineType DEF RuleConfirm, TypeOK, Request
<1>7. ASSUME NEW r \in Requests, Replay(r) PROVE TypeOK'
  <2>1. gate' \in Nat
    BY <1>7 DEF Replay, ResolveEngine, TypeOK
  <2>2. deliveries[req[r].key] \in Verdict \cup {NoVerdict}
    BY DEF TypeOK, Request
  <2>3. NothingPending \in [Credentials -> Nat \cup {NotPending}]
    BY DEF NothingPending
  <2>4. req' \in [Requests -> Request]
    BY <1>7, <2>1, <2>2, <2>3, RuledType DEF Replay
  <2> QED
    BY <1>7, <2>1, <2>2, <2>3, <2>4 DEF Replay, ResolveEngine, gateVars, TypeOK
<1>8. ASSUME NEW r \in Requests, RuleTemporary(r) PROVE TypeOK'
  <2>1. \A s \in FinalStages :
           [req[r] EXCEPT !.stage = s, !.decidedAt = now] \in Request
    BY DEF TypeOK, Request
  <2> QED
    BY <1>8, <2>1 DEF RuleTemporary, TemporaryEngine, gateVars, TypeOK
<1>9. ASSUME NEW r \in Requests, PreflightFails(r) PROVE TypeOK'
  <2>1. [req[r] EXCEPT !.stage = "failed"] \in Request
    BY DEF Request
  <2> QED
    BY <1>9, <2>1, EngineType DEF PreflightFails, gateVars, TypeOK
<1>10. ASSUME NEW r \in Requests, Observe(r) PROVE TypeOK'
  <2> DEFINE n == IF Creds(r) # {} /\ Live(r) THEN req[r].verdict.confirmed
                                             ELSE {}
  <2>2. n \in SUBSET Credentials
    <3>1. ASSUME Creds(r) # {} PROVE req[r].verdict \in Verdict
      BY <1>10, <3>1 DEF Observe, RuledBeforeScan, Request
    <3> QED
      BY <3>1 DEF Verdict
  <2>3. [req[r] EXCEPT !.stage = "admitted", !.notice = n] \in Request
    BY <2>2 DEF Request
  <2>4. req' \in [Requests -> Request]
    BY <1>10, <2>3 DEF Observe, TypeOK
  <2>5. /\ allowed' \in SUBSET Credentials
        /\ pending' \in [Credentials -> Nat \cup {NotPending}]
        /\ deliveries' \in [DeliveryKeys -> Verdict \cup {NoVerdict}]
        /\ reserved' \in [DeliveryKeys -> SUBSET Credentials]
    BY <1>10 DEF Observe, FinishRecorded, StopsWaiting, gateVars, TypeOK, Request
  <2> QED
    BY <1>10, <2>4, <2>5, EngineType DEF Observe, TypeOK
<1>11. ASSUME NEW r \in Requests, ObserveFails(r) PROVE TypeOK'
  <2>1. [req[r] EXCEPT !.stage = "failed"] \in Request
    BY DEF Request
  <2> QED
    BY <1>11, <2>1, EngineType DEF ObserveFails, FinishFailed, gateVars, TypeOK
<1>12. CASE SessionStart
  BY <1>12 DEF SessionStart, ResolveEngine, gateVars, TypeOK
<1>13. CASE SessionEnd
  BY <1>13 DEF SessionEnd, DiscardIdentity, NothingPending, NoDeliveries,
               NoReservations, TypeOK
<1>14. CASE DaemonDies
  <2>1. \A r \in Requests : [req[r] EXCEPT !.stage = "failed"] \in Request
    BY DEF Request
  <2>2. req' \in [Requests -> Request]
    BY <1>14, <2>1 DEF DaemonDies
  <2> QED
    BY <1>14, <2>2 DEF DaemonDies, DiscardIdentity, NothingPending,
                       NoDeliveries, NoReservations, TypeOK
<1>15. CASE Tick
  BY <1>15 DEF Tick, gateVars, TypeOK
<1> QED
  BY <1>1, <1>2, <1>3, <1>4, <1>5, <1>6, <1>7, <1>8, <1>9, <1>10, <1>11, <1>12,
     <1>13, <1>14, <1>15 DEF Next, Handle, Decide

-----------------------------------------------------------------------------
\* One thread's step: it concerns one live request and leaves the delivery
\* it belongs to, and every other request, alone.
LEMMA ThreadStep ==
    ASSUME TypeOK, NEW r \in Requests, Submit(r) \/ Handle(r)
    PROVE  /\ prompt' = prompt /\ now' = now
           /\ req[r].stage \notin FinalStages
           /\ req'[r].key = req[r].key
           /\ \A h \in Requests \ {r} : req'[h] = req[h]
<1> USE DEF LiveStages, FinalStages
<1> \A h \in Requests : req[h] \in Request
  BY DEF TypeOK
<1>1. CASE Submit(r)
  BY <1>1 DEF Submit, TypeOK, Request
<1>2. CASE Resolve(r)
  BY <1>2 DEF Resolve, TypeOK, Request
<1>3. CASE RuleHold(r)
  BY <1>3 DEF RuleHold, Ruled, TypeOK, Request
<1>4. CASE RuleAdmit(r)
  BY <1>4 DEF RuleAdmit, Ruled, TypeOK, Request
<1>5. CASE RuleConfirm(r)
  BY <1>5 DEF RuleConfirm, Ruled, TypeOK, Request
<1>6. CASE Replay(r)
  BY <1>6 DEF Replay, Ruled, TypeOK, Request
<1>7. CASE RuleTemporary(r)
  BY <1>7 DEF RuleTemporary, TypeOK, Request
<1>8. CASE PreflightFails(r)
  BY <1>8 DEF PreflightFails, TypeOK, Request
<1>9. CASE Observe(r)
  BY <1>9 DEF Observe, TypeOK, Request
<1>10. CASE ObserveFails(r)
  BY <1>10 DEF ObserveFails, TypeOK, Request
<1> QED
  BY <1>1, <1>2, <1>3, <1>4, <1>5, <1>6, <1>7, <1>8, <1>9, <1>10 DEF Handle, Decide

\* The other steps move no request, except that a death fails the live ones.
LEMMA OtherStep ==
    ASSUME TypeOK, SessionStart \/ SessionEnd \/ DaemonDies \/ Tick \/ UNCHANGED vars
    PROVE  /\ prompt' = prompt /\ now <= now'
           /\ \A h \in Requests :
                 \/ req'[h] = req[h]
                 \/ /\ req[h].stage \in LiveStages
                    /\ req'[h] = [req[h] EXCEPT !.stage = "failed"]
  BY DEF SessionStart, SessionEnd, DaemonDies, Tick, vars, TypeOK

\* An answer, once given, is never changed, and the clock never goes back.
LEMMA AnswersStay ==
    ASSUME TypeOK, [Next]_vars
    PROVE  /\ prompt' = prompt /\ now <= now'
           /\ \A h \in Requests :
                 /\ req'[h].key = req[h].key
                 /\ req[h].stage \in FinalStages => req'[h] = req[h]
<1>1. ASSUME NEW r \in Requests, Submit(r) \/ Handle(r)
      PROVE  /\ prompt' = prompt /\ now <= now'
             /\ \A h \in Requests :
                   /\ req'[h].key = req[h].key
                   /\ req[h].stage \in FinalStages => req'[h] = req[h]
  BY <1>1, ThreadStep DEF TypeOK
<1>2. ASSUME SessionStart \/ SessionEnd \/ DaemonDies \/ Tick \/ UNCHANGED vars
      PROVE  /\ prompt' = prompt /\ now <= now'
             /\ \A h \in Requests :
                   /\ req'[h].key = req[h].key
                   /\ req[h].stage \in FinalStages => req'[h] = req[h]
  BY <1>2, OtherStep DEF TypeOK, Request, LiveStages, FinalStages
<1> QED
  BY <1>1, <1>2 DEF Next

LEMMA StepRuled ==
    ASSUME TypeOK, RuledBeforeScan, [Next]_vars
    PROVE  RuledBeforeScan'
<1> USE DEF LiveStages, FinalStages, RuledBeforeScan, Creds
<1> \A h \in Requests : req[h] \in Request
  BY DEF TypeOK
<1>1. ASSUME NEW r \in Requests, Submit(r) \/ Handle(r) PROVE RuledBeforeScan'
  <2>1. req'[r].stage = "scanning" /\ Creds(r) # {} => req'[r].verdict # NoVerdict
    <3>1. CASE Submit(r)
      BY <3>1 DEF Submit, TypeOK, Request
    <3>2. CASE Resolve(r)
      BY <3>2 DEF Resolve, TypeOK, Request
    <3>3. ASSUME NEW h \in BOOLEAN, NEW c \in SUBSET Credentials
          PROVE  NewVerdict(r, h, c) # NoVerdict
      BY VerdictAssumption DEF NewVerdict
    <3>4. CASE RuleHold(r)
      BY <3>4, <3>3 DEF RuleHold, Ruled, TypeOK, Request
    <3>5. CASE RuleAdmit(r)
      BY <3>5, <3>3 DEF RuleAdmit, Ruled, TypeOK, Request
    <3>6. CASE RuleConfirm(r)
      <4>1. Unapproved(Creds(r)) \in SUBSET Credentials
        BY DEF Unapproved, TypeOK, Request
      <4> QED
        BY <3>6, <3>3, <4>1 DEF RuleConfirm, Ruled, TypeOK, Request
    <3>7. CASE Replay(r)
      BY <3>7 DEF Replay, Ruled, TypeOK, Request
    <3>8. CASE RuleTemporary(r)
      BY <3>8 DEF RuleTemporary, TypeOK, Request
    <3>9. CASE PreflightFails(r)
      BY <3>9 DEF PreflightFails, TypeOK, Request
    <3>10. CASE Observe(r)
      BY <3>10 DEF Observe, TypeOK, Request
    <3>11. CASE ObserveFails(r)
      BY <3>11 DEF ObserveFails, TypeOK, Request
    <3> QED
      BY <1>1, <3>1, <3>2, <3>4, <3>5, <3>6, <3>7, <3>8, <3>9, <3>10, <3>11
         DEF Handle, Decide
  <2> QED
    BY <1>1, <2>1, ThreadStep
<1>2. ASSUME SessionStart \/ SessionEnd \/ DaemonDies \/ Tick \/ UNCHANGED vars
      PROVE  RuledBeforeScan'
  <2> SUFFICES ASSUME NEW h \in Requests
               PROVE  (req[h].stage = "scanning" /\ Creds(h) # {}
                         => req[h].verdict # NoVerdict)'
    OBVIOUS
  <2>1. CASE req'[h] = req[h]
    BY <1>2, <2>1, OtherStep
  <2>2. CASE req'[h] = [req[h] EXCEPT !.stage = "failed"]
    BY <2>2 DEF Request
  <2> QED
    BY <1>2, <2>1, <2>2, OtherStep
<1> QED
  BY <1>1, <1>2 DEF Next

\* The type invariant, which a step keeps only because no prompt with a
\* credential is scanned before the gate has ruled: the answer of lock 3 reads
\* the verdict of lock 2.
THEOREM TypeCorrect == Spec => []TypeOK
<1>1. Init => TypeOK /\ RuledBeforeScan
  BY InitType DEF Init, RuledBeforeScan
<1>2. TypeOK /\ RuledBeforeScan /\ [Next]_vars => (TypeOK /\ RuledBeforeScan)'
  BY StepType, StepRuled
<1> QED
  BY <1>1, <1>2, PTL DEF Spec

-----------------------------------------------------------------------------
\* How a step may change the engine and its gate

\* Gates are numbered in the order they are registered, and a request was
\* ruled on by one of them, at a time that has come.
InOrder == /\ registered => gate > 0
           /\ \A r \in Requests : req[r].gate <= gate /\ req[r].at <= now

LEMMA EngineStep ==
    ASSUME TypeOK, InOrder, [Next]_vars
    PROVE  /\ gate <= gate'
           /\ registered => gate' = gate
           /\ registered' => gate' > 0
<1> USE DEF InOrder, TypeOK
<1>1. CASE ResolveEngine \/ TemporaryEngine
  BY <1>1 DEF ResolveEngine, TemporaryEngine
<1>2. CASE UNCHANGED <<ended, registered, gate>>
  BY <1>2
<1>3. CASE SessionEnd \/ DaemonDies
  BY <1>3 DEF SessionEnd, DaemonDies, DiscardIdentity
<1>4. [Next]_vars => \/ ResolveEngine \/ TemporaryEngine
                    \/ UNCHANGED <<ended, registered, gate>>
                    \/ SessionEnd \/ DaemonDies
  BY DEF Next, Handle, Decide, vars, Submit, Resolve, RuleHold, RuleAdmit,
         RuleConfirm, Replay, RuleTemporary, PreflightFails, Observe,
         ObserveFails, SessionStart, Tick
<1> QED
  BY <1>1, <1>2, <1>3, <1>4

\* A window is kept, closed, or opened now by a hold of this step; a verdict
\* is kept, forgotten or given by a ruling of this step; a reservation is
\* kept, ended or made by a confirmation of this step; and a credential that
\* becomes reusable was reserved.
PendingMoves(c) ==
    \/ pending'[c] \in {pending[c], NotPending}
    \/ \E r \in Requests : RuleHold(r) /\ c \in Creds(r) /\ pending'[c] = now
DeliveryMoves(k) ==
    \/ deliveries'[k] \in {deliveries[k], NoVerdict}
    \/ \E r \in Requests : req[r].key = k /\ (RuleAdmit(r) \/ RuleConfirm(r))
    \/ deliveries'[k].hold
ReservationMoves(k) ==
    \/ reserved'[k] \subseteq reserved[k]
    \/ \E r \in Requests : /\ req[r].key = k /\ RuleConfirm(r)
                           /\ reserved'[k] = Unapproved(Creds(r))
AllowedMoves(c) ==
    c \in allowed' => c \in allowed \/ \E k \in DeliveryKeys : c \in reserved[k]

GateMoves == /\ \A c \in Credentials : PendingMoves(c) /\ AllowedMoves(c)
             /\ \A k \in DeliveryKeys : DeliveryMoves(k) /\ ReservationMoves(k)

LEMMA GateStep == ASSUME TypeOK, [Next]_vars PROVE GateMoves
<1> USE DEF GateMoves
<1> \A r \in Requests : req[r] \in Request /\ req[r].key \in DeliveryKeys
  BY DEF TypeOK, Request
<1>1. CASE UNCHANGED gateVars
  BY <1>1 DEF gateVars, PendingMoves, DeliveryMoves, ReservationMoves, AllowedMoves
<1>2. CASE DiscardIdentity
  BY <1>2 DEF DiscardIdentity, NothingPending, NoDeliveries, NoReservations,
       PendingMoves, DeliveryMoves, ReservationMoves, AllowedMoves, TypeOK
<1>3. ASSUME NEW r \in Requests, RuleHold(r) PROVE GateMoves
  <2>1. \A c \in Credentials : PendingMoves(c)
    BY <1>3 DEF RuleHold, WindowsAfterHold, Pruned, Unapproved, PendingMoves
  <2>2. \A k \in DeliveryKeys : DeliveryMoves(k)
    BY <1>3 DEF RuleHold, NewVerdict, DeliveryMoves, TypeOK
  <2> QED
    BY <1>3, <2>1, <2>2 DEF RuleHold, ReservationMoves, AllowedMoves
<1>4. ASSUME NEW r \in Requests, RuleAdmit(r) PROVE GateMoves
  <2>1. \A c \in Credentials : PendingMoves(c)
    BY <1>4 DEF RuleAdmit, Pruned, PendingMoves
  <2>2. \A k \in DeliveryKeys : DeliveryMoves(k)
    BY <1>4 DEF RuleAdmit, DeliveryMoves, TypeOK
  <2> QED
    BY <1>4, <2>1, <2>2 DEF RuleAdmit, ReservationMoves, AllowedMoves
<1>5. ASSUME NEW r \in Requests, RuleConfirm(r) PROVE GateMoves
  <2>1. \A c \in Credentials : PendingMoves(c)
    BY <1>5 DEF RuleConfirm, WindowsAfterConfirmation, Pruned, PendingMoves
  <2>2. \A k \in DeliveryKeys : DeliveryMoves(k)
    BY <1>5 DEF RuleConfirm, DeliveryMoves, TypeOK
  <2>3. \A k \in DeliveryKeys : ReservationMoves(k)
    BY <1>5 DEF RuleConfirm, ReservationMoves, TypeOK
  <2> QED
    BY <1>5, <2>1, <2>2, <2>3 DEF RuleConfirm, AllowedMoves
<1>6. ASSUME NEW r \in Requests, FinishRecorded(r) PROVE GateMoves
  <2>1. CASE Live(r)
    BY <1>6, <2>1 DEF FinishRecorded, StopsWaiting, TypeOK,
         PendingMoves, DeliveryMoves, ReservationMoves, AllowedMoves
  <2> QED
    BY <1>1, <1>6, <2>1 DEF FinishRecorded
<1>7. ASSUME NEW r \in Requests, FinishFailed(r) PROVE GateMoves
  <2>1. CASE UNCHANGED <<pending, allowed>>
    BY <1>7, <2>1 DEF FinishFailed, gateVars, TypeOK,
         PendingMoves, DeliveryMoves, ReservationMoves, AllowedMoves
  <2> QED
    BY <1>1, <1>7, <2>1 DEF FinishFailed
<1>8. [Next]_vars =>
        \/ UNCHANGED gateVars \/ DiscardIdentity
        \/ \E r \in Requests : \/ RuleHold(r) \/ RuleAdmit(r) \/ RuleConfirm(r)
                               \/ FinishRecorded(r) \/ FinishFailed(r)
  BY DEF Next, Handle, Decide, vars, gateVars, Submit, Resolve, Replay,
         RuleTemporary, PreflightFails, Observe, ObserveFails, SessionStart,
         SessionEnd, DaemonDies, Tick
<1> QED
  BY <1>1, <1>2, <1>3, <1>4, <1>5, <1>6, <1>7, <1>8

-----------------------------------------------------------------------------
\* The inductive invariant behind AdmittedOnlyAfterWarning

\* The user was answered, on gate g and at least MinGap before t, with a block
\* that names c.
WarnedOn(g, c, t) ==
    \E h \in Requests : /\ Blocked(h) /\ req[h].gate = g
                        /\ c \in Creds(h)
                        /\ req[h].decidedAt + MinGap <= t

\* An open window is the window of a block the user was answered with.
PendingWasHeld ==
    \A c \in Credentials : pending[c] # NotPending =>
        \E h \in Requests : /\ Blocked(h) /\ req[h].gate = gate
                            /\ c \in Creds(h)
                            /\ req[h].decidedAt = pending[c]

\* Whatever the gate lets through, or will let through, was warned about.
PassedWasWarned ==
    /\ \A k \in DeliveryKeys :
          deliveries[k] # NoVerdict /\ ~deliveries[k].hold =>
              \A c \in prompt[k] : WarnedOn(gate, c, now)
    /\ \A k \in DeliveryKeys : \A c \in reserved[k] : WarnedOn(gate, c, now)
    /\ \A c \in allowed : WarnedOn(gate, c, now)

GateInv == /\ TypeOK /\ RuledBeforeScan /\ InOrder /\ DiscardedGateStaysEmpty
           /\ PendingWasHeld /\ PassedWasWarned /\ AdmittedOnlyAfterWarning

LEMMA InitGate == Init => GateInv
  BY InitType, GapAssumption DEF Init, GateInv, RuledBeforeScan, InOrder,
     DiscardedGateStaysEmpty, PendingWasHeld, PassedWasWarned, TypeOK, Request,
     AdmittedOnlyAfterWarning, NothingPending, NoDeliveries, NoReservations

LEMMA StepInOrder ==
    ASSUME TypeOK, RuledBeforeScan, InOrder, [Next]_vars
    PROVE  InOrder'
<1> USE DEF LiveStages, FinalStages
<1> gate' \in Nat /\ now' \in Nat
  BY StepType DEF TypeOK
<1> \A h \in Requests : req[h] \in Request
  BY DEF TypeOK
<1>1. ASSUME NEW r \in Requests, Submit(r) \/ Handle(r)
      PROVE  req'[r].gate <= gate' /\ req'[r].at <= now'
  <2>1. CASE Submit(r)
    BY <2>1 DEF Submit, InOrder, TypeOK, Request
  <2>2. CASE Resolve(r)
    BY <2>2, EngineStep DEF Resolve, InOrder, TypeOK, Request
  <2>3. CASE RuleHold(r)
    BY <2>3, EngineStep DEF RuleHold, Ruled, ResolveEngine, InOrder, TypeOK, Request
  <2>4. CASE RuleAdmit(r)
    BY <2>4, EngineStep DEF RuleAdmit, Ruled, ResolveEngine, InOrder, TypeOK, Request
  <2>5. CASE RuleConfirm(r)
    BY <2>5, EngineStep DEF RuleConfirm, Ruled, ResolveEngine, InOrder, TypeOK, Request
  <2>6. CASE Replay(r)
    BY <2>6, EngineStep DEF Replay, Ruled, ResolveEngine, InOrder, TypeOK, Request
  <2>7. CASE RuleTemporary(r)
    BY <2>7, EngineStep DEF RuleTemporary, InOrder, TypeOK, Request
  <2>8. CASE PreflightFails(r)
    BY <2>8, EngineStep DEF PreflightFails, InOrder, TypeOK, Request
  <2>9. CASE Observe(r)
    BY <2>9, EngineStep DEF Observe, InOrder, TypeOK, Request
  <2>10. CASE ObserveFails(r)
    BY <2>10, EngineStep DEF ObserveFails, InOrder, TypeOK, Request
  <2> QED
    BY <1>1, <2>1, <2>2, <2>3, <2>4, <2>5, <2>6, <2>7, <2>8, <2>9, <2>10
       DEF Handle, Decide
<1>2. ASSUME NEW r \in Requests, Submit(r) \/ Handle(r) PROVE InOrder'
  <2>1. gate <= gate' /\ (registered' => gate' > 0) /\ now' = now
    BY <1>2, ThreadStep, EngineStep
  <2>2. \A h \in Requests : req[h].gate \in Nat /\ req[h].gate <= gate /\ req[h].at <= now
    BY DEF InOrder, Request
  <2>3. gate \in Nat
    BY DEF TypeOK
  <2>4. \A h \in Requests \ {r} : req'[h] = req[h]
    BY <1>2, ThreadStep
  <2>5. \A h \in Requests \ {r} : req'[h].gate <= gate' /\ req'[h].at <= now'
    BY <2>1, <2>2, <2>3, <2>4
  <2> QED
    BY <1>1, <1>2, <2>1, <2>5 DEF InOrder
<1>3. ASSUME SessionStart \/ SessionEnd \/ DaemonDies \/ Tick \/ UNCHANGED vars
      PROVE  InOrder'
  <2>1. ASSUME NEW h \in Requests
        PROVE  req'[h].gate = req[h].gate /\ req'[h].at = req[h].at
    <3>1. CASE req'[h] = req[h]
      BY <3>1
    <3>2. CASE req'[h] = [req[h] EXCEPT !.stage = "failed"]
      BY <3>2 DEF Request
    <3> QED
      BY <1>3, <3>1, <3>2, OtherStep
  <2>2. now <= now' /\ gate <= gate' /\ (registered' => gate' > 0)
    BY <1>3, OtherStep, EngineStep
  <2>3. gate' \in Nat /\ now' \in Nat
    BY StepType DEF TypeOK
  <2>4. \A h \in Requests : req[h].gate \in Nat /\ req[h].at \in Nat
    BY DEF TypeOK, Request
  <2>5. gate \in Nat /\ now \in Nat
    BY DEF TypeOK
  <2> QED
    BY <2>1, <2>2, <2>3, <2>4, <2>5 DEF InOrder
<1> QED
  BY <1>2, <1>3 DEF Next

LEMMA StepDiscarded ==
    ASSUME TypeOK, RuledBeforeScan, DiscardedGateStaysEmpty, [Next]_vars
    PROVE  DiscardedGateStaysEmpty'
<1> USE DEF DiscardedGateStaysEmpty
<1>1. CASE registered'
  BY <1>1
<1>2. CASE DiscardIdentity
  BY <1>2 DEF DiscardIdentity, NothingPending, NoDeliveries, NoReservations
<1>3. CASE UNCHANGED <<registered, gateVars>>
  BY <1>3 DEF gateVars, NothingPending, NoDeliveries, NoReservations
<1>4. ASSUME NEW r \in Requests, ~registered, registered' = registered,
             req[r].stage = "scanning", Creds(r) # {},
             FinishRecorded(r) \/ FinishFailed(r)
      PROVE  UNCHANGED gateVars
  <2>1. deliveries[req[r].key] = NoVerdict
    BY <1>4 DEF NoDeliveries, TypeOK, Request
  <2>2. ~Live(r)
    BY <1>4, <2>1 DEF Live, RuledBeforeScan
  <2> QED
    BY <1>4, <2>2 DEF FinishRecorded, FinishFailed
<1>5. ASSUME NEW r \in Requests, Observe(r) \/ ObserveFails(r)
      PROVE  DiscardedGateStaysEmpty'
  <2>1. registered' = registered \/ registered'
    BY <1>5 DEF Observe, ObserveFails, ResolveEngine, TemporaryEngine
  <2>2. CASE ~registered /\ registered' = registered
    BY <1>3, <1>4, <1>5, <2>2 DEF Observe, ObserveFails
  <2>3. CASE registered /\ registered' = registered
    BY <2>3
  <2> QED
    BY <1>1, <2>1, <2>2, <2>3
<1>6. [Next]_vars => \/ registered' \/ DiscardIdentity
                    \/ UNCHANGED <<registered, gateVars>>
                    \/ \E r \in Requests : Observe(r) \/ ObserveFails(r)
  BY DEF Next, Handle, Decide, vars, gateVars, Submit, Resolve, RuleHold,
         RuleAdmit, RuleConfirm, Replay, RuleTemporary, PreflightFails,
         ResolveEngine, TemporaryEngine, SessionStart, SessionEnd, DaemonDies, Tick
<1> QED
  BY <1>1, <1>2, <1>3, <1>5, <1>6

LEMMA BlockedStays ==
    ASSUME TypeOK, [Next]_vars, NEW h \in Requests, Blocked(h)
    PROVE  Blocked(h)' /\ req'[h] = req[h] /\ Creds(h)' = Creds(h)
  BY AnswersStay DEF Blocked, Creds, FinalStages

LEMMA WarnedStays ==
    ASSUME GateInv, [Next]_vars, NEW g \in Nat, NEW c \in Credentials,
           WarnedOn(g, c, now)
    PROVE  \E h \in Requests : /\ Blocked(h)' /\ req'[h].gate = g
                              /\ c \in Creds(h)'
                              /\ req'[h].decidedAt + MinGap <= now'
<1> TypeOK /\ now' \in Int
  BY StepType DEF GateInv, TypeOK
<1>1. PICK h \in Requests : /\ Blocked(h) /\ req[h].gate = g /\ c \in Creds(h)
                            /\ req[h].decidedAt + MinGap <= now
  BY DEF WarnedOn
<1>2. now <= now' /\ now \in Int /\ req[h].decidedAt \in Int
  BY AnswersStay DEF TypeOK, Request
<1> QED
  BY <1>1, <1>2, BlockedStays, GapAssumption

\* A hold answers its request with a block on the gate it was ruled by.
LEMMA HoldBlocks ==
    ASSUME TypeOK, InOrder, [Next]_vars, NEW r \in Requests, RuleHold(r)
    PROVE  Blocked(r)' /\ req'[r].gate = gate' /\ req'[r].decidedAt = now
  BY EngineStep DEF RuleHold, Ruled, ResolveEngine, Blocked, TypeOK, Request

LEMMA StepPending ==
    ASSUME GateInv, [Next]_vars
    PROVE  PendingWasHeld'
<1> TypeOK /\ InOrder
  BY DEF GateInv
<1> SUFFICES ASSUME NEW c \in Credentials, pending'[c] # NotPending
             PROVE  \E h \in Requests : /\ Blocked(h)' /\ req'[h].gate = gate'
                                       /\ c \in Creds(h)'
                                       /\ req'[h].decidedAt = pending'[c]
  BY DEF PendingWasHeld
<1>1. CASE pending'[c] = pending[c]
  <2>1. registered
    BY <1>1 DEF GateInv, DiscardedGateStaysEmpty, NothingPending
  <2>2. PICK h \in Requests : /\ Blocked(h) /\ req[h].gate = gate
                              /\ c \in Creds(h) /\ req[h].decidedAt = pending[c]
    BY <1>1 DEF GateInv, PendingWasHeld
  <2> QED
    BY <1>1, <2>1, <2>2, BlockedStays, EngineStep
<1>2. ASSUME NEW r \in Requests, RuleHold(r), c \in Creds(r), pending'[c] = now
      PROVE  /\ Blocked(r)' /\ req'[r].gate = gate'
             /\ c \in Creds(r)' /\ req'[r].decidedAt = pending'[c]
  BY <1>2, HoldBlocks, AnswersStay DEF Creds
<1> QED
  BY <1>1, <1>2, GateStep DEF GateMoves, PendingMoves

\* What the gate stood by before the step it still stands by: it can only be
\* the same gate.
LEMMA PassedStays ==
    ASSUME GateInv, [Next]_vars, NEW c \in Credentials, WarnedOn(gate, c, now),
           registered
    PROVE  WarnedOn(gate, c, now)'
<1>1. gate' = gate /\ gate \in Nat
  BY EngineStep DEF GateInv, TypeOK
<1> QED
  BY <1>1, WarnedStays DEF WarnedOn, GateInv

\* What a ruling lets through now has had its warning.
LEMMA RulingWarned ==
    ASSUME GateInv, NEW r \in Requests, RuleAdmit(r) \/ RuleConfirm(r),
           NEW c \in Creds(r)
    PROVE  registered /\ c \in Credentials /\ WarnedOn(gate, c, now)
<1> TypeOK /\ req[r] \in Request /\ c \in Credentials
  BY DEF GateInv, TypeOK, Creds, Request
<1>1. CASE c \in allowed
  BY <1>1 DEF GateInv, DiscardedGateStaysEmpty, PassedWasWarned
<1>2. CASE c \notin allowed
  <2>1. RuleConfirm(r) /\ c \in Unapproved(Creds(r))
    BY <1>2 DEF RuleAdmit, Unapproved
  <2>2. Pruned[c] # NotPending /\ ~(req[r].at < Pruned[c] + MinGap)
    BY <2>1 DEF RuleConfirm, Holds, NewlySeen, TooSoon
  <2>3. pending[c] # NotPending /\ ~(req[r].at < pending[c] + MinGap)
    BY <2>2 DEF Pruned
  <2>4. PICK h \in Requests : /\ Blocked(h) /\ req[h].gate = gate
                              /\ c \in Creds(h) /\ req[h].decidedAt = pending[c]
    BY <2>3 DEF GateInv, PendingWasHeld
  <2>5. /\ req[r].at \in Nat /\ now \in Nat /\ pending[c] \in Nat
        /\ req[r].at <= now /\ MinGap \in Nat
    BY <2>3, GapAssumption DEF GateInv, TypeOK, Request, InOrder
  <2>6. req[h].decidedAt + MinGap <= now
    BY <2>3, <2>4, <2>5
  <2>7. registered
    BY <2>3 DEF GateInv, DiscardedGateStaysEmpty, NothingPending
  <2> QED
    BY <2>4, <2>6, <2>7 DEF WarnedOn
<1> QED
  BY <1>1, <1>2

LEMMA StepPassed ==
    ASSUME GateInv, [Next]_vars
    PROVE  PassedWasWarned'
<1> TypeOK /\ InOrder
  BY DEF GateInv
<1>1. \A k \in DeliveryKeys : deliveries'[k] # NoVerdict /\ ~deliveries'[k].hold
        => \A c \in prompt'[k] : WarnedOn(gate, c, now)'
  <2> SUFFICES ASSUME NEW k \in DeliveryKeys, deliveries'[k] # NoVerdict,
                      ~deliveries'[k].hold, NEW c \in prompt[k]
               PROVE  WarnedOn(gate, c, now)'
    BY AnswersStay
  <2>1. CASE deliveries'[k] = deliveries[k]
    <3>1. registered
      BY <2>1 DEF GateInv, DiscardedGateStaysEmpty, NoDeliveries
    <3>2. WarnedOn(gate, c, now)
      BY <2>1 DEF GateInv, PassedWasWarned
    <3>3. c \in Credentials
      BY DEF TypeOK
    <3> QED
      BY <3>1, <3>2, <3>3, PassedStays
  <2>2. ASSUME NEW r \in Requests, req[r].key = k, RuleAdmit(r) \/ RuleConfirm(r)
        PROVE  WarnedOn(gate, c, now)'
    <3>1. c \in Creds(r)
      BY <2>2 DEF Creds
    <3> QED
      BY <2>2, <3>1, RulingWarned, PassedStays
  <2> QED
    BY <2>1, <2>2, GateStep DEF GateMoves, DeliveryMoves
<1>2. \A k \in DeliveryKeys : \A c \in reserved'[k] : WarnedOn(gate, c, now)'
  <2> SUFFICES ASSUME NEW k \in DeliveryKeys, NEW c \in reserved'[k]
               PROVE  WarnedOn(gate, c, now)'
    OBVIOUS
  <2>1. CASE c \in reserved[k]
    <3>1. registered /\ c \in Credentials /\ WarnedOn(gate, c, now)
      BY <2>1 DEF GateInv, DiscardedGateStaysEmpty, NoReservations, TypeOK,
                  PassedWasWarned
    <3> QED
      BY <3>1, PassedStays
  <2>2. ASSUME NEW r \in Requests, RuleConfirm(r), c \in Unapproved(Creds(r))
        PROVE  WarnedOn(gate, c, now)'
    BY <2>2, RulingWarned, PassedStays DEF Unapproved
  <2> QED
    BY <2>1, <2>2, GateStep DEF GateMoves, ReservationMoves
<1>3. \A c \in allowed' : WarnedOn(gate, c, now)'
  <2> SUFFICES ASSUME NEW c \in allowed' PROVE WarnedOn(gate, c, now)'
    OBVIOUS
  <2>1. c \in Credentials
    BY StepType DEF GateInv, TypeOK
  <2>2. CASE c \in allowed
    <3>1. registered /\ WarnedOn(gate, c, now)
      BY <2>2 DEF GateInv, DiscardedGateStaysEmpty, PassedWasWarned
    <3> QED
      BY <2>1, <3>1, PassedStays
  <2>3. ASSUME NEW k \in DeliveryKeys, c \in reserved[k]
        PROVE  WarnedOn(gate, c, now)'
    <3>1. registered /\ WarnedOn(gate, c, now)
      BY <2>3 DEF GateInv, DiscardedGateStaysEmpty, NoReservations, PassedWasWarned
    <3> QED
      BY <2>1, <3>1, PassedStays
  <2> QED
    BY <2>1, <2>2, <2>3, GateStep DEF GateMoves, AllowedMoves
<1> QED
  BY <1>1, <1>2, <1>3 DEF PassedWasWarned

\* The warning of a request that is being scanned or was admitted.
Warned(r) == req[r].stage \in {"scanning", "admitted"} =>
                \A c \in Creds(r) : WarnedOn(req[r].gate, c, req[r].decidedAt)

LEMMA WarnedIsProperty == AdmittedOnlyAfterWarning <=> \A r \in Requests : Warned(r)
  BY DEF AdmittedOnlyAfterWarning, Warned, WarnedOn

\* A request keeps its warning while its ruling is unchanged.
LEMMA WarnedKept ==
    ASSUME TypeOK, [Next]_vars, NEW r \in Requests, Warned(r),
           req[r].stage \in {"scanning", "admitted"},
           req'[r].gate = req[r].gate, req'[r].decidedAt = req[r].decidedAt
    PROVE  Warned(r)'
<1> SUFFICES ASSUME NEW c \in Creds(r)
             PROVE  WarnedOn(req[r].gate, c, req[r].decidedAt)'
  BY AnswersStay DEF Warned, Creds
<1>1. PICK h \in Requests : /\ Blocked(h) /\ req[h].gate = req[r].gate
                            /\ c \in Creds(h)
                            /\ req[h].decidedAt + MinGap <= req[r].decidedAt
  BY DEF Warned, WarnedOn
<1> QED
  BY <1>1, BlockedStays DEF WarnedOn

LEMMA StepWarned ==
    ASSUME GateInv, [Next]_vars
    PROVE  AdmittedOnlyAfterWarning'
<1> USE DEF LiveStages, FinalStages
<1> TypeOK /\ InOrder /\ \A r \in Requests : req[r] \in Request /\ Warned(r)
  BY WarnedIsProperty DEF GateInv, TypeOK
<1>1. ASSUME NEW r \in Requests, Submit(r) \/ Handle(r) PROVE Warned(r)'
  <2>1. CASE Submit(r) \/ PreflightFails(r) \/ ObserveFails(r)
    <3>1. Submit(r) => req'[r].stage = "arrived"
      BY DEF Submit, TypeOK, Request
    <3>2. PreflightFails(r) \/ ObserveFails(r) => req'[r].stage = "failed"
      BY DEF PreflightFails, ObserveFails, TypeOK, Request
    <3> QED
      BY <2>1, <3>1, <3>2 DEF Warned
  <2>2. CASE Resolve(r)
    <3>1. req'[r].stage = "scanning" => Creds(r)' = {}
      BY <2>2 DEF Resolve, Creds, TypeOK, Request
    <3>2. req'[r].stage \in {"scanning", "preflight"}
      BY <2>2 DEF Resolve, TypeOK, Request
    <3> QED
      BY <3>1, <3>2 DEF Warned
  <2>3. CASE RuleHold(r) \/ RuleTemporary(r)
    <3>1. RuleHold(r) => req'[r].stage = "held"
      BY DEF RuleHold, Ruled, TypeOK, Request
    <3>2. RuleTemporary(r) => req'[r].stage = "held"
      BY DEF RuleTemporary, TypeOK, Request
    <3> QED
      BY <2>3, <3>1, <3>2 DEF Warned
  <2>4. CASE RuleAdmit(r) \/ RuleConfirm(r)
    <3> SUFFICES ASSUME NEW c \in Creds(r)
                 PROVE  WarnedOn(req[r].gate, c, req[r].decidedAt)'
      BY <1>1, ThreadStep DEF Warned, Creds
    <3>1. registered /\ c \in Credentials /\ WarnedOn(gate, c, now)
      BY <2>4, RulingWarned
    <3>2. WarnedOn(gate, c, now)' /\ now' = now
      BY <3>1, <1>1, PassedStays, ThreadStep
    <3>3. req'[r].gate = gate' /\ req'[r].decidedAt = now
      <4>1. CASE RuleAdmit(r)
        BY <4>1 DEF RuleAdmit, Ruled, TypeOK, Request
      <4>2. CASE RuleConfirm(r)
        BY <4>2 DEF RuleConfirm, Ruled, TypeOK, Request
      <4> QED
        BY <2>4, <4>1, <4>2
    <3> QED
      BY <3>2, <3>3 DEF WarnedOn
  <2>5. CASE Replay(r)
    <3> SUFFICES ASSUME NEW c \in Creds(r), req'[r].stage = "scanning"
                 PROVE  WarnedOn(req[r].gate, c, req[r].decidedAt)'
      BY <2>5, <1>1, ThreadStep DEF Warned, Creds, Replay, Ruled, TypeOK, Request
    <3>1. deliveries[req[r].key] # NoVerdict /\ ~deliveries[req[r].key].hold
      BY <2>5 DEF Replay, Ruled, TypeOK, Request
    <3>2. registered
      BY <3>1 DEF GateInv, DiscardedGateStaysEmpty, NoDeliveries, Request
    <3>3. c \in Credentials /\ WarnedOn(gate, c, now)
      BY <3>1 DEF GateInv, PassedWasWarned, Creds, TypeOK, Request
    <3>4. WarnedOn(gate, c, now)' /\ now' = now
      BY <3>2, <3>3, <1>1, PassedStays, ThreadStep
    <3>5. req'[r].gate = gate' /\ req'[r].decidedAt = now
      BY <2>5 DEF Replay, Ruled, TypeOK, Request
    <3> QED
      BY <3>4, <3>5 DEF WarnedOn
  <2>6. CASE Observe(r)
    BY <2>6, WarnedKept DEF Observe, TypeOK, Request
  <2> QED
    BY <1>1, <2>1, <2>2, <2>3, <2>4, <2>5, <2>6 DEF Handle, Decide
<1>2. ASSUME NEW r \in Requests, req'[r] = req[r] PROVE Warned(r)'
  <2>1. CASE req[r].stage \in {"scanning", "admitted"}
    BY <1>2, <2>1, WarnedKept
  <2> QED
    BY <1>2, <2>1 DEF Warned
<1>3. ASSUME NEW r \in Requests, Submit(r) \/ Handle(r)
      PROVE  \A h \in Requests : Warned(h)'
  BY <1>1, <1>2, <1>3, ThreadStep
<1>4. ASSUME SessionStart \/ SessionEnd \/ DaemonDies \/ Tick \/ UNCHANGED vars
      PROVE  \A h \in Requests : Warned(h)'
  <2> SUFFICES ASSUME NEW h \in Requests PROVE Warned(h)'
    OBVIOUS
  <2>1. CASE req'[h] = [req[h] EXCEPT !.stage = "failed"]
    BY <2>1 DEF Warned, Request
  <2> QED
    BY <1>2, <1>4, <2>1, OtherStep
<1>5. \A r \in Requests : Warned(r)'
  BY <1>3, <1>4 DEF Next
<1> QED
  BY <1>5 DEF AdmittedOnlyAfterWarning, Warned, WarnedOn

LEMMA GateInvariant == Spec => []GateInv
<1>1. GateInv /\ [Next]_vars => GateInv'
  BY StepType, StepRuled, StepInOrder, StepDiscarded, StepPending, StepPassed,
     StepWarned DEF GateInv
<1> QED
  BY <1>1, InitGate, PTL DEF Spec

\* No prompt is scanned or admitted with a credential the user was not warned
\* about first, on the gate that let it through and at least MinGap before:
\* the promise of the whole hold, for every interleaving of deliveries,
\* replays, failures, session ends and restarts.
THEOREM WarnedBeforeAdmission == Spec => []AdmittedOnlyAfterWarning
  BY GateInvariant, PTL DEF GateInv

\* No late completion writes to a gate whose identity was discarded.
THEOREM DiscardedForGood == Spec => []DiscardedGateStaysEmpty
  BY GateInvariant, PTL DEF GateInv

-----------------------------------------------------------------------------
\* Confirmations: each rests on one hold, and is reusable once recorded.

\* A request that was not ruled on yet rests on no window.
Unruled == {"idle", "arrived", "preflight"}
UnruledIsBlank ==
    \A r \in Requests : req[r].stage \in Unruled => req[r].basis = NothingPending

\* A window that was consumed is over, and whichever is open for the
\* credential on the same gate is a later one.
ConsumedIsOver ==
    \A r \in Requests, c \in Credentials : req[r].basis[c] # NotPending =>
        /\ req[r].basis[c] < now
        /\ req[r].gate = gate /\ pending[c] # NotPending
             => req[r].basis[c] < pending[c]

\* Credential c was confirmed on the live gate by the ruling v.
ConfirmedBy(c, v) ==
    \E h, d \in Requests : /\ ConfirmsHold(d, h, c)
                           /\ req[d].verdict = v /\ req[d].gate = gate

\* What is reserved belongs to the stored verdict, which confirmed it.
ReservedWasConfirmed ==
    \A k \in DeliveryKeys : \A c \in reserved[k] :
        /\ deliveries[k] # NoVerdict
        /\ c \in prompt[k]
        /\ ConfirmedBy(c, deliveries[k])

ConfirmInv == /\ GateInv /\ UnruledIsBlank /\ ConsumedIsOver
              /\ OneHoldOneConfirmation /\ ReservedWasConfirmed
              /\ ReservationHasOwner /\ AllowedWasConfirmedAndRecorded

LEMMA InitConfirm == Init => ConfirmInv
<1> SUFFICES ASSUME Init PROVE ConfirmInv
  OBVIOUS
<1>1. GateInv
  BY InitGate
<1>2. \A r \in Requests : req[r].basis = NothingPending
  BY DEF Init
<1>3. allowed = {} /\ reserved = NoReservations
  BY DEF Init
<1> QED
  BY <1>1, <1>2, <1>3 DEF ConfirmInv, UnruledIsBlank, ConsumedIsOver,
     OneHoldOneConfirmation, ReservedWasConfirmed, ReservationHasOwner,
     AllowedWasConfirmedAndRecorded, NothingPending, NoReservations

\* Of a request that was ruled on, its ruling stays.
LEMMA RulingStays ==
    ASSUME TypeOK, [Next]_vars, NEW h \in Requests, req[h].stage \notin Unruled
    PROVE  /\ req'[h].stage \notin Unruled
           /\ req'[h].at = req[h].at /\ req'[h].decidedAt = req[h].decidedAt
           /\ req'[h].gate = req[h].gate /\ req'[h].verdict = req[h].verdict
           /\ req'[h].basis = req[h].basis
<1> USE DEF Unruled, LiveStages, FinalStages
<1>0. req \in [Requests -> Request] /\ req[h] \in Request
  BY DEF TypeOK
<1>1. CASE req'[h] = req[h]
  BY <1>1
<1>2. CASE req'[h] = [req[h] EXCEPT !.stage = "failed"]
  BY <1>0, <1>2 DEF Request
<1>3. CASE Observe(h)
  BY <1>0, <1>3 DEF Observe, Request
<1>4. CASE ObserveFails(h)
  BY <1>0, <1>4 DEF ObserveFails, Request
<1>5. ASSUME NEW r \in Requests, Submit(r) \/ Handle(r)
      PROVE  req'[h] = req[h] \/ Observe(h) \/ ObserveFails(h)
  <2>1. CASE h # r
    BY <1>5, <2>1, ThreadStep
  <2>2. CASE h = r
    BY <1>5, <2>2 DEF Submit, Handle, Resolve, Decide, RuleHold, RuleAdmit,
       RuleConfirm, Replay, RuleTemporary, PreflightFails
  <2> QED
    BY <2>1, <2>2
<1> QED
  BY <1>1, <1>2, <1>3, <1>4, <1>5, OtherStep DEF Next

\* A request that rests on a window did before the step, or confirms now.
LEMMA BasisStep ==
    ASSUME TypeOK, UnruledIsBlank, [Next]_vars, NEW h \in Requests
    PROVE  \/ req[h].stage \notin Unruled
           \/ req'[h].basis = NothingPending
           \/ /\ RuleConfirm(h)
              /\ req'[h].stage = "scanning" /\ req'[h].gate = gate'
              /\ req'[h].at = req[h].at /\ req'[h].decidedAt = now
              /\ req'[h].verdict = NewVerdict(h, FALSE, Unapproved(Creds(h)))
              /\ req'[h].basis = [c \in Credentials |->
                    IF c \in Unapproved(Creds(h)) THEN Pruned[c] ELSE NotPending]
<1> SUFFICES ASSUME req[h].stage \in Unruled
             PROVE  \/ req'[h].basis = NothingPending
                    \/ /\ RuleConfirm(h)
                       /\ req'[h].stage = "scanning" /\ req'[h].gate = gate'
                       /\ req'[h].at = req[h].at /\ req'[h].decidedAt = now
                       /\ req'[h].verdict = NewVerdict(h, FALSE, Unapproved(Creds(h)))
                       /\ req'[h].basis = [c \in Credentials |->
                             IF c \in Unapproved(Creds(h)) THEN Pruned[c] ELSE NotPending]
  OBVIOUS
<1>0. /\ req \in [Requests -> Request] /\ req[h] \in Request
      /\ req[h].basis = NothingPending
  BY DEF TypeOK, UnruledIsBlank
<1>1. CASE req'[h] = req[h] \/ req'[h] = [req[h] EXCEPT !.stage = "failed"]
  BY <1>0, <1>1 DEF Request
<1>2. CASE Submit(h)
  BY <1>0, <1>2 DEF Submit, Request
<1>3. CASE Resolve(h)
  BY <1>0, <1>3 DEF Resolve, Request
<1>4. CASE RuleHold(h)
  BY <1>0, <1>4 DEF RuleHold, Ruled, Request
<1>5. CASE RuleAdmit(h)
  BY <1>0, <1>5 DEF RuleAdmit, Ruled, Request
<1>6. CASE RuleConfirm(h)
  <2> DEFINE v == NewVerdict(h, FALSE, Unapproved(Creds(h)))
             b == [c \in Credentials |-> IF c \in Unapproved(Creds(h)) THEN Pruned[c]
                                                                ELSE NotPending]
  <2>1. req' = Ruled(h, "scanning", v, b)
    BY <1>6 DEF RuleConfirm
  <2> HIDE DEF v, b
  <2>2. /\ req'[h].stage = "scanning" /\ req'[h].gate = gate'
        /\ req'[h].at = req[h].at /\ req'[h].decidedAt = now
        /\ req'[h].verdict = v /\ req'[h].basis = b
    BY <1>0, <2>1 DEF Ruled, Request
  <2> QED
    BY <1>6, <2>2 DEF v, b
<1>7. CASE Replay(h)
  BY <1>0, <1>7 DEF Replay, Ruled, Request
<1>8. CASE RuleTemporary(h)
  BY <1>0, <1>8 DEF RuleTemporary, Request
<1>9. CASE PreflightFails(h)
  BY <1>0, <1>9 DEF PreflightFails, Request
<1>10. ~Observe(h) /\ ~ObserveFails(h)
  BY DEF Observe, ObserveFails, Unruled
<1>11. ASSUME NEW r \in Requests \ {h}, Submit(r) \/ Handle(r) PROVE req'[h] = req[h]
  BY <1>11, ThreadStep
<1> QED
  BY <1>1, <1>2, <1>3, <1>4, <1>5, <1>6, <1>7, <1>8, <1>9, <1>10, <1>11, OtherStep
     DEF Next, Handle, Decide

LEMMA StepBlank ==
    ASSUME TypeOK, UnruledIsBlank, [Next]_vars PROVE UnruledIsBlank'
<1> SUFFICES ASSUME NEW r \in Requests, req'[r].stage \in Unruled
             PROVE  req'[r].basis = NothingPending
  BY DEF UnruledIsBlank, NothingPending, Unruled
<1>1. req[r].stage \in Unruled
  BY RulingStays
<1>2. "scanning" \notin Unruled
  BY DEF Unruled
<1> QED
  BY <1>1, <1>2, BasisStep

\* What a confirmation rests on: an open window, waited for and not expired.
LEMMA ConfirmFacts ==
    ASSUME GateInv, NEW r \in Requests, RuleConfirm(r), NEW c \in Unapproved(Creds(r))
    PROVE  /\ registered /\ gate' = gate /\ c \in Credentials
           /\ pending[c] \in Nat /\ Pruned[c] = pending[c] /\ pending'[c] = NotPending
           /\ pending[c] + MinGap <= req[r].at /\ req[r].at <= now
           /\ now <= pending[c] + Window
           /\ pending[c] < now
<1>0. /\ TypeOK /\ InOrder /\ req[r] \in Request /\ c \in Credentials
      /\ Unapproved(Creds(r)) \subseteq Credentials
  BY DEF GateInv, TypeOK, Creds, Unapproved, Request
<1>1. Pruned[c] # NotPending /\ ~(req[r].at < Pruned[c] + MinGap)
  BY DEF RuleConfirm, Holds, NewlySeen, TooSoon
<1>2. pending[c] # NotPending /\ Pruned[c] = pending[c] /\ ~(now > pending[c] + Window)
  BY <1>0, <1>1 DEF Pruned
<1>3. registered
  BY <1>0, <1>2 DEF GateInv, DiscardedGateStaysEmpty, NothingPending
<1>4. gate' = gate
  BY <1>3 DEF RuleConfirm, ResolveEngine
<1>5. pending'[c] = NotPending
  BY <1>0 DEF RuleConfirm, WindowsAfterConfirmation
<1>6. /\ pending[c] \in Nat /\ now \in Nat /\ req[r].at \in Nat /\ req[r].at <= now
      /\ MinGap \in Nat \ {0} /\ Window \in Nat
  BY <1>0, <1>2, GapAssumption DEF TypeOK, Request, InOrder
<1>7. pending[c] + MinGap <= req[r].at /\ now <= pending[c] + Window
  BY <1>1, <1>2, <1>6
<1>8. pending[c] < now
  BY <1>6, <1>7
<1> QED
  BY <1>0, <1>2, <1>3, <1>4, <1>5, <1>6, <1>7, <1>8

\* A window that is open after the step was open before it, or opens now.
LEMMA WindowStep ==
    ASSUME GateInv, [Next]_vars, NEW c \in Credentials, pending'[c] # NotPending
    PROVE  \/ pending'[c] = pending[c] /\ gate' = gate
           \/ pending'[c] = now
<1> TypeOK /\ InOrder
  BY DEF GateInv
<1>1. CASE pending'[c] = pending[c]
  <2>1. registered
    BY <1>1 DEF GateInv, DiscardedGateStaysEmpty, NothingPending
  <2> QED
    BY <1>1, <2>1, EngineStep
<1> QED
  BY <1>1, GateStep DEF GateMoves, PendingMoves

LEMMA StepConsumed ==
    ASSUME GateInv, UnruledIsBlank, ConsumedIsOver, [Next]_vars
    PROVE  ConsumedIsOver'
<1> SUFFICES ASSUME NEW r \in Requests, NEW c \in Credentials,
                    req'[r].basis[c] # NotPending
             PROVE  /\ req'[r].basis[c] < now'
                    /\ req'[r].gate = gate' /\ pending'[c] # NotPending
                         => req'[r].basis[c] < pending'[c]
  BY DEF ConsumedIsOver
<1>0. /\ TypeOK /\ InOrder /\ now \in Nat /\ now' \in Nat /\ now <= now' /\ gate \in Nat
      /\ gate' \in Nat /\ gate <= gate' /\ req[r].gate \in Nat /\ req[r].gate <= gate
      /\ req[r].basis \in [Credentials -> Nat \cup {NotPending}]
  BY AnswersStay, EngineStep, StepType DEF GateInv, InOrder, TypeOK, Request
<1>1. CASE req[r].stage \notin Unruled
  <2>1. req'[r].basis = req[r].basis /\ req'[r].gate = req[r].gate
    BY <1>0, <1>1, RulingStays
  <2>2. /\ req[r].basis[c] < now /\ req[r].basis[c] \in Nat
        /\ req[r].gate = gate /\ pending[c] # NotPending
             => req[r].basis[c] < pending[c]
    BY <1>0, <2>1 DEF ConsumedIsOver
  <2>3. req[r].basis[c] < now'
    BY <1>0, <2>2
  <2> QED
    BY <2>1, <2>2, <2>3, WindowStep
<1>2. CASE req[r].stage \in Unruled
  <2>1. /\ RuleConfirm(r) /\ c \in Unapproved(Creds(r))
        /\ req'[r].basis[c] = Pruned[c]
    BY <1>0, <1>2, BasisStep DEF NothingPending
  <2>2. Pruned[c] = pending[c] /\ pending[c] < now /\ pending'[c] = NotPending
        /\ pending[c] \in Nat
    BY <2>1, ConfirmFacts
  <2> QED
    BY <1>0, <2>1, <2>2
<1> QED
  BY <1>1, <1>2

LEMMA StepOneHold ==
    ASSUME GateInv, UnruledIsBlank, ConsumedIsOver, OneHoldOneConfirmation, [Next]_vars
    PROVE  OneHoldOneConfirmation'
<1> SUFFICES ASSUME NEW r1 \in Requests, NEW r2 \in Requests, NEW c \in Credentials,
                    r1 # r2, req'[r1].gate = req'[r2].gate,
                    req'[r1].basis[c] # NotPending,
                    req'[r1].basis[c] = req'[r2].basis[c]
             PROVE  FALSE
  BY DEF OneHoldOneConfirmation
<1> TypeOK
  BY DEF GateInv
<1>1. ASSUME NEW r \in Requests, req[r].stage \in Unruled, req'[r].basis[c] # NotPending
      PROVE  /\ RuleConfirm(r) /\ req'[r].gate = gate /\ req'[r].basis[c] = pending[c]
             /\ pending[c] # NotPending /\ pending[c] \in Nat
  <2>1. /\ RuleConfirm(r) /\ c \in Unapproved(Creds(r))
        /\ req'[r].basis[c] = Pruned[c] /\ req'[r].gate = gate'
    BY <1>1, BasisStep DEF NothingPending
  <2> QED
    BY <2>1, ConfirmFacts DEF NotPending
<1>2. ASSUME NEW r \in Requests, NEW s \in Requests, r # s,
             req[r].stage \in Unruled, req[s].stage \notin Unruled,
             req'[r].basis[c] # NotPending, req'[s].basis[c] = req'[r].basis[c],
             req'[s].gate = req'[r].gate
      PROVE  FALSE
  <2>1. /\ req'[r].gate = gate /\ req'[r].basis[c] = pending[c]
        /\ pending[c] # NotPending /\ pending[c] \in Nat
    BY <1>1, <1>2
  <2>2. req'[s].basis = req[s].basis /\ req'[s].gate = req[s].gate
    BY <1>2, RulingStays
  <2>3. req[s].basis[c] < pending[c]
    BY <1>2, <2>1, <2>2 DEF ConsumedIsOver
  <2> QED
    BY <1>2, <2>1, <2>2, <2>3
<1>3. CASE req[r1].stage \in Unruled /\ req[r2].stage \in Unruled
  <2>1. RuleConfirm(r1) /\ RuleConfirm(r2)
    BY <1>1, <1>3
  <2>2. req'[r2] = req[r2]
    BY <2>1, ThreadStep DEF Handle, Decide
  <2>3. req[r2].basis = NothingPending
    BY <1>3 DEF UnruledIsBlank
  <2> QED
    BY <2>2, <2>3 DEF NothingPending
<1>4. CASE req[r1].stage \notin Unruled /\ req[r2].stage \notin Unruled
  <2>1. /\ req'[r1].basis = req[r1].basis /\ req'[r1].gate = req[r1].gate
        /\ req'[r2].basis = req[r2].basis /\ req'[r2].gate = req[r2].gate
    BY <1>4, RulingStays
  <2> QED
    BY <2>1 DEF OneHoldOneConfirmation
<1> QED
  BY <1>2, <1>3, <1>4

\* A confirmation that was once given on the live gate stays given.
LEMMA ConfirmedStays ==
    ASSUME GateInv, UnruledIsBlank, [Next]_vars, registered,
           NEW c \in Credentials, NEW v, ConfirmedBy(c, v)
    PROVE  \E h, d \in Requests : /\ ConfirmsHold(d, h, c)'
                                  /\ req'[d].verdict = v /\ req'[d].gate = gate'
<1> TypeOK /\ InOrder
  BY DEF GateInv
<1>1. PICK h \in Requests, d \in Requests :
         ConfirmsHold(d, h, c) /\ req[d].verdict = v /\ req[d].gate = gate
  BY DEF ConfirmedBy
<1>2. Blocked(h)' /\ req'[h] = req[h] /\ Creds(h)' = Creds(h)
  BY <1>1, BlockedStays DEF ConfirmsHold
<1>3. req[d].stage \notin Unruled
  <2>1. req[h].decidedAt # NotPending
    BY DEF TypeOK, Request, NotPending
  <2>2. req[d].basis[c] # NotPending
    BY <1>1, <2>1 DEF ConfirmsHold
  <2> QED
    BY <2>2 DEF UnruledIsBlank, NothingPending
<1>4. /\ req'[d].at = req[d].at /\ req'[d].decidedAt = req[d].decidedAt
      /\ req'[d].gate = req[d].gate /\ req'[d].verdict = req[d].verdict
      /\ req'[d].basis = req[d].basis
  BY <1>3, RulingStays
<1>5. Creds(d)' = Creds(d)
  BY AnswersStay DEF Creds
<1>6. gate' = gate
  BY EngineStep
<1> QED
  BY <1>1, <1>2, <1>4, <1>5, <1>6 DEF ConfirmsHold

\* A ruling confirms what the user was blocked for.
LEMMA RulingConfirms ==
    ASSUME GateInv, UnruledIsBlank, [Next]_vars, NEW r \in Requests, RuleConfirm(r),
           NEW c \in Unapproved(Creds(r))
    PROVE  \E h, d \in Requests :
              /\ ConfirmsHold(d, h, c)'
              /\ req'[d].verdict = NewVerdict(r, FALSE, Unapproved(Creds(r)))
              /\ req'[d].gate = gate'
<1> TypeOK /\ InOrder
  BY DEF GateInv
<1>0. "preflight" \in Unruled /\ req[r].stage = "preflight"
  BY DEF RuleConfirm, Unruled
<1>1. /\ gate' = gate /\ c \in Credentials /\ pending[c] \in Nat /\ Pruned[c] = pending[c]
      /\ pending[c] + MinGap <= req[r].at /\ now <= pending[c] + Window
  BY ConfirmFacts
<1>2. PICK h \in Requests : /\ Blocked(h) /\ req[h].gate = gate
                            /\ c \in Creds(h) /\ req[h].decidedAt = pending[c]
  BY <1>1 DEF GateInv, PendingWasHeld, NotPending
<1>3. Blocked(h)' /\ req'[h] = req[h] /\ Creds(h)' = Creds(h)
  BY <1>2, BlockedStays
<1>4. req'[r].basis # NothingPending
  <2>1. req' = Ruled(r, "scanning", NewVerdict(r, FALSE, Unapproved(Creds(r))),
                     [x \in Credentials |-> IF x \in Unapproved(Creds(r)) THEN Pruned[x]
                                                                       ELSE NotPending])
    BY DEF RuleConfirm
  <2>2. req'[r].basis[c] = Pruned[c]
    BY <1>1, <2>1 DEF Ruled, TypeOK, Request
  <2> QED
    BY <1>1, <2>2 DEF NothingPending, NotPending
<1>5. /\ req'[r].gate = gate' /\ req'[r].at = req[r].at /\ req'[r].decidedAt = now
      /\ req'[r].verdict = NewVerdict(r, FALSE, Unapproved(Creds(r)))
      /\ req'[r].basis[c] = Pruned[c]
  BY <1>0, <1>1, <1>4, BasisStep
<1>6. Creds(r)' = Creds(r) /\ c \in Creds(r)
  BY AnswersStay DEF Creds, Unapproved
<1> QED
  BY <1>1, <1>2, <1>3, <1>5, <1>6 DEF ConfirmsHold

\* A reservation ends, stays with its verdict, or is made by a confirmation.
LEMMA ReservationStep ==
    ASSUME TypeOK, ReservedWasConfirmed, [Next]_vars, NEW k \in DeliveryKeys
    PROVE  \/ reserved'[k] = {}
           \/ reserved'[k] = reserved[k] /\ deliveries'[k] = deliveries[k]
           \/ \E r \in Requests :
                 /\ req[r].key = k /\ RuleConfirm(r)
                 /\ reserved'[k] = Unapproved(Creds(r))
                 /\ deliveries'[k] = NewVerdict(r, FALSE, Unapproved(Creds(r)))
<1> DEFINE Goal == \/ reserved'[k] = {}
                   \/ reserved'[k] = reserved[k] /\ deliveries'[k] = deliveries[k]
                   \/ \E r \in Requests :
                         /\ req[r].key = k /\ RuleConfirm(r)
                         /\ reserved'[k] = Unapproved(Creds(r))
                         /\ deliveries'[k] = NewVerdict(r, FALSE, Unapproved(Creds(r)))
<1>0. /\ reserved \in [DeliveryKeys -> SUBSET Credentials]
      /\ deliveries \in [DeliveryKeys -> Verdict \cup {NoVerdict}]
      /\ \A r \in Requests : req[r].key \in DeliveryKeys
      /\ reserved[k] # {} => deliveries[k] # NoVerdict
  BY DEF TypeOK, Request, ReservedWasConfirmed
<1>1. CASE UNCHANGED gateVars
  BY <1>1 DEF gateVars
<1>2. CASE DiscardIdentity
  BY <1>2 DEF DiscardIdentity, NoReservations
<1>3. ASSUME NEW r \in Requests, RuleHold(r) \/ RuleAdmit(r) PROVE Goal
  <2>1. CASE req[r].key = k
    BY <1>0, <1>3, <2>1 DEF RuleHold, RuleAdmit
  <2>2. CASE req[r].key # k
    BY <1>0, <1>3, <2>2 DEF RuleHold, RuleAdmit
  <2> QED
    BY <2>1, <2>2
<1>4. ASSUME NEW r \in Requests, RuleConfirm(r) PROVE Goal
  <2>1. /\ reserved' = [reserved EXCEPT ![req[r].key] = Unapproved(Creds(r))]
        /\ deliveries' = [deliveries EXCEPT ![req[r].key] =
                            NewVerdict(r, FALSE, Unapproved(Creds(r)))]
    BY <1>4 DEF RuleConfirm
  <2>2. CASE req[r].key = k
    BY <1>0, <1>4, <2>1, <2>2
  <2>3. CASE req[r].key # k
    BY <1>0, <2>1, <2>3
  <2> QED
    BY <2>2, <2>3
<1>5. ASSUME NEW r \in Requests, FinishRecorded(r) PROVE Goal
  BY <1>0, <1>5 DEF FinishRecorded, gateVars
<1>6. ASSUME NEW r \in Requests, FinishFailed(r) PROVE Goal
  BY <1>0, <1>6 DEF FinishFailed, gateVars
<1>7. \/ UNCHANGED gateVars \/ DiscardIdentity
      \/ \E r \in Requests : \/ RuleHold(r) \/ RuleAdmit(r) \/ RuleConfirm(r)
                             \/ FinishRecorded(r) \/ FinishFailed(r)
  BY DEF Next, Handle, Decide, vars, gateVars, Submit, Resolve, Replay,
         RuleTemporary, PreflightFails, Observe, ObserveFails, SessionStart,
         SessionEnd, DaemonDies, Tick
<1> QED
  BY <1>1, <1>2, <1>3, <1>4, <1>5, <1>6, <1>7

LEMMA VerdictIsOne ==
    ASSUME NEW r \in Requests, NEW creds \in SUBSET Credentials
    PROVE  /\ NewVerdict(r, FALSE, creds) # NoVerdict
           /\ NewVerdict(r, FALSE, creds).confirmed = creds
<1>1. NewVerdict(r, FALSE, creds)
        \in [by : Requests, hold : BOOLEAN, confirmed : SUBSET Credentials]
  BY DEF NewVerdict
<1>2. NewVerdict(r, FALSE, creds).confirmed = creds
  BY DEF NewVerdict
<1> QED
  BY <1>1, <1>2, VerdictAssumption

LEMMA StepReserved ==
    ASSUME GateInv, UnruledIsBlank, ReservedWasConfirmed, [Next]_vars
    PROVE  ReservedWasConfirmed'
<1> TypeOK
  BY DEF GateInv
<1> SUFFICES ASSUME NEW k \in DeliveryKeys, NEW c \in reserved'[k]
             PROVE  /\ deliveries'[k] # NoVerdict
                    /\ c \in prompt'[k]
                    /\ \E h, d \in Requests :
                         /\ ConfirmsHold(d, h, c)'
                         /\ req'[d].verdict = deliveries'[k] /\ req'[d].gate = gate'
  BY DEF ReservedWasConfirmed, ConfirmedBy
<1>0. prompt' = prompt /\ reserved[k] \subseteq Credentials
  BY AnswersStay DEF TypeOK
<1>1. CASE reserved'[k] = reserved[k] /\ deliveries'[k] = deliveries[k]
  <2>1. /\ deliveries[k] # NoVerdict /\ c \in prompt[k] /\ c \in Credentials
        /\ ConfirmedBy(c, deliveries[k])
    BY <1>0, <1>1 DEF ReservedWasConfirmed
  <2>2. registered
    BY <1>1 DEF GateInv, DiscardedGateStaysEmpty, NoReservations
  <2> QED
    BY <1>0, <1>1, <2>1, <2>2, ConfirmedStays
<1>2. ASSUME NEW r \in Requests, req[r].key = k, RuleConfirm(r),
             reserved'[k] = Unapproved(Creds(r)),
             deliveries'[k] = NewVerdict(r, FALSE, Unapproved(Creds(r)))
      PROVE  /\ deliveries'[k] # NoVerdict
             /\ c \in prompt'[k]
             /\ \E h, d \in Requests :
                  /\ ConfirmsHold(d, h, c)'
                  /\ req'[d].verdict = deliveries'[k] /\ req'[d].gate = gate'
  <2>1. Unapproved(Creds(r)) \in SUBSET Credentials /\ c \in prompt[k]
    BY <1>2 DEF Unapproved, Creds, TypeOK
  <2>2. deliveries'[k] # NoVerdict
    BY <1>2, <2>1, VerdictIsOne
  <2>3. \E h, d \in Requests :
           /\ ConfirmsHold(d, h, c)'
           /\ req'[d].verdict = deliveries'[k] /\ req'[d].gate = gate'
    BY ONLY GateInv, UnruledIsBlank, [Next]_vars, r \in Requests, <1>2,
       c \in reserved'[k], RulingConfirms
  <2> QED
    BY <1>0, <2>1, <2>2, <2>3
<1> QED
  BY <1>1, <1>2, ReservationStep

\* Whoever finishes a delivery that is reserved clears its reservation.
LEMMA StepOwner ==
    ASSUME GateInv, UnruledIsBlank, ReservedWasConfirmed, ReservationHasOwner, [Next]_vars
    PROVE  ReservationHasOwner'
<1> TypeOK /\ InOrder
  BY DEF GateInv
<1> SUFFICES ASSUME NEW k \in DeliveryKeys, reserved'[k] # {}
             PROVE  \E r \in Requests :
                       /\ req'[r].stage = "scanning" /\ req'[r].key = k
                       /\ req'[r].gate = gate'
                       /\ deliveries'[k] # NoVerdict
                       /\ req'[r].verdict = deliveries'[k]
                       /\ deliveries'[k].confirmed = reserved'[k]
  BY DEF ReservationHasOwner
<1>1. CASE reserved'[k] = reserved[k] /\ deliveries'[k] = deliveries[k]
  <2>1. PICK r \in Requests :
           /\ req[r].stage = "scanning" /\ req[r].key = k /\ req[r].gate = gate
           /\ deliveries[k] # NoVerdict /\ req[r].verdict = deliveries[k]
           /\ deliveries[k].confirmed = reserved[k]
    BY <1>1 DEF ReservationHasOwner
  <2>2. registered /\ gate' = gate
    <3>1. registered
      BY <1>1 DEF GateInv, DiscardedGateStaysEmpty, NoReservations
    <3> QED
      BY <3>1, EngineStep
  <2>3. Creds(r) # {} /\ Live(r)
    BY <1>1, <2>1 DEF ReservedWasConfirmed, Creds, Live
  <2>4. reserved \in [DeliveryKeys -> SUBSET Credentials]
    BY DEF TypeOK
  <2>5. ~Observe(r)
    BY <1>1, <2>1, <2>3, <2>4 DEF Observe, FinishRecorded
  <2>6. ~ObserveFails(r)
    BY <1>1, <2>1, <2>3, <2>4 DEF ObserveFails, FinishFailed
  <2>7. ~DaemonDies
    BY DEF DaemonDies, DiscardIdentity, NoReservations
  <2>8. req'[r] = req[r]
    <3>1. ASSUME NEW h \in Requests, Submit(h) \/ Handle(h) PROVE req'[r] = req[r]
      <4>1. CASE h # r
        BY <3>1, <4>1, ThreadStep
      <4>2. CASE h = r
        BY <2>1, <2>5, <2>6, <3>1, <4>2
           DEF Submit, Handle, Resolve, Decide, RuleHold, RuleAdmit,
               RuleConfirm, Replay, RuleTemporary, PreflightFails
      <4> QED
        BY <4>1, <4>2
    <3>2. CASE SessionStart \/ SessionEnd \/ Tick \/ UNCHANGED vars
      BY <3>2 DEF SessionStart, SessionEnd, Tick, vars
    <3> QED
      BY <2>7, <3>1, <3>2 DEF Next
  <2> QED
    BY <1>1, <2>1, <2>2, <2>8
<1>2. ASSUME NEW r \in Requests, req[r].key = k, RuleConfirm(r),
             reserved'[k] = Unapproved(Creds(r)),
             deliveries'[k] = NewVerdict(r, FALSE, Unapproved(Creds(r)))
      PROVE  \E q \in Requests :
                /\ req'[q].stage = "scanning" /\ req'[q].key = k
                /\ req'[q].gate = gate'
                /\ deliveries'[k] # NoVerdict
                /\ req'[q].verdict = deliveries'[k]
                /\ deliveries'[k].confirmed = reserved'[k]
  <2>1. Unapproved(Creds(r)) \in SUBSET Credentials
    BY <1>2 DEF Unapproved, Creds, TypeOK
  <2>2. PICK c \in Unapproved(Creds(r)) : TRUE
    BY <1>2
  <2>3. req[r].stage = "preflight" /\ req[r].stage \in Unruled
    BY <1>2 DEF RuleConfirm, Unruled
  <2>4. req' = Ruled(r, "scanning", NewVerdict(r, FALSE, Unapproved(Creds(r))),
                     [x \in Credentials |-> IF x \in Unapproved(Creds(r)) THEN Pruned[x]
                                                                       ELSE NotPending])
    BY <1>2 DEF RuleConfirm
  <2>5. /\ req'[r].stage = "scanning" /\ req'[r].gate = gate'
        /\ req'[r].verdict = NewVerdict(r, FALSE, Unapproved(Creds(r)))
    BY <2>4 DEF Ruled, TypeOK, Request
  <2>6. req'[r].key = k
    BY <1>2, AnswersStay
  <2> QED
    BY <1>2, <2>1, <2>5, <2>6, VerdictIsOne
<1> QED
  BY <1>1, <1>2, ReservationStep

\* A credential becomes reusable with the observation that was recorded.
LEMMA AllowedStep ==
    ASSUME TypeOK, [Next]_vars, NEW c \in allowed'
    PROVE  \/ c \in allowed
           \/ \E g \in Requests : Observe(g) /\ Live(g) /\ c \in reserved[req[g].key]
<1>1. CASE UNCHANGED allowed
  BY <1>1
<1>2. ~DiscardIdentity
  BY DEF DiscardIdentity
<1>3. ASSUME NEW g \in Requests, Observe(g)
      PROVE  c \in allowed \/ (Live(g) /\ c \in reserved[req[g].key])
  BY <1>3 DEF Observe, FinishRecorded, gateVars
<1>4. \/ UNCHANGED allowed \/ DiscardIdentity
      \/ \E g \in Requests : Observe(g)
  BY DEF Next, Handle, Decide, vars, gateVars, Submit, Resolve, RuleHold, RuleAdmit,
         RuleConfirm, Replay, RuleTemporary, PreflightFails, ObserveFails, FinishFailed,
         SessionStart, SessionEnd, DaemonDies, Tick
<1> QED
  BY <1>1, <1>2, <1>3, <1>4

LEMMA StepAllowed ==
    ASSUME GateInv, UnruledIsBlank, ReservedWasConfirmed,
           AllowedWasConfirmedAndRecorded, [Next]_vars
    PROVE  AllowedWasConfirmedAndRecorded'
<1> TypeOK /\ InOrder
  BY DEF GateInv
<1> SUFFICES ASSUME NEW c \in allowed'
             PROVE  \E h, d, g \in Requests :
                       /\ ConfirmsHold(d, h, c)'
                       /\ req'[d].verdict # NoVerdict
                       /\ req'[g].stage = "admitted"
                       /\ req'[g].verdict = req'[d].verdict
                       /\ req'[d].gate = gate'
  BY DEF AllowedWasConfirmedAndRecorded
<1>0. c \in Credentials
  BY StepType DEF GateInv, TypeOK
<1>1. CASE c \in allowed
  <2>1. PICK h \in Requests, d \in Requests, g \in Requests :
           /\ ConfirmsHold(d, h, c) /\ req[d].verdict # NoVerdict
           /\ req[g].stage = "admitted" /\ req[g].verdict = req[d].verdict
           /\ req[d].gate = gate
    BY <1>1 DEF AllowedWasConfirmedAndRecorded
  <2>2. registered
    BY <1>1 DEF GateInv, DiscardedGateStaysEmpty
  <2>3. req'[g] = req[g]
    BY <2>1, AnswersStay DEF FinalStages
  <2>4. ConfirmedBy(c, req[g].verdict)
    BY <2>1 DEF ConfirmedBy
  <2>5. \E h1, d1 \in Requests : /\ ConfirmsHold(d1, h1, c)'
                                 /\ req'[d1].verdict = req[g].verdict
                                 /\ req'[d1].gate = gate'
    BY <1>0, <2>2, <2>4, ConfirmedStays
  <2> QED
    BY <2>1, <2>3, <2>5
<1>2. ASSUME NEW g \in Requests, Observe(g), Live(g), c \in reserved[req[g].key]
      PROVE  \E h, d \in Requests :
                /\ ConfirmsHold(d, h, c)'
                /\ req'[d].verdict # NoVerdict
                /\ req'[g].stage = "admitted"
                /\ req'[g].verdict = req'[d].verdict
                /\ req'[d].gate = gate'
  <2>1. req[g].key \in DeliveryKeys
    BY DEF TypeOK, Request
  <2>2. /\ req[g].verdict # NoVerdict /\ ConfirmedBy(c, req[g].verdict)
    BY <1>2, <2>1 DEF ReservedWasConfirmed, Live
  <2>3. registered
    BY <1>2, <2>1 DEF GateInv, DiscardedGateStaysEmpty, NoReservations
  <2>4. \E h1, d1 \in Requests : /\ ConfirmsHold(d1, h1, c)'
                                 /\ req'[d1].verdict = req[g].verdict
                                 /\ req'[d1].gate = gate'
    BY <1>0, <2>2, <2>3, ConfirmedStays
  <2>5. req'[g].stage = "admitted" /\ req'[g].verdict = req[g].verdict
    BY <1>2 DEF Observe, TypeOK, Request
  <2> QED
    BY <2>2, <2>4, <2>5
<1> QED
  BY <1>1, <1>2, AllowedStep

LEMMA ConfirmInvariant == Spec => []ConfirmInv
<1>1. ConfirmInv /\ [Next]_vars => ConfirmInv'
  <2> SUFFICES ASSUME ConfirmInv, [Next]_vars PROVE ConfirmInv'
    OBVIOUS
  <2>1. GateInv'
    BY StepType, StepRuled, StepInOrder, StepDiscarded, StepPending, StepPassed,
       StepWarned DEF GateInv, ConfirmInv
  <2> QED
    BY <2>1, StepBlank, StepConsumed, StepOneHold, StepReserved, StepOwner, StepAllowed
       DEF ConfirmInv, GateInv
<1> QED
  BY <1>1, InitConfirm, PTL DEF Spec

\* A credential is reusable only when a delivery confirmed, in time, a hold
\* the user was answered with, and an admission of that delivery was recorded
\* (dispatch: "Commit only after recording, and only on the original gate").
THEOREM ReusableWasEarned == Spec => []AllowedWasConfirmedAndRecorded
  BY ConfirmInvariant, PTL DEF ConfirmInv

\* One hold opens the door once: no two rulings of one gate ever consume the
\* same window of a credential.
THEOREM OneWindowOneRuling == Spec => []OneHoldOneConfirmation
  BY ConfirmInvariant, PTL DEF ConfirmInv

\* A reservation always has a thread that will finish it.
THEOREM NoReservationLeaks == Spec => []ReservationHasOwner
  BY ConfirmInvariant, PTL DEF ConfirmInv

\* A ruling leaves its request at the stage it was ruled to.
LEMMA RuledStage ==
  ASSUME req \in [Requests -> Request], NEW r \in Requests,
         NEW s, NEW v, NEW b
  PROVE  Ruled(r, s, v, b)[r].stage = s
  BY DEF Ruled, Request

\* A request that fails while its engine lives takes no window and no
\* reusable credential away: "a concurrent hold therefore survives failure".
THEOREM FailuresTakeNothing == Spec => FailureTakesNothing
<1> DEFINE Kept ==
      \A r \in Requests :
          (/\ req[r].stage \in LiveStages /\ req'[r].stage = "failed"
           /\ registered /\ registered')
          => /\ allowed \subseteq allowed'
             /\ \A c \in Credentials : pending'[c] = pending[c]
<1>1. TypeOK /\ [Next]_vars => Kept
  <2> SUFFICES ASSUME TypeOK, [Next]_vars, NEW r \in Requests,
                      req[r].stage \in LiveStages, req'[r].stage = "failed",
                      registered, registered'
               PROVE  UNCHANGED <<allowed, pending>>
    OBVIOUS
  <2> USE DEF LiveStages
  <2>0. req \in [Requests -> Request] /\ req[r] \in Request
    BY DEF TypeOK
  <2>1. ASSUME NEW h \in Requests, Submit(h) \/ Handle(h) PROVE h = r
    BY <2>1, ThreadStep
  <2>2. ASSUME Submit(r) \/ Handle(r) PROVE PreflightFails(r) \/ ObserveFails(r)
    <3>1. ~Submit(r)
      BY ONLY <2>0, req'[r].stage = "failed", r \in Requests DEF Submit, Request
    <3>2. ~Resolve(r)
      <4>1. CASE Creds(r) = {}
        BY ONLY <2>0, <4>1, req'[r].stage = "failed", r \in Requests DEF Resolve, Request
      <4>2. CASE Creds(r) # {}
        BY ONLY <2>0, <4>2, req'[r].stage = "failed", r \in Requests DEF Resolve, Request
      <4> QED
        BY ONLY <4>1, <4>2
    <3>3. \A s, v, x : Ruled(r, s, v, x)[r].stage = s
      BY ONLY <2>0, RuledStage, r \in Requests
    <3>4. ~RuleHold(r)
      <4>1. RuleHold(r) => \E v, x : req' = Ruled(r, "held", v, x)
        BY ONLY ZenonT(20) DEF RuleHold
      <4> QED
        BY ONLY <4>1, <3>3, req'[r].stage = "failed"
    <3>5. ~RuleAdmit(r)
      <4>1. RuleAdmit(r) => \E v, x : req' = Ruled(r, "scanning", v, x)
        BY ONLY ZenonT(20) DEF RuleAdmit
      <4> QED
        BY ONLY <4>1, <3>3, req'[r].stage = "failed"
    <3>6. ~RuleConfirm(r)
      <4>1. RuleConfirm(r) => \E v, x : req' = Ruled(r, "scanning", v, x)
        BY ONLY ZenonT(20) DEF RuleConfirm
      <4> QED
        BY ONLY <4>1, <3>3, req'[r].stage = "failed"
    <3>7. ~Replay(r)
      BY ONLY <3>3, req'[r].stage = "failed" DEF Replay
    <3>8. ~RuleTemporary(r)
      BY ONLY <2>0, req'[r].stage = "failed", r \in Requests DEF RuleTemporary, Request
    <3>9. ~Observe(r)
      <4> SUFFICES ASSUME Observe(r) PROVE FALSE
        OBVIOUS
      <4>1. \E n : req' = [req EXCEPT ![r] = [@ EXCEPT !.stage = "admitted", !.notice = n]]
        BY ONLY Observe(r) DEF Observe
      <4> QED
        BY ONLY <4>1, <2>0, req'[r].stage = "failed", r \in Requests DEF Request
    <3> QED
      BY ONLY <2>2, <3>1, <3>2, <3>4, <3>5, <3>6, <3>7, <3>8, <3>9 DEF Handle, Decide
  <2>3. CASE PreflightFails(r)
    BY <2>3 DEF PreflightFails, gateVars
  <2>4. CASE ObserveFails(r)
    BY <2>4 DEF ObserveFails, FinishFailed, gateVars
  <2>5. ~(SessionStart \/ SessionEnd \/ DaemonDies \/ Tick \/ UNCHANGED vars)
    <3>1. ~DaemonDies /\ ~SessionEnd /\ ~SessionStart
      BY DEF DaemonDies, SessionEnd, SessionStart, DiscardIdentity
    <3>2. ~Tick /\ ~UNCHANGED vars
      BY DEF Tick, vars
    <3> QED
      BY <3>1, <3>2
  <2> QED
    BY <2>1, <2>2, <2>3, <2>4, <2>5 DEF Next
<1> QED
  BY <1>1, TypeCorrect, PTL DEF Spec, FailureTakesNothing
=============================================================================
