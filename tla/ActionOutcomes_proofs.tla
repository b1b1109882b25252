----------------------- MODULE ActionOutcomes_proofs -----------------------
(***************************************************************************)
(* Proofs about ActionOutcomes for any subjects, findings, receipts and    *)
(* number of hooks.                                                        *)
(***************************************************************************)
EXTENDS ActionOutcomes, TLAPS

USE SubjectAssumption, ReportAssumption, HooksAssumption

-----------------------------------------------------------------------------
\* The rows a step adds

Decisions == {"none", "allow", "deny", "rewrite"}
Draft == [pair : Subjects \cup {Nobody}, evidence : SUBSET Evidence]

\* What is said of drafts: their evidence was issued, detected or received,
\* and without the key they are about nobody.
Sound(drafts, rep, decision) == \A d \in drafts :
    /\ d \in Draft
    /\ d.evidence \subseteq Issued[decision] \cup {"detected"} \cup rep.bits
    /\ ~available => d.pair = Nobody

\* What engine._observe_v2 hands to the ledger.
DraftsOf(hook, rep, values, blind, boundary, decision) ==
    Receipted(Found(values, blind, Identified(hook, boundary), Issued[decision]), rep)
RowOf(hook, rep, values, blind, boundary, decision) ==
    Row(rep, DraftsOf(hook, rep, values, blind, boundary, decision),
        boundary, Potential(hook), decision)

LEMMA FoundIsSound ==
    ASSUME NEW hook \in {"pre", "post"}, NEW rep \in Reports, NEW values \in Findings,
           NEW blind \in BOOLEAN, NEW boundary \in Boundaries, NEW decision \in Decisions
    PROVE  Sound(Found(values, blind, Identified(hook, boundary), Issued[decision]),
                 rep, decision)
<1> DEFINE known == Identified(hook, boundary)
<1>1. ~available => ~known
  BY DEF Identified
<1>2. Issued[decision] \subseteq Evidence
  BY DEF Issued, Decisions, Evidence
<1>3. SUFFICES ASSUME NEW d \in Found(values, blind, known, Issued[decision])
               PROVE  /\ d \in Draft
                      /\ d.evidence \subseteq Issued[decision] \cup {"detected"}
                      /\ ~available => d.pair = Nobody
  BY <1>3 DEF Sound
<1> HIDE DEF known
<1>4. CASE \E s \in values : d = [pair |-> IF known THEN s ELSE Nobody,
                                  evidence |-> Issued[decision] \cup {"detected"}]
  <2>1. PICK s \in values : d = [pair |-> IF known THEN s ELSE Nobody,
                                 evidence |-> Issued[decision] \cup {"detected"}]
    BY <1>4
  <2>2. s \in Subjects
    BY <2>1
  <2>3. "detected" \in Evidence
    BY DEF Evidence
  <2> QED
    BY <1>1, <1>2, <2>1, <2>2, <2>3 DEF Draft
<1>5. CASE d = [pair |-> Nobody, evidence |-> Issued[decision]]
  BY <1>2, <1>5 DEF Draft
<1> QED
  BY <1>3, <1>4, <1>5 DEF Found

LEMMA ReceiptedIsSound ==
    ASSUME NEW rep \in Reports, NEW decision \in Decisions, NEW drafts,
           Sound(drafts, rep, decision)
    PROVE  Sound(Receipted(drafts, rep), rep, decision)
<1>1. rep.bits \subseteq Evidence /\ rep.pairs \subseteq Subjects
  BY DEF Report, Executed, Resolving, Evidence
<1>2. Named(rep) \subseteq Subjects /\ (~available => Named(rep) = {})
  BY <1>1 DEF Named
<1>3. SUFFICES ASSUME NEW d \in Receipted(drafts, rep)
               PROVE  /\ d \in Draft
                      /\ d.evidence \subseteq Issued[decision] \cup {"detected"} \cup rep.bits
                      /\ ~available => d.pair = Nobody
  BY <1>3 DEF Sound
<1>4. CASE \E c \in drafts :
             d = [c EXCEPT !.evidence = IF c.pair \in Named(rep) THEN @ \cup rep.bits ELSE @]
  <2>1. PICK c \in drafts :
             d = [c EXCEPT !.evidence = IF c.pair \in Named(rep) THEN @ \cup rep.bits ELSE @]
    BY <1>4
  <2>2. /\ c \in Draft
        /\ c.evidence \subseteq Issued[decision] \cup {"detected"} \cup rep.bits
        /\ ~available => c.pair = Nobody
    BY <2>1 DEF Sound
  <2>3. /\ d.pair = c.pair
        /\ d.evidence = c.evidence \cup rep.bits \/ d.evidence = c.evidence
        /\ d = [pair |-> d.pair, evidence |-> d.evidence]
    BY <2>1, <2>2 DEF Draft
  <2>4. c.pair \in Subjects \cup {Nobody} /\ c.evidence \subseteq Evidence
    BY <2>2 DEF Draft
  <2>5. d.evidence \subseteq Evidence
    BY <1>1, <2>3, <2>4
  <2>6. d \in Draft
    BY <2>3, <2>4, <2>5 DEF Draft
  <2> QED
    BY <2>2, <2>3, <2>6
<1>5. CASE \E s \in Named(rep) : d = [pair |-> s, evidence |-> rep.bits]
  BY <1>1, <1>2, <1>5 DEF Draft
<1> QED
  BY <1>3, <1>4, <1>5 DEF Receipted

LEMMA DraftsAreSound ==
    ASSUME NEW hook \in {"pre", "post"}, NEW rep \in Reports, NEW values \in Findings,
           NEW blind \in BOOLEAN, NEW boundary \in Boundaries, NEW decision \in Decisions
    PROVE  Sound(DraftsOf(hook, rep, values, blind, boundary, decision), rep, decision)
BY FoundIsSound, ReceiptedIsSound DEF DraftsOf

\* An event has its draft's pair and evidence, and one of the kinds that the
\* ledger wants this evidence for.
LEMMA EventsAreOfDrafts ==
    ASSUME NEW drafts, NEW boundary \in Boundaries, NEW rep, NEW decision,
           Sound(drafts, rep, decision), NEW e \in EventsOf(drafts, boundary)
    PROVE  \E d \in drafts :
             /\ e = [pair |-> d.pair, kind |-> e.kind, evidence |-> d.evidence]
             /\ e.kind \in Kinds
             /\ e.evidence \cap KindEvidence[e.kind] # {}
             /\ e.kind = "exposed" => boundary # "B0"
             /\ e.kind = "access" => boundary = "B0"
<1>0. PICK d \in drafts : \E k \in KindsOf(boundary, d.evidence) :
         e = [pair |-> d.pair, kind |-> k, evidence |-> d.evidence]
  BY DEF EventsOf
<1>1. PICK k \in KindsOf(boundary, d.evidence) :
         e = [pair |-> d.pair, kind |-> k, evidence |-> d.evidence]
  BY <1>0
<1>2. /\ k \in Kinds
      /\ d.evidence \cap KindEvidence[k] # {}
      /\ k = "exposed" => boundary # "B0"
      /\ k = "access" => boundary = "B0"
  BY <1>1 DEF KindsOf, Terminal, Kinds, KindEvidence
<1> QED
  BY <1>1, <1>2

-----------------------------------------------------------------------------
\* The invariant

\* Every row is of the action's one kind, no action is newer than the hooks
\* delivered, and what leaves the machine may have crossed.
RowsInv == \A o \in observations :
    /\ o.kind = ActionKind[call]
    /\ o.action =< hooks
    /\ o.boundary # "B0" => o.potential

OutcomesInv == TypeOK /\ EngineRecordsAreValid /\ RowsInv

\* What a delivery does: nothing but adding a row, which names the action it
\* is correlated with, or one that no row has.
Adds(row) ==
    /\ row \in Observation
    /\ observations' = observations \cup {row}
    /\ row.kind = ActionKind[call] /\ row.action = ActionOf
    /\ row.boundary # "B0" => row.potential
    /\ hooks \in Nat /\ hooks < MaxHooks /\ hooks' = hooks + 1
    /\ refused' = FALSE /\ UNCHANGED <<call, available>>

\* A hook's row: a delivery before the call is about where the call goes.
Delivered(hook, boundary, decision) ==
    /\ hook \in {"pre", "post"} /\ boundary \in Boundaries /\ decision \in Decisions
    /\ hook = "pre" => boundary = Intended[call]

LEMMA RowFacts ==
    ASSUME OutcomesInv, NEW hook, NEW rep \in Reports, NEW values \in Findings,
           NEW blind \in BOOLEAN, NEW boundary, NEW decision,
           Delivered(hook, boundary, decision), hooks < MaxHooks
    PROVE  LET row == RowOf(hook, rep, values, blind, boundary, decision)
           IN /\ row \in Observation
              /\ row.kind = ActionKind[call] /\ row.action = ActionOf
              /\ row.boundary # "B0" => row.potential
              /\ Valid(row)
<1> DEFINE drafts == DraftsOf(hook, rep, values, blind, boundary, decision)
           row == RowOf(hook, rep, values, blind, boundary, decision)
           observed == {"hook"} \cup rep.own \cup Issued[decision]
                       \cup UNION {d.evidence : d \in drafts}
<1> USE DEF Delivered
<1>1. Sound(drafts, rep, decision)
  BY DraftsAreSound
<1> HIDE DEF drafts
<1>2. row = [action |-> ActionOf, kind |-> ActionKind[call], boundary |-> boundary,
             decision |-> decision, evidence |-> observed,
             scope |-> ScopeOf(rep, observed), potential |-> Potential(hook),
             events |-> EventsOf(drafts, boundary)]
  BY DEF RowOf, Row, drafts
<1>3. /\ rep.own \subseteq Executed \cup Resolving /\ rep.bits \subseteq Executed \cup Resolving
      /\ rep.scope \in {"none", "pairs", "boundary"}
  BY DEF Report
<1>4. observed \subseteq {"hook", "detected"} \cup Issued[decision] \cup Executed \cup Resolving
  BY <1>1, <1>3 DEF Sound
<1> HIDE DEF row, observed
<1>5. \A e \in EventsOf(drafts, boundary) :
        /\ e \in Event
        /\ e.evidence \subseteq observed
        /\ e.evidence \cap KindEvidence[e.kind] # {}
        /\ e.kind = "exposed" => boundary # "B0"
        /\ e.kind = "access" => boundary = "B0"
        /\ ~available => e.pair = Nobody
  <2> SUFFICES ASSUME NEW e \in EventsOf(drafts, boundary)
               PROVE  /\ e \in Event
                      /\ e.evidence \subseteq observed
                      /\ e.evidence \cap KindEvidence[e.kind] # {}
                      /\ e.kind = "exposed" => boundary # "B0"
                      /\ e.kind = "access" => boundary = "B0"
                      /\ ~available => e.pair = Nobody
    OBVIOUS
  <2>1. PICK d \in drafts :
             /\ e = [pair |-> d.pair, kind |-> e.kind, evidence |-> d.evidence]
             /\ e.kind \in Kinds
             /\ e.evidence \cap KindEvidence[e.kind] # {}
             /\ e.kind = "exposed" => boundary # "B0"
             /\ e.kind = "access" => boundary = "B0"
    BY <1>1, EventsAreOfDrafts
  <2>2. d \in Draft /\ (~available => d.pair = Nobody)
    BY <1>1 DEF Sound
  <2>3. e.pair = d.pair /\ e.evidence = d.evidence
    BY <2>1
  <2>4. d.pair \in Subjects \cup {Nobody} /\ d.evidence \subseteq Evidence
    BY <2>2 DEF Draft
  <2>5. e \in Event
    BY <2>1, <2>4 DEF Event
  <2>6. d.evidence \subseteq observed
    BY DEF observed
  <2> QED
    BY <2>1, <2>2, <2>3, <2>5, <2>6
<1>6. row \in Observation
  <2>1. ActionOf \in 0..MaxHooks
    BY DEF ActionOf, OutcomesInv, TypeOK
  <2>2. ActionKind[call] \in {"read", "tool", "subagent", "prompt"}
    BY DEF ActionKind, OutcomesInv, TypeOK, Calls
  <2>3. observed \subseteq Evidence
    BY <1>4 DEF Evidence, Executed, Resolving, Issued, Decisions
  <2>4. ScopeOf(rep, observed) \in {"none", "pairs", "boundary"}
    BY <1>3 DEF ScopeOf
  <2>5. Potential(hook) \in BOOLEAN
    BY DEF Potential
  <2>6. EventsOf(drafts, boundary) \subseteq Event
    BY <1>5
  <2> QED
    BY <1>2, <2>1, <2>2, <2>3, <2>4, <2>5, <2>6 DEF Observation, Decisions
<1>7. row.boundary # "B0" => row.potential
  BY <1>2 DEF Potential
<1>8. Valid(row)
  <2>1. "denyIssued" \in observed => decision = "deny"
    BY <1>4 DEF Issued, Decisions, Executed, Resolving
  <2>2. "rewriteIssued" \in observed => decision = "rewrite"
    BY <1>4 DEF Issued, Decisions, Executed, Resolving
  <2>3. "permission" \in observed => decision \in {"allow", "rewrite"}
    BY <1>4 DEF Issued, Decisions, Executed, Resolving
  <2>4. ScopeOf(rep, observed) # "none" => observed \cap Resolving # {}
    BY DEF ScopeOf
  <2>5. \A p \in observations : p.kind = ActionKind[call]
    BY DEF OutcomesInv, RowsInv
  <2>6. ValidObservation(row)
    BY <1>2, <2>1, <2>2, <2>3, <2>4, <2>5 DEF ValidObservation
  <2>7. \A e \in row.events : ValidEvent(row, e)
    BY <1>2, <1>5 DEF ValidEvent
  <2> QED
    BY <2>6, <2>7 DEF Valid
<1> QED
  BY <1>2, <1>6, <1>7, <1>8 DEF row

LEMMA DeliverAdds ==
    ASSUME OutcomesInv, NEW hook, NEW rep \in Reports, NEW values \in Findings,
           NEW blind \in BOOLEAN, NEW boundary, NEW decision,
           Delivered(hook, boundary, decision),
           Deliver(hook, rep, values, blind, boundary, decision)
    PROVE  Adds(RowOf(hook, rep, values, blind, boundary, decision))
<1> DEFINE row == RowOf(hook, rep, values, blind, boundary, decision)
<1>1. /\ hooks < MaxHooks /\ hooks' = hooks + 1 /\ UNCHANGED <<call, available>>
      /\ \/ Valid(row) /\ observations' = observations \cup {row} /\ UNCHANGED refused
         \/ ~Valid(row) /\ refused' = TRUE /\ UNCHANGED observations
  BY DEF Deliver, RowOf, DraftsOf
<1>2. /\ row \in Observation
      /\ row.kind = ActionKind[call] /\ row.action = ActionOf
      /\ row.boundary # "B0" => row.potential
      /\ Valid(row)
  BY <1>1, RowFacts
<1> HIDE DEF row
<1>3. refused = FALSE /\ hooks \in Nat
  BY DEF OutcomesInv, TypeOK, EngineRecordsAreValid
<1>4. QED
  BY <1>1, <1>2, <1>3 DEF Adds, row

\* A step adds a row, loses the key, or does nothing.
LEMMA Steps ==
    ASSUME OutcomesInv, [Next]_vars
    PROVE  (\E row : Adds(row)) \/ LoseKey \/ UNCHANGED vars
<1>1. CASE PreToolUse
  <2>1. PICK rep \in Reports, values \in Findings, blind \in BOOLEAN,
             decision \in {"allow", "deny", "rewrite"} :
               Deliver("pre", rep, values, blind, Intended[call], decision)
    BY <1>1 DEF PreToolUse
  <2>2. Delivered("pre", Intended[call], decision)
    BY DEF Delivered, Decisions, Boundaries, Intended, OutcomesInv, TypeOK, Calls
  <2> QED
    BY <2>1, <2>2, DeliverAdds
<1>2. CASE PostToolUse
  <2>1. PICK rep \in Reports, values \in Findings, boundary \in Boundaries :
               Deliver("post", rep, values, FALSE, boundary, "none")
    BY <1>2 DEF PostToolUse
  <2>2. Delivered("post", boundary, "none")
    BY <2>1 DEF Delivered, Decisions
  <2> QED
    BY <2>1, <2>2, DeliverAdds
<1>3. CASE UserPromptSubmit
  <2>1. PICK rep \in Reports, values \in Findings, decision \in {"none", "deny"} :
               /\ call = "prompt" /\ hooks = 0
               /\ decision = "deny" => values # {}
               /\ Deliver("pre", rep, values, FALSE, "B1", decision)
    BY <1>3, Zenon DEF UserPromptSubmit
  <2>2. Delivered("pre", "B1", decision)
    BY <2>1 DEF Delivered, Decisions, Boundaries, Intended
  <2> QED
    BY <2>1, <2>2, DeliverAdds
<1> QED
  BY <1>1, <1>2, <1>3 DEF Next

LEMMA Invariance == Spec => []OutcomesInv
<1>1. Init => OutcomesInv
  <2> SUFFICES ASSUME Init PROVE OutcomesInv
    OBVIOUS
  <2>1. TypeOK
    <3>1. hooks \in 0..MaxHooks
      BY DEF Init
    <3>2. call \in Calls /\ observations \in SUBSET Observation
      BY DEF Init
    <3>3. available \in BOOLEAN /\ refused \in BOOLEAN
      BY DEF Init
    <3> QED
      BY <3>1, <3>2, <3>3 DEF TypeOK
  <2> QED
    BY <2>1 DEF Init, OutcomesInv, EngineRecordsAreValid, RowsInv
<1>2. OutcomesInv /\ [Next]_vars => OutcomesInv'
  <2> SUFFICES ASSUME OutcomesInv, [Next]_vars PROVE OutcomesInv'
    OBVIOUS
  <2>1. CASE \E row : Adds(row)
    <3>1. PICK row : Adds(row)
      BY <2>1
    <3>2. ActionOf \in Int /\ ActionOf =< hooks + 1
      BY <3>1 DEF ActionOf, Adds
    <3>3. \A o \in observations : o.action \in Int /\ o.action =< hooks
      BY DEF OutcomesInv, TypeOK, Observation, RowsInv
    <3>4. RowsInv'
      <4> SUFFICES ASSUME NEW o \in observations'
                   PROVE  /\ o.kind = ActionKind[call]
                          /\ o.action =< hooks + 1
                          /\ o.boundary # "B0" => o.potential
        BY <3>1 DEF RowsInv, Adds
      <4>1. CASE o = row
        BY <3>1, <3>2, <4>1 DEF Adds
      <4>2. CASE o \in observations
        BY <3>1, <3>3, <4>2 DEF OutcomesInv, RowsInv, Adds
      <4> QED
        BY <3>1, <4>1, <4>2 DEF Adds
    <3>5. TypeOK'
      <4>1. observations \subseteq Observation /\ row \in Observation
        BY <3>1 DEF OutcomesInv, TypeOK, Adds
      <4>2. observations' \subseteq Observation
        BY <3>1, <4>1 DEF Adds
      <4>3. hooks' \in 0..MaxHooks
        BY <3>1 DEF Adds
      <4> QED
        BY <3>1, <4>2, <4>3 DEF OutcomesInv, TypeOK, Adds
    <3> QED
      BY <3>1, <3>4, <3>5 DEF OutcomesInv, EngineRecordsAreValid, Adds
  <2>2. CASE LoseKey
    BY <2>2 DEF LoseKey, OutcomesInv, TypeOK, EngineRecordsAreValid, RowsInv
  <2>3. CASE UNCHANGED vars
    BY <2>3 DEF vars, OutcomesInv, TypeOK, EngineRecordsAreValid, RowsInv
  <2> QED
    BY <2>1, <2>2, <2>3, Steps
<1> QED
  BY <1>1, <1>2, PTL DEF Spec

\* The rows are rows, whatever was reported.
THEOREM TypeCorrect == Spec => []TypeOK
<1>1. OutcomesInv => TypeOK
  BY DEF OutcomesInv
<1> QED
  BY <1>1, Invariance, PTL

\* No delivery is lost because the ledger would not have what the engine made
\* of it, for any receipts an adapter can give.
THEOREM NothingIsRefused == Spec => []EngineRecordsAreValid
<1>1. OutcomesInv => EngineRecordsAreValid
  BY DEF OutcomesInv
<1> QED
  BY <1>1, Invariance, PTL

-----------------------------------------------------------------------------
\* What rows say of an action, and how it grows

\* The pairs of a row that may cross, or is denied, are at stake.
LEMMA AtStake ==
    ASSUME NEW G, NEW o \in G, NEW p \in Pairs(o), p # Nobody
    PROVE  /\ o.potential => p \in Crossing(G)
           /\ o \in Denials(G) => p \in Denied(G)
BY DEF Crossing, Denied

\* Rows without a scope take no obligation away: each part of Unresolved is
\* about facts, that only grow, and about receipts, that stay what they were.
LEMMA SilenceKeepsUnresolved ==
    ASSUME NEW G, NEW row, row.scope = "none", Unresolved(G)
    PROVE  Unresolved(G \cup {row})
<1> DEFINE H == G \cup {row}
<1>1. \A bits : Facts(G, bits) \subseteq Facts(H, bits)
  BY DEF Facts
<1>2. {o \in H : o.scope = "pairs"} = {o \in G : o.scope = "pairs"}
  OBVIOUS
<1>3. \A bits : Receipts(H, bits) = Receipts(G, bits)
  BY <1>2 DEF Receipts
<1>4. /\ Ran(G) => Ran(H)
      /\ BoundaryStopped(H) <=> BoundaryStopped(G)
      /\ ZeroReceipt(H) <=> ZeroReceipt(G)
      /\ ZeroFinding(G) => ZeroFinding(H)
  BY DEF Ran, BoundaryStopped, ZeroReceipt, ZeroFinding
<1>5. /\ Crossing(G) \subseteq Crossing(H)
      /\ Denials(G) \subseteq Denials(H) /\ Denied(G) \subseteq Denied(H)
      /\ DenialUnidentified(G) => DenialUnidentified(H)
      /\ Rewrites(G) \subseteq Rewrites(H)
      /\ Unmatchable(G) => Unmatchable(H)
  BY DEF Crossing, Denials, Denied, DenialUnidentified, Rewrites, Unmatchable
<1>6. Contradictory(G) => Contradictory(H)
  BY <1>1 DEF Contradictory
<1>7. ASSUME Denials(G) # {}, PairsStopped(H)
      PROVE  PairsStopped(G)
  <2>1. ~DenialUnidentified(G) /\ ~ZeroFinding(G)
    BY <1>4, <1>5, <1>7 DEF PairsStopped
  <2>2. Crossing(G) \cup Denied(G) \subseteq Receipts(G, Stopped)
    BY <1>3, <1>5, <1>7 DEF PairsStopped
  <2>3. Denied(G) # {}
    <3>1. PICK o \in Denials(G) : TRUE
      BY <1>7
    <3>2. o.events # {} /\ Nobody \notin Pairs(o)
      BY <2>1 DEF DenialUnidentified
    <3>3. PICK e \in o.events : e.pair \in Pairs(o)
      BY <3>2 DEF Pairs
    <3>4. e.pair # Nobody
      BY <3>2, <3>3
    <3>5. o \in G
      BY DEF Denials
    <3>6. e.pair \in Denied(G)
      BY <3>3, <3>4, <3>5, AtStake
    <3> QED
      BY <3>6
  <2> QED
    BY <2>1, <2>2, <2>3 DEF PairsStopped
<1> HIDE DEF H
<1>8. CASE Contradictory(G)
  BY <1>6, <1>8 DEF Unresolved, H
<1>9. CASE BoundaryStopped(G) /\ Ran(G)
  BY <1>4, <1>9 DEF Unresolved, H
<1>10. CASE Denials(G) # {} /\ (Ran(G) \/ ~(BoundaryStopped(G) \/ PairsStopped(G)))
  <2>1. Denials(H) # {}
    BY <1>5, <1>10
  <2>2. Ran(H) \/ ~(BoundaryStopped(H) \/ PairsStopped(H))
    BY <1>4, <1>7, <1>10
  <2> QED
    BY <2>1, <2>2 DEF Unresolved, H
<1>11. CASE /\ ~BoundaryStopped(G)
            /\ Unmatchable(G) \/ (ZeroFinding(G) /\ ~ZeroReceipt(G))
  BY <1>4, <1>5, <1>11 DEF Unresolved, H
<1>12. CASE /\ ~BoundaryStopped(G)
            /\ \E p \in Crossing(G) :
                  p \notin Receipts(G, Stopped \cup {"crossed", "rewriteEnforced"})
  <2>1. \E p \in Crossing(H) :
           p \notin Receipts(H, Stopped \cup {"crossed", "rewriteEnforced"})
    BY <1>3, <1>5, <1>12
  <2> QED
    BY <1>4, <1>12, <2>1 DEF Unresolved, H
<1>13. CASE /\ ~BoundaryStopped(G)
            /\ \E o \in Rewrites(G) :
                  \/ Rewritten(o) = {}
                  \/ ~(Rewritten(o) \ {Nobody} \subseteq Receipts(G, {"rewriteEnforced"}))
  <2>1. \E o \in Rewrites(H) :
           \/ Rewritten(o) = {}
           \/ ~(Rewritten(o) \ {Nobody} \subseteq Receipts(H, {"rewriteEnforced"}))
    BY <1>3, <1>5, <1>13
  <2> QED
    BY <1>4, <1>13, <2>1 DEF Unresolved, H
<1> QED
  BY <1>8, <1>9, <1>10, <1>11, <1>12, <1>13 DEF Unresolved

\* An action of which some row is left unresolved at its boundary.
LEMMA UnresolvedThere ==
    ASSUME NEW G, NEW o \in G, Unresolved(Partition(G, o.action, o.boundary))
    PROVE  o.action \in UnresolvedActions(G)
BY DEF UnresolvedActions

\* Rows of one action change nothing for another.
LEMMA OtherAction ==
    ASSUME NEW G, NEW row, NEW a, row.action # a
    PROVE  /\ {o \in G \cup {row} : o.action = a} = {o \in G : o.action = a}
           /\ \A b : Partition(G \cup {row}, a, b) = Partition(G, a, b)
           /\ a \in UnresolvedActions(G \cup {row}) <=> a \in UnresolvedActions(G)
<1>1. {o \in G \cup {row} : o.action = a} = {o \in G : o.action = a}
  OBVIOUS
<1>2. \A b : Partition(G \cup {row}, a, b) = Partition(G, a, b)
  BY DEF Partition
<1>3. a \in {o.action : o \in G \cup {row}} <=> a \in {o.action : o \in G}
  OBVIOUS
<1> QED
  BY <1>1, <1>2, <1>3, Zenon DEF UnresolvedActions

\* However rows come, an action once unresolved stays so until a receipt with
\* a scope comes for it.
THEOREM OnlyReceiptsDo == Spec => OnlyReceiptsResolve
<1> DEFINE Step == \A a \in UnresolvedActions(observations) \ UnresolvedActions(observations') :
                     \E o \in observations' \ observations : o.action = a /\ o.scope # "none"
<1>1. OutcomesInv /\ [Next]_vars => [Step]_vars
  <2> SUFFICES ASSUME OutcomesInv, [Next]_vars PROVE Step
    OBVIOUS
  <2>1. CASE \E row : Adds(row)
    <3>1. PICK row : Adds(row)
      BY <2>1
    <3>2. observations' = observations \cup {row}
      BY <3>1 DEF Adds
    <3>3. SUFFICES ASSUME NEW a \in UnresolvedActions(observations),
                          a \notin UnresolvedActions(observations')
                   PROVE  /\ row \notin observations /\ row.action = a
                          /\ row.scope # "none"
      BY <3>2
    <3>4. row \notin observations
      <4>1. row \in observations => observations' = observations
        BY <3>2
      <4> QED
        BY <3>3, <4>1
    <3>5. row.action = a
      BY <3>2, <3>3, OtherAction
    <3>6. ASSUME row.scope = "none" PROVE FALSE
      <4>1. PICK b : /\ b \in {o.boundary : o \in {o \in observations : o.action = a}}
                     /\ Unresolved(Partition(observations, a, b))
        BY <3>3 DEF UnresolvedActions
      <4>2. PICK o \in observations : o.action = a /\ o.boundary = b
        BY <4>1
      <4>3. Unresolved(Partition(observations', a, b))
        <5>1. CASE row.boundary = b
          <6>1. Partition(observations', a, b) = Partition(observations, a, b) \cup {row}
            BY <3>2, <3>5, <5>1 DEF Partition
          <6> QED
            BY <3>6, <4>1, <6>1, SilenceKeepsUnresolved
        <5>2. CASE row.boundary # b
          <6>1. Partition(observations', a, b) = Partition(observations, a, b)
            BY <3>2, <5>2 DEF Partition
          <6> QED
            BY <4>1, <6>1
        <5> QED
          BY <5>1, <5>2
      <4>4. o \in observations'
        BY <3>2, <4>2
      <4> QED
        BY <3>3, <4>2, <4>3, <4>4, UnresolvedThere
    <3> QED
      BY <3>4, <3>5, <3>6
  <2>2. CASE UNCHANGED observations
    BY <2>2
  <2> QED
    BY <2>1, <2>2, Steps DEF LoseKey, vars
<1> QED
  BY <1>1, Invariance, PTL DEF Spec, OnlyReceiptsResolve

\* When the key is gone, every delivery is an action of its own, and those
\* before it keep what was concluded of them.
THEOREM LostKeyFreezes == Spec => LostKeyFreezesOutcomes
<1> DEFINE Old == {o.action : o \in observations}
           Step == ~available =>
             /\ UnresolvedActions(observations) = UnresolvedActions(observations') \cap Old
             /\ ReadsStopped(observations) = ReadsStopped(observations') \cap Old
<1>1. \A G : UnresolvedActions(G) \subseteq {o.action : o \in G}
  BY DEF UnresolvedActions
<1>2. \A G : ReadsStopped(G) \subseteq {o.action : o \in G}
  BY DEF ReadsStopped
<1>3. OutcomesInv /\ [Next]_vars => [Step]_vars
  <2> SUFFICES ASSUME OutcomesInv, [Next]_vars, ~available PROVE Step
    OBVIOUS
  <2>1. CASE \E row : Adds(row)
    <3>1. PICK row : Adds(row)
      BY <2>1
    <3>2. observations' = observations \cup {row} /\ row.action = hooks + 1 /\ hooks \in Nat
      BY <3>1 DEF Adds, ActionOf, Correlated
    <3>3. \A o \in observations : o.action \in Int /\ o.action =< hooks
      BY DEF OutcomesInv, TypeOK, Observation, RowsInv
    <3>4. \A a \in Old : row.action # a
      BY <3>2, <3>3
    <3>5. \A a \in Old :
            /\ {o \in observations' : o.action = a} = {o \in observations : o.action = a}
            /\ a \in UnresolvedActions(observations') <=> a \in UnresolvedActions(observations)
      BY <3>2, <3>4, OtherAction
    <3>6. \A a \in Old : a \in {o.action : o \in observations'}
      BY <3>2
    <3>7. \A a \in Old : a \in ReadsStopped(observations') <=> a \in ReadsStopped(observations)
      <4> SUFFICES ASSUME NEW a \in Old
                   PROVE  a \in ReadsStopped(observations') <=> a \in ReadsStopped(observations)
        OBVIOUS
      <4>1. \A o : o \in observations' /\ o.action = a <=> o \in observations /\ o.action = a
        BY <3>5
      <4>2. a \in {o.action : o \in observations'} \ UnresolvedActions(observations')
              <=> a \in {o.action : o \in observations} \ UnresolvedActions(observations)
        BY <3>5, <3>6
      <4> QED
        BY <4>1, <4>2 DEF ReadsStopped
    <3> QED
      BY <1>1, <1>2, <3>5, <3>7
  <2>2. CASE UNCHANGED observations
    BY <1>1, <1>2, <2>2
  <2> QED
    BY <2>1, <2>2, Steps DEF LoseKey, vars
<1> QED
  BY <1>3, Invariance, PTL DEF Spec, LostKeyFreezesOutcomes

-----------------------------------------------------------------------------
\* What an action that is not unresolved means

\* The resolver needs no luck with the order or the number of the rows: if it
\* leaves an action alone, each pair that may have crossed has its receipt.
THEOREM ResolvedAreExplained == Spec => []ResolvedIsExplained
<1>1. ResolvedIsExplained
  <2> SUFFICES ASSUME NEW o \in observations, o.potential,
                      o.action \notin UnresolvedActions(observations),
                      NEW e \in o.events
               PROVE  \E w \in observations :
                        /\ w.action = o.action /\ w.boundary = o.boundary
                        /\ Tells(w, e.pair)
    BY DEF ResolvedIsExplained
  <2> DEFINE G == Partition(observations, o.action, o.boundary)
  <2>1. o \in G /\ \A w \in G : /\ w \in observations /\ w.action = o.action
                                /\ w.boundary = o.boundary
    BY DEF Partition
  <2>2. ~Unresolved(G)
    BY UnresolvedThere
  <2> HIDE DEF G
  <2>3. CASE BoundaryStopped(G)
    BY <2>1, <2>3 DEF BoundaryStopped, Tells
  <2>4. CASE ~BoundaryStopped(G)
    <3>1. ~Unmatchable(G)
      BY <2>2, <2>4 DEF Unresolved
    <3>2. e.pair # Nobody /\ e.pair \in Pairs(o)
      BY <2>1, <3>1 DEF Unmatchable, Pairs
    <3>3. e.pair \in Crossing(G)
      BY <2>1, <3>2, AtStake
    <3>4. e.pair \in Receipts(G, Stopped \cup {"crossed", "rewriteEnforced"})
      BY <2>2, <2>4, <3>3 DEF Unresolved
    <3>5. PICK w \in {w \in G : w.scope = "pairs"} : \E f \in w.events :
             f.pair = e.pair /\ f.evidence \cap (Stopped \cup {"crossed", "rewriteEnforced"}) # {}
      BY <3>4 DEF Receipts, Facts
    <3>6. Stopped \cup {"crossed", "rewriteEnforced"} \subseteq Resolving
      BY DEF Stopped, Resolving
    <3>7. Tells(w, e.pair)
      BY <3>2, <3>5, <3>6 DEF Tells
    <3> QED
      BY <2>1, <3>5, <3>7
  <2> QED
    BY <2>3, <2>4
<1> QED
  BY <1>1, PTL

\* Without receipts nothing that may have crossed, and nothing denied, is
\* ever taken for settled.
THEOREM SilenceIsOpen == Spec => []SilentActionsAreOpen
<1>1. OutcomesInv => SilentActionsAreOpen
  <2> SUFFICES ASSUME OutcomesInv, NEW o \in observations,
                      o.boundary # "B0" \/ "denyIssued" \in o.evidence,
                      \A w \in observations : w.action = o.action => w.scope = "none"
               PROVE  o.action \in UnresolvedActions(observations)
    BY DEF SilentActionsAreOpen
  <2> DEFINE G == Partition(observations, o.action, o.boundary)
  <2>1. o \in G /\ \A w \in G : w.scope = "none"
    BY DEF Partition
  <2> HIDE DEF G
  <2>2. ~BoundaryStopped(G) /\ ~ZeroReceipt(G)
    BY <2>1 DEF BoundaryStopped, ZeroReceipt
  <2>3. \A bits : Receipts(G, bits) = {}
    BY <2>1 DEF Receipts, Facts
  <2>4. CASE "denyIssued" \in o.evidence
    <3>1. Denials(G) # {}
      BY <2>1, <2>4 DEF Denials
    <3>2. ~PairsStopped(G)
      BY <2>3 DEF PairsStopped
    <3> QED
      BY <2>2, <3>1, <3>2, UnresolvedThere DEF Unresolved, G
  <2>5. CASE o.boundary # "B0"
    <3>1. o.potential
      BY <2>5 DEF OutcomesInv, RowsInv
    <3>2. CASE o.events = {}
      <4>1. ZeroFinding(G)
        BY <2>1, <3>1, <3>2 DEF ZeroFinding
      <4> QED
        BY <2>2, <4>1, UnresolvedThere DEF Unresolved, G
    <3>3. CASE o.events # {}
      <4>1. PICK e \in o.events : TRUE
        BY <3>3
      <4>2. e.pair \in Pairs(o)
        BY DEF Pairs
      <4>3. CASE e.pair = Nobody
        <5>1. Unmatchable(G)
          BY <2>1, <3>1, <4>2, <4>3 DEF Unmatchable
        <5> QED
          BY <2>2, <5>1, UnresolvedThere DEF Unresolved, G
      <4>4. CASE e.pair # Nobody
        <5>1. e.pair \in Crossing(G)
          BY <2>1, <3>1, <4>2, <4>4, AtStake
        <5> QED
          BY <2>2, <2>3, <5>1, UnresolvedThere DEF Unresolved, G
      <4> QED
        BY <4>3, <4>4
    <3> QED
      BY <3>2, <3>3
  <2> QED
    BY <2>4, <2>5
<1> QED
  BY <1>1, Invariance, PTL
=============================================================================
