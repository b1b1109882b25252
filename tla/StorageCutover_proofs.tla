----------------------- MODULE StorageCutover_proofs -----------------------
(***************************************************************************)
(* Proofs about StorageCutover, for any rows and any number of crashes.    *)
(***************************************************************************)
EXTENDS StorageCutover, TLAPS

USE CutoverAssumption

-----------------------------------------------------------------------------
\* Type correctness

\* The initial state is typed.
LEMMA InitType == Init => TypeOK
<1> SUFFICES ASSUME Init PROVE TypeOK
  OBVIOUS
<1>1. {None, Holding({}), [None EXCEPT !.kind = "other"]} \subseteq File
  BY DEF None, Holding, File
<1>2. disk \in [Paths -> File]
  BY <1>1, Zenon DEF Init
<1>3. /\ NoProcess \in OldProcess
      /\ [stage |-> "none", preserved |-> FALSE]
            \in [stage : Stages, preserved : BOOLEAN]
  BY DEF NoProcess, OldProcess, Stages
<1>4. pc \in Steps /\ crashes \in 0..MaxCrashes
  BY DEF Init, Steps
<1> QED
  BY <1>2, <1>3, <1>4, Zenon DEF Init, TypeOK

\* Every journal record, step and path a step of the repair writes is one of
\* those declared.
LEMMA RepairType == TypeOK /\ Repair => TypeOK'
<1> SUFFICES ASSUME TypeOK, Repair PROVE TypeOK'
  OBVIOUS
<1> USE DEF TypeOK, World, locals
<1>1. CASE Begin
  BY <1>1 DEF Begin, Journalled, Stages, Steps, Source, IsFile, Exists
<1>2. CASE Check
  BY <1>2 DEF Check, Held, HolderPaths, Stages, Steps
<1>3. CASE ReuseCopy
  BY <1>3 DEF ReuseCopy, Steps
<1>4. CASE StartCopy
  BY <1>4 DEF StartCopy, Steps, Paths, File
<1>5. CASE FinishCopy
  <2>1. Holding(SourceRows) \in File
    BY DEF Holding, SourceRows, File, Paths
  <2> QED
    BY <1>5, <2>1 DEF FinishCopy, Steps, Paths
<1>6. CASE Compare
  BY <1>6 DEF Compare, Steps, Paths, File, None
<1>7. CASE RetireDatabase
  BY <1>7 DEF RetireDatabase, Steps, Paths, File, None, Moved, OldProcess
<1>8. CASE RetireLog
  BY <1>8 DEF RetireLog, WithLogMoved, Steps, Paths, File, None, OldProcess
<1>9. CASE PutFence
  BY <1>9 DEF PutFence, Steps, Paths, File, Fence
<1>10. CASE Publish
  BY <1>10 DEF Publish, Steps, Paths, File, None, Moved
<1>11. CASE Record
  BY <1>11 DEF Record, StageDone, NextStep, Stages, Steps
<1>12. CASE Select
  BY <1>12 DEF Select, Steps
<1>13. CASE NoAnswer
  BY <1>13 DEF NoAnswer, Refuse, Steps
<1>14. CASE Refusal
  BY <1>14 DEF Refusal, Refuse, Steps
<1> QED
  BY <1>1, <1>2, <1>3, <1>4, <1>5, <1>6, <1>7, <1>8, <1>9, <1>10, <1>11, <1>12,
     <1>13, <1>14 DEF Repair

\* The older build keeps them.
LEMMA OldBuildType == TypeOK /\ OldBuild => TypeOK'
<1> SUFFICES ASSUME TypeOK, OldBuild PROVE TypeOK'
  OBVIOUS
<1> USE DEF TypeOK, Unchanged, locals
<1>0. /\ Checkpointed \in [Paths -> File]
      /\ [Checkpointed EXCEPT ![old.log] = None] \in [Paths -> File]
  <2>1. old.db \in Paths /\ old.log \in Paths
    BY DEF OldProcess, Paths
  <2>2. None \in File
    BY DEF None, File
  <2>3. [disk EXCEPT ![old.db].rows = @ \cup disk[old.log].rows] \in [Paths -> File]
    BY <2>1 DEF File
  <2>4. Checkpointed \in [Paths -> File]
    BY <2>1, <2>3 DEF Checkpointed, File
  <2> QED
    BY ONLY <2>1, <2>2, <2>4
<1>1. CASE OldAppears
  BY <1>1 DEF OldAppears, OldProcess, NoProcess
<1>2. CASE OldOpens
  BY <1>2 DEF OldOpens, OldProcess, NoProcess, Paths, File, None, Holding,
              Source, IsFile
<1>3. CASE OldCommits
  BY <1>3 DEF OldCommits, OldProcess, Paths, File
<1>4. CASE OldCheckpoints
  BY <1>0, <1>4 DEF OldCheckpoints
<1>5. CASE OldCloses
  BY <1>0, <1>5 DEF OldCloses, OldProcess, NoProcess
<1>6. CASE OldDies
  BY <1>6 DEF OldDies, OldProcess, NoProcess
<1> QED
  BY <1>1, <1>2, <1>3, <1>4, <1>5, <1>6 DEF OldBuild

\* So does a daemon of this generation.
LEMMA DaemonType == TypeOK /\ Daemon => TypeOK'
<1> SUFFICES ASSUME TypeOK, Daemon PROVE TypeOK'
  OBVIOUS
<1> USE DEF TypeOK, locals, LedgerPath, Paths, File
<1>1. CASE DaemonOpens
  BY <1>1 DEF DaemonOpens, Holding
<1>2. CASE DaemonCommits
  BY <1>2 DEF DaemonCommits
<1>3. CASE DaemonStops
  BY <1>3 DEF DaemonStops
<1> QED
  BY <1>1, <1>2, <1>3 DEF Daemon

\* Every step keeps the types.
LEMMA StepType == TypeOK /\ [Next]_vars => TypeOK'
<1> SUFFICES ASSUME TypeOK, [Next]_vars PROVE TypeOK'
  OBVIOUS
<1>1. CASE Crash
  BY <1>1 DEF Crash, TypeOK, locals, Steps
<1>2. CASE UNCHANGED vars
  BY <1>2 DEF vars, locals, TypeOK
<1> QED
  BY <1>1, <1>2, RepairType, OldBuildType, DaemonType DEF Next

\* Every value the cutover writes has its type: no journal names a stage the
\* code does not know.
THEOREM TypeCorrect == Spec => []TypeOK
  BY InitType, StepType, PTL DEF Spec

-----------------------------------------------------------------------------
\* The inductive invariant: where the records are at each step.

\* The rows that count: none of those written past the check.
Early == committed \ late

\* Past the fence the historical path stays a directory, and only then is
\* there an active store.
FenceInv ==
    /\ pc \in {"fenced", "publish", "published", "snapshots", "select",
              "selected", "starting"} => IsFenced
    /\ Exists("active") \/ selected \/ daemon => IsFenced
    /\ pc \in {"copy", "copying", "comparing", "verified", "retiring",
              "retire", "retireLog", "retired"} => ~IsFenced
    /\ pc = "check" /\ source => ~IsFenced

\* A repair that found a database has it until it retires it, and one that
\* found none retires none.
SourceInv ==
    /\ pc \in {"copy", "copying", "comparing", "verified", "retiring"} => source
    /\ pc \in {"check", "copy", "copying", "comparing", "verified", "retiring",
              "retire"} /\ source => Source /\ ~Exists("retained")
    /\ pc = "retire" /\ ~source => Exists("retained")
    /\ pc \in {"retireLog", "retired"} => Exists("retained")
    /\ Running /\ (source \/ Exists("retained")) => kept

\* While nothing is retained, an older build writes the historical database
\* and its log, and what it committed is there.
LegacyInv ==
    /\ old.at = "open" /\ old.db = "legacy" => Source
    /\ ~Exists("retained") \/ old.at # "open"
          => old.db = "legacy" /\ old.log = "legacyWal"
    /\ old.at = "open" => Exists(old.log)
    /\ ~Exists("legacyWal") => disk["legacyWal"].rows = {}
    /\ ~Exists("retained") /\ ~Exists("active")
          => Early \subseteq IF Source THEN SourceRows ELSE {}

\* From the comparison on, and as long as the original is not at its path
\* again, the staged copy has every row that counts.
StagedInv ==
    /\ \/ pc \in {"verified", "retiring"}
       \/ pc = "retire" /\ source
       \/ Exists("retained") /\ ~Source /\ ~Exists("active")
       => IsFile("staged") /\ Early \subseteq disk["staged"].rows

\* A selected build has the active store, or there never was a ledger.
SelectedInv ==
    /\ daemon => Exists("active")
    /\ selected \/ pc \in {"published", "snapshots", "select", "selected", "starting"}
          => Exists("active") \/ ~Exists("retained")

CutoverInv == /\ TypeOK /\ FenceInv /\ SourceInv /\ LegacyInv /\ StagedInv
              /\ SelectedInv /\ ActiveIsComplete

\* The invariant holds before anything was moved.
LEMMA InitInv == Init => CutoverInv
<1> SUFFICES ASSUME Init PROVE CutoverInv
  OBVIOUS
<1>1. TypeOK
  BY InitType
<1>2. ~Exists("retained") /\ ~Exists("active")
  BY DEF Init, Paths, None, Exists
<1> QED
  BY <1>1, <1>2 DEF Init, CutoverInv, None, Paths, Exists, FenceInv, SourceInv, LegacyInv, StagedInv,
     SelectedInv, ActiveIsComplete, Early, Running, NoProcess

\* The repair: every step leaves the records where the next one looks.
LEMMA RepairInv == CutoverInv /\ TypeOK' /\ Repair => CutoverInv'
<1> SUFFICES ASSUME CutoverInv, TypeOK', Repair PROVE CutoverInv'
  OBVIOUS
<1> USE DEF CutoverInv, TypeOK, FenceInv, SourceInv, LegacyInv, StagedInv,
        SelectedInv, ActiveIsComplete, Early, Running, Exists, IsFile, Source,
        IsFenced, SourceRows, World, locals, Paths, File
<1>1. CASE Begin
  BY <1>1 DEF Begin, Journalled, TwoLedgers
<1>2. CASE Check
  BY <1>2 DEF Check, Held, HolderPaths, Separated
<1>3. CASE ReuseCopy
  BY <1>3 DEF ReuseCopy, StagedMatches
<1>4. CASE StartCopy
  BY <1>4 DEF StartCopy
<1>5. CASE FinishCopy
  BY <1>5 DEF FinishCopy, Holding
<1>6. CASE Compare
  BY <1>6 DEF Compare, StagedMatches, None
<1>7. CASE RetireDatabase
  BY <1>7 DEF RetireDatabase, Moved, None
<1>8. CASE RetireLog
  <2>1. \A p \in Paths \ {"legacyWal", "retainedWal"} : disk'[p] = disk[p]
    BY <1>8 DEF RetireLog, WithLogMoved
  <2>p1. FenceInv'
    BY <1>8, <2>1 DEF RetireLog, WithLogMoved, None
  <2>p2. SourceInv'
    BY <1>8, <2>1 DEF RetireLog, WithLogMoved, None
  <2>p3. LegacyInv'
    BY <1>8, <2>1 DEF RetireLog, WithLogMoved, None
  <2>p4. StagedInv'
    BY <1>8, <2>1 DEF RetireLog, WithLogMoved, None
  <2>p5. SelectedInv'
    BY <1>8, <2>1 DEF RetireLog, WithLogMoved, None
  <2>p6. ActiveIsComplete'
    BY <1>8, <2>1 DEF RetireLog, WithLogMoved, None
  <2> QED
    BY <2>p1, <2>p2, <2>p3, <2>p4, <2>p5, <2>p6
<1>9. CASE PutFence
  BY <1>9 DEF PutFence, PathFree, Fence
<1>10. CASE Publish
  <2>p1. FenceInv'
    BY <1>10 DEF Publish, Publishable, Moved, None
  <2>p2. SourceInv'
    BY <1>10 DEF Publish, Publishable, Moved, None
  <2>p3. LegacyInv'
    <3>1. \A p \in Paths \ {"staged", "active"} : disk'[p] = disk[p]
      BY <1>10 DEF Publish, Moved
    <3>2. Exists("active")' \/ disk' = disk
      BY <1>10 DEF Publish, Moved
    <3>3. UNCHANGED <<old, committed, late>>
      BY <1>10 DEF Publish
    <3>4. CASE disk' = disk
      BY <3>3, <3>4
    <3>5. CASE Exists("active")'
      <4>1. \A p \in {"legacy", "legacyWal", "retained", "retainedWal"} :
               disk'[p] = disk[p]
        BY <3>1
      <4> QED
        BY <3>3, <3>5, <4>1 DEF OldProcess
    <3> QED
      BY <3>2, <3>4, <3>5
  <2>p4. StagedInv'
    BY <1>10 DEF Publish, Publishable, Moved, None
  <2>p5. SelectedInv'
    BY <1>10 DEF Publish, Publishable, Moved, None
  <2>p6. ActiveIsComplete'
    BY <1>10 DEF Publish, Publishable, Moved, None
  <2> QED
    BY <2>p1, <2>p2, <2>p3, <2>p4, <2>p5, <2>p6
<1>11. CASE Record
  BY <1>11 DEF Record, NextStep
<1>12. CASE Select
  BY <1>12 DEF Select
<1>13. CASE NoAnswer
  BY <1>13 DEF NoAnswer, Refuse
<1>14. CASE Refusal
  BY <1>14 DEF Refusal, Refuse
<1> QED
  BY <1>1, <1>2, <1>3, <1>4, <1>5, <1>6, <1>7, <1>8, <1>9, <1>10, <1>11, <1>12, <1>13, <1>14 DEF Repair

\* The older build: it adds to the ledger it has open, and to no other.
LEMMA OldBuildInv == CutoverInv /\ TypeOK' /\ OldBuild => CutoverInv'
<1> SUFFICES ASSUME CutoverInv, TypeOK', OldBuild PROVE CutoverInv'
  OBVIOUS
<1> USE DEF CutoverInv, TypeOK, FenceInv, SourceInv, LegacyInv, StagedInv,
        SelectedInv, ActiveIsComplete, Early, Running, Exists, IsFile, Source,
        IsFenced, SourceRows, Unchanged, locals, Paths, File, OldProcess
<1>1. CASE OldAppears
  BY <1>1 DEF OldAppears, NoProcess
<1>2. CASE OldOpens
  <2>1. \A p \in Paths \ {"legacy", "legacyWal"} : disk'[p] = disk[p]
    BY <1>2 DEF OldOpens
  <2>2. CASE disk["legacy"].kind \in {"dir", "other"}
    BY <1>2, <2>2 DEF OldOpens, NoProcess
  <2>3. CASE Source
    <3>1. disk'["legacy"] = disk["legacy"]
      BY <1>2, <2>3 DEF OldOpens
    <3>2. disk'["legacyWal"].rows = disk["legacyWal"].rows /\ Exists("legacyWal")'
      <4>1. disk'["legacyWal"] = IF Exists("legacyWal") THEN disk["legacyWal"]
                                                       ELSE Holding({})
        BY <1>2, <2>3 DEF OldOpens
      <4>2. ~Exists("legacyWal") => disk["legacyWal"].rows = {}
        BY <1>2, <2>3 DEF LegacyInv, None
      <4> QED
        BY ONLY <4>1, <4>2 DEF Holding, Exists
    <3>p1. FenceInv'
      BY <1>2, <2>1, <2>3, <3>1, <3>2 DEF OldOpens, NoProcess, Holding
    <3>p2. SourceInv'
      BY <1>2, <2>1, <2>3, <3>1, <3>2 DEF OldOpens, NoProcess, Holding
    <3>p3. LegacyInv'
      BY <1>2, <2>1, <2>3, <3>1, <3>2 DEF OldOpens, NoProcess, Holding
    <3>p4. StagedInv'
      BY <1>2, <2>1, <2>3, <3>1, <3>2 DEF OldOpens, NoProcess, Holding
    <3>p5. SelectedInv'
      BY <1>2, <2>1, <2>3, <3>1, <3>2 DEF OldOpens, NoProcess, Holding
    <3>p6. ActiveIsComplete'
      BY <1>2, <2>1, <2>3, <3>1, <3>2 DEF OldOpens, NoProcess, Holding
    <3> QED
      BY <3>p1, <3>p2, <3>p3, <3>p4, <3>p5, <3>p6
  <2>4. CASE ~Source /\ disk["legacy"].kind \notin {"dir", "other"}
    <3>1. disk'["legacy"].kind = "file" /\ Exists("legacyWal")'
      BY <1>2, <2>4 DEF OldOpens, Holding
    <3>p1. FenceInv'
      BY <1>2, <2>1, <2>4, <3>1 DEF OldOpens, NoProcess, Holding
    <3>p2. SourceInv'
      BY <1>2, <2>1, <2>4, <3>1 DEF OldOpens, NoProcess, Holding
    <3>p3. LegacyInv'
      BY <1>2, <2>1, <2>4, <3>1 DEF OldOpens, NoProcess, Holding
    <3>p4. StagedInv'
      BY <1>2, <2>1, <2>4, <3>1 DEF OldOpens, NoProcess, Holding
    <3>p5. SelectedInv'
      BY <1>2, <2>1, <2>4, <3>1 DEF OldOpens, NoProcess, Holding
    <3>p6. ActiveIsComplete'
      BY <1>2, <2>1, <2>4, <3>1 DEF OldOpens, NoProcess, Holding
    <3> QED
      BY <3>p1, <3>p2, <3>p3, <3>p4, <3>p5, <3>p6
  <2> QED
    BY <2>2, <2>3, <2>4
<1>3. CASE OldCommits
  <2>p1. FenceInv'
    BY <1>3 DEF OldCommits, PastCheck
  <2>p2. SourceInv'
    BY <1>3 DEF OldCommits, PastCheck
  <2>p3. LegacyInv'
    BY <1>3 DEF OldCommits, PastCheck
  <2>p4. StagedInv'
    BY <1>3 DEF OldCommits, PastCheck
  <2>p5. SelectedInv'
    BY <1>3 DEF OldCommits, PastCheck
  <2>p6. ActiveIsComplete'
    BY <1>3 DEF OldCommits, PastCheck
  <2> QED
    BY <2>p1, <2>p2, <2>p3, <2>p4, <2>p5, <2>p6
<1>4. CASE OldCheckpoints
  <2>0. /\ disk' = [disk EXCEPT ![old.db].rows = @ \cup disk[old.log].rows, ![old.log].rows = {}]
        /\ disk \in [Paths -> File] /\ old \in OldProcess
    BY <1>4 DEF OldCheckpoints, Checkpointed
  <2>1. \A p \in Paths : disk'[p].kind = disk[p].kind
    BY ONLY <2>0 DEF File
  <2>2. \A p \in Paths \ {old.log} : disk[p].rows \subseteq disk'[p].rows
    BY ONLY <2>0 DEF File
  <2>3. \A p \in Paths \ {old.db, old.log} : disk'[p].rows = disk[p].rows
    BY ONLY <2>0 DEF File
  <2>4. disk'[old.log].rows = {}
    BY ONLY <2>0 DEF File, OldProcess, Paths
  <2>5. old.db # old.log => disk'[old.db].rows = disk[old.db].rows \cup disk[old.log].rows
    BY ONLY <2>0 DEF File, OldProcess, Paths
  <2>6. UNCHANGED <<old, committed, late>> /\ Unchanged /\ old.at = "open"
    BY <1>4 DEF OldCheckpoints
  <2>p1. FenceInv'
    BY <2>1, <2>6
  <2>p2. SourceInv'
    BY <2>1, <2>6
  <2>p3. LegacyInv'
    BY <2>1, <2>3, <2>4, <2>5, <2>6
  <2>p4. StagedInv'
    BY <2>1, <2>2, <2>3, <2>6
  <2>p5. SelectedInv'
    BY <2>1, <2>6
  <2>p6. ActiveIsComplete'
    BY <2>1, <2>2, <2>6
  <2> QED
    BY <2>p1, <2>p2, <2>p3, <2>p4, <2>p5, <2>p6
<1>5. CASE OldCloses
  <2>1. CASE old.db = "legacy" /\ old.log = "legacyWal"
    BY <1>5, <2>1 DEF OldCloses, Checkpointed, NoProcess, None
  <2>2. CASE old.db = "legacy" /\ old.log = "retainedWal"
    <3>p1. FenceInv'
      BY <1>5, <2>2 DEF OldCloses, Checkpointed, NoProcess, None
    <3>p2. SourceInv'
      BY <1>5, <2>2 DEF OldCloses, Checkpointed, NoProcess, None
    <3>p3. LegacyInv'
      BY <1>5, <2>2 DEF OldCloses, Checkpointed, NoProcess, None
    <3>p4. StagedInv'
      BY <1>5, <2>2 DEF OldCloses, Checkpointed, NoProcess, None
    <3>p5. SelectedInv'
      BY <1>5, <2>2 DEF OldCloses, Checkpointed, NoProcess, None
    <3>p6. ActiveIsComplete'
      BY <1>5, <2>2 DEF OldCloses, Checkpointed, NoProcess, None
    <3> QED
      BY <3>p1, <3>p2, <3>p3, <3>p4, <3>p5, <3>p6
  <2>3. CASE old.db = "retained"
    BY <1>5, <2>3 DEF OldCloses, NoProcess
  <2> QED
    BY <2>1, <2>2, <2>3
<1>6. CASE OldDies
  BY <1>6 DEF OldDies, NoProcess
<1> QED
  BY <1>1, <1>2, <1>3, <1>4, <1>5, <1>6 DEF OldBuild

\* A daemon of this generation writes the active store only.
LEMMA DaemonInv == CutoverInv /\ TypeOK' /\ Daemon => CutoverInv'
<1> SUFFICES ASSUME CutoverInv, TypeOK', Daemon PROVE CutoverInv'
  OBVIOUS
<1> USE DEF CutoverInv, TypeOK, FenceInv, SourceInv, LegacyInv, StagedInv,
        SelectedInv, ActiveIsComplete, Early, Running, Exists, IsFile, Source,
        IsFenced, SourceRows, LedgerPath, locals, Paths, File
<1>1. CASE DaemonOpens
  BY <1>1 DEF DaemonOpens, Holding
<1>2. CASE DaemonCommits
  BY <1>2 DEF DaemonCommits
<1>3. CASE DaemonStops
  BY <1>3 DEF DaemonStops
<1> QED
  BY <1>1, <1>2, <1>3 DEF Daemon

\* Every step keeps the invariant, a crash among them.
LEMMA StepInv == CutoverInv /\ [Next]_vars => CutoverInv'
<1> SUFFICES ASSUME CutoverInv, [Next]_vars PROVE CutoverInv'
  OBVIOUS
<1>0. TypeOK'
  BY StepType DEF CutoverInv
<1> USE DEF CutoverInv, FenceInv, SourceInv, LegacyInv, StagedInv, SelectedInv,
        ActiveIsComplete, Early, Running, Exists, IsFile, Source, IsFenced,
        SourceRows, locals
<1>1. CASE Crash
  BY <1>0, <1>1 DEF Crash
<1>2. CASE UNCHANGED vars
  BY <1>0, <1>2 DEF vars
<1> QED
  BY <1>0, <1>1, <1>2, RepairInv, OldBuildInv, DaemonInv DEF Next

\* No row committed before the check of a cutover is missing from the active
\* store, however often the cutover died and was run again, and whatever an
\* older build did meanwhile.
THEOREM NothingLost == Spec => []ActiveIsComplete
<1>1. CutoverInv => ActiveIsComplete
  BY DEF CutoverInv
<1> QED
  BY <1>1, InitInv, StepInv, PTL DEF Spec

\* There is never a database at the historical path beside an active store.
THEOREM OneLedger == Spec => []OneStore
<1>1. CutoverInv => OneStore
  BY DEF CutoverInv, FenceInv, OneStore, Source, IsFile, IsFenced
<1> QED
  BY <1>1, InitInv, StepInv, PTL DEF Spec

-----------------------------------------------------------------------------
\* Why a repair refuses

\* A ledger that was there is there still: at its path or retired, and what
\* is retired has at most one log, unless a second ledger has appeared.
KeptInv ==
    /\ journal.preserved \/ (Running /\ kept) => Source \/ Exists("retained")
    /\ ~Exists("retained") => ~Exists("retainedWal")
    /\ Exists("legacyWal") /\ Exists("retainedWal") => Source
    /\ pc = "fence" /\ source => Exists("retained")

\* A copy is made of a ledger, and is gone once it is published.
CopyInv ==
    /\ Exists("staged") => Source \/ Exists("retained")
    /\ Exists("active") => ~Exists("staged")
    /\ pc \in {"copying", "comparing"} => Exists("staged")

\* A repair does not begin where something else is at the path.
PathInv == /\ disk["legacy"].kind # "part"
           /\ Running => disk["legacy"].kind # "other"

CauseInv == CutoverInv /\ KeptInv /\ CopyInv /\ PathInv

\* Nothing is retained, staged or running at first.
LEMMA InitCause == Init => CauseInv
  BY InitInv DEF Init, CauseInv, KeptInv, CopyInv, PathInv, Exists, None, Paths, Running,
     Holding

\* Every step keeps the causes.
LEMMA StepCause == CauseInv /\ [Next]_vars => CauseInv'
<1> SUFFICES ASSUME CauseInv, [Next]_vars PROVE CauseInv'
  OBVIOUS
<1>0. CutoverInv'
  BY StepInv DEF CauseInv
<1>t. TypeOK /\ FenceInv /\ SourceInv /\ SelectedInv /\ LegacyInv
  BY DEF CauseInv, CutoverInv
<1>u. /\ disk \in [Paths -> File] /\ old \in OldProcess
  BY <1>t DEF TypeOK
<1> USE DEF CauseInv, KeptInv, CopyInv, PathInv, Exists, IsFile, Source, IsFenced, Running,
        World, locals, Paths
<1>1. CASE Begin
  BY <1>0, <1>1, <1>t, <1>u DEF Begin, Journalled, OtherAtPath
<1>2. CASE Check
  BY <1>0, <1>2, <1>t, <1>u DEF Check, Separated, SourceInv
<1>3. CASE ReuseCopy \/ Select \/ NoAnswer \/ Refusal \/ Crash
  BY <1>0, <1>3, <1>t, <1>u DEF ReuseCopy, Select, NoAnswer, Refusal, Refuse, Crash
<1>4. CASE StartCopy \/ FinishCopy \/ Compare
  BY <1>0, <1>4, <1>t, <1>u DEF StartCopy, FinishCopy, Compare, Holding, None, SourceInv,
     FenceInv
<1>5. CASE RetireDatabase
  BY <1>0, <1>5, <1>t, <1>u DEF RetireDatabase, Moved, None, SourceInv, FenceInv
<1>6. CASE RetireLog
  BY <1>0, <1>6, <1>t, <1>u DEF RetireLog, WithLogMoved, None, SourceInv
<1>7. CASE PutFence
  BY <1>0, <1>7, <1>t, <1>u DEF PutFence, PathFree, Fence
<1>8. CASE Publish
  BY <1>0, <1>8, <1>t, <1>u DEF Publish, Moved, None
<1>9. CASE Record
  BY <1>0, <1>9, <1>t, <1>u DEF Record, NextStep, SourceInv
<1>10. CASE OldOpens
  BY <1>0, <1>10, <1>t, <1>u DEF OldOpens, Unchanged, Holding
<1>11. CASE OldAppears \/ OldDies
  BY <1>0, <1>11, <1>t, <1>u DEF OldAppears, OldDies, Unchanged
<1>12. CASE OldCommits \/ OldCheckpoints
  BY <1>0, <1>12, <1>t, <1>u DEF OldCommits, OldCheckpoints, Checkpointed, Unchanged,
     OldProcess, File
<1>13. CASE OldCloses
  BY <1>0, <1>13, <1>t, <1>u DEF OldCloses, Checkpointed, Unchanged, OldProcess, File, None
<1>14. CASE DaemonOpens
  <2>1. IsFenced /\ ~Source
    BY <1>14, <1>t DEF DaemonOpens, FenceInv
  <2>2. UNCHANGED <<journal, pc, kept, source>>
    BY <1>14 DEF DaemonOpens
  <2>3. \/ disk' = disk
        \/ ~Exists("active") /\ disk' = [disk EXCEPT !["active"] = Holding({})]
    BY <1>14, <2>1 DEF DaemonOpens, LedgerPath
  <2>4. disk' # disk => ~Exists("staged")
    BY <1>14, <1>t, <2>1, <2>3 DEF DaemonOpens, SelectedInv
  <2>5. \A p \in Paths \ {"active"} : disk'[p] = disk[p]
    BY <1>u, <2>3
  <2> QED
    BY <1>0, <2>2, <2>4, <2>5
<1>15. CASE DaemonCommits \/ DaemonStops
  <2>1. UNCHANGED <<journal, pc, kept, source>>
    BY <1>15 DEF DaemonCommits, DaemonStops
  <2>2. \/ disk' = disk
        \/ \E row \in Rows : disk' = [disk EXCEPT ![LedgerPath].rows = @ \cup {row}]
    BY <1>15 DEF DaemonCommits, DaemonStops
  <2>3. \A p \in Paths : disk'[p].kind = disk[p].kind
    <3>1. CASE disk' = disk
      BY <3>1
    <3>2. ASSUME NEW row \in Rows, disk' = [disk EXCEPT ![LedgerPath].rows = @ \cup {row}]
          PROVE  \A p \in Paths : disk'[p].kind = disk[p].kind
      <4> DEFINE q == LedgerPath
                 d == [disk[q] EXCEPT !.rows = @ \cup {row}]
      <4>1. q \in Paths /\ disk[q] \in File
        BY <1>u DEF LedgerPath
      <4>2. d.kind = disk[q].kind
        BY <4>1 DEF File
      <4>3. disk' = [disk EXCEPT ![q] = d]
        BY <3>2
      <4> HIDE DEF q, d
      <4> QED
        BY ONLY <1>u, <4>1, <4>2, <4>3
    <3> QED
      BY ONLY <2>2, <3>1, <3>2
  <2> QED
    BY <1>0, <2>1, <2>3
<1>16. CASE UNCHANGED vars
  BY <1>0, <1>16 DEF vars
<1> QED
  BY <1>1, <1>2, <1>3, <1>4, <1>5, <1>6, <1>7, <1>8, <1>9, <1>10, <1>11, <1>12, <1>13,
     <1>14, <1>15, <1>16 DEF Next, Repair, OldBuild, Daemon

\* A repair that stops without a crash and before it starts the daemon has
\* seen another process, or has found two ledgers or a copy that is not its
\* own: no crash of an earlier repair is a cause by itself.
THEOREM RefusalsHaveCauses == Spec => RefusalHasCause
<1> DEFINE Stops == Running /\ pc' = "idle" /\ crashes' = crashes /\ pc # "starting"
           Cause == \/ old.at # "none"
                    \/ Source /\ (~source \/ Exists("retained") \/ Exists("staged"))
<1>1. ASSUME CauseInv, [Next]_vars PROVE [Stops => Cause]_vars
  <2> SUFFICES ASSUME Stops, Next, old.at = "none" PROVE Cause
    BY <1>1
  <2>t. TypeOK /\ FenceInv /\ SourceInv /\ StagedInv
    BY <1>1 DEF CauseInv, CutoverInv
  <2>k. KeptInv /\ CopyInv /\ PathInv /\ disk["legacy"] \in File
    BY <1>1, <2>t DEF CauseInv, TypeOK, Paths
  <2> USE DEF KeptInv, CopyInv, PathInv, Exists, IsFile, Source, IsFenced, Running
  <2>1. Compare \/ Refusal
    <3>1. ~Crash /\ ~NoAnswer
      BY <2>t DEF Crash, NoAnswer, TypeOK
    <3>2. ~(OldBuild \/ Daemon)
      BY DEF OldBuild, OldAppears, OldOpens, OldCommits, OldCheckpoints, OldCloses, OldDies,
         Unchanged, Daemon, DaemonOpens, DaemonCommits, DaemonStops
    <3>3. ~(Begin \/ Check \/ ReuseCopy \/ StartCopy \/ FinishCopy \/ RetireDatabase
            \/ RetireLog \/ PutFence \/ Publish \/ Record \/ Select)
      BY DEF Begin, Check, ReuseCopy, StartCopy, FinishCopy, RetireDatabase, RetireLog,
         PutFence, Publish, Record, NextStep, Select
    <3> QED
      BY <3>1, <3>2, <3>3 DEF Next, Repair
  <2>2. CASE Compare
    BY <2>2, <2>t, <2>k DEF Compare, SourceInv
  <2>3. CASE Refusal
    <3>1. CASE pc = "copy" /\ Exists("staged")
      BY <3>1, <2>t DEF SourceInv
    <3>2. CASE pc = "retire" /\ Exists("legacy") /\ Exists("retained")
      BY <3>2, <2>t, <2>k DEF FenceInv, File
    <3>3. CASE pc = "retireLog" /\ Exists("legacyWal") /\ Exists("retainedWal")
      BY <3>3, <2>k
    <3>4. CASE pc = "fence" /\ ~PathFree
      BY <3>4, <2>k DEF PathFree, File
    <3>5. CASE pc = "publish" /\ kept /\ ~Publishable
      BY <3>5, <2>t, <2>k DEF Publishable, FenceInv, StagedInv
    <3> QED
      BY <2>3, <3>1, <3>2, <3>3, <3>4, <3>5 DEF Refusal
  <2> QED
    BY <2>1, <2>2, <2>3
<1>2. []CauseInv /\ [][Next]_vars => RefusalHasCause
  BY <1>1, PTL DEF RefusalHasCause
<1>3. Spec => []CauseInv
  BY InitCause, StepCause, PTL DEF Spec
<1> QED
  BY <1>2, <1>3, PTL DEF Spec
=============================================================================
