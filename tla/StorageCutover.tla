--------------------------- MODULE StorageCutover ---------------------------
(***************************************************************************)
(* The move of the ledger behind the fence (runtime_storage.prepare_storage*)
(* as runtime_repair.repair_runtime runs it): the database at the          *)
(* historical path is copied through SQLite, retired with its sidecars,    *)
(* the path is occupied by a directory, and the copy is published as the   *)
(* active store.                                                           *)
(*                                                                         *)
(* Every durable step and every journal write is an action, and the        *)
(* repair can die between any two of them and be run again; only the disk  *)
(* survives.  A process of an older build, which knows neither the locks   *)
(* nor the fence, opens the historical path whenever it likes.             *)
(*                                                                         *)
(* A database is the set of rows committed to it, those of the write-ahead *)
(* log in a file of their own.  Only this repair runs: the transition lock *)
(* and the writer lease are held throughout, which keeps every other       *)
(* repair and every daemon of this generation out.                         *)
(***************************************************************************)
EXTENDS Integers, FiniteSets

CONSTANTS
    Rows,           \* rows a process may commit, each once
    MaxCrashes      \* bound on the deaths of the repair

ASSUME CutoverAssumption == MaxCrashes \in Nat

VARIABLES
    disk,           \* what each path holds
    journal,        \* runtime-transition.json
    pc,             \* the next step of the repair
    source,         \* its local `source`: there was a database to move
    kept,           \* its local `preserved`
    selected,       \* a receipt selects this build: its daemon may run
    old,            \* the process of the older build
    daemon,         \* a daemon of this generation has the ledger open
    committed,      \* history: the rows ever committed
    late,           \* history: those the older build committed while a
                    \* cutover was past its check, or to a retired file
    crashes         \* how often the repair died

locals == <<source, kept>>
vars == <<disk, journal, pc, locals, selected, old, daemon, committed, late,
          crashes>>

-----------------------------------------------------------------------------
\* The disk

\* "legacy" is $PLUGIN_DATA/ledger.db; "retained" and "staged" are the files
\* of the transition directory; "active" is ledger/active.db.
Paths == {"legacy", "legacyWal", "retained", "retainedWal", "staged",
          "active"}

\* "file": a database or its log; "part": a copy SQLite has not finished;
\* "dir": the fence; "other": anything else at the historical path.
File == [kind : {"none", "file", "part", "dir", "other"}, rows : SUBSET Rows]

None  == [kind |-> "none", rows |-> {}]
Holding(rows) == [kind |-> "file", rows |-> rows]

\* A directory: SQLite cannot open it.  (Mutant: an empty file, which it can.)
EmptyFile == Holding({})
Fence == [kind |-> "dir", rows |-> {}]

Exists(p) == disk[p].kind # "none"
IsFile(p) == disk[p].kind = "file"

\* _source: the database at the historical path, if there is one.
Source == IsFile("legacy")

IsFenced == disk["legacy"].kind = "dir"

\* What SQLite reads from a database: its pages and its log.
\* (Mutant PagesOnly: a copy of the file.)
PagesOnly == disk["legacy"].rows
SourceRows == disk["legacy"].rows \cup disk["legacyWal"].rows

\* codex.ledger_path: the one database every surface opens.
LedgerPath == IF IsFenced THEN "active" ELSE "legacy"

Stages == {"none", "validated", "quiesced", "backup_verified",
           "retirement_started", "legacy_retired", "legacy_fenced",
           "active_published", "snapshots_retired", "receipt_published",
           "ready"}

\* The next thing the repair does; "idle" when none runs.
Steps == {"idle", "check", "copy", "copying", "comparing", "verified",
          "retiring", "retire", "retireLog", "retired", "fence", "fenced",
          "publish", "published", "snapshots", "select", "selected",
          "starting"}

\* The older build's process: the paths its open files have now.
OldProcess == [at : {"none", "starting", "open"},
               db : {"legacy", "retained"}, log : {"legacyWal", "retainedWal"}]

NoProcess == [at |-> "none", db |-> "legacy", log |-> "legacyWal"]

TypeOK ==
    /\ disk \in [Paths -> File]
    /\ journal \in [stage : Stages, preserved : BOOLEAN]
    /\ pc \in Steps
    /\ source \in BOOLEAN /\ kept \in BOOLEAN
    /\ selected \in BOOLEAN /\ daemon \in BOOLEAN
    /\ old \in OldProcess
    /\ committed \in SUBSET Rows /\ late \in SUBSET Rows
    /\ crashes \in 0..MaxCrashes

\* A fresh installation, one an older build used, or a path that is taken.
Init ==
    /\ \E first \in {None, Holding({}), [None EXCEPT !.kind = "other"]} :
          disk = [p \in Paths |-> IF p = "legacy" THEN first ELSE None]
    /\ journal = [stage |-> "none", preserved |-> FALSE]
    /\ pc = "idle" /\ source = FALSE /\ kept = FALSE /\ selected = FALSE
    /\ old = NoProcess /\ daemon = FALSE
    /\ committed = {} /\ late = {} /\ crashes = 0

-----------------------------------------------------------------------------
\* The repair

Running == pc # "idle"
PastCheck == pc \notin {"idle", "check"}

Moved(from, to) == [disk EXCEPT ![to] = disk[from], ![from] = None]
Journalled(stage) == [stage |-> stage, preserved |-> kept']

\* What a step leaves alone, and what a refusal does: nothing.
World == UNCHANGED <<selected, daemon, committed, late, crashes>>
Refuse == pc' = "idle" /\ UNCHANGED <<disk, journal, locals, old>> /\ World

\* Two candidates for the user's ledger, or something else at the path.
TwoLedgers == Source /\ Exists("retained")
OtherAtPath == Exists("legacy") /\ ~Source /\ ~IsFenced

\* repair_runtime has both locks; prepare_storage reads the disk.
Begin ==
    /\ pc = "idle" /\ ~daemon
    /\ ~TwoLedgers /\ ~OtherAtPath
    /\ pc' = "check"
    /\ source' = Source
    /\ kept' = (Source \/ Exists("retained") \/ journal.preserved)
    /\ journal' = Journalled("validated")
    /\ UNCHANGED <<disk, old>>
    /\ World

\* An interrupted retirement, between the rename of the database and that of
\* its log.  (Mutant: the fence is not looked at.)
SeparatedOrFenced == ~source /\ IsFile("retained")
Separated == ~source /\ IsFile("retained") /\ ~IsFenced

\* holder_paths: every place a database may be, the retired ones included.  A
\* process that has one open is seen, whatever it is.
HolderPaths == {"legacy", "active", "retained", "staged"}
Held == old.at = "open" /\ old.db \in HolderPaths

\* check_quiescence; a process that has not opened the ledger yet is seen only
\* if it has a socket or a marker.
Check ==
    /\ pc = "check"
    /\ ~Held
    /\ pc' = IF source THEN "copy" ELSE IF Separated THEN "retire" ELSE "fence"
    /\ journal' = [journal EXCEPT !.stage = "quiesced"]
    /\ UNCHANGED <<disk, locals, old>>
    /\ World

\* A copy that is already there has to match.
StagedMatches == IsFile("staged") /\ disk["staged"].rows = SourceRows

ReuseCopy ==
    /\ pc = "copy" /\ Exists("staged")
    /\ StagedMatches
    /\ pc' = "verified"
    /\ UNCHANGED <<disk, journal, locals, old>>
    /\ World

\* _stage_backup: SQLite's backup, then the comparison with the source.
StartCopy ==
    /\ pc = "copy" /\ ~Exists("staged")
    /\ disk' = [disk EXCEPT !["staged"] = [kind |-> "part", rows |-> {}]]
    /\ pc' = "copying"
    /\ UNCHANGED <<journal, locals, old>>
    /\ World

FinishCopy ==
    /\ pc = "copying"
    /\ disk' = [disk EXCEPT !["staged"] = Holding(SourceRows)]
    /\ pc' = "comparing"
    /\ UNCHANGED <<journal, locals, old>>
    /\ World

Compare ==
    /\ pc = "comparing"
    /\ IF StagedMatches THEN pc' = "verified" /\ UNCHANGED disk
       ELSE pc' = "idle" /\ disk' = [disk EXCEPT !["staged"] = None]
    /\ UNCHANGED <<journal, locals, old>>
    /\ World

\* _retire: the database first, then its sidecars; a process that has them
\* open keeps them.
RetireDatabase ==
    /\ pc = "retire"
    /\ Exists("legacy") => ~Exists("retained")
    /\ disk' = IF Exists("legacy") THEN Moved("legacy", "retained") ELSE disk
    /\ old' = IF Exists("legacy") /\ old.at = "open"
              THEN [old EXCEPT !.db = "retained"] ELSE old
    /\ pc' = "retireLog"
    /\ UNCHANGED <<journal, locals>>
    /\ World

WithLogMoved(d) == IF d["legacyWal"].kind = "none" THEN d
                   ELSE [d EXCEPT !["retainedWal"] = d["legacyWal"],
                                  !["legacyWal"] = None]

RetireLog ==
    /\ pc = "retireLog"
    /\ Exists("legacyWal") => ~Exists("retainedWal")
    /\ disk' = WithLogMoved(disk)
    /\ old' = IF Exists("legacyWal") /\ old.at = "open"
              THEN [old EXCEPT !.log = "retainedWal"] ELSE old
    /\ pc' = "retired"
    /\ UNCHANGED <<journal, locals>>
    /\ World

\* _fence: a file at the path is never replaced.
PathFree == IsFenced \/ ~Exists("legacy")

PutFence ==
    /\ pc = "fence"
    /\ PathFree
    /\ disk' = [disk EXCEPT !["legacy"] = Fence]
    /\ pc' = "fenced"
    /\ UNCHANGED <<journal, locals, old>>
    /\ World

\* _publish_active; a fresh installation publishes nothing.
\* (Mutant StagedOnly: an earlier publication is not recognised.)
StagedOnly == Exists("staged")
Publishable == Exists("active") # Exists("staged")

Publish ==
    /\ pc = "publish"
    /\ kept => Publishable
    /\ disk' = IF kept /\ Exists("staged") THEN Moved("staged", "active")
                                           ELSE disk
    /\ pc' = "published"
    /\ UNCHANGED <<journal, locals, old>>
    /\ World

\* The journal write after a step.
StageDone ==
    CASE pc = "verified" -> "backup_verified"    [] pc = "retiring" -> "retirement_started"
      [] pc = "retired" -> "legacy_retired"      [] pc = "fenced" -> "legacy_fenced"
      [] pc = "published" -> "active_published"  [] pc = "snapshots" -> "snapshots_retired"
      [] pc = "selected" -> "receipt_published"  [] pc = "starting" -> "ready"

NextStep ==
    CASE pc = "verified" -> "retiring"  [] pc = "retiring" -> "retire"
      [] pc = "retired" -> "fence"      [] pc = "fenced" -> "publish"
      [] pc = "published" -> "snapshots" [] pc = "snapshots" -> "select"
      [] pc = "selected" -> "starting"  [] pc = "starting" -> "idle"

Record ==
    /\ pc \in {"verified", "retiring", "retired", "fenced", "published",
              "snapshots", "selected", "starting"}
    /\ journal' = [stage |-> StageDone, preserved |-> kept]
    /\ pc' = NextStep
    /\ UNCHANGED <<disk, locals, old>>
    /\ World

\* repair_runtime writes the receipt; then the lease goes back and the
\* daemon is started, which may not answer.
Select ==
    /\ pc = "select"
    /\ selected' = TRUE
    /\ pc' = "selected"
    /\ UNCHANGED <<disk, journal, locals, old, daemon, committed, late, crashes>>

NoAnswer ==
    /\ pc = "starting"
    /\ Refuse

\* The steps above refuse when they cannot be taken.
Refusal ==
    /\ \/ pc = "check" /\ old.at # "none"
       \/ pc = "copy" /\ Exists("staged") /\ ~StagedMatches
       \/ pc = "retire" /\ Exists("legacy") /\ Exists("retained")
       \/ pc = "retireLog" /\ Exists("legacyWal") /\ Exists("retainedWal")
       \/ pc = "fence" /\ ~PathFree
       \/ pc = "publish" /\ kept /\ ~Publishable
    /\ Refuse

Crash ==
    /\ Running /\ crashes < MaxCrashes
    /\ pc' = "idle" /\ crashes' = crashes + 1
    /\ UNCHANGED <<disk, journal, locals, selected, old, daemon, committed, late>>

Repair ==
    \/ Begin \/ Check \/ ReuseCopy \/ StartCopy \/ FinishCopy \/ Compare
    \/ RetireDatabase \/ RetireLog \/ PutFence \/ Publish \/ Record \/ Select
    \/ NoAnswer \/ Refusal

-----------------------------------------------------------------------------
\* The process of the older build

Unchanged == UNCHANGED <<journal, pc, locals, selected, daemon, crashes>>

OldAppears ==
    /\ old.at = "none"
    /\ old' = [NoProcess EXCEPT !.at = "starting"]
    /\ UNCHANGED <<disk, committed, late>>
    /\ Unchanged

\* Its Ledger opens the historical path, or creates a database there, for
\* which SQLite deletes a log it finds; a directory cannot be opened.
OldOpens ==
    /\ old.at = "starting"
    /\ IF disk["legacy"].kind \in {"dir", "other"}
       THEN old' = NoProcess /\ UNCHANGED disk
       ELSE /\ old' = [old EXCEPT !.at = "open"]
            /\ disk' = [disk EXCEPT
                 !["legacy"] = IF Source THEN @ ELSE Holding({}),
                 !["legacyWal"] = IF Source /\ Exists("legacyWal") THEN @
                                 ELSE Holding({})]
    /\ UNCHANGED <<committed, late>>
    /\ Unchanged

OldCommits ==
    /\ old.at = "open"
    /\ \E row \in Rows \ committed :
          /\ disk' = [disk EXCEPT ![old.log].rows = @ \cup {row}]
          /\ committed' = committed \cup {row}
          /\ late' = IF PastCheck \/ old.db # "legacy" THEN late \cup {row} ELSE late
    /\ UNCHANGED old
    /\ Unchanged

\* SQLite moves its log into the database: now and then, and with the log's
\* removal when the last connection closes and the file has not been moved.
Checkpointed == [disk EXCEPT ![old.db].rows = @ \cup disk[old.log].rows,
                             ![old.log].rows = {}]

OldCheckpoints ==
    /\ old.at = "open"
    /\ disk' = Checkpointed
    /\ UNCHANGED <<old, committed, late>>
    /\ Unchanged

OldCloses ==
    /\ old.at = "open"
    /\ old' = NoProcess
    /\ disk' = IF old.db = "legacy" THEN [Checkpointed EXCEPT ![old.log] = None]
                                    ELSE disk
    /\ UNCHANGED <<committed, late>>
    /\ Unchanged

OldDies ==
    /\ old.at # "none"
    /\ old' = NoProcess
    /\ UNCHANGED <<disk, committed, late>>
    /\ Unchanged

OldBuild == OldAppears \/ OldOpens \/ OldCommits \/ OldCheckpoints
              \/ OldCloses \/ OldDies

-----------------------------------------------------------------------------
\* The daemon of this generation, once it is selected and the writer lease is free

DaemonOpens ==
    /\ selected /\ pc \in {"idle", "starting"} /\ ~daemon
    /\ daemon' = TRUE
    /\ disk' = IF Exists(LedgerPath) THEN disk
               ELSE [disk EXCEPT ![LedgerPath] = Holding({})]
    /\ UNCHANGED <<journal, pc, locals, selected, old, committed, late, crashes>>

DaemonCommits ==
    /\ daemon
    /\ \E row \in Rows \ committed :
          /\ disk' = [disk EXCEPT ![LedgerPath].rows = @ \cup {row}]
          /\ committed' = committed \cup {row}
    /\ UNCHANGED <<journal, pc, locals, selected, old, daemon, late, crashes>>

DaemonStops ==
    /\ daemon
    /\ daemon' = FALSE
    /\ UNCHANGED <<disk, journal, pc, locals, selected, old, committed, late,
                   crashes>>

Daemon == DaemonOpens \/ DaemonCommits \/ DaemonStops

Next == Repair \/ Crash \/ OldBuild \/ Daemon

Spec == Init /\ [][Next]_vars

\* Somebody runs the repair again, and a repair that runs goes on.
FairSpec == Spec /\ WF_vars(Repair)

-----------------------------------------------------------------------------
\* Properties

\* The ledger is never in two places: no surface can read the wrong one
\* ("The two never coexist", codex.ledger_path).
OneStore == ~(Source /\ Exists("active"))

\* The active store holds every row committed before a cutover's check, those
\* of the write-ahead log and of daemons that died with it included, however
\* often the cutover was interrupted.
ActiveIsComplete ==
    Exists("active") => committed \ late \subseteq disk["active"].rows

\* Every interrupted cutover can be resumed: a repair refuses only for a
\* process it saw, a second database, a copy that is not the source's, or a
\* thing at the path that is no ledger.
RefusalHasCause ==
    [][ (Running /\ pc' = "idle" /\ crashes' = crashes /\ pc # "starting")
        => \/ old.at # "none"
           \/ Source /\ (~source \/ Exists("retained") \/ Exists("staged")) ]_vars

\* Once the fence stands a cutover that is run again ends published, if the
\* older build is not started for ever: no crash leaves it where every retry
\* refuses (FairSpec).
FencedIsPublished == <>[](old.at = "none") => (IsFenced ~> selected)

\* What _quiescent's comment says: the check is repeated "before retirement",
\* so that no retirement begins while a process has the ledger open.
RecheckedBeforeRetirement ==
    [][ (pc # "retiring" /\ pc' = "retiring") => old.at # "open" ]_vars
=============================================================================
