---------------------------- MODULE HudSnapshot ----------------------------
(***************************************************************************)
(* The snapshot file of one session (hud_snapshot.py) and everybody who    *)
(* writes it:                                                              *)
(*   "publish"  a worker thread of the daemon, under State.lock;           *)
(*   "beat"     the daemon's main thread, which takes no lock;             *)
(*   "toggle"   another process, for `$privacy hud on|off`.                *)
(* Each reads the file, and then opens, fills and renames one temporary    *)
(* file whose name they all share.  Readers (the status line, ambient.py,  *)
(* hud_status) look at the file at any time.                               *)
(*                                                                         *)
(* A reading is the number of the committed ledger state it was derived    *)
(* from and the daemon that derived it.  Sessions have a file each and do  *)
(* not meet, so one session is modelled.                                   *)
(***************************************************************************)
EXTENDS Naturals

CONSTANTS
    FreshFor,     \* a file older than this is not shown (STALE_AFTER)
    MaxDaemons,   \* bound: daemons, one after the other
    MaxReadings,  \* bound: hook events that change the ledger
    MaxToggles    \* bound: uses of the toggle

ASSUME DisplayAssumption ==
    /\ FreshFor \in Nat
    /\ MaxDaemons \in Nat
    /\ MaxReadings \in Nat
    /\ MaxToggles \in Nat

VARIABLES
    up,         \* a daemon serves
    daemon,     \* its number; 0 before the first
    accounting, \* accounting version of the session: 1 or 2
    row,        \* the session in the ledger: "none", "open" or "ended"
    reading,    \* the number of its committed ledger state
    live,       \* it is in State.live
    published,  \* it is in HudPublisher._published
    file,       \* what <session>.json names
    tmp,        \* what <session>.json.tmp names
    writer,     \* where each writer is
    toggles,    \* how often the toggle was used
    crossing    \* a toggle read the file of an earlier daemon

daemonVars == <<up, daemon, published>>
sessionVars == <<accounting, row, reading, live>>
toggleVars == <<toggles, crossing>>
fileVars == <<file, tmp>>
vars == <<daemonVars, sessionVars, toggleVars, fileVars, writer>>

-----------------------------------------------------------------------------
(* Files *)

Writers == {"publish", "beat", "toggle"}

Absent == [kind |-> "absent"]
\* truncated and not filled yet
Empty == [kind |-> "empty"]
\* filled by two writers, the longer document's tail left
Torn == [kind |-> "torn"]
Doc(by, n, hidden, age) ==
    [kind |-> "doc", by |-> by, reading |-> n, hidden |-> hidden, age |-> age]
Docs == [kind : {"doc"}, by : 1..MaxDaemons, reading : 0..MaxReadings,
         hidden : BOOLEAN, age : 0..(FreshFor + 1)]
Contents == Docs \cup {Empty, Torn}

\* _parse: what a writer wrote in one piece is valid, anything else is not
Parses(f) == f.kind = "doc"

\* read_snapshot with the staleness rule
Fresh(f) == Parses(f) /\ f.age <= FreshFor

\* hud_status: the four answers
Status(f) ==
    CASE ~Parses(f)                -> "absent"
      [] Parses(f) /\ ~Fresh(f)    -> "stale"
      [] Fresh(f) /\ f.hidden      -> "hidden"
      [] OTHER                     -> "shown"

\* ambient._line_for: the reading a pane draws, if any
Drawn(f) == IF Status(f) = "shown" THEN {f.reading} ELSE {}

\* Snapshot.doc with updated_at replaced
Stamped(f) == [f EXCEPT !.age = 0]

\* _current_hidden: a publisher carries the flag over, staleness ignored
CurrentHidden(f) == Parses(f) /\ f.hidden

Idle == [pc |-> "idle"]
\* at: where the writer's open file is linked now
Busy(pc, doc, at) == [pc |-> pc, doc |-> doc, at |-> at]

-----------------------------------------------------------------------------
(* Writing: HudPublisher._write *)

Init ==
    /\ up = FALSE
    /\ daemon = 0
    /\ accounting \in {1, 2}
    /\ row = "none"
    /\ reading = 0
    /\ live = FALSE
    /\ published = FALSE
    /\ file = Absent
    /\ tmp = Absent
    /\ writer = [w \in Writers |-> Idle]
    /\ toggles = 0
    /\ crossing = FALSE

\* The open files that were linked at place are linked at next from now on.
Relinked(ws, place, next) ==
    [w \in Writers |-> IF ws[w].pc # "idle" /\ ws[w].at = place
                       THEN [ws[w] EXCEPT !.at = next] ELSE ws[w]]

\* os.open(O_CREAT | O_TRUNC): a temporary file that is there is emptied,
\* and shared with the writer that has it open.
Open(w) ==
    /\ writer[w].pc = "read"
    /\ tmp' = Empty
    /\ writer' = [writer EXCEPT ![w] = Busy("open", @.doc, "tmp")]
    /\ UNCHANGED <<daemonVars, sessionVars, toggleVars, file>>

\* The document is written from the start of the open file.  Where another
\* writer's is already there, a longer one keeps its tail.
Over(old, doc) == IF old = Empty THEN {doc} ELSE {doc, Torn}

Fill(w) ==
    /\ writer[w].pc = "open"
    /\ writer' = [writer EXCEPT ![w].pc = "filled"]
    /\ CASE writer[w].at = "tmp"  -> tmp' \in Over(tmp, writer[w].doc) /\ UNCHANGED file
         [] writer[w].at = "file" -> file' \in Over(file, writer[w].doc) /\ UNCHANGED tmp
         [] OTHER                 -> UNCHANGED fileVars
    /\ UNCHANGED <<daemonVars, sessionVars, toggleVars>>

\* The write fails: the temporary name is removed, whoever it belongs to.
FillFails(w) ==
    /\ writer[w].pc = "open"
    /\ tmp' = Absent
    /\ writer' = [Relinked(writer, "tmp", "gone") EXCEPT ![w] = Idle]
    /\ UNCHANGED <<daemonVars, sessionVars, toggleVars, file>>

\* os.replace, and the publisher's claim once it succeeded
Replace(w) ==
    /\ writer[w].pc = "filled"
    /\ tmp # Absent
    /\ file' = tmp
    /\ tmp' = Absent
    /\ writer' = [Relinked(Relinked(writer, "file", "gone"), "tmp", "file")
                  EXCEPT ![w] = Idle]
    /\ published' = (published \/ w = "publish")
    /\ UNCHANGED <<up, daemon, sessionVars, toggleVars>>

\* Another writer has renamed the shared name away: FileNotFoundError.
ReplaceFails(w) ==
    /\ writer[w].pc = "filled"
    /\ tmp = Absent
    /\ writer' = [writer EXCEPT ![w] = Idle]
    /\ UNCHANGED <<daemonVars, sessionVars, toggleVars, fileVars>>

-----------------------------------------------------------------------------
(* The daemon *)

\* The name is removed; who has the file open keeps it without a name.
Unlinked == /\ file' = Absent
            /\ writer' = Relinked(writer, "file", "gone")

\* A hook of the session, of an ended one too: it is noted as live, the
\* ledger commits, and the handler, which keeps State.lock, reads the flag
\* it will carry over.
PublishReads ==
    /\ up
    /\ writer["publish"] = Idle
    /\ reading < MaxReadings
    /\ row' = IF row = "none" THEN "open" ELSE row
    /\ reading' = reading + 1
    /\ live' = TRUE
    /\ writer' = [writer EXCEPT !["publish"] =
                    Busy("read", Doc(daemon, reading + 1, CurrentHidden(file), 0), "none")]
    /\ UNCHANGED <<accounting, daemonVars, toggleVars, fileVars>>

\* SessionEnd: the row is ended and the snapshot retired under the lock.
EndSession ==
    /\ up
    /\ writer["publish"] = Idle
    /\ row = "open"
    /\ row' = "ended"
    /\ published' = FALSE
    /\ Unlinked
    /\ UNCHANGED <<up, daemon, accounting, reading, live, toggleVars, tmp>>

\* release_session comes last and outside the lock; a session nobody hears
\* of is dropped by the staleness rule.
Release ==
    /\ up
    /\ live
    /\ row = "ended" \/ writer["publish"] = Idle
    /\ live' = FALSE
    /\ UNCHANGED <<accounting, row, reading, daemonVars, toggleVars, fileVars, writer>>

\* (Mutant AnyReading: the files of other publishers too.)
AnyReading(f) == live /\ Parses(f)

\* (Mutant EndedToo: the sessions that were released too.)
EndedToo(f) == published /\ Parses(f)

\* heartbeat: what this publisher wrote, for sessions that are live, is read
\* back to be stamped.
Beats(f) == live /\ published /\ Parses(f)

BeatReads ==
    /\ up
    /\ writer["beat"] = Idle
    /\ Beats(file)
    /\ writer' = [writer EXCEPT !["beat"] = Busy("read", Stamped(file), "none")]
    /\ UNCHANGED <<daemonVars, sessionVars, toggleVars, fileVars>>

\* new_state: a daemon claims no file; it retires those of the open sessions
\* whose keys it lacks, and sweeps stray temporary files.
Inherits(f) == IF row = "open" /\ accounting = 2 THEN Absent ELSE f

DaemonStarts ==
    /\ ~up
    /\ daemon < MaxDaemons
    /\ up' = TRUE
    /\ daemon' = daemon + 1
    /\ published' = FALSE
    /\ live' = FALSE
    /\ file' = Inherits(file)
    /\ tmp' = Absent
    /\ writer' = Relinked(IF Inherits(file) = file THEN writer
                          ELSE Relinked(writer, "file", "gone"), "tmp", "gone")
    /\ crossing' = (crossing \/ writer["toggle"] # Idle)
    /\ UNCHANGED <<accounting, row, reading, toggles>>

\* The daemon's threads end with it, wherever they are; its files stay.
DaemonDies ==
    /\ up
    /\ up' = FALSE
    /\ writer' = [writer EXCEPT !["publish"] = Idle, !["beat"] = Idle]
    /\ UNCHANGED <<daemon, published, sessionVars, toggleVars, fileVars>>

\* Between two daemons a repair moves whatever it finds out of the way.
RepairRetires ==
    /\ ~up
    /\ file # Absent \/ tmp # Absent
    /\ file' = Absent
    /\ tmp' = Absent
    /\ writer' = Relinked(Relinked(writer, "file", "gone"), "tmp", "gone")
    /\ UNCHANGED <<daemonVars, sessionVars, toggleVars>>

-----------------------------------------------------------------------------
(* Other processes, and time *)

\* set_hidden: nothing is done about a file that is absent or unreadable.
\* One that outlived its daemon is stamped as well.
ToggleReads ==
    /\ writer["toggle"] = Idle
    /\ toggles < MaxToggles
    /\ Parses(file)
    /\ toggles' = toggles + 1
    /\ \E hidden \in BOOLEAN :
         writer' = [writer EXCEPT !["toggle"] =
                      Busy("read", [Stamped(file) EXCEPT !.hidden = hidden], "none")]
    /\ crossing' = (crossing \/ file.by # daemon)
    /\ UNCHANGED <<daemonVars, sessionVars, fileVars>>

Older(f) == IF Parses(f) /\ f.age <= FreshFor THEN [f EXCEPT !.age = @ + 1] ELSE f

Tick ==
    /\ Older(file) # file
    /\ file' = Older(file)
    /\ UNCHANGED <<daemonVars, sessionVars, toggleVars, tmp, writer>>

Step(w) == Open(w) \/ Fill(w) \/ Replace(w) \/ ReplaceFails(w)

Next ==
    \/ \E w \in Writers : Step(w) \/ FillFails(w)
    \/ PublishReads
    \/ EndSession
    \/ Release
    \/ BeatReads
    \/ DaemonStarts
    \/ DaemonDies
    \/ RepairRetires
    \/ ToggleReads
    \/ Tick

\* A write that was begun is finished, time passes, and a session that is
\* not heard of is dropped.
Fairness ==
    /\ \A w \in Writers : WF_vars(Step(w))
    /\ WF_vars(Release)
    /\ WF_vars(Tick)

Spec == Init /\ [][Next]_vars /\ Fairness

-----------------------------------------------------------------------------
(* Properties *)

TypeOK ==
    /\ up \in BOOLEAN /\ live \in BOOLEAN /\ published \in BOOLEAN
    /\ crossing \in BOOLEAN
    /\ daemon \in 0..MaxDaemons /\ (up => daemon > 0)
    /\ accounting \in {1, 2}
    /\ row \in {"none", "open", "ended"}
    /\ reading \in 0..MaxReadings
    /\ toggles \in 0..MaxToggles
    /\ file \in Contents \cup {Absent}
    /\ tmp \in Contents \cup {Absent}
    /\ \A w \in Writers :
         \/ writer[w] = Idle
         \/ writer[w] \in [pc : {"read", "open", "filled"}, doc : Docs,
                           at : {"none", "tmp", "file", "gone"}]

\* A daemon vouches only for readings of its own (#66): as long as no toggle
\* has handed on a file of an earlier daemon, whatever the heartbeat is about
\* to stamp was derived by the daemon it belongs to.
VouchesForOwnReadings ==
    (~crossing /\ writer["beat"] # Idle) => writer["beat"].doc.by = daemon

\* Nothing stays on screen for ever.  A session that has ended, or whose
\* daemon is gone for good, in the end is neither drawn by the pane nor
\* reported as current by the status call, late hooks and toggles included.
Fades ==
    <>[](row = "ended" \/ ~up)
        => <>[](Drawn(file) = {} /\ Status(file) \in {"absent", "stale"})
=============================================================================
