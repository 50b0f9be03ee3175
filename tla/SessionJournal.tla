--------------------------- MODULE SessionJournal ---------------------------
(***************************************************************************)
(* What the sessions of the service promise to a workflow, without         *)
(* memory, transactions, audit or restarts: every session is a journal of  *)
(* numbered entries.  A journal is opened once, only grows by its next     *)
(* entry, is final once closed, and forgets only its oldest entries.  A    *)
(* message is resolved at most once after each time it was validated.      *)
(***************************************************************************)
EXTENDS Integers

CONSTANTS Sessions, Definitions, Messages, Verdicts, Resolutions,
          None  \* an entry without message or verdict

VARIABLE journal  \* the journals, by session

Entry(n, kind, message, verdict) ==
  [sequence |-> n, kind |-> kind, message |-> message, verdict |-> verdict]

\* A session that does not exist (yet, or any more).
Absent == [definition |-> None, state |-> "absent", latest |-> 0,
           entries |-> {}, awaiting |-> {}]

Init == journal = [s \in Sessions |-> Absent]

Closed == {s \in Sessions : journal[s].state = "ended"}

Opened(d) == [definition |-> d, state |-> "active", latest |-> 1,
              entries |-> {Entry(1, "started", None, None)},
              awaiting |-> {}]

\* Closed journals may be deleted, to make room for a new one or not.
Delete(gone) == [s \in Sessions |-> IF s \in gone THEN Absent ELSE journal[s]]

Open(s, d, gone) ==
  /\ journal[s].state = "absent"
  /\ journal' = [Delete(gone) EXCEPT ![s] = Opened(d)]

Discard(gone) == journal' = Delete(gone)

\* The next entry is added; the oldest entries may be forgotten, and the
\* messages that await a resolution become `awaiting'.
Append(s, kind, message, verdict, state, awaiting) ==
  LET n == journal[s].latest + 1
      added == journal[s].entries \cup {Entry(n, kind, message, verdict)}
  IN  /\ journal[s].state = "active"
      /\ \E oldest \in 1 .. n :
           journal' = [journal EXCEPT ![s] =
             [definition |-> @.definition, state |-> state, latest |-> n,
              entries |-> {e \in added : e.sequence >= oldest},
              awaiting |-> awaiting]]

\* The message awaits its resolution; older messages may stop waiting.
Validate(s, message, verdict) ==
  /\ message \notin journal[s].awaiting
  /\ \E kept \in SUBSET journal[s].awaiting :
       Append(s, "validation", message, verdict, "active", kept \cup {message})

Resolve(s, message, resolution) ==
  /\ message \in journal[s].awaiting
  /\ Append(s, "resolution", message, resolution, "active",
            journal[s].awaiting \ {message})

Close(s) == Append(s, "ended", None, None, "ended", journal[s].awaiting)

Purge == journal' = [s \in Sessions |-> Absent]

Next ==
  \/ \E s \in Sessions, d \in Definitions, gone \in SUBSET Closed :
       Open(s, d, gone)
  \/ \E gone \in SUBSET Closed : Discard(gone)
  \/ \E s \in Sessions, message \in Messages, verdict \in Verdicts :
       Validate(s, message, verdict)
  \/ \E s \in Sessions, message \in Messages, resolution \in Resolutions :
       Resolve(s, message, resolution)
  \/ \E s \in Sessions : Close(s)
  \/ Purge

Spec == Init /\ [][Next]_journal
=============================================================================
