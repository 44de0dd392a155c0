----------------------------- MODULE ReportLog -----------------------------
(***************************************************************************)
(* What the files of a report promise: each is an append-only file that    *)
(* takes over, in order, what was recorded for it, and is closed only when *)
(* it has everything.  A failed write loses the entry it was for, and      *)
(* nothing else.                                                           *)
(***************************************************************************)
EXTENDS Naturals, Sequences

CONSTANT Writer

VARIABLES
  log,   \* what was recorded for a file, less what was lost
  file,  \* what the file has of it
  closed \* the files that were closed

logVars == <<log, file, closed>>

LogInit ==
  /\ log = [w \in Writer |-> <<>>]
  /\ file = [w \in Writer |-> <<>>]
  /\ closed = {}

\* Some entry is recorded.
Enter(w) ==
  /\ w \notin closed
  /\ Len(log'[w]) = Len(log[w]) + 1
  /\ log' = [log EXCEPT ![w] = Append(@, log'[w][Len(@) + 1])]
  /\ UNCHANGED <<file, closed>>

\* The next entry is written.
Transfer(w) ==
  /\ w \notin closed
  /\ Len(file[w]) < Len(log[w])
  /\ file' = [file EXCEPT ![w] = Append(@, log[w][Len(file[w]) + 1])]
  /\ UNCHANGED <<log, closed>>

\* The next entry is lost.
Lose(w) ==
  /\ w \notin closed
  /\ Len(file[w]) < Len(log[w])
  /\ log' = [log EXCEPT ![w] = file[w] \o SubSeq(@, Len(file[w]) + 2, Len(@))]
  /\ UNCHANGED <<file, closed>>

Complete(w) ==
  /\ w \notin closed
  /\ file[w] = log[w]
  /\ closed' = closed \cup {w}
  /\ UNCHANGED <<log, file>>

LogNext == \E w \in Writer : Enter(w) \/ Transfer(w) \/ Lose(w) \/ Complete(w)

LogSpec == LogInit /\ [][LogNext]_logVars
=============================================================================
