---------------------------- MODULE ReportWriter ----------------------------
(***************************************************************************)
(* The report of a simulation: reporters that record data points while the *)
(* simulation runs, the buffer of each one's writer, the threads that      *)
(* write out the buffers from time to time, instances that are killed,     *)
(* whose reporters are finalized while the simulation goes on, the end of  *)
(* the simulation, which finalizes the other reporters, and the exit of    *)
(* the process.  Each reporter has one data set, so that it has at most    *)
(* one writer, known by the same name.                                     *)
(***************************************************************************)
EXTENDS Integers, Sequences, FiniteSets

CONSTANTS
  Writer, \* the reporters, and their writers
  Kinds,  \* the kinds a reporter may be of
  Thread, \* threadPool
  Simulation, \* the thread that executes the simulation
  Nobody, \* no thread, no writer
  Unit,   \* the resolution of the clock: so many instants are one unit of time
  MaxTime, MaxPoints, \* bounds on the clock and on the number of data points
  MaxFailures \* bound on the number of failed writes

ASSUME ReportAssumption ==
  /\ Kinds \in [Writer -> SUBSET {"list", "columns", "sums", "averages", "snapshot"}]
  /\ Simulation \notin Thread /\ Nobody \notin Thread \cup {Simulation} \cup Writer
  /\ Unit \in Nat \ {0}
  /\ MaxTime \in Nat /\ MaxPoints \in Nat /\ MaxFailures \in Nat

VARIABLES
  kind,     \* ListCollecting-, MultiDataPoint-, Accumulative-, Average-, SnapshotDataPointReporter
  now,      \* the simulation's clock
  recorded, \* how many data points were recorded
  points,   \* the data points a reporter got before it was finalized (a history)
  kept,     \* lastValues; valueSum and counts; finalDataPoints
  line,     \* currentTime and hasStarted of an AsyncListReportWriter
  ending,   \* has finalizeReports begun?
  buffer,   \* buffer
  file,     \* the entries in the file
  channel,  \* was the file opened, was it closed?
  lock,     \* who holds the lock of a writer
  task,     \* the periodic writeout (scheduledFuture)
  job,      \* where a thread is in writeout, of which writer, with what in hand
  sim,      \* what the simulation does, for which writer, the entries it has yet to add
  finalized, \* the reporters that were finalized, and deregistered
  lost,     \* the writers with an entry that could not be written
  failures  \* how many writes failed

\* What only the simulation changes
dataVars == <<kind, now, recorded, points, kept, line, ending>>
vars == <<kind, now, recorded, points, kept, line, ending, buffer, file, channel, lock, task, job,
          sim, finalized, lost, failures>>

Process == Thread \cup {Simulation}

\* What is in a buffer: parts of the lines of an AsyncListReportWriter, rows
\* of an AsyncMultiColumnReportWriter.
Entry(is, at, what) == [is |-> is, at |-> at, what |-> what]
Entries == [is : {"open", "first", "more", "close", "row"}, at : Nat, what : Seq(Int)]

NoTime == -1
\* Where a thread is in writeout, and where the simulation is
Job(w, at, hand) == [of |-> w, at |-> at, hand |-> hand]
Jobs == [of : Writer \cup {Nobody}, at : {"idle", "lock", "check", "take", "write"}, hand : Seq(Entries)]
Idle == Job(Nobody, "idle", <<>>)

Sim(w, at, todo) == [of |-> w, at |-> at, todo |-> todo]
Sims == [of : Writer \cup {Nobody},
         at : {"simulates", "flushes", "cancelled", "writes", "closes", "finalizes", "ended", "failed",
               "exited"},
         todo : Seq(Entries)]

-----------------------------------------------------------------------------
(* Data points.                                                            *)

\* AsyncListReportWriter.addDataPoint, the entries it adds
Listed(w, v) ==
  IF now = line[w].at THEN <<Entry("more", now, <<v>>)>>
  ELSE (IF line[w].begun THEN <<Entry("close", 0, <<>>)>> ELSE <<>>)
         \o <<Entry("open", now, <<>>), Entry("first", now, <<v>>)>>

\* CEIL_FUNCTION, and Math.round of a time
Ceiling(t) == (t + Unit - 1) \div Unit
Round(t) == (2 * t + Unit) \div (2 * Unit)

\* Mutant: a value replaces what its bucket has.
Replaced(f, b, v) ==
  [c \in DOMAIN f \cup {b} |-> IF c = b THEN [sum |-> v, count |-> 1] ELSE f[c]]

\* lastValues.put, valueSum.merge and counts.merge
Merged(f, b, v) ==
  [c \in DOMAIN f \cup {b} |->
     IF c # b THEN f[c]
     ELSE IF b \in DOMAIN f THEN [sum |-> f[b].sum + v, count |-> f[b].count + 1]
     ELSE [sum |-> v, count |-> 1]]

\* SnapshotDataPointReporter.addDatapoint: the last value fills the gap.
Filled(f, index, v) ==
  LET last == Cardinality(DOMAIN f) - 1
  IN  [c \in DOMAIN f \cup 0..index |->
         IF c = index THEN [sum |-> v, count |-> 1] ELSE IF c \in DOMAIN f THEN f[c] ELSE f[last]]

\* The reporters that keep their data until they are finalized
Keeps(w) == kind[w] \in {"sums", "averages", "snapshot"}

\* An average is the pair of a sum and a number.
Row(w, b) ==
  Entry("row", b, IF kind[w] = "averages" THEN <<kept[w][b].sum, kept[w][b].count>>
                  ELSE <<kept[w][b].sum>>)

\* The elements of a set in ascending order
Ascending(S) == {r \in [1..Cardinality(S) -> S] : \A j, k \in DOMAIN r : j < k => r[j] < r[k]}

-----------------------------------------------------------------------------
(* The simulation.                                                         *)

Simulates == sim.at = "simulates" /\ sim.todo = <<>>

Tick ==
  /\ Simulates /\ now < MaxTime
  /\ now' = now + 1
  /\ UNCHANGED <<kind, recorded, points, kept, line, ending, buffer, file, channel, lock, task, job,
                 sim, finalized, lost, failures>>


\* getWriter: the first time, a file is opened and its writeout scheduled.
Opened(w) ==
  IF channel[w] = "none"
  THEN channel' = [channel EXCEPT ![w] = "open"] /\ task' = [task EXCEPT ![w] = "scheduled"]
  ELSE UNCHANGED <<channel, task>>

\* addDatapoint of a reporter that passes its data on.  It may still be called
\* for an instance that was killed, which hears of its messages, and in the
\* instant in which the simulation ends: the writers stay known, and what they
\* get after they were closed nobody writes out.
Report(w, v) ==
  /\ sim.at \in {"simulates", "ended"} /\ sim.todo = <<>> /\ ~Keeps(w)
  /\ Opened(w)
  /\ IF kind[w] = "list"
     THEN /\ sim' = Sim(w, sim.at, Listed(w, v))
          /\ line' = [line EXCEPT ![w] = [at |-> now, begun |-> TRUE]]
     ELSE /\ sim' = Sim(w, sim.at, <<Entry("row", now, <<v>>)>>)
          /\ UNCHANGED line
  /\ UNCHANGED kept

\* addDatapoint of a reporter that keeps its data.  The first snapshot of a
\* service is taken when it starts, at the beginning.
Keep(w, v) ==
  /\ Simulates /\ Keeps(w)
  /\ IF kind[w] = "snapshot"
     THEN /\ DOMAIN kept[w] = {} => Round(now) = 0
          /\ kept' = [kept EXCEPT ![w] = Filled(@, Round(now), v)]
     ELSE kept' = [kept EXCEPT ![w] = Merged(@, Ceiling(now), v)]
  /\ UNCHANGED <<line, channel, task, sim>>

\* The values of the data points are all different.
Record(w) ==
  /\ recorded < MaxPoints
  /\ Report(w, recorded + 1) \/ Keep(w, recorded + 1)
  /\ recorded' = recorded + 1
  /\ points' = IF w \in finalized THEN points
               ELSE [points EXCEPT ![w] = Append(@, [at |-> now, value |-> recorded'])]
  /\ UNCHANGED <<kind, now, ending, buffer, file, lock, job, finalized, lost, failures>>

\* buffer.add, one entry at a time
AddEntry ==
  /\ sim.todo # <<>>
  /\ buffer' = [buffer EXCEPT ![sim.of] = Append(@, Head(sim.todo))]
  /\ sim' = Sim(sim.of, sim.at, Tail(sim.todo))
  /\ UNCHANGED dataVars /\ UNCHANGED <<file, channel, lock, task, job, finalized, lost, failures>>

\* MicroserviceInstance.die calls finalizeReport for the reporter of the
\* instance, a MultiDataPointReporter, which has nothing to flush.
Die(w) ==
  /\ Simulates /\ kind[w] = "columns" /\ w \notin finalized
  /\ sim' = Sim(w, "flushes", <<>>)
  /\ UNCHANGED dataVars
  /\ UNCHANGED <<buffer, file, channel, lock, task, job, finalized, lost, failures>>

\* finalizeReports calls finalizeReport for the next reporter: flush
Flush(w) ==
  /\ sim.at \in {"simulates", "finalizes"} /\ sim.todo = <<>> /\ w \notin finalized
  /\ ending' = TRUE
  /\ IF Keeps(w) /\ DOMAIN kept[w] # {}
     THEN /\ Opened(w)
          /\ \E r \in Ascending(DOMAIN kept[w]) :
               sim' = Sim(w, "flushes", [k \in DOMAIN r |-> Row(w, r[k])])
     ELSE /\ sim' = Sim(w, "flushes", <<>>)
          /\ UNCHANGED <<channel, task>>
  /\ UNCHANGED <<kind, now, recorded, points, kept, line, buffer, file, lock, job, finalized, lost,
                 failures>>

\* Where the simulation is when finalizeReport returns
Resumed == IF ending THEN "finalizes" ELSE "simulates"
\* finalizeWriteout: cancel(false), and finalizingTodos; without a writer the
\* reporter is done.
CancelTask ==
  /\ sim.at = "flushes" /\ sim.todo = <<>>
  /\ IF channel[sim.of] = "none"
     THEN /\ sim' = Sim(Nobody, Resumed, <<>>)
          /\ finalized' = finalized \cup {sim.of}
          /\ UNCHANGED task
     ELSE /\ task' = [task EXCEPT ![sim.of] = "cancelled"]
          /\ sim' = Sim(sim.of, "cancelled",
                        IF kind[sim.of] = "list" THEN <<Entry("close", 0, <<>>)>> ELSE <<>>)
          /\ UNCHANGED finalized
  /\ UNCHANGED dataVars /\ UNCHANGED <<buffer, file, channel, lock, job, lost, failures>>

\* Mutant: the file is closed at once.
CloseAtOnce ==
  /\ sim.at = "cancelled" /\ sim.todo = <<>>
  /\ sim' = Sim(sim.of, "closes", <<>>)
  /\ UNCHANGED dataVars
  /\ UNCHANGED <<buffer, file, channel, lock, task, job, finalized, lost, failures>>

\* ... writeout
WriteRest ==
  /\ sim.at = "cancelled" /\ sim.todo = <<>>
  /\ sim' = Sim(sim.of, "writes", <<>>)
  /\ job' = [job EXCEPT ![Simulation] = Job(sim.of, "lock", <<>>)]
  /\ UNCHANGED dataVars /\ UNCHANGED <<buffer, file, channel, lock, task, finalized, lost, failures>>

\* ... fileOutputStream.close, which may fail
CloseFile ==
  /\ sim.at = "closes"
  /\ channel' = [channel EXCEPT ![sim.of] = "closed"]
  /\ \/ /\ sim' = Sim(Nobody, Resumed, <<>>)
        /\ finalized' = finalized \cup {sim.of}
        /\ UNCHANGED failures
     \/ /\ failures < MaxFailures
        /\ failures' = failures + 1
        /\ sim' = Sim(Nobody, "failed", <<>>)
        /\ UNCHANGED finalized
  /\ UNCHANGED dataVars /\ UNCHANGED <<buffer, file, lock, task, job, lost>>

\* finalizeReports ends when no reporter is registered any more.
EndSimulation ==
  /\ sim.at \in {"simulates", "finalizes"} /\ sim.todo = <<>> /\ finalized = Writer
  /\ sim' = Sim(Nobody, "ended", <<>>)
  /\ UNCHANGED dataVars
  /\ UNCHANGED <<buffer, file, channel, lock, task, job, finalized, lost, failures>>

\* Main exits the process after a simulation that ended or failed; who calls
\* runExperiment instead may go on.  Pool threads stop where they are.
Exit ==
  /\ sim.at \in {"ended", "failed"} /\ sim.todo = <<>>
  /\ sim' = Sim(Nobody, "exited", <<>>)
  /\ UNCHANGED dataVars
  /\ UNCHANGED <<buffer, file, channel, lock, task, job, finalized, lost, failures>>

-----------------------------------------------------------------------------
(* writeout, which the threads of the pool execute, and the simulation.    *)

\* The pool starts a writeout that is due, never twice at the same time.
BeginWriteout(p, w) ==
  /\ sim.at # "exited" /\ job[p] = Idle /\ task[w] = "scheduled"
  /\ \A q \in Thread : job[q].of # w
  /\ job' = [job EXCEPT ![p] = Job(w, "lock", <<>>)]
  /\ UNCHANGED dataVars
  /\ UNCHANGED <<buffer, file, channel, lock, task, sim, finalized, lost, failures>>

\* Mutant: the lock is not waited for.
LockAnyway(p) ==
  /\ job[p].at = "lock"
  /\ lock' = [lock EXCEPT ![job[p].of] = p]
  /\ job' = [job EXCEPT ![p] = Job(@.of, "check", <<>>)]
  /\ UNCHANGED dataVars
  /\ UNCHANGED <<buffer, file, channel, task, sim, finalized, lost, failures>>

Lock(p) ==
  /\ job[p].at = "lock" /\ lock[job[p].of] = Nobody
  /\ lock' = [lock EXCEPT ![job[p].of] = p]
  /\ job' = [job EXCEPT ![p] = Job(@.of, "check", <<>>)]
  /\ UNCHANGED dataVars
  /\ UNCHANGED <<buffer, file, channel, task, sim, finalized, lost, failures>>

\* The condition of the loop: there is something to write ...
CheckMore(p) ==
  /\ job[p].at = "check" /\ buffer[job[p].of] # <<>> /\ channel[job[p].of] = "open"
  /\ job' = [job EXCEPT ![p] = Job(@.of, "take", <<>>)]
  /\ UNCHANGED dataVars
  /\ UNCHANGED <<buffer, file, channel, lock, task, sim, finalized, lost, failures>>

\* ... or there is nothing: the lock is released.
CheckDone(p) ==
  /\ job[p].at = "check" /\ ~(buffer[job[p].of] # <<>> /\ channel[job[p].of] = "open")
  /\ lock' = [lock EXCEPT ![job[p].of] = Nobody]
  /\ job' = [job EXCEPT ![p] = Idle]
  /\ sim' = IF p = Simulation THEN Sim(sim.of, "closes", <<>>) ELSE sim
  /\ UNCHANGED dataVars /\ UNCHANGED <<buffer, file, channel, task, finalized, lost, failures>>

\* buffer.remove(0)
Take(p) ==
  /\ job[p].at = "take"
  /\ job' = [job EXCEPT ![p] = Job(@.of, "write", <<Head(buffer[job[p].of])>>)]
  /\ buffer' = [buffer EXCEPT ![job[p].of] = Tail(@)]
  /\ UNCHANGED dataVars
  /\ UNCHANGED <<file, channel, lock, task, sim, finalized, lost, failures>>

Write(p) ==
  /\ job[p].at = "write"
  /\ file' = [file EXCEPT ![job[p].of] = @ \o job[p].hand]
  /\ job' = [job EXCEPT ![p] = Job(@.of, "check", <<>>)]
  /\ UNCHANGED dataVars
  /\ UNCHANGED <<buffer, channel, lock, task, sim, finalized, lost, failures>>

\* The write fails: the exception ends the periodic writeout, or the simulation.
FailWrite(p) ==
  /\ job[p].at = "write" /\ failures < MaxFailures
  /\ failures' = failures + 1
  /\ lost' = lost \cup {job[p].of}
  /\ lock' = [lock EXCEPT ![job[p].of] = Nobody]
  /\ job' = [job EXCEPT ![p] = Idle]
  /\ IF p = Simulation
     THEN sim' = Sim(Nobody, "failed", <<>>) /\ UNCHANGED task
     ELSE /\ task' = [task EXCEPT ![job[p].of] = IF @ = "scheduled" THEN "failed" ELSE @]
          /\ UNCHANGED sim
  /\ UNCHANGED dataVars /\ UNCHANGED <<buffer, file, channel, finalized>>

-----------------------------------------------------------------------------
Init ==
  /\ kind \in {k \in [Writer -> UNION {Kinds[w] : w \in Writer}] : \A w \in Writer : k[w] \in Kinds[w]}
  /\ now = 0 /\ recorded = 0
  /\ points = [w \in Writer |-> <<>>]
  /\ kept = [w \in Writer |-> <<>>]
  /\ line = [w \in Writer |-> [at |-> NoTime, begun |-> FALSE]]
  /\ buffer = [w \in Writer |-> <<>>]
  /\ file = [w \in Writer |-> <<>>]
  /\ channel = [w \in Writer |-> "none"]
  /\ lock = [w \in Writer |-> Nobody]
  /\ task = [w \in Writer |-> "none"]
  /\ job = [p \in Process |-> Idle]
  /\ sim = Sim(Nobody, "simulates", <<>>) /\ ending = FALSE
  /\ finalized = {} /\ lost = {} /\ failures = 0

SimulationNext ==
  \/ Tick \/ AddEntry \/ CancelTask \/ WriteRest \/ CloseFile \/ EndSimulation \/ Exit
  \/ \E w \in Writer : Die(w) \/ Flush(w) \/ Record(w)

InWriteout(p) ==
  Lock(p) \/ CheckMore(p) \/ CheckDone(p) \/ Take(p) \/ Write(p) \/ FailWrite(p)

\* ... while the process runs
Writeout(p) == sim.at # "exited" /\ InWriteout(p)

Next ==
  \/ SimulationNext
  \/ \E p \in Process : Writeout(p)
  \/ \E p \in Thread, w \in Writer : BeginWriteout(p, w)

\* No thread stops within a call while the process runs; a writeout that is due
\* is overtaken by others for a time only, since the pool takes them by the time
\* they are due.
Fairness ==
  /\ WF_vars(AddEntry) /\ WF_vars(CancelTask) /\ WF_vars(WriteRest) /\ WF_vars(CloseFile)
  /\ \A p \in Process : WF_vars(Writeout(p))
  /\ \A w \in Writer : SF_vars(\E p \in Thread : BeginWriteout(p, w))

Spec == Init /\ [][Next]_vars /\ Fairness

-----------------------------------------------------------------------------
(* Properties.                                                             *)

Holds(p, w) == job[p].of = w /\ job[p].at \in {"check", "take", "write"}

Buckets == [sum : Int, count : Nat]

TypeOK ==
  /\ DOMAIN kind = Writer
  /\ now \in Nat /\ recorded \in Nat /\ failures \in Nat /\ ending \in BOOLEAN
  /\ DOMAIN points = Writer
  /\ DOMAIN kept = Writer
  /\ \A w \in Writer :
       /\ DOMAIN kept[w] \subseteq Nat /\ IsFiniteSet(DOMAIN kept[w])
       /\ \A b \in DOMAIN kept[w] : kept[w][b] \in Buckets
       /\ kind[w] = "snapshot" => DOMAIN kept[w] = 0 .. Cardinality(DOMAIN kept[w]) - 1
  /\ line \in [Writer -> [at : Nat \cup {NoTime}, begun : BOOLEAN]]
  /\ buffer \in [Writer -> Seq(Entries)] /\ file \in [Writer -> Seq(Entries)]
  /\ channel \in [Writer -> {"none", "open", "closed"}]
  /\ lock \in [Writer -> Process \cup {Nobody}]
  /\ task \in [Writer -> {"none", "scheduled", "cancelled", "failed"}]
  /\ job \in [Process -> Jobs] /\ sim \in Sims
  /\ finalized \subseteq Writer /\ lost \subseteq Writer

\* A lock is held by the one thread that is in the loop of writeout, and
\* what such a thread found in the buffer is there until it takes it.
JobsFit ==
  \A p \in Process :
    /\ job[p].at = "idle" => job[p] = Idle
    /\ job[p].at # "idle" => job[p].of \in Writer
    /\ \A w \in Writer : lock[w] = p <=> Holds(p, w)
    /\ job[p].at = "take" => buffer[job[p].of] # <<>>
    /\ IF job[p].at = "write" THEN Len(job[p].hand) = 1 ELSE job[p].hand = <<>>
    /\ job[p].at \in {"take", "write"} => channel[job[p].of] = "open"

\* Where finalizeReport is: the simulation is in writeout when it has come to
\* it; after that the buffer is empty and no other thread has any of it.
FinalizingFits ==
  /\ sim.todo # <<>> => sim.of \in Writer /\ sim.at \in {"simulates", "ended", "flushes", "cancelled"}
  /\ sim.at \in {"flushes", "cancelled", "writes", "closes"} => sim.of \in Writer \ finalized
  /\ sim.at \in {"cancelled", "writes", "closes"} => channel[sim.of] = "open"
  /\ IF sim.at = "writes" THEN job[Simulation].at # "idle" /\ job[Simulation].of = sim.of
     ELSE job[Simulation] = Idle
  /\ sim.at = "closes" =>
       /\ buffer[sim.of] = <<>>
       /\ \A p \in Process : job[p].of = sim.of => job[p].at \in {"lock", "check"}
  /\ \A w \in Writer : channel[w] = "closed" => w \in finalized \/ sim.at \in {"failed", "exited"}

\* What the writers keep fits together: no two threads take from a buffer at
\* the same time, none takes from an empty one or writes to a closed file,
\* and a file is closed when nothing is left.
WriterInvariant == TypeOK /\ JobsFit /\ FinalizingFits

Hand(w) == IF lock[w] = Nobody THEN <<>> ELSE job[lock[w]].hand

\* What is in the file and what is still on its way there.  After the file
\* was closed nothing is under way any more: what is recorded then, for an
\* instance that was killed or at the simulation's end, stays in the buffer.
Logged(w) ==
  IF channel[w] = "closed" THEN file[w] ELSE file[w] \o (Hand(w) \o buffer[w])

Log == INSTANCE ReportLog WITH
            log <- [w \in Writer |-> Logged(w)],
            closed <- {w \in Writer : channel[w] = "closed"}

\* The files are logs: the threads of the pool and the simulation write out
\* one buffer without loss, repetition or change of order, and a file that
\* is closed has everything that was recorded for it before.
KeepsLog == Log!LogSpec

\* The exit of the process may leave entries unwritten after a write or close
\* that failed, and otherwise those of a reporter that had got nothing before it
\* was finalized, whose file is then not closed.
LeftAtExit(w) == sim.at = "exited" /\ (failures > 0 \/ points[w] = <<>>)

=============================================================================
