------------------------- MODULE ReportWriterProofs -------------------------
(***************************************************************************)
(* Proofs about ReportWriter: its invariant, that it implements ReportLog, *)
(* and that closed files are the reports of what was recorded, for any     *)
(* reporters, threads, clocks, data points and numbers of failures.        *)
(***************************************************************************)
EXTENDS ReportFiles, SequenceTheorems, FiniteSetTheorems, TLAPS

-----------------------------------------------------------------------------
(* Types of what is recorded.                                              *)

LEMMA TimesAreNat ==
  ASSUME NEW t \in Nat
  PROVE  Ceiling(t) \in Nat /\ Round(t) \in Nat
BY ReportAssumption, SMT DEF Ceiling, Round

LEMMA EntryType ==
  ASSUME NEW is \in {"open", "first", "more", "close", "row"}, NEW at \in Nat, NEW what \in Seq(Int)
  PROVE  Entry(is, at, what) \in Entries
BY DEF Entry, Entries

LEMMA ListedType ==
  ASSUME TypeOK, NEW w \in Writer, NEW v \in Nat
  PROVE  Listed(w, v) \in Seq(Entries)
<1>1. now \in Nat /\ 0 \in Nat /\ <<v>> \in Seq(Int) /\ <<>> \in Seq(Int)
  BY DEF TypeOK
<1>2. /\ Entry("more", now, <<v>>) \in Entries /\ Entry("first", now, <<v>>) \in Entries
      /\ Entry("open", now, <<>>) \in Entries /\ Entry("close", 0, <<>>) \in Entries
  BY <1>1, EntryType
<1>3. QED BY <1>2 DEF Listed

LEMMA MergedType ==
  ASSUME NEW f, IsFiniteSet(DOMAIN f), DOMAIN f \subseteq Nat,
         \A b \in DOMAIN f : f[b] \in Buckets,
         NEW bucket \in Nat, NEW v \in Nat
  PROVE  LET g == Merged(f, bucket, v)
         IN  /\ IsFiniteSet(DOMAIN g) /\ DOMAIN g \subseteq Nat
             /\ \A b \in DOMAIN g : g[b] \in Buckets
<1>1. DOMAIN Merged(f, bucket, v) = DOMAIN f \cup {bucket}
  BY DEF Merged
<1>2. IsFiniteSet(DOMAIN f \cup {bucket})
  BY FS_AddElement
<1>3. ASSUME NEW b \in DOMAIN f \cup {bucket}
      PROVE  Merged(f, bucket, v)[b] \in Buckets
  BY <1>3 DEF Merged, Buckets
<1>4. QED BY <1>1, <1>2, <1>3

\* Snapshots have no gaps.
LEMMA FilledType ==
  ASSUME NEW f, IsFiniteSet(DOMAIN f), DOMAIN f = 0 .. Cardinality(DOMAIN f) - 1,
         \A b \in DOMAIN f : f[b] \in Buckets,
         NEW index \in Nat, NEW v \in Nat, DOMAIN f = {} => index = 0
  PROVE  LET g == Filled(f, index, v)
         IN  /\ IsFiniteSet(DOMAIN g) /\ DOMAIN g \subseteq Nat
             /\ \A b \in DOMAIN g : g[b] \in Buckets
             /\ DOMAIN g = 0 .. Cardinality(DOMAIN g) - 1
<1> DEFINE n == Cardinality(DOMAIN f)
<1>1. n \in Nat
  BY FS_CardinalityType
<1>2. DOMAIN Filled(f, index, v) = DOMAIN f \cup 0..index
  BY DEF Filled
<1>3. CASE index < n
  <2>1. DOMAIN Filled(f, index, v) = DOMAIN f
    BY <1>1, <1>2, <1>3, SMTT(20)
  <2>2. \A b \in DOMAIN f : Filled(f, index, v)[b] \in Buckets
    BY <1>1, <1>3 DEF Filled, Buckets
  <2>3. QED BY <2>1, <2>2
<1>4. CASE index >= n
  <2>1. DOMAIN Filled(f, index, v) = 0..index
    BY <1>1, <1>2, <1>4
  <2>2. IsFiniteSet(0..index) /\ Cardinality(0..index) = index + 1
    BY FS_Interval
  <2>3. ASSUME NEW b \in 0..index PROVE Filled(f, index, v)[b] \in Buckets
    <3>1. CASE b = index
      BY <3>1 DEF Filled, Buckets
    <3>2. CASE b # index /\ b \in DOMAIN f
      BY <3>2 DEF Filled
    <3>3. CASE b # index /\ b \notin DOMAIN f
      <4>1. n # 0
        BY <3>3, <1>1
      <4>2. n - 1 \in DOMAIN f
        BY <4>1, <1>1
      <4>3. QED BY <4>2, <3>3 DEF Filled
    <3>4. QED BY <3>1, <3>2, <3>3
  <2>4. QED BY <2>1, <2>2, <2>3
<1>5. QED BY <1>1, <1>3, <1>4

-----------------------------------------------------------------------------
(* Types are preserved.                                                    *)

LEMMA SimType ==
  ASSUME NEW w \in Writer \cup {Nobody}, NEW todo \in Seq(Entries),
         NEW at \in {"simulates", "flushes", "cancelled", "writes", "closes", "finalizes", "ended", "failed", "exited"}
  PROVE  Sim(w, at, todo) \in Sims
BY DEF Sim, Sims

LEMMA JobType ==
  ASSUME NEW w \in Writer \cup {Nobody}, NEW hand \in Seq(Entries),
         NEW at \in {"idle", "lock", "check", "take", "write"}
  PROVE  Job(w, at, hand) \in Jobs
BY DEF Job, Jobs

LEMMA FieldTypes ==
  ASSUME TypeOK
  PROVE  /\ sim.of \in Writer \cup {Nobody} /\ sim.todo \in Seq(Entries)
         /\ sim.at \in {"simulates", "flushes", "cancelled", "writes", "closes", "finalizes", "ended", "failed", "exited"}
         /\ \A p \in Process : job[p].of \in Writer \cup {Nobody} /\ job[p].hand \in Seq(Entries)
         /\ <<>> \in Seq(Entries)
<1>1. sim \in Sims /\ \A p \in Process : job[p] \in Jobs
  BY DEF TypeOK
<1>2. QED BY <1>1, EmptySeq DEF Sims, Jobs

LEMMA OpenedType ==
  ASSUME TypeOK, NEW w \in Writer, Opened(w)
  PROVE  /\ channel' \in [Writer -> {"none", "open", "closed"}]
         /\ task' \in [Writer -> {"none", "scheduled", "cancelled", "failed"}]
BY DEF TypeOK, Opened

LEMMA ReportType ==
  ASSUME TypeOK, NEW w \in Writer, NEW v \in Nat, Report(w, v)
  PROVE  /\ channel' \in [Writer -> {"none", "open", "closed"}]
         /\ task' \in [Writer -> {"none", "scheduled", "cancelled", "failed"}]
         /\ line' \in [Writer -> [at : Nat \cup {NoTime}, begun : BOOLEAN]]
         /\ kept' = kept
         /\ \E todo \in Seq(Entries) : sim' = Sim(w, sim.at, todo)
<1>1. Opened(w) /\ kept' = kept
  BY DEF Report
<1>2. line' \in [Writer -> [at : Nat \cup {NoTime}, begun : BOOLEAN]]
  <2>1. [at |-> now, begun |-> TRUE] \in [at : Nat \cup {NoTime}, begun : BOOLEAN]
    BY DEF TypeOK
  <2>2. line \in [Writer -> [at : Nat \cup {NoTime}, begun : BOOLEAN]]
    BY DEF TypeOK
  <2>3. line' = line \/ line' = [line EXCEPT ![w] = [at |-> now, begun |-> TRUE]]
    BY DEF Report
  <2>4. QED BY <2>1, <2>2, <2>3
<1>3. Entry("row", now, <<v>>) \in Entries
  <2>1. now \in Nat /\ <<v>> \in Seq(Int)
    BY DEF TypeOK
  <2>2. QED BY <2>1, EntryType
<1>4. <<Entry("row", now, <<v>>)>> \in Seq(Entries)
  BY <1>3
<1>5. \E todo \in Seq(Entries) : sim' = Sim(w, sim.at, todo)
  BY <1>4, ListedType DEF Report
<1>6. QED BY <1>1, <1>2, <1>5, OpenedType

LEMMA KeepType ==
  ASSUME TypeOK, NEW w \in Writer, NEW v \in Nat, Keep(w, v)
  PROVE  /\ UNCHANGED <<line, channel, task, sim>>
         /\ DOMAIN kept' = Writer
         /\ \A x \in Writer :
              /\ DOMAIN kept'[x] \subseteq Nat /\ IsFiniteSet(DOMAIN kept'[x])
              /\ \A b \in DOMAIN kept'[x] : kept'[x][b] \in Buckets
              /\ kind[x] = "snapshot" => DOMAIN kept'[x] = 0 .. Cardinality(DOMAIN kept'[x]) - 1
<1> DEFINE Fits(f, snapshot) ==
             /\ DOMAIN f \subseteq Nat /\ IsFiniteSet(DOMAIN f)
             /\ \A b \in DOMAIN f : f[b] \in Buckets
             /\ snapshot => DOMAIN f = 0 .. Cardinality(DOMAIN f) - 1
<1>1. \A x \in Writer : Fits(kept[x], kind[x] = "snapshot")
  BY DEF TypeOK
<1>2. Round(now) \in Nat /\ Ceiling(now) \in Nat
  BY TimesAreNat DEF TypeOK
<1>3. CASE kind[w] = "snapshot"
  <2>1. kept' = [kept EXCEPT ![w] = Filled(@, Round(now), v)]
    BY <1>3 DEF Keep
  <2>2. DOMAIN kept[w] = {} => Round(now) = 0
    BY <1>3 DEF Keep
  <2>3. Fits(Filled(kept[w], Round(now), v), TRUE)
    BY <1>1, <1>2, <1>3, <2>2, FilledType
  <2> HIDE DEF Fits
  <2>4. DOMAIN kept' = Writer /\ \A x \in Writer : Fits(kept'[x], kind[x] = "snapshot")
    BY <1>1, <1>3, <2>1, <2>3 DEF TypeOK
  <2>5. QED BY <2>4 DEF Keep, Fits
<1>4. CASE kind[w] # "snapshot"
  <2>1. kept' = [kept EXCEPT ![w] = Merged(@, Ceiling(now), v)]
    BY <1>4 DEF Keep
  <2>2. Fits(Merged(kept[w], Ceiling(now), v), FALSE)
    BY <1>1, <1>2, MergedType
  <2> HIDE DEF Fits
  <2>3. DOMAIN kept' = Writer /\ \A x \in Writer : Fits(kept'[x], kind[x] = "snapshot")
    BY <1>1, <1>4, <2>1, <2>2 DEF TypeOK
  <2>4. QED BY <2>3 DEF Keep, Fits
<1>5. QED BY <1>3, <1>4

\* What is flushed are rows.
LEMMA FlushType ==
  ASSUME TypeOK, NEW w \in Writer, Flush(w)
  PROVE  /\ channel' \in [Writer -> {"none", "open", "closed"}]
         /\ task' \in [Writer -> {"none", "scheduled", "cancelled", "failed"}]
         /\ \E todo \in Seq(Entries) : sim' = Sim(w, "flushes", todo) /\ (todo # <<>> => Opened(w))
<1>1. CASE ~(Keeps(w) /\ DOMAIN kept[w] # {})
  <2>1. sim' = Sim(w, "flushes", <<>>) /\ UNCHANGED <<channel, task>>
    BY <1>1 DEF Flush
  <2>2. <<>> \in Seq(Entries)
    BY EmptySeq
  <2>3. QED BY <2>1, <2>2 DEF TypeOK
<1>2. CASE Keeps(w) /\ DOMAIN kept[w] # {}
  <2>1. PICK r \in Ascending(DOMAIN kept[w]) : sim' = Sim(w, "flushes", [k \in DOMAIN r |-> Row(w, r[k])])
    BY <1>2 DEF Flush
  <2> DEFINE n == Cardinality(DOMAIN kept[w])
  <2>2. n \in Nat
    BY FS_CardinalityType DEF TypeOK
  <2>3. r \in [1..n -> DOMAIN kept[w]]
    BY <2>1 DEF Ascending
  <2>4. ASSUME NEW b \in DOMAIN kept[w] PROVE Row(w, b) \in Entries
    <3>1. b \in Nat /\ kept[w][b].sum \in Int /\ kept[w][b].count \in Int
      BY DEF TypeOK, Buckets
    <3>2. <<kept[w][b].sum>> \in Seq(Int) /\ <<kept[w][b].sum, kept[w][b].count>> \in Seq(Int)
      BY <3>1
    <3>3. QED BY <3>1, <3>2, EntryType DEF Row
  <2>5. [k \in 1..n |-> Row(w, r[k])] \in Seq(Entries)
    <3> HIDE DEF n
    <3>1. \A k \in 1..n : Row(w, r[k]) \in Entries
      BY <2>3, <2>4
    <3>2. QED BY <2>2, <3>1, IsASeq
  <2>6. Opened(w)
    BY <1>2 DEF Flush
  <2>7. QED BY <2>1, <2>3, <2>5, <2>6, OpenedType
<1>3. QED BY <1>1, <1>2

LEMMA RecordType ==
  ASSUME TypeOK, NEW w \in Writer, Record(w)
  PROVE  TypeOK'
<1>1. recorded + 1 \in Nat /\ recorded' = recorded + 1
  BY DEF TypeOK, Record
<1>2. UNCHANGED <<kind, now, ending, buffer, file, lock, job, finalized, lost, failures>>
  BY DEF Record
<1>3. DOMAIN points' = Writer
  BY DEF TypeOK, Record
<1>4. CASE Report(w, recorded + 1)
  <2>1. PICK todo \in Seq(Entries) : sim' = Sim(w, sim.at, todo)
    BY <1>1, <1>4, ReportType
  <2>2. sim' \in Sims
    BY <2>1, FieldTypes, SimType
  <2>3. QED BY <1>1, <1>2, <1>3, <1>4, <2>2, ReportType DEF TypeOK
<1>5. CASE Keep(w, recorded + 1)
  BY <1>1, <1>2, <1>3, <1>5, KeepType DEF TypeOK
<1>6. QED BY <1>4, <1>5 DEF Record

LEMMA AddEntryType ==
  ASSUME TypeOK, FinalizingFits, AddEntry
  PROVE  /\ TypeOK'
         /\ Head(sim.todo) \in Entries /\ sim.of \in Writer
         /\ buffer' = [buffer EXCEPT ![sim.of] = Append(@, Head(sim.todo))]
<1>1. sim.todo \in Seq(Entries) /\ sim.todo # <<>> /\ sim.of \in Writer
  BY FieldTypes DEF AddEntry, FinalizingFits
<1>2. Head(sim.todo) \in Entries /\ Tail(sim.todo) \in Seq(Entries)
  BY <1>1, HeadTailProperties
<1>3. buffer' = [buffer EXCEPT ![sim.of] = Append(@, Head(sim.todo))] /\ sim' = Sim(sim.of, sim.at, Tail(sim.todo))
  BY DEF AddEntry
<1>4. buffer' \in [Writer -> Seq(Entries)]
  <2>1. Append(buffer[sim.of], Head(sim.todo)) \in Seq(Entries)
    BY <1>1, <1>2, AppendProperties DEF TypeOK
  <2>2. QED BY <1>3, <2>1 DEF TypeOK
<1>5. sim' \in Sims
  BY <1>2, <1>3, FieldTypes, SimType
<1>6. UNCHANGED dataVars /\ UNCHANGED <<file, channel, lock, task, job, finalized, lost, failures>>
  BY DEF AddEntry
<1>7. TypeOK'
  BY <1>4, <1>5, <1>6 DEF TypeOK, dataVars
<1>8. QED BY <1>1, <1>2, <1>3, <1>7

\* The simulation's own steps
LEMMA SimulationType ==
  ASSUME TypeOK, FinalizingFits, SimulationNext
  PROVE  TypeOK'
<1>1. CASE Tick
  BY <1>1 DEF TypeOK, Tick
<1>2. CASE AddEntry
  BY <1>2, AddEntryType
<1>3. CASE CancelTask
  <2>1. Entry("close", 0, <<>>) \in Entries
    <3>1. <<>> \in Seq(Int) /\ 0 \in Nat
      BY EmptySeq
    <3>2. QED BY <3>1, EntryType
  <2>2. <<>> \in Seq(Entries) /\ <<Entry("close", 0, <<>>)>> \in Seq(Entries)
    BY <2>1
  <2>3. sim.of \in Writer
    BY <1>3 DEF CancelTask, FinalizingFits
  <2>4. sim' \in Sims
    <3>1. \/ sim' = Sim(Nobody, "finalizes", <<>>) \/ sim' = Sim(Nobody, "simulates", <<>>)
          \/ sim' = Sim(sim.of, "cancelled", <<>>)
          \/ sim' = Sim(sim.of, "cancelled", <<Entry("close", 0, <<>>)>>)
      BY <1>3 DEF CancelTask, Resumed
    <3>2. QED BY <2>2, <2>3, <3>1, SimType
  <2>5. task' \in [Writer -> {"none", "scheduled", "cancelled", "failed"}] /\ finalized' \subseteq Writer
    <3>1. task' = task \/ task' = [task EXCEPT ![sim.of] = "cancelled"]
      BY <1>3 DEF CancelTask
    <3>2. finalized' = finalized \/ finalized' = finalized \cup {sim.of}
      BY <1>3 DEF CancelTask
    <3>3. task \in [Writer -> {"none", "scheduled", "cancelled", "failed"}] /\ finalized \subseteq Writer
      BY DEF TypeOK
    <3>4. QED BY <2>3, <3>1, <3>2, <3>3
  <2>6. UNCHANGED dataVars /\ UNCHANGED <<buffer, file, channel, lock, job, lost, failures>>
    BY <1>3 DEF CancelTask
  <2>7. QED BY <2>4, <2>5, <2>6 DEF TypeOK, dataVars
<1>4. CASE WriteRest
  <2>1. sim.of \in Writer /\ <<>> \in Seq(Entries)
    BY <1>4, EmptySeq DEF WriteRest, FinalizingFits
  <2>2. sim' \in Sims
    BY <1>4, <2>1, SimType DEF WriteRest
  <2>3. job' \in [Process -> Jobs]
    BY <1>4, <2>1, JobType DEF WriteRest, TypeOK
  <2>4. UNCHANGED dataVars /\ UNCHANGED <<buffer, file, channel, lock, task, finalized, lost, failures>>
    BY <1>4 DEF WriteRest
  <2>5. QED BY <2>2, <2>3, <2>4 DEF TypeOK, dataVars
<1>5. CASE CloseFile
  <2>1. sim.of \in Writer /\ <<>> \in Seq(Entries)
    BY <1>5, EmptySeq DEF CloseFile, FinalizingFits
  <2>2. sim' \in Sims
    BY <1>5, <2>1, SimType DEF CloseFile, Resumed
  <2>3. channel' \in [Writer -> {"none", "open", "closed"}]
    BY <1>5 DEF CloseFile, TypeOK
  <2>4. finalized' \subseteq Writer /\ failures' \in Nat
    BY <1>5, <2>1 DEF CloseFile, TypeOK
  <2>5. UNCHANGED dataVars /\ UNCHANGED <<buffer, file, lock, task, job, lost>>
    BY <1>5 DEF CloseFile
  <2>6. QED BY <2>2, <2>3, <2>4, <2>5 DEF TypeOK, dataVars
<1>6. CASE EndSimulation \/ Exit \/ \E w \in Writer : Die(w)
  <2>1. <<>> \in Seq(Entries)
    BY EmptySeq
  <2>2. sim' \in Sims
    BY <1>6, <2>1, SimType DEF EndSimulation, Exit, Die
  <2>3. UNCHANGED dataVars
        /\ UNCHANGED <<buffer, file, channel, lock, task, job, finalized, lost, failures>>
    BY <1>6 DEF EndSimulation, Exit, Die
  <2>4. QED BY <2>2, <2>3 DEF TypeOK, dataVars
<1>7. ASSUME NEW w \in Writer, Flush(w) PROVE TypeOK'
  <2>1. PICK todo \in Seq(Entries) : sim' = Sim(w, "flushes", todo)
    BY <1>7, FlushType
  <2>2. sim' \in Sims
    BY <2>1, SimType
  <2>3. /\ UNCHANGED <<kind, now, recorded, points, kept, line, buffer, file, lock, job, finalized, lost,
                       failures>>
        /\ ending' = TRUE
    BY <1>7 DEF Flush
  <2>4. QED BY <1>7, <2>2, <2>3, FlushType DEF TypeOK
<1>8. ASSUME NEW w \in Writer, Record(w) PROVE TypeOK'
  BY <1>8, RecordType
<1>9. QED BY <1>1, <1>2, <1>3, <1>4, <1>5, <1>6, <1>7, <1>8 DEF SimulationNext

\* What a thread does in writeout
LEMMA WriteoutType ==
  ASSUME TypeOK, JobsFit, NEW p \in Process, InWriteout(p)
  PROVE  TypeOK'
<1> DEFINE w == job[p].of
<1>1. job \in [Process -> Jobs] /\ w \in Writer /\ job[p].at # "idle"
  BY DEF TypeOK, JobsFit, InWriteout, Lock, CheckMore, CheckDone, Take, Write, FailWrite
<1>2. Idle \in Jobs /\ \A at \in {"check", "take"} : Job(w, at, <<>>) \in Jobs
  BY <1>1, FieldTypes, JobType DEF Idle
<1>3. CASE Lock(p)
  <2>1. job' \in [Process -> Jobs] /\ lock' \in [Writer -> Process \cup {Nobody}]
    BY <1>1, <1>2, <1>3 DEF Lock, TypeOK
  <2>2. QED BY <1>3, <2>1 DEF TypeOK, Lock, dataVars
<1>4. CASE CheckMore(p)
  <2>1. job' \in [Process -> Jobs]
    BY <1>1, <1>2, <1>4 DEF CheckMore
  <2>2. QED BY <1>4, <2>1 DEF TypeOK, CheckMore, dataVars
<1>5. CASE CheckDone(p)
  <2>1. job' \in [Process -> Jobs] /\ lock' \in [Writer -> Process \cup {Nobody}]
    BY <1>1, <1>2, <1>5 DEF CheckDone, TypeOK
  <2>2. sim' \in Sims
    BY <1>5, FieldTypes, SimType DEF CheckDone, TypeOK
  <2>3. QED BY <1>5, <2>1, <2>2 DEF TypeOK, CheckDone, dataVars
<1>6. CASE Take(p)
  <2>1. buffer[w] \in Seq(Entries) /\ buffer[w] # <<>>
    BY <1>1, <1>6 DEF Take, TypeOK, JobsFit
  <2>2. Head(buffer[w]) \in Entries /\ Tail(buffer[w]) \in Seq(Entries)
    BY <2>1, HeadTailProperties
  <2>3. <<Head(buffer[w])>> \in Seq(Entries)
    BY <2>2
  <2>4. Job(w, "write", <<Head(buffer[w])>>) \in Jobs
    BY <1>1, <2>3, JobType
  <2>5. job' = [job EXCEPT ![p] = Job(w, "write", <<Head(buffer[w])>>)]
        /\ buffer' = [buffer EXCEPT ![w] = Tail(buffer[w])]
    BY <1>6 DEF Take
  <2>6. job' \in [Process -> Jobs]
    BY <1>1, <2>4, <2>5
  <2>7. buffer' \in [Writer -> Seq(Entries)]
    BY <2>2, <2>5 DEF TypeOK
  <2>8. QED BY <1>6, <2>6, <2>7 DEF TypeOK, Take, dataVars
<1>7. CASE Write(p)
  <2>1. file[w] \in Seq(Entries)
    BY <1>1 DEF TypeOK
  <2>2. file[w] \o job[p].hand \in Seq(Entries)
    BY <2>1, FieldTypes, ConcatProperties
  <2>3. file' = [file EXCEPT ![w] = file[w] \o job[p].hand]
        /\ job' = [job EXCEPT ![p] = Job(w, "check", <<>>)]
    BY <1>7 DEF Write
  <2>4. job' \in [Process -> Jobs]
    BY <1>1, <1>2, <2>3
  <2>5. file' \in [Writer -> Seq(Entries)]
    BY <2>2, <2>3 DEF TypeOK
  <2>6. QED BY <1>7, <2>4, <2>5 DEF TypeOK, Write, dataVars
<1>8. CASE FailWrite(p)
  <2>1. job' \in [Process -> Jobs] /\ lock' \in [Writer -> Process \cup {Nobody}]
    BY <1>1, <1>2, <1>8 DEF FailWrite, TypeOK
  <2>2. sim' \in Sims
    <3>1. sim' = sim \/ sim' = Sim(Nobody, "failed", <<>>)
      BY <1>8 DEF FailWrite
    <3>2. Sim(Nobody, "failed", <<>>) \in Sims
      BY FieldTypes, SimType
    <3>3. QED BY <3>1, <3>2 DEF TypeOK
  <2>3. task' \in [Writer -> {"none", "scheduled", "cancelled", "failed"}]
    <3>1. task' = task \/ task' = [task EXCEPT ![w] = IF @ = "scheduled" THEN "failed" ELSE @]
      BY <1>8 DEF FailWrite
    <3>2. task \in [Writer -> {"none", "scheduled", "cancelled", "failed"}]
      BY DEF TypeOK
    <3>3. QED BY <3>1, <3>2
  <2>4. failures' \in Nat /\ lost' \subseteq Writer
    BY <1>8, <1>1 DEF FailWrite, TypeOK
  <2>5. UNCHANGED dataVars /\ UNCHANGED <<buffer, file, channel, finalized>>
    BY <1>8 DEF FailWrite
  <2>6. QED BY <2>1, <2>2, <2>3, <2>4, <2>5 DEF TypeOK, dataVars
<1>9. QED BY <1>3, <1>4, <1>5, <1>6, <1>7, <1>8 DEF InWriteout

LEMMA BeginWriteoutType ==
  ASSUME TypeOK, NEW p \in Thread, NEW w \in Writer, BeginWriteout(p, w)
  PROVE  TypeOK'
<1>1. Job(w, "lock", <<>>) \in Jobs
  BY FieldTypes, JobType
<1>2. job' = [job EXCEPT ![p] = Job(w, "lock", <<>>)] /\ p \in Process
  BY DEF BeginWriteout, Process
<1>3. job' \in [Process -> Jobs]
  BY <1>1, <1>2 DEF TypeOK
<1>4. QED BY <1>3 DEF TypeOK, BeginWriteout, dataVars

-----------------------------------------------------------------------------
(* Jobs and locks fit.  A thread's own step changes what it holds; nobody  *)
(* else's step takes anything from a buffer in which it found something.   *)

\* What one thread's job needs
JobFits(p) ==
  /\ job[p].at = "idle" => job[p] = Idle
  /\ job[p].at # "idle" => job[p].of \in Writer
  /\ \A w \in Writer : lock[w] = p <=> Holds(p, w)
  /\ job[p].at = "take" => buffer[job[p].of] # <<>>
  /\ IF job[p].at = "write" THEN Len(job[p].hand) = 1 ELSE job[p].hand = <<>>
  /\ job[p].at \in {"take", "write"} => channel[job[p].of] = "open"

LEMMA JobsFitIs == JobsFit <=> \A p \in Process : JobFits(p)
BY DEF JobsFit, JobFits

LEMMA JobsFitIsThen == JobsFit' <=> \A p \in Process : JobFits(p)'
BY DEF JobsFit, JobFits

\* A job stays as it is when nothing it depends on changes.
LEMMA JobKept ==
  ASSUME NEW p \in Process, JobFits(p), UNCHANGED job[p],
         \A w \in Writer : (lock'[w] = p) <=> (lock[w] = p),
         \A w \in Writer : job[p].of = w /\ job[p].at = "take" /\ buffer[w] # <<>> => buffer'[w] # <<>>,
         \A w \in Writer : job[p].of = w /\ job[p].at \in {"take", "write"} /\ channel[w] = "open"
                             => channel'[w] = "open"
  PROVE  JobFits(p)'
BY DEF JobFits, Holds

LEMMA LockFits ==
  ASSUME TypeOK, JobsFit, NEW p \in Process, Lock(p)
  PROVE  JobsFit'
<1> DEFINE w == job[p].of
<1>1. /\ w \in Writer /\ lock[w] = Nobody /\ lock' = [lock EXCEPT ![w] = p]
      /\ job' = [job EXCEPT ![p] = Job(w, "check", <<>>)] /\ UNCHANGED <<buffer, channel>>
  BY DEF Lock, JobsFit
<1>2. lock \in [Writer -> Process \cup {Nobody}] /\ Nobody \notin Process /\ job \in [Process -> Jobs]
  BY ReportAssumption DEF TypeOK, Process
<1>3. JobFits(p)'
  <2>1. job'[p] = Job(w, "check", <<>>)
    BY <1>1, <1>2
  <2>2. \A x \in Writer : lock[x] # p
    BY JobsFitIs DEF JobFits, Holds, Lock
  <2>3. \A x \in Writer : lock'[x] = p <=> x = w
    BY <1>1, <1>2, <2>2
  <2>4. QED BY <1>1, <2>1, <2>3 DEF JobFits, Holds, Job
<1>4. ASSUME NEW q \in Process, q # p PROVE JobFits(q)'
  <2>1. job'[q] = job[q] /\ \A x \in Writer : (lock'[x] = q) <=> (lock[x] = q)
    BY <1>1, <1>2, <1>4
  <2>2. QED BY <1>1, <2>1, JobsFitIs, JobKept
<1>5. QED BY <1>3, <1>4, JobsFitIsThen

LEMMA CheckMoreFits ==
  ASSUME TypeOK, JobsFit, NEW p \in Process, CheckMore(p)
  PROVE  JobsFit'
<1> DEFINE w == job[p].of
<1>1. /\ w \in Writer /\ job[p].at = "check" /\ buffer[w] # <<>> /\ channel[w] = "open"
      /\ job' = [job EXCEPT ![p] = Job(w, "take", <<>>)] /\ UNCHANGED <<buffer, channel, lock>>
  BY DEF CheckMore, JobsFit
<1>2. job \in [Process -> Jobs]
  BY DEF TypeOK
<1>3. JobFits(p)'
  <2>1. job'[p] = Job(w, "take", <<>>)
    BY <1>1, <1>2
  <2>2. QED BY <1>1, <2>1, JobsFitIs DEF JobFits, Holds, Job
<1>4. ASSUME NEW q \in Process, q # p PROVE JobFits(q)'
  <2>1. job'[q] = job[q]
    BY <1>1, <1>2, <1>4
  <2>2. QED BY <1>1, <2>1, JobsFitIs, JobKept
<1>5. QED BY <1>3, <1>4, JobsFitIsThen

\* A thread that leaves writeout
LEMMA LeaveFits ==
  ASSUME TypeOK, JobsFit, NEW p \in Process, job[p].at \in {"check", "write"},
         lock' = [lock EXCEPT ![job[p].of] = Nobody], job' = [job EXCEPT ![p] = Idle],
         UNCHANGED <<buffer, channel>>
  PROVE  JobsFit'
<1> DEFINE w == job[p].of
<1>1. w \in Writer
  BY DEF JobsFit
<1>2. /\ lock \in [Writer -> Process \cup {Nobody}] /\ Nobody \notin Process /\ Nobody \notin Writer
      /\ job \in [Process -> Jobs]
  BY ReportAssumption DEF TypeOK, Process
<1>3. JobFits(p)'
  <2>1. job'[p] = Idle
    BY <1>2
  <2>2. \A x \in Writer : lock[x] = p <=> x = w
    BY <1>1, JobsFitIs DEF JobFits, Holds
  <2>3. \A x \in Writer : lock'[x] # p
    BY <1>1, <1>2, <2>2
  <2>4. QED BY <1>2, <2>1, <2>3 DEF JobFits, Holds, Job, Idle
<1>4. ASSUME NEW q \in Process, q # p PROVE JobFits(q)'
  <2>1. lock[w] = p
    BY <1>1, JobsFitIs DEF JobFits, Holds
  <2>2. job'[q] = job[q] /\ \A x \in Writer : (lock'[x] = q) <=> (lock[x] = q)
    BY <1>1, <1>2, <1>4, <2>1
  <2>3. QED BY <2>2, JobsFitIs, JobKept
<1>5. QED BY <1>3, <1>4, JobsFitIsThen

LEMMA TakeFits ==
  ASSUME TypeOK, JobsFit, NEW p \in Process, Take(p)
  PROVE  JobsFit'
<1> DEFINE w == job[p].of
           hand == <<Head(buffer[w])>>
<1>1. /\ w \in Writer /\ job[p].at = "take" /\ channel[w] = "open"
      /\ job' = [job EXCEPT ![p] = Job(w, "write", hand)] /\ UNCHANGED <<channel, lock>>
      /\ buffer' = [buffer EXCEPT ![w] = Tail(@)]
  BY DEF Take, JobsFit
<1>2. job \in [Process -> Jobs] /\ buffer \in [Writer -> Seq(Entries)]
  BY DEF TypeOK
<1>3. JobFits(p)'
  <2>1. job'[p] = Job(w, "write", hand) /\ Len(hand) = 1
    BY <1>1, <1>2
  <2>2. QED BY <1>1, <2>1, JobsFitIs DEF JobFits, Holds, Job
<1>4. ASSUME NEW q \in Process, q # p PROVE JobFits(q)'
  <2>1. job'[q] = job[q]
    BY <1>1, <1>2, <1>4
  <2>2. lock[w] = p
    BY <1>1, JobsFitIs DEF JobFits, Holds
  <2>3. \A x \in Writer : job[q].of = x /\ job[q].at = "take" => x # w
    BY <1>4, <2>2, JobsFitIs DEF JobFits, Holds
  <2>4. \A x \in Writer : x # w => buffer'[x] = buffer[x]
    BY <1>1, <1>2
  <2>5. QED BY <1>1, <2>1, <2>3, <2>4, JobsFitIs, JobKept
<1>5. QED BY <1>3, <1>4, JobsFitIsThen

LEMMA WriteFits ==
  ASSUME TypeOK, JobsFit, NEW p \in Process, Write(p)
  PROVE  JobsFit'
<1> DEFINE w == job[p].of
<1>1. /\ w \in Writer /\ job[p].at = "write"
      /\ job' = [job EXCEPT ![p] = Job(w, "check", <<>>)] /\ UNCHANGED <<buffer, channel, lock>>
  BY DEF Write, JobsFit
<1>2. job \in [Process -> Jobs]
  BY DEF TypeOK
<1>3. JobFits(p)'
  <2>1. job'[p] = Job(w, "check", <<>>)
    BY <1>1, <1>2
  <2>2. QED BY <1>1, <2>1, JobsFitIs DEF JobFits, Holds, Job
<1>4. ASSUME NEW q \in Process, q # p PROVE JobFits(q)'
  <2>1. job'[q] = job[q]
    BY <1>1, <1>2, <1>4
  <2>2. QED BY <1>1, <2>1, JobsFitIs, JobKept
<1>5. QED BY <1>3, <1>4, JobsFitIsThen

LEMMA WriteoutFits ==
  ASSUME TypeOK, JobsFit, NEW p \in Process, InWriteout(p)
  PROVE  JobsFit'
<1>1. CASE CheckDone(p)
  BY <1>1, LeaveFits DEF CheckDone
<1>2. CASE FailWrite(p)
  BY <1>2, LeaveFits DEF FailWrite
<1>3. QED BY <1>1, <1>2, LockFits, CheckMoreFits, TakeFits, WriteFits DEF InWriteout

\* A thread that comes to writeout
LEMMA ComeFits ==
  ASSUME TypeOK, JobsFit, NEW p \in Process, job[p] = Idle, NEW w \in Writer,
         job' = [job EXCEPT ![p] = Job(w, "lock", <<>>)], UNCHANGED <<buffer, channel, lock>>
  PROVE  JobsFit'
<1>1. job \in [Process -> Jobs]
  BY DEF TypeOK
<1>2. JobFits(p)'
  <2>1. job'[p] = Job(w, "lock", <<>>)
    BY <1>1
  <2>2. \A x \in Writer : lock[x] # p
    BY JobsFitIs DEF JobFits, Holds, Idle, Job
  <2>3. QED BY <2>1, <2>2 DEF JobFits, Holds, Job
<1>3. ASSUME NEW q \in Process, q # p PROVE JobFits(q)'
  <2>1. job'[q] = job[q]
    BY <1>1, <1>3
  <2>2. QED BY <2>1, JobsFitIs, JobKept
<1>4. QED BY <1>2, <1>3, JobsFitIsThen

LEMMA SimulationFits ==
  ASSUME TypeOK, JobsFit, FinalizingFits, SimulationNext
  PROVE  JobsFit'
<1>1. ASSUME UNCHANGED <<job, lock, buffer>>,
             \A w \in Writer : channel[w] = "open" => channel'[w] = "open"
      PROVE  JobsFit'
  BY <1>1, JobsFitIs, JobsFitIsThen, JobKept
<1>2. ASSUME NEW w \in Writer, Opened(w)
      PROVE  \A x \in Writer : channel[x] = "open" => channel'[x] = "open"
  BY <1>2 DEF Opened, TypeOK
<1>3. CASE Tick \/ CancelTask \/ EndSimulation \/ Exit \/ \E w \in Writer : Die(w)
  BY <1>1, <1>3 DEF Tick, CancelTask, EndSimulation, Exit, Die
<1>4. CASE AddEntry
  <2>1. /\ buffer' = [buffer EXCEPT ![sim.of] = Append(@, Head(sim.todo))]
        /\ Head(sim.todo) \in Entries /\ buffer \in [Writer -> Seq(Entries)]
    BY <1>4, AddEntryType DEF TypeOK
  <2>2. \A w \in Writer : buffer[w] # <<>> => buffer'[w] # <<>>
    BY <2>1, AppendProperties
  <2>3. UNCHANGED <<job, lock, channel>>
    BY <1>4 DEF AddEntry
  <2>4. QED BY <2>2, <2>3, JobsFitIs, JobsFitIsThen, JobKept
<1>5. CASE WriteRest
  <2>1. sim.of \in Writer /\ job[Simulation] = Idle /\ Simulation \in Process
    BY <1>5 DEF WriteRest, FinalizingFits, Process
  <2>2. QED BY <1>5, <2>1, ComeFits DEF WriteRest
<1>6. CASE CloseFile
  <2>1. /\ UNCHANGED <<job, lock, buffer>> /\ channel' = [channel EXCEPT ![sim.of] = "closed"]
        /\ channel \in [Writer -> {"none", "open", "closed"}]
    BY <1>6 DEF CloseFile, TypeOK
  <2>2. \A p \in Process : job[p].of = sim.of => job[p].at \notin {"take", "write"}
    BY <1>6 DEF CloseFile, FinalizingFits
  <2>3. ASSUME NEW p \in Process PROVE JobFits(p)'
    <3>1. \A w \in Writer : job[p].of = w /\ job[p].at \in {"take", "write"} => channel'[w] = channel[w]
      BY <2>1, <2>2
    <3>2. QED BY <2>1, <3>1, JobsFitIs, JobKept
  <2>4. QED BY <2>3, JobsFitIsThen
<1>7. ASSUME NEW w \in Writer, Flush(w) PROVE JobsFit'
  <2>1. UNCHANGED channel \/ Opened(w)
    BY <1>7 DEF Flush
  <2>2. UNCHANGED <<job, lock, buffer>>
    BY <1>7 DEF Flush
  <2>3. QED BY <1>1, <1>2, <2>1, <2>2
<1>8. ASSUME NEW w \in Writer, Record(w) PROVE JobsFit'
  <2>1. UNCHANGED channel \/ Opened(w)
    BY <1>8 DEF Record, Report, Keep
  <2>2. UNCHANGED <<job, lock, buffer>>
    BY <1>8 DEF Record
  <2>3. QED BY <1>1, <1>2, <2>1, <2>2
<1>9. QED BY <1>3, <1>4, <1>5, <1>6, <1>7, <1>8 DEF SimulationNext

-----------------------------------------------------------------------------
(* Finalizing fits.                                                        *)

\* While a file is about to be closed, the threads find nothing to write.
LEMMA ThreadFinalizes ==
  ASSUME TypeOK, JobsFit, FinalizingFits, NEW p \in Thread, InWriteout(p)
  PROVE  FinalizingFits'
<1> DEFINE w == job[p].of
<1>1. p \in Process /\ p # Simulation /\ Simulation \in Process /\ Nobody \notin Writer
  BY ReportAssumption DEF Process
<1>2. /\ job \in [Process -> Jobs] /\ buffer \in [Writer -> Seq(Entries)] /\ w \in Writer
      /\ UNCHANGED <<sim, channel, finalized>>
  BY <1>1 DEF TypeOK, JobsFit, InWriteout, Lock, CheckMore, CheckDone, Take, Write, FailWrite
<1> DEFINE j == job'[p]
<1>3. \/ j = Idle
      \/ j.of = w /\ j.at = "check"
      \/ j.of = w /\ j.at = "take" /\ buffer[w] # <<>>
      \/ j.of = w /\ job[p].at = "take"
  <2>1. CASE Lock(p) \/ Write(p)
    <3>1. job' = [job EXCEPT ![p] = Job(w, "check", <<>>)]
      BY <2>1 DEF Lock, Write
    <3>2. QED BY <1>1, <1>2, <3>1 DEF Job
  <2>2. CASE CheckMore(p)
    BY <1>1, <1>2, <2>2 DEF CheckMore, Job
  <2>3. CASE CheckDone(p) \/ FailWrite(p)
    BY <1>1, <1>2, <2>3 DEF CheckDone, FailWrite
  <2>4. CASE Take(p)
    BY <1>1, <1>2, <2>4 DEF Take, Job
  <2>5. QED BY <2>1, <2>2, <2>3, <2>4 DEF InWriteout
<1>4. \A q \in Process : q # p => job'[q] = job[q]
  BY <1>1, <1>2 DEF InWriteout, Lock, CheckMore, CheckDone, Take, Write, FailWrite
<1>5. \A x \in Writer : x # w \/ job[p].at # "take" => buffer'[x] = buffer[x]
  BY <1>2 DEF InWriteout, Lock, CheckMore, CheckDone, Take, Write, FailWrite
<1>6. ASSUME sim.at = "closes"
      PROVE  /\ buffer'[sim.of] = <<>>
             /\ \A q \in Process : job'[q].of = sim.of => job'[q].at \in {"lock", "check"}
  <2>1. /\ sim.of \in Writer /\ buffer[sim.of] = <<>>
        /\ \A q \in Process : job[q].of = sim.of => job[q].at \in {"lock", "check"}
    BY <1>6 DEF FinalizingFits
  <2>2. w = sim.of => job[p].at # "take"
    BY <1>1, <2>1
  <2>3. buffer'[sim.of] = <<>>
    BY <1>5, <2>1, <2>2
  <2>4. j.of = sim.of => j.at \in {"lock", "check"}
    BY <1>1, <1>3, <2>1, <2>2 DEF Idle, Job
  <2>5. QED BY <1>1, <1>4, <2>1, <2>3, <2>4
<1>7. QED BY <1>1, <1>2, <1>4, <1>6 DEF FinalizingFits

LEMMA BeginFinalizes ==
  ASSUME TypeOK, FinalizingFits, NEW p \in Thread, NEW w \in Writer, BeginWriteout(p, w)
  PROVE  FinalizingFits'
<1>1. p \in Process /\ p # Simulation /\ Simulation \in Process
  BY ReportAssumption DEF Process
<1>2. job' = [job EXCEPT ![p] = Job(w, "lock", <<>>)] /\ UNCHANGED <<sim, channel, finalized, buffer>>
  BY DEF BeginWriteout
<1>3. \A q \in Process : job'[q] = IF q = p THEN Job(w, "lock", <<>>) ELSE job[q]
  BY <1>1, <1>2 DEF TypeOK
<1>4. QED BY <1>1, <1>2, <1>3 DEF FinalizingFits, Job

\* The simulation in writeout: when it is done, nothing is left.
LEMMA SimulationFinalizes ==
  ASSUME TypeOK, JobsFit, FinalizingFits, InWriteout(Simulation)
  PROVE  FinalizingFits'
<1> DEFINE w == job[Simulation].of
<1>1. Simulation \in Process /\ Nobody \notin Writer
  BY ReportAssumption DEF Process
<1>2. /\ job \in [Process -> Jobs] /\ w \in Writer /\ job[Simulation].at # "idle"
      /\ UNCHANGED <<channel, finalized>>
  BY <1>1 DEF TypeOK, JobsFit, InWriteout, Lock, CheckMore, CheckDone, Take, Write, FailWrite
<1>3. sim.at = "writes" /\ sim.of = w /\ sim.todo = <<>> /\ channel[w] = "open" /\ w \notin finalized
  BY <1>2 DEF FinalizingFits, Idle, Job
<1>4. CASE Lock(Simulation) \/ CheckMore(Simulation) \/ Take(Simulation) \/ Write(Simulation)
  <2>1. job'[Simulation].at # "idle" /\ job'[Simulation].of = w
    <3>1. CASE Lock(Simulation) \/ Write(Simulation)
      <4>1. job' = [job EXCEPT ![Simulation] = Job(w, "check", <<>>)]
        BY <3>1 DEF Lock, Write
      <4>2. QED BY <1>1, <1>2, <4>1 DEF Job
    <3>2. CASE CheckMore(Simulation)
      BY <1>1, <1>2, <3>2 DEF CheckMore, Job
    <3>3. CASE Take(Simulation)
      BY <1>1, <1>2, <3>3 DEF Take, Job
    <3>4. QED BY <1>4, <3>1, <3>2, <3>3
  <2>2. UNCHANGED sim
    BY <1>4 DEF Lock, CheckMore, Take, Write
  <2>3. QED BY <1>2, <1>3, <2>1, <2>2 DEF FinalizingFits
<1>5. CASE CheckDone(Simulation)
  <2>1. /\ sim' = Sim(w, "closes", <<>>) /\ job' = [job EXCEPT ![Simulation] = Idle]
        /\ UNCHANGED buffer /\ buffer[w] = <<>> /\ job[Simulation].at = "check"
    BY <1>3, <1>5 DEF CheckDone
  <2>2. \A q \in Process : job'[q] = IF q = Simulation THEN Idle ELSE job[q]
    BY <1>1, <1>2, <2>1
  <2>3. lock[w] = Simulation
    BY <1>1, <1>2, <2>1, JobsFitIs DEF JobFits, Holds
  <2>4. ASSUME NEW q \in Process, job'[q].of = w PROVE job'[q].at \in {"lock", "check"}
    <3>1. q # Simulation /\ job'[q] = job[q] /\ job[q].of = w
      BY <1>1, <1>2, <2>2, <2>4 DEF Idle, Job
    <3>2. job[q].at \notin {"check", "take", "write"}
      BY <1>2, <2>3, <3>1, JobsFitIs DEF JobFits, Holds
    <3>3. job[q].at # "idle"
      BY <1>1, <1>2, <3>1, JobsFitIs DEF JobFits, Idle, Job
    <3>4. job[q].at \in {"idle", "lock", "check", "take", "write"}
      BY <1>2 DEF Jobs
    <3>5. QED BY <3>1, <3>2, <3>3, <3>4
  <2>5. sim'.of = w /\ sim'.at = "closes" /\ sim'.todo = <<>> /\ job'[Simulation] = Idle
    BY <1>1, <2>1, <2>2 DEF Sim
  <2>6. QED BY <1>2, <1>3, <2>1, <2>4, <2>5 DEF FinalizingFits
<1>6. CASE FailWrite(Simulation)
  <2>1. sim'.at = "failed" /\ sim'.todo = <<>> /\ job'[Simulation] = Idle
    BY <1>1, <1>2, <1>6 DEF FailWrite, Sim
  <2>2. QED BY <2>1 DEF FinalizingFits
<1>7. QED BY <1>4, <1>5, <1>6 DEF InWriteout

LEMMA SimulationNextFinalizes ==
  ASSUME TypeOK, JobsFit, FinalizingFits, SimulationNext
  PROVE  FinalizingFits'
<1>1. CASE Tick
  BY <1>1 DEF Tick, FinalizingFits
<1>2. CASE AddEntry
  <2>1. /\ sim.todo # <<>> /\ sim.of \in Writer /\ sim.at \in {"simulates", "ended", "flushes", "cancelled"}
        /\ sim'.of = sim.of /\ sim'.at = sim.at /\ UNCHANGED <<job, channel, finalized>>
    BY <1>2 DEF AddEntry, FinalizingFits, Sim
  <2>2. QED BY <2>1 DEF FinalizingFits
<1>3. CASE CancelTask
  <2>1. /\ sim.of \in Writer \ finalized /\ job[Simulation] = Idle /\ UNCHANGED <<job, channel, buffer>>
        /\ finalized \subseteq finalized' /\ sim.at = "flushes"
    BY <1>3 DEF CancelTask, FinalizingFits
  <2>2. CASE channel[sim.of] = "none"
    <3>1. sim'.at \in {"simulates", "finalizes"} /\ sim'.todo = <<>>
      BY <1>3, <2>2 DEF CancelTask, Sim, Resumed
    <3>2. QED BY <2>1, <3>1 DEF FinalizingFits
  <2>3. CASE channel[sim.of] # "none"
    <3>1. channel[sim.of] = "open"
      BY <2>1, <2>3 DEF TypeOK, FinalizingFits
    <3>2. sim'.at = "cancelled" /\ sim'.of = sim.of /\ finalized' = finalized
      BY <1>3, <2>3 DEF CancelTask, Sim
    <3>3. QED BY <2>1, <3>1, <3>2 DEF FinalizingFits
  <2>4. QED BY <2>2, <2>3
<1>4. CASE WriteRest
  <2>1. /\ sim.at = "cancelled" /\ sim.of \in Writer \ finalized /\ channel[sim.of] = "open"
        /\ UNCHANGED <<channel, finalized>>
    BY <1>4 DEF WriteRest, FinalizingFits
  <2>2. sim'.at = "writes" /\ sim'.of = sim.of /\ sim'.todo = <<>>
    BY <1>4 DEF WriteRest, Sim
  <2>3. job'[Simulation].at = "lock" /\ job'[Simulation].of = sim.of
    BY <1>4 DEF WriteRest, TypeOK, Process, Job
  <2>4. QED BY <2>1, <2>2, <2>3 DEF FinalizingFits
<1>5. CASE CloseFile
  <2>1. /\ sim.at = "closes" /\ job[Simulation] = Idle /\ UNCHANGED job
        /\ channel' = [channel EXCEPT ![sim.of] = "closed"] /\ channel \in [Writer -> {"none", "open", "closed"}]
    BY <1>5 DEF CloseFile, FinalizingFits, TypeOK
  <2>2. \A x \in Writer : channel'[x] = "closed" => x = sim.of \/ x \in finalized
    BY <2>1 DEF FinalizingFits
  <2>3. \/ /\ sim'.at \in {"simulates", "finalizes"} /\ sim'.todo = <<>>
           /\ finalized' = finalized \cup {sim.of}
        \/ sim'.at = "failed" /\ sim'.todo = <<>>
    BY <1>5 DEF CloseFile, Sim, Resumed
  <2>4. QED BY <2>1, <2>2, <2>3 DEF FinalizingFits
<1>6. CASE EndSimulation
  <2>1. sim.at \in {"simulates", "finalizes"} /\ sim'.at = "ended" /\ sim'.todo = <<>>
    BY <1>6 DEF EndSimulation, Sim
  <2>2. UNCHANGED <<job, channel, finalized>>
    BY <1>6 DEF EndSimulation
  <2>3. QED BY <2>1, <2>2 DEF FinalizingFits
<1>11. CASE Exit
  <2>1. sim.at \in {"ended", "failed"} /\ sim'.at = "exited" /\ sim'.todo = <<>>
    BY <1>11 DEF Exit, Sim
  <2>2. UNCHANGED <<job, channel, finalized>>
    BY <1>11 DEF Exit
  <2>3. QED BY <2>1, <2>2 DEF FinalizingFits
<1>12. ASSUME NEW w \in Writer, Die(w) PROVE FinalizingFits'
  <2>1. /\ sim.at = "simulates" /\ w \notin finalized
        /\ sim'.of = w /\ sim'.at = "flushes" /\ sim'.todo = <<>>
    BY <1>12 DEF Die, Simulates, Sim
  <2>2. UNCHANGED <<job, channel, finalized>>
    BY <1>12 DEF Die
  <2>3. QED BY <2>1, <2>2 DEF FinalizingFits
<1> DEFINE Reaches(w) == \A x \in Writer : channel'[x] = "closed" => channel[x] = "closed"
<1>7. ASSUME NEW w \in Writer, Opened(w) PROVE Reaches(w)
  BY <1>7 DEF Opened, TypeOK
<1>8. ASSUME NEW w \in Writer, Flush(w) PROVE FinalizingFits'
  <2>1. PICK todo \in Seq(Entries) : sim' = Sim(w, "flushes", todo)
    BY <1>8, FlushType
  <2>2. /\ sim.at \in {"simulates", "finalizes"} /\ w \notin finalized /\ UNCHANGED <<job, finalized>>
        /\ sim'.of = w /\ sim'.at = "flushes"
    BY <1>8, <2>1 DEF Flush, Sim
  <2>3. UNCHANGED channel \/ Opened(w)
    BY <1>8 DEF Flush
  <2>4. QED BY <1>7, <2>2, <2>3 DEF FinalizingFits
<1>9. ASSUME NEW w \in Writer, Record(w) PROVE FinalizingFits'
  <2>1. UNCHANGED <<job, finalized>> /\ recorded + 1 \in Nat
    BY <1>9 DEF Record, TypeOK
  <2>2. CASE Report(w, recorded + 1)
    <3>1. PICK todo \in Seq(Entries) : sim' = Sim(w, sim.at, todo)
      BY <2>1, <2>2, ReportType
    <3>2. sim.at \in {"simulates", "ended"} /\ sim'.of = w /\ sim'.at = sim.at /\ Opened(w)
      BY <2>2, <3>1 DEF Report, Sim
    <3>3. QED BY <1>7, <2>1, <3>2 DEF FinalizingFits
  <2>3. CASE Keep(w, recorded + 1)
    BY <2>1, <2>3 DEF Keep, Simulates, FinalizingFits
  <2>4. QED BY <1>9, <2>2, <2>3 DEF Record
<1>10. QED BY <1>1, <1>2, <1>3, <1>4, <1>5, <1>6, <1>8, <1>9, <1>11, <1>12 DEF SimulationNext

-----------------------------------------------------------------------------
LEMMA InitInvariant ==
  ASSUME Init
  PROVE  WriterInvariant
<1>1. /\ Nobody \notin Process /\ Nobody \notin Writer /\ Simulation \in Process
      /\ <<>> \in Seq(Entries) /\ Idle \in Jobs
  BY ReportAssumption, EmptySeq, JobType DEF Process, Idle
<1>2. TypeOK
  <2>1. \A w \in Writer : DOMAIN kept[w] = {}
    BY DEF Init
  <2>2. IsFiniteSet({}) /\ {} = 0 .. Cardinality({}) - 1
    BY FS_EmptySet
  <2>3. sim \in Sims
    BY <1>1, SimType DEF Init
  <2>4. QED BY <1>1, <2>1, <2>2, <2>3 DEF Init, TypeOK
<1>3. JobsFit
  BY <1>1 DEF Init, JobsFit, Holds, Idle, Job
<1>4. FinalizingFits
  BY <1>1 DEF Init, FinalizingFits, Sim
<1>5. QED BY <1>2, <1>3, <1>4 DEF WriterInvariant

LEMMA NextInvariant ==
  ASSUME WriterInvariant, [Next]_vars
  PROVE  WriterInvariant'
<1> USE DEF WriterInvariant
<1>1. CASE SimulationNext
  BY <1>1, SimulationType, SimulationFits, SimulationNextFinalizes
<1>2. ASSUME NEW p \in Process, Writeout(p) PROVE WriterInvariant'
  <2>1. TypeOK' /\ JobsFit'
    BY <1>2, WriteoutType, WriteoutFits DEF Writeout
  <2>2. FinalizingFits'
    BY <1>2, ThreadFinalizes, SimulationFinalizes DEF Process, Writeout
  <2>3. QED BY <2>1, <2>2
<1>3. ASSUME NEW p \in Thread, NEW w \in Writer, BeginWriteout(p, w) PROVE WriterInvariant'
  <2>1. JobsFit'
    BY <1>3, ComeFits DEF BeginWriteout, Process
  <2>2. QED BY <1>3, <2>1, BeginWriteoutType, BeginFinalizes
<1>4. CASE UNCHANGED vars
  BY <1>4 DEF vars, TypeOK, JobsFit, FinalizingFits, Holds
<1>5. QED BY <1>1, <1>2, <1>3, <1>4 DEF Next

\* Writing out is safe: no two threads take from a buffer at the same time,
\* none takes from an empty buffer or writes to a closed file, and a file is
\* closed when nothing is left for it.
THEOREM WriterInvariantHolds == Spec => []WriterInvariant
<1>1. Init => WriterInvariant
  BY InitInvariant
<1>2. WriterInvariant /\ [Next]_vars => WriterInvariant'
  BY NextInvariant
<1>3. QED BY <1>1, <1>2, PTL DEF Spec

-----------------------------------------------------------------------------
(* A log in three parts: the file f, an entry h in hand, the buffer b.     *)

LEMMA ThreeParts ==
  ASSUME NEW S, NEW f \in Seq(S), NEW h \in Seq(S), NEW b \in Seq(S)
  PROVE  /\ f \o (h \o b) \in Seq(S)
         /\ Len(f \o (h \o b)) = Len(f) + Len(h) + Len(b)
         /\ (f \o h) \o (<<>> \o b) = f \o (h \o b)
         /\ f \o (<<>> \o b) = f \o b
         /\ Len(f) \in Nat /\ Len(h) \in Nat /\ Len(b) \in Nat
<1>1. h \o b \in Seq(S) /\ Len(h \o b) = Len(h) + Len(b)
  BY ConcatProperties
<1>2. Len(f) \in Nat /\ Len(h) \in Nat /\ Len(b) \in Nat
  BY LenProperties
<1>3. f \o (h \o b) \in Seq(S) /\ Len(f \o (h \o b)) = Len(f) + Len(h \o b)
  BY <1>1, ConcatProperties
<1>4. <<>> \o b = b
  BY ConcatEmptySeq
<1>5. (f \o h) \o b = f \o (h \o b)
  BY ConcatAssociative
<1>6. QED BY <1>1, <1>2, <1>3, <1>4, <1>5

LEMMA LogAppended ==
  ASSUME NEW f \in Seq(Entries), NEW h \in Seq(Entries), NEW b \in Seq(Entries), NEW e \in Entries
  PROVE  f \o (h \o Append(b, e)) = Append(f \o (h \o b), e)
<1> DEFINE old == f \o (h \o b)
           new == f \o (h \o Append(b, e))
<1>1. Append(b, e) = b \o <<e>> /\ <<e>> \in Seq(Entries)
  BY AppendIsConcat
<1>2. h \o b \in Seq(Entries) /\ old \in Seq(Entries)
  BY ThreeParts, ConcatProperties
<1>3. h \o (b \o <<e>>) = (h \o b) \o <<e>>
  BY <1>1, ConcatAssociative
<1>4. new = old \o <<e>>
  <2>1. f \o ((h \o b) \o <<e>>) = (f \o (h \o b)) \o <<e>>
    BY <1>1, <1>2, ConcatAssociative
  <2>2. QED BY <1>1, <1>3, <2>1
<1>5. old \o <<e>> = Append(old, e)
  BY <1>2, AppendIsConcat
<1>6. QED BY <1>4, <1>5

LEMMA LogGrows ==
  ASSUME NEW f \in Seq(Entries), NEW h \in Seq(Entries), NEW b \in Seq(Entries), NEW e \in Entries
  PROVE  LET old == f \o (h \o b)
             new == f \o (h \o Append(b, e))
         IN  Len(new) = Len(old) + 1 /\ new = Append(old, new[Len(old) + 1])
<1> DEFINE old == f \o (h \o b)
           new == f \o (h \o Append(b, e))
<1>1. new = Append(old, e)
  BY LogAppended
<1>2. old \in Seq(Entries) /\ Len(old) \in Nat
  BY ThreeParts, LenProperties
<1>3. Len(new) = Len(old) + 1 /\ new[Len(old) + 1] = e
  BY <1>1, <1>2, AppendProperties
<1>4. QED BY <1>1, <1>3

\* The entry in hand is the next one for the file.
LEMMA HandIsNext ==
  ASSUME NEW S, NEW f \in Seq(S), NEW h \in Seq(S), NEW b \in Seq(S), Len(h) = 1
  PROVE  LET all == f \o (h \o b)
         IN  /\ Len(f) < Len(all)
             /\ f \o h = Append(f, all[Len(f) + 1])
             /\ b = SubSeq(all, Len(f) + 2, Len(all))
<1> DEFINE all == f \o (h \o b)
           rest == SubSeq(all, Len(f) + 2, Len(all))
<1>1. /\ all \in Seq(S) /\ Len(all) = Len(f) + 1 + Len(b) /\ Len(f) \in Nat /\ Len(b) \in Nat
      /\ (f \o h) \o b = all
  <2>1. (f \o h) \o b = all
    BY ConcatAssociative
  <2>2. h \o b \in Seq(S) /\ Len(h \o b) = 1 + Len(b) /\ Len(f) \in Nat /\ Len(b) \in Nat
    BY ConcatProperties, LenProperties, ZenonT(40)
  <2>3. all \in Seq(S) /\ Len(all) = Len(f) + Len(h \o b)
    BY <2>2, ConcatProperties
  <2>4. QED BY <2>1, <2>2, <2>3
<1>2. h[1] \in S /\ h = <<h[1]>>
  <2>1. h[1] \in S
    <3>1. 1 \in 1 .. Len(h)
      OBVIOUS
    <3>2. QED BY <3>1, ElementOfSeq
  <2>2. \A i \in 1 .. Len(h) : h[i] = <<h[1]>>[i]
    OBVIOUS
  <2>3. <<h[1]>> \in Seq(S) /\ Len(<<h[1]>>) = 1
    BY <2>1
  <2>4. QED BY <2>1, <2>2, <2>3, SeqEqual
<1>3. f \o h \in Seq(S) /\ Len(f \o h) = Len(f) + 1 /\ (f \o h)[Len(f) + 1] = h[1]
  BY <1>1, ConcatProperties
<1>4. all[Len(f) + 1] = h[1]
  BY <1>1, <1>3, ConcatProperties
<1>5. f \o h = Append(f, h[1])
  BY <1>2, AppendIsConcat
<1>6. b = rest
  <2>1. \A i \in Len(f) + 2 .. Len(all) : all[i] \in S
    BY <1>1, ElementOfSeq
  <2>2. /\ rest \in Seq(S) /\ Len(rest) = Len(b)
        /\ \A i \in 1 .. Len(b) : rest[i] = all[Len(f) + 1 + i]
    BY <1>1, <2>1, SubSeqProperties, SMTT(20)
  <2>3. \A i \in 1 .. Len(b) : all[Len(f) + 1 + i] = b[i]
    BY <1>1, <1>3, ConcatProperties
  <2>4. QED BY <2>2, <2>3, SeqEqual
<1>7. Len(f) < Len(all)
  BY <1>1
<1>8. QED
  <2> HIDE DEF all, rest
  <2>1. QED BY <1>4, <1>5, <1>6, <1>7 DEF all, rest

LEMMA HeadAndTail ==
  ASSUME NEW S, NEW b \in Seq(S), b # <<>>
  PROVE  <<Head(b)>> \o Tail(b) = b
<1>1. Head(b) \in S /\ Tail(b) \in Seq(S) /\ Len(Tail(b)) = Len(b) - 1
      /\ \A i \in 1 .. Len(Tail(b)) : Tail(b)[i] = b[i + 1]
  BY HeadTailProperties
<1>2. <<Head(b)>> \in Seq(S) /\ Len(b) \in Nat /\ Len(b) # 0 /\ Head(b) = b[1]
  BY <1>1, EmptySeq, LenProperties
<1> DEFINE s == <<Head(b)>> \o Tail(b)
<1>3. s \in Seq(S) /\ Len(s) = Len(b)
      /\ \A i \in 1 .. Len(b) : s[i] = IF i <= 1 THEN <<Head(b)>>[i] ELSE Tail(b)[i - 1]
  BY <1>1, <1>2, ConcatProperties
<1>4. \A i \in 1 .. Len(b) : s[i] = b[i]
  BY <1>1, <1>2, <1>3
<1>5. QED BY <1>3, <1>4, SeqEqual

\* To take an entry in hand changes nothing.
LEMMA TakeKeeps ==
  ASSUME NEW S, NEW f \in Seq(S), NEW b \in Seq(S), b # <<>>
  PROVE  f \o (<<Head(b)>> \o Tail(b)) = f \o (<<>> \o b)
<1>1. <<Head(b)>> \o Tail(b) = b
  BY HeadAndTail
<1>2. <<>> \o b = b
  BY ConcatEmptySeq
<1>3. QED BY <1>1, <1>2

-----------------------------------------------------------------------------
(* The files are logs.                                                     *)

LEMMA LogKept ==
  ASSUME UNCHANGED file,
         \A w \in Writer : Logged(w)' = Logged(w) /\ (channel'[w] = "closed" <=> channel[w] = "closed")
  PROVE  UNCHANGED Log!logVars
BY DEF Log!logVars

LEMMA HandType ==
  ASSUME TypeOK, NEW w \in Writer
  PROVE  /\ Hand(w) \in Seq(Entries) /\ file[w] \in Seq(Entries) /\ buffer[w] \in Seq(Entries)
         /\ <<>> \in Seq(Entries)
<1>1. lock[w] \in Process \cup {Nobody} /\ <<>> \in Seq(Entries)
      /\ file[w] \in Seq(Entries) /\ buffer[w] \in Seq(Entries)
  BY FieldTypes DEF TypeOK
<1>2. \A p \in Process : job[p].hand \in Seq(Entries)
  BY FieldTypes
<1>3. QED BY <1>1, <1>2 DEF Hand

\* The hand of a file is that of the thread that holds its lock.
LEMMA HandIs ==
  ASSUME TypeOK, JobsFit, NEW p \in Process, NEW w \in Writer, Holds(p, w)
  PROVE  lock[w] = p /\ Hand(w) = job[p].hand
<1>1. lock[w] = p /\ p # Nobody
  BY JobsFitIs, ReportAssumption DEF JobFits, Process
<1>2. QED BY <1>1 DEF Hand

\* A log stays as it is while buffer and hand do.
LEMMA LoggedKept ==
  ASSUME NEW w \in Writer, file'[w] = file[w], buffer'[w] = buffer[w], lock'[w] = lock[w],
         lock[w] # Nobody => job'[lock[w]].hand = job[lock[w]].hand,
         channel'[w] = "closed" <=> channel[w] = "closed"
  PROVE  Logged(w)' = Logged(w)
BY DEF Logged, Hand

\* A thread's step changes one file's log at most.
LEMMA OthersKept ==
  ASSUME TypeOK, JobsFit, NEW p \in Process, InWriteout(p), NEW x \in Writer, x # job[p].of
  PROVE  Logged(x)' = Logged(x)
<1> DEFINE w == job[p].of
<1>1. /\ w \in Writer /\ file \in [Writer -> Seq(Entries)] /\ buffer \in [Writer -> Seq(Entries)]
      /\ lock \in [Writer -> Process \cup {Nobody}] /\ job \in [Process -> Jobs]
  BY DEF TypeOK, JobsFit, InWriteout, Lock, CheckMore, CheckDone, Take, Write, FailWrite
<1>2. file'[x] = file[x] /\ UNCHANGED channel
  BY <1>1 DEF InWriteout, Lock, CheckMore, CheckDone, Take, Write, FailWrite
<1>3. buffer'[x] = buffer[x]
  BY <1>1 DEF InWriteout, Lock, CheckMore, CheckDone, Take, Write, FailWrite
<1>4. lock'[x] = lock[x]
  BY <1>1 DEF InWriteout, Lock, CheckMore, CheckDone, Take, Write, FailWrite
<1>5. lock[x] # p
  BY JobsFitIs DEF JobFits, Holds
<1>6. \A q \in Process : q # p => job'[q] = job[q]
  BY <1>1 DEF InWriteout, Lock, CheckMore, CheckDone, Take, Write, FailWrite
<1>7. lock[x] # Nobody => job'[lock[x]] = job[lock[x]]
  BY <1>1, <1>5, <1>6
<1>8. QED BY <1>2, <1>3, <1>4, <1>7, LoggedKept

LEMMA LockLogs ==
  ASSUME TypeOK, JobsFit, NEW p \in Process, Lock(p)
  PROVE  UNCHANGED Log!logVars
<1>0. PICK w \in Writer : w = job[p].of
  BY DEF Lock, JobsFit
<1>1. /\ lock[w] = Nobody /\ lock' = [lock EXCEPT ![w] = p]
      /\ job' = [job EXCEPT ![p] = Job(w, "check", <<>>)] /\ UNCHANGED <<buffer, file, channel>>
  BY <1>0 DEF Lock
<1>2. lock'[w] = p /\ job'[p].hand = <<>> /\ p # Nobody
  BY <1>1, ReportAssumption DEF TypeOK, Process, Job
<1>3. Logged(w)' = Logged(w)
  <2>1. Hand(w) = <<>> /\ Hand(w)' = <<>>
    BY <1>1, <1>2 DEF Hand
  <2>2. QED BY <1>1, <2>1 DEF Logged
<1>4. \A x \in Writer : Logged(x)' = Logged(x)
  BY <1>0, <1>3, OthersKept DEF InWriteout
<1>5. QED BY <1>1, <1>4, LogKept

LEMMA CheckLogs ==
  ASSUME TypeOK, JobsFit, NEW p \in Process, CheckMore(p) \/ CheckDone(p)
  PROVE  UNCHANGED Log!logVars
<1>0. PICK w \in Writer : w = job[p].of
  BY DEF CheckMore, CheckDone, JobsFit
<1>1. job[p].at = "check" /\ job[p].hand = <<>> /\ UNCHANGED <<buffer, file, channel>>
  BY JobsFitIs DEF CheckMore, CheckDone, JobFits
<1>2. lock[w] = p /\ Hand(w) = <<>>
  BY <1>0, <1>1, HandIs DEF Holds
<1>3. Hand(w)' = <<>>
  <2>1. CASE CheckMore(p)
    <3>1. job' = [job EXCEPT ![p] = Job(w, "take", <<>>)] /\ lock' = lock
      BY <1>0, <2>1 DEF CheckMore
    <3>2. job'[p].hand = <<>> /\ lock'[w] = p /\ p # Nobody
      BY <1>2, <3>1, ReportAssumption DEF Job, TypeOK, Process
    <3>3. QED BY <3>2 DEF Hand
  <2>2. CASE CheckDone(p)
    <3>1. lock'[w] = Nobody
      BY <1>0, <2>2 DEF CheckDone, TypeOK
    <3>2. QED BY <3>1 DEF Hand
  <2>3. QED BY <2>1, <2>2
<1>4. Logged(w)' = Logged(w)
  BY <1>1, <1>2, <1>3 DEF Logged
<1>5. \A x \in Writer : Logged(x)' = Logged(x)
  BY <1>0, <1>4, OthersKept DEF InWriteout
<1>6. QED BY <1>1, <1>5, LogKept

LEMMA TakeLogs ==
  ASSUME TypeOK, JobsFit, NEW p \in Process, Take(p)
  PROVE  UNCHANGED Log!logVars
<1>0. PICK w \in Writer : w = job[p].of
  BY DEF Take, JobsFit
<1> DEFINE b == buffer[w]
<1>1. /\ job[p].at = "take" /\ job[p].hand = <<>> /\ b # <<>> /\ channel[w] = "open"
      /\ UNCHANGED <<file, channel, lock>>
  BY <1>0, JobsFitIs DEF Take, JobFits
<1>2. lock[w] = p /\ Hand(w) = <<>> /\ p # Nobody
  BY <1>0, <1>1, HandIs, ReportAssumption DEF Holds, Process
<1>3. b \in Seq(Entries) /\ file[w] \in Seq(Entries)
  BY <1>1 DEF TypeOK
<1>4. buffer'[w] = Tail(b)
  BY <1>0, <1>1 DEF Take, TypeOK
<1>5. job'[p] = Job(w, "write", <<Head(b)>>)
  BY <1>0 DEF Take, TypeOK
<1>6. Hand(w)' = <<Head(b)>>
  BY <1>1, <1>2, <1>5 DEF Hand, Job
<1>7. file[w] \o (<<Head(b)>> \o Tail(b)) = file[w] \o (<<>> \o b)
  BY <1>1, <1>3, TakeKeeps
<1>8. Logged(w)' = Logged(w)
  BY <1>1, <1>2, <1>4, <1>6, <1>7 DEF Logged
<1>9. \A x \in Writer : Logged(x)' = Logged(x)
  BY <1>0, <1>8, OthersKept DEF InWriteout
<1>10. QED BY <1>1, <1>9, LogKept

\* An entry that is written goes from the hand to the file.
LEMMA WriteKeeps ==
  ASSUME TypeOK, JobsFit, NEW p \in Process, Write(p), NEW x \in Writer
  PROVE  Logged(x)' = Logged(x)
<1>0. PICK w \in Writer : w = job[p].of
  BY DEF Write, JobsFit
<1> DEFINE f == file[w]
           h == job[p].hand
           b == buffer[w]
<1>1. job[p].at = "write" /\ Len(h) = 1 /\ channel[w] = "open" /\ UNCHANGED <<buffer, channel, lock>>
  BY <1>0, JobsFitIs DEF Write, JobFits
<1>2. lock[w] = p /\ Hand(w) = h /\ p # Nobody
  BY <1>0, <1>1, HandIs, ReportAssumption DEF Holds, Process
<1>3. f \in Seq(Entries) /\ h \in Seq(Entries) /\ b \in Seq(Entries)
  BY HandType, FieldTypes
<1>4. file' = [file EXCEPT ![w] = f \o h]
  BY <1>0 DEF Write
<1>5. job'[p] = Job(w, "check", <<>>)
  BY <1>0 DEF Write, TypeOK
<1>6. Hand(w)' = <<>>
  BY <1>1, <1>2, <1>5 DEF Hand, Job
<1>7. Logged(w) = f \o (h \o b)
  BY <1>1, <1>2 DEF Logged
<1>8. Logged(w)' = Logged(w)
  <2>1. file'[w] = f \o h
    BY <1>4 DEF TypeOK
  <2>2. Logged(w)' = (f \o h) \o (<<>> \o b)
    BY <1>1, <1>6, <2>1 DEF Logged
  <2>3. (f \o h) \o (<<>> \o b) = f \o (h \o b)
    BY <1>3, ThreeParts, ZenonT(40)
  <2>4. QED BY <1>7, <2>2, <2>3
<1>9. QED BY <1>0, <1>8, OthersKept DEF InWriteout

LEMMA WriteLogs ==
  ASSUME TypeOK, JobsFit, NEW p \in Process, Write(p)
  PROVE  Log!LogNext
<1>0. PICK w \in Writer : w = job[p].of
  BY DEF Write, JobsFit
<1> DEFINE f == file[w]
           h == job[p].hand
           b == buffer[w]
<1>1. job[p].at = "write" /\ Len(h) = 1 /\ channel[w] = "open" /\ UNCHANGED <<buffer, channel, lock>>
  BY <1>0, JobsFitIs DEF Write, JobFits
<1>2. lock[w] = p /\ Hand(w) = h
  BY <1>0, <1>1, HandIs DEF Holds
<1>3. f \in Seq(Entries) /\ h \in Seq(Entries) /\ b \in Seq(Entries)
  BY HandType, FieldTypes
<1>4. file' = [file EXCEPT ![w] = f \o h]
  BY <1>0 DEF Write
<1>5. Logged(w) = f \o (h \o b)
  BY <1>1, <1>2 DEF Logged
<1>6. \A x \in Writer : Logged(x)' = Logged(x)
  BY WriteKeeps
<1>7. Len(f) < Len(Logged(w)) /\ f \o h = Append(f, Logged(w)[Len(f) + 1])
  <2> DEFINE all == f \o (h \o b)
  <2>1. Len(f) < Len(all) /\ f \o h = Append(f, all[Len(f) + 1])
    BY <1>1, <1>3, HandIsNext
  <2>2. Logged(w) = all
    BY <1>5
  <2> HIDE DEF all, f, h, b
  <2>3. QED BY <2>1, <2>2
<1>8. Log!Transfer(w)
  <2>1. file' = [file EXCEPT ![w] = Append(@, Logged(w)[Len(f) + 1])]
    BY <1>4, <1>7
  <2>2. w \notin {x \in Writer : channel[x] = "closed"}
    BY <1>1
  <2>3. QED BY <1>1, <1>6, <1>7, <2>1, <2>2 DEF Log!Transfer
<1>9. QED BY <1>8 DEF Log!LogNext

\* The entry that was in hand is lost, and nothing else.
LEMMA FailWriteLogs ==
  ASSUME TypeOK, JobsFit, NEW p \in Process, FailWrite(p)
  PROVE  Log!LogNext
<1>0. PICK w \in Writer : w = job[p].of
  BY DEF FailWrite, JobsFit
<1> DEFINE f == file[w]
           h == job[p].hand
           b == buffer[w]
<1>1. job[p].at = "write" /\ Len(h) = 1 /\ channel[w] = "open" /\ UNCHANGED <<buffer, channel, file>>
  BY <1>0, JobsFitIs DEF FailWrite, JobFits
<1>2. lock[w] = p /\ Hand(w) = h
  BY <1>0, <1>1, HandIs DEF Holds
<1>3. f \in Seq(Entries) /\ h \in Seq(Entries) /\ b \in Seq(Entries)
  BY HandType, FieldTypes
<1>4. Hand(w)' = <<>>
  <2>1. lock'[w] = Nobody
    BY <1>0 DEF FailWrite, TypeOK
  <2>2. QED BY <2>1 DEF Hand
<1>5. Logged(w) = f \o (h \o b)
  BY <1>1, <1>2 DEF Logged
<1>6. Logged(w)' = f \o (<<>> \o b)
  BY <1>1, <1>4 DEF Logged
<1>7. \A x \in Writer : x # w => Logged(x)' = Logged(x)
  BY <1>0, OthersKept DEF InWriteout
<1>8. Len(f) < Len(Logged(w)) /\ Logged(w)' = f \o SubSeq(Logged(w), Len(f) + 2, Len(Logged(w)))
  <2> DEFINE all == f \o (h \o b)
  <2>1. /\ Len(f) < Len(all)
        /\ f \o h = Append(f, all[Len(f) + 1])
        /\ b = SubSeq(all, Len(f) + 2, Len(all))
    <3>1. Len(h) = 1
      BY <1>1
    <3> HIDE DEF f, h, b
    <3>2. QED BY ONLY <1>3, <3>1, HandIsNext
  <2>2. Logged(w) = all
    BY <1>5
  <2>3. Logged(w)' = f \o SubSeq(all, Len(f) + 2, Len(all))
    <3>1. <<>> \o b = b
      BY <1>3, ConcatEmptySeq
    <3>2. QED BY <1>6, <2>1, <3>1
  <2> HIDE DEF all
  <2>4. QED BY <2>1, <2>2, <2>3
<1>9. Log!Lose(w)
  <2> DEFINE log == [x \in Writer |-> Logged(x)]
  <2>1. [x \in Writer |-> Logged(x)'] = [log EXCEPT ![w] = f \o SubSeq(@, Len(f) + 2, Len(@))]
    BY <1>7, <1>8
  <2>2. w \notin {x \in Writer : channel[x] = "closed"}
    BY <1>1
  <2>3. QED BY <1>1, <1>8, <2>1, <2>2 DEF Log!Lose
<1>10. QED BY <1>9 DEF Log!LogNext

\* An entry is recorded; in the buffer of a closed file it is not.
LEMMA AddEntryLogs ==
  ASSUME WriterInvariant, AddEntry
  PROVE  [Log!LogNext]_(Log!logVars)
<1>0. PICK w \in Writer : w = sim.of
  BY AddEntryType DEF WriterInvariant
<1> DEFINE f == file[w]
           h == Hand(w)
           b == buffer[w]
           e == Head(sim.todo)
<1>1. e \in Entries /\ buffer' = [buffer EXCEPT ![w] = Append(@, e)] /\ UNCHANGED <<file, channel, lock, job>>
  BY <1>0, AddEntryType DEF WriterInvariant, AddEntry
<1>2. f \in Seq(Entries) /\ h \in Seq(Entries) /\ b \in Seq(Entries) /\ buffer'[w] = Append(b, e)
  BY <1>1, HandType DEF WriterInvariant, TypeOK
<1>3. \A x \in Writer : Hand(x)' = Hand(x)
  BY <1>1 DEF Hand
<1>4. \A x \in Writer : x # w => buffer'[x] = buffer[x]
  BY <1>1 DEF WriterInvariant, TypeOK
<1>5. \A x \in Writer : x # w => Logged(x)' = Logged(x)
  BY <1>1, <1>3, <1>4 DEF Logged
<1>6. CASE channel[w] = "closed"
  <2>1. Logged(w)' = Logged(w)
    BY <1>1, <1>6 DEF Logged
  <2>2. \A x \in Writer : Logged(x)' = Logged(x)
    BY <1>5, <2>1
  <2>3. QED BY <1>1, <2>2, LogKept
<1>7. CASE channel[w] # "closed"
  <2> DEFINE log == [x \in Writer |-> Logged(x)]
             new == f \o (h \o Append(b, e))
  <2>1. Logged(w) = f \o (h \o b)
    BY <1>7 DEF Logged
  <2>2. Logged(w)' = new
    BY <1>1, <1>2, <1>3, <1>7 DEF Logged
  <2>3. Len(new) = Len(f \o (h \o b)) + 1 /\ new = Append(f \o (h \o b), new[Len(f \o (h \o b)) + 1])
    BY <1>1, <1>2, LogGrows, ZenonT(40)
  <2> HIDE DEF new, f, h, b
  <2>4. Len(Logged(w)') = Len(Logged(w)) + 1 /\ Logged(w)' = Append(Logged(w), Logged(w)'[Len(Logged(w)) + 1])
    BY <2>1, <2>2, <2>3
  <2>5. [x \in Writer |-> Logged(x)'] = [log EXCEPT ![w] = Append(@, Logged(w)'[Len(@) + 1])]
    BY <1>5, <2>4
  <2>6. w \notin {x \in Writer : channel[x] = "closed"}
    BY <1>7
  <2>7. Log!Enter(w)
    BY <1>1, <2>4, <2>5, <2>6 DEF Log!Enter
  <2>8. QED BY <2>7 DEF Log!LogNext
<1>8. QED BY <1>6, <1>7

\* A file is closed when it has everything.
LEMMA CloseFileHas ==
  ASSUME WriterInvariant, CloseFile
  PROVE  Logged(sim.of) = file[sim.of]
<1>0. PICK w \in Writer : w = sim.of
  BY DEF WriterInvariant, FinalizingFits, CloseFile
<1>1. /\ buffer[w] = <<>> /\ channel[w] = "open" /\ UNCHANGED <<file, buffer, lock, job>>
      /\ \A p \in Process : job[p].of = w => job[p].at \in {"lock", "check"}
  BY <1>0 DEF WriterInvariant, FinalizingFits, CloseFile
<1>2. Hand(w) = <<>>
  <2>1. ASSUME lock[w] # Nobody PROVE job[lock[w]].hand = <<>>
    <3>1. PICK p \in Process : p = lock[w]
      BY <2>1 DEF WriterInvariant, TypeOK
    <3>2. Holds(p, w)
      BY <3>1, JobsFitIs DEF WriterInvariant, JobFits
    <3>3. job[p].at # "write"
      BY <1>1, <3>2 DEF Holds
    <3>4. QED BY <3>1, <3>3, JobsFitIs DEF WriterInvariant, JobFits
  <2>2. QED BY <2>1 DEF Hand
<1>3. file[w] \in Seq(Entries)
  BY DEF WriterInvariant, TypeOK
<1>4. Logged(w) = file[w] \o (<<>> \o <<>>)
  BY <1>1, <1>2 DEF Logged
<1>5. <<>> \o <<>> = <<>> /\ file[w] \o <<>> = file[w]
  BY <1>3, ConcatEmptySeq, EmptySeq
<1>6. QED BY <1>0, <1>4, <1>5

LEMMA CloseFileLogs ==
  ASSUME WriterInvariant, CloseFile
  PROVE  Log!LogNext
<1>0. PICK w \in Writer : w = sim.of
  BY DEF WriterInvariant, FinalizingFits, CloseFile
<1>1. channel[w] = "open" /\ UNCHANGED <<file, buffer, lock, job>>
  BY <1>0 DEF WriterInvariant, FinalizingFits, CloseFile
<1>2. \A x \in Writer : channel'[x] = IF x = w THEN "closed" ELSE channel[x]
  BY <1>0 DEF CloseFile, WriterInvariant, TypeOK
<1>3. Logged(w) = file[w]
  BY <1>0, CloseFileHas
<1>4. Logged(w)' = Logged(w)
  BY <1>1, <1>2, <1>3 DEF Logged
<1>5. \A x \in Writer : x # w => Logged(x)' = Logged(x)
  BY <1>1, <1>2 DEF Logged, Hand
<1>6. \A x \in Writer : Logged(x)' = Logged(x)
  BY <1>4, <1>5
<1>7. {x \in Writer : channel'[x] = "closed"} = {x \in Writer : channel[x] = "closed"} \cup {w}
  BY <1>2
<1>8. w \notin {x \in Writer : channel[x] = "closed"}
  BY <1>1
<1>9. Log!Complete(w)
  BY <1>1, <1>3, <1>6, <1>7, <1>8 DEF Log!Complete
<1>10. QED BY <1>9 DEF Log!LogNext

\* The simulation's other steps and the pool's leave the logs alone.
LEMMA OpenedLogs ==
  ASSUME WriterInvariant, UNCHANGED <<file, buffer, lock>>,
         \A p \in Process : p \in {lock[w] : w \in Writer} => job'[p] = job[p],
         UNCHANGED channel \/ \E w \in Writer : Opened(w)
  PROVE  UNCHANGED Log!logVars
<1>1. \A x \in Writer : channel'[x] = "closed" <=> channel[x] = "closed"
  BY DEF Opened, WriterInvariant, TypeOK
<1>2. \A x \in Writer : lock[x] # Nobody => job'[lock[x]] = job[lock[x]]
  BY DEF WriterInvariant, TypeOK
<1>3. \A x \in Writer : Logged(x)' = Logged(x)
  BY <1>1, <1>2, LoggedKept
<1>4. QED BY <1>1, <1>3, LogKept

\* Who comes to writeout holds no lock.
LEMMA ComeLogs ==
  ASSUME WriterInvariant, NEW p \in Process, job[p] = Idle, NEW j,
         job' = [job EXCEPT ![p] = j], UNCHANGED <<file, buffer, lock, channel>>
  PROVE  UNCHANGED Log!logVars
<1>1. \A w \in Writer : lock[w] # p
  BY JobsFitIs DEF WriterInvariant, JobFits, Holds, Idle, Job
<1>2. \A q \in Process : q # p => job'[q] = job[q]
  BY DEF WriterInvariant, TypeOK
<1>3. QED BY <1>1, <1>2, OpenedLogs

LEMMA LogsRest ==
  ASSUME WriterInvariant,
         \/ Tick \/ CancelTask \/ WriteRest \/ EndSimulation \/ Exit
         \/ \E w \in Writer : Die(w) \/ Flush(w) \/ Record(w)
  PROVE  UNCHANGED Log!logVars
<1>1. CASE Tick \/ CancelTask \/ EndSimulation \/ Exit \/ \E w \in Writer : Die(w)
  <2>1. UNCHANGED <<file, buffer, lock, job, channel>>
    BY <1>1 DEF Tick, CancelTask, EndSimulation, Exit, Die
  <2>2. QED BY <2>1, OpenedLogs
<1>2. CASE WriteRest
  <2>1. job[Simulation] = Idle /\ Simulation \in Process
    BY <1>2 DEF WriteRest, WriterInvariant, FinalizingFits, Process
  <2>2. job' = [job EXCEPT ![Simulation] = Job(sim.of, "lock", <<>>)] /\ UNCHANGED <<file, buffer, lock, channel>>
    BY <1>2 DEF WriteRest
  <2>3. QED BY <2>1, <2>2, ComeLogs
<1>3. ASSUME NEW w \in Writer, Flush(w) \/ Record(w) PROVE UNCHANGED Log!logVars
  <2>1. UNCHANGED <<file, buffer, lock, job>>
    BY <1>3 DEF Flush, Record
  <2>2. UNCHANGED channel \/ Opened(w)
    BY <1>3 DEF Flush, Record, Report, Keep
  <2>3. QED BY <2>1, <2>2, OpenedLogs
<1>4. QED BY <1>1, <1>2, <1>3

LEMMA SimulationLogs ==
  ASSUME WriterInvariant, SimulationNext
  PROVE  [Log!LogNext]_(Log!logVars)
BY LogsRest, AddEntryLogs, CloseFileLogs DEF SimulationNext

LEMMA NextLogs ==
  ASSUME WriterInvariant, [Next]_vars
  PROVE  [Log!LogNext]_(Log!logVars)
<1>1. CASE SimulationNext
  BY <1>1, SimulationLogs
<1>2. ASSUME NEW p \in Process, Writeout(p) PROVE [Log!LogNext]_(Log!logVars)
  BY <1>2, LockLogs, CheckLogs, TakeLogs, WriteLogs, FailWriteLogs
     DEF Writeout, InWriteout, WriterInvariant
<1>3. ASSUME NEW p \in Thread, NEW w \in Writer, BeginWriteout(p, w) PROVE UNCHANGED Log!logVars
  <2>1. job' = [job EXCEPT ![p] = Job(w, "lock", <<>>)] /\ UNCHANGED <<file, buffer, lock, channel>> /\ job[p] = Idle
    BY <1>3 DEF BeginWriteout
  <2>2. p \in Process
    BY DEF Process
  <2>3. QED BY <2>1, <2>2, ComeLogs
<1>4. CASE UNCHANGED vars
  <2>1. UNCHANGED <<file, buffer, lock, job, channel>>
    BY <1>4 DEF vars
  <2>2. QED BY <2>1, OpenedLogs
<1>5. QED BY <1>1, <1>2, <1>3, <1>4 DEF Next

LEMMA InitLogs ==
  ASSUME Init
  PROVE  Log!LogInit
<1>1. \A w \in Writer : file[w] = <<>> /\ buffer[w] = <<>> /\ Hand(w) = <<>> /\ channel[w] = "none"
  BY DEF Init, Hand
<1>2. <<>> \o (<<>> \o <<>>) = <<>>
  BY ConcatEmptySeq, EmptySeq
<1>3. \A w \in Writer : Logged(w) = <<>>
  BY <1>1, <1>2 DEF Logged
<1>4. {w \in Writer : channel[w] = "closed"} = {}
  BY <1>1
<1>5. file = [w \in Writer |-> <<>>]
  BY DEF Init
<1>6. QED BY <1>3, <1>4, <1>5 DEF Log!LogInit

\* The report's files are logs: whatever the pool's threads and the simulation
\* do, one after another or at once, a file takes over what was recorded for
\* it in order, without loss but for the writes that fail, and is closed
\* only when it has all of it.
THEOREM FilesAreLogs == Spec => KeepsLog
<1>1. Init => Log!LogInit
  BY InitLogs
<1>2. WriterInvariant /\ [Next]_vars => [Log!LogNext]_(Log!logVars)
  BY NextLogs
<1>3. QED BY <1>1, <1>2, WriterInvariantHolds, PTL DEF Spec, KeepsLog, Log!LogSpec

-----------------------------------------------------------------------------
(* The lines of a list.                                                    *)

Point == [at : Nat, value : Nat]

LEMMA PointsType ==
  ASSUME NEW p \in Points
  PROVE  /\ Len(p) \in Nat /\ DOMAIN p = 1..Len(p)
         /\ \A i \in 1..Len(p) : p[i] \in Point /\ p[i].at \in Nat /\ p[i].value \in Nat
<1>1. p \in Seq(Point)
  BY DEF Points, Point
<1>2. Len(p) \in Nat /\ DOMAIN p = 1..Len(p)
  BY <1>1, LenProperties
<1>3. \A i \in 1..Len(p) : p[i] \in Point
  BY <1>1, ElementOfSeq
<1>4. QED BY <1>2, <1>3 DEF Point

\* q has one more data point than p.
Adds(q, p, e) == q = Append(p, e)

LEMMA PointAdded ==
  ASSUME NEW p \in Points, NEW e \in Point, NEW q, Adds(q, p, e)
  PROVE  /\ q \in Points /\ Len(p) \in Nat /\ Len(q) = Len(p) + 1
         /\ DOMAIN p = 1..Len(p) /\ DOMAIN q = 1 .. Len(p) + 1
         /\ \A i \in 1..Len(p) : q[i] = p[i] /\ p[i] \in Point /\ p[i].at \in Nat /\ p[i].value \in Nat
         /\ q[Len(p) + 1] = e /\ e.at \in Nat /\ e.value \in Nat
<1>1. p \in Seq(Point)
  BY DEF Points, Point
<1>2. Len(p) \in Nat /\ DOMAIN p = 1..Len(p)
  BY <1>1, LenProperties
<1>3. /\ q \in Seq(Point) /\ Len(q) = Len(p) + 1 /\ q[Len(p) + 1] = e
      /\ \A i \in 1..Len(p) : q[i] = p[i]
  BY <1>1, AppendProperties DEF Adds
<1>4. DOMAIN q = 1 .. Len(p) + 1
  BY <1>2, <1>3, LenProperties
<1>5. \A i \in 1..Len(p) : p[i] \in Point
  BY <1>1, ElementOfSeq
<1>6. QED BY <1>2, <1>3, <1>4, <1>5 DEF Points, Point

LEMMA LinesType ==
  ASSUME NEW p \in Points, NEW i \in 0..Len(p)
  PROVE  /\ IsFiniteSet({p[j].at : j \in 1..i}) /\ Lines(p, i) \in Nat
         /\ i > 0 => Lines(p, i) > 0
         /\ \A h \in 0..i : Lines(p, h) <= Lines(p, i)
<1> DEFINE T(h) == {p[j].at : j \in 1..h}
<1>1. Len(p) \in Nat /\ \A j \in 1..Len(p) : p[j].at \in Nat
  BY PointsType
<1>2. IsFiniteSet(T(i))
  <2>1. IsFiniteSet(1..i)
    BY <1>1, FS_Interval
  <2> DEFINE f == [j \in 1..i |-> p[j].at]
  <2>2. f \in Surjection(1..i, T(i))
    BY DEF Surjection
  <2>3. QED BY <2>1, <2>2, FS_Surjection
<1>3. Lines(p, i) \in Nat
  BY <1>2, FS_CardinalityType DEF Lines
<1>4. ASSUME i > 0 PROVE Lines(p, i) > 0
  <2>1. p[1].at \in T(i)
    BY <1>1, <1>4
  <2>2. Cardinality(T(i)) # 0
    BY <1>2, <2>1, FS_EmptySet
  <2>3. QED BY <1>3, <2>2 DEF Lines
<1>5. ASSUME NEW h \in 0..i PROVE Lines(p, h) <= Lines(p, i)
  <2>1. T(h) \in SUBSET T(i)
    BY <1>1
  <2>2. QED BY <1>2, <2>1, FS_Subset DEF Lines
<1>6. QED BY <1>2, <1>3, <1>4, <1>5

\* A line more where one begins
LEMMA LinesGrow ==
  ASSUME NEW p \in Points, InOrder(p), NEW i \in 1..Len(p)
  PROVE  Lines(p, i) = Lines(p, i - 1) + IF Begins(p, i) THEN 1 ELSE 0
<1> DEFINE T(h) == {p[j].at : j \in 1..h}
<1>1. Len(p) \in Nat /\ i - 1 \in 0..Len(p) /\ DOMAIN p = 1..Len(p) /\ \A j \in 1..Len(p) : p[j].at \in Nat
  BY PointsType
<1>2. IsFiniteSet(T(i - 1)) /\ Lines(p, i - 1) = Cardinality(T(i - 1)) /\ Lines(p, i) = Cardinality(T(i))
  BY <1>1, LinesType DEF Lines
<1>3. T(i) = T(i - 1) \cup {p[i].at}
  <2>1. 1..i = (1 .. i - 1) \cup {i}
    BY <1>1
  <2>2. QED BY <2>1
<1>4. p[i].at \in T(i - 1) <=> ~Begins(p, i)
  <2>1. CASE Begins(p, i)
    <3>1. ASSUME NEW j \in 1 .. i - 1 PROVE p[j].at # p[i].at
      <4>1. i # 1 /\ i - 1 \in 1..Len(p) /\ j \in 1..(i - 1) /\ i - 1 \in 1..i /\ j \in 1..Len(p)
        BY <1>1
      <4>2. p[j].at <= p[i - 1].at /\ p[i - 1].at <= p[i].at /\ p[i - 1].at # p[i].at
        BY <1>1, <2>1, <4>1 DEF Begins, InOrder
      <4>3. QED BY <1>1, <4>1, <4>2
    <3>2. QED BY <2>1, <3>1
  <2>2. CASE ~Begins(p, i)
    <3>1. i - 1 \in 1 .. i - 1 /\ p[i - 1].at = p[i].at
      BY <1>1, <2>2 DEF Begins
    <3>2. QED BY <2>2, <3>1
  <2>3. QED BY <2>1, <2>2
<1> HIDE DEF T
<1>5. Cardinality(T(i)) = IF p[i].at \in T(i - 1) THEN Cardinality(T(i - 1)) ELSE Cardinality(T(i - 1)) + 1
  <2>1. IsFiniteSet(T(i - 1))
    BY <1>2
  <2>2. Cardinality(T(i - 1) \cup {p[i].at})
          = IF p[i].at \in T(i - 1) THEN Cardinality(T(i - 1)) ELSE Cardinality(T(i - 1)) + 1
    BY <2>1, FS_AddElement
  <2>3. QED BY <1>3, <2>2
<1>6. Lines(p, i - 1) \in Nat
  BY <1>1, LinesType
<1>7. QED BY <1>2, <1>4, <1>5, <1>6

\* What was there stays as it is.
LEMMA LinesKept ==
  ASSUME NEW p \in Points, NEW e \in Point, NEW q, Adds(q, p, e), NEW i \in 0..Len(p)
  PROVE  /\ Lines(q, i) = Lines(p, i)
         /\ i > 0 => (Begins(q, i) <=> Begins(p, i)) /\ Place(q, i) = Place(p, i)
<1>1. Len(p) \in Nat /\ \A j \in 1..Len(p) : q[j] = p[j]
  BY PointAdded
<1>2. {q[j].at : j \in 1..i} = {p[j].at : j \in 1..i}
  BY <1>1
<1>3. Lines(q, i) = Lines(p, i)
  BY <1>2 DEF Lines
<1>4. ASSUME i > 0 PROVE Begins(q, i) <=> Begins(p, i)
  <2>1. i \in 1..Len(p) /\ (i # 1 => i - 1 \in 1..Len(p))
    BY <1>1, <1>4
  <2>2. QED BY <1>1, <2>1 DEF Begins
<1>5. QED BY <1>3, <1>4 DEF Place

End == Entry("close", 0, <<>>)

LEMMA EndIsEntry == End \in Entries
<1>1. 0 \in Nat /\ <<>> \in Seq(Int)
  OBVIOUS
<1>2. QED BY <1>1, EntryType DEF End

\* f has the text c, after it the entries new, and an end.
Extends(f, c, new) == f = Append(c \o new, End)

LEMMA TextGrows ==
  ASSUME NEW c \in Seq(Entries), NEW new \in Seq(Entries), NEW f, Extends(f, c, new)
  PROVE  /\ Len(c) \in Nat /\ Len(new) \in Nat /\ Len(f) = Len(c) + Len(new) + 1
         /\ \A k \in 1..Len(c) : f[k] = c[k]
         /\ \A k \in 1..Len(new) : f[Len(c) + k] = new[k]
         /\ f[Len(c) + Len(new) + 1] = End
<1>1. Len(c) \in Nat /\ Len(new) \in Nat
  BY LenProperties
<1>2. /\ c \o new \in Seq(Entries) /\ Len(c \o new) = Len(c) + Len(new)
      /\ \A k \in 1 .. Len(c) + Len(new) : (c \o new)[k] = IF k <= Len(c) THEN c[k] ELSE new[k - Len(c)]
  BY ConcatProperties
<1>5. /\ Len(f) = Len(c) + Len(new) + 1 /\ f[Len(c) + Len(new) + 1] = End
      /\ \A k \in 1 .. Len(c) + Len(new) : f[k] = (c \o new)[k]
  BY <1>2, EndIsEntry, AppendProperties DEF Extends
<1>6. \A k \in 1..Len(c) : f[k] = c[k]
  BY <1>1, <1>2, <1>5
<1>7. ASSUME NEW k \in 1..Len(new) PROVE f[Len(c) + k] = new[k]
  <2>1. Len(c) + k \in 1 .. Len(c) + Len(new) /\ ~(Len(c) + k <= Len(c)) /\ (Len(c) + k) - Len(c) = k
    BY <1>1
  <2>2. QED BY <1>2, <1>5, <2>1
<1>8. QED BY <1>1, <1>5, <1>6, <1>7

\* The entries for data point i in f, of a list of p
Placed(f, p, i) ==
  LET k == Place(p, i)
  IN  /\ f[k] = Entry(IF Begins(p, i) THEN "first" ELSE "more", p[i].at, <<p[i].value>>)
      /\ Begins(p, i) => f[k - 1] = Entry("open", p[i].at, <<>>)
      /\ i = Len(p) \/ Begins(p, i + 1) => f[k + 1] = Entry("close", 0, <<>>)

LEMMA IsListIs ==
  ASSUME NEW f, NEW p \in Points
  PROVE  IsList(f, p) <=> /\ Len(f) = Len(p) + 2 * Lines(p, Len(p))
                          /\ \A i \in 1..Len(p) : Placed(f, p, i)
BY PointsType DEF IsList, Placed

\* What lies before the end of the last line stays as it is.
LEMMA PlacedBefore ==
  ASSUME NEW p \in Points, InOrder(p), NEW i \in 1..Len(p), i < Len(p)
  PROVE  /\ Place(p, i) \in Nat /\ Place(p, i) - 1 > 0
         /\ Place(p, i) < Len(p) + 2 * Lines(p, Len(p))
         /\ Begins(p, i + 1) => Place(p, i) + 1 < Len(p) + 2 * Lines(p, Len(p))
<1>1. Len(p) \in Nat /\ i + 1 \in 1..Len(p) /\ i \in 0..Len(p) /\ Len(p) \in 0..Len(p) /\ (i + 1) - 1 = i
  BY PointsType
<1>2. Lines(p, i) \in Nat /\ Lines(p, i) > 0
  <2>1. i > 0
    BY <1>1
  <2>2. QED BY <1>1, <2>1, LinesType
<1>3. Lines(p, Len(p)) \in Nat /\ \A h \in 0..Len(p) : Lines(p, h) <= Lines(p, Len(p))
  BY <1>1, LinesType
<1>4. Lines(p, i) <= Lines(p, Len(p)) /\ Lines(p, i + 1) <= Lines(p, Len(p))
  BY <1>1, <1>3
<1>5. Begins(p, i + 1) => Lines(p, i + 1) = Lines(p, i) + 1
  BY <1>1, LinesGrow
<1>6. Place(p, i) = i + 2 * Lines(p, i) - 1
  BY DEF Place
<1>7. Place(p, i) \in Nat /\ Place(p, i) - 1 > 0 /\ Place(p, i) < Len(p) + 2 * Lines(p, Len(p))
  BY <1>1, <1>2, <1>3, <1>4, <1>6
<1>8. ASSUME Begins(p, i + 1) PROVE Place(p, i) + 1 < Len(p) + 2 * Lines(p, Len(p))
  BY <1>1, <1>2, <1>3, <1>4, <1>5, <1>6, <1>8
<1>9. QED BY <1>7, <1>8

LEMMA PlacedKept ==
  ASSUME NEW p \in Points, InOrder(p), NEW e \in Point, NEW q, Adds(q, p, e),
         NEW i \in 1..Len(p), i < Len(p),
         NEW g, NEW f, Placed(g, p, i),
         \A k \in 1 .. Len(p) + 2 * Lines(p, Len(p)) - 1 : f[k] = g[k]
  PROVE  Placed(f, q, i)
<1> DEFINE m == Len(p) + 2 * Lines(p, Len(p)) - 1
           k == Place(p, i)
<1>1. /\ Len(p) \in Nat /\ Len(q) = Len(p) + 1 /\ q[i] = p[i]
      /\ i \in 0..Len(p) /\ i > 0 /\ i + 1 \in 0..Len(p) /\ i + 1 > 0 /\ Len(p) \in 0..Len(p)
  BY PointAdded
<1>2. (Begins(q, i) <=> Begins(p, i)) /\ Place(q, i) = k
  BY <1>1, LinesKept
<1>3. Begins(q, i + 1) <=> Begins(p, i + 1)
  BY <1>1, LinesKept
<1>4. /\ k \in Nat /\ k - 1 > 0 /\ k < Len(p) + 2 * Lines(p, Len(p))
      /\ Begins(p, i + 1) => k + 1 < Len(p) + 2 * Lines(p, Len(p))
  BY PlacedBefore
<1>5. Lines(p, Len(p)) \in Nat
  BY <1>1, LinesType
<1>5a. m \in Nat /\ Len(p) + 2 * Lines(p, Len(p)) = m + 1
  BY <1>1, <1>5
<1> HIDE DEF k, m
<1>6. k \in 1..m /\ k - 1 \in 1..m /\ (Begins(p, i + 1) => k + 1 \in 1..m)
  BY ONLY <1>4, <1>5a
<1>7. f[k] = g[k] /\ f[k - 1] = g[k - 1] /\ (Begins(p, i + 1) => f[k + 1] = g[k + 1])
  BY <1>6 DEF m
<1>8. i # Len(q) /\ i # Len(p)
  BY <1>1
<1>9. QED BY <1>1, <1>2, <1>3, <1>7, <1>8 DEF Placed, k

\* A value of the same time is put into the last line.
LEMMA MoreListed ==
  ASSUME NEW p \in Points, NEW e \in Point, NEW q, Adds(q, p, e), InOrder(p), InOrder(q),
         p # <<>>, p[Len(p)].at = e.at,
         NEW c \in Seq(Entries), IsList(Append(c, End), p),
         NEW new \in Seq(Entries), Len(new) = 1, new[1] = Entry("more", e.at, <<e.value>>),
         NEW f, Extends(f, c, new)
  PROVE  IsList(f, q)
<1> DEFINE n == Len(p)
           L == Lines(p, n)
           g == Append(c, End)
           more == Entry("more", e.at, <<e.value>>)
<1>1. n \in Nat /\ n # 0 /\ n \in 0..n /\ n \in 1..n /\ n > 0
  BY PointsType, EmptySeq DEF Points
<1>2. /\ q \in Points /\ Len(q) = n + 1 /\ q[n + 1] = e
      /\ \A i \in 1..n : q[i] = p[i]
  <2>1. q \in Points
    BY PointAdded
  <2>2. Len(q) = n + 1
    BY PointAdded
  <2>3. q[n + 1] = e
    BY PointAdded
  <2>4. \A i \in 1..n : q[i] = p[i]
    BY PointAdded
  <2>5. QED BY <2>1, <2>2, <2>3, <2>4
<1>2a. n + 1 \in 1..Len(q) /\ (n + 1) - 1 = n /\ n # Len(q)
  BY <1>1, <1>2
<1>3. L \in Nat /\ Lines(q, n) = L
  BY <1>1, LinesType, LinesKept
<1>4. ~Begins(q, n + 1)
  BY <1>1, <1>2 DEF Begins
<1>5. Lines(q, n + 1) = L
  <2>1. Lines(q, n + 1) = Lines(q, n) + 0
    BY <1>2, <1>2a, <1>4, LinesGrow
  <2>2. QED BY <1>3, <2>1
<1>6. Len(g) = n + 2 * L /\ \A i \in 1..n : Placed(g, p, i)
  BY <1>2, IsListIs
<1>8. /\ Len(c) \in Nat /\ Len(f) = Len(c) + 2
      /\ \A k \in 1..Len(c) : f[k] = c[k]
      /\ f[Len(c) + 1] = more /\ f[Len(c) + 2] = End
  <2>1. /\ Len(c) \in Nat /\ Len(f) = Len(c) + Len(new) + 1
        /\ \A k \in 1..Len(c) : f[k] = c[k]
        /\ \A k \in 1..Len(new) : f[Len(c) + k] = new[k]
        /\ f[Len(c) + Len(new) + 1] = End
    BY ONLY c \in Seq(Entries), new \in Seq(Entries), Extends(f, c, new), TextGrows
  <2>2. QED BY <2>1
<1>9. Len(g) = Len(c) + 1 /\ \A k \in 1..Len(c) : g[k] = c[k]
  BY AppendProperties, <1>8, EndIsEntry
<1>10. Len(c) = n + 2 * L - 1
  BY <1>1, <1>3, <1>6, <1>8, <1>9
<1>11. \A k \in 1 .. n + 2 * L - 1 : f[k] = g[k]
  BY <1>8, <1>9, <1>10
<1>12. ASSUME NEW i \in 1..n, i < n PROVE Placed(f, q, i)
  <2>1. Placed(g, p, i)
    BY <1>6
  <2> HIDE DEF g
  <2>2. QED BY <1>11, <1>12, <2>1, PlacedKept
<1>13. Placed(f, q, n)
  <2>1. (Begins(q, n) <=> Begins(p, n)) /\ Place(q, n) = Place(p, n)
    BY <1>1, LinesKept
  <2>2. Place(p, n) = n + 2 * L - 1 /\ Place(p, n) \in 1..(n + 2 * L - 1)
    <3>1. L > 0
      BY <1>1, LinesType
    <3>2. QED BY <1>1, <1>3, <3>1 DEF Place
  <2>3. Begins(p, n) => Place(p, n) - 1 \in 1..(n + 2 * L - 1)
    <3>1. L > 0
      BY <1>1, LinesType
    <3>2. QED BY <1>1, <1>3, <3>1 DEF Place
  <2>4. f[Place(p, n)] = g[Place(p, n)] /\ (Begins(p, n) => f[Place(p, n) - 1] = g[Place(p, n) - 1])
    BY <1>11, <2>2, <2>3
  <2>5. n # Len(q) /\ q[n] = p[n]
    BY <1>1, <1>2, <1>2a
  <2>6. Placed(g, p, n)
    BY <1>1, <1>6
  <2> HIDE DEF n, g, L
  <2>7. QED BY <1>4, <2>1, <2>4, <2>5, <2>6 DEF Placed
<1>14. Placed(f, q, n + 1)
  <2>0. Place(q, n + 1) = n + 1 + 2 * L - 1
    BY <1>5 DEF Place
  <2> HIDE DEF n, L
  <2>1. /\ n \in Nat /\ L \in Nat /\ Len(c) \in Nat /\ Len(c) = n + 2 * L - 1
        /\ Place(q, n + 1) = n + 1 + 2 * L - 1
    BY <1>1, <1>3, <1>8, <1>10, <2>0
  <2>2. Place(q, n + 1) = Len(c) + 1
    BY ONLY <2>1
  <2>3. Place(q, n + 1) + 1 = Len(c) + 2
    BY ONLY <2>1, <2>2
  <2>4. f[Place(q, n + 1)] = more /\ f[Place(q, n + 1) + 1] = End
    BY ONLY <1>8, <2>2, <2>3
  <2>5. QED BY <1>2, <1>4, <2>4 DEF Placed, End, more
<1>15. Len(f) = Len(q) + 2 * Lines(q, Len(q))
  BY <1>1, <1>2, <1>3, <1>5, <1>8, <1>10
<1>16. \A i \in 1..Len(q) : Placed(f, q, i)
  <2> HIDE DEF n
  <2>1. \A i \in 1..Len(q) : (i \in 1..n /\ i < n) \/ i = n \/ i = n + 1
    BY <1>1, <1>2
  <2>2. QED BY <1>12, <1>13, <1>14, <2>1
<1>17. QED BY <1>2, <1>15, <1>16, IsListIs

\* A value of another time begins a line, after the end of the last one.
LEMMA LineListed ==
  ASSUME NEW p \in Points, NEW e \in Point, NEW q, Adds(q, p, e), InOrder(p), InOrder(q),
         p # <<>>, p[Len(p)].at # e.at,
         NEW c \in Seq(Entries), IsList(Append(c, End), p),
         NEW new \in Seq(Entries), Len(new) = 3, new[1] = End,
         new[2] = Entry("open", e.at, <<>>), new[3] = Entry("first", e.at, <<e.value>>),
         NEW f, Extends(f, c, new)
  PROVE  IsList(f, q)
<1> DEFINE n == Len(p)
           L == Lines(p, n)
           g == Append(c, End)
<1>1. n \in Nat /\ n # 0 /\ n \in 0..n /\ n \in 1..n /\ n > 0
  BY PointsType, EmptySeq DEF Points
<1>2. /\ q \in Points /\ Len(q) = n + 1 /\ q[n + 1] = e
      /\ \A i \in 1..n : q[i] = p[i]
  <2>1. q \in Points
    BY PointAdded
  <2>2. Len(q) = n + 1
    BY PointAdded
  <2>3. q[n + 1] = e
    BY PointAdded
  <2>4. \A i \in 1..n : q[i] = p[i]
    BY PointAdded
  <2>5. QED BY <2>1, <2>2, <2>3, <2>4
<1>3. n + 1 \in 1..Len(q) /\ (n + 1) - 1 = n /\ n # Len(q)
  BY <1>1, <1>2
<1>4. L \in Nat /\ Lines(q, n) = L
  BY <1>1, LinesType, LinesKept
<1>5. Begins(q, n + 1)
  BY <1>1, <1>2 DEF Begins
<1>6. Lines(q, n + 1) = L + 1
  <2>1. Lines(q, n + 1) = Lines(q, n) + 1
    BY <1>2, <1>3, <1>5, LinesGrow
  <2>2. QED BY <1>4, <2>1
<1>7. Len(g) = n + 2 * L /\ \A i \in 1..n : Placed(g, p, i)
  BY IsListIs
<1>8. /\ Len(c) \in Nat /\ Len(f) = Len(c) + 4
      /\ \A k \in 1..Len(c) : f[k] = c[k]
      /\ f[Len(c) + 1] = new[1] /\ f[Len(c) + 2] = new[2] /\ f[Len(c) + 3] = new[3] /\ f[Len(c) + 4] = End
  <2>1. /\ Len(c) \in Nat /\ Len(f) = Len(c) + Len(new) + 1
        /\ \A k \in 1..Len(c) : f[k] = c[k]
        /\ \A k \in 1..Len(new) : f[Len(c) + k] = new[k]
        /\ f[Len(c) + Len(new) + 1] = End
    BY ONLY c \in Seq(Entries), new \in Seq(Entries), Extends(f, c, new), TextGrows
  <2>2. QED BY ONLY <2>1, Len(new) = 3
<1>9. Len(g) = Len(c) + 1 /\ \A k \in 1..Len(c) : g[k] = c[k]
  BY AppendProperties, <1>8, EndIsEntry
<1>10. Len(c) = n + 2 * L - 1
  <2> HIDE DEF n, L, g
  <2>1. QED BY <1>1, <1>4, <1>7, <1>8, <1>9
<1>11. \A k \in 1 .. n + 2 * L - 1 : f[k] = g[k]
  BY <1>8, <1>9, <1>10
<1>12. ASSUME NEW i \in 1..n, i < n PROVE Placed(f, q, i)
  <2>1. Placed(g, p, i)
    BY <1>7
  <2> HIDE DEF g
  <2>2. QED BY <1>11, <1>12, <2>1, PlacedKept
<1>13. Placed(f, q, n)
  <2>1. (Begins(q, n) <=> Begins(p, n)) /\ Place(q, n) = Place(p, n)
    BY <1>1, LinesKept
  <2>2. L > 0
    BY <1>1, LinesType
  <2>3. Place(p, n) = n + 2 * L - 1 /\ Place(p, n) \in 1..(n + 2 * L - 1)
    BY <1>1, <1>4, <2>2 DEF Place
  <2>4. Place(p, n) - 1 \in 1..(n + 2 * L - 1)
    BY <1>1, <1>4, <2>2 DEF Place
  <2>5. f[Place(p, n)] = g[Place(p, n)] /\ f[Place(p, n) - 1] = g[Place(p, n) - 1]
    BY <1>11, <2>3, <2>4
  <2>6. f[Place(p, n) + 1] = End
    <3>1. Place(p, n) + 1 = Len(c) + 1
      BY <1>10, <2>3
    <3>2. QED BY <1>8, <3>1
  <2>7. n # Len(q) /\ q[n] = p[n]
    BY <1>1, <1>2, <1>3
  <2>8. Placed(g, p, n)
    BY <1>1, <1>7
  <2> HIDE DEF n, g, L
  <2>9. QED BY <2>1, <2>5, <2>6, <2>7, <2>8 DEF Placed, End
<1>14. Placed(f, q, n + 1)
  <2>1. Place(q, n + 1) = n + 1 + 2 * (L + 1) - 1
    BY <1>6 DEF Place
  <2> HIDE DEF n, L
  <2>2. Place(q, n + 1) = Len(c) + 3 /\ Place(q, n + 1) - 1 = Len(c) + 2 /\ Place(q, n + 1) + 1 = Len(c) + 4
    BY <1>1, <1>4, <1>8, <1>10, <2>1
  <2>3. f[Place(q, n + 1)] = new[3] /\ f[Place(q, n + 1) - 1] = new[2] /\ f[Place(q, n + 1) + 1] = End
    BY <1>8, <2>2
  <2>4. QED BY <1>2, <1>5, <2>3 DEF Placed, End
<1>15. Len(f) = Len(q) + 2 * Lines(q, Len(q))
  <2>1. Lines(q, Len(q)) = L + 1
    BY <1>2, <1>6
  <2>2. Len(q) = n + 1 /\ Len(f) = Len(c) + 4 /\ Len(c) = n + 2 * L - 1 /\ n \in Nat /\ L \in Nat
    BY <1>1, <1>2, <1>4, <1>8, <1>10
  <2> HIDE DEF n, L
  <2>3. QED BY <2>1, <2>2
<1>16. \A i \in 1..Len(q) : Placed(f, q, i)
  <2> HIDE DEF n
  <2>1. \A i \in 1..Len(q) : (i \in 1..n /\ i < n) \/ i = n \/ i = n + 1
    BY <1>1, <1>2
  <2>2. QED BY <1>12, <1>13, <1>14, <2>1
<1>17. QED BY <1>2, <1>15, <1>16, IsListIs

LEMMA FirstListed ==
  ASSUME NEW e \in Point, NEW q, q = Append(<<>>, e), q \in Points, InOrder(q),
         NEW f, Len(f) = 3, f[1] = Entry("open", e.at, <<>>), f[2] = Entry("first", e.at, <<e.value>>),
         f[3] = End
  PROVE  IsList(f, q)
<1>1. Len(q) = 1 /\ q[1] = e
  OBVIOUS
<1>2. {q[j].at : j \in 1..0} = {}
  OBVIOUS
<1>3. Lines(q, 0) = 0
  BY <1>2, FS_EmptySet DEF Lines
<1>4. Begins(q, 1)
  BY DEF Begins
<1>5. Lines(q, 1) = 1
  <2>1. 1 \in 1..Len(q) /\ 1 - 1 = 0
    BY <1>1
  <2>2. Lines(q, 1) = Lines(q, 1 - 1) + 1
    BY <1>4, <2>1, LinesGrow
  <2>3. QED BY <1>3, <2>1, <2>2
<1>6. Place(q, 1) = 2 /\ 2 - 1 = 1 /\ 2 + 1 = 3
  BY <1>5 DEF Place
<1>7. Placed(f, q, 1)
  BY <1>1, <1>4, <1>6 DEF Placed, End
<1>8. Len(f) = Len(q) + 2 * Lines(q, Len(q)) /\ \A i \in 1..Len(q) : i = 1
  BY <1>1, <1>5
<1>9. QED BY <1>7, <1>8, IsListIs

-----------------------------------------------------------------------------
(* Columns.                                                                *)

LEMMA RowType ==
  ASSUME NEW e \in Point
  PROVE  Entry("row", e.at, <<e.value>>) \in Entries
<1>1. e.at \in Nat /\ e.value \in Int
  BY DEF Point
<1>2. <<e.value>> \in Seq(Int)
  BY <1>1
<1>3. QED BY <1>1, <1>2, EntryType

LEMMA ColumnsGrow ==
  ASSUME NEW p \in Points, NEW e \in Point, NEW q, Adds(q, p, e),
         NEW c \in Seq(Entries), IsColumns(c, p)
  PROVE  IsColumns(c \o <<Entry("row", e.at, <<e.value>>)>>, q)
<1> DEFINE r(x) == Entry("row", x.at, <<x.value>>)
           f == Append(c, r(e))
<1>1. r(e) \in Entries
  BY RowType
<1>2. c \o <<r(e)>> = f
  BY <1>1, AppendIsConcat
<1>3. Len(p) \in Nat /\ DOMAIN p = 1..Len(p)
  BY PointsType
<1>4. DOMAIN q = 1 .. Len(p) + 1
  BY PointAdded
<1>5. \A i \in 1..Len(p) : q[i] = p[i]
  BY PointAdded
<1>6. q[Len(p) + 1] = e
  BY PointAdded
<1>7. c = [i \in 1..Len(p) |-> r(p[i])]
  BY <1>3 DEF IsColumns
<1>8. Len(c) = Len(p) /\ \A i \in 1..Len(p) : c[i] = r(p[i])
  <2>1. DOMAIN c = 1..Len(p)
    BY <1>7
  <2>2. DOMAIN c = 1..Len(c) /\ Len(c) \in Nat
    BY LenProperties
  <2>3. Len(c) = Len(p)
    BY <1>3, <2>1, <2>2
  <2>4. QED BY <1>7, <2>3
<1>9. /\ f \in Seq(Entries) /\ Len(f) = Len(p) + 1
      /\ \A i \in 1..Len(p) : f[i] = r(p[i])
      /\ f[Len(p) + 1] = r(e)
  <2> HIDE DEF r
  <2>1. QED BY <1>1, <1>8, AppendProperties
<1>10. f = [i \in 1 .. Len(p) + 1 |-> r(q[i])]
  <2> DEFINE h == [i \in 1 .. Len(p) + 1 |-> r(q[i])]
  <2>1. f = [i \in 1 .. Len(p) + 1 |-> f[i]]
    BY <1>9, LenProperties
  <2>2. \A i \in 1 .. Len(p) + 1 : f[i] = r(q[i])
    <3>1. \A i \in 1 .. Len(p) + 1 : i \in 1..Len(p) \/ i = Len(p) + 1
      BY <1>3
    <3> HIDE DEF f, r
    <3>2. QED BY <1>5, <1>6, <1>9, <3>1
  <2> HIDE DEF f, r
  <2>3. QED BY <2>1, <2>2
<1>11. QED BY <1>2, <1>4, <1>10 DEF IsColumns

-----------------------------------------------------------------------------
(* Sums and averages.                                                      *)

Bounded(p, m) == \A i \in 1..Len(p) : p[i].value <= m

LEMMA BucketsType ==
  ASSUME NEW p \in Points, NEW m \in Nat, Bounded(p, m), NEW b
  PROVE  /\ IsFiniteSet(InBucket(p, b)) /\ Number(p, b) \in Nat
         /\ IsFiniteSet(Units(p, b)) /\ Sum(p, b) \in Nat
         /\ Units(p, b) \subseteq (1..Len(p)) \X (1..m)
         /\ b \notin Filling(p) => Number(p, b) = 0 /\ Sum(p, b) = 0
<1>1. Len(p) \in Nat /\ DOMAIN p = 1..Len(p) /\ \A i \in 1..Len(p) : p[i].value \in Nat
  BY PointsType
<1>2. IsFiniteSet(1..Len(p)) /\ IsFiniteSet(1..m)
  BY <1>1, FS_Interval
<1>3. InBucket(p, b) \in SUBSET (1..Len(p))
  BY <1>1 DEF InBucket
<1>4. IsFiniteSet(InBucket(p, b))
  BY <1>2, <1>3, FS_Subset
<1>5. IsFiniteSet((1..Len(p)) \X (1..m))
  BY <1>2, FS_Product
<1>6. Units(p, b) \in SUBSET ((1..Len(p)) \X (1..m))
  <2>1. ASSUME NEW i \in InBucket(p, b) PROVE {i} \X (1..p[i].value) \subseteq (1..Len(p)) \X (1..m)
    <3>1. i \in 1..Len(p) /\ 1..p[i].value \subseteq 1..m
      BY <1>1, <1>3 DEF Bounded
    <3>2. QED BY <3>1
  <2>2. QED BY <2>1 DEF Units
<1>7. IsFiniteSet(Units(p, b))
  BY <1>5, <1>6, FS_Subset
<1>8. ASSUME b \notin Filling(p) PROVE Number(p, b) = 0 /\ Sum(p, b) = 0
  <2>1. InBucket(p, b) = {}
    BY <1>8 DEF InBucket, Filling
  <2>2. Units(p, b) = {}
    BY <2>1 DEF Units
  <2>3. QED BY <2>1, <2>2, FS_EmptySet DEF Number, Sum
<1>9. QED BY <1>4, <1>6, <1>7, <1>8, FS_CardinalityType DEF Number, Sum

\* A data point is in its bucket, and the other buckets stay as they are.
LEMMA BucketGrows ==
  ASSUME NEW p \in Points, NEW e \in Point, NEW q, Adds(q, p, e),
         NEW m \in Nat, Bounded(p, m), NEW b
  PROVE  IF b = Ceiling(e.at)
         THEN Number(q, b) = Number(p, b) + 1 /\ Sum(q, b) = Sum(p, b) + e.value
         ELSE Number(q, b) = Number(p, b) /\ Sum(q, b) = Sum(p, b)
<1> DEFINE n == Len(p) + 1
<1>1. Len(p) \in Nat /\ DOMAIN p = 1..Len(p)
  BY PointsType
<1>2. DOMAIN q = 1..n /\ q[n] = e /\ e.value \in Nat
  <2>1. DOMAIN q = 1..n
    BY PointAdded
  <2>2. q[n] = e
    BY PointAdded
  <2>3. QED BY <2>1, <2>2 DEF Point
<1>3. \A i \in 1..Len(p) : q[i] = p[i]
  BY PointAdded
<1>4. n \notin 1..Len(p) /\ 1..n = (1..Len(p)) \cup {n}
  BY <1>1
<1>5. /\ IsFiniteSet(InBucket(p, b)) /\ Number(p, b) \in Nat
      /\ IsFiniteSet(Units(p, b)) /\ Sum(p, b) \in Nat
      /\ Units(p, b) \subseteq (1..Len(p)) \X (1..m)
  BY BucketsType
<1>6. InBucket(p, b) \subseteq 1..Len(p)
  BY <1>1 DEF InBucket
<1>7. CASE b # Ceiling(e.at)
  <2>1. InBucket(q, b) = InBucket(p, b)
    BY <1>1, <1>2, <1>3, <1>4, <1>7 DEF InBucket
  <2>2. Units(q, b) = Units(p, b)
    BY <1>3, <1>6, <2>1 DEF Units
  <2>3. QED BY <1>5, <1>7, <2>1, <2>2 DEF Number, Sum
<1>8. CASE b = Ceiling(e.at)
  <2>1. InBucket(q, b) = InBucket(p, b) \cup {n}
    BY <1>1, <1>2, <1>3, <1>4, <1>8 DEF InBucket
  <2>2. Number(q, b) = Number(p, b) + 1
    <3>1. n \notin InBucket(p, b)
      BY <1>4, <1>6
    <3>2. Cardinality(InBucket(p, b) \cup {n}) = Cardinality(InBucket(p, b)) + 1
      BY <1>5, <3>1, FS_AddElement
    <3>3. QED BY <2>1, <3>2 DEF Number
  <2> DEFINE U == {n} \X (1..e.value)
  <2>3. Units(q, b) = Units(p, b) \cup U
    <3>1. \A i \in InBucket(p, b) : q[i] = p[i]
      BY <1>3, <1>6
    <3>2. Units(q, b) = UNION {{i} \X (1..q[i].value) : i \in InBucket(p, b) \cup {n}}
      BY <2>1 DEF Units
    <3>3. UNION {{i} \X (1..q[i].value) : i \in InBucket(p, b) \cup {n}}
            = (UNION {{i} \X (1..q[i].value) : i \in InBucket(p, b)}) \cup ({n} \X (1..q[n].value))
      OBVIOUS
    <3>4. {{i} \X (1..q[i].value) : i \in InBucket(p, b)} = {{i} \X (1..p[i].value) : i \in InBucket(p, b)}
      BY <3>1
    <3>5. QED BY <1>2, <3>2, <3>3, <3>4 DEF Units
  <2>4. Units(p, b) \cap U = {}
    <3>1. \A x \in Units(p, b) : x[1] \in 1..Len(p)
      BY <1>5
    <3>2. \A x \in U : x[1] = n
      OBVIOUS
    <3>3. QED BY <1>4, <3>1, <3>2
  <2>5. IsFiniteSet(U) /\ Cardinality(U) = e.value
    <3>1. IsFiniteSet({n}) /\ Cardinality({n}) = 1
      BY FS_Singleton
    <3>2. IsFiniteSet(1..e.value) /\ Cardinality(1..e.value) = e.value
      <4>1. 1 \in Int /\ e.value \in Int /\ e.value \in Nat
        BY <1>2
      <4>2. IsFiniteSet(1..e.value) /\ Cardinality(1..e.value) = IF 1 > e.value THEN 0 ELSE e.value - 1 + 1
        BY <4>1, FS_Interval
      <4>3. QED BY <4>1, <4>2
    <3>3. IsFiniteSet(U) /\ Cardinality(U) = Cardinality({n}) * Cardinality(1..e.value)
      BY <3>1, <3>2, FS_Product
    <3> HIDE DEF U
    <3>4. QED BY <1>2, <3>1, <3>2, <3>3
  <2>6. Cardinality(Units(p, b) \cup U) = Cardinality(Units(p, b)) + Cardinality(U) - 0
    <3>1. IsFiniteSet(Units(p, b)) /\ IsFiniteSet(U)
      BY <1>5, <2>5
    <3> HIDE DEF U
    <3>2. Cardinality(Units(p, b) \cup U)
            = Cardinality(Units(p, b)) + Cardinality(U) - Cardinality(Units(p, b) \cap U)
      BY <3>1, FS_Union
    <3>3. QED BY <2>4, <3>2, FS_EmptySet
  <2>7. Sum(q, b) = Sum(p, b) + e.value
    <3> HIDE DEF U
    <3>1. QED BY <1>2, <1>5, <2>3, <2>5, <2>6 DEF Sum
  <2>8. QED BY <1>8, <2>2, <2>7
<1>9. QED BY <1>7, <1>8

LEMMA MergedFits ==
  ASSUME NEW p \in Points, NEW e \in Point, NEW q, Adds(q, p, e),
         NEW m \in Nat, Bounded(p, m),
         NEW k, BucketsFit(k, p)
  PROVE  BucketsFit(Merged(k, Ceiling(e.at), e.value), q)
<1> DEFINE c == Ceiling(e.at)
           g == Merged(k, c, e.value)
<1>1. Len(p) \in Nat /\ DOMAIN p = 1..Len(p)
  BY PointsType
<1>2. DOMAIN q = 1 .. Len(p) + 1
  BY PointAdded
<1>3. \A i \in 1..Len(p) : q[i] = p[i]
  BY PointAdded
<1>4. q[Len(p) + 1] = e /\ e.value \in Nat
  BY PointAdded DEF Point
<1>5. DOMAIN k = Filling(p) /\ \A b \in DOMAIN k : k[b] = [sum |-> Sum(p, b), count |-> Number(p, b)]
  BY DEF BucketsFit
<1>6. Filling(q) = Filling(p) \cup {c}
  <2>1. 1 .. Len(p) + 1 = (1..Len(p)) \cup {Len(p) + 1}
    BY <1>1
  <2>2. \A i \in 1 .. Len(p) + 1 : Ceiling(q[i].at) = IF i \in 1..Len(p) THEN Ceiling(p[i].at) ELSE c
    BY <1>3, <1>4, <2>1
  <2>3. Len(p) + 1 \notin 1..Len(p)
    BY <1>1
  <2> HIDE DEF c
  <2>4. QED BY <1>1, <1>2, <2>1, <2>2, <2>3 DEF Filling
<1>7. DOMAIN g = Filling(q)
  BY <1>5, <1>6 DEF Merged
<1>8. ASSUME NEW b \in Filling(q) PROVE g[b] = [sum |-> Sum(q, b), count |-> Number(q, b)]
  <2>1. /\ Number(p, b) \in Nat /\ Sum(p, b) \in Nat
        /\ b \notin Filling(p) => Number(p, b) = 0 /\ Sum(p, b) = 0
    BY BucketsType
  <2>2. IF b = c
        THEN Number(q, b) = Number(p, b) + 1 /\ Sum(q, b) = Sum(p, b) + e.value
        ELSE Number(q, b) = Number(p, b) /\ Sum(q, b) = Sum(p, b)
    BY BucketGrows
  <2>3. g[b] = IF b # c THEN k[b]
               ELSE IF c \in DOMAIN k THEN [sum |-> k[c].sum + e.value, count |-> k[c].count + 1]
               ELSE [sum |-> e.value, count |-> 1]
    BY <1>5, <1>6 DEF Merged
  <2> HIDE DEF c, g
  <2>4. CASE b # c
    <3>1. b \in DOMAIN k
      BY <1>5, <1>6, <2>4
    <3>2. Number(q, b) = Number(p, b) /\ Sum(q, b) = Sum(p, b)
      BY <2>1, <2>2, <2>4
    <3>3. QED BY <1>5, <2>3, <2>4, <3>1, <3>2
  <2>5. CASE b = c /\ b \in DOMAIN k
    <3>1. Number(q, b) = Number(p, b) + 1 /\ Sum(q, b) = Sum(p, b) + e.value
      BY <2>2, <2>5
    <3>2. k[b].sum = Sum(p, b) /\ k[b].count = Number(p, b)
      BY <1>5, <2>5
    <3>3. QED BY <2>3, <2>5, <3>1, <3>2
  <2>6. CASE b = c /\ b \notin DOMAIN k
    <3>1. Number(q, b) = 1 /\ Sum(q, b) = e.value
      BY <1>4, <1>5, <2>1, <2>2, <2>6
    <3>2. QED BY <2>3, <2>6, <3>1
  <2>7. QED BY <2>4, <2>5, <2>6
<1> HIDE DEF g
<1>9. QED BY <1>7, <1>8 DEF BucketsFit, g

-----------------------------------------------------------------------------
(* Snapshots.                                                              *)

LEMMA RoundGrows ==
  ASSUME NEW t \in Nat, NEW u \in Nat, t <= u
  PROVE  Round(t) <= Round(u)
<1>1. Unit \in Nat /\ Unit > 0 /\ 2 * Unit \in Nat /\ 2 * Unit > 0
  BY ReportAssumption
<1>2. PICK d \in Nat : d = 2 * Unit /\ d > 0
  BY <1>1
<1>3. PICK a \in Nat, b \in Nat : a = 2 * t + Unit /\ b = 2 * u + Unit
  BY <1>1
<1>4. a <= b
  BY <1>1, <1>3
<1>5. a \div d <= b \div d
  BY <1>2, <1>4, Z3
<1>6. QED BY <1>2, <1>3, <1>5 DEF Round

LEMMA FilledFits ==
  ASSUME NEW p \in Points, NEW e \in Point, NEW q, Adds(q, p, e), InOrder(q),
         NEW k, SnapshotsFit(k, p), DOMAIN k = {} => Round(e.at) = 0
  PROVE  SnapshotsFit(Filled(k, Round(e.at), e.value), q)
<1> DEFINE n == Len(p)
           x == Round(e.at)
           g == Filled(k, x, e.value)
           z == Round(p[n].at)
<1>1. n \in Nat /\ DOMAIN p = 1..n /\ \A i \in 1..n : p[i].at \in Nat
  BY PointsType
<1>2. DOMAIN q = 1 .. n + 1 /\ Len(q) = n + 1
  <2>1. DOMAIN q = 1 .. n + 1
    BY PointAdded
  <2>2. Len(q) = n + 1
    BY PointAdded
  <2>3. QED BY <2>1, <2>2
<1>3. \A i \in 1..n : q[i] = p[i]
  BY PointAdded
<1>4. q[n + 1] = e /\ e.at \in Nat
  BY PointAdded DEF Point
<1>5. \A i \in 1..n : p[i].at <= e.at
  <2>1. n + 1 \in 1 .. n + 1 /\ \A i \in 1..n : i \in 1 .. n + 1
    BY <1>1
  <2>2. QED BY <1>2, <1>3, <1>4, <2>1 DEF InOrder
<1>6. q # <<>>
  BY <1>1, <1>2
<1>7. x \in Nat /\ \A i \in 1..n : Round(p[i].at) \in Nat /\ Round(p[i].at) <= x
  BY <1>1, <1>4, <1>5, RoundGrows, TimesAreNat
<1>8. /\ DOMAIN k = IF p = <<>> THEN {} ELSE 0..z
      /\ \A t \in DOMAIN k : \E i \in 1..n : LastAt(p, t, i) /\ k[t].sum = p[i].value
  BY <1>1 DEF SnapshotsFit
<1>9. p # <<>> => n \in 1..n /\ z \in Nat /\ z <= x
  BY <1>1, <1>7, EmptySeq DEF Points
<1>10. DOMAIN k \cup 0..x = 0..x
  BY <1>7, <1>8, <1>9
<1>11. DOMAIN g = 0..x
  BY <1>10 DEF Filled
<1>12. Round(q[Len(q)].at) = x
  BY <1>2, <1>4
<1>13. ASSUME NEW t \in 0..x, t < x, NEW i \in 1..n, LastAt(p, t, i)
       PROVE  LastAt(q, t, i) /\ i \in DOMAIN q /\ q[i] = p[i]
  <2>1. i \in 1 .. n + 1 /\ q[i] = p[i] /\ Round(p[i].at) <= t
    BY <1>1, <1>3, <1>13 DEF LastAt
  <2>2. ASSUME NEW j \in 1 .. n + 1, Round(q[j].at) <= t PROVE j <= i
    <3>1. j # n + 1
      BY <1>4, <1>7, <1>13, <2>2
    <3>2. j \in 1..n
      BY <1>1, <3>1
    <3>3. QED BY <1>1, <1>3, <1>13, <2>2, <3>2 DEF LastAt
  <2>3. QED BY <1>2, <2>1, <2>2 DEF LastAt
<1>14. ASSUME NEW t \in 0..x PROVE \E i \in DOMAIN q : LastAt(q, t, i) /\ g[t].sum = q[i].value
  <2>1. g[t] = IF t = x THEN [sum |-> e.value, count |-> 1]
               ELSE IF t \in DOMAIN k THEN k[t] ELSE k[Cardinality(DOMAIN k) - 1]
    BY <1>10 DEF Filled
  <2> HIDE DEF g
  <2>2. CASE t = x
    <3>1. g[t].sum = e.value
      BY <2>1, <2>2
    <3>2. LastAt(q, t, n + 1)
      BY <1>1, <1>2, <1>4, <2>2 DEF LastAt
    <3>3. n + 1 \in DOMAIN q
      BY <1>1, <1>2
    <3>4. QED BY <1>4, <3>1, <3>2, <3>3
  <2>3. CASE t # x /\ t \in DOMAIN k
    <3>1. PICK i \in 1..n : LastAt(p, t, i) /\ k[t].sum = p[i].value
      BY <1>8, <2>3
    <3>2. t < x
      BY <1>7, <2>3
    <3>3. LastAt(q, t, i) /\ i \in DOMAIN q /\ q[i] = p[i]
      BY <1>13, <3>1, <3>2
    <3>4. QED BY <2>1, <2>3, <3>1, <3>3
  <2>4. CASE t # x /\ t \notin DOMAIN k
    <3>1. p # <<>>
      BY <1>8, <2>4
    <3>2. n \in 1..n /\ z \in Nat /\ DOMAIN k = 0..z
      BY <1>8, <1>9, <3>1
    <3>3. Cardinality(DOMAIN k) - 1 = z
      <4> HIDE DEF z
      <4>1. 0 \in Int /\ z \in Int
        BY <3>2
      <4>2. Cardinality(0..z) = IF 0 > z THEN 0 ELSE z - 0 + 1
        BY <4>1, FS_Interval
      <4>3. QED BY <3>2, <4>2
    <3>4. PICK i \in 1..n : LastAt(p, z, i) /\ k[z].sum = p[i].value
      BY <1>8, <3>2
    <3>5. i = n
      <4>1. n <= i
        BY <1>1, <3>2, <3>4 DEF LastAt
      <4>2. i \in Nat /\ n \in Nat /\ i <= n
        BY <1>1
      <4> HIDE DEF n
      <4>3. QED BY <4>1, <4>2
    <3>6. LastAt(p, t, n)
      <4>1. z <= t
        BY <2>4, <3>2
      <4>2. QED BY <1>1, <3>2, <4>1 DEF LastAt
    <3>7. t < x
      BY <1>7, <2>4
    <3>8. LastAt(q, t, n) /\ n \in DOMAIN q /\ q[n] = p[n]
      BY <1>13, <3>2, <3>6, <3>7
    <3>9. g[t].sum = p[n].value
      BY <2>1, <2>4, <3>3, <3>4, <3>5
    <3>10. QED BY <3>8, <3>9
  <2>5. QED BY <2>2, <2>3, <2>4
<1> HIDE DEF g
<1>15. SnapshotsFit(g, q)
  BY <1>6, <1>11, <1>12, <1>14 DEF SnapshotsFit
<1>16. QED BY <1>15 DEF g

-----------------------------------------------------------------------------
(* What is kept is written in rows.                                        *)

LEMMA AscendingInterval ==
  ASSUME NEW m \in Nat, NEW r \in Ascending(0..m)
  PROVE  DOMAIN r = 1 .. m + 1 /\ \A k \in 1 .. m + 1 : r[k] = k - 1
<1>1. Cardinality(0..m) = m + 1
  <2>1. 0 \in Int /\ m \in Int
    OBVIOUS
  <2>2. Cardinality(0..m) = IF 0 > m THEN 0 ELSE m - 0 + 1
    BY <2>1, FS_Interval
  <2>3. QED BY <2>2
<1>2. /\ r \in [1 .. m + 1 -> 0..m]
      /\ \A j, k \in 1 .. m + 1 : j < k => r[j] < r[k]
  <2>1. r \in [1 .. m + 1 -> 0..m] /\ \A j, k \in DOMAIN r : j < k => r[j] < r[k]
    BY <1>1 DEF Ascending
  <2>2. DOMAIN r = 1 .. m + 1
    BY <2>1
  <2>3. QED BY <2>1, <2>2
<1>3. ASSUME NEW k \in 1 .. m + 1 PROVE r[k] = k - 1
  <2>1. r[k] \in 0..m /\ k \in Nat
    BY <1>2
  <2>2. k - 1 <= r[k]
    <3> DEFINE f == [j \in 1 .. k - 1 |-> r[j]]
               v == r[k]
    <3>1. f \in Injection(1 .. k - 1, 0 .. v - 1)
      <4>1. ASSUME NEW j \in 1 .. k - 1 PROVE r[j] \in 0 .. v - 1
        <5>1. j \in 1 .. m + 1 /\ j < k
          BY <2>1
        <5>2. r[j] < r[k] /\ r[j] \in 0..m
          BY <1>2, <5>1
        <5>3. QED BY <2>1, <5>2
      <4>2. ASSUME NEW i \in 1 .. k - 1, NEW j \in 1 .. k - 1, f[i] = f[j] PROVE i = j
        <5>1. i \in 1 .. m + 1 /\ j \in 1 .. m + 1 /\ r[i] = r[j]
          BY <2>1, <4>2
        <5>2. r[i] \in 0..m /\ r[j] \in 0..m /\ (i < j => r[i] < r[j]) /\ (j < i => r[j] < r[i])
          BY <1>2, <5>1
        <5>3. ~(i < j) /\ ~(j < i)
          BY <5>1, <5>2
        <5>4. QED BY <5>1, <5>3
      <4>3. f \in [1 .. k - 1 -> 0 .. v - 1]
        BY <4>1
      <4> HIDE DEF f, v
      <4>4. QED BY <4>2, <4>3 DEF Injection, IsInjective
    <3>2. IsFiniteSet(0 .. v - 1) /\ Cardinality(0 .. v - 1) = v /\ Cardinality(1 .. k - 1) = k - 1
      <4>1. 0 \in Int /\ v - 1 \in Int /\ 1 \in Int /\ k - 1 \in Int
        BY <2>1
      <4>2. /\ IsFiniteSet(0 .. v - 1)
            /\ Cardinality(0 .. v - 1) = IF 0 > v - 1 THEN 0 ELSE (v - 1) - 0 + 1
        BY <4>1, FS_Interval
      <4>3. Cardinality(1 .. k - 1) = IF 1 > k - 1 THEN 0 ELSE (k - 1) - 1 + 1
        BY <4>1, FS_Interval
      <4>4. QED BY <2>1, <4>2, <4>3
    <3>3. Cardinality(1 .. k - 1) <= Cardinality(0 .. v - 1)
      <4> HIDE DEF f, v
      <4>1. QED BY <3>1, <3>2, FS_Injection
    <3>4. QED BY <3>2, <3>3
  <2>3. r[k] <= k - 1
    <3> DEFINE f == [j \in k + 1 .. m + 1 |-> r[j]]
               v == r[k]
    <3>1. f \in Injection(k + 1 .. m + 1, v + 1 .. m)
      <4>1. ASSUME NEW j \in k + 1 .. m + 1 PROVE r[j] \in v + 1 .. m
        <5>1. j \in 1 .. m + 1 /\ k < j
          BY <2>1
        <5>2. r[k] < r[j] /\ r[j] \in 0..m
          BY <1>2, <5>1
        <5>3. QED BY <2>1, <5>2
      <4>2. ASSUME NEW i \in k + 1 .. m + 1, NEW j \in k + 1 .. m + 1, f[i] = f[j] PROVE i = j
        <5>1. i \in 1 .. m + 1 /\ j \in 1 .. m + 1 /\ r[i] = r[j]
          BY <2>1, <4>2
        <5>2. r[i] \in 0..m /\ r[j] \in 0..m /\ (i < j => r[i] < r[j]) /\ (j < i => r[j] < r[i])
          BY <1>2, <5>1
        <5>3. ~(i < j) /\ ~(j < i)
          BY <5>1, <5>2
        <5>4. QED BY <5>1, <5>3
      <4>3. f \in [k + 1 .. m + 1 -> v + 1 .. m]
        BY <4>1
      <4> HIDE DEF f, v
      <4>4. QED BY <4>2, <4>3 DEF Injection, IsInjective
    <3>2. IsFiniteSet(v + 1 .. m) /\ Cardinality(v + 1 .. m) = m - v /\ Cardinality(k + 1 .. m + 1) = m + 1 - k
      <4>1. v + 1 \in Int /\ m \in Int /\ k + 1 \in Int /\ m + 1 \in Int
        BY <2>1
      <4>2. /\ IsFiniteSet(v + 1 .. m)
            /\ Cardinality(v + 1 .. m) = IF v + 1 > m THEN 0 ELSE m - (v + 1) + 1
        BY <4>1, FS_Interval
      <4>3. Cardinality(k + 1 .. m + 1) = IF k + 1 > m + 1 THEN 0 ELSE m + 1 - (k + 1) + 1
        BY <4>1, FS_Interval
      <4>4. QED BY <2>1, <4>2, <4>3
    <3>3. Cardinality(k + 1 .. m + 1) <= Cardinality(v + 1 .. m)
      <4> HIDE DEF f, v
      <4>1. QED BY <3>1, <3>2, FS_Injection
    <3>4. QED BY <2>1, <3>2, <3>3
  <2>4. QED BY <2>1, <2>2, <2>3
<1>4. QED BY <1>2, <1>3

LEMMA BucketsWritten ==
  ASSUME NEW w \in Writer, kind[w] \in {"sums", "averages"}, BucketsFit(kept[w], points[w]),
         NEW r \in Ascending(DOMAIN kept[w])
  PROVE  IsBuckets([k \in DOMAIN r |-> Row(w, r[k])], points[w], kind[w])
<1> DEFINE p == points[w]
<1>1. r \in Ascending(Filling(p)) /\ DOMAIN kept[w] = Filling(p)
  BY DEF BucketsFit
<1>2. ASSUME NEW k \in DOMAIN r
      PROVE  Row(w, r[k]) = Entry("row", r[k], IF kind[w] = "averages" THEN <<Sum(p, r[k]), Number(p, r[k])>>
                                               ELSE <<Sum(p, r[k])>>)
  <2>1. r[k] \in DOMAIN kept[w]
    BY DEF Ascending
  <2>2. kept[w][r[k]].sum = Sum(p, r[k]) /\ kept[w][r[k]].count = Number(p, r[k])
    <3>1. kept[w][r[k]] = [sum |-> Sum(p, r[k]), count |-> Number(p, r[k])]
      BY <2>1 DEF BucketsFit
    <3>2. QED BY <3>1
  <2>3. QED BY <2>2 DEF Row
<1>3. QED BY <1>1, <1>2 DEF IsBuckets

LEMMA SnapshotsWritten ==
  ASSUME NEW w \in Writer, kind[w] = "snapshot", points[w] \in Points, points[w] # <<>>,
         SnapshotsFit(kept[w], points[w]),
         NEW r \in Ascending(DOMAIN kept[w])
  PROVE  IsSnapshots([k \in DOMAIN r |-> Row(w, r[k])], points[w])
<1> DEFINE p == points[w]
           m == Round(p[Len(p)].at)
           f == [k \in DOMAIN r |-> Row(w, r[k])]
<1>1. m \in Nat /\ DOMAIN kept[w] = 0..m
  <2>1. Len(p) \in 1..Len(p)
    BY PointsType, EmptySeq DEF Points
  <2>2. QED BY <2>1, PointsType, TimesAreNat DEF SnapshotsFit
<1> HIDE DEF m
<1>2. DOMAIN r = 1 .. m + 1 /\ \A k \in 1 .. m + 1 : r[k] = k - 1
  BY <1>1, AscendingInterval
<1>3. Len(f) = m + 1 /\ DOMAIN f = 1 .. m + 1
  <2>1. f = [k \in 1 .. m + 1 |-> Row(w, r[k])]
    BY <1>2
  <2>2. QED BY <1>1, <2>1
<1>4. ASSUME NEW k \in 1 .. m + 1
      PROVE  \E i \in DOMAIN p : LastAt(p, k - 1, i) /\ f[k] = Entry("row", k - 1, <<p[i].value>>)
  <2>1. f[k] = Row(w, k - 1) /\ k - 1 \in DOMAIN kept[w]
    BY <1>1, <1>2
  <2>2. PICK i \in DOMAIN p : LastAt(p, k - 1, i) /\ kept[w][k - 1].sum = p[i].value
    BY <2>1 DEF SnapshotsFit
  <2>3. Row(w, k - 1) = Entry("row", k - 1, <<p[i].value>>)
    BY <2>2 DEF Row
  <2>4. QED BY <2>1, <2>2, <2>3
<1> HIDE DEF f
<1>5. Len(f) = IF p = <<>> THEN 0 ELSE Round(p[Len(p)].at) + 1
  BY <1>3 DEF m
<1>6. IsSnapshots(f, p)
  BY <1>3, <1>4, <1>5 DEF IsSnapshots
<1>7. QED BY <1>6 DEF f

LEMMA NothingWritten ==
  ASSUME NEW k \in {"columns", "sums", "averages", "snapshot"}
  PROVE  IsText(<<>>, <<>>, k)
<1>1. DOMAIN <<>> = {} /\ Len(<<>>) = 0
  OBVIOUS
<1>2. IsColumns(<<>>, <<>>)
  BY <1>1 DEF IsColumns
<1>3. IsSnapshots(<<>>, <<>>)
  BY <1>1 DEF IsSnapshots
<1>4. IsBuckets(<<>>, <<>>, k)
  <2>1. Filling(<<>>) = {}
    BY <1>1 DEF Filling
  <2>2. Cardinality({}) = 0
    BY FS_EmptySet
  <2>3. <<>> \in Ascending({})
    BY <1>1, <2>2 DEF Ascending
  <2>4. <<>> \in Ascending(Filling(<<>>))
    BY <2>1, <2>3
  <2>5. <<>> = [n \in DOMAIN <<>> |->
                  Entry("row", <<>>[n], IF k = "averages" THEN <<Sum(<<>>, <<>>[n]), Number(<<>>, <<>>[n])>>
                                        ELSE <<Sum(<<>>, <<>>[n])>>)]
    BY <1>1
  <2>6. QED BY <2>4, <2>5 DEF IsBuckets
<1>5. QED BY <1>2, <1>3, <1>4 DEF IsText

-----------------------------------------------------------------------------
(* What comes to the files.                                                *)

LEMMA LogStays ==
  ASSUME UNCHANGED Log!logVars, NEW x \in Writer
  PROVE  Logged(x)' = Logged(x)
<1>1. [w \in Writer |-> Logged(w)'] = [w \in Writer |-> Logged(w)]
  BY DEF Log!logVars
<1>2. [w \in Writer |-> Logged(w)'][x] = Logged(x)'
  OBVIOUS
<1>3. [w \in Writer |-> Logged(w)][x] = Logged(x)
  OBVIOUS
<1>4. QED BY <1>1, <1>2, <1>3

LEMMA LoggedType ==
  ASSUME WriterInvariant, NEW x \in Writer
  PROVE  Logged(x) \in Seq(Entries)
<1>1. Hand(x) \in Seq(Entries) /\ file[x] \in Seq(Entries) /\ buffer[x] \in Seq(Entries)
  BY HandType DEF WriterInvariant
<1>2. file[x] \o (Hand(x) \o buffer[x]) \in Seq(Entries)
  BY <1>1, ConcatProperties
<1>3. QED BY <1>1, <1>2 DEF Logged

LEMMA ComingIs ==
  ASSUME WriterInvariant, NEW x \in Writer
  PROVE  /\ Coming(x) \in Seq(Entries)
         /\ sim.of # x \/ sim.todo = <<>> => Coming(x) = Logged(x)
<1>1. Logged(x) \in Seq(Entries) /\ sim.todo \in Seq(Entries) /\ <<>> \in Seq(Entries)
  BY LoggedType, FieldTypes DEF WriterInvariant
<1>2. Logged(x) \o <<>> = Logged(x) /\ Logged(x) \o sim.todo \in Seq(Entries)
  BY <1>1, ConcatEmptySeq, ConcatProperties
<1>3. QED BY <1>1, <1>2 DEF Coming

\* An entry less to add is one more in the log.
LEMMA AddEntryKeeps ==
  ASSUME WriterInvariant, AddEntry, NEW x \in Writer, sim.of = x => channel[x] # "closed"
  PROVE  Coming(x)' = Coming(x)
<1>0. PICK w \in Writer : w = sim.of
  BY AddEntryType DEF WriterInvariant
<1> DEFINE f == file[w]
           h == Hand(w)
           b == buffer[w]
           e == Head(sim.todo)
<1>1. e \in Entries /\ buffer' = [buffer EXCEPT ![w] = Append(@, e)] /\ UNCHANGED <<file, channel, lock, job>>
  BY <1>0, AddEntryType DEF WriterInvariant, AddEntry
<1>2. f \in Seq(Entries) /\ h \in Seq(Entries) /\ b \in Seq(Entries) /\ buffer'[w] = Append(b, e)
  BY <1>1, HandType DEF WriterInvariant, TypeOK
<1>3. \A y \in Writer : Hand(y)' = Hand(y)
  BY <1>1 DEF Hand
<1>4. sim' = Sim(w, sim.at, Tail(sim.todo)) /\ sim.todo # <<>> /\ sim.todo \in Seq(Entries)
  BY <1>0, FieldTypes DEF AddEntry, WriterInvariant
<1>5. sim'.of = w /\ sim'.todo = Tail(sim.todo)
  BY <1>4 DEF Sim
<1>6. CASE x # w
  <2>1. buffer'[x] = buffer[x]
    BY <1>1, <1>6 DEF WriterInvariant, TypeOK
  <2>2. Logged(x)' = Logged(x)
    BY <1>1, <1>3, <2>1 DEF Logged
  <2>3. QED BY <1>0, <1>5, <1>6, <2>2 DEF Coming
<1>7. CASE x = w
  <2> DEFINE old == f \o (h \o b)
             new == f \o (h \o Append(b, e))
             rest == Tail(sim.todo)
  <2>1. Logged(w) = old /\ Logged(w)' = new
    BY <1>0, <1>1, <1>2, <1>3, <1>7 DEF Logged
  <2>2. new = Append(old, e)
    <3>1. e \in Entries /\ f \in Seq(Entries) /\ h \in Seq(Entries) /\ b \in Seq(Entries)
      BY <1>1, <1>2
    <3> HIDE DEF f, h, b, e
    <3>2. QED BY <3>1, LogAppended
  <2>3. old \in Seq(Entries)
    BY <1>2, ThreeParts
  <2>4. rest \in Seq(Entries) /\ <<e>> \in Seq(Entries)
    BY <1>1, <1>4, HeadTailProperties
  <2> HIDE DEF old, new, rest, e
  <2>5. new = old \o <<e>>
    BY <1>1, <2>2, <2>3, AppendIsConcat
  <2>6. (old \o <<e>>) \o rest = old \o (<<e>> \o rest)
    BY <2>3, <2>4, ConcatAssociative
  <2>7. <<e>> \o rest = sim.todo
    BY <1>4, HeadAndTail DEF e, rest
  <2>8. QED BY <1>0, <1>5, <1>7, <2>1, <2>5, <2>6, <2>7 DEF Coming, rest
<1>8. QED BY <1>6, <1>7

-----------------------------------------------------------------------------
(* What the threads do leaves the texts as they are.                       *)

LEMMA TextKept ==
  ASSUME NEW x \in Writer, TextFits(x), Coming(x)' = Coming(x), UNCHANGED <<kind, finalized>>,
         points'[x] = points[x], kept'[x] = kept[x], line'[x] = line[x], channel'[x] = channel[x],
         sim'.of = sim.of,
         \/ sim'.at = sim.at
         \/ {sim.at, sim'.at} \subseteq {"cancelled", "writes", "closes"}
  PROVE  TextFits(x)'
<1>1. Begun(x)' <=> Begun(x)
  BY DEF Begun
<1>2. (Keeps(x)' <=> Keeps(x)) /\ (KeptFits(x)' <=> KeptFits(x))
  BY DEF Keeps, KeptFits
<1>3. Finalizing(x)' <=> Finalizing(x)
  BY DEF Finalizing
<1>4. QED BY <1>1, <1>2, <1>3 DEF TextFits

LEMMA PointsKept ==
  ASSUME PointsFit, UNCHANGED <<kind, points>>, now \in Nat, now' \in Nat, now <= now',
         recorded \in Nat, recorded' \in Nat, recorded <= recorded'
  PROVE  PointsFit'
<1>1. ASSUME NEW w \in Writer, NEW i \in DOMAIN points[w]
      PROVE  points[w][i].at <= now' /\ points[w][i].value <= recorded'
  <2>1. /\ points[w][i].at <= now /\ points[w][i].value <= recorded
        /\ points[w] \in Points /\ i \in 1..Len(points[w])
    BY PointsType DEF PointsFit
  <2>2. points[w][i].at \in Nat /\ points[w][i].value \in Nat
    BY <2>1, PointsType
  <2>3. QED BY <2>1, <2>2
<1>2. QED BY <1>1 DEF PointsFit

\* Closed files are not changed any more.
LEMMA FilesKept ==
  ASSUME FileIsReport, UNCHANGED kind, lost \subseteq lost',
         \A w \in Writer : channel'[w] = "closed" =>
           channel[w] = "closed" /\ file'[w] = file[w] /\ points'[w] = points[w]
  PROVE  FileIsReport'
BY DEF FileIsReport

LEMMA WriteoutKeeps ==
  ASSUME WriterInvariant, NEW p \in Process, InWriteout(p), NEW x \in Writer, x \notin lost'
  PROVE  Logged(x)' = Logged(x)
<1>1. CASE Lock(p) \/ CheckMore(p) \/ CheckDone(p) \/ Take(p)
  <2>1. UNCHANGED Log!logVars
    BY <1>1, LockLogs, CheckLogs, TakeLogs DEF WriterInvariant
  <2>2. QED BY <2>1, LogStays
<1>2. CASE Write(p)
  BY <1>2, WriteKeeps DEF WriterInvariant
<1>3. CASE FailWrite(p)
  <2>1. x # job[p].of
    BY <1>3 DEF FailWrite
  <2>2. QED BY <2>1, OthersKept DEF WriterInvariant
<1>4. QED BY <1>1, <1>2, <1>3 DEF InWriteout

LEMMA WriteoutReports ==
  ASSUME WriterInvariant, WriterInvariant', ReportInvariant, NEW p \in Process, InWriteout(p)
  PROVE  ReportInvariant'
<1>1. UNCHANGED dataVars /\ UNCHANGED <<channel, finalized>> /\ lost \subseteq lost'
  BY DEF InWriteout, Lock, CheckMore, CheckDone, Take, Write, FailWrite
<1>2. \/ UNCHANGED sim
      \/ CheckDone(p) /\ p = Simulation
      \/ FailWrite(p) /\ p = Simulation
  BY DEF InWriteout, Lock, CheckMore, CheckDone, Take, Write, FailWrite
<1>3. PointsFit'
  BY <1>1, PointsKept DEF ReportInvariant, dataVars, WriterInvariant, TypeOK
<1>4. ASSUME CheckDone(p), p = Simulation
      PROVE  sim.at = "writes" /\ sim.todo = <<>> /\ sim' = Sim(sim.of, "closes", <<>>)
  <2>1. job[p].at = "check" /\ sim' = Sim(sim.of, "closes", <<>>)
    BY <1>4 DEF CheckDone
  <2>2. sim.at = "writes"
    BY <1>4, <2>1 DEF WriterInvariant, FinalizingFits, Idle, Job
  <2>3. QED BY <2>1, <2>2 DEF WriterInvariant, FinalizingFits
<1>5. ASSUME NEW x \in Writer, x \notin lost' PROVE TextFits(x)'
  <2>1. Logged(x)' = Logged(x) /\ TextFits(x)
    BY <1>1, <1>5, WriteoutKeeps DEF ReportInvariant
  <2>2. points'[x] = points[x] /\ kept'[x] = kept[x] /\ line'[x] = line[x] /\ channel'[x] = channel[x] /\ kind' = kind
    BY <1>1 DEF dataVars
  <2>3. CASE UNCHANGED sim
    <3>1. Coming(x)' = Coming(x)
      BY <2>1, <2>3 DEF Coming
    <3>2. QED BY <1>1, <2>1, <2>2, <2>3, <3>1, TextKept
  <2>4. CASE CheckDone(p) /\ p = Simulation
    <3>1. sim.at = "writes" /\ sim.todo = <<>> /\ sim'.of = sim.of /\ sim'.at = "closes" /\ sim'.todo = <<>>
      BY <1>4, <2>4 DEF Sim
    <3>2. Coming(x)' = Coming(x)
      BY <2>1, <3>1 DEF Coming
    <3>3. QED BY <1>1, <2>1, <2>2, <3>1, <3>2, TextKept
  <2>5. CASE FailWrite(p) /\ p = Simulation
    <3>1. sim'.at = "failed"
      BY <2>5 DEF FailWrite, Sim
    <3>2. QED BY <3>1 DEF TextFits
  <2>6. QED BY <1>2, <2>3, <2>4, <2>5
<1>6. FileIsReport'
  <2>1. ASSUME NEW w \in Writer, channel[w] = "closed" PROVE file'[w] = file[w]
    <3>1. CASE Write(p)
      <4>1. job[p].of # w
        BY <2>1, <3>1, JobsFitIs DEF Write, JobFits, WriterInvariant
      <4>2. QED BY <3>1, <4>1 DEF Write, WriterInvariant, TypeOK
    <3>2. CASE ~Write(p)
      BY <3>2 DEF InWriteout, Lock, CheckMore, CheckDone, Take, FailWrite
    <3>3. QED BY <3>1, <3>2
  <2>2. QED BY <1>1, <2>1, FilesKept DEF ReportInvariant, dataVars
<1>7. sim'.at = "ended" => finalized' = Writer
  <2>1. sim'.at = "ended" => sim.at = "ended"
    BY <1>2, <1>4 DEF FailWrite, Sim
  <2>2. QED BY <1>1, <2>1 DEF ReportInvariant
<1>8. QED BY <1>3, <1>5, <1>6, <1>7 DEF ReportInvariant

-----------------------------------------------------------------------------
(* The steps of the simulation.                                            *)

LEMMA RestReports ==
  ASSUME WriterInvariant, WriterInvariant', ReportInvariant, UNCHANGED Log!logVars, now <= now',
         UNCHANGED <<kind, recorded, points, kept, line, file, channel, finalized, lost>>,
         \/ UNCHANGED sim
         \/ WriteRest
  PROVE  ReportInvariant'
<1>1. PointsFit'
  BY PointsKept DEF ReportInvariant, WriterInvariant, TypeOK
<1>2. ASSUME NEW x \in Writer, x \notin lost' PROVE TextFits(x)'
  <2>1. Logged(x)' = Logged(x) /\ TextFits(x)
    BY <1>2, LogStays DEF ReportInvariant
  <2>2. CASE UNCHANGED sim
    <3>1. Coming(x)' = Coming(x)
      BY <2>1, <2>2 DEF Coming
    <3>2. QED BY <2>1, <2>2, <3>1, TextKept
  <2>3. CASE WriteRest
    <3>1. sim.at = "cancelled" /\ sim.todo = <<>> /\ sim'.of = sim.of /\ sim'.at = "writes" /\ sim'.todo = <<>>
      BY <2>3 DEF WriteRest, Sim
    <3>2. Coming(x)' = Coming(x)
      BY <2>1, <3>1 DEF Coming
    <3>3. QED BY <2>1, <3>1, <3>2, TextKept
  <2>4. QED BY <2>2, <2>3
<1>3. FileIsReport'
  BY FilesKept DEF ReportInvariant
<1>4. sim'.at = "ended" => finalized' = Writer
  BY DEF ReportInvariant, WriteRest, Sim
<1>5. QED BY <1>1, <1>2, <1>3, <1>4 DEF ReportInvariant

\* After the end, all reporters are finalized.
LEMMA EndReports ==
  ASSUME WriterInvariant, WriterInvariant', ReportInvariant, EndSimulation \/ Exit
  PROVE  ReportInvariant'
<1>1. /\ UNCHANGED <<kind, now, recorded, points, kept, line, file, channel, lost>>
      /\ (sim'.at = "ended" /\ finalized' = Writer) \/ sim'.at = "exited"
  BY DEF EndSimulation, Exit, dataVars, Sim
<1>2. PointsFit'
  BY <1>1, PointsKept DEF ReportInvariant, WriterInvariant, TypeOK
<1>3. \A x \in Writer : TextFits(x)'
  BY <1>1 DEF TextFits
<1>4. FileIsReport'
  BY <1>1, FilesKept DEF ReportInvariant
<1>5. QED BY <1>1, <1>2, <1>3, <1>4 DEF ReportInvariant

\* What is added for a reporter that was finalized is not reported.
LEMMA AddEntryReports ==
  ASSUME WriterInvariant, WriterInvariant', ReportInvariant, AddEntry
  PROVE  ReportInvariant'
<1>1. /\ UNCHANGED <<kind, now, recorded, points, kept, line, file, channel, lost, finalized>>
      /\ sim'.at = sim.at /\ sim'.of = sim.of /\ sim.todo # <<>>
  BY DEF AddEntry, dataVars, Sim
<1>2. PointsFit'
  BY <1>1, PointsKept DEF ReportInvariant, WriterInvariant, TypeOK
<1>3. ASSUME NEW x \in Writer, x \notin lost' PROVE TextFits(x)'
  <2>1. CASE sim.of = x /\ x \in finalized
    <3>1. ~Finalizing(x)'
      BY <1>1, <2>1 DEF WriterInvariant, FinalizingFits, Finalizing
    <3>2. QED BY <1>1, <2>1, <3>1 DEF TextFits, Finalizing
  <2>2. CASE sim.of # x \/ x \notin finalized
    <3>1. sim.of = x => channel[x] # "closed"
      BY <1>1, <2>2 DEF WriterInvariant, FinalizingFits
    <3>2. Coming(x)' = Coming(x)
      BY <3>1, AddEntryKeeps
    <3>3. QED BY <1>1, <1>3, <3>2, TextKept DEF ReportInvariant
  <2>3. QED BY <2>1, <2>2
<1>4. FileIsReport'
  BY <1>1, FilesKept DEF ReportInvariant
<1>5. QED BY <1>1, <1>2, <1>3, <1>4 DEF ReportInvariant

\* The text of a writer that is finalized is complete but for the end of a
\* list, which follows.
LEMMA CancelReports ==
  ASSUME WriterInvariant, WriterInvariant', ReportInvariant, CancelTask
  PROVE  ReportInvariant'
<1>0. PICK w \in Writer : w = sim.of
  BY DEF WriterInvariant, FinalizingFits, CancelTask
<1>1. /\ UNCHANGED <<kind, now, recorded, points, kept, line, file, channel, lost>>
      /\ sim.at = "flushes" /\ sim.todo = <<>>
  BY DEF CancelTask, dataVars
<1>2. IF channel[w] = "none"
      THEN sim' = Sim(Nobody, Resumed, <<>>) /\ finalized' = finalized \cup {w}
      ELSE /\ sim' = Sim(w, "cancelled", IF kind[w] = "list" THEN <<End>> ELSE <<>>)
           /\ finalized' = finalized
  BY <1>0 DEF CancelTask, End
<1>3. PointsFit'
  BY <1>1, PointsKept DEF ReportInvariant, WriterInvariant, TypeOK
<1>4. UNCHANGED Log!logVars
  BY LogsRest
<1>5. ASSUME NEW x \in Writer, x \notin lost', x # w PROVE TextFits(x)'
  <2>1. Logged(x)' = Logged(x)
    BY <1>4, LogStays
  <2>2. sim.of # x /\ sim'.of # x
    BY <1>0, <1>2, <1>5, ReportAssumption DEF Sim
  <2>3. Coming(x)' = Coming(x)
    BY <2>1, <2>2 DEF Coming
  <2>4. (Begun(x)' <=> Begun(x)) /\ (Keeps(x)' <=> Keeps(x)) /\ (KeptFits(x)' <=> KeptFits(x))
    BY <1>1, <2>3 DEF Begun, Keeps, KeptFits
  <2>5. ~Finalizing(x) /\ ~Finalizing(x)'
    BY <2>2 DEF Finalizing
  <2>6. x \in finalized' <=> x \in finalized
    BY <1>2, <1>5
  <2>7. TextFits(x)
    BY <1>1, <1>5 DEF ReportInvariant
  <2>8. QED BY <1>1, <2>2, <2>3, <2>4, <2>5, <2>6, <2>7 DEF TextFits
<1>6. ASSUME w \notin lost' PROVE TextFits(w)'
  <2>1. CASE channel[w] = "none"
    BY <1>2, <2>1, ReportAssumption DEF TextFits, Finalizing, Sim
  <2>2. CASE channel[w] # "none"
    <3> DEFINE todo == IF kind[w] = "list" THEN <<End>> ELSE <<>>
    <3>1. sim'.of = w /\ sim'.at = "cancelled" /\ sim'.todo = todo
      BY <1>2, <2>2 DEF Sim
    <3>2. Begun(w)
      BY <1>0, <1>1, <1>6 DEF ReportInvariant, TextFits
    <3>3. Coming(w) = Logged(w) /\ Logged(w)' = Logged(w) /\ Logged(w) \in Seq(Entries)
      BY <1>1, <1>4, LogStays, ComingIs, LoggedType
    <3>4. Coming(w)' = Coming(w) \o todo
      BY <3>1, <3>3 DEF Coming
    <3>5. IsText(Coming(w)', points[w], kind[w])
      <4>1. CASE kind[w] = "list"
        <5>1. Coming(w)' = Append(Coming(w), End)
          BY <3>3, <3>4, <4>1, EndIsEntry, AppendIsConcat
        <5>2. IsList(Append(Coming(w), End), points[w])
          BY <2>2, <3>2, <4>1 DEF Begun, End
        <5>3. QED BY <4>1, <5>1, <5>2 DEF IsText
      <4>2. CASE kind[w] # "list"
        <5>1. Coming(w)' = Coming(w)
          BY <3>3, <3>4, <4>2, ConcatEmptySeq
        <5>2. QED BY <3>2, <4>2, <5>1 DEF Begun
      <4>3. QED BY <4>1, <4>2
    <3>6. Finalizing(w)' /\ points'[w] = points[w] /\ kind'[w] = kind[w]
      BY <1>1, <3>1 DEF Finalizing
    <3>7. QED BY <3>1, <3>5, <3>6 DEF TextFits
  <2>3. QED BY <2>1, <2>2
<1>7. FileIsReport'
  BY <1>1, FilesKept DEF ReportInvariant
<1>8. sim'.at # "ended"
  BY <1>2 DEF Resumed, Sim
<1>9. QED BY <1>1, <1>3, <1>5, <1>6, <1>7, <1>8 DEF ReportInvariant

\* A file that is closed has its text.
LEMMA CloseReports ==
  ASSUME WriterInvariant, WriterInvariant', ReportInvariant, CloseFile
  PROVE  ReportInvariant'
<1>0. PICK w \in Writer : w = sim.of
  BY DEF WriterInvariant, FinalizingFits, CloseFile
<1>1. /\ UNCHANGED <<kind, now, recorded, points, kept, line, file, buffer, lock, job, lost>>
      /\ sim.at = "closes" /\ sim.todo = <<>>
      /\ channel' = [channel EXCEPT ![w] = "closed"]
  BY <1>0 DEF CloseFile, dataVars, WriterInvariant, FinalizingFits
<1>2. \/ sim' = Sim(Nobody, Resumed, <<>>) /\ finalized' = finalized \cup {w}
      \/ sim' = Sim(Nobody, "failed", <<>>) /\ finalized' = finalized
  BY <1>0 DEF CloseFile
<1>3. PointsFit'
  BY <1>1, PointsKept DEF ReportInvariant, WriterInvariant, TypeOK
<1>4. channel'[w] = "closed" /\ \A x \in Writer : x # w => channel'[x] = channel[x]
  BY <1>1 DEF WriterInvariant, TypeOK
<1>5. ASSUME NEW x \in Writer, x \notin lost', x # w PROVE TextFits(x)'
  <2>1. Logged(x)' = Logged(x)
    BY <1>1, <1>4, <1>5 DEF Logged, Hand
  <2>2. sim.of # x /\ sim'.of # x
    BY <1>0, <1>2, <1>5, ReportAssumption DEF Sim
  <2>3. Coming(x)' = Coming(x)
    BY <2>1, <2>2 DEF Coming
  <2>4. (Begun(x)' <=> Begun(x)) /\ (Keeps(x)' <=> Keeps(x)) /\ (KeptFits(x)' <=> KeptFits(x))
    BY <1>1, <1>4, <1>5, <2>3 DEF Begun, Keeps, KeptFits
  <2>5. ~Finalizing(x) /\ ~Finalizing(x)'
    BY <2>2 DEF Finalizing
  <2>6. x \in finalized' <=> x \in finalized
    BY <1>2, <1>5
  <2>7. TextFits(x)
    BY <1>1, <1>5 DEF ReportInvariant
  <2>8. QED BY <1>1, <2>2, <2>3, <2>4, <2>5, <2>6, <2>7 DEF TextFits
<1>6. TextFits(w)'
  BY <1>2, ReportAssumption DEF TextFits, Finalizing, Sim
<1>7. FileIsReport'
  <2>1. ASSUME w \notin lost PROVE IsText(file[w], points[w], kind[w])
    <3>1. IsText(Coming(w), points[w], kind[w])
      BY <1>0, <1>1, <2>1 DEF ReportInvariant, TextFits
    <3>2. Coming(w) = Logged(w)
      BY <1>1, ComingIs
    <3>3. Logged(w) = file[w]
      BY <1>0, CloseFileHas
    <3>4. QED BY <3>1, <3>2, <3>3
  <2>2. ASSUME NEW x \in Writer, channel'[x] = "closed", x \notin lost'
        PROVE  IsText(file'[x], points'[x], kind'[x])
    BY <1>1, <1>4, <2>1, <2>2 DEF ReportInvariant, FileIsReport
  <2>3. QED BY <2>2 DEF FileIsReport
<1>8. sim'.at # "ended"
  BY <1>2 DEF Resumed, Sim
<1>9. QED BY <1>1, <1>3, <1>5, <1>6, <1>7, <1>8 DEF ReportInvariant

\* A reporter that has kept nothing was told nothing.
LEMMA NothingKept ==
  ASSUME NEW w \in Writer, points[w] \in Points, KeptFits(w), DOMAIN kept[w] = {}
  PROVE  points[w] = <<>>
<1> DEFINE p == points[w]
<1>1. Len(p) \in Nat /\ DOMAIN p = 1..Len(p)
  BY PointsType
<1>2. CASE kind[w] = "snapshot"
  <2>1. ASSUME p # <<>> PROVE FALSE
    <3>1. Len(p) \in 1..Len(p)
      BY <1>1, <2>1, EmptySeq DEF Points
    <3>2. Round(p[Len(p)].at) \in Nat
      BY <3>1, PointsType, TimesAreNat
    <3>3. 0..Round(p[Len(p)].at) = {}
      BY <1>2, <2>1 DEF KeptFits, SnapshotsFit
    <3>4. QED BY <3>2, <3>3
  <2>2. QED BY <2>1
<1>3. CASE kind[w] # "snapshot"
  <2>1. Filling(p) = {}
    BY <1>3 DEF KeptFits, BucketsFit
  <2>2. 1..Len(p) = {}
    BY <1>1, <2>1 DEF Filling
  <2>3. Len(p) = 0
    BY <1>1, <2>2
  <2>4. QED BY <2>3, EmptySeq DEF Points
<1>4. QED BY <1>2, <1>3

\* What a reporter has kept becomes the text.
LEMMA FlushWrites ==
  ASSUME NEW w \in Writer, points[w] \in Points, Keeps(w), KeptFits(w), DOMAIN kept[w] # {},
         NEW r \in Ascending(DOMAIN kept[w])
  PROVE  IsText([k \in DOMAIN r |-> Row(w, r[k])], points[w], kind[w])
<1> DEFINE f == [k \in DOMAIN r |-> Row(w, r[k])]
<1>1. CASE kind[w] = "snapshot"
  <2>1. SnapshotsFit(kept[w], points[w])
    BY <1>1 DEF KeptFits
  <2>2. points[w] # <<>>
    BY <2>1 DEF SnapshotsFit
  <2>3. IsSnapshots(f, points[w])
    BY <1>1, <2>1, <2>2, SnapshotsWritten
  <2> HIDE DEF f
  <2>4. IsText(f, points[w], kind[w])
    BY <1>1, <2>3 DEF IsText
  <2>5. QED BY <2>4 DEF f
<1>2. CASE kind[w] \in {"sums", "averages"}
  <2>1. BucketsFit(kept[w], points[w])
    BY <1>2 DEF KeptFits
  <2>2. IsBuckets(f, points[w], kind[w])
    BY <1>2, <2>1, BucketsWritten
  <2> HIDE DEF f
  <2>3. IsText(f, points[w], kind[w])
    BY <1>2, <2>2 DEF IsText
  <2>4. QED BY <2>3 DEF f
<1>3. QED BY <1>1, <1>2 DEF Keeps

LEMMA FlushReports ==
  ASSUME WriterInvariant, WriterInvariant', ReportInvariant, NEW w \in Writer, Flush(w)
  PROVE  ReportInvariant'
<1>1. /\ UNCHANGED <<kind, now, recorded, points, kept, line, file, lost, finalized>>
      /\ sim.at \in {"simulates", "finalizes"} /\ sim.todo = <<>> /\ w \notin finalized
      /\ UNCHANGED channel \/ Opened(w)
  BY DEF Flush
<1>2. PICK todo \in Seq(Entries) : sim' = Sim(w, "flushes", todo)
  BY FlushType DEF WriterInvariant
<1>3. sim'.of = w /\ sim'.at = "flushes" /\ sim'.todo = todo
  BY <1>2 DEF Sim
<1>4. PointsFit'
  BY <1>1, PointsKept DEF ReportInvariant, WriterInvariant, TypeOK
<1>5. \A x \in Writer : Logged(x)' = Logged(x)
  BY LogsRest, LogStays
<1>6. /\ \A x \in Writer : x # w => channel'[x] = channel[x]
      /\ \A x \in Writer : channel'[x] = "closed" => channel[x] = "closed"
  BY <1>1 DEF Opened, WriterInvariant, TypeOK
<1>7. \A x \in Writer : Coming(x) = Logged(x)
  BY <1>1, ComingIs
<1>8. ASSUME NEW x \in Writer, x \notin lost', x # w PROVE TextFits(x)'
  <2>1. Coming(x)' = Coming(x)
    <3>1. Coming(x)' = Logged(x)' \o <<>> /\ Logged(x) \in Seq(Entries)
      BY <1>3, <1>8, LoggedType DEF Coming
    <3>2. QED BY <1>5, <1>7, <3>1, ConcatEmptySeq
  <2>2. (Begun(x)' <=> Begun(x)) /\ (Keeps(x)' <=> Keeps(x)) /\ (KeptFits(x)' <=> KeptFits(x))
    BY <1>1, <1>6, <1>8, <2>1 DEF Begun, Keeps, KeptFits
  <2>3. ~Finalizing(x) /\ ~Finalizing(x)' /\ sim'.of # x
    BY <1>1, <1>3, <1>8 DEF Finalizing
  <2>4. TextFits(x)
    BY <1>1, <1>8 DEF ReportInvariant
  <2>5. QED BY <1>1, <2>1, <2>2, <2>3, <2>4 DEF TextFits
<1>9. ASSUME w \notin lost' PROVE TextFits(w)'
  <2>1. IF Keeps(w) THEN KeptFits(w) /\ Coming(w) = <<>> ELSE Begun(w)
    BY <1>1, <1>9 DEF ReportInvariant, TextFits, Finalizing
  <2>2. Coming(w)' = Coming(w) \o todo /\ Coming(w) \in Seq(Entries)
    BY <1>3, <1>5, <1>7, LoggedType DEF Coming
  <2>3. /\ points[w] \in Points /\ UNCHANGED <<kind, points, line>>
        /\ kind[w] \in {"list", "columns", "sums", "averages", "snapshot"}
    BY <1>1 DEF ReportInvariant, PointsFit
  <2>4. CASE Keeps(w) /\ DOMAIN kept[w] # {}
    <3>1. PICK r \in Ascending(DOMAIN kept[w]) : sim' = Sim(w, "flushes", [k \in DOMAIN r |-> Row(w, r[k])])
      BY <2>4 DEF Flush
    <3>2. todo = [k \in DOMAIN r |-> Row(w, r[k])]
      BY <1>3, <3>1 DEF Sim
    <3>3. IsText(todo, points[w], kind[w])
      BY <2>1, <2>3, <2>4, <3>2, FlushWrites
    <3>4. Coming(w)' = todo
      BY <2>1, <2>2, <2>4, ConcatEmptySeq
    <3>5. Begun(w)'
      BY <2>3, <2>4, <3>3, <3>4 DEF Begun, Keeps
    <3>6. QED BY <1>3, <3>5 DEF TextFits, Finalizing
  <2>5. CASE ~(Keeps(w) /\ DOMAIN kept[w] # {})
    <3>1. todo = <<>> /\ UNCHANGED channel
      BY <1>3, <2>5 DEF Flush, Sim
    <3>2. Coming(w)' = Coming(w)
      BY <2>2, <3>1, ConcatEmptySeq
    <3>3. Begun(w)
      <4>1. CASE Keeps(w)
        <5>1. points[w] = <<>> /\ Coming(w) = <<>>
          BY <2>1, <2>3, <2>5, <4>1, NothingKept
        <5>2. kind[w] \in {"columns", "sums", "averages", "snapshot"} /\ kind[w] # "list"
          BY <4>1 DEF Keeps
        <5>3. IsText(<<>>, <<>>, kind[w])
          BY <5>2, NothingWritten
        <5>4. QED BY <5>1, <5>2, <5>3 DEF Begun
      <4>2. QED BY <2>1, <4>1
    <3>4. Begun(w)'
      BY <2>3, <3>1, <3>2, <3>3 DEF Begun
    <3>5. QED BY <1>3, <3>4 DEF TextFits, Finalizing
  <2>6. QED BY <2>4, <2>5
<1>10. FileIsReport'
  BY <1>1, <1>6, FilesKept DEF ReportInvariant
<1>11. QED BY <1>1, <1>3, <1>4, <1>8, <1>9, <1>10 DEF ReportInvariant

\* An instance is killed: the rows of its reporter are the text.
LEMMA DieReports ==
  ASSUME WriterInvariant, WriterInvariant', ReportInvariant, NEW w \in Writer, Die(w)
  PROVE  ReportInvariant'
<1>1. /\ UNCHANGED <<kind, now, recorded, points, kept, line, file, channel, lost, finalized>>
      /\ sim.at = "simulates" /\ sim.todo = <<>> /\ w \notin finalized /\ kind[w] = "columns"
      /\ sim'.of = w /\ sim'.at = "flushes" /\ sim'.todo = <<>>
  BY DEF Die, Simulates, dataVars, Sim
<1>2. PointsFit'
  BY <1>1, PointsKept DEF ReportInvariant, WriterInvariant, TypeOK
<1>3. \A x \in Writer : Coming(x)' = Coming(x)
  <2>1. \A x \in Writer : Logged(x)' = Logged(x)
    BY LogsRest, LogStays
  <2>2. QED BY <1>1, <2>1 DEF Coming
<1>4. \A x \in Writer :
        (Begun(x)' <=> Begun(x)) /\ (Keeps(x)' <=> Keeps(x)) /\ (KeptFits(x)' <=> KeptFits(x))
  BY <1>1, <1>3 DEF Begun, Keeps, KeptFits
<1>5. ASSUME NEW x \in Writer, x \notin lost' PROVE TextFits(x)'
  <2>1. TextFits(x) /\ ~Finalizing(x)
    BY <1>1, <1>5 DEF ReportInvariant, Finalizing
  <2>2. CASE x = w
    <3>1. Begun(w)
      BY <1>1, <2>1, <2>2 DEF TextFits, Keeps
    <3>2. QED BY <1>1, <1>4, <2>2, <3>1 DEF TextFits, Finalizing
  <2>3. CASE x # w
    BY <1>1, <1>4, <1>3, <2>1, <2>3 DEF TextFits, Finalizing
  <2>4. QED BY <2>2, <2>3
<1>6. FileIsReport'
  BY <1>1, FilesKept DEF ReportInvariant
<1>7. QED BY <1>1, <1>2, <1>5, <1>6 DEF ReportInvariant
-----------------------------------------------------------------------------
(* A data point is recorded.                                               *)

LEMMA OrderGrows ==
  ASSUME NEW p \in Points, InOrder(p), NEW e \in Point, NEW q, Adds(q, p, e),
         \A i \in 1..Len(p) : p[i].at <= e.at
  PROVE  InOrder(q)
<1>1. Len(p) \in Nat /\ DOMAIN p = 1..Len(p)
  BY PointsType
<1>2. DOMAIN q = 1 .. Len(p) + 1 /\ e.at \in Nat
  BY PointAdded DEF Point
<1>3. \A i \in 1..Len(p) : q[i] = p[i]
  BY PointAdded
<1>4. q[Len(p) + 1] = e
  BY PointAdded
<1>5. ASSUME NEW i \in 1 .. Len(p) + 1, NEW j \in 1..i PROVE q[j].at <= q[i].at
  <2>1. CASE i \in 1..Len(p)
    <3>1. j \in 1..Len(p)
      BY <1>1, <2>1
    <3>2. QED BY <1>1, <1>3, <2>1, <3>1 DEF InOrder
  <2>2. CASE i = Len(p) + 1 /\ j \in 1..Len(p)
    BY <1>3, <1>4, <2>2
  <2>3. CASE i = Len(p) + 1 /\ j = Len(p) + 1
    BY <1>2, <1>4, <2>3
  <2>4. QED BY <1>1, <2>1, <2>2, <2>3
<1>6. QED BY <1>2, <1>5 DEF InOrder

\* What a reporter was told is what it keeps.
LEMMA KeepFits ==
  ASSUME TypeOK, NEW w \in Writer, NEW v \in Nat, Keep(w, v), KeptFits(w), UNCHANGED kind,
         points[w] \in Points, Bounded(points[w], recorded),
         NEW e \in Point, e.at = now, e.value = v, Adds(points'[w], points[w], e), InOrder(points'[w])
  PROVE  KeptFits(w)'
<1>1. now \in Nat /\ recorded \in Nat /\ DOMAIN kept = Writer
  BY DEF TypeOK
<1>2. CASE kind[w] = "snapshot"
  <2>1. kept'[w] = Filled(kept[w], Round(e.at), e.value) /\ (DOMAIN kept[w] = {} => Round(e.at) = 0)
    BY <1>1, <1>2 DEF Keep
  <2>2. SnapshotsFit(kept[w], points[w])
    BY <1>2 DEF KeptFits
  <2>3. SnapshotsFit(Filled(kept[w], Round(e.at), e.value), points'[w])
    BY <2>1, <2>2, FilledFits
  <2>4. QED BY <1>2, <2>1, <2>3 DEF KeptFits
<1>3. CASE kind[w] # "snapshot"
  <2>1. kept'[w] = Merged(kept[w], Ceiling(e.at), e.value)
    BY <1>1, <1>3 DEF Keep
  <2>2. BucketsFit(kept[w], points[w])
    BY <1>3 DEF KeptFits
  <2>3. BucketsFit(Merged(kept[w], Ceiling(e.at), e.value), points'[w])
    BY <1>1, <2>2, MergedFits
  <2>4. QED BY <1>3, <2>1, <2>3 DEF KeptFits
<1>4. QED BY <1>2, <1>3

\* The entries that a reporter passes on go on with the text.
LEMMA ListFits ==
  ASSUME TypeOK, NEW w \in Writer, NEW v \in Nat, kind[w] = "list", Begun(w),
         Coming(w) \in Seq(Entries), points[w] \in Points, InOrder(points[w]),
         NEW e \in Point, e.at = now, e.value = v, NEW q, Adds(q, points[w], e), InOrder(q)
  PROVE  IsList(Append(Coming(w) \o Listed(w, v), End), q)
<1> DEFINE p == points[w]
           new == Listed(w, v)
           f == Append(Coming(w) \o new, End)
<1>1. new \in Seq(Entries) /\ now \in Nat
  BY ListedType DEF TypeOK
<1>2. /\ line[w] = IF p = <<>> THEN [at |-> NoTime, begun |-> FALSE]
                   ELSE [at |-> p[Len(p)].at, begun |-> TRUE]
      /\ IF p = <<>> THEN Coming(w) = <<>> ELSE IsList(Append(Coming(w), End), p)
  BY DEF Begun, End
<1>3. Extends(f, Coming(w), new)
  BY DEF Extends
<1>4. CASE p = <<>>
  <2>1. new = <<>> \o <<Entry("open", now, <<>>), Entry("first", now, <<v>>)>>
    BY <1>1, <1>2, <1>4 DEF Listed, NoTime
  <2>2. new = <<Entry("open", now, <<>>), Entry("first", now, <<v>>)>>
    BY <2>1
  <2>3. Len(new) = 2 /\ new[1] = Entry("open", now, <<>>) /\ new[2] = Entry("first", now, <<v>>)
    BY <2>2
  <2>4. Coming(w) = <<>> /\ Len(Coming(w)) = 0
    BY <1>2, <1>4
  <2> HIDE DEF new, f
  <2>5. /\ Len(f) = Len(Coming(w)) + Len(new) + 1
        /\ \A k \in 1..Len(new) : f[Len(Coming(w)) + k] = new[k]
        /\ f[Len(Coming(w)) + Len(new) + 1] = End
    BY <1>1, <1>3, TextGrows
  <2>6. Len(f) = 3 /\ f[1] = new[1] /\ f[2] = new[2] /\ f[3] = End
    BY <2>3, <2>4, <2>5
  <2>7. q \in Points
    BY PointAdded
  <2>8. q = Append(<<>>, e)
    BY <1>4 DEF Adds
  <2>9. IsList(f, q)
    BY <2>3, <2>6, <2>7, <2>8, FirstListed
  <2>10. QED BY <2>9 DEF f, new
<1>5. CASE p # <<>> /\ p[Len(p)].at = now
  <2>1. new = <<Entry("more", now, <<v>>)>>
    BY <1>2, <1>5 DEF Listed
  <2>2. Len(new) = 1 /\ new[1] = Entry("more", now, <<v>>)
    BY <2>1
  <2>3. IsList(Append(Coming(w), End), p)
    BY <1>2, <1>5
  <2> HIDE DEF new, f
  <2>4. IsList(f, q)
    BY <1>1, <1>3, <1>5, <2>2, <2>3, MoreListed
  <2>5. QED BY <2>4 DEF f, new
<1>6. CASE p # <<>> /\ p[Len(p)].at # now
  <2>1. new = <<Entry("close", 0, <<>>)>> \o <<Entry("open", now, <<>>), Entry("first", now, <<v>>)>>
    BY <1>2, <1>6 DEF Listed
  <2>2. Len(new) = 3 /\ new[1] = End /\ new[2] = Entry("open", now, <<>>) /\ new[3] = Entry("first", now, <<v>>)
    BY <2>1 DEF End
  <2>3. IsList(Append(Coming(w), End), p)
    BY <1>2, <1>6
  <2> HIDE DEF new, f
  <2>4. IsList(f, q)
    BY <1>1, <1>3, <1>6, <2>2, <2>3, LineListed
  <2>5. QED BY <2>4 DEF f, new
<1>7. QED BY <1>4, <1>5, <1>6

\* What a data point changes, and what it leaves to the other reporters
LEMMA RecordKeeps ==
  ASSUME WriterInvariant, NEW w \in Writer, Record(w)
  PROVE  /\ Report(w, recorded + 1) \/ Keep(w, recorded + 1)
         /\ UNCHANGED <<kind, now, file, finalized, lost>> /\ recorded' = recorded + 1
         /\ sim.at \in {"simulates", "ended"} /\ sim'.at = sim.at
         /\ \A x \in Writer : ~Finalizing(x) /\ ~Finalizing(x)'
         /\ \A x \in Writer : channel'[x] = "closed" => channel[x] = "closed"
         /\ \A x \in Writer : Logged(x)' = Logged(x) /\ Coming(x) = Logged(x) /\ Logged(x) \in Seq(Entries)
         /\ \A x \in Writer : x # w => Coming(x)' = Coming(x)
<1>1. /\ Report(w, recorded + 1) \/ Keep(w, recorded + 1)
      /\ UNCHANGED <<kind, now, file, finalized, lost>> /\ recorded' = recorded + 1
  BY DEF Record
<1>2. /\ sim.at \in {"simulates", "ended"} /\ sim.todo = <<>> /\ sim'.at = sim.at
      /\ sim'.of = w \/ (sim'.of = sim.of /\ sim'.todo = <<>>)
  BY <1>1 DEF Report, Keep, Simulates, Sim
<1>3. \A x \in Writer : ~Finalizing(x) /\ ~Finalizing(x)'
  BY <1>2 DEF Finalizing
<1>4. \A x \in Writer : channel'[x] = "closed" => channel[x] = "closed"
  BY <1>1 DEF Report, Keep, Opened, WriterInvariant, TypeOK
<1>5. \A x \in Writer : Logged(x)' = Logged(x) /\ Coming(x) = Logged(x) /\ Logged(x) \in Seq(Entries)
  BY <1>2, LogsRest, LogStays, ComingIs, LoggedType
<1>6. ASSUME NEW x \in Writer, x # w PROVE Coming(x)' = Coming(x)
  <2>1. Coming(x)' = Logged(x)' \o <<>>
    BY <1>2, <1>6 DEF Coming
  <2>2. QED BY <1>5, <2>1, ConcatEmptySeq
<1>7. QED BY <1>1, <1>2, <1>3, <1>4, <1>5, <1>6

\* The others' texts stay.
LEMMA OthersReport ==
  ASSUME WriterInvariant, NEW w \in Writer, Record(w), NEW x \in Writer, x # w, TextFits(x)
  PROVE  TextFits(x)'
<1>1. /\ UNCHANGED <<kind, finalized>> /\ sim'.at = sim.at /\ ~Finalizing(x) /\ ~Finalizing(x)'
      /\ Coming(x)' = Coming(x)
  BY RecordKeeps
<1>2. /\ channel'[x] = channel[x] /\ line'[x] = line[x] /\ kept'[x] = kept[x]
      /\ points'[x] = points[x]
  BY DEF Record, Report, Keep, Opened, WriterInvariant, TypeOK
<1>3. (Begun(x)' <=> Begun(x)) /\ (Keeps(x)' <=> Keeps(x)) /\ (KeptFits(x)' <=> KeptFits(x))
  BY <1>1, <1>2 DEF Begun, Keeps, KeptFits
<1>4. QED BY <1>1, <1>2, <1>3 DEF TextFits, Finalizing

\* To a reporter that was finalized, data points are reported in vain.
LEMMA LateReports ==
  ASSUME WriterInvariant, WriterInvariant', ReportInvariant, NEW w \in finalized, w \in Writer, Record(w)
  PROVE  ReportInvariant'
<1>1. /\ UNCHANGED <<kind, now, points, file, finalized, lost>> /\ recorded' = recorded + 1
      /\ sim'.at = sim.at /\ ~Finalizing(w)'
      /\ \A x \in Writer : channel'[x] = "closed" => channel[x] = "closed"
  BY RecordKeeps DEF Record
<1>2. PointsFit'
  BY <1>1, PointsKept DEF ReportInvariant, WriterInvariant, TypeOK
<1>3. ASSUME NEW x \in Writer, x \notin lost' PROVE TextFits(x)'
  <2>1. CASE x = w
    BY <1>1, <2>1 DEF TextFits, Finalizing
  <2>2. CASE x # w
    BY <1>1, <1>3, <2>2, OthersReport DEF ReportInvariant
  <2>3. QED BY <2>1, <2>2
<1>4. FileIsReport'
  BY <1>1, FilesKept DEF ReportInvariant
<1>5. QED BY <1>1, <1>2, <1>3, <1>4 DEF ReportInvariant

LEMMA RecordReports ==
  ASSUME WriterInvariant, WriterInvariant', ReportInvariant, NEW w \in Writer \ finalized, Record(w)
  PROVE  ReportInvariant'
<1> DEFINE v == recorded + 1
           e == [at |-> now, value |-> v]
           p == points[w]
           q == points'[w]
<1>0. w \in Writer /\ w \notin finalized
  OBVIOUS
<1>1. /\ Report(w, v) \/ Keep(w, v)
      /\ UNCHANGED <<kind, now, file, finalized, lost>> /\ sim.at = "simulates"
      /\ recorded' = v /\ points' = [points EXCEPT ![w] = Append(@, e)]
  BY <1>0, RecordKeeps DEF Record, ReportInvariant
<1>2. e \in Point /\ e.at = now /\ e.value = v /\ v \in Nat /\ now \in Nat /\ recorded \in Nat
  BY DEF WriterInvariant, TypeOK, Point
<1>3. /\ p \in Points /\ InOrder(p) /\ Bounded(p, recorded)
      /\ \A i \in 1..Len(p) : p[i].at <= now /\ p[i].value <= recorded
      /\ kind[w] \in {"list", "columns", "sums", "averages", "snapshot"}
  BY PointsType DEF ReportInvariant, PointsFit, Bounded
<1>4. Adds(q, p, e) /\ \A x \in Writer : x # w => points'[x] = points[x]
  BY <1>1 DEF Adds, WriterInvariant, TypeOK
<1> HIDE DEF e, v
<1>5. q \in Points /\ InOrder(q)
  <2>1. q \in Points
    BY <1>2, <1>3, <1>4, PointAdded
  <2>2. QED BY <1>2, <1>3, <1>4, <2>1, OrderGrows
<1>6. PointsFit'
  <2>1. ASSUME NEW i \in DOMAIN q PROVE q[i].at <= now /\ q[i].value <= recorded'
    <3>1. DOMAIN q = 1 .. Len(p) + 1
      BY <1>2, <1>3, <1>4, PointAdded
    <3>2. \A j \in 1..Len(p) : q[j] = p[j]
      BY <1>2, <1>3, <1>4, PointAdded
    <3>3. q[Len(p) + 1] = e
      BY <1>2, <1>3, <1>4, PointAdded
    <3>4. Len(p) \in Nat /\ \A j \in 1..Len(p) : p[j].value \in Nat
      BY <1>3, PointsType
    <3>5. recorded <= v
      BY <1>2 DEF v
    <3>6. CASE i \in 1..Len(p)
      BY <1>1, <1>2, <1>3, <3>2, <3>4, <3>5, <3>6
    <3>7. CASE i = Len(p) + 1
      BY <1>1, <1>2, <3>3, <3>7
    <3>8. QED BY <3>1, <3>4, <3>6, <3>7
  <2>2. ASSUME NEW x \in Writer, x # w, NEW i \in DOMAIN points[x]
        PROVE  points[x][i].at <= now /\ points[x][i].value <= recorded'
    <3>1. points[x] \in Points /\ points[x][i].at <= now /\ points[x][i].value <= recorded
      BY DEF ReportInvariant, PointsFit
    <3>2. points[x][i].value \in Nat
      BY <3>1, PointsType
    <3>3. QED BY <1>1, <1>2, <3>1, <3>2 DEF v
  <2>3. QED BY <1>1, <1>4, <1>5, <2>1, <2>2 DEF ReportInvariant, PointsFit
<1>8. sim'.at = "simulates"
  BY <1>1, RecordKeeps
<1>9. \A x \in Writer : Logged(x)' = Logged(x) /\ Coming(x) = Logged(x) /\ Logged(x) \in Seq(Entries)
  BY RecordKeeps
<1>10. FileIsReport'
  <2>1. \A x \in Writer : channel'[x] = "closed" => channel[x] = "closed"
    BY RecordKeeps
  <2>2. channel[w] # "closed"
    BY <1>0, <1>1 DEF WriterInvariant, FinalizingFits
  <2>3. QED BY <1>1, <1>4, <2>1, <2>2, FilesKept DEF ReportInvariant
<1>11. ~Finalizing(w) /\ ~Finalizing(w)'
  BY RecordKeeps
<1>12. ASSUME NEW x \in Writer, x \notin lost', x # w PROVE TextFits(x)'
  BY <1>1, <1>12, OthersReport DEF ReportInvariant
<1>13. ASSUME w \notin lost' PROVE TextFits(w)'
  <2>1. IF Keeps(w) THEN KeptFits(w) /\ Coming(w) = <<>> ELSE Begun(w)
    BY <1>0, <1>1, <1>11, <1>13 DEF ReportInvariant, TextFits
  <2>2. CASE Keep(w, v)
    <3>1. Keeps(w) /\ sim' = sim
      BY <2>2 DEF Keep
    <3>2. KeptFits(w)'
      BY <1>1, <1>2, <1>3, <1>4, <1>5, <2>1, <2>2, <3>1, KeepFits DEF WriterInvariant
    <3>3. Coming(w)' = Coming(w)
      BY <1>9, <3>1 DEF Coming
    <3>4. Keeps(w)'
      BY <1>1, <3>1 DEF Keeps
    <3>5. QED BY <1>8, <1>11, <2>1, <3>1, <3>2, <3>3, <3>4 DEF TextFits
  <2>3. CASE Report(w, v)
    <3>1. ~Keeps(w) /\ ~Keeps(w)' /\ kind'[w] = kind[w] /\ Begun(w) /\ kind[w] \in {"list", "columns"}
      BY <1>1, <1>3, <2>1, <2>3 DEF Report, Keeps
    <3>2. Begun(w)'
      <4>1. CASE kind[w] = "list"
        <5> DEFINE new == Listed(w, v)
        <5>1. sim' = Sim(w, sim.at, new) /\ line'[w] = [at |-> now, begun |-> TRUE] /\ Opened(w)
          BY <2>3, <4>1 DEF Report, WriterInvariant, TypeOK
        <5>2. Coming(w)' = Coming(w) \o new
          BY <1>9, <5>1 DEF Coming, Sim
        <5>3. IsList(Append(Coming(w) \o new, End), q)
          BY <1>2, <1>3, <1>4, <1>5, <1>9, <3>1, <4>1, ListFits DEF WriterInvariant
        <5>4. q # <<>> /\ q[Len(q)] = e
          <6>1. Len(q) = Len(p) + 1 /\ Len(p) \in Nat
            BY <1>2, <1>3, <1>4, PointAdded
          <6>2. q[Len(p) + 1] = e
            BY <1>2, <1>3, <1>4, PointAdded
          <6>3. QED BY <6>1, <6>2
        <5> HIDE DEF new, q
        <5>5. IsList(Append(Coming(w)', End), q) /\ q = points'[w]
          BY <5>2, <5>3 DEF q
        <5>6. line'[w] = [at |-> q[Len(q)].at, begun |-> TRUE]
          BY <1>2, <5>1, <5>4
        <5>7. QED BY <3>1, <4>1, <5>4, <5>5, <5>6 DEF Begun, End
      <4>2. CASE kind[w] = "columns"
        <5>1. sim' = Sim(w, sim.at, <<Entry("row", e.at, <<e.value>>)>>)
          BY <1>2, <2>3, <4>2 DEF Report
        <5>2. Coming(w)' = Coming(w) \o <<Entry("row", e.at, <<e.value>>)>>
          BY <1>9, <5>1 DEF Coming, Sim
        <5>3. IsColumns(Coming(w), p) /\ Coming(w) \in Seq(Entries)
          BY <1>9, <3>1, <4>2 DEF Begun, IsText
        <5>4. IsColumns(Coming(w)', q)
          BY <1>2, <1>3, <1>4, <5>2, <5>3, ColumnsGrow
        <5>5. QED BY <3>1, <4>2, <5>4 DEF Begun, IsText
      <4>3. QED BY <3>1, <4>1, <4>2
    <3>3. QED BY <1>8, <1>11, <3>1, <3>2 DEF TextFits
  <2>4. QED BY <1>1, <2>2, <2>3
<1>14. QED BY <1>1, <1>6, <1>8, <1>10, <1>12, <1>13 DEF ReportInvariant

-----------------------------------------------------------------------------
(* Every file is a report.                                                 *)

LEMMA InitReports ==
  ASSUME Init
  PROVE  ReportInvariant
<1>1. /\ sim = Sim(Nobody, "simulates", <<>>) /\ finalized = {} /\ now = 0 /\ recorded = 0
      /\ \A w \in Writer : /\ points[w] = <<>> /\ kept[w] = <<>> /\ channel[w] = "none"
                           /\ line[w] = [at |-> NoTime, begun |-> FALSE]
                           /\ file[w] = <<>> /\ buffer[w] = <<>> /\ Hand(w) = <<>>
  BY DEF Init, Hand
<1>2. \A w \in Writer : kind[w] \in {"list", "columns", "sums", "averages", "snapshot"}
  <2>1. \A w \in Writer : kind[w] \in Kinds[w] /\ Kinds[w] \in SUBSET {"list", "columns", "sums", "averages", "snapshot"}
    BY ReportAssumption DEF Init
  <2>2. QED BY <2>1
<1>3. <<>> \in Points /\ DOMAIN <<>> = {}
  BY DEF Points
<1>4. <<>> \o (<<>> \o <<>>) = <<>> /\ <<>> \o <<>> = <<>>
  BY ConcatEmptySeq, EmptySeq
<1>5. PointsFit
  BY <1>1, <1>2, <1>3 DEF PointsFit, InOrder
<1>6. ASSUME NEW w \in Writer PROVE TextFits(w)
  <2>1. Coming(w) = <<>>
    BY <1>1, <1>4 DEF Coming, Logged, Sim
  <2>2. sim.of # w /\ sim.at = "simulates"
    BY <1>1, ReportAssumption DEF Sim
  <2>3. KeptFits(w)
    <3>1. Filling(<<>>) = {}
      BY <1>3 DEF Filling
    <3>2. SnapshotsFit(<<>>, <<>>) /\ BucketsFit(<<>>, <<>>)
      BY <1>3, <3>1 DEF SnapshotsFit, BucketsFit
    <3>3. QED BY <1>1, <3>2 DEF KeptFits
  <2>4. Begun(w)
    <3>1. CASE kind[w] = "list"
      BY <1>1, <2>1, <3>1 DEF Begun
    <3>2. CASE kind[w] # "list"
      <4>1. IsText(<<>>, <<>>, kind[w])
        BY <1>2, <3>2, NothingWritten
      <4>2. QED BY <1>1, <2>1, <3>2, <4>1 DEF Begun
    <3>3. QED BY <3>1, <3>2
  <2>5. QED BY <2>1, <2>2, <2>3, <2>4 DEF TextFits, Finalizing
<1>7. FileIsReport
  BY <1>1 DEF FileIsReport
<1>8. QED BY <1>1, <1>5, <1>6, <1>7 DEF ReportInvariant, Sim

LEMMA SimulationReports ==
  ASSUME WriterInvariant, WriterInvariant', ReportInvariant, SimulationNext
  PROVE  ReportInvariant'
<1>1. CASE Tick
  <2>1. UNCHANGED Log!logVars
    BY <1>1, LogsRest
  <2>2. now <= now' /\ UNCHANGED <<kind, recorded, points, kept, line, file, channel, finalized, lost, sim>>
    BY <1>1 DEF Tick, WriterInvariant, TypeOK
  <2>3. QED BY <2>1, <2>2, RestReports
<1>2. CASE WriteRest
  <2>1. UNCHANGED Log!logVars
    BY <1>2, LogsRest
  <2>2. now <= now' /\ UNCHANGED <<kind, recorded, points, kept, line, file, channel, finalized, lost>>
    BY <1>2 DEF WriteRest, dataVars, WriterInvariant, TypeOK
  <2>3. QED BY <1>2, <2>1, <2>2, RestReports
<1>3. ASSUME NEW w \in Writer, Record(w) PROVE ReportInvariant'
  BY <1>3, RecordReports, LateReports
<1>4. QED BY <1>1, <1>2, <1>3, AddEntryReports, CancelReports, CloseReports, EndReports, DieReports,
             FlushReports
          DEF SimulationNext

LEMMA NextReports ==
  ASSUME WriterInvariant, WriterInvariant', ReportInvariant, [Next]_vars
  PROVE  ReportInvariant'
<1>1. CASE SimulationNext
  BY <1>1, SimulationReports
<1>2. ASSUME NEW p \in Process, Writeout(p) PROVE ReportInvariant'
  BY <1>2, WriteoutReports DEF Writeout
<1>3. ASSUME NEW p \in Thread, NEW w \in Writer, BeginWriteout(p, w) PROVE ReportInvariant'
  <2>1. job' = [job EXCEPT ![p] = Job(w, "lock", <<>>)] /\ UNCHANGED <<file, buffer, lock, channel>> /\ job[p] = Idle
    BY <1>3 DEF BeginWriteout
  <2>2. p \in Process
    BY DEF Process
  <2>3. UNCHANGED Log!logVars
    BY <2>1, <2>2, ComeLogs
  <2>4. now <= now' /\ UNCHANGED <<kind, recorded, points, kept, line, file, channel, finalized, lost, sim>>
    BY <1>3 DEF BeginWriteout, dataVars, WriterInvariant, TypeOK
  <2>5. QED BY <2>3, <2>4, RestReports
<1>4. CASE UNCHANGED vars
  <2>1. UNCHANGED <<file, buffer, lock, job, channel>>
    BY <1>4 DEF vars
  <2>2. UNCHANGED Log!logVars
    BY <2>1, OpenedLogs
  <2>3. now <= now' /\ UNCHANGED <<kind, recorded, points, kept, line, file, channel, finalized, lost, sim>>
    BY <1>4 DEF vars, WriterInvariant, TypeOK
  <2>4. QED BY <2>2, <2>3, RestReports
<1>5. QED BY <1>1, <1>2, <1>3, <1>4 DEF Next

\* What a reporter got before its finalizeReport is kept by it, is on its way
\* to the file or is in it, in the form of the text it is to become: through
\* the steps of addDataPoint, the pool's writeouts and every step of
\* finalizeReport, at the end of the simulation or when an instance is killed,
\* whatever is still recorded for that one or for the others afterwards.
THEOREM ReportInvariantHolds == Spec => []ReportInvariant
<1>1. Init => ReportInvariant
  BY InitReports
<1>2. WriterInvariant /\ WriterInvariant' /\ ReportInvariant /\ [Next]_vars => ReportInvariant'
  BY NextReports
<1>3. QED BY <1>1, <1>2, WriterInvariantHolds, PTL DEF Spec

\* A file that was closed, of a writer none of whose writes failed, is the
\* report of the data points its reporter got before its finalizeReport:
\* every time's values on one line of a list, a row for each value, a row for
\* each bucket with the sum or average of its values, or a row for each time
\* with the last value until then.  What an instance that was killed records
\* after that is not in it.
THEOREM FilesAreReports == Spec => []FileIsReport
<1>1. ReportInvariant => FileIsReport
  BY DEF ReportInvariant
<1>2. QED BY <1>1, ReportInvariantHolds, PTL
=============================================================================
