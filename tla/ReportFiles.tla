---------------------------- MODULE ReportFiles ----------------------------
(***************************************************************************)
(* What the files of a report should be, defined from the data points      *)
(* alone, and the inductive invariant of ReportWriter that makes them so.  *)
(***************************************************************************)
EXTENDS ReportWriter

-----------------------------------------------------------------------------
(* The text of the data points p.                                          *)

Points == Seq([at : Nat, value : Nat])
\* Lists: the values of a time are one line, which is opened before the first
\* and closed after the last of them.
Begins(p, i) == i = 1 \/ p[i - 1].at # p[i].at
Lines(p, i)  == Cardinality({p[j].at : j \in 1..i})
Place(p, i)  == i + 2 * Lines(p, i) - 1

IsList(f, p) ==
  /\ Len(f) = Len(p) + 2 * Lines(p, Len(p))
  /\ \A i \in DOMAIN p :
       LET k == Place(p, i)
       IN  /\ f[k] = Entry(IF Begins(p, i) THEN "first" ELSE "more", p[i].at, <<p[i].value>>)
           /\ Begins(p, i) => f[k - 1] = Entry("open", p[i].at, <<>>)
           /\ i = Len(p) \/ Begins(p, i + 1) => f[k + 1] = Entry("close", 0, <<>>)

\* Columns: the values are the rows.
IsColumns(f, p) ==
  f = [i \in DOMAIN p |-> Entry("row", p[i].at, <<p[i].value>>)]

\* Sums and averages: a row for each bucket, with the sum of its values, which
\* has one unit for each unit of a value, or also with their number.
InBucket(p, b) == {i \in DOMAIN p : Ceiling(p[i].at) = b}
Units(p, b)    == UNION {{i} \X (1..p[i].value) : i \in InBucket(p, b)}
Sum(p, b)      == Cardinality(Units(p, b))
Number(p, b)   == Cardinality(InBucket(p, b))
Filling(p)     == {Ceiling(p[i].at) : i \in DOMAIN p}

IsBuckets(f, p, k) ==
  \E r \in Ascending(Filling(p)) :
    f = [n \in DOMAIN r |->
           Entry("row", r[n], IF k = "averages" THEN <<Sum(p, r[n]), Number(p, r[n])>>
                              ELSE <<Sum(p, r[n])>>)]

\* Snapshots: for each time until the last one, the value that was the last
\* one then.
LastAt(p, t, i) ==
  /\ i \in DOMAIN p /\ Round(p[i].at) <= t
  /\ \A j \in DOMAIN p : Round(p[j].at) <= t => j <= i

IsSnapshots(f, p) ==
  /\ Len(f) = IF p = <<>> THEN 0 ELSE Round(p[Len(p)].at) + 1
  /\ \A k \in DOMAIN f :
       \E i \in DOMAIN p : LastAt(p, k - 1, i) /\ f[k] = Entry("row", k - 1, <<p[i].value>>)

IsText(f, p, k) ==
  CASE k = "list" -> IsList(f, p)
    [] k = "columns" -> IsColumns(f, p)
    [] k \in {"sums", "averages"} -> IsBuckets(f, p, k)
    [] k = "snapshot" -> IsSnapshots(f, p)

\* A file that was closed has what was recorded until finalizeReport: each
\* time's values in one line, each bucket's sum or average, each time's last
\* value.
FileIsReport ==
  \A w \in Writer :
    channel[w] = "closed" /\ w \notin lost => IsText(file[w], points[w], kind[w])

-----------------------------------------------------------------------------
(* The inductive invariant.                                                *)

\* Data points come in the order of their times.
InOrder(p) == \A i \in DOMAIN p : \A j \in 1..i : p[j].at <= p[i].at

PointsFit ==
  \A w \in Writer :
    /\ kind[w] \in {"list", "columns", "sums", "averages", "snapshot"}
    /\ points[w] \in Points /\ InOrder(points[w])
    /\ \A i \in DOMAIN points[w] : points[w][i].at <= now /\ points[w][i].value <= recorded

\* What a reporter keeps is what it was told.
SnapshotsFit(k, p) ==
  /\ DOMAIN k = IF p = <<>> THEN {} ELSE 0..Round(p[Len(p)].at)
  /\ \A t \in DOMAIN k : \E i \in DOMAIN p : LastAt(p, t, i) /\ k[t].sum = p[i].value

BucketsFit(k, p) ==
  /\ DOMAIN k = Filling(p)
  /\ \A b \in DOMAIN k : k[b] = [sum |-> Sum(p, b), count |-> Number(p, b)]

KeptFits(w) ==
  IF kind[w] = "snapshot" THEN SnapshotsFit(kept[w], points[w]) ELSE BucketsFit(kept[w], points[w])

\* The file of w, with what is under way to it and what the simulation has yet
\* to add
Coming(w) == Logged(w) \o IF sim.of = w THEN sim.todo ELSE <<>>

\* What comes is the text of the data points, of a list without the end of
\* its last line.
Begun(w) ==
  IF kind[w] = "list"
  THEN /\ line[w] = IF points[w] = <<>> THEN [at |-> NoTime, begun |-> FALSE]
                    ELSE [at |-> points[w][Len(points[w])].at, begun |-> TRUE]
       /\ IF points[w] = <<>> THEN Coming(w) = <<>> /\ channel[w] = "none"
          ELSE IsList(Append(Coming(w), Entry("close", 0, <<>>)), points[w])
  ELSE IsText(Coming(w), points[w], kind[w])

Finalizing(w) == sim.of = w /\ sim.at \in {"flushes", "cancelled", "writes", "closes"}

\* Reporter w before and while it is finalized
TextFits(w) ==
  /\ w \notin finalized /\ sim.at \notin {"failed", "ended", "exited"} /\ ~Finalizing(w) =>
       IF Keeps(w) THEN KeptFits(w) /\ Coming(w) = <<>> ELSE Begun(w)
  /\ sim.of = w /\ sim.at = "flushes" => Begun(w)
  /\ sim.of = w /\ sim.at \in {"cancelled", "writes", "closes"} =>
       IsText(Coming(w), points[w], kind[w])

\* Until it is in the file, what was recorded is kept, is under way or is
\* about to be added.
ReportInvariant ==
  /\ sim.at = "ended" => finalized = Writer
  /\ PointsFit
  /\ \A w \in Writer \ lost : TextFits(w)
  /\ FileIsReport
=============================================================================
