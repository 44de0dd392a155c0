----------------------- MODULE RequestLifeInvariant -----------------------
(***************************************************************************)
(* What else is true of the life of a request: the inductive invariant     *)
(* that makes the other properties of RequestHandling inductive.  It adds  *)
(* to HandlingInvariant how requests and dependencies refer to each other, *)
(* what may be scheduled for a message before and after it is sent, what   *)
(* watches over an open dependency, what the Retry pattern knows and what  *)
(* was counted.                                                            *)
(***************************************************************************)
EXTENDS RequestHandlingInvariant

-----------------------------------------------------------------------------
(* Requests and dependencies.                                              *)

\* A request is a user request, or belongs to a dependency of a request that
\* its requester handles.
Born(c) ==
  IF IsUser(c) THEN reqs[c].parent = 0 /\ reqs[c].dep = None
  ELSE /\ Parent(c) \in Id /\ reqs[c].dep \in Deps(Parent(c))
       /\ reqs[Parent(c)].handler = reqs[c].requester

\* A request that has arrived has a child request for each dependency.
Linked(p) ==
  reqs[p].handler # None =>
    \A n \in Deps(p) : /\ reqs[p].child[n] \in Id
                       /\ DepOf(reqs[p].child[n]) = <<p, n>>
                       /\ ~IsUser(reqs[p].child[n])

Lineage == \A r \in Id : Born(r) /\ Linked(r)

-----------------------------------------------------------------------------
(* Messages.                                                               *)

MessagesOf(events, type) == {e.m : e \in {d \in events : d.type = type}}

\* The messages that are about to be sent, that travel, and whose failure is
\* about to be reported
ToSend   == MessagesOf(Scheduled, "send")
Arriving == MessagesOf(Scheduled, "receive")
Failing  == {c.m : c \in Range(urgent)} \cup MessagesOf(flight, "cancel")

\* What anybody knows of a message that was sent
Heard == armed \cup Failing \cup Arriving \cup UNION {outgoing[i] : i \in Instance}

\* Nothing is known of a message before it is sent, and a request to be sent
\* is the current child of its dependency.
ToSendIsUnknown ==
  \A m \in ToSend : m \notin Heard /\ (m.ans \/ IsUser(m.r) \/ IsCurrent(m.r))

\* An answer is sent once, after its request is computed.
AnswerOnce(q) ==
  \A k, l \in DOMAIN q :
    /\ q[k].type = "send" /\ q[l].type = "send"
    /\ q[k].m.ans /\ q[k].m = q[l].m
    => k = l

AnswersComputed ==
  /\ AnswerOnce(due)
  /\ \A e \in flight : e.type = "send" => ~e.m.ans
  /\ \A m \in ToSend \cup Heard : m.ans => reqs[m.r].computed

\* An answer goes to the requester.
AnswersReturn ==
  \A e \in Scheduled : e.type = "receive" /\ e.m.ans => e.i = reqs[e.m.r].requester

\* User requests have no timeouts, and fail without delay.
UsersAtOnce ==
  \A m \in armed \cup MessagesOf(flight, "cancel") : ~IsUser(m.r)

Messages ==
  /\ ToSendIsUnknown
  /\ AnswersComputed
  /\ AnswersReturn
  /\ UsersAtOnce

-----------------------------------------------------------------------------
(* Open dependencies.                                                      *)

\* The open dependency n of request p, at a running instance: its requester
\* will learn what becomes of the child, or the answer to it travels, as it
\* does as long as somebody may notice its loss; and Retry knows the attempt.
Cared(p, n) ==
  LET c == reqs[p].child[n]
  IN  /\ Req(c) \in ToSend \cup armed \cup Failing \/ Ans(c) \in Arriving
      /\ Ans(c) \in armed \cup Failing => Ans(c) \in Arriving
      /\ reqs[p].handler \in RetryInstance => reqs[p].tries[n] > 0 \/ Req(c) \in ToSend

OpenIsCared ==
  \A i \in Instance : state[i] = "RUNNING" =>
    \A p \in handling[i], n \in DepName :
      <<p, n>> \in openDeps[i] => Cared(p, n)

\* The half of IncompleteIsOpen that OpenIsWaiting does not say, and that is
\* true without a Retry only
NeededIsOpen ==
  \A i \in Instance : \A p \in handling[i] : \A n \in Deps(p) :
    n \in reqs[p].done \/ <<p, n>> \in openDeps[i]

-----------------------------------------------------------------------------
(* Attempts.                                                               *)

\* The requests created for dependency n of request p
Attempts(p, n) == {r \in Id : Parent(r) = p /\ reqs[r].dep = n}

\* The attempts that the Retry of the handler has counted or will count when
\* they are sent
Remembered(p, n) ==
  reqs[p].tries[n]
    + IF \E c \in Attempts(p, n) : Req(c) \in ToSend THEN 1 ELSE 0

\* What holds of a dependency tried so often, which Retry counts as tries and
\* counts or will count as known, when the request is handled by h: once h is
\* not live any more, it has forgotten its count and may start over.
Fits(h, live, tried, tries, known) ==
  /\ known <= MaxTries
  /\ h = None => tried = 0 /\ known = 0
  /\ h \in Instance \ RetryInstance => tried <= 1 /\ tries = 0
  /\ h \in RetryInstance /\ live => tried <= MaxTries /\ (known > 0 => tried = known)
  /\ h \in RetryInstance /\ ~live =>
       tried <= 2 * MaxTries - 1 /\ (known > 0 => tried <= MaxTries - 1 + known)

Counted(p, n) ==
  Fits(reqs[p].handler, Live(reqs[p].handler), Cardinality(Attempts(p, n)),
       reqs[p].tries[n], Remembered(p, n))

AttemptsRemembered == \A p \in Id, n \in DepName : Counted(p, n)

-----------------------------------------------------------------------------
(* Counts.                                                                 *)

\* How many failures of a request the cancellations q report
Reports(q, r) == Cardinality({k \in DOMAIN q : q[k].m = Req(r)})

\* What is counted for user request r, or is about to be: nothing until it
\* fails or its answer is sent, and one thing then; a killed handler may
\* report a second failure.
Settled(r) == Reports(urgent, r) + reqs[r].succeeded + reqs[r].failed

\* Request r is on its way to its handler, or its answer is about to be sent.
Unsettled(r) == Req(r) \in ToSend \cup Arriving \/ Ans(r) \in ToSend

Handled(r) == reqs[r].handler # None /\ r \in handling[reqs[r].handler]
Killed(r)  == reqs[r].handler # None /\ state[reqs[r].handler] = "KILLED"

\* What holds of a user request of which so much is settled
Tally(unsettled, handled, killed, settled, succeeded) ==
  /\ unsettled => settled = 0
  /\ handled => settled <= (IF killed THEN 1 ELSE 0) /\ succeeded = 0
  /\ \/ settled <= 1
     \/ killed /\ succeeded = 0 /\ settled <= 2

CountedOnce(r) ==
  IF IsUser(r)
  THEN Tally(Unsettled(r), Handled(r), Killed(r), Settled(r), reqs[r].succeeded)
  ELSE reqs[r].succeeded + reqs[r].failed = 0

Counts == \A r \in Id : CountedOnce(r)

\* A request is computed when its dependencies are complete.
ComputedIsComplete ==
  /\ \A i \in Instance : \A p \in cpu[i] : DepsCompleted(p)
  /\ \A p \in finishing : DepsCompleted(p)

\* The other half of SubmittedIsComputing: a complete request is computed.
CompleteIsComputed ==
  \A i \in Instance : Live(i) =>
    \A p \in handling[i] :
      DepsCompleted(p) => \/ p \in cpu[i] \cup finishing
                          \/ /\ ~IsUser(p)
                             /\ Parent(p) \notin handling[reqs[p].requester]

-----------------------------------------------------------------------------
\* Checked with TLC and proved to be inductive in RequestLifeProofs: what the
\* event list, the dependencies, Retry and the statistics know of a request
\* never contradicts its life.
LifeInvariant ==
  /\ HandlingInvariant
  /\ Lineage
  /\ Messages
  /\ OpenIsCared
  /\ AttemptsRemembered
  /\ Counts
  /\ ComputedIsComplete
  /\ CompleteIsComputed
  /\ StatisticsMatch
-----------------------------------------------------------------------------
(* Trees of calls.                                                         *)

\* A dependency that is complete has been computed by its child, which is not
\* replaced any more, as Retry has forgotten the dependency.
DoneIsComputed ==
  \A p \in Id : \A n \in reqs[p].done :
    /\ n \in Deps(p) /\ reqs[p].child[n] \in Id
    /\ DepOf(reqs[p].child[n]) = <<p, n>>
    /\ reqs[reqs[p].child[n]].computed
    /\ reqs[p].tries[n] = 0

\* What was computed was complete, and a user gets the answer.
ComputedIsAnswered ==
  \A r \in Id : reqs[r].computed =>
    /\ DepsCompleted(r)
    /\ IsUser(r) => Ans(r) \in ToSend \/ reqs[r].succeeded > 0

\* Checked with TLC and proved to be inductive: what is done was computed and is
\* not tried again (Retry.requestIndex), and what was computed is answered.
TreeInvariant == LifeInvariant /\ DoneIsComputed /\ ComputedIsAnswered

\* The tree in the Request objects s
CallsIn(s) ==
  [r \in 1..Len(s) |-> [op |-> s[r].op, parent |-> s[r].parent, dep |-> s[r].dep]]
CompletedIn(s) == {d \in (1..Len(s)) \X DepName : d[2] \in s[d[1]].done}
ComputedIn(s)  == {r \in 1..Len(s) : s[r].computed}
SucceededIn(s) == {r \in 1..Len(s) : s[r].succeeded > 0}
FailedIn(s)    == {r \in 1..Len(s) : s[r].failed > 0}

\* Whatever is lost, late, killed or tried again, user requests are trees of
\* calls: nothing is computed before all it depends on, no dependency is called
\* again when it is complete, and a user request succeeds only if it was computed
\* and fails only if it never is.
Tree == INSTANCE CallTree WITH
          calls     <- CallsIn(reqs),
          completed <- CompletedIn(reqs),
          computed  <- ComputedIn(reqs),
          succeeded <- SucceededIn(reqs),
          failed    <- FailedIn(reqs)
IsCallTree == Tree!Spec
=============================================================================
