----------------------- MODULE BreakerHandlingProofs -----------------------
(***************************************************************************)
(* BreakerInvariant is an invariant of BreakerHandling, and with it the    *)
(* properties of the circuit breakers and those of the requests they       *)
(* watch.                                                                  *)
(*                                                                         *)
(* A step is seen from two sides.  Serves says what it does to the         *)
(* requests and instances, as far as a breaker can tell, and is proved for *)
(* each event from what RequestLifeProofs says of it.  Follows says how    *)
(* the connections follow, and is proved for each way to change them.      *)
(* Together they keep what connections and requests know of each other.    *)
(***************************************************************************)
EXTENDS BreakerHandlingInvariant, RequestLifeProofs

-----------------------------------------------------------------------------
(* What is known of a request to be sent and of an open dependency.        *)

\* No instance owns a Retry, so a request is the child of its dependency.
LEMMA ChildFacts ==
  ASSUME LifeInvariant, NEW r \in Id, ~IsUser(r)
  PROVE  /\ Parent(r) \in Id /\ reqs[r].dep \in Deps(Parent(r)) /\ reqs[r].dep \in DepName
         /\ reqs[r].requester \in Instance
         /\ reqs[Parent(r)].handler = reqs[r].requester /\ reqs[Parent(r)].handler # None
         /\ reqs[Parent(r)].child[reqs[r].dep] = r /\ IsCurrent(r)
         /\ DepOf(r) = <<Parent(r), reqs[r].dep>> /\ DepOf(r) \in Id \X DepName
  <1>1. TypeOK /\ Lineage /\ RetryInstance = {}
    BY LifeFacts, BreakerAssumption
  <1>2. IsCurrent(r)
    BY <1>1, OnlyChild
  <1>3. /\ Parent(r) \in Id /\ reqs[r].dep \in Deps(Parent(r))
        /\ reqs[r].dep \in DepName /\ Parent(r) = reqs[r].parent
        /\ reqs[r].requester \in Instance
        /\ reqs[Parent(r)].handler = reqs[r].requester
    BY <1>1, InternalFacts
  <1>4. reqs[r].requester # None
    BY <1>3, ArchitectureAssumption
  <1> QED
    BY <1>2, <1>3, <1>4 DEF IsCurrent, DepOf

\* An open dependency belongs to a request that is handled, and to a child.
LEMMA OpenFacts ==
  ASSUME LifeInvariant, NEW i \in Instance, NEW p, NEW n, <<p, n>> \in openDeps[i]
  PROVE  /\ p \in Id /\ n \in DepName /\ p \in handling[i] /\ n \in Deps(p)
         /\ n \notin reqs[p].done /\ reqs[p].handler = i /\ i # None
         /\ reqs[p].child[n] \in Id /\ ~IsUser(reqs[p].child[n])
         /\ DepOf(reqs[p].child[n]) = <<p, n>>
         /\ Parent(reqs[p].child[n]) = p /\ reqs[reqs[p].child[n]].dep = n
         /\ reqs[reqs[p].child[n]].requester = i
  <1>1. TypeOK /\ Lineage /\ Instances /\ \A r \in Id : Born(r) /\ Linked(r)
    BY LifeFacts
  <1>2. p \in Id /\ n \in DepName
    BY <1>1 DEF TypeOK
  <1>3. /\ p \in handling[i] /\ n \in Deps(p) /\ n \notin reqs[p].done
        /\ reqs[p].handler = i
    BY <1>1, <1>2 DEF Instances, OpenIsWaiting, HandlerKnown
  <1>4. i # None
    BY ArchitectureAssumption
  <1>5. /\ reqs[p].child[n] \in Id /\ ~IsUser(reqs[p].child[n])
        /\ DepOf(reqs[p].child[n]) = <<p, n>>
    BY <1>1, <1>2, <1>3, <1>4 DEF Linked
  <1>6. Parent(reqs[p].child[n]) = p /\ reqs[reqs[p].child[n]].dep = n
    BY <1>5 DEF DepOf, Parent
  <1>7. reqs[reqs[p].child[n]].requester = i
    BY <1>1, <1>3, <1>5, <1>6 DEF Born
  <1> QED
    BY <1>2, <1>3, <1>4, <1>5, <1>6, <1>7

-----------------------------------------------------------------------------
(* The two sides of a step.                                                *)

\* What SentIsNeeded says of a request
Needed(r) ==
  /\ reqs[r].dep \notin reqs[Parent(r)].done
  /\ \/ Parent(r) \in handling[reqs[r].requester]
     \/ Deps(Parent(r)) # {reqs[r].dep}

\* What a step may do to requests and instances: it may send the requests
\* of the set sent, and close the dependencies of closed whose parents are
\* still handled; new requests are needed, and so are those still to be sent.
Serves(sent, closed) ==
  /\ Kin(reqs')
  /\ \A x \in Id : reqs[x].handler # None =>
       reqs'[x].handler = reqs[x].handler /\ reqs'[x].child = reqs[x].child
  /\ \A x \in Id : Req(x) \in ToSend' => Req(x) \in ToSend
  /\ \A c \in Id' \ Id :
       IsUser(c)' \/ (Needed(c)' /\ reqs'[c].op = TargetOf[reqs'[c].dep])
  /\ \A i \in Instance : state'[i] = "RUNNING" => state[i] = "RUNNING"
  /\ \A i \in Instance : \A p \in handling'[i] :
       p \in handling[i] \/ (p \in Id /\ reqs[p].handler = None)
  /\ \A i \in Instance : \A p, n : <<p, n>> \in openDeps'[i] =>
       <<p, n>> \in openDeps[i] \/ Req(reqs'[p].child[n]) \in ToSend'
  /\ \A r \in Id : AboutToSend(r) /\ Needed(r) /\ Req(r) \in ToSend' => Needed(r)'
  /\ \A r \in Id : Req(r) \in ToSend => Req(r) \in ToSend' \/ r \in sent
  /\ \A i \in Instance : \A d \in openDeps[i] :
       d \in openDeps'[i] \/ d[1] \notin handling'[i] \/ <<i, d>> \in closed

\* The called service of a connection
Owner(d) == OwnerOf[TargetOf[d[2]]]

\* The request r is sent, and nothing else happens to its instance.
Connected(r) ==
  /\ r \in Id /\ AboutToSend(r) /\ Req(r) \notin ToSend'
  /\ UNCHANGED <<handling, openDeps>>

\* How the connections follow such a step: only the request that is sent
\* opens one, only what is not open any more is closed, and whatever is sent
\* or closed has been noted.
Follows(sent, closed) ==
  /\ ConnectionTypeOK' /\ OneByOne'
  /\ \A i \in BreakerInstance : \A d \in active'[i] :
       \/ d \in active[i]
       \/ \E r : Connected(r) /\ d = DepOf(r) /\ i = reqs[r].requester
  /\ \A i \in BreakerInstance : state'[i] = "RUNNING" =>
       /\ DOMAIN breakers[i] \subseteq DOMAIN breakers'[i]
       /\ \A d \in active[i] :
            d \in active'[i] \/ d \notin openDeps'[i] \/ d[1] \notin handling'[i]
  /\ \A r \in sent : AboutToSend(r) /\ reqs[r].requester \in BreakerInstance =>
       \/ DepOf(r) \notin openDeps'[reqs[r].requester]
       \/ /\ DepOf(r) \in active'[reqs[r].requester]
          /\ Target(r) \in DOMAIN breakers'[reqs[r].requester]
  /\ \A i \in BreakerInstance : \A d \in active'[i] :
       <<i, d>> \in closed => Owner(d) = ServiceOf[i]

\* A request keeps its target.
LEMMA TargetsKept ==
  ASSUME LifeInvariant, LifeInvariant', CallsTarget, NEW sent, NEW closed,
         Serves(sent, closed)
  PROVE  CallsTarget'
  <1>1. TypeOK /\ TypeOK' /\ Kin(reqs')
    BY LifeFacts DEF Serves, LifeInvariant, HandlingInvariant
  <1>2. /\ Id \subseteq Id' /\ \A x \in Id : IsUser(x)' = IsUser(x)
    BY <1>1, KinId
  <1>3. ASSUME NEW r \in Id', ~IsUser(r)' PROVE reqs'[r].op = TargetOf[reqs'[r].dep]
    <2>1. CASE r \in Id
      BY <2>1, <1>1, <1>2, <1>3 DEF CallsTarget, Kin
    <2>2. CASE r \notin Id
      BY <2>2, <1>3 DEF Serves
    <2> QED
      BY <2>1, <2>2
  <1> QED
    BY <1>3 DEF CallsTarget

\* A connection is one of a request that was sent.
LEMMA ConnectionsSentKept ==
  ASSUME LifeInvariant, LifeInvariant', ConnectionsSent, NEW sent, NEW closed,
         Serves(sent, closed), Follows(sent, closed)
  PROVE  ConnectionsSent'
  <1>1. /\ TypeOK /\ TypeOK' /\ Kin(reqs') /\ \A r \in Id : Born(r) /\ Linked(r)
    BY LifeFacts DEF Serves, LifeInvariant, HandlingInvariant
  <1>2. /\ Id \subseteq Id' /\ \A x \in Id : Deps(x)' = Deps(x)
    BY <1>1, KinId
  <1>3. ASSUME NEW i \in BreakerInstance, NEW d \in active'[i]
        PROVE  /\ d[1] \in Id' /\ d[2] \in Deps(d[1])'
               /\ reqs'[d[1]].handler # None
               /\ Req(reqs'[d[1]].child[d[2]]) \notin ToSend'
    <2>1. /\ d[1] \in Id /\ d[2] \in Deps(d[1]) /\ reqs[d[1]].handler # None
          /\ reqs[d[1]].child[d[2]] \in Id
          /\ Req(reqs[d[1]].child[d[2]]) \notin ToSend'
      <3>1. CASE d \in active[i]
        <4>1. /\ d[1] \in Id /\ d[2] \in Deps(d[1]) /\ reqs[d[1]].handler # None
              /\ Req(reqs[d[1]].child[d[2]]) \notin ToSend
          BY <3>1 DEF ConnectionsSent
        <4>2. reqs[d[1]].child[d[2]] \in Id
          BY <4>1, <1>1 DEF Linked
        <4> QED
          BY <4>1, <4>2 DEF Serves
      <3>2. CASE d \notin active[i]
        <4>1. PICK r : Connected(r) /\ d = DepOf(r) /\ i = reqs[r].requester
          BY <3>2 DEF Follows
        <4>2. r \in Id /\ ~IsUser(r) /\ Req(r) \notin ToSend'
          BY <4>1 DEF Connected, AboutToSend
        <4>3. d[1] = Parent(r) /\ d[2] = reqs[r].dep
          BY <4>1 DEF DepOf, Parent
        <4> QED
          BY <4>2, <4>3, ChildFacts
      <3> QED
        BY <3>1, <3>2
    <2>2. /\ reqs'[d[1]].handler = reqs[d[1]].handler
          /\ reqs'[d[1]].child = reqs[d[1]].child
      BY <2>1 DEF Serves
    <2> QED
      BY <2>1, <2>2, <1>2
  <1> QED
    BY <1>3 DEF ConnectionsSent

\* An open dependency waits for its request to be sent, or has a connection.
LEMMA OpenKeptConnected ==
  ASSUME LifeInvariant, CallsTarget, OpenIsConnected, NEW sent, NEW closed,
         Serves(sent, closed), Follows(sent, closed)
  PROVE  OpenIsConnected'
  <1>1. BreakerInstance \subseteq Instance
    BY BreakerAssumption
  <1>2. ASSUME NEW i \in BreakerInstance, state'[i] = "RUNNING",
               NEW p \in handling'[i], NEW n \in DepName, <<p, n>> \in openDeps'[i],
               Req(reqs'[p].child[n]) \notin ToSend'
        PROVE  <<p, n>> \in active'[i] /\ OwnerOf[TargetOf[n]] \in DOMAIN breakers'[i]
    <2>1. i \in Instance /\ state[i] = "RUNNING" /\ <<p, n>> \in openDeps[i]
      BY <1>1, <1>2 DEF Serves
    <2> DEFINE c == reqs[p].child[n]
    <2>2. /\ p \in Id /\ p \in handling[i] /\ reqs[p].handler # None
          /\ c \in Id /\ ~IsUser(c) /\ DepOf(c) = <<p, n>> /\ reqs[c].dep = n
          /\ reqs[c].requester = i
      BY <2>1, OpenFacts
    <2>3. reqs'[p].child[n] = c
      BY <2>2 DEF Serves
    <2> HIDE DEF c
    <2>4. CASE Req(c) \in ToSend
      <3>1. c \in sent
        BY <2>2, <2>3, <2>4, <1>2 DEF Serves
      <3>2. AboutToSend(c)
        BY <2>2, <2>4 DEF AboutToSend
      <3>3. <<p, n>> \in active'[i] /\ Target(c) \in DOMAIN breakers'[i]
        BY <3>1, <3>2, <2>2, <1>2 DEF Follows
      <3>4. Target(c) = OwnerOf[TargetOf[n]]
        BY <2>2 DEF CallsTarget, Target
      <3> QED
        BY <3>3, <3>4
    <2>5. CASE Req(c) \notin ToSend
      <3>1. <<p, n>> \in active[i] /\ OwnerOf[TargetOf[n]] \in DOMAIN breakers[i]
        BY <2>1, <2>2, <2>5, <1>2 DEF OpenIsConnected, c
      <3>2. <<p, n>>[1] = p
        OBVIOUS
      <3> QED
        BY <3>1, <3>2, <1>2 DEF Follows
    <2> QED
      BY <2>4, <2>5
  <1> QED
    BY <1>2 DEF OpenIsConnected

\* A connection of a request that is still handled waits for an answer.
LEMMA ConnectedKeptOpen ==
  ASSUME LifeInvariant, NeededIsOpen, ConnectionsSent, SentIsNeeded, ConnectedIsOpen,
         NEW sent, NEW closed, Serves(sent, closed), Follows(sent, closed)
  PROVE  ConnectedIsOpen'
  <1>1. BreakerInstance \subseteq Instance
    BY BreakerAssumption
  <1>2. ASSUME NEW i \in BreakerInstance, state'[i] = "RUNNING",
               NEW d \in active'[i], Owner(d) # ServiceOf[i], d[1] \in handling'[i]
        PROVE  d \in openDeps'[i]
    <2>1. i \in Instance /\ state[i] = "RUNNING"
      BY <1>1, <1>2 DEF Serves
    <2>2. CASE d \in active[i]
      <3>1. d[1] \in Id /\ reqs[d[1]].handler # None
        BY <2>2 DEF ConnectionsSent
      <3>2. d[1] \in handling[i]
        BY <3>1, <2>1, <1>2 DEF Serves
      <3>3. \E s \in Service : s = Owner(d)
        <4>1. d[2] \in DepName
          <5>1. TypeOK /\ d[2] \in Deps(d[1])
            BY <2>2, LifeFacts DEF ConnectionsSent
          <5> QED
            BY <5>1, <3>1, DepsAreNames
        <4> QED
          BY <4>1, ArchitectureAssumption DEF Owner
      <3>4. d \in openDeps[i]
        BY <3>2, <3>3, <2>1, <2>2, <1>2 DEF ConnectedIsOpen, ActiveTo, Owner
      <3>5. <<i, d>> \notin closed
        BY <1>2 DEF Follows
      <3> QED
        BY <3>4, <3>5, <2>1, <1>2 DEF Serves
    <2>3. CASE d \notin active[i]
      <3>1. PICK r : Connected(r) /\ d = DepOf(r) /\ i = reqs[r].requester
        BY <2>3 DEF Follows
      <3>2. /\ r \in Id /\ ~IsUser(r) /\ AboutToSend(r)
            /\ handling' = handling /\ openDeps' = openDeps
        BY <3>1 DEF Connected, AboutToSend
      <3>3. /\ d = <<Parent(r), reqs[r].dep>> /\ reqs[r].dep \in Deps(Parent(r))
            /\ d[1] = Parent(r)
        BY <3>1, <3>2, ChildFacts
      <3>4. reqs[r].dep \notin reqs[Parent(r)].done
        BY <3>2 DEF SentIsNeeded
      <3> QED
        BY <3>2, <3>3, <3>4, <2>1, <1>2 DEF NeededIsOpen
    <2> QED
      BY <2>2, <2>3
  <1> QED
    BY <1>2 DEF ConnectedIsOpen, ActiveTo, Owner

\* A request to be sent is not answered yet, and still needed.
LEMMA SentKeptNeeded ==
  ASSUME LifeInvariant, LifeInvariant', SentIsNeeded, NEW sent, NEW closed,
         Serves(sent, closed)
  PROVE  SentIsNeeded'
  <1>1. TypeOK /\ TypeOK' /\ Kin(reqs')
    BY LifeFacts DEF Serves, LifeInvariant, HandlingInvariant
  <1>2. Id \subseteq Id' /\ \A x \in Id : IsUser(x)' = IsUser(x)
    BY <1>1, KinId
  <1>3. ASSUME NEW r \in Id', Req(r) \in ToSend', ~IsUser(r)' PROVE Needed(r)'
    <2>1. CASE r \in Id
      <3>1. Req(r) \in ToSend /\ ~IsUser(r)
        BY <2>1, <1>2, <1>3 DEF Serves
      <3>2. AboutToSend(r)
        BY <3>1 DEF AboutToSend
      <3>3. Needed(r)
        BY <3>2, <2>1 DEF SentIsNeeded, Needed
      <3> QED
        BY <3>2, <3>3, <2>1, <1>3 DEF Serves
    <2>2. CASE r \notin Id
      BY <2>2, <1>3 DEF Serves
    <2> QED
      BY <2>1, <2>2
  <1>4.
        \A r \in Id' : AboutToSend(r)' <=> Req(r) \in ToSend' /\ ~IsUser(r)'
    BY DEF AboutToSend
  <1> QED
    BY <1>3, <1>4 DEF SentIsNeeded, Needed

\* What connections and requests know of each other, without the limit
Agree ==
  /\ ConnectionTypeOK /\ CallsTarget /\ ConnectionsSent /\ OpenIsConnected
  /\ ConnectedIsOpen /\ SentIsNeeded /\ OneByOne

LEMMA AgreeKept ==
  ASSUME LifeInvariant, LifeInvariant', NeededIsOpen, Agree, NEW sent, NEW closed,
         Serves(sent, closed), Follows(sent, closed)
  PROVE  Agree'
  <1>1. ConnectionTypeOK' /\ OneByOne'
    BY DEF Follows
  <1>2. CallsTarget' /\ SentIsNeeded'
    BY TargetsKept, SentKeptNeeded DEF Agree
  <1>3. ConnectionsSent'
    BY ConnectionsSentKept DEF Agree
  <1>4. OpenIsConnected'
    BY OpenKeptConnected DEF Agree
  <1>5. ConnectedIsOpen'
    BY ConnectedKeptOpen DEF Agree
  <1> QED
    BY <1>1, <1>2, <1>3, <1>4, <1>5 DEF Agree

-----------------------------------------------------------------------------
(* The breaker's side: each way to change the connections follows.         *)

\* No breaker is lost.
Widens ==
  /\ DOMAIN breakers' = BreakerInstance
  /\ \A i \in BreakerInstance : DOMAIN breakers[i] \subseteq DOMAIN breakers'[i]

LEMMA SetWidens ==
  ASSUME ConnectionTypeOK, NEW i \in BreakerInstance, NEW s, NEW b, SetBreaker(i, s, b)
  PROVE  Widens /\ s \in DOMAIN breakers'[i]
  <1>1. DOMAIN breakers = BreakerInstance
    BY DEF ConnectionTypeOK
  <1>2. /\ DOMAIN breakers' = BreakerInstance
        /\ \A j \in BreakerInstance : j # i => breakers'[j] = breakers[j]
        /\ DOMAIN breakers'[i] = DOMAIN breakers[i] \cup {s}
    BY <1>1 DEF SetBreaker
  <1> QED
    BY <1>2 DEF Widens

\* The connections to a service are finitely many.
LEMMA FiniteConnections ==
  ASSUME LifeInvariant, ConnectionTypeOK, NEW i \in BreakerInstance, NEW s
  PROVE  IsFiniteSet(ActiveTo(i, s)) /\ Cardinality(ActiveTo(i, s)) \in Nat
  <1>1. IsFiniteSet(Id \X DepName)
    <2>1. IsFiniteSet(Id)
      BY LifeFacts, ReqsType, FS_Interval DEF Id
    <2> QED
      BY <2>1, FS_Product, ArchitectureAssumption
  <1>2. ActiveTo(i, s) \subseteq Id \X DepName
    BY DEF ActiveTo, ConnectionTypeOK
  <1> QED
    BY <1>1, <1>2, FS_Subset, FS_CardinalityType

LEMMA ConnectionTypeGrows ==
  ASSUME LifeInvariant, LifeInvariant', ConnectionTypeOK, Kin(reqs')
  PROVE  active \in [BreakerInstance -> SUBSET (Id' \X DepName)]
  <1>1. Id \subseteq Id'
    BY KinId, LifeFacts DEF LifeInvariant, HandlingInvariant
  <1> QED
    BY <1>1 DEF ConnectionTypeOK

\* The connections stay as they are: whatever is sent or closed does not
\* concern a breaker.
Steady ==
  UNCHANGED <<active, connections>> /\ Widens

LEMMA SteadyFollows ==
  ASSUME LifeInvariant, LifeInvariant', Agree, NEW sent, NEW closed,
         Serves(sent, closed), Steady,
         \A r \in sent : AboutToSend(r) /\ reqs[r].requester \in BreakerInstance =>
           DepOf(r) \notin openDeps'[reqs[r].requester],
         \A i \in BreakerInstance : \A d \in active[i] :
           <<i, d>> \in closed => Owner(d) = ServiceOf[i]
  PROVE  Follows(sent, closed)
  <1>1. ConnectionTypeOK'
    BY ConnectionTypeGrows DEF Serves, Agree, Steady, Widens, ConnectionTypeOK
  <1>2. OneByOne'
    BY DEF OneByOne, ActiveTo, Agree, Steady
  <1>3. active' = active /\ Widens
    BY DEF Steady
  <1> QED
    BY <1>1, <1>2, <1>3 DEF Follows, Widens

\* A request is sent, and its connection is counted.
LEMMA ConnectFollows ==
  ASSUME LifeInvariant, LifeInvariant', Agree, NEW r \in Id,
         Serves({r}, {}), Connected(r), reqs[r].requester \in BreakerInstance,
         Connect(r), Widens, Target(r) \in DOMAIN breakers'[reqs[r].requester]
  PROVE  Follows({r}, {})
  <1> DEFINE i == reqs[r].requester
             s == Target(r)
             d == DepOf(r)
  <1>1. /\ TypeOK /\ Kin(reqs') /\ ConnectionTypeOK /\ OneByOne /\ ConnectionsSent
        /\ CallsTarget
    BY LifeFacts DEF Serves, Agree
  <1>2. ~IsUser(r) /\ Req(r) \in ToSend
    BY DEF Connected, AboutToSend
  <1>3. /\ d \in Id \X DepName /\ d = <<Parent(r), reqs[r].dep>>
        /\ reqs[Parent(r)].child[reqs[r].dep] = r
    BY <1>2, ChildFacts
  <1>4. s \in Service /\ s = Owner(d)
    <2>1. reqs[r].op = TargetOf[reqs[r].dep] /\ reqs[r].dep \in DepName
      BY <1>1, <1>2, ChildFacts DEF CallsTarget
    <2> QED
      BY <2>1, <1>3, ArchitectureAssumption DEF Owner, Target
  <1>5. d \notin active[i]
    BY <1>2, <1>3 DEF ConnectionsSent, Agree
  <1> HIDE DEF s, d
  <1>6. /\ active' = [active EXCEPT ![i] = @ \cup {d}]
        /\ connections' = [connections EXCEPT ![i][s] = @ + 1]
    BY DEF Connect, s, d
  <1> HIDE DEF i
  <1>7. i \in BreakerInstance
    BY DEF i
  <1>8. ConnectionTypeOK'
    <2>1. active \in [BreakerInstance -> SUBSET (Id' \X DepName)]
      BY <1>1, ConnectionTypeGrows
    <2>2. d \in Id' \X DepName
      <3>1. Id \subseteq Id'
        BY <1>1, KinId DEF LifeInvariant, HandlingInvariant
      <3> QED
        BY <3>1, <1>3
    <2>3. active' \in [BreakerInstance -> SUBSET (Id' \X DepName)]
      BY <2>1, <2>2, <1>6, <1>7
    <2>4. connections' \in [BreakerInstance -> [Service -> Int]]
      BY <1>1, <1>4, <1>6, <1>7 DEF ConnectionTypeOK
    <2> QED
      BY <2>3, <2>4 DEF ConnectionTypeOK, Widens
  <1>9. OneByOne'
    <2> SUFFICES ASSUME NEW j \in BreakerInstance, NEW t \in Service
                 PROVE  connections'[j][t] = Cardinality(ActiveTo(j, t)')
      BY DEF OneByOne
    <2>1. connections[j][t] = Cardinality(ActiveTo(j, t)) /\ connections[j][t] \in Int
      BY <1>1 DEF OneByOne, ConnectionTypeOK
    <2>2. connections'[j][t] = IF j = i /\ t = s THEN connections[j][t] + 1
                                                ELSE connections[j][t]
      BY <1>1, <1>4, <1>6, <1>7 DEF ConnectionTypeOK
    <2>3. active'[j] = IF j = i THEN active[i] \cup {d} ELSE active[j]
      BY <1>1, <1>6, <1>7 DEF ConnectionTypeOK
    <2>4. CASE j = i /\ t = s
      <3>1. ActiveTo(j, t)' = ActiveTo(j, t) \cup {d}
        BY <2>3, <2>4, <1>4 DEF ActiveTo, Owner
      <3>2. d \notin ActiveTo(j, t)
        BY <2>4, <1>5 DEF ActiveTo, i
      <3>3. Cardinality(ActiveTo(j, t) \cup {d}) = Cardinality(ActiveTo(j, t)) + 1
        BY <3>2, <1>1, FiniteConnections, OneMoreHandled
      <3> QED
        BY <3>1, <3>3, <2>1, <2>2, <2>4
    <2>5. CASE ~(j = i /\ t = s)
      <3>1. ActiveTo(j, t)' = ActiveTo(j, t)
        BY <2>3, <2>5, <1>4 DEF ActiveTo, Owner
      <3> QED
        BY <3>1, <2>1, <2>2, <2>5
    <2> QED
      BY <2>4, <2>5
  <1>10. \A j \in BreakerInstance : /\ active[j] \subseteq active'[j]
                                    /\ \A x \in active'[j] : x \in active[j] \/ (j = i /\ x = d)
    BY <1>1, <1>6, <1>7 DEF ConnectionTypeOK
  <1>11. d \in active'[i]
    BY <1>1, <1>6, <1>7 DEF ConnectionTypeOK
  <1> QED
    BY <1>8, <1>9, <1>10, <1>11 DEF Follows, Widens, i, d

\* A connection is closed that nothing waits for any more.
Disconnects(i, d) ==
  /\ i \in BreakerInstance /\ d \in active[i]
  /\ active' = [active EXCEPT ![i] = @ \ {d}]
  /\ connections' = [connections EXCEPT ![i][Owner(d)] = @ - 1]
  /\ d \notin openDeps'[i] \/ d[1] \notin handling'[i]
  /\ Widens

LEMMA DisconnectFollows ==
  ASSUME LifeInvariant, LifeInvariant', Agree, NEW i, NEW d, NEW closed,
         Serves({}, closed), closed \subseteq {<<i, d>>}, Disconnects(i, d)
  PROVE  Follows({}, closed)
  <1> DEFINE s == Owner(d)
  <1>1. /\ TypeOK /\ Kin(reqs') /\ ConnectionTypeOK /\ OneByOne
        /\ i \in BreakerInstance /\ d \in active[i]
    BY LifeFacts DEF Serves, Agree, Disconnects
  <1>2. s \in Service
    <2>1. d \in Id \X DepName
      BY <1>1 DEF ConnectionTypeOK
    <2> QED
      BY <2>1, ArchitectureAssumption DEF Owner
  <1>3. /\ active' = [active EXCEPT ![i] = @ \ {d}]
        /\ connections' = [connections EXCEPT ![i][s] = @ - 1]
    BY DEF Disconnects
  <1> HIDE DEF s
  <1>4. ConnectionTypeOK'
    <2>1. active \in [BreakerInstance -> SUBSET (Id' \X DepName)]
      BY <1>1, ConnectionTypeGrows
    <2>2. active' \in [BreakerInstance -> SUBSET (Id' \X DepName)]
      BY <2>1, <1>1, <1>3
    <2>3. connections' \in [BreakerInstance -> [Service -> Int]]
      BY <1>1, <1>2, <1>3 DEF ConnectionTypeOK
    <2> QED
      BY <2>2, <2>3 DEF ConnectionTypeOK, Widens, Disconnects
  <1>5. OneByOne'
    <2> SUFFICES ASSUME NEW j \in BreakerInstance, NEW t \in Service
                 PROVE  connections'[j][t] = Cardinality(ActiveTo(j, t)')
      BY DEF OneByOne
    <2>1. connections[j][t] = Cardinality(ActiveTo(j, t)) /\ connections[j][t] \in Int
      BY <1>1 DEF OneByOne, ConnectionTypeOK
    <2>2. connections'[j][t] = IF j = i /\ t = s THEN connections[j][t] - 1
                                                ELSE connections[j][t]
      BY <1>1, <1>2, <1>3 DEF ConnectionTypeOK
    <2>3. active'[j] = IF j = i THEN active[i] \ {d} ELSE active[j]
      BY <1>1, <1>3 DEF ConnectionTypeOK
    <2>4. CASE j = i /\ t = s
      <3>1. ActiveTo(j, t)' = ActiveTo(j, t) \ {d}
        BY <2>3, <2>4 DEF ActiveTo
      <3>2. d \in ActiveTo(j, t)
        BY <2>4, <1>1 DEF ActiveTo, s, Owner
      <3>3. Cardinality(ActiveTo(j, t) \ {d}) = Cardinality(ActiveTo(j, t)) - 1
        BY <3>2, <1>1, FiniteConnections, OneLess
      <3> QED
        BY <3>1, <3>3, <2>1, <2>2, <2>4
    <2>5. CASE ~(j = i /\ t = s)
      <3>1. ActiveTo(j, t)' = ActiveTo(j, t)
        BY <2>3, <2>5 DEF ActiveTo, s, Owner
      <3> QED
        BY <3>1, <2>1, <2>2, <2>5
    <2> QED
      BY <2>4, <2>5
  <1>6. \A j \in BreakerInstance :
          /\ active'[j] \subseteq active[j]
          /\ \A x \in active[j] : x \in active'[j] \/ (j = i /\ x = d)
    BY <1>1, <1>3 DEF ConnectionTypeOK
  <1>7. d \notin active'[i]
    BY <1>1, <1>3 DEF ConnectionTypeOK
  <1>8. d \notin openDeps'[i] \/ d[1] \notin handling'[i]
    BY DEF Disconnects
  <1>9. \A j \in BreakerInstance : \A x \in active'[j] : <<j, x>> \notin closed
    BY <1>6, <1>7
  <1> QED
    BY <1>4, <1>5, <1>6, <1>8, <1>9 DEF Follows, Widens, Disconnects

\* The breakers of an instance that stops are cleared.
LEMMA ClearFollows ==
  ASSUME LifeInvariant, LifeInvariant', Agree, NEW i, BreakersCleared(i),
         state'[i] # "RUNNING", Serves({}, {})
  PROVE  Follows({}, {})
  <1>1. /\ ConnectionTypeOK /\ OneByOne /\ Kin(reqs')
    BY DEF Serves, Agree
  <1>2. CASE i \notin BreakerInstance
    <2>1. Steady
      BY <1>1, <1>2 DEF BreakersCleared, breakerVars, Steady, Widens, ConnectionTypeOK
    <2> QED
      BY <2>1, SteadyFollows
  <1>3. CASE i \in BreakerInstance
    <2>1. /\ active' = [active EXCEPT ![i] = {}]
          /\ connections' = [connections EXCEPT ![i] = [s \in Service |-> 0]]
          /\ breakers' = [breakers EXCEPT ![i] = [s \in {} |-> NewBreaker]]
      BY <1>3 DEF BreakersCleared
    <2>2. ConnectionTypeOK'
      <3>1. active \in [BreakerInstance -> SUBSET (Id' \X DepName)]
        BY <1>1, ConnectionTypeGrows
      <3>2. active' \in [BreakerInstance -> SUBSET (Id' \X DepName)]
        BY <3>1, <2>1
      <3>3. connections' \in [BreakerInstance -> [Service -> Int]]
        <4>1. [s \in Service |-> 0] \in [Service -> Int]
          OBVIOUS
        <4> DEFINE none == [s \in Service |-> 0]
        <4> HIDE DEF none
        <4>2. none \in [Service -> Int] /\ connections' = [connections EXCEPT ![i] = none]
          BY <4>1, <2>1 DEF none
        <4> QED
          BY <4>2, <1>1, <1>3 DEF ConnectionTypeOK
      <3>4. DOMAIN breakers' = BreakerInstance
        BY <1>1, <2>1 DEF ConnectionTypeOK
      <3> QED
        BY <3>2, <3>3, <3>4 DEF ConnectionTypeOK
    <2>3. /\ \A j \in BreakerInstance \ {i} : /\ active'[j] = active[j]
                                              /\ connections'[j] = connections[j]
                                              /\ breakers'[j] = breakers[j]
          /\ active'[i] = {} /\ connections'[i] = [s \in Service |-> 0]
      BY <1>1, <1>3, <2>1 DEF ConnectionTypeOK
    <2>4. OneByOne'
      <3> SUFFICES ASSUME NEW j \in BreakerInstance, NEW t \in Service
                   PROVE  connections'[j][t] = Cardinality(ActiveTo(j, t)')
        BY DEF OneByOne
      <3>1. CASE j = i
        <4>1. connections'[j][t] = 0 /\ ActiveTo(j, t)' = {}
          BY <3>1, <2>3 DEF ActiveTo
        <4> QED
          BY <4>1, FS_EmptySet
      <3>2. CASE j # i
        BY <3>2, <2>3, <1>1 DEF OneByOne, ActiveTo
      <3> QED
        BY <3>1, <3>2
    <2> QED
      BY <2>2, <2>3, <2>4 DEF Follows
  <1> QED
    BY <1>2, <1>3

-----------------------------------------------------------------------------
(* The requests' side: what each event does to requests and instances.     *)

\* What keeps a request needed
LEMMA NeededKept ==
  ASSUME LifeInvariant, Kin(reqs'), NEW r \in Id, AboutToSend(r), Needed(r),
         reqs[r].dep \notin reqs'[Parent(r)].done,
         \/ Parent(r) \in handling[reqs[r].requester] =>
              Parent(r) \in handling'[reqs[r].requester]
         \/ Deps(Parent(r)) # {reqs[r].dep}
  PROVE  Needed(r)'
  <1>1. ~IsUser(r) /\ Parent(r) \in Id
    BY ChildFacts DEF AboutToSend
  <1>2. /\ reqs'[r].dep = reqs[r].dep /\ reqs'[r].requester = reqs[r].requester
        /\ Parent(r)' = Parent(r) /\ reqs'[Parent(r)].op = reqs[Parent(r)].op
    BY <1>1 DEF Kin, Parent
  <1> QED
    BY <1>2 DEF Needed, Deps

\* Steps that create no request and give no instance anything to do
LEMMA NothingNewServes ==
  ASSUME LifeInvariant, Kin(reqs'), Len(reqs') = Len(reqs), SameLinks(reqs'),
         \A x \in Id : reqs'[x].handler = reqs[x].handler,
         \A x \in Id : Req(x) \in ToSend' => Req(x) \in ToSend,
         \A i \in Instance : state'[i] = "RUNNING" => state[i] = "RUNNING",
         \A i \in Instance : handling'[i] \subseteq handling[i],
         \A i \in Instance : openDeps'[i] \subseteq openDeps[i],
         \A r \in Id : AboutToSend(r) /\ Needed(r) /\ Req(r) \in ToSend' => Needed(r)',
         NEW sent, NEW closed,
         \A r \in Id : Req(r) \in ToSend => Req(r) \in ToSend' \/ r \in sent,
         \A i \in Instance : \A d \in openDeps[i] :
            d \in openDeps'[i] \/ d[1] \notin handling'[i] \/ <<i, d>> \in closed
  PROVE  Serves(sent, closed)
  <1>1. Id' = Id
    BY DEF Id
  <1>2. \A x \in Id : reqs'[x].child = reqs[x].child
    BY DEF SameLinks
  <1> QED
    BY <1>1, <1>2 DEF Serves

\* Steps that leave open dependencies and handled requests alone
LEMMA QuietServes ==
  ASSUME LifeInvariant, NEW N, Quiet(N), UNCHANGED <<handling, openDeps>>,
         \A i \in Instance : state'[i] = "RUNNING" => state[i] = "RUNNING"
  PROVE  Serves({}, {})
  <1>1. /\ Kin(reqs') /\ SameLife(reqs') /\ SameLinks(reqs')
        /\ Len(reqs') = Len(reqs) /\ ToSend' = ToSend
    BY DEF Quiet
  <1>2. \A r \in Id : AboutToSend(r) /\ Needed(r) => Needed(r)'
    <2> SUFFICES ASSUME NEW r \in Id, AboutToSend(r), Needed(r) PROVE Needed(r)'
      OBVIOUS
    <2>1. Parent(r) \in Id
      BY ChildFacts DEF AboutToSend
    <2>2. reqs[r].dep \notin reqs'[Parent(r)].done
      BY <2>1, <1>1 DEF SameLife, Needed
    <2> QED
      BY <2>2, <1>1, NeededKept
  <1>3. \A x \in Id : reqs'[x].handler = reqs[x].handler
    BY <1>1 DEF SameLife
  <1> QED
    BY <1>1, <1>2, <1>3, NothingNewServes

\* A message leaves.
LEMMA DepartsServes ==
  ASSUME LifeInvariant, NEW m, Departs(m)
  PROVE  Serves(IF m.ans THEN {} ELSE {m.r}, {})
  <1>1. /\ m \in Message /\ Len(reqs') = Len(reqs)
        /\ Kin(reqs') /\ SameLife(reqs') /\ SameLinks(reqs')
        /\ UNCHANGED <<state, handling, openDeps>> /\ ToSend' = ToSend \ {m}
    BY DEF Departs
  <1>2. \A r \in Id : AboutToSend(r) /\ Needed(r) => Needed(r)'
    <2> SUFFICES ASSUME NEW r \in Id, AboutToSend(r), Needed(r) PROVE Needed(r)'
      OBVIOUS
    <2>1. Parent(r) \in Id
      BY ChildFacts DEF AboutToSend
    <2>2. reqs[r].dep \notin reqs'[Parent(r)].done
      BY <2>1, <1>1 DEF SameLife, Needed
    <2> QED
      BY <2>2, <1>1, NeededKept
  <1>3. \A x \in Id : reqs'[x].handler = reqs[x].handler
    BY <1>1 DEF SameLife
  <1>4. \A r : Req(r) \in ToSend => Req(r) \in ToSend' \/ r \in IF m.ans THEN {} ELSE {m.r}
    BY <1>1, ReqAns DEF Req
  <1> QED
    BY <1>1, <1>2, <1>3, <1>4, NothingNewServes

\* Nothing changes that a breaker could see.
LEMMA IdleServes ==
  ASSUME LifeInvariant, UNCHANGED <<reqs, state, handling, openDeps>>, ToSend' = ToSend
  PROVE  Serves({}, {})
  <1>1. /\ Kin(reqs') /\ SameLinks(reqs') /\ Len(reqs') = Len(reqs)
    BY NothingChanges, LifeFacts
  <1>2. \A r \in Id : Needed(r) => Needed(r)'
    BY DEF Needed, Parent, Deps
  <1> QED
    BY <1>1, <1>2, NothingNewServes

\* A message is refused.
LEMMA RefusesServes ==
  ASSUME LifeInvariant, NEW m, NEW i, NEW q, Refuses(m, i), Refuse(m, i, q)
  PROVE  Serves({}, {})
  <1>1. /\ UNCHANGED <<reqs, state, handling>> /\ ToSend' = ToSend
    BY DEF Refuses
  <1>2. openDeps' = openDeps
    BY RefusesNothing, BreakerAssumption
  <1> QED
    BY <1>1, <1>2, IdleServes

\* An answer closes its dependency.
LEMMA ClosesServes ==
  ASSUME LifeInvariant, NEW m, NEW i, NEW p, NEW n, Closes(m, i, p, n)
  PROVE  Serves({}, {<<i, <<p, n>>>>})
  <1>1. /\ Kin(reqs') /\ Len(reqs') = Len(reqs) /\ SameLinks(reqs')
        /\ \A x \in Id : /\ reqs'[x].handler = reqs[x].handler
                         /\ reqs'[x].done = IF x = p THEN reqs[x].done \cup {n}
                                                     ELSE reqs[x].done
        /\ UNCHANGED <<state, handling>> /\ ToSend' = ToSend
        /\ openDeps' = [openDeps EXCEPT ![i] = @ \ {<<p, n>>}]
    BY DEF Closes
  <1>0. /\ m.r \in Id /\ reqs[m.r].computed /\ IsCurrent(m.r)
        /\ p = Parent(m.r) /\ n = reqs[m.r].dep /\ TypeOK
    BY LifeFacts DEF Closes, DepOf
  <1>2. \A r \in Id : AboutToSend(r) /\ Needed(r) => Needed(r)'
    <2> SUFFICES ASSUME NEW r \in Id, AboutToSend(r), Needed(r) PROVE Needed(r)'
      OBVIOUS
    <2>1. ~IsUser(r) /\ Parent(r) \in Id /\ reqs[Parent(r)].child[reqs[r].dep] = r
      BY ChildFacts DEF AboutToSend
    <2>2. ~reqs[r].computed
      BY OnTheWayUntouched DEF AboutToSend, Untouched
    <2>3. ~(Parent(r) = p /\ reqs[r].dep = n)
      BY <2>1, <2>2, <1>0 DEF IsCurrent
    <2>4. reqs[r].dep \notin reqs'[Parent(r)].done
      <3>1. reqs[r].dep \notin reqs[Parent(r)].done
        BY DEF Needed
      <3>2. reqs'[Parent(r)].done = IF Parent(r) = p THEN reqs[Parent(r)].done \cup {n}
                                                     ELSE reqs[Parent(r)].done
        BY <2>1, <1>1
      <3> QED
        BY <3>1, <3>2, <2>3
    <2> QED
      BY <2>4, <1>1, NeededKept
  <1>3. \A j \in Instance :
          /\ openDeps'[j] \subseteq openDeps[j]
          /\ \A d \in openDeps[j] : d \in openDeps'[j] \/ <<j, d>> \in {<<i, <<p, n>>>>}
    BY <1>0, <1>1 DEF TypeOK
  <1> QED
    BY <1>1, <1>2, <1>3, NothingNewServes

\* A request is computed.
LEMMA ComputesServes ==
  ASSUME LifeInvariant, NEW r, NEW i, Computes(r, i)
  PROVE  Serves({}, {})
  <1>1. /\ r \in finishing /\ r \in Id /\ i \in Instance
        /\ Len(reqs') = Len(reqs) /\ Kin(reqs') /\ SameLinks(reqs')
        /\ \A x \in Id : /\ reqs'[x].handler = reqs[x].handler
                         /\ reqs'[x].done = reqs[x].done
        /\ handling' = [handling EXCEPT ![i] = @ \ {r}]
        /\ UNCHANGED <<state, openDeps>> /\ ToSend' = ToSend \cup {Ans(r)}
        /\ TypeOK
    BY LifeFacts DEF Computes
  <1>2. Deps(r) \subseteq reqs[r].done
    BY <1>1, LifeFacts DEF ComputedIsComplete, DepsCompleted
  <1>3. \A x \in Id : AboutToSend(x) /\ Needed(x) => Needed(x)'
    <2> SUFFICES ASSUME NEW x \in Id, AboutToSend(x), Needed(x) PROVE Needed(x)'
      OBVIOUS
    <2>1. Parent(x) \in Id /\ reqs[x].dep \in Deps(Parent(x)) /\ reqs[x].requester \in Instance
      BY ChildFacts DEF AboutToSend
    <2>2. reqs[x].dep \notin reqs[Parent(x)].done /\ Parent(x) # r
      BY <2>1, <1>2 DEF Needed
    <2>3. reqs[x].dep \notin reqs'[Parent(x)].done
      BY <2>1, <2>2, <1>1
    <2>4. Parent(x) \in handling[reqs[x].requester] => Parent(x) \in handling'[reqs[x].requester]
      BY <2>1, <2>2, <1>1 DEF TypeOK
    <2> QED
      BY <2>3, <2>4, <1>1, NeededKept
  <1>4. \A j \in Instance : handling'[j] \subseteq handling[j]
    BY <1>1 DEF TypeOK
  <1>5. \A x : Req(x) \in ToSend' <=> Req(x) \in ToSend
    BY <1>1 DEF Req, Ans
  <1> QED
    BY <1>1, <1>3, <1>4, <1>5, NothingNewServes

\* A request is given up because its dependency is not available.
LEMMA AbandonsServes ==
  ASSUME LifeInvariant, NEW r, NEW i, NEW p, Abandons(r, i, p),
         \A x : Req(x) \in ToSend' <=> Req(x) \in ToSend /\ x # r,
         NEW sent, Req(r) \in ToSend => r \in sent
  PROVE  Serves(sent, {})
  <1>1. /\ r \in Id /\ ~IsUser(r) /\ p \in Id /\ i \in Instance
        /\ p = Parent(r) /\ i = reqs[r].requester
        /\ Kin(reqs') /\ SameLife(reqs') /\ SameLinks(reqs')
        /\ Len(reqs') = Len(reqs) /\ UNCHANGED state
        /\ handling' = [handling EXCEPT ![i] = @ \ {p}]
        /\ openDeps' = [openDeps EXCEPT ![i] = @ \ AllDeps(p)] /\ TypeOK
    BY LifeFacts DEF Abandons
  <1>2. reqs[r].dep \in Deps(p) /\ reqs[p].child[reqs[r].dep] = r
    BY <1>1, ChildFacts
  <1>3. \A x \in Id : AboutToSend(x) /\ Needed(x) /\ Req(x) \in ToSend' => Needed(x)'
    <2> SUFFICES ASSUME NEW x \in Id, AboutToSend(x), Needed(x), Req(x) \in ToSend'
                 PROVE  Needed(x)'
      OBVIOUS
    <2>1. /\ Parent(x) \in Id /\ reqs[x].dep \in Deps(Parent(x))
          /\ reqs[x].requester \in Instance /\ reqs[Parent(x)].child[reqs[x].dep] = x
      BY ChildFacts DEF AboutToSend
    <2>2. reqs[x].dep \notin reqs'[Parent(x)].done
      BY <2>1, <1>1 DEF Needed, SameLife
    <2>3. x # r
      OBVIOUS
    <2>4. Parent(x) = p => Deps(Parent(x)) # {reqs[x].dep}
      BY <2>1, <2>3, <1>2
    <2>5. Parent(x) # p /\ Parent(x) \in handling[reqs[x].requester] =>
            Parent(x) \in handling'[reqs[x].requester]
      BY <2>1, <1>1 DEF TypeOK
    <2> QED
      BY <2>2, <2>4, <2>5, <1>1, NeededKept
  <1>4. \A j \in Instance : /\ handling'[j] \subseteq handling[j]
                            /\ openDeps'[j] \subseteq openDeps[j]
    BY <1>1 DEF TypeOK
  <1>5. \A j \in Instance : \A d \in openDeps[j] : d \in openDeps'[j] \/ d[1] \notin handling'[j]
    <2>1. \A d \in AllDeps(p) : d[1] = p
      BY DEF AllDeps
    <2> QED
      BY <2>1, <1>1 DEF TypeOK
  <1>6. \A x \in Id : reqs'[x].handler = reqs[x].handler
    BY <1>1 DEF SameLife
  <1> QED
    BY <1>1, <1>3, <1>4, <1>5, <1>6, NothingNewServes

\* A request arrives.
LEMMA BeginsServes ==
  ASSUME LifeInvariant, NEW r, NEW i, Begins(r, i),
         \A x \in Id : Req(x) \in ToSend' <=> Req(x) \in ToSend,
         \A c \in Id' \ Id : Needed(c)' /\ reqs'[c].op = TargetOf[reqs'[c].dep],
         \A j \in Instance : openDeps[j] \subseteq openDeps'[j],
         \A j \in Instance : \A p, n : <<p, n>> \in openDeps'[j] =>
            <<p, n>> \in openDeps[j] \/ Req(reqs'[p].child[n]) \in ToSend'
  PROVE  Serves({}, {})
  <1>1. /\ r \in Id /\ i \in Instance /\ Untouched(reqs, r)
        /\ handling' = [handling EXCEPT ![i] = @ \cup {r}]
        /\ UNCHANGED state /\ Kin(reqs') /\ TypeOK
        /\ \A x \in Id : /\ reqs'[x].handler = IF x = r THEN i ELSE reqs[x].handler
                         /\ reqs'[x].done = reqs[x].done
                         /\ x # r => reqs'[x].child = reqs[x].child
    BY LifeFacts DEF Begins
  <1>2. reqs[r].handler = None
    BY <1>1 DEF Untouched
  <1>3. \A x \in Id : AboutToSend(x) /\ Needed(x) => Needed(x)'
    <2> SUFFICES ASSUME NEW x \in Id, AboutToSend(x), Needed(x) PROVE Needed(x)'
      OBVIOUS
    <2>1. Parent(x) \in Id /\ reqs[x].requester \in Instance
      BY ChildFacts DEF AboutToSend
    <2>2. reqs[x].dep \notin reqs'[Parent(x)].done
      BY <2>1, <1>1 DEF Needed
    <2>3. Parent(x) \in handling[reqs[x].requester] => Parent(x) \in handling'[reqs[x].requester]
      BY <2>1, <1>1 DEF TypeOK
    <2> QED
      BY <2>2, <2>3, <1>1, NeededKept
  <1>4. \A j \in Instance : \A p \in handling'[j] : p \in handling[j] \/ p = r
    BY <1>1 DEF TypeOK
  <1>5. \A x \in Id : reqs[x].handler # None =>
          reqs'[x].handler = reqs[x].handler /\ reqs'[x].child = reqs[x].child
    BY <1>1, <1>2
  <1> QED
    BY <1>1, <1>2, <1>3, <1>4, <1>5 DEF Serves

LEMMA LeafServes ==
  ASSUME LifeInvariant, NEW r, NEW i, BeginsLeaf(r, i)
  PROVE  Serves({}, {})
  <1>1. Begins(r, i) /\ Id' = Id /\ openDeps' = openDeps /\ ToSend' = ToSend
    BY DEF BeginsLeaf, Id
  <1> QED
    BY <1>1, BeginsServes

LEMMA CompositeServes ==
  ASSUME LifeInvariant, NEW r, NEW i, BeginsComposite(r, i)
  PROVE  Serves({}, {})
  <1>1. /\ Begins(r, i) /\ openDeps' = [openDeps EXCEPT ![i] = @ \cup AllDeps(r)]
        /\ \A c \in Id' \ Id :
             /\ reqs'[c].parent = r /\ reqs'[c].dep \in Deps(r)
             /\ reqs'[c].op = TargetOf[reqs'[c].dep] /\ reqs'[c].requester = i
        /\ \A n \in Deps(r) : reqs'[r].child[n] \in Id' \ Id
        /\ ToSend' = ToSend \cup {Req(c) : c \in Id' \ Id}
        /\ TypeOK
    BY LifeFacts DEF BeginsComposite
  <1>2. /\ r \in Id /\ i \in Instance /\ reqs[r].done = {} /\ reqs'[r].done = reqs[r].done
        /\ handling' = [handling EXCEPT ![i] = @ \cup {r}]
    BY <1>1 DEF Begins, Untouched
  <1>3. \A x \in Id : Req(x) \in ToSend' <=> Req(x) \in ToSend
    BY <1>1, ReqOnce
  <1>4. \A c \in Id' \ Id : Needed(c)' /\ reqs'[c].op = TargetOf[reqs'[c].dep]
    <2>1. r \in handling'[i]
      BY <1>1, <1>2 DEF TypeOK
    <2>2. \A c \in Id' \ Id : Parent(c)' = r
      BY <1>1 DEF Parent
    <2> QED
      BY <2>1, <2>2, <1>1, <1>2 DEF Needed
  <1>5. \A j \in Instance : openDeps[j] \subseteq openDeps'[j]
    BY <1>1 DEF TypeOK
  <1>6. \A j \in Instance : \A p, n : <<p, n>> \in openDeps'[j] =>
            <<p, n>> \in openDeps[j] \/ Req(reqs'[p].child[n]) \in ToSend'
    <2> SUFFICES ASSUME NEW j \in Instance, NEW p, NEW n, <<p, n>> \in openDeps'[j],
                        <<p, n>> \notin openDeps[j]
                 PROVE  Req(reqs'[p].child[n]) \in ToSend'
      OBVIOUS
    <2>1. <<p, n>> \in AllDeps(r)
      BY <1>1 DEF TypeOK
    <2>2. p = r /\ n \in Deps(r)
      BY <2>1 DEF AllDeps
    <2> QED
      BY <2>2, <1>1
  <1> QED
    BY <1>1, <1>3, <1>4, <1>5, <1>6, BeginsServes

\* A user request is created.
LEMMA AsksServes ==
  ASSUME LifeInvariant, NEW new, Asks(new)
  PROVE  Serves({}, {})
  <1>1. /\ Id' = Id \cup {new} /\ new \notin Id
        /\ Kin(reqs') /\ SameLife(reqs') /\ SameLinks(reqs')
        /\ reqs'[new].requester = Generator
        /\ UNCHANGED <<state, handling, openDeps>>
        /\ ToSend' = ToSend \cup {Req(new)}
    BY DEF Asks
  <1>2. \A x \in Id : Req(x) \in ToSend' <=> Req(x) \in ToSend
    BY <1>1, ReqOnce
  <1>3. \A x \in Id : AboutToSend(x) /\ Needed(x) => Needed(x)'
    <2> SUFFICES ASSUME NEW x \in Id, AboutToSend(x), Needed(x) PROVE Needed(x)'
      OBVIOUS
    <2>1. Parent(x) \in Id
      BY ChildFacts DEF AboutToSend
    <2>2. reqs[x].dep \notin reqs'[Parent(x)].done
      BY <2>1, <1>1 DEF SameLife, Needed
    <2> QED
      BY <2>2, <1>1, NeededKept
  <1>4. \A c \in Id' \ Id : IsUser(c)'
    BY <1>1 DEF IsUser
  <1> QED
    BY <1>1, <1>2, <1>3, <1>4 DEF Serves, SameLife, SameLinks

-----------------------------------------------------------------------------
(* The limit, and the cancellations at an open breaker.                    *)

Limited == WithinLimit /\ OpenIsCanceled

Consistent == LifeInvariant /\ NeededIsOpen /\ Breakers

LEMMA ConsistentFacts ==
  ASSUME Consistent
  PROVE  /\ LifeInvariant /\ NeededIsOpen /\ Breakers /\ Agree /\ Limited
         /\ TypeOK /\ ConnectionTypeOK /\ BreakerInstance \subseteq Instance
         /\ RetryInstance = {} /\ VolumeLimit \in Nat
  BY LifeFacts, BreakerAssumption DEF Consistent, Breakers, Agree, Limited

LEMMA BreakersAre ==
  /\ Breakers <=> Agree /\ Limited
  /\ Agree' /\ Limited' => Breakers'
  BY DEF Breakers, Agree, Limited

\* None of the cancellations is one at an open breaker.
NoneOpen(q) == \A c \in Range(q) : c.reason # "CIRCUIT_IS_OPEN"

LEMMA OneCancellation ==
  ASSUME NEW m, NEW reason
  PROVE  /\ Range(Append(<<>>, Cancel(m, reason))) = {Cancel(m, reason)}
         /\ Cancel(m, reason).reason = reason /\ Cancel(m, reason).m = m
         /\ reason # "CIRCUIT_IS_OPEN" => NoneOpen(Append(<<>>, Cancel(m, reason)))
         /\ NoneOpen(<<>>)
  <1>1. /\ Append(<<>>, Cancel(m, reason)) = <<Cancel(m, reason)>>
        /\ Range(<<>>) = {} /\ Range(<<Cancel(m, reason)>>) = {Cancel(m, reason)}
    BY DEF Range
  <1>2. Cancel(m, reason).reason = reason /\ Cancel(m, reason).m = m
    BY DEF Cancel
  <1> QED
    BY <1>1, <1>2 DEF NoneOpen

\* As long as nothing is to be canceled, every connection is within the limit.
LEMMA QuietLimit ==
  ASSUME Consistent, urgent = <<>>
  PROVE  \A i \in BreakerInstance, s \in Service :
           connections[i][s] <= VolumeLimit /\ connections[i][s] \in Int
  <1>1. Range(urgent) = {}
    BY DEF Range
  <1> QED
    BY <1>1, ConsistentFacts DEF Limited, WithinLimit, ConnectionTypeOK

LEMMA LimitKept ==
  ASSUME NoneOpen(urgent'),
         \A i \in BreakerInstance, s \in Service : connections'[i][s] <= VolumeLimit
  PROVE  Limited'
  BY DEF NoneOpen, Limited, WithinLimit, OpenIsCanceled

\* A step that changes neither connections nor limits
LEMMA SteadyKept ==
  ASSUME Consistent, LifeInvariant', urgent = <<>>, NoneOpen(urgent'),
         NEW sent, NEW closed, Serves(sent, closed), UNCHANGED connections,
         Follows(sent, closed)
  PROVE  Breakers'
  <1>1. Agree'
    BY ConsistentFacts, AgreeKept
  <1>2. Limited'
    BY QuietLimit, LimitKept
  <1> QED
    BY <1>1, <1>2, BreakersAre

\* The breaker takes no part in the step.
LEMMA UnguardedKept ==
  ASSUME Consistent, LifeInvariant', urgent = <<>>, NoneOpen(urgent'),
         Serves({}, {}), UNCHANGED breakerVars
  PROVE  Breakers'
  <1>1. Steady /\ UNCHANGED connections
    BY ConsistentFacts DEF Steady, Widens, breakerVars, ConnectionTypeOK
  <1>2. Follows({}, {})
    BY <1>1, ConsistentFacts, SteadyFollows
  <1> QED
    BY <1>1, <1>2, SteadyKept

\* The breakers of an instance are cleared.
LEMMA ClearedKept ==
  ASSUME Consistent, LifeInvariant', urgent = <<>>, NoneOpen(urgent'),
         Serves({}, {}), NEW i, BreakersCleared(i), state'[i] # "RUNNING"
  PROVE  Breakers'
  <1>1. Agree'
    <2>1. Follows({}, {})
      BY ConsistentFacts, ClearFollows
    <2> QED
      BY <2>1, ConsistentFacts, AgreeKept
  <1>2. \A j \in BreakerInstance, s \in Service : connections'[j][s] <= VolumeLimit
    <2> SUFFICES ASSUME NEW j \in BreakerInstance, NEW s \in Service
                 PROVE  connections'[j][s] <= VolumeLimit
      OBVIOUS
    <2>1. connections[j][s] <= VolumeLimit /\ VolumeLimit \in Nat
      BY QuietLimit, ConsistentFacts
    <2>2. connections'[j][s] = 0 \/ connections'[j][s] = connections[j][s]
      <3>1. CASE i \in BreakerInstance
        <4>1. /\ connections' = [connections EXCEPT ![i] = [t \in Service |-> 0]]
              /\ connections \in [BreakerInstance -> [Service -> Int]]
          BY <3>1, ConsistentFacts DEF BreakersCleared, ConnectionTypeOK
        <4>2. connections'[j] = IF j = i THEN [t \in Service |-> 0] ELSE connections[j]
          BY <4>1
        <4> QED
          BY <4>2
      <3>2. CASE i \notin BreakerInstance
        BY <3>2 DEF BreakersCleared, breakerVars
      <3> QED
        BY <3>1, <3>2
    <2> QED
      BY <2>1, <2>2
  <1>3. Limited'
    BY <1>2, LimitKept
  <1> QED
    BY <1>1, <1>3, BreakersAre

-----------------------------------------------------------------------------
(* The events in which the breakers take no part.                          *)

LEMMA BurstBreakers ==
  ASSUME Consistent, LifeInvariant', NEW i \in Instance, NEW r \in cpu[i],
         CompleteBurst(i, r), UNCHANGED breakerVars
  PROVE  Breakers'
  <1>1. LifeInvariant /\ TypeOK'
    BY ConsistentFacts DEF LifeInvariant, HandlingInvariant
  <1>2. BurstEnds(i, r)
    BY <1>1, BurstEffects
  <1>3. /\ Quiet({}) /\ UNCHANGED <<state, handling, openDeps, urgent>>
    BY <1>2 DEF BurstEnds
  <1>4. urgent = <<>> /\ NoneOpen(urgent')
    BY <1>3, OneCancellation DEF CompleteBurst
  <1> QED
    BY <1>1, <1>3, <1>4, QuietServes, UnguardedKept

LEMMA TimeoutBreakers ==
  ASSUME Consistent, LifeInvariant', Timeout, UNCHANGED breakerVars
  PROVE  Breakers'
  <1>1. LifeInvariant /\ TypeOK'
    BY ConsistentFacts DEF LifeInvariant, HandlingInvariant
  <1>2. PICK m : Expires(m)
    BY <1>1, TimeoutEffects
  <1>3. Quiet({m}) /\ UNCHANGED <<state, handling, openDeps>>
    BY <1>2 DEF Expires
  <1>4. urgent = <<>> /\ NoneOpen(urgent')
    BY OneCancellation DEF Timeout, Quiescent
  <1> QED
    BY <1>1, <1>3, <1>4, QuietServes, UnguardedKept

LEMMA CancelLaterBreakers ==
  ASSUME Consistent, LifeInvariant', NEW e, NEW f, Taken(e, due, f), e.type = "cancel",
         urgent = <<>>, CancelLater(e.m, f), UNCHANGED breakerVars
  PROVE  Breakers'
  <1>1. LifeInvariant /\ TypeOK'
    BY ConsistentFacts DEF LifeInvariant, HandlingInvariant
  <1>2. Expires(e.m)
    BY <1>1, CancelLaterEffects
  <1>3. Quiet({e.m}) /\ UNCHANGED <<state, handling, openDeps>>
    BY <1>2 DEF Expires
  <1>4. NoneOpen(urgent')
    BY OneCancellation DEF CancelLater
  <1> QED
    BY <1>1, <1>3, <1>4, QuietServes, UnguardedKept

LEMMA AskBreakers ==
  ASSUME Consistent, LifeInvariant', NEW op \in UserOp, SendNewUserRequest(op),
         UNCHANGED breakerVars
  PROVE  Breakers'
  <1>1. LifeInvariant /\ TypeOK'
    BY ConsistentFacts DEF LifeInvariant, HandlingInvariant
  <1>2. Asks(Len(reqs) + 1)
    BY <1>1, AsksEffects
  <1>3. urgent = <<>> /\ NoneOpen(urgent')
    BY OneCancellation DEF SendNewUserRequest, Quiescent
  <1> QED
    BY <1>1, <1>2, <1>3, AsksServes, UnguardedKept

LEMMA ShutdownBreakers ==
  ASSUME Consistent, LifeInvariant', NEW i \in Instance, StartShutdown(i),
         UNCHANGED breakerVars
  PROVE  Breakers'
  <1>1. LifeInvariant /\ TypeOK /\ TypeOK'
    BY ConsistentFacts DEF LifeInvariant, HandlingInvariant
  <1>2. ShutdownStarts(i)
    BY <1>1, ShutdownStartEffects
  <1>3. /\ Quiet({}) /\ UNCHANGED <<handling, openDeps>>
        /\ \A j \in Instance : state'[j] = "RUNNING" => state[j] = "RUNNING"
    BY <1>1, <1>2 DEF ShutdownStarts, TypeOK
  <1>4. urgent = <<>> /\ NoneOpen(urgent')
    BY OneCancellation DEF StartShutdown, Quiescent
  <1> QED
    BY <1>1, <1>3, <1>4, QuietServes, UnguardedKept

LEMMA EndBreakers ==
  ASSUME Consistent, LifeInvariant', NEW e, NEW q, Taken(e, q, flight), e.type = "end",
         urgent = <<>>, EndGuarded(e.i, q)
  PROVE  Breakers'
  <1>1. LifeInvariant /\ TypeOK /\ TypeOK'
    BY ConsistentFacts DEF LifeInvariant, HandlingInvariant
  <1>2. EndShutdown(e.i, q) /\ BreakersCleared(e.i) /\ UNCHANGED <<flight, urgent>>
    BY DEF EndGuarded, EndShutdown
  <1>3. ShutdownEnds(e.i)
    BY <1>1, <1>2, ShutdownEndEffects
  <1>4. /\ Quiet({}) /\ UNCHANGED <<handling, openDeps>> /\ state'[e.i] # "RUNNING"
        /\ \A j \in Instance : state'[j] = "RUNNING" => state[j] = "RUNNING"
    BY <1>1, <1>3 DEF ShutdownEnds, TypeOK
  <1>5. NoneOpen(urgent')
    BY <1>2, OneCancellation
  <1> QED
    BY <1>1, <1>2, <1>4, <1>5, QuietServes, ClearedKept

LEMMA KillBreakers ==
  ASSUME Consistent, LifeInvariant', NEW i \in Instance, Kill(i), BreakersCleared(i)
  PROVE  Breakers'
  <1>1. LifeInvariant /\ TypeOK /\ TypeOK'
    BY ConsistentFacts DEF LifeInvariant, HandlingInvariant
  <1>2. PICK ids : Dies(i, ids)
    BY <1>1, DiesEffects
  <1>3. /\ Quiet({Req(r) : r \in handling[i]}) /\ UNCHANGED <<handling, openDeps>>
        /\ state'[i] # "RUNNING" /\ urgent = <<>> /\ urgent' = Informed(ids)
        /\ \A j \in Instance : state'[j] = "RUNNING" => state[j] = "RUNNING"
    BY <1>1, <1>2 DEF Dies, TypeOK
  <1>4. NoneOpen(urgent')
    BY <1>3 DEF NoneOpen, Range, Informed, Cancel
  <1> QED
    BY <1>1, <1>3, <1>4, QuietServes, ClearedKept

LEMMA CompleteBreakers ==
  ASSUME Consistent, LifeInvariant', NEW e, NEW q, Taken(e, q, flight), e.type = "computed",
         urgent = <<>>, CompleteComputation(e.m, e.i, q), UNCHANGED breakerVars
  PROVE  Breakers'
  <1>1. LifeInvariant /\ TypeOK' /\ NeverAborts'
    BY ConsistentFacts DEF LifeInvariant, HandlingInvariant
  <1>2. NoneOpen(urgent')
    BY OneCancellation DEF CompleteComputation
  <1>3. Serves({}, {})
    <2>1. CASE e.m.r \in finishing
      BY <2>1, <1>1, ComputesEffects, ComputesServes
    <2>2. CASE e.m.r \notin finishing
      <3>1. UNCHANGED <<reqs, state, handling, openDeps>> /\ ToSend' = ToSend
        BY <2>2, <1>1, CanceledEffects
      <3> QED
        BY <3>1, <1>1, IdleServes
    <2> QED
      BY <2>1, <2>2
  <1> QED
    BY <1>2, <1>3, UnguardedKept

-----------------------------------------------------------------------------
(* Sending.                                                                *)

\* A message that no breaker listens to is sent.
LEMMA SendBreakers ==
  ASSUME Consistent, LifeInvariant', NEW e, NEW q, NEW f, Taken(e, q, f), e.type = "send",
         urgent = <<>>, Send(e.m, q, f), ~Guarded(e.m), UNCHANGED breakerVars
  PROVE  Breakers'
  <1> DEFINE m == e.m
             sent == IF m.ans THEN {} ELSE {m.r}
  <1>1. LifeInvariant /\ Agree /\ TypeOK'
    BY ConsistentFacts DEF LifeInvariant, HandlingInvariant
  <1>2. Departs(m)
    BY <1>1, SendsMessage
  <1>3. Serves(sent, {})
    BY <1>1, <1>2, DepartsServes
  <1>4. NoneOpen(urgent')
    <2>1. urgent' \in {<<>>, Append(<<>>, Cancel(m, "NO_INSTANCE_AVAILABLE"))}
      BY DEF Send, SendUserAnswer, SendNowhere, SendUserRequest, SendInternal
    <2>2. NoneOpen(<<>>) /\ NoneOpen(Append(<<>>, Cancel(m, "NO_INSTANCE_AVAILABLE")))
      BY OneCancellation
    <2> QED
      BY <2>1, <2>2
  <1>5. Steady
    BY ConsistentFacts DEF breakerVars, Steady, Widens, ConnectionTypeOK
  <1>6. \A r \in sent : reqs[r].requester \notin BreakerInstance
    BY DEF Guarded
  <1>7. Follows(sent, {})
    BY <1>1, <1>3, <1>5, <1>6, SteadyFollows
  <1> QED
    BY <1>1, <1>3, <1>4, <1>5, <1>7, SteadyKept DEF Steady

\* The request of a guarded message
LEMMA GuardedFacts ==
  ASSUME Consistent, NEW m \in Message, Guarded(m)
  PROVE  /\ m = Req(m.r) /\ m.r \in Id /\ ~IsUser(m.r) /\ ~m.ans
         /\ reqs[m.r].requester \in BreakerInstance /\ reqs[m.r].requester \in Instance
         /\ Target(m.r) \in Service /\ Target(m.r) = Owner(DepOf(m.r))
         /\ DepOf(m.r) = <<Parent(m.r), reqs[m.r].dep>>
  <1>1. /\ m = Req(m.r) /\ m.r \in Id /\ ~m.ans /\ TypeOK
        /\ reqs[m.r].requester \in BreakerInstance /\ reqs[m.r].requester \in Instance
    BY ReqAns, ConsistentFacts DEF Guarded
  <1>2. ~IsUser(m.r)
    BY <1>1, ArchitectureAssumption DEF IsUser
  <1>3. Target(m.r) \in Service
    <2>1. reqs[m.r].op \in Op
      BY <1>1, ReqsType DEF Request
    <2> QED
      BY <2>1, ArchitectureAssumption DEF Target
  <1>4. reqs[m.r].op = TargetOf[reqs[m.r].dep]
    BY <1>1, <1>2, ConsistentFacts DEF Agree, CallsTarget
  <1> QED
    BY <1>1, <1>2, <1>3, <1>4 DEF Target, Owner, DepOf, Parent

\* The breaker lets a request pass.
LEMMA WithinBreakers ==
  ASSUME Consistent, LifeInvariant', NEW e, NEW q, NEW f, Taken(e, q, f), e.type = "send",
         urgent = <<>>, Guarded(e.m), SendWithin(e.m, q, f)
  PROVE  Breakers'
  <1> DEFINE m == e.m
             r == m.r
             i == reqs[r].requester
  <1>1. LifeInvariant /\ Agree /\ Limited /\ ConnectionTypeOK /\ TypeOK'
    BY ConsistentFacts DEF LifeInvariant, HandlingInvariant
  <1>2. Send(m, q, f) /\ Connect(r) /\ SetBreaker(i, Target(r), BreakerOf(i, Target(r)))
    BY DEF SendWithin
  <1>3. Departs(m)
    BY <1>1, <1>2, SendsMessage
  <1>4. /\ m = Req(r) /\ r \in Id /\ ~IsUser(r) /\ ~m.ans /\ i \in BreakerInstance
        /\ Target(r) \in Service
    BY <1>3, GuardedFacts DEF Departs
  <1>5. Serves({r}, {})
    BY <1>1, <1>3, <1>4, DepartsServes
  <1>6. Widens /\ Target(r) \in DOMAIN breakers'[i]
    BY <1>1, <1>2, <1>4, SetWidens
  <1>7. Connected(r)
    BY <1>3, <1>4 DEF Connected, AboutToSend, Departs
  <1>8. Follows({r}, {})
    BY <1>1, <1>2, <1>4, <1>5, <1>6, <1>7, ConnectFollows
  <1>9. Agree'
    BY <1>1, <1>5, <1>8, AgreeKept, ConsistentFacts
  <1>10. NoneOpen(urgent')
    <2>1. urgent' \in {<<>>, Append(<<>>, Cancel(m, "NO_INSTANCE_AVAILABLE"))}
      BY <1>2 DEF Send, SendUserAnswer, SendNowhere, SendUserRequest, SendInternal
    <2>2. NoneOpen(<<>>) /\ NoneOpen(Append(<<>>, Cancel(m, "NO_INSTANCE_AVAILABLE")))
      BY OneCancellation
    <2> QED
      BY <2>1, <2>2
  <1>11. \A j \in BreakerInstance, s \in Service : connections'[j][s] <= VolumeLimit
    <2> SUFFICES ASSUME NEW j \in BreakerInstance, NEW s \in Service
                 PROVE  connections'[j][s] <= VolumeLimit
      OBVIOUS
    <2>1. connections'[j][s] = IF j = i /\ s = Target(r) THEN connections[j][s] + 1
                                                       ELSE connections[j][s]
      BY <1>1, <1>2, <1>4 DEF Connect, ConnectionTypeOK
    <2>2. connections[i][Target(r)] + 1 <= VolumeLimit
      <3>1. connections[i][Target(r)] \in Int /\ VolumeLimit \in Int
        BY <1>4, QuietLimit, ConsistentFacts
      <3>2. ~(connections[i][Target(r)] + 1 > VolumeLimit)
        BY DEF SendWithin, OverLimit
      <3> QED
        BY <3>1, <3>2
    <2>3. connections[j][s] <= VolumeLimit
      BY QuietLimit
    <2> QED
      BY <2>1, <2>2, <2>3
  <1>12. Limited'
    BY <1>10, <1>11, LimitKept
  <1> QED
    BY <1>9, <1>12, BreakersAre

-----------------------------------------------------------------------------
(* Receiving.                                                              *)

\* An accepted result finds the breaker of its service and its connection.
LEMMA SuccessFindsBreaker ==
  ASSUME Consistent, NEW m \in Message, NEW i, m \in Arriving,
         i = reqs[m.r].requester, TellsSuccess(m, i)
  PROVE  /\ Target(m.r) \in DOMAIN breakers[i] /\ DepOf(m.r) \in active[i]
         /\ ~IsUser(m.r) /\ Target(m.r) = Owner(DepOf(m.r))
  <1> DEFINE r == m.r
             p == Parent(r)
             n == reqs[r].dep
  <1>1. /\ LifeInvariant /\ Agree /\ TypeOK /\ r \in Id /\ m = Ans(r)
        /\ i \in BreakerInstance /\ i \in Instance
    BY ConsistentFacts, ReqAns DEF TellsSuccess
  <1>2. ~IsUser(r)
    BY <1>1, ArchitectureAssumption DEF IsUser
  <1>3. /\ <<p, n>> \in openDeps[i] /\ p \in handling[i] /\ reqs[p].child[n] = r
    BY DEF TellsSuccess, Awaited, DepOf, Parent, IsCurrent
  <1>4. reqs[r].computed
    BY <1>1, LifeFacts, ReqAns DEF Messages, AnswersComputed, Heard
  <1>5. state[i] = "RUNNING"
    <2>1. r \notin handling[i]
      BY <1>1, <1>4, LifeFacts DEF Instances, HandlerKnown
    <2> QED
      BY <2>1 DEF TellsSuccess, CanHandle
  <1>6. Req(r) \notin ToSend
    BY <1>1, <1>4, OnTheWayUntouched DEF Untouched
  <1>7. n \in DepName
    BY <1>1, <1>2, ChildFacts
  <1>8. <<p, n>> \in active[i] /\ OwnerOf[TargetOf[n]] \in DOMAIN breakers[i]
    BY <1>1, <1>3, <1>5, <1>6, <1>7 DEF Agree, OpenIsConnected
  <1>9. reqs[r].op = TargetOf[n]
    BY <1>1, <1>2 DEF Agree, CallsTarget
  <1> QED
    BY <1>2, <1>8, <1>9 DEF Target, Owner, DepOf, Parent

\* The connection of an accepted result is taken back.
LEMMA ResultBreakers ==
  ASSUME Consistent, LifeInvariant', NEW m, NEW i, NEW p, NEW n, Closes(m, i, p, n),
         urgent = <<>>, TellsSuccess(m, i), ResultArrived(i, m.r)
  PROVE  Breakers'
  <1> DEFINE d == <<p, n>>
  <1>1. /\ LifeInvariant /\ Agree /\ ConnectionTypeOK /\ i \in BreakerInstance
        /\ m \in Message /\ m \in Arriving /\ i = reqs[m.r].requester
        /\ d = DepOf(m.r) /\ openDeps' = [openDeps EXCEPT ![i] = @ \ {d}]
        /\ urgent' = urgent /\ TypeOK /\ i \in Instance
    BY ConsistentFacts DEF Closes, TellsSuccess
  <1>2. d \in active[i] /\ Target(m.r) = Owner(d)
    BY <1>1, SuccessFindsBreaker
  <1>3. Serves({}, {<<i, d>>})
    BY <1>1, ClosesServes
  <1>4. d \notin openDeps'[i]
    BY <1>1 DEF TypeOK
  <1>5. Widens
    BY <1>1, SetWidens DEF ResultArrived
  <1>6. Disconnects(i, d)
    BY <1>1, <1>2, <1>4, <1>5 DEF Disconnects, ResultArrived
  <1>7. Agree'
    BY <1>1, <1>3, <1>6, DisconnectFollows, AgreeKept, ConsistentFacts
  <1>8. \A j \in BreakerInstance, s \in Service : connections'[j][s] <= VolumeLimit
    <2> SUFFICES ASSUME NEW j \in BreakerInstance, NEW s \in Service
                 PROVE  connections'[j][s] <= VolumeLimit
      OBVIOUS
    <2>1. connections'[j][s] = IF j = i /\ s = Owner(d) THEN connections[j][s] - 1
                                                      ELSE connections[j][s]
      BY <1>1, <1>6 DEF Disconnects, ConnectionTypeOK
    <2>2. /\ connections[j][s] <= VolumeLimit /\ connections[j][s] \in Int
          /\ VolumeLimit \in Int
      BY QuietLimit, ConsistentFacts
    <2> QED
      BY <2>1, <2>2
  <1>9. Limited'
    BY <1>1, <1>8, LimitKept, OneCancellation
  <1> QED
    BY <1>7, <1>9, BreakersAre

\* A message arrives.
LEMMA ReceiveBreakers ==
  ASSUME Consistent, LifeInvariant', NEW e, NEW q, NEW f, Taken(e, q, f),
         e.type = "receive", urgent = <<>>, ReceiveGuarded(e.m, e.i, q, f)
  PROVE  Breakers'
  <1> DEFINE m == e.m
             i == e.i
  <1>1. LifeInvariant /\ Agree /\ ConnectionTypeOK /\ TypeOK'
    BY ConsistentFacts DEF LifeInvariant, HandlingInvariant
  <1>2. /\ ReceiveRequest(m, i, q) \/ ReceiveAnswer(m, i, q) \/ Refuse(m, i, q)
        /\ flight' = f /\ UNCHANGED <<state, finishing>>
        /\ IF TellsSuccess(m, i) THEN ResultArrived(i, m.r) ELSE UNCHANGED breakerVars
    BY DEF ReceiveGuarded, Receive
  <1>3. CASE ReceiveRequest(m, i, q)
    <2>1. UNCHANGED breakerVars /\ NoneOpen(urgent')
      BY <1>2, <1>3, OneCancellation DEF ReceiveRequest, TellsSuccess
    <2>2. Serves({}, {})
      <3>1. CASE ReceiveLeafRequest(m.r, i, q)
        BY <1>1, <1>2, <1>3, <3>1, LeafEffects, LeafServes
      <3>2. CASE ReceiveCompositeRequest(m.r, i, q)
        BY <1>1, <1>2, <1>3, <3>2, CompositeEffects, CompositeServes
      <3> QED
        BY <1>3, <3>1, <3>2 DEF ReceiveRequest
    <2> QED
      BY <2>1, <2>2, UnguardedKept
  <1>4. CASE Refuse(m, i, q)
    <2>1. UNCHANGED breakerVars
      BY <1>2, <1>4 DEF Refuse, TellsSuccess
    <2>2. NoneOpen(urgent')
      <3>1. urgent' = Append(<<>>, Cancel(m, "HANDLING_INSTANCE_DIED"))
        BY <1>4 DEF Refuse
      <3>2. NoneOpen(Append(<<>>, Cancel(m, "HANDLING_INSTANCE_DIED")))
        BY OneCancellation
      <3> QED
        BY <3>1, <3>2
    <2>3. Refuses(m, i)
      BY <1>1, <1>2, <1>4, RefusesMessage
    <2>4. Serves({}, {})
      BY <1>1, <1>4, <2>3, RefusesServes
    <2> QED
      BY <2>1, <2>2, <2>4, UnguardedKept
  <1>5. CASE ReceiveAnswer(m, i, q)
    <2>1. PICK p \in Id, n \in DepName : Closes(m, i, p, n)
      BY <1>1, <1>2, <1>5, AnswerEffects
    <2>2. CASE TellsSuccess(m, i)
      BY <1>2, <2>1, <2>2, ResultBreakers
    <2>3. CASE ~TellsSuccess(m, i)
      <3>1. UNCHANGED <<active, connections>> /\ UNCHANGED breakerVars
        BY <1>2, <2>3 DEF breakerVars
      <3>2. Serves({}, {<<i, <<p, n>>>>})
        BY <1>1, <2>1, ClosesServes
      <3>3. Steady
        BY <1>1, <3>1 DEF breakerVars, Steady, Widens, ConnectionTypeOK
      <3>4. i \in BreakerInstance => Owner(<<p, n>>) = ServiceOf[i]
        <4> SUFFICES ASSUME i \in BreakerInstance PROVE Owner(<<p, n>>) = ServiceOf[i]
          OBVIOUS
        <4>1. m.ans /\ CanHandle(i, m) /\ Awaited(i, m.r)
          BY <1>5 DEF ReceiveAnswer
        <4>2. Target(m.r) = ServiceOf[i]
          BY <2>3, <4>1 DEF TellsSuccess
        <4>3. reqs[m.r].op = TargetOf[reqs[m.r].dep] /\ DepOf(m.r) = <<p, n>>
          BY <1>1, <2>1 DEF Closes, Agree, CallsTarget
        <4> QED
          BY <4>2, <4>3 DEF Target, Owner, DepOf
      <3>5. Follows({}, {<<i, <<p, n>>>>})
        <4>1. \A j \in BreakerInstance : \A d \in active[j] :
                <<j, d>> \in {<<i, <<p, n>>>>} => Owner(d) = ServiceOf[j]
          BY <3>4
        <4> QED
          BY <1>1, <3>2, <3>3, <4>1, SteadyFollows
      <3>6. NoneOpen(urgent')
        BY <2>1, OneCancellation DEF Closes
      <3> QED
        BY <1>1, <3>1, <3>2, <3>5, <3>6, SteadyKept
    <2> QED
      BY <2>2, <2>3
  <1> QED
    BY <1>2, <1>3, <1>4, <1>5

-----------------------------------------------------------------------------
(* A half-open event.                                                      *)

LEMMA HalfOpenBreakers ==
  ASSUME Consistent, LifeInvariant', NEW i \in BreakerInstance, NEW s, HalfOpen(i, s)
  PROVE  Breakers'
  <1>1. /\ LifeInvariant /\ Agree /\ ConnectionTypeOK /\ urgent = <<>> /\ urgent' = urgent
        /\ UNCHANGED <<reqs, state, handling, openDeps, due, flight>>
        /\ UNCHANGED <<active, connections>>
    BY ConsistentFacts DEF HalfOpen, Quiescent, handlingVars, vars, instVars, eventVars
  <1>2. ToSend' = ToSend
    BY <1>1 DEF ToSend, Scheduled
  <1>3. Serves({}, {})
    BY <1>1, <1>2, IdleServes
  <1>4. Steady
    BY <1>1, SetWidens DEF HalfOpen, Steady
  <1>5. Follows({}, {})
    BY <1>1, <1>3, <1>4, SteadyFollows
  <1> QED
    BY <1>1, <1>3, <1>5, OneCancellation, SteadyKept

-----------------------------------------------------------------------------
(* Cancellations.                                                          *)

\* The failure of a message takes no request from the breakers, and nobody
\* waits for the request any more.
LEMMA CanceledServes ==
  ASSUME Consistent, LifeInvariant', NEW m, m = Head(urgent).m, CancelRequest
  PROVE  /\ m \in Message /\ Serves({}, {})
         /\ Guarded(m) => \/ DepOf(m.r) \notin openDeps'[reqs[m.r].requester]
                          \/ Parent(m.r) \notin handling'[reqs[m.r].requester]
         /\ \/ urgent' = Tail(urgent)
            \/ \E p \in Id :
                 urgent' = Append(Tail(urgent), Cancel(Req(p), "DEPENDENCY_NOT_AVAILABLE"))
  <1>1. /\ Cancels(m) /\ LifeInvariant /\ TypeOK /\ TypeOK' /\ RetryInstance = {}
        /\ \/ FailAnswer(m) \/ FailUserRequest(m) \/ RetryRequest(m)
           \/ LetRequestFail(m) \/ IgnoreFailure(m)
    BY ConsistentFacts DEF CancelRequest, Cancels, LifeInvariant, HandlingInvariant
  <1>2. /\ urgent # <<>> /\ m \in Message /\ m.r \in Id
        /\ UNCHANGED <<state, cpu>>
    <2>1. urgent # <<>> /\ urgent \in Seq(Cancellation) /\ m = Head(urgent).m
          /\ UNCHANGED <<state, cpu>>
      BY <1>1 DEF Cancels, TypeOK
    <2>2. Head(urgent) \in Cancellation
      BY <2>1
    <2> QED
      BY <2>1, <2>2, <1>1, ReqAns DEF Cancellation
  <1>3. CASE FailAnswer(m) \/ FailUserRequest(m)
    <2>1. /\ Failed(m) /\ urgent' = Tail(urgent)
          /\ UNCHANGED <<handling, openDeps, flight>>
          /\ (reqs' = reqs \/ reqs' = [reqs EXCEPT ![m.r].failed = @ + 1])
      BY <1>3 DEF FailAnswer, FailUserRequest
    <2>2. Kin(reqs') /\ SameLife(reqs') /\ SameLinks(reqs') /\ Len(reqs') = Len(reqs)
      <3>1. CASE reqs' = reqs
        BY <3>1, <1>1, NothingChanges
      <3>2. CASE reqs' = [reqs EXCEPT ![m.r].failed = @ + 1]
        BY <3>2, <1>1, <1>2, FailureSame
      <3> QED
        BY <2>1, <3>1, <3>2
    <2>3. Serves({}, {})
      BY <2>1, <2>2, <1>1, <1>2, QuietFails, QuietServes
    <2>4. ~Guarded(m)
      BY <1>3, ArchitectureAssumption, ConsistentFacts
         DEF FailAnswer, FailUserRequest, Guarded, IsUser
    <2> QED
      BY <2>1, <2>3, <2>4, <1>2
  <1>4. CASE RetryRequest(m)
    BY <1>1, <1>4 DEF RetryRequest, Retries, Known
  <1>5. CASE LetRequestFail(m)
    <2>1. PICK i \in Instance, p \in Id : GivesUp(m, i, p)
      BY <1>1, <1>5, GivesUpEffects
    <2>2. /\ p = Parent(m.r) /\ i = reqs[m.r].requester /\ m = Req(m.r)
          /\ handling' = [handling EXCEPT ![i] = @ \ {p}]
          /\ urgent' = Append(Tail(urgent), Cancel(Req(p), "DEPENDENCY_NOT_AVAILABLE"))
          /\ ToSend' = ToSend /\ m \notin ToSend
      BY <2>1 DEF GivesUp, Quiet, Fails
    <2>3. Abandons(m.r, i, p)
      BY <2>1, GivesUpAbandons
    <2>4. \A x : Req(x) \in ToSend' <=> Req(x) \in ToSend /\ x # m.r
      BY <2>2
    <2>5. Serves({}, {})
      BY <1>1, <2>2, <2>3, <2>4, AbandonsServes
    <2>6. p \notin handling'[i]
      BY <2>2, <1>1 DEF TypeOK
    <2> QED
      BY <1>2, <2>2, <2>5, <2>6
  <1>6. CASE IgnoreFailure(m)
    <2>1. /\ Quiet({}) /\ UNCHANGED <<handling, openDeps>> /\ urgent' = Tail(urgent)
          /\ ~IsUser(m.r)
      BY <1>1, <1>6, IgnoreEffects DEF IgnoreFailure
    <2>2. Serves({}, {})
      BY <2>1, <1>1, <1>2, QuietServes
    <2>3. ~Awaited(reqs[m.r].requester, m.r)
      BY <1>1, <1>6 DEF IgnoreFailure
    <2>4. IsCurrent(m.r)
      BY <2>1, <1>1, <1>2, ChildFacts
    <2> QED
      BY <2>1, <2>2, <2>3, <2>4, <1>2 DEF Awaited
  <1> QED
    BY <1>1, <1>3, <1>4, <1>5, <1>6

\* A cancellation is executed, and the breaker hears of it.
LEMMA CancelBreakers ==
  ASSUME Consistent, LifeInvariant', CancelRequest,
         NEW m, m = Head(urgent).m,
         IF Guarded(m) THEN Released(reqs[m.r].requester, m.r) ELSE UNCHANGED breakerVars
  PROVE  Breakers'
  <1> DEFINE i == reqs[m.r].requester
             d == DepOf(m.r)
             takes == Guarded(m) /\ d \in active[i]
  <1>1. /\ LifeInvariant /\ Agree /\ Limited /\ ConnectionTypeOK /\ TypeOK /\ urgent # <<>>
    BY ConsistentFacts DEF CancelRequest
  <1>2. /\ m \in Message /\ Serves({}, {})
        /\ Guarded(m) => d \notin openDeps'[i] \/ Parent(m.r) \notin handling'[i]
        /\ \/ urgent' = Tail(urgent)
           \/ \E p \in Id :
                urgent' = Append(Tail(urgent), Cancel(Req(p), "DEPENDENCY_NOT_AVAILABLE"))
    BY CanceledServes
  <1>3. Guarded(m) => /\ i \in BreakerInstance /\ Target(m.r) \in Service
                      /\ Target(m.r) = Owner(d) /\ d[1] = Parent(m.r)
    <2> SUFFICES ASSUME Guarded(m)
                 PROVE  /\ i \in BreakerInstance /\ Target(m.r) \in Service
                        /\ Target(m.r) = Owner(d) /\ d[1] = Parent(m.r)
      OBVIOUS
    <2>1. /\ i \in BreakerInstance /\ Target(m.r) \in Service /\ Target(m.r) = Owner(d)
          /\ d = <<Parent(m.r), reqs[m.r].dep>>
      BY <1>2, GuardedFacts
    <2> QED
      BY <2>1
  <1>4. takes => Disconnects(i, d)
    <2> SUFFICES ASSUME takes PROVE Disconnects(i, d)
      OBVIOUS
    <2>1. /\ active' = [active EXCEPT ![i] = @ \ {d}]
          /\ connections' = [connections EXCEPT ![i][Target(m.r)] = @ - 1]
          /\ \E b : SetBreaker(i, Target(m.r), b)
      BY DEF Released
    <2>2. Widens
      BY <1>1, <1>3, <2>1, SetWidens
    <2> QED
      BY <1>2, <1>3, <2>1, <2>2 DEF Disconnects
  <1>5. ~takes => Steady
    BY <1>1 DEF Released, breakerVars, Steady, Widens, ConnectionTypeOK
  <1> HIDE DEF takes
  <1>6. Follows({}, {})
    <2>1. CASE takes
      BY <2>1, <1>1, <1>2, <1>4, DisconnectFollows
    <2>2. CASE ~takes
      BY <2>2, <1>1, <1>2, <1>5, SteadyFollows
    <2> QED
      BY <2>1, <2>2
  <1>7. Agree'
    BY <1>1, <1>2, <1>6, AgreeKept, ConsistentFacts
  <1>8. /\ Head(urgent) \in Range(urgent) /\ Range(Tail(urgent)) \subseteq Range(urgent)
        /\ \A c : Tail(<<c>>) = <<>> /\ Head(<<c>>) = c
    BY <1>1, TailRange DEF TypeOK
  <1>9. NoneOpen(Tail(urgent))
    <2> SUFFICES ASSUME NEW c \in Range(Tail(urgent)), c.reason = "CIRCUIT_IS_OPEN"
                 PROVE  FALSE
      BY DEF NoneOpen
    <2>1. urgent = <<c>>
      BY <1>1, <1>8 DEF Limited, OpenIsCanceled, CanceledAtOpenBreaker
    <2> QED
      BY <2>1, <1>8, OneCancellation DEF Range
  <1>10. NoneOpen(urgent')
    <2>1. CASE urgent' = Tail(urgent)
      BY <2>1, <1>9
    <2>2. CASE urgent' # Tail(urgent)
      <3>1. PICK p \in Id :
              urgent' = Append(Tail(urgent), Cancel(Req(p), "DEPENDENCY_NOT_AVAILABLE"))
        BY <2>2, <1>2
      <3> DEFINE c == Cancel(Req(p), "DEPENDENCY_NOT_AVAILABLE")
      <3>2. c \in Cancellation
        BY <1>1, ReqAns DEF Cancel, Cancellation, Reasons
      <3>4. c.reason # "CIRCUIT_IS_OPEN" /\ urgent' = Append(Tail(urgent), c)
        BY <3>1 DEF Cancel
      <3> HIDE DEF c
      <3>5. Tail(urgent) \in Seq(Cancellation)
        BY <1>1 DEF TypeOK
      <3>6. Range(Append(Tail(urgent), c)) = Range(Tail(urgent)) \cup {c}
        <4>1. \A q \in Seq(Cancellation), x \in Cancellation :
                Range(Append(q, x)) = Range(q) \cup {x}
          BY AppendRange
        <4> QED
          BY <3>2, <3>5, <4>1, Zenon
      <3>3. Range(urgent') = Range(Tail(urgent)) \cup {c}
        BY <3>4, <3>6
      <3> QED
        BY <3>3, <3>4, <1>9 DEF NoneOpen
    <2> QED
      BY <2>1, <2>2
  <1>11. \A j \in BreakerInstance, s \in Service : connections'[j][s] <= VolumeLimit
    <2> SUFFICES ASSUME NEW j \in BreakerInstance, NEW s \in Service
                 PROVE  connections'[j][s] <= VolumeLimit
      OBVIOUS
    <2>0. connections[j][s] \in Int /\ VolumeLimit \in Int
      BY <1>1, ConsistentFacts DEF ConnectionTypeOK
    <2>1. takes => connections'[j][s] = IF j = i /\ s = Owner(d) THEN connections[j][s] - 1
                                                                 ELSE connections[j][s]
      <3> SUFFICES ASSUME takes
                   PROVE  connections'[j][s] = IF j = i /\ s = Owner(d)
                            THEN connections[j][s] - 1 ELSE connections[j][s]
        OBVIOUS
      <3>1. /\ i \in BreakerInstance /\ Owner(d) \in Service
            /\ connections' = [connections EXCEPT ![i][Owner(d)] = @ - 1]
        BY <1>3, <1>4 DEF Disconnects, takes
      <3> QED
        BY <1>1, <3>1 DEF ConnectionTypeOK
    <2>2. ~takes => connections'[j][s] = connections[j][s]
      BY <1>5 DEF Steady
    <2>3. CASE connections[j][s] <= VolumeLimit
      BY <2>0, <2>1, <2>2, <2>3
    <2>4. CASE /\ connections[j][s] <= VolumeLimit + 1
               /\ \E c \in Range(urgent) : /\ CanceledAtOpenBreaker(c)
                                           /\ reqs[c.m.r].requester = j
                                           /\ Target(c.m.r) = s
      <3>1. PICK c \in Range(urgent) : /\ CanceledAtOpenBreaker(c)
                                       /\ reqs[c.m.r].requester = j
                                       /\ Target(c.m.r) = s
        BY <2>4
      <3>2. c.m = m
        BY <3>1, <1>8 DEF CanceledAtOpenBreaker
      <3>3. takes /\ j = i /\ s = Owner(d)
        BY <3>1, <3>2, <1>3 DEF CanceledAtOpenBreaker, takes
      <3>4. connections'[j][s] = connections[j][s] - 1
        BY <3>3, <2>1
      <3> HIDE DEF i, d, takes
      <3> QED
        BY <3>4, <2>0, <2>4
    <2>5. WithinLimit
      BY <1>1 DEF Limited
    <2> QED
      BY <2>3, <2>4, <2>5 DEF WithinLimit
  <1>12. Limited'
    BY <1>10, <1>11, LimitKept
  <1> QED
    BY <1>7, <1>12, BreakersAre

-----------------------------------------------------------------------------
(* A request meets an open breaker.                                        *)

LEMMA OpenStep ==
  ASSUME HandlingInvariant, NEW e, NEW q, NEW f, Rest(e, q, f), e.type = "send",
         SendOpen(e.m, q, f)
  PROVE  HandlingInvariant'
  <1>0. /\ TypeOK /\ Instances /\ NeverAborts /\ e.m \in Message
        /\ q \in Seq(Due) /\ f \in SUBSET Flight
        /\ NotArrived(q, f) /\ ComputedAtHandler(q)
        /\ FinishingIsDue(q) /\ EndIdle(q)
        /\ ArriveOnce(q, f) /\ EndOnce(q)
    BY InvariantFacts, RestFacts
  <1>1. /\ UNCHANGED <<reqs, state, handling, openDeps, notComputed, waiting>>
        /\ UNCHANGED <<outgoing, cpu, finishing, armed, older, aborted>>
        /\ due' = q /\ flight' = f
        /\ urgent' = Append(urgent, Cancel(e.m, "CIRCUIT_IS_OPEN"))
    BY DEF SendOpen, instVars
  <1>2. Grows(reqs')
    BY <1>0, <1>1, NoChangeHarmless, HarmlessGrows
  <1>3. Instances'
    BY <1>0, <1>1, <1>2, InstancesKept
  <1>4. Events(due, flight)'
    BY <1>0, <1>1, <1>2, EventsKept
  <1>5. TypeOK'
    <2>1. /\ Message' = Message /\ Cancellation' = Cancellation /\ Id' = Id
          /\ Due' = Due /\ Flight' = Flight
      BY <1>1 DEF Message, Id, Cancellation, Due, Flight
    <2>2. Cancel(e.m, "CIRCUIT_IS_OPEN") \in Cancellation
      BY <1>0 DEF Cancel, Cancellation, Reasons
    <2>3. urgent' \in Seq(Cancellation)
      BY <1>0, <1>1, <2>2 DEF TypeOK
    <2> QED
      BY <1>0, <1>1, <2>1, <2>3 DEF TypeOK
  <1> QED
    BY <1>0, <1>1, <1>3, <1>4, <1>5 DEF HandlingInvariant, NeverAborts

\* The message leaves the list of those to be sent, and its failure is known.
LEMMA OpenEffects ==
  ASSUME Consistent, TypeOK', NEW e, NEW q, NEW f, Taken(e, q, f), e.type = "send",
         Guarded(e.m), SendOpen(e.m, q, f)
  PROVE  Departs(e.m) /\ Lineage' /\ Messages'
  <1> DEFINE m == e.m
             c == Cancel(m, "CIRCUIT_IS_OPEN")
  <1>0. /\ LifeInvariant /\ TypeOK /\ Lineage /\ Messages /\ m \in Message
    BY ConsistentFacts, LifeFacts, RestFacts DEF Taken
  <1>1. /\ UNCHANGED <<reqs, state, handling, openDeps, notComputed, waiting>>
        /\ UNCHANGED <<outgoing, cpu, finishing, armed>>
        /\ due' = q /\ flight' = f /\ urgent' = Append(urgent, c)
    BY DEF SendOpen, instVars
  <1>2. /\ m = Req(m.r) /\ m.r \in Id /\ ~IsUser(m.r) /\ ~m.ans
        /\ reqs[m.r].requester \notin RetryInstance
    BY <1>0, GuardedFacts, ConsistentFacts
  <1>3. /\ Kin(reqs') /\ SameLife(reqs') /\ SameLinks(reqs') /\ SameTries(reqs')
        /\ SameCounts(reqs') /\ Len(reqs') = Len(reqs)
    BY <1>0, <1>1, NothingChanges
  <1>4. /\ m \in ToSend /\ MessagesOf(Range(q) \cup f, "send") = ToSend \ {m}
        /\ MessagesOf(Range(q) \cup f, "receive") = Arriving
    BY TakenSets
  <1>5. Adds(Range(q) \cup f, {}) /\ Scheduled' = Range(q) \cup f
    BY <1>1 DEF Adds, Scheduled, Taken
  <1>6. ToSend' = ToSend \ {m} /\ Arriving' = Arriving
    BY <1>4, <1>5 DEF ToSend, Arriving
  <1>7. MessagesOf(flight', "cancel") = MessagesOf(flight, "cancel")
    BY <1>1 DEF Taken
  <1>8. c \in Cancellation /\ c.m = m
    BY <1>0 DEF Cancel, Cancellation, Reasons
  <1> HIDE DEF c
  <1>9. Failing' = Failing \cup {m}
    BY <1>0, <1>1, <1>7, <1>8, FailingAppend
  <1>10. m \notin Heard
    BY <1>0, <1>4 DEF Messages, ToSendIsUnknown
  <1>11. Departs(m)
    BY <1>0, <1>1, <1>2, <1>3, <1>4, <1>6, <1>8, <1>9, <1>10 DEF Departs, SameTries
  <1>12. Lineage'
    BY <1>0, <1>3, QuietLineage DEF SameLife
  <1>13. Messages'
    <2>1. Tells({m})
      <3>1. Message' = Message
        BY <1>1 DEF Message, Id
      <3>2. Heard' \subseteq Heard \cup {m}
        BY <1>1, <1>6, <1>9 DEF Heard
      <3> QED
        BY <3>1, <3>2, <1>0, <1>4, <1>6 DEF Tells
    <2>2. AnswersReturn'
      BY <1>0, <1>3, <1>5, ReturnsKept
    <2>3. UsersAtOnce'
      <3>1. Watches({})
        BY <1>1, <1>7 DEF Watches
      <3> QED
        BY <3>1, <1>0, <1>3, UsersKept
    <2>4. AnswerOnce(due') /\ \A d \in flight' : d.type = "send" => ~d.m.ans
      BY <1>0, <1>1 DEF Taken, Messages, AnswersComputed
    <2> QED
      BY <2>1, <2>2, <2>3, <2>4, <1>0, <1>3, QuietMessages DEF SameLife
  <1> QED
    BY <1>11, <1>12, <1>13

\* Requests go on as if they had been canceled by anybody else.
LEMMA OpenLife ==
  ASSUME Consistent, NEW e, NEW q, NEW f, Taken(e, q, f), e.type = "send",
         Guarded(e.m), SendOpen(e.m, q, f)
  PROVE  LifeInvariant' /\ NeededIsOpen' /\ Departs(e.m)
  <1>1. LifeInvariant /\ TypeOK /\ NeededIsOpen
    BY ConsistentFacts
  <1>2. HandlingInvariant' /\ TypeOK'
    BY <1>1, OpenStep, LifeFacts DEF Taken, HandlingInvariant
  <1>3. Departs(e.m) /\ Lineage' /\ Messages'
    BY <1>2, OpenEffects
  <1>4. LifeInvariant'
    BY <1>1, <1>2, <1>3, DepartsLife, LifeParts
  <1>5. NeededIsOpen'
    BY <1>1, <1>3, IdleStaysOpen DEF Departs
  <1> QED
    BY <1>3, <1>4, <1>5

LEMMA OpenBreakers ==
  ASSUME Consistent, LifeInvariant', NEW m, Departs(m), urgent = <<>>, NEW q, NEW f,
         Guarded(m), SendOpen(m, q, f)
  PROVE  Breakers'
  <1> DEFINE r == m.r
             i == reqs[r].requester
             c == Cancel(m, "CIRCUIT_IS_OPEN")
  <1>1. LifeInvariant /\ Agree /\ ConnectionTypeOK /\ TypeOK
    BY ConsistentFacts
  <1>2. /\ Connect(r) /\ IsOpen(r) /\ urgent' = Append(<<>>, c)
        /\ UNCHANGED <<reqs, handling, openDeps, breakers>>
    BY DEF SendOpen, instVars
  <1>3. /\ m = Req(r) /\ r \in Id /\ ~IsUser(r) /\ ~m.ans /\ i \in BreakerInstance
        /\ Target(r) \in Service
    BY GuardedFacts DEF Departs
  <1>4. Serves({r}, {})
    BY <1>1, <1>3, DepartsServes
  <1>5. Widens /\ Target(r) \in DOMAIN breakers'[i]
    BY <1>1, <1>2 DEF Widens, ConnectionTypeOK, IsOpen, BreakerOf, NewBreaker
  <1>6. Connected(r) /\ AboutToSend(r)
    BY <1>3 DEF Connected, AboutToSend, Departs
  <1>7. Follows({r}, {})
    BY <1>1, <1>2, <1>3, <1>4, <1>5, <1>6, ConnectFollows
  <1>8. Agree'
    BY <1>1, <1>4, <1>7, AgreeKept, ConsistentFacts
  <1>9. c.reason = "CIRCUIT_IS_OPEN" /\ c.m = m /\ Range(urgent') = {c}
    BY <1>2, OneCancellation
  <1>10. urgent' = <<c>>
    BY <1>2
  <1> HIDE DEF c
  <1>11. CanceledAtOpenBreaker(c)'
    <2>1. Guarded(m)' /\ ~IsUser(r)'
      BY <1>2, <1>3 DEF Guarded, IsUser
    <2>2. DepOf(r)' \in active'[reqs'[r].requester]
      BY <1>1, <1>2, <1>3 DEF Connect, ConnectionTypeOK, DepOf
    <2>3. /\ reqs'[r].dep \notin reqs'[Parent(r)'].done
          /\ \/ Parent(r)' \in handling'[reqs'[r].requester]
             \/ Deps(Parent(r))' # {reqs'[r].dep}
      BY <1>1, <1>2, <1>3, <1>6 DEF Agree, SentIsNeeded, Parent, Deps
    <2> QED
      BY <2>1, <2>2, <2>3, <1>9, <1>10 DEF CanceledAtOpenBreaker
  <1>12. OpenIsCanceled'
    BY <1>9, <1>11 DEF OpenIsCanceled
  <1>13. WithinLimit'
    <2> SUFFICES ASSUME NEW j \in BreakerInstance, NEW s \in Service
                 PROVE  \/ connections'[j][s] <= VolumeLimit
                        \/ /\ connections'[j][s] <= VolumeLimit + 1
                           /\ \E x \in Range(urgent') : /\ CanceledAtOpenBreaker(x)'
                                                        /\ reqs'[x.m.r].requester = j
                                                        /\ Target(x.m.r)' = s
      BY DEF WithinLimit
    <2>1. connections'[j][s] = IF j = i /\ s = Target(r) THEN connections[j][s] + 1
                                                       ELSE connections[j][s]
      BY <1>1, <1>2, <1>3 DEF Connect, ConnectionTypeOK
    <2>2. /\ connections[j][s] <= VolumeLimit /\ connections[j][s] \in Int
          /\ VolumeLimit \in Int
      BY QuietLimit, ConsistentFacts
    <2>3. reqs'[c.m.r].requester = i /\ Target(c.m.r)' = Target(r)
      BY <1>2, <1>9 DEF Target
    <2>4. CASE j = i /\ s = Target(r)
      BY <2>1, <2>2, <2>3, <2>4, <1>9, <1>11
    <2>5. CASE ~(j = i /\ s = Target(r))
      BY <2>1, <2>2, <2>5
    <2> QED
      BY <2>4, <2>5
  <1> QED
    BY <1>8, <1>12, <1>13, BreakersAre DEF Limited

-----------------------------------------------------------------------------
(* Too many connections.                                                   *)

\* The request travels, though its instance has been told of its failure: one
\* event is scheduled for it, that it arrives or that it fails.
LEMMA TravelEvents ==
  ASSUME HandlingInvariant, NEW e, NEW q, NEW f, Rest(e, q, f), e.type = "send",
         ~e.m.ans, Travel(e.m, f), due' = q, UNCHANGED <<reqs, state>>,
         finishing' \subseteq finishing,
         \A i \in Instance : handling'[i] \subseteq handling[i]
  PROVE  /\ Events(due, flight)'
         /\ due' \in Seq(Due) /\ flight' \subseteq Flight
         /\ armed' \subseteq Message /\ older' \subseteq armed' \X armed'
  <1> DEFINE m == e.m
  <1>0. /\ TypeOK /\ m \in Message /\ q \in Seq(Due) /\ f \in SUBSET Flight
        /\ NotArrived(q, f) /\ ComputedAtHandler(q) /\ FinishingIsDue(q)
        /\ EndIdle(q) /\ ArriveOnce(q, f) /\ EndOnce(q)
    BY InvariantFacts, RestFacts
  <1>1. Grows(reqs')
    BY <1>0, NoChangeHarmless, HarmlessGrows
  <1>2. Untouched(reqs, m.r) /\ Absent(m.r, q, f)
    BY DEF Rest, OnTheWay
  <1>3. armed \subseteq Message /\ older \subseteq armed \X armed
    BY <1>0 DEF TypeOK
  <1> HIDE DEF m
  <1>4. PICK d \in Flight : /\ flight' = f \cup {d} /\ d.m = m
                            /\ d.type \in {"receive", "cancel"}
    <2>1. Event("cancel", m, None) \in Flight /\ \A i \in Instance : Event("receive", m, i) \in Flight
      BY <1>0 DEF Event, Flight
    <2>2. \A type, i : Event(type, m, i).m = m /\ Event(type, m, i).type = type
      BY DEF Event
    <2>3. \/ flight' = f \cup {Event("cancel", m, None)}
          \/ \E i \in Instance : flight' = f \cup {Event("receive", m, i)}
      BY DEF Travel, Available, m
    <2> QED
      BY <2>1, <2>2, <2>3
  <1>5. Fresh(d, reqs') /\ (OnTheWay(d) => Absent(d.m.r, q, f))
    BY <1>2, <1>4 DEF Fresh
  <1>6. ArriveOnce(due', flight')
    BY <1>0, <1>4, <1>5, DelayArrive
  <1>7. Events(due, flight)'
    BY <1>0, <1>1, <1>4, <1>5, <1>6, EventsKept
  <1>8. armed' \subseteq Message /\ older' \subseteq armed' \X armed'
    BY <1>0, <1>3 DEF Travel, m
  <1> QED
    BY <1>0, <1>4, <1>7, <1>8

\* The failure at the limit preserves what is known of the event list and of
\* the instances.
LEMMA LimitStep ==
  ASSUME HandlingInvariant, NEW e, NEW q, NEW f, Rest(e, q, f), e.type = "send",
         ~e.m.ans, e.m.r \in Id, reqs[e.m.r].requester \in Instance,
         FailAtLimit(e.m, f) \/ IgnoreAtLimit(e.m, f), due' = q,
         UNCHANGED <<reqs, outgoing, cpu, aborted>>
  PROVE  HandlingInvariant'
  <1> DEFINE m == e.m
             r == m.r
             i == reqs[r].requester
             p == Parent(r)
  <1>0. TypeOK /\ Instances /\ NeverAborts
    BY InvariantFacts
  <1>1. Grows(reqs')
    BY <1>0, NoChangeHarmless, HarmlessGrows
  <1>2. /\ Message' = Message /\ Cancellation' = Cancellation /\ Id' = Id
        /\ Due' = Due /\ Flight' = Flight
    BY DEF Message, Id, Cancellation, Due, Flight
  <1>3. CASE IgnoreAtLimit(m, f)
    <2>1. /\ UNCHANGED <<state, handling, openDeps, notComputed, waiting>>
          /\ UNCHANGED <<urgent, finishing>> /\ Travel(m, f)
      BY <1>3 DEF IgnoreAtLimit, instVars
    <2>2. Instances'
      BY <2>1, <1>0, <1>1, InstancesKept
    <2>3. /\ Events(due, flight)'
          /\ due' \in Seq(Due) /\ flight' \subseteq Flight
          /\ armed' \subseteq Message /\ older' \subseteq armed' \X armed'
      BY <2>1, TravelEvents
    <2>4. TypeOK'
      BY <2>1, <2>3, <1>0, <1>2 DEF TypeOK
    <2> QED
      BY <2>2, <2>3, <2>4, <1>0 DEF HandlingInvariant, NeverAborts
  <1>4. CASE FailAtLimit(m, f)
    <2>1. /\ Awaited(i, r) /\ Travel(m, f) /\ UNCHANGED state
          /\ urgent' = Append(urgent, Cancel(Req(p), "DEPENDENCY_NOT_AVAILABLE"))
          /\ finishing' = finishing \ Children(p)
          /\ openDeps' = [openDeps EXCEPT ![i] = @ \ AllDeps(p)]
          /\ handling' = [handling EXCEPT ![i] = @ \ {p}]
          /\ waiting' = [waiting EXCEPT ![i] = @ - 1]
          /\ notComputed' = [notComputed EXCEPT ![i] = @ - 1]
      BY <1>4 DEF FailAtLimit, Abandoned
    <2>2. p \in Id /\ reqs[r].dep \in DepName /\ <<p, reqs[r].dep>> \in openDeps[i]
      <3>1. openDeps[i] \subseteq Id \X DepName
        BY <1>0 DEF TypeOK
      <3>2. <<p, reqs[r].dep>> \in openDeps[i]
        BY <2>1 DEF Awaited, DepOf, Parent
      <3> QED
        BY <3>1, <3>2
    <2> HIDE DEF i, p
    <2>3. Instances' /\ \A j \in Instance : handling'[j] \subseteq handling[j]
      <3>1. i \in Instance /\ finishing' \subseteq finishing
        BY <2>1 DEF i
      <3> QED
        BY <3>1, <2>1, <2>2, <1>1, GivenUpInstances
    <2>4. /\ Events(due, flight)'
          /\ due' \in Seq(Due) /\ flight' \subseteq Flight
          /\ armed' \subseteq Message /\ older' \subseteq armed' \X armed'
      BY <2>1, <2>3, TravelEvents
    <2>5. urgent' \in Seq(Cancellation)
      <3>1. Cancel(Req(p), "DEPENDENCY_NOT_AVAILABLE") \in Cancellation
        BY <2>2 DEF Cancel, Req, Cancellation, Message, Reasons
      <3> QED
        BY <3>1, <2>1, <1>0 DEF TypeOK
    <2>6. /\ handling' \in [Instance -> SUBSET Id]
          /\ openDeps' \in [Instance -> SUBSET (Id \X DepName)]
          /\ finishing' \subseteq Id
      BY <2>1, <1>0 DEF TypeOK
    <2>7. notComputed' \in [Instance -> Int] /\ waiting' \in [Instance -> Int]
      <3>1. i \in Instance
        BY DEF i
      <3> QED
        BY <3>1, <2>1, <1>0, CounterType DEF TypeOK
    <2>8. TypeOK'
      BY <2>1, <2>4, <2>5, <2>6, <2>7, <1>0, <1>2 DEF TypeOK
    <2> QED
      BY <2>3, <2>4, <2>8, <1>0 DEF HandlingInvariant, NeverAborts
  <1> QED
    BY <1>3, <1>4

\* What becomes of the messages when the request m travels
LEMMA TravelEffects ==
  ASSUME Consistent, TypeOK', NEW e, NEW q, NEW f, Taken(e, q, f), e.type = "send",
         Guarded(e.m), Travel(e.m, f), due' = q, UNCHANGED reqs
  PROVE  LET m == e.m
         IN
         /\ m \in Message /\ m \in ToSend /\ m \notin Heard
         /\ ToSend' = ToSend \ {m}
         /\ armed \subseteq armed' /\ armed' \subseteq armed \cup {m}
         /\ Arriving \subseteq Arriving' /\ Arriving' \subseteq Arriving \cup {m}
         /\ MessagesOf(flight, "cancel") \subseteq MessagesOf(flight', "cancel")
         /\ MessagesOf(flight', "cancel") \subseteq MessagesOf(flight, "cancel") \cup {m}
         /\ m \in armed' \cup MessagesOf(flight', "cancel")
         /\ AnswerOnce(due') /\ \A d \in flight' : d.type = "send" => ~d.m.ans
         /\ AnswersReturn' /\ UsersAtOnce'
  <1> DEFINE m == e.m
  <1>0. /\ LifeInvariant /\ TypeOK /\ Messages /\ m \in Message
    BY ConsistentFacts, LifeFacts, RestFacts DEF Taken
  <1>1. m = Req(m.r) /\ m.r \in Id /\ ~IsUser(m.r) /\ ~m.ans
    BY <1>0, GuardedFacts
  <1>2. Kin(reqs')
    BY <1>0, NothingChanges
  <1>3. /\ m \in ToSend /\ MessagesOf(Range(q) \cup f, "send") = ToSend \ {m}
        /\ MessagesOf(Range(q) \cup f, "receive") = Arriving
    BY TakenSets
  <1>4. /\ MessagesOf(flight, "cancel") = MessagesOf(f, "cancel")
        /\ Range(q) \cup f \subseteq Scheduled /\ f \subseteq flight /\ AnswerOnce(q)
    BY DEF Taken
  <1>5. m \notin Heard
    BY <1>0, <1>3 DEF Messages, ToSendIsUnknown
  <1>6. {m} \subseteq Message' /\ ~IsUser(m.r)'
    BY <1>0, <1>1 DEF Message, Id, IsUser
  <1> HIDE DEF m
  <1>7. PICK d : /\ flight' = f \cup {d} /\ d.m = m
                 /\ \/ d.type = "cancel" /\ armed' = armed
                    \/ d.type = "receive" /\ armed' = armed \cup {m}
    <2>1. \A type, i : Event(type, m, i).m = m /\ Event(type, m, i).type = type
      BY DEF Event
    <2> QED
      BY <2>1 DEF Travel, m
  <1>8. Adds(Range(q) \cup f, {d})
    BY <1>1, <1>4, <1>7 DEF Adds, Scheduled
  <1>9. /\ ToSend' = (ToSend \ {m}) \cup MessagesOf({d}, "send")
        /\ Arriving' = Arriving \cup MessagesOf({d}, "receive")
    BY <1>3, <1>8, AddedSets
  <1>10. /\ MessagesOf({d}, "send") = {} /\ MessagesOf({d}, "receive") \subseteq {m}
         /\ MessagesOf({d}, "cancel") \subseteq {m}
         /\ d.type = "cancel" => MessagesOf({d}, "cancel") = {m}
    BY <1>7, MessagesOfOne
  <1>11. MessagesOf(flight', "cancel") = MessagesOf(flight, "cancel") \cup MessagesOf({d}, "cancel")
    BY <1>4, <1>7, MessagesOfUnion
  <1>12. AnswersReturn'
    BY <1>0, <1>2, <1>8, ReturnsKept
  <1>13. UsersAtOnce'
    <2>1. Watches({m})
      BY <1>6, <1>7, <1>10, <1>11 DEF Watches
    <2> QED
      BY <2>1, <1>0, <1>2, UsersKept
  <1>14. AnswerOnce(due') /\ \A x \in flight' : x.type = "send" => ~x.m.ans
    BY <1>0, <1>4, <1>7 DEF Messages, AnswersComputed
  <1> QED
    BY <1>0, <1>3, <1>5, <1>7, <1>9, <1>10, <1>11, <1>12, <1>13, <1>14 DEF m

\* Somebody else has made the parent fail: the request departs as any other.
LEMMA IgnoredLife ==
  ASSUME Consistent, NEW e, NEW q, NEW f, Taken(e, q, f), e.type = "send",
         Guarded(e.m), IgnoreAtLimit(e.m, f), due' = q,
         UNCHANGED <<reqs, outgoing, cpu, aborted>>
  PROVE  LifeInvariant' /\ NeededIsOpen' /\ Departs(e.m)
  <1> DEFINE m == e.m
  <1>0. /\ LifeInvariant /\ HandlingInvariant /\ TypeOK /\ Lineage /\ Messages
        /\ NeededIsOpen /\ m \in Message
    BY ConsistentFacts, LifeFacts, RestFacts DEF Taken
  <1>1. /\ UNCHANGED <<state, handling, openDeps, notComputed, waiting>>
        /\ UNCHANGED <<urgent, finishing>> /\ Travel(m, f)
    BY DEF IgnoreAtLimit, instVars
  <1>2. /\ m = Req(m.r) /\ m.r \in Id /\ ~IsUser(m.r) /\ ~m.ans
        /\ reqs[m.r].requester \in Instance /\ reqs[m.r].requester \notin RetryInstance
    BY <1>0, GuardedFacts, ConsistentFacts
  <1>3. HandlingInvariant' /\ TypeOK'
    BY <1>0, <1>2, LimitStep DEF Taken, HandlingInvariant
  <1>4. /\ Kin(reqs') /\ SameLife(reqs') /\ SameLinks(reqs') /\ SameTries(reqs')
        /\ SameCounts(reqs') /\ Len(reqs') = Len(reqs)
    BY <1>0, NothingChanges
  <1>5. /\ m \in ToSend /\ m \notin Heard
        /\ ToSend' = ToSend \ {m}
        /\ armed \subseteq armed' /\ armed' \subseteq armed \cup {m}
        /\ Arriving \subseteq Arriving' /\ Arriving' \subseteq Arriving \cup {m}
        /\ MessagesOf(flight, "cancel") \subseteq MessagesOf(flight', "cancel")
        /\ MessagesOf(flight', "cancel") \subseteq MessagesOf(flight, "cancel") \cup {m}
        /\ m \in armed' \cup MessagesOf(flight', "cancel")
        /\ AnswerOnce(due') /\ \A d \in flight' : d.type = "send" => ~d.m.ans
        /\ AnswersReturn' /\ UsersAtOnce'
    BY <1>1, <1>3, TravelEffects
  <1> HIDE DEF m
  <1>6. /\ Failing \subseteq Failing' /\ Failing' \subseteq Failing \cup {m}
        /\ m \in armed' \cup Failing'
    BY <1>1, <1>5 DEF Failing
  <1>7. Departs(m)
    BY <1>0, <1>1, <1>2, <1>4, <1>5, <1>6 DEF Departs, SameTries
  <1>8. Lineage'
    BY <1>0, <1>3, <1>4, QuietLineage DEF SameLife
  <1>9. Messages'
    <2>1. Tells({m})
      <3>1. Message' = Message
        BY DEF Message, Id
      <3>2. Heard' \subseteq Heard \cup {m}
        BY <1>5, <1>6 DEF Heard
      <3> QED
        BY <3>1, <3>2, <1>0, <1>5 DEF Tells
    <2> QED
      BY <2>1, <1>0, <1>3, <1>4, <1>5, QuietMessages DEF SameLife
  <1>10. LifeInvariant'
    BY <1>0, <1>3, <1>7, <1>8, <1>9, DepartsLife, LifeParts
  <1>11. NeededIsOpen'
    BY <1>0, <1>4, <1>1, IdleStaysOpen
  <1> QED
    BY <1>7, <1>10, <1>11 DEF m

\* Instance i gives request p up because one of its connections would be too
\* many; the request m that needs the connection departs nevertheless.
Stops(m, i, p) ==
  /\ m \in Message /\ m = Req(m.r) /\ m \in ToSend
  /\ Abandons(m.r, i, p) /\ SameTries(reqs') /\ ToSend' = ToSend \ {m}
  /\ armed \subseteq armed' /\ armed' \subseteq armed \cup {m}
  /\ Arriving \subseteq Arriving' /\ Arriving' \subseteq Arriving \cup {m}
  /\ Failing \subseteq Failing' /\ Failing' \subseteq Failing \cup {m, Req(p)}
  /\ urgent' = Append(urgent, Cancel(Req(p), "DEPENDENCY_NOT_AVAILABLE"))

LEMMA StopEffects ==
  ASSUME Consistent, TypeOK', NEW e, NEW q, NEW f, Taken(e, q, f), e.type = "send",
         Guarded(e.m), FailAtLimit(e.m, f), due' = q,
         UNCHANGED <<reqs, outgoing, cpu, aborted>>
  PROVE  LET r == e.m.r
         IN  Stops(e.m, reqs[r].requester, Parent(r)) /\ Lineage' /\ Messages'
  <1> DEFINE m == e.m
             r == m.r
             i == reqs[r].requester
             p == Parent(r)
             c == Cancel(Req(p), "DEPENDENCY_NOT_AVAILABLE")
  <1>0. /\ LifeInvariant /\ TypeOK /\ Lineage /\ Messages /\ m \in Message
    BY ConsistentFacts, LifeFacts, RestFacts DEF Taken
  <1>1. /\ Awaited(i, r) /\ Travel(m, f) /\ UNCHANGED state
        /\ urgent' = Append(urgent, c)
        /\ finishing' = finishing \ Children(p)
        /\ openDeps' = [openDeps EXCEPT ![i] = @ \ AllDeps(p)]
        /\ handling' = [handling EXCEPT ![i] = @ \ {p}]
        /\ waiting' = [waiting EXCEPT ![i] = @ - 1]
        /\ notComputed' = [notComputed EXCEPT ![i] = @ - 1]
    BY DEF FailAtLimit, Abandoned
  <1>2. m = Req(r) /\ r \in Id /\ ~IsUser(r) /\ ~m.ans /\ i \in Instance
    BY <1>0, GuardedFacts
  <1>3. /\ p \in Id /\ p \in handling[i] /\ DepOf(r) \in openDeps[i] /\ IsCurrent(r)
        /\ reqs[p].handler = i /\ i # None
    <2>1. p \in Id /\ reqs[p].handler = reqs[r].requester /\ reqs[p].handler # None
      BY <1>0, <1>2, ChildFacts
    <2> QED
      BY <2>1, <1>1 DEF Awaited
  <1>4. /\ Kin(reqs') /\ SameLife(reqs') /\ SameLinks(reqs') /\ SameTries(reqs')
        /\ SameCounts(reqs') /\ Len(reqs') = Len(reqs)
    BY <1>0, NothingChanges
  <1>5. /\ m \in ToSend /\ m \notin Heard
        /\ ToSend' = ToSend \ {m}
        /\ armed \subseteq armed' /\ armed' \subseteq armed \cup {m}
        /\ Arriving \subseteq Arriving' /\ Arriving' \subseteq Arriving \cup {m}
        /\ MessagesOf(flight, "cancel") \subseteq MessagesOf(flight', "cancel")
        /\ MessagesOf(flight', "cancel") \subseteq MessagesOf(flight, "cancel") \cup {m}
        /\ AnswerOnce(due') /\ \A d \in flight' : d.type = "send" => ~d.m.ans
        /\ AnswersReturn' /\ UsersAtOnce'
    BY <1>1, TravelEffects
  <1>6. c \in Cancellation /\ c.m = Req(p) /\ Req(p) \in Message
    BY <1>3, ReqAns DEF Cancel, Cancellation, Reasons
  <1>7. Abandons(r, i, p)
    BY <1>1, <1>2, <1>3, <1>4, <1>6 DEF Abandons
  <1> HIDE DEF c, m, r, i, p
  <1>8. Range(urgent') = Range(urgent) \cup {c}
    BY <1>0, <1>1, <1>6, AppendRange DEF TypeOK
  <1>9. Failing \subseteq Failing' /\ Failing' \subseteq Failing \cup {m, Req(p)}
    BY <1>5, <1>6, <1>8 DEF Failing
  <1>10. Stops(m, i, p)
    BY <1>0, <1>1, <1>2, <1>4, <1>5, <1>7, <1>9 DEF Stops, r, c
  <1>11. Lineage'
    BY <1>0, <1>4, QuietLineage DEF SameLife
  <1>12. Req(p) \notin ToSend
    BY <1>0, <1>3, OnTheWayUntouched DEF Untouched
  <1>13. Messages'
    <2>1. Tells({m, Req(p)})
      <3>1. Message' = Message
        BY DEF Message, Id
      <3>2. Heard' \subseteq Heard \cup {m, Req(p)}
        BY <1>5, <1>9 DEF Heard
      <3>3. ~Req(p).ans
        BY ReqAns
      <3> QED
        BY <3>1, <3>2, <3>3, <1>0, <1>5, <1>6, <1>12 DEF Tells
    <2> QED
      BY <2>1, <1>0, <1>4, <1>5, QuietMessages DEF SameLife
  <1> QED
    BY <1>10, <1>11, <1>13 DEF m, r, i, p

\* The other requests keep their children.
LEMMA StopsCared ==
  ASSUME LifeInvariant, NEW m, NEW i0, NEW p0, Stops(m, i0, p0)
  PROVE  OpenIsCared'
  <1>1. /\ TypeOK /\ Instances /\ m = Req(m.r) /\ p0 = Parent(m.r)
        /\ p0 \in Id /\ i0 \in Instance /\ p0 \in handling[i0]
        /\ handling' = [handling EXCEPT ![i0] = @ \ {p0}]
        /\ openDeps' = [openDeps EXCEPT ![i0] = @ \ AllDeps(p0)]
        /\ state' = state /\ Kin(reqs') /\ SameLife(reqs') /\ SameLinks(reqs')
    BY LifeFacts DEF Stops, Abandons
  <1>2. \A i \in Instance : /\ handling'[i] = IF i = i0 THEN handling[i] \ {p0} ELSE handling[i]
                            /\ openDeps'[i] \subseteq openDeps[i]
    BY <1>1 DEF TypeOK
  <1>3. ASSUME NEW i, NEW p, NEW n, Opens(i, p, n)'
        PROVE  Opens(i, p, n) /\ p # p0 /\ n \in DepName
    <2>1. state' = state
      BY <1>1
    <2>2. Opens(i, p, n) /\ (i = i0 => p # p0)
      BY <2>1, <1>2, <1>3 DEF Opens
    <2>3. i # i0 => p # p0
      BY <2>2, <1>1 DEF Opens, Instances, HandlerKnown
    <2> QED
      BY <2>2, <2>3 DEF Opens
  <1>4. ASSUME NEW i, NEW p, NEW n, NEW c, Child(i, p, n, c), Cared(p, n), p # p0,
               n \in DepName
        PROVE  Keeps(p, n, c)
    <2>1. p \in Id /\ Parent(c) = p
      BY <1>4 DEF Child
    <2>2. Req(c) # m
      BY <2>1, <1>1, <1>4, ReqOnce
    <2>3. reqs'[p].tries[n] = reqs[p].tries[n]
      BY <2>1 DEF Stops, SameTries
    <2>4. Ans(c) # m /\ Ans(c) # Req(p0)
      BY <1>1, ReqAns
    <2>5. /\ Req(c) \in ToSend => Req(c) \in ToSend'
          /\ Req(c) \in armed \cup Failing => Req(c) \in armed' \cup Failing'
          /\ Ans(c) \in Arriving => Ans(c) \in Arriving'
          /\ Ans(c) \in armed' \cup Failing' => Ans(c) \in armed \cup Failing \cup Arriving'
      BY <2>2, <2>4 DEF Stops
    <2> QED
      BY <2>3, <2>5, <1>1, <1>4, SameMessages
  <1> QED
    BY <1>3, <1>4, OpenKept DEF KeepsAll

LEMMA StopsLife ==
  ASSUME Consistent, NEW e, NEW q, NEW f, Taken(e, q, f), e.type = "send",
         Guarded(e.m), FailAtLimit(e.m, f), due' = q,
         UNCHANGED <<reqs, outgoing, cpu, aborted>>
  PROVE  LET r == e.m.r
         IN  /\ LifeInvariant' /\ NeededIsOpen'
             /\ Stops(e.m, reqs[r].requester, Parent(r))
  <1> DEFINE m == e.m
             i == reqs[m.r].requester
             p == Parent(m.r)
             c == Cancel(Req(p), "DEPENDENCY_NOT_AVAILABLE")
  <1>0. /\ LifeInvariant /\ HandlingInvariant /\ TypeOK /\ NeededIsOpen /\ m \in Message
    BY ConsistentFacts, LifeFacts, RestFacts DEF Taken
  <1>1. m.r \in Id /\ ~m.ans /\ i \in Instance
    BY <1>0, GuardedFacts
  <1>2. HandlingInvariant' /\ TypeOK'
    BY <1>0, <1>1, LimitStep DEF Taken, HandlingInvariant
  <1>3. Stops(m, i, p) /\ Lineage' /\ Messages'
    BY <1>2, StopEffects
  <1> HIDE DEF m, i, p
  <1>4. OpenIsCared'
    BY <1>0, <1>3, StopsCared
  <1>5. AttemptsRemembered'
    <2>1. ~m.ans
      BY <1>1
    <2>2. Leaves(m)
      BY <2>1, <1>3, ConsistentFacts DEF Stops, Abandons, Leaves, SameTries
    <2> QED
      BY <2>2, <1>0, <1>2, SendsAttempts
  <1>6. Abandons(m.r, i, p) /\ urgent' = Append(urgent, c)
    BY <1>3 DEF Stops
  <1>7. Counts'
    <2>1. \A x : Unsettled(x)' => Unsettled(x)
      BY <1>3 DEF Stops, Unsettled
    <2>2. urgent \in Seq(Cancellation)
      BY <1>0 DEF TypeOK
    <2> QED
      BY <2>1, <2>2, <1>0, <1>2, <1>6, AbandonsCounts
  <1>8. Work'
    BY <1>0, <1>2, <1>6, AbandonsWork
  <1>9. NeededIsOpen'
    BY <1>0, <1>6, AbandonsOpen
  <1>10. LifeInvariant'
    BY <1>2, <1>3, <1>4, <1>5, <1>7, <1>8, LifeParts DEF Life
  <1> QED
    BY <1>3, <1>9, <1>10 DEF m, i, p

\* The breaker has no connection of the request: it takes none back.
LEMMA LimitBreakers ==
  ASSUME Consistent, LifeInvariant', urgent = <<>>, NEW m \in Message, m \in ToSend,
         Guarded(m), NEW q, NEW f, SendOverLimit(m, q, f), NoneOpen(urgent'),
         Serves({m.r}, {}), DepOf(m.r) \notin openDeps'[reqs[m.r].requester]
  PROVE  Breakers'
  <1> DEFINE r == m.r
             i == reqs[r].requester
             s == Target(r)
  <1>1. LifeInvariant /\ Agree /\ ConnectionTypeOK
    BY ConsistentFacts
  <1>2. m = Req(r) /\ r \in Id /\ ~IsUser(r) /\ i \in BreakerInstance
    BY GuardedFacts
  <1>3. DepOf(r) \notin active[i]
    <2>1. reqs[Parent(r)].child[reqs[r].dep] = r /\ DepOf(r) = <<Parent(r), reqs[r].dep>>
      BY <1>1, <1>2, ChildFacts
    <2> QED
      BY <2>1, <1>1, <1>2 DEF Agree, ConnectionsSent
  <1>4. /\ active' = [active EXCEPT ![i] = @ \ {DepOf(r)}] /\ connections' = connections
        /\ \E k \in Leaving(BreakerOf(i, s)) :
             SetBreaker(i, s, FailedCall(FailedCall(BreakerOf(i, s), k), 0))
    BY DEF SendOverLimit
  <1>5. active' = active
    BY <1>1, <1>2, <1>3, <1>4 DEF ConnectionTypeOK
  <1>6. Widens
    <2>1. PICK b : SetBreaker(i, s, b)
      BY <1>4
    <2> QED
      BY <2>1, <1>1, <1>2, SetWidens
  <1>7. Steady
    BY <1>4, <1>5, <1>6 DEF Steady
  <1>8. Follows({r}, {})
    BY <1>1, <1>7, SteadyFollows
  <1> QED
    BY <1>4, <1>8, SteadyKept

LEMMA OverLimitBreakers ==
  ASSUME Consistent, NEW e, NEW q, NEW f, Taken(e, q, f), e.type = "send", urgent = <<>>,
         Guarded(e.m), SendOverLimit(e.m, q, f)
  PROVE  LifeInvariant' /\ NeededIsOpen' /\ Breakers'
  <1> DEFINE m == e.m
             r == m.r
             i == reqs[r].requester
             p == Parent(r)
             c == Cancel(Req(p), "DEPENDENCY_NOT_AVAILABLE")
  <1>0. LifeInvariant /\ TypeOK /\ m \in Message /\ m \in ToSend
    BY ConsistentFacts, RestFacts, TakenSets DEF Taken
  <1>1. /\ due' = q /\ UNCHANGED <<reqs, outgoing, cpu, aborted>>
        /\ FailAtLimit(m, f) \/ IgnoreAtLimit(m, f)
    BY DEF SendOverLimit
  <1>2. /\ m = Req(r) /\ r \in Id /\ ~IsUser(r) /\ ~m.ans
        /\ i \in BreakerInstance /\ i \in Instance
    BY <1>0, GuardedFacts
  <1>3. /\ p \in Id /\ reqs[r].dep \in Deps(p) /\ IsCurrent(r)
        /\ DepOf(r) = <<p, reqs[r].dep>>
    BY <1>0, <1>2, ChildFacts
  <1>4. CASE IgnoreAtLimit(m, f)
    <2>1. LifeInvariant' /\ NeededIsOpen' /\ Departs(m)
      BY <1>1, <1>4, IgnoredLife
    <2>2. /\ ~Awaited(i, r) /\ urgent' = <<>>
          /\ UNCHANGED openDeps
      BY <1>4 DEF IgnoreAtLimit, instVars
    <2>3. DepOf(r) \notin openDeps'[i]
      <3>1. DepOf(r) \in openDeps[i] => p \in handling[i]
        BY <1>0, <1>2, <1>3, OpenFacts
      <3> QED
        BY <3>1, <2>2, <1>3 DEF Awaited
    <2>4. Serves({r}, {})
      BY <2>1, <1>0, <1>2, DepartsServes
    <2>5. NoneOpen(urgent')
      BY <2>2, OneCancellation
    <2>6. Breakers'
      BY <2>1, <2>3, <2>4, <2>5, <1>0, LimitBreakers
    <2> QED
      BY <2>1, <2>6
  <1>5. CASE FailAtLimit(m, f)
    <2>1. LifeInvariant' /\ NeededIsOpen' /\ Stops(m, i, p)
      BY <1>1, <1>5, StopsLife
    <2>2. /\ Abandons(r, i, p) /\ ToSend' = ToSend \ {m}
          /\ urgent' = Append(<<>>, c)
      BY <2>1 DEF Stops
    <2>3. DepOf(r) \notin openDeps'[i]
      <3>1. openDeps' = [openDeps EXCEPT ![i] = @ \ AllDeps(p)]
        BY <2>2 DEF Abandons
      <3>2. DepOf(r) \in AllDeps(p)
        BY <1>3 DEF AllDeps
      <3> QED
        BY <3>1, <3>2, <1>0, <1>2 DEF TypeOK
    <2>4. Serves({r}, {})
      <3>1. \A x : Req(x) \in ToSend' <=> Req(x) \in ToSend /\ x # r
        BY <2>2, <1>2, ReqOnce
      <3> QED
        BY <3>1, <2>2, <1>0, AbandonsServes
    <2>5. NoneOpen(urgent')
      <3>1. NoneOpen(Append(<<>>, Cancel(Req(p), "DEPENDENCY_NOT_AVAILABLE")))
        BY OneCancellation
      <3> QED
        BY <3>1, <2>2
    <2>6. Breakers'
      BY <2>1, <2>3, <2>4, <2>5, <1>0, LimitBreakers
    <2> QED
      BY <2>1, <2>6
  <1> QED
    BY <1>1, <1>4, <1>5


-----------------------------------------------------------------------------
(* The properties, and the steps.                                          *)

\* What is true of connections, whether the experiment goes on or not
Connections ==
  ConnectionsCounted /\ ResultsFindTheirBreaker /\ ConnectionsUnderWay

Derived == Connections /\ AbortsOnlyAtOpenBreaker

LEMMA ConsistentConnections ==
  ASSUME Consistent
  PROVE  Connections /\ Derived
  <1>1. /\ LifeInvariant /\ Breakers /\ TypeOK /\ ConnectionTypeOK
        /\ BreakerInstance \subseteq Instance
    BY ConsistentFacts
  <1>2. ConnectionsCounted
    BY <1>1, QuietLimit DEF ConnectionsCounted, Breakers, OneByOne
  <1>3. ResultsFindTheirBreaker
    <2> SUFFICES ASSUME NEW e \in Scheduled, e.type = "receive", TellsSuccess(e.m, e.i)
                 PROVE  /\ Target(e.m.r) \in DOMAIN breakers[e.i]
                        /\ DepOf(e.m.r) \in active[e.i]
      BY DEF ResultsFindTheirBreaker
    <2>1. e.m \in Arriving
      BY DEF Arriving, MessagesOf
    <2>2. e.m \in Message
      BY <2>1, <1>1, MessageSets
    <2>3. e.i = reqs[e.m.r].requester
      BY <1>1, LifeFacts DEF Messages, AnswersReturn, TellsSuccess
    <2> QED
      BY <2>1, <2>2, <2>3, SuccessFindsBreaker
  <1>4. ConnectionsUnderWay
    <2> SUFFICES ASSUME NEW i \in BreakerInstance, state[i] = "RUNNING",
                        NEW s \in Service \ {ServiceOf[i]}, NEW d \in ActiveTo(i, s),
                        d[1] \in handling[i]
                 PROVE  d \in openDeps[i] /\ UnderWay(reqs[d[1]].child[d[2]])
      BY DEF ConnectionsUnderWay
    <2>1. d \in openDeps[i]
      BY <1>1 DEF Breakers, ConnectedIsOpen
    <2>2. d \in active[i]
      BY DEF ActiveTo
    <2>3. PICK p \in Id, n \in DepName : d = <<p, n>>
      BY <2>2, <1>1 DEF ConnectionTypeOK
    <2>4. Cared(p, n)
      BY <2>1, <2>3, <1>1, LifeFacts DEF OpenIsCared
    <2>5. UnderWay(reqs[p].child[n])
      BY <2>4, CaredIsUnderWay DEF Cared
    <2> QED
      BY <2>1, <2>3, <2>5
  <1>5. AbortsOnlyAtOpenBreaker
    BY <1>1, LifeFacts DEF AbortsOnlyAtOpenBreaker, NeverAborts
  <1> QED
    BY <1>2, <1>3, <1>4, <1>5 DEF Connections, Derived

\* Everything but the end of the experiment
worldVars == <<reqs, instVars, outgoing, cpu, finishing, eventVars, breakerVars>>

LEMMA ConnectionsStay ==
  ASSUME Connections, UNCHANGED worldVars
  PROVE  Connections'
  <1>1. UNCHANGED <<reqs, state, handling, openDeps, urgent, due, flight, armed,
                    active, connections, breakers>>
    BY DEF worldVars, instVars, eventVars, breakerVars
  <1>2. ConnectionsCounted'
    <2>1. ConnectionsCounted
      BY DEF Connections
    <2> QED
      BY <2>1, <1>1 DEF ConnectionsCounted, ActiveTo
  <1>3. ResultsFindTheirBreaker'
    <2>1. ResultsFindTheirBreaker
      BY DEF Connections
    <2>2. Scheduled' = Scheduled
      BY <1>1 DEF Scheduled
    <2>3. ASSUME NEW m, NEW i
          PROVE  /\ TellsSuccess(m, i)' <=> TellsSuccess(m, i)
                 /\ Target(m.r)' = Target(m.r) /\ DepOf(m.r)' = DepOf(m.r)
      BY <1>1 DEF TellsSuccess, CanHandle, Awaited, IsCurrent, Parent, DepOf, Target
    <2> QED
      BY <2>1, <2>2, <2>3, <1>1 DEF ResultsFindTheirBreaker
  <1>4. ConnectionsUnderWay'
    <2>1. ConnectionsUnderWay
      BY DEF Connections
    <2>2. \A c : UnderWay(c)' <=> UnderWay(c)
      BY <1>1 DEF UnderWay, Scheduled
    <2>3. \A i, s : ActiveTo(i, s)' = ActiveTo(i, s)
      BY <1>1 DEF ActiveTo
    <2> QED
      BY <2>1, <2>2, <2>3, <1>1 DEF ConnectionsUnderWay
  <1> QED
    BY <1>2, <1>3, <1>4 DEF Connections

\* The exception that nobody catches: the request that met an open breaker is
\* the child of its dependency still, and this dependency is not complete, so
\* nobody waits for it only because a sibling has made their parent fail.
LEMMA ThrowsDerived ==
  ASSUME Consistent, urgent # <<>>, Throws(Head(urgent)), aborted' = TRUE,
         UNCHANGED worldVars
  PROVE  aborted' /\ Derived'
  <1> DEFINE c == Head(urgent)
             r == c.m.r
             i == reqs[r].requester
             p == Parent(r)
  <1>1. LifeInvariant /\ NeededIsOpen /\ TypeOK /\ BreakerInstance \subseteq Instance
    BY ConsistentFacts
  <1>2. /\ c \in Range(urgent) /\ c \in Cancellation
    <2>1. urgent \in Seq(Cancellation)
      BY <1>1 DEF TypeOK
    <2> QED
      BY <2>1, TailRange
  <1>3. c.m \in Message /\ c.reason = "CIRCUIT_IS_OPEN" /\ Guarded(c.m) /\ ~Awaited(i, r)
    BY <1>2 DEF Throws, Cancellation
  <1>4. CanceledAtOpenBreaker(c)
    BY <1>2, <1>3 DEF Consistent, Breakers, OpenIsCanceled
  <1>5. r \in Id /\ ~IsUser(r) /\ i \in Instance
    BY <1>3, <1>1, GuardedFacts
  <1>6. /\ reqs[r].dep \in Deps(p) /\ IsCurrent(r) /\ DepOf(r) = <<p, reqs[r].dep>>
    BY <1>1, <1>5, ChildFacts
  <1>7. p \notin handling[i]
    <2>1. reqs[r].dep \notin reqs[p].done
      BY <1>4 DEF CanceledAtOpenBreaker
    <2>2. p \in handling[i] => DepOf(r) \in openDeps[i]
      BY <2>1, <1>1, <1>5, <1>6 DEF NeededIsOpen
    <2> QED
      BY <2>2, <1>3, <1>6 DEF Awaited
  <1>8. Deps(p) # {reqs[r].dep}
    BY <1>4, <1>7 DEF CanceledAtOpenBreaker
  <1>9. UNCHANGED <<reqs, handling, urgent>>
    BY DEF worldVars, instVars, eventVars
  <1>10. AbortsOnlyAtOpenBreaker'
    <2>1. /\ Deps(p)' = Deps(p) /\ Parent(r)' = Parent(r)
      BY <1>9 DEF Deps, Parent
    <2> QED
      BY <2>1, <1>3, <1>7, <1>8, <1>9 DEF AbortsOnlyAtOpenBreaker, Deps, Parent
  <1>11. Connections'
    BY ConsistentConnections, ConnectionsStay
  <1> QED
    BY <1>10, <1>11 DEF Derived

\* What an event of RequestHandling does to the requests is known.
LEMMA NextConsistent ==
  ASSUME Consistent, [Next]_vars
  PROVE  /\ LifeInvariant' /\ NeededIsOpen'
         /\ Breakers' => Consistent'
  <1>1. LifeInvariant /\ NeededIsOpen /\ RetryInstance = {}
    BY ConsistentFacts
  <1>2. LifeInvariant'
    BY <1>1, NextLife
  <1>3. NeededIsOpen'
    BY <1>1, <1>2, NextOpen
  <1> QED
    BY <1>2, <1>3 DEF Consistent

LEMMA SendConsistent ==
  ASSUME Consistent, ~aborted, urgent = <<>>, due # <<>>, Head(due).type = "send",
         SendGuarded(Head(due).m, Tail(due), flight)
  PROVE  Consistent'
  <1> DEFINE e == Head(due)
             q == Tail(due)
  <1>1. Taken(e, q, flight)
    BY ConsistentFacts, TakenDue
  <1>2. ASSUME Send(e.m, q, flight)
        PROVE  [Next]_vars
    BY <1>2 DEF Next, System, ExecuteDue
  <1> HIDE DEF e, q
  <1>3. CASE Guarded(e.m) /\ SendWithin(e.m, q, flight)
    <2>1. Send(e.m, q, flight)
      BY <1>3 DEF SendWithin
    <2>2. LifeInvariant' /\ (Breakers' => Consistent')
      BY <2>1, <1>2, NextConsistent
    <2> QED
      BY <2>2, <1>1, <1>3, WithinBreakers DEF e
  <1>4. CASE Guarded(e.m) /\ SendOpen(e.m, q, flight)
    <2>1. LifeInvariant' /\ NeededIsOpen' /\ Departs(e.m)
      BY <1>1, <1>4, OpenLife DEF e
    <2>2. Breakers'
      BY <2>1, <1>4, OpenBreakers
    <2> QED
      BY <2>1, <2>2 DEF Consistent
  <1>5. CASE Guarded(e.m) /\ SendOverLimit(e.m, q, flight)
    <2>1. LifeInvariant' /\ NeededIsOpen' /\ Breakers'
      BY <1>1, <1>5, OverLimitBreakers DEF e
    <2> QED
      BY <2>1 DEF Consistent
  <1>6. CASE ~Guarded(e.m) /\ Send(e.m, q, flight) /\ UNCHANGED breakerVars
    <2>1. LifeInvariant' /\ (Breakers' => Consistent')
      BY <1>2, <1>6, NextConsistent
    <2> QED
      BY <2>1, <1>1, <1>6, SendBreakers DEF e
  <1> QED
    BY <1>3, <1>4, <1>5, <1>6 DEF SendGuarded, e, q

LEMMA DueConsistent ==
  ASSUME Consistent, ~aborted, ExecuteDueGuarded
  PROVE  Consistent'
  <1> DEFINE e == Head(due)
             q == Tail(due)
  <1>1. urgent = <<>> /\ due # <<>>
    BY DEF ExecuteDueGuarded
  <1>2. Taken(e, q, flight)
    BY <1>1, ConsistentFacts, TakenDue
  <1>3. ASSUME \/ e.type = "receive"  /\ Receive(e.m, e.i, q, flight)
               \/ e.type = "computed" /\ CompleteComputation(e.m, e.i, q)
               \/ e.type = "end"      /\ EndShutdown(e.i, q)
        PROVE  LifeInvariant' /\ (Breakers' => Consistent')
    <2>1. ExecuteDue
      BY <1>1, <1>3 DEF ExecuteDue
    <2> QED
      BY <2>1, NextConsistent DEF Next, System
  <1>4. CASE e.type = "send" /\ SendGuarded(e.m, q, flight)
    BY <1>1, <1>4, SendConsistent
  <1> HIDE DEF e, q
  <1>5. CASE e.type = "receive" /\ ReceiveGuarded(e.m, e.i, q, flight)
    <2>1. LifeInvariant' /\ (Breakers' => Consistent')
      BY <1>3, <1>5 DEF ReceiveGuarded
    <2> QED
      BY <2>1, <1>1, <1>2, <1>5, ReceiveBreakers
  <1>6. CASE e.type = "computed" /\ CompleteComputation(e.m, e.i, q) /\ UNCHANGED breakerVars
    <2>1. LifeInvariant' /\ (Breakers' => Consistent')
      BY <1>3, <1>6
    <2> QED
      BY <2>1, <1>1, <1>2, <1>6, CompleteBreakers
  <1>7. CASE e.type = "end" /\ EndGuarded(e.i, q)
    <2>1. LifeInvariant' /\ (Breakers' => Consistent')
      BY <1>3, <1>7 DEF EndGuarded
    <2> QED
      BY <2>1, <1>1, <1>2, <1>7, EndBreakers
  <1> QED
    BY <1>4, <1>5, <1>6, <1>7 DEF ExecuteDueGuarded, e, q

LEMMA DelayedConsistent ==
  ASSUME Consistent, ~aborted, ExecuteDelayedGuarded
  PROVE  Consistent'
  <1>1. PICK e \in flight :
          \/ e.type = "receive" /\ ReceiveGuarded(e.m, e.i, due, flight \ {e})
          \/ e.type = "cancel"  /\ CancelLater(e.m, flight \ {e}) /\ UNCHANGED breakerVars
    BY DEF ExecuteDelayedGuarded
  <1> DEFINE f == flight \ {e}
  <1>2. Taken(e, due, f)
    BY ConsistentFacts, TakenDelayed
  <1>3. urgent = <<>> /\ (due = <<>> \/ Coincide)
    BY DEF ExecuteDelayedGuarded
  <1>4. ExecuteDelayed
    BY <1>1, <1>3 DEF ExecuteDelayed, ReceiveGuarded
  <1>5. LifeInvariant' /\ (Breakers' => Consistent')
    BY <1>4, NextConsistent DEF Next, System
  <1> HIDE DEF f
  <1>6. CASE e.type = "receive" /\ ReceiveGuarded(e.m, e.i, due, f)
    BY <1>2, <1>3, <1>5, <1>6, ReceiveBreakers
  <1>7. CASE e.type = "cancel" /\ CancelLater(e.m, f) /\ UNCHANGED breakerVars
    BY <1>2, <1>3, <1>5, <1>7, CancelLaterBreakers
  <1> QED
    BY <1>1, <1>6, <1>7 DEF f

LEMMA StutterBreakers ==
  ASSUME Consistent, UNCHANGED <<handlingVars, breakerVars>>
  PROVE  Consistent'
  <1>1. UNCHANGED vars /\ UNCHANGED breakerVars
    BY DEF handlingVars
  <1>2. LifeInvariant' /\ (Breakers' => Consistent')
    BY <1>1, NextConsistent
  <1>3. /\ LifeInvariant /\ Agree /\ NeededIsOpen /\ Limited /\ ConnectionTypeOK
    BY ConsistentFacts
  <1>4. UNCHANGED <<reqs, state, handling, openDeps, urgent, due, flight,
                    active, connections, breakers>>
    BY <1>1 DEF vars, instVars, eventVars, breakerVars
  <1>5. Serves({}, {})
    <2>1. ToSend' = ToSend
      BY <1>4 DEF ToSend, Scheduled
    <2> QED
      BY <2>1, <1>3, <1>4, IdleServes
  <1>6. Agree'
    <2>1. Steady
      BY <1>3, <1>4 DEF Steady, Widens, ConnectionTypeOK
    <2>2. Follows({}, {})
      BY <2>1, <1>2, <1>3, <1>5, SteadyFollows
    <2> QED
      BY <2>2, <1>2, <1>3, <1>5, AgreeKept
  <1>7. Limited'
    <2>1. ASSUME NEW c
          PROVE  /\ CanceledAtOpenBreaker(c)' <=> CanceledAtOpenBreaker(c)
                 /\ Target(c.m.r)' = Target(c.m.r)
      BY <1>4 DEF CanceledAtOpenBreaker, Guarded, IsUser, DepOf, Parent, Deps, Target
    <2>2. OpenIsCanceled'
      BY <2>1, <1>3, <1>4 DEF Limited, OpenIsCanceled
    <2>3. WithinLimit'
      BY <2>1, <1>3, <1>4 DEF Limited, WithinLimit
    <2> QED
      BY <2>2, <2>3 DEF Limited
  <1> QED
    BY <1>2, <1>6, <1>7, BreakersAre

LEMMA CancelConsistent ==
  ASSUME Consistent, ~aborted, CancelGuarded
  PROVE  Consistent' \/ (aborted' /\ Derived')
  <1> DEFINE c == Head(urgent)
             m == c.m
  <1>1. CASE /\ Throws(c) /\ aborted' = TRUE
             /\ UNCHANGED <<reqs, instVars, outgoing, cpu, finishing, eventVars, breakerVars>>
    <2>1. urgent # <<>> /\ UNCHANGED worldVars
      BY <1>1 DEF CancelGuarded, worldVars
    <2> QED
      BY <2>1, <1>1, ThrowsDerived
  <1>2. CASE /\ ~Throws(c) /\ CancelRequest
             /\ IF Guarded(m) THEN Released(reqs[m.r].requester, m.r)
                              ELSE UNCHANGED breakerVars
    <2>1. LifeInvariant' /\ (Breakers' => Consistent')
      BY <1>2, NextConsistent DEF Next, System
    <2> QED
      BY <2>1, <1>2, CancelBreakers
  <1> QED
    BY <1>1, <1>2 DEF CancelGuarded

LEMMA SystemConsistent ==
  ASSUME Consistent, BreakerSystem
  PROVE  Consistent' \/ (aborted' /\ Derived')
  <1>0. ~aborted
    BY DEF BreakerSystem
  <1>1. CASE CancelGuarded
    BY <1>0, <1>1, CancelConsistent
  <1>2. CASE ExecuteDueGuarded
    BY <1>0, <1>2, DueConsistent
  <1>3. CASE ExecuteDelayedGuarded
    BY <1>0, <1>3, DelayedConsistent
  <1>4. CASE Timeout /\ UNCHANGED breakerVars
    <2>1. LifeInvariant' /\ (Breakers' => Consistent')
      BY <1>0, <1>4, NextConsistent DEF Next, System
    <2> QED
      BY <2>1, <1>4, TimeoutBreakers
  <1>5. ASSUME NEW i \in Instance, NEW r \in cpu[i], CompleteBurst(i, r),
               UNCHANGED breakerVars
        PROVE  Consistent'
    <2>1. LifeInvariant' /\ (Breakers' => Consistent')
      BY <1>0, <1>5, NextConsistent DEF Next, System
    <2> QED
      BY <2>1, <1>5, BurstBreakers
  <1>6. ASSUME NEW i \in BreakerInstance, NEW s \in DOMAIN breakers[i], HalfOpen(i, s)
        PROVE  Consistent'
    <2>1. UNCHANGED vars
      BY <1>6 DEF HalfOpen, handlingVars
    <2>2. LifeInvariant' /\ (Breakers' => Consistent')
      BY <2>1, NextConsistent
    <2> QED
      BY <2>2, <1>6, HalfOpenBreakers
  <1> QED
    BY <1>1, <1>2, <1>3, <1>4, <1>5, <1>6 DEF BreakerSystem

LEMMA EnvironmentConsistent ==
  ASSUME Consistent, BreakerEnvironment
  PROVE  Consistent'
  <1>0. ~aborted /\ BreakerInstance \subseteq Instance
    BY ConsistentFacts DEF BreakerEnvironment
  <1>1. ASSUME NEW op \in UserOp, SendNewUserRequest(op), UNCHANGED breakerVars
        PROVE  Consistent'
    <2>1. LifeInvariant' /\ (Breakers' => Consistent')
      BY <1>0, <1>1, NextConsistent DEF Next, Environment
    <2> QED
      BY <2>1, <1>1, AskBreakers
  <1>2. ASSUME NEW i \in Instance, Kill(i), BreakersCleared(i)
        PROVE  Consistent'
    <2>1. LifeInvariant' /\ (Breakers' => Consistent')
      BY <1>0, <1>2, NextConsistent DEF Next, Environment
    <2> QED
      BY <2>1, <1>2, KillBreakers
  <1>3. ASSUME NEW i \in BreakerInstance, StartShutdown(i), UNCHANGED breakerVars
        PROVE  Consistent'
    <2>1. i \in Instance
      BY <1>0
    <2>2. LifeInvariant' /\ (Breakers' => Consistent')
      BY <2>1, <1>0, <1>3, NextConsistent DEF Next, Environment
    <2> QED
      BY <2>1, <2>2, <1>3, ShutdownBreakers
  <1> QED
    BY <1>1, <1>2, <1>3 DEF BreakerEnvironment

LEMMA InitConsistent ==
  ASSUME BreakerInit
  PROVE  Consistent
  <1>1. Init /\ LifeInvariant
    BY InitLife DEF BreakerInit
  <1>2. /\ reqs = <<>> /\ urgent = <<>> /\ due = <<>> /\ flight = {}
        /\ \A i \in Instance : handling[i] = {} /\ openDeps[i] = {}
    BY <1>1 DEF Init
  <1>3. /\ active = [i \in BreakerInstance |-> {}]
        /\ connections = [i \in BreakerInstance |-> [s \in Service |-> 0]]
        /\ breakers = [i \in BreakerInstance |-> [s \in {} |-> NewBreaker]]
    BY DEF BreakerInit
  <1>4. NeededIsOpen
    BY <1>2 DEF NeededIsOpen
  <1>5. Id = {} /\ Range(urgent) = {} /\ BreakerInstance \subseteq Instance /\ VolumeLimit \in Nat
    BY <1>2, BreakerAssumption DEF Id, Range
  <1>6. ConnectionTypeOK
    BY <1>3 DEF ConnectionTypeOK
  <1>7. CallsTarget /\ SentIsNeeded /\ OpenIsCanceled
    BY <1>5 DEF CallsTarget, SentIsNeeded, OpenIsCanceled
  <1>8. \A i \in BreakerInstance, s \in Service :
          active[i] = {} /\ ActiveTo(i, s) = {} /\ connections[i][s] = 0
    BY <1>3 DEF ActiveTo
  <1>9. ConnectionsSent /\ ConnectedIsOpen /\ OpenIsConnected /\ WithinLimit
    <2>1. ConnectionsSent
      BY <1>3 DEF ConnectionsSent
    <2>2. ConnectedIsOpen
      BY <1>8 DEF ConnectedIsOpen
    <2>3. OpenIsConnected
      BY <1>2, <1>5 DEF OpenIsConnected
    <2>4. WithinLimit
      BY <1>5, <1>8 DEF WithinLimit
    <2> QED
      BY <2>1, <2>2, <2>3, <2>4
  <1>10. OneByOne
    BY <1>8, FS_EmptySet DEF OneByOne
  <1> QED
    BY <1>1, <1>4, <1>6, <1>7, <1>9, <1>10 DEF Consistent, Breakers

\* Breakers and requests agree as long as the experiment goes on, and what
\* that means for the connections stays true when it ends.
Agreed == /\ ~aborted => Consistent
          /\ aborted => Derived

LEMMA AgreedIs ==
  Agreed <=> BreakerInvariant
  BY ConsistentConnections
     DEF Agreed, BreakerInvariant, Consistent, Derived, Connections

LEMMA AgreedStep ==
  ASSUME Agreed, [BreakerNext]_<<handlingVars, breakerVars>>
  PROVE  Agreed'
  <1>1. CASE aborted
    <2>1. UNCHANGED <<handlingVars, breakerVars>>
      BY <1>1 DEF BreakerNext, BreakerSystem, BreakerEnvironment
    <2>2. UNCHANGED worldVars /\ UNCHANGED <<reqs, handling, urgent, aborted>>
      BY <2>1 DEF handlingVars, vars, worldVars, instVars, eventVars
    <2>3. Connections /\ AbortsOnlyAtOpenBreaker
      BY <1>1 DEF Agreed, Derived
    <2>4. Connections'
      BY <2>2, <2>3, ConnectionsStay
    <2>5. AbortsOnlyAtOpenBreaker'
      BY <2>2, <2>3 DEF AbortsOnlyAtOpenBreaker, Deps, Parent
    <2> QED
      BY <1>1, <2>2, <2>4, <2>5 DEF Agreed, Derived
  <1>2. CASE ~aborted
    <2>1. Consistent
      BY <1>2 DEF Agreed
    <2>2. Consistent' \/ (aborted' /\ Derived')
      BY <2>1, SystemConsistent, EnvironmentConsistent, StutterBreakers DEF BreakerNext
    <2>3. ASSUME Consistent'
          PROVE  ~aborted'
      BY <2>3, LifeFacts DEF Consistent, LifeInvariant, HandlingInvariant, NeverAborts
    <2> QED
      BY <2>2, <2>3 DEF Agreed
  <1> QED
    BY <1>1, <1>2

-----------------------------------------------------------------------------
(* The theorems.                                                           *)

\* Breakers and requests agree in every reachable state, for every
\* architecture without a Retry: whatever fails, times out, is killed or shut
\* down, and whatever the breakers decide (CircuitBreaker, with
\* MicroserviceInstance and NetworkRequestSendEvent).
THEOREM BreakerInvariantHolds ==
  BreakerSpec => []BreakerInvariant
  <1>1. BreakerInit => Agreed
    BY InitConsistent, LifeFacts DEF Agreed, Consistent, NeverAborts
  <1>2. Agreed /\ [BreakerNext]_<<handlingVars, breakerVars>> => Agreed'
    BY AgreedStep
  <1>3. Agreed => BreakerInvariant
    BY AgreedIs
  <1> QED
    BY <1>1, <1>2, <1>3, PTL DEF BreakerSpec

\* The connections to a service are counted one by one, and between two
\* events they are within the limit (CircuitBreaker.activeConnectionCount,
\* requestVolumeThreshold).
THEOREM ConnectionsAreCounted ==
  BreakerSpec => []ConnectionsCounted
  <1>1. BreakerInvariant => ConnectionsCounted
    BY DEF BreakerInvariant
  <1> QED
    BY <1>1, BreakerInvariantHolds, PTL

\* An accepted result finds the breaker of its service and an open connection
\* (CircuitBreaker.onRequestResultArrivedAtRequester): there is no
\* NullPointerException and no negative count.
THEOREM ResultsFindBreakers ==
  BreakerSpec => []ResultsFindTheirBreaker
  <1>1. BreakerInvariant => ResultsFindTheirBreaker
    BY DEF BreakerInvariant
  <1> QED
    BY <1>1, BreakerInvariantHolds, PTL

\* A connection of a request that is still handled is one over which something
\* is under way, unless it leads to the own service
\* (CircuitBreaker.activeConnections).
THEOREM ConnectionsAreUsed ==
  BreakerSpec => []ConnectionsUnderWay
  <1>1. BreakerInvariant => ConnectionsUnderWay
    BY DEF BreakerInvariant
  <1> QED
    BY <1>1, BreakerInvariantHolds, PTL

\* If an exception ends the experiment, it is that of a request that met an
\* open breaker after a sibling had made their parent fail
\* (MicroserviceInstance.onRequestFailed, letRequestFail).
THEOREM AbortsAtOpenBreaker ==
  BreakerSpec => []AbortsOnlyAtOpenBreaker
  <1>1. BreakerInvariant => AbortsOnlyAtOpenBreaker
    BY DEF BreakerInvariant
  <1> QED
    BY <1>1, BreakerInvariantHolds, PTL
=============================================================================
