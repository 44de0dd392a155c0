-------------------------- MODULE FormatterProofs --------------------------
(***************************************************************************)
(* The proof that the invariant of the architecture editor holds.  It goes *)
(* the way the form is built: what the buttons do to any list, whatever    *)
(* its elements are, then what an edit does to the lists around it.        *)
(***************************************************************************)
EXTENDS Formatter, TLAPS, SequenceTheorems, WellFoundedInduction

-----------------------------------------------------------------------------
(* Lists of any elements.                                                  *)

LEMMA ListFacts ==
  ASSUME NEW S, NEW fixed \in Nat, NEW l \in Lists(S, fixed)
  PROVE  /\ l = List(l.items, l.counter, l.adds, l.removes)
         /\ l.items \in Seq(S) /\ l.counter \in Nat
         /\ l.counter = Len(l.items) /\ l.counter >= fixed
         /\ l.adds = {l.counter}
         /\ l.removes = IF l.counter > fixed THEN {l.counter} ELSE {}
BY DEF Lists, List

LEMMA ListOf ==
  ASSUME NEW S, NEW fixed \in Nat, NEW items \in Seq(S), Len(items) >= fixed,
         NEW adds, adds = {Len(items)},
         NEW removes, removes = IF Len(items) > fixed THEN {Len(items)} ELSE {}
  PROVE  List(items, Len(items), adds, removes) \in Lists(S, fixed)
<1>1. Len(items) \in Nat
  OBVIOUS
<1>2. List(items, Len(items), adds, removes)
        \in [items : Seq(S), counter : Nat, adds : SUBSET Nat, removes : SUBSET Nat]
  BY <1>1 DEF List
<1>3. QED BY <1>1, <1>2 DEF Lists, List

LEMMA LongerList ==
  ASSUME NEW S, NEW fixed \in Nat, NEW items \in Seq(S), NEW n \in Nat, n = Len(items), n > fixed
  PROVE  List(items, n, {n}, {n}) \in Lists(S, fixed)
<1>1. {n} = {Len(items)} /\ Len(items) >= fixed
  OBVIOUS
<1>2. {n} = IF Len(items) > fixed THEN {Len(items)} ELSE {}
  OBVIOUS
<1>3. List(items, Len(items), {n}, {n}) \in Lists(S, fixed)
  BY <1>1, <1>2, ListOf, Zenon
<1>4. QED BY <1>3

LEMMA EmptyList == ASSUME NEW S PROVE Empty \in Lists(S, 0)
<1>1. <<>> \in Seq(S) /\ Len(<<>>) = 0
  OBVIOUS
<1>2. QED BY <1>1 DEF Empty, List, Lists

LEMMA MadeList ==
  ASSUME NEW S, NEW fixed \in Nat, NEW l \in Lists(S, fixed), NEW k \in l.adds, NEW item \in S
  PROVE  Made(l, k, fixed, item) \in Lists(S, fixed)
<1>1. /\ l.items \in Seq(S) /\ l.counter \in Nat
      /\ l.counter = Len(l.items) /\ l.counter >= fixed
      /\ l.adds = {k} /\ k = l.counter
      /\ l.removes = IF l.counter > fixed THEN {k} ELSE {}
  BY DEF Lists
<1>2. SubSeq(l.items, 1, k) = l.items
  BY <1>1
<1>3. Append(l.items, item) \in Seq(S) /\ Len(Append(l.items, item)) = k + 1
  BY <1>1
<1>4. Made(l, k, fixed, item) = List(Append(l.items, item), k + 1, {k + 1}, {k + 1})
  BY <1>1, <1>2 DEF Made
<1>5. k + 1 \in Nat /\ k + 1 > fixed
  BY <1>1
<1>6. QED BY <1>3, <1>4, <1>5, LongerList

LEMMA RemovedList ==
  ASSUME NEW S, NEW fixed \in Nat, NEW l \in Lists(S, fixed), NEW k \in l.removes
  PROVE  Removed(l, k, fixed) \in Lists(S, fixed)
<1>1. /\ l.items \in Seq(S) /\ k \in Nat
      /\ l.counter = Len(l.items) /\ k = l.counter /\ k > fixed
      /\ l.adds = {k} /\ l.removes = {k}
  BY DEF Lists
<1>2. SubSeq(l.items, 1, k - 1) \in Seq(S) /\ Len(SubSeq(l.items, 1, k - 1)) = k - 1
  BY <1>1
<1>3. /\ {j \in l.adds : j < k} = {} /\ {j \in l.removes : j < k} = {}
      /\ l.counter > fixed /\ k - 1 \in Nat
  BY <1>1
<1>4. CASE k - 1 > fixed
  <2>1. l.counter > fixed + 1
    BY <1>1, <1>4
  <2>2. Removed(l, k, fixed) = List(SubSeq(l.items, 1, k - 1), k - 1, {k - 1}, {k - 1})
    BY <1>1, <1>3, <2>1 DEF Removed
  <2>3. QED BY <1>2, <1>3, <1>4, <2>2, LongerList
<1>5. CASE k - 1 = fixed
  <2>1. ~(l.counter > fixed + 1)
    BY <1>1, <1>5
  <2>2. Removed(l, k, fixed) = List(SubSeq(l.items, 1, k - 1), k - 1, {k - 1}, {})
    BY <1>1, <1>3, <2>1 DEF Removed
  <2>3. QED BY <1>1, <1>2, <1>3, <1>5, <2>2 DEF Lists, List
<1>6. QED BY <1>1, <1>4, <1>5

\* Other elements, as many
LEMMA ReplacedList ==
  ASSUME NEW S, NEW fixed \in Nat, NEW l \in Lists(S, fixed),
         NEW items \in Seq(S), Len(items) = Len(l.items)
  PROVE  [l EXCEPT !.items = items] \in Lists(S, fixed)
BY DEF Lists

LEMMA ChangedList ==
  ASSUME NEW S, NEW fixed \in Nat, NEW l \in Lists(S, fixed),
         NEW k \in DOMAIN l.items, NEW item \in S
  PROVE  [l EXCEPT !.items[k] = item] \in Lists(S, fixed)
<1>1. l.items \in Seq(S)
  BY DEF Lists
<1>2. [l.items EXCEPT ![k] = item] \in Seq(S) /\ Len([l.items EXCEPT ![k] = item]) = Len(l.items)
  BY <1>1
<1>3. [l EXCEPT !.items[k] = item] = [l EXCEPT !.items = [l.items EXCEPT ![k] = item]]
  BY ListFacts DEF List
<1>4. QED BY <1>2, <1>3, ReplacedList

LEMMA FunctionSequence ==
  ASSUME NEW S, NEW n \in Nat, NEW f \in [1..n -> S] PROVE f \in Seq(S) /\ Len(f) = n
OBVIOUS

LEMMA ElementType ==
  ASSUME NEW S, NEW fixed \in Nat, NEW l \in Lists(S, fixed), NEW k \in DOMAIN l.items
  PROVE  l.items[k] \in S
<1>1. l.items \in Seq(S)
  BY DEF Lists
<1>2. QED BY <1>1

LEMMA ListDomain ==
  ASSUME NEW S, NEW fixed \in Nat, NEW l \in Lists(S, fixed)
  PROVE  DOMAIN l.items = 1..l.counter
BY DEF Lists

-----------------------------------------------------------------------------
(* The elements of the form, and what filling the selects does to them.    *)

Monkeys == [service : Selects]

FormFits(ms, gen, mon) ==
  ms \in Lists(Microservices, 1) /\ gen \in Lists(Calls, 1) /\ mon \in Lists(Monkeys, 0)

NamesFit(names) == names.all \in SUBSET Input /\ names.first \in Input

Less == {p \in Nat \X Nat : p[1] < p[2]}

LEMMA LessWellFounded == IsWellFoundedOn(Less, Nat)
BY NatLessThanWellFounded DEF Less, OpToRel

LEMMA SmallestExists ==
  ASSUME NEW T, T \subseteq Nat, T # {} PROVE \E s \in T : \A r \in T : s <= r
<1>1. PICK s \in T : \A r \in T : ~(<<r, s>> \in Less)
  BY LessWellFounded, WFMin
<1>2. ASSUME NEW r \in T PROVE s <= r
  <2>1. r \in Nat /\ s \in Nat /\ <<r, s>> \notin Less
    BY <1>1
  <2>2. <<r, s>>[1] = r /\ <<r, s>>[2] = s /\ <<r, s>> \in Nat \X Nat
    BY <2>1
  <2>3. ~(r < s)
    BY <2>1, <2>2 DEF Less
  <2>4. QED BY <2>1, <2>3
<1>3. QED BY <1>2

LEMMA NewFits ==
  /\ Pattern \in {Pattern} /\ NewCall \in Calls /\ NewChaosmonkey \in Monkeys
  /\ NewOperation \in Operations /\ NewMicroservice \in Microservices
<1>1. NoSelect \in Selects
  BY DEF NoSelect, Select, Selects, Input
<1>2. NewCall \in Calls /\ NewChaosmonkey \in Monkeys
  BY <1>1 DEF NewCall, Calls, NewChaosmonkey, Monkeys
<1>3. NewOperation \in Operations
  BY EmptyList DEF NewOperation, Operations, Input
<1>4. List(<<NewOperation>>, 1, {1}, {}) \in Lists(Operations, 1)
  <2>1. <<NewOperation>> \in Seq(Operations) /\ Len(<<NewOperation>>) = 1
    BY <1>3
  <2> DEFINE s == <<NewOperation>>
  <2> HIDE DEF s
  <2>2. List(s, Len(s), {1}, {}) \in Lists(Operations, 1)
    <3>1. Len(s) >= 1 /\ {1} = {Len(s)} /\ {} = IF Len(s) > 1 THEN {Len(s)} ELSE {}
      BY <2>1 DEF s
    <3>2. s \in Seq(Operations) /\ 1 \in Nat
      BY <2>1 DEF s
    <3>3. QED BY <3>1, <3>2, ListOf, Zenon
  <2>3. QED BY <2>1, <2>2 DEF s
<1>5. NewMicroservice \in Microservices
  BY <1>4, EmptyList DEF NewMicroservice, Microservices, Input
<1>6. QED BY <1>2, <1>3, <1>5

LEMMA FilledFits ==
  ASSUME NEW select \in Selects, NEW names, NamesFit(names) PROVE Filled(select, names) \in Selects
BY DEF Selects, NamesFit, Filled, Select

LEMMA ServiceNamesFit == ASSUME NEW json \in Jsons PROVE NamesFit(ServiceNames(json))
<1>1. json.microservices \in Seq(MicroservicesJson) /\ json.microservices # <<>>
  BY DEF Jsons
<1>2. /\ 1 \in DOMAIN json.microservices
      /\ \A s \in DOMAIN json.microservices : json.microservices[s] \in MicroservicesJson
  BY <1>1
<1>3. \A s \in DOMAIN json.microservices : json.microservices[s].name \in Input
  BY <1>2 DEF MicroservicesJson
<1>4. QED BY <1>2, <1>3 DEF NamesFit, ServiceNames, NameList

LEMMA OperationNamesFit ==
  ASSUME NEW json \in Jsons, NEW service PROVE NamesFit(OperationNames(json, service))
<1> DEFINE with == {s \in DOMAIN json.microservices : json.microservices[s].name = service}
           first == CHOOSE s \in with : \A r \in with : s <= r
<1>1. json.microservices \in Seq(MicroservicesJson)
  BY DEF Jsons
<1>2. \A s \in DOMAIN json.microservices :
        json.microservices[s].operations \in Seq(OperationsJson) \ {<<>>}
  <2>1. \A s \in DOMAIN json.microservices : json.microservices[s] \in MicroservicesJson
    BY <1>1
  <2>2. QED BY <2>1 DEF MicroservicesJson
<1>3. \A s \in DOMAIN json.microservices :
        /\ 1 \in DOMAIN json.microservices[s].operations
        /\ \A j \in DOMAIN json.microservices[s].operations :
             json.microservices[s].operations[j].name \in Input
  <2> SUFFICES ASSUME NEW s \in DOMAIN json.microservices
               PROVE  /\ 1 \in DOMAIN json.microservices[s].operations
                      /\ \A j \in DOMAIN json.microservices[s].operations :
                           json.microservices[s].operations[j].name \in Input
    OBVIOUS
  <2> DEFINE ops == json.microservices[s].operations
  <2>1. ops \in Seq(OperationsJson) /\ ops # <<>>
    BY <1>2
  <2> HIDE DEF ops
  <2>2. 1 \in DOMAIN ops /\ \A j \in DOMAIN ops : ops[j] \in OperationsJson
    BY <2>1
  <2>3. \A j \in DOMAIN ops : ops[j].name \in Input
    BY <2>2 DEF OperationsJson
  <2>4. QED BY <2>2, <2>3 DEF ops
<1>4. CASE with = {}
  <2>1. OperationNames(json, service) = NameList({}, NoName)
    BY <1>4 DEF OperationNames
  <2>2. QED BY <2>1 DEF NamesFit, NameList, Input
<1>5. CASE with # {}
  <2>1. with \subseteq Nat /\ with \subseteq DOMAIN json.microservices
    BY <1>1
  <2>2. first \in with
    <3>1. \E s \in with : \A r \in with : s <= r
      <4> HIDE DEF with
      <4>1. QED BY <1>5, <2>1, SmallestExists
    <3>2. QED BY <3>1
  <2>3. OperationNames(json, service) =
          NameList(UNION {{json.microservices[s].operations[j].name :
                             j \in DOMAIN json.microservices[s].operations} : s \in with},
                   json.microservices[first].operations[1].name)
    BY <1>5 DEF OperationNames
  <2> HIDE DEF with, first
  <2>4. QED BY <2>1, <2>2, <2>3, <1>3 DEF NamesFit, NameList
<1>6. QED BY <1>4, <1>5

LEMMA FillOperationFits ==
  ASSUME NEW call \in Calls, NEW json \in Jsons PROVE FillOperation(call, json) \in Calls
<1>1. Filled(call.operation, OperationNames(json, call.service.value)) \in Selects
  BY FilledFits, OperationNamesFit DEF Calls
<1>2. QED BY <1>1 DEF FillOperation, Calls

LEMMA FillCallsFits ==
  ASSUME NEW fixed \in Nat, NEW l \in Lists(Calls, fixed), NEW names, NamesFit(names)
  PROVE  FillCalls(l, names) \in Lists(Calls, fixed)
<1> DEFINE f == [k \in DOMAIN l.items |-> FillCall(l.items[k], names)]
<1>1. \A k \in DOMAIN l.items : FillCall(l.items[k], names) \in Calls
  <2> SUFFICES ASSUME NEW k \in DOMAIN l.items
               PROVE  FillCall(l.items[k], names) \in Calls
    OBVIOUS
  <2>1. l.items[k] \in Calls
    BY ElementType
  <2>2. Filled(l.items[k].service, names) \in Selects
    BY <2>1, FilledFits DEF Calls
  <2>3. QED BY <2>1, <2>2 DEF Calls, FillCall
<1>2. DOMAIN l.items = 1..l.counter /\ l.counter \in Nat /\ l.counter = Len(l.items)
  BY DEF Lists
<1>3. f \in [1..l.counter -> Calls]
  BY <1>1, <1>2
<1> HIDE DEF f
<1>4. f \in Seq(Calls) /\ Len(f) = Len(l.items)
  BY <1>2, <1>3, FunctionSequence, Zenon
<1>5. FillCalls(l, names) = [l EXCEPT !.items = f]
  BY DEF FillCalls, f
<1>6. QED BY <1>4, <1>5, ReplacedList

LEMMA FillMonkeysFits ==
  ASSUME NEW fixed \in Nat, NEW l \in Lists(Monkeys, fixed), NEW names, NamesFit(names)
  PROVE  FillCalls(l, names) \in Lists(Monkeys, fixed)
<1> DEFINE f == [k \in DOMAIN l.items |-> FillCall(l.items[k], names)]
<1>1. \A k \in DOMAIN l.items : FillCall(l.items[k], names) \in Monkeys
  <2> SUFFICES ASSUME NEW k \in DOMAIN l.items
               PROVE  FillCall(l.items[k], names) \in Monkeys
    OBVIOUS
  <2>1. l.items[k] \in Monkeys
    BY ElementType
  <2>2. Filled(l.items[k].service, names) \in Selects
    BY <2>1, FilledFits DEF Monkeys
  <2>3. QED BY <2>1, <2>2 DEF Monkeys, FillCall
<1>2. DOMAIN l.items = 1..l.counter /\ l.counter \in Nat /\ l.counter = Len(l.items)
  BY DEF Lists
<1>3. f \in [1..l.counter -> Monkeys]
  BY <1>1, <1>2
<1> HIDE DEF f
<1>4. f \in Seq(Monkeys) /\ Len(f) = Len(l.items)
  BY <1>2, <1>3, FunctionSequence, Zenon
<1>5. FillCalls(l, names) = [l EXCEPT !.items = f]
  BY DEF FillCalls, f
<1>6. QED BY <1>4, <1>5, ReplacedList

LEMMA FillOperationsFits ==
  ASSUME NEW fixed \in Nat, NEW l \in Lists(Operations, fixed), NEW names, NamesFit(names)
  PROVE  FillOperations(l, names) \in Lists(Operations, fixed)
<1> DEFINE f == [k \in DOMAIN l.items |->
                   FillDependencies(l.items[k], names)]
<1>1. \A k \in DOMAIN l.items :
        FillDependencies(l.items[k], names) \in Operations
  <2> SUFFICES ASSUME NEW k \in DOMAIN l.items
               PROVE  FillDependencies(l.items[k], names) \in Operations
    OBVIOUS
  <2>1. l.items[k] \in Operations
    BY ElementType
  <2>2. FillCalls(l.items[k].dependencies, names) \in Lists(Calls, 0)
    BY <2>1, FillCallsFits DEF Operations
  <2>3. QED BY <2>1, <2>2 DEF Operations, FillDependencies
<1>2. DOMAIN l.items = 1..l.counter /\ l.counter \in Nat /\ l.counter = Len(l.items)
  BY DEF Lists
<1>3. f \in [1..l.counter -> Operations]
  BY <1>1, <1>2
<1> HIDE DEF f
<1>4. f \in Seq(Operations) /\ Len(f) = Len(l.items)
  BY <1>2, <1>3, FunctionSequence, Zenon
<1>5. FillOperations(l, names) = [l EXCEPT !.items = f]
  BY DEF FillOperations, f
<1>6. QED BY <1>4, <1>5, ReplacedList

LEMMA FillServicesFits ==
  ASSUME NEW l \in Lists(Microservices, 1), NEW names, NamesFit(names)
  PROVE  FillServices(l, names) \in Lists(Microservices, 1)
<1> DEFINE f == [k \in DOMAIN l.items |->
                   FillMicroservice(l.items[k], names)]
<1>1. \A k \in DOMAIN l.items :
        FillMicroservice(l.items[k], names) \in Microservices
  <2> SUFFICES ASSUME NEW k \in DOMAIN l.items
               PROVE  FillMicroservice(l.items[k], names) \in Microservices
    OBVIOUS
  <2>1. l.items[k] \in Microservices
    BY ElementType
  <2>2. FillOperations(l.items[k].operations, names) \in Lists(Operations, 1)
    BY <2>1, FillOperationsFits DEF Microservices
  <2>3. QED BY <2>1, <2>2 DEF Microservices, FillMicroservice
<1>2. DOMAIN l.items = 1..l.counter /\ l.counter \in Nat /\ l.counter = Len(l.items)
  BY DEF Lists
<1>3. f \in [1..l.counter -> Microservices]
  BY <1>1, <1>2
<1> HIDE DEF f
<1>4. f \in Seq(Microservices) /\ Len(f) = Len(l.items)
  BY <1>2, <1>3, FunctionSequence, Zenon
<1>5. FillServices(l, names) = [l EXCEPT !.items = f]
  BY DEF FillServices, f
<1>6. QED BY <1>4, <1>5, ReplacedList

-----------------------------------------------------------------------------
(* What is written down of a form that fits.                               *)

LEMMA CallJsonFits == ASSUME NEW call \in Calls PROVE CallJson(call) \in CallsJson
BY DEF Calls, Selects, CallsJson, CallJson

LEMMA OperationJsonFits ==
  ASSUME NEW op \in Operations PROVE OperationJson(op) \in OperationsJson
<1>1. op.opatterns \in Lists({Pattern}, 0) /\ op.dependencies \in Lists(Calls, 0) /\ op.name \in Input
  BY DEF Operations
<1> DEFINE p == [k \in 1..op.opatterns.counter |-> op.opatterns.items[k]]
           d == [k \in 1..op.dependencies.counter |-> CallJson(op.dependencies.items[k])]
<1>2. op.opatterns.counter \in Nat /\ op.dependencies.counter \in Nat
  BY <1>1 DEF Lists
<1>3. p \in [1..op.opatterns.counter -> {Pattern}]
  <2>1. \A k \in 1..op.opatterns.counter : op.opatterns.items[k] \in {Pattern}
    BY <1>1, ListDomain, ElementType, ZenonT(40)
  <2>2. QED BY <2>1
<1>4. d \in [1..op.dependencies.counter -> CallsJson]
  <2>1. \A k \in 1..op.dependencies.counter : CallJson(op.dependencies.items[k]) \in CallsJson
    BY <1>1, ListDomain, ElementType, CallJsonFits
  <2>2. QED BY <2>1
<1> HIDE DEF p, d
<1>5. p \in Seq({Pattern}) /\ d \in Seq(CallsJson)
  BY <1>2, <1>3, <1>4, FunctionSequence, Zenon
<1>6. OperationJson(op) = [name |-> op.name, opatterns |-> p, dependencies |-> d]
  BY DEF OperationJson, p, d
<1>7. QED BY <1>1, <1>5, <1>6 DEF OperationsJson

LEMMA MicroserviceJsonFits ==
  ASSUME NEW ms \in Microservices PROVE MicroserviceJson(ms) \in MicroservicesJson
<1>1. ms.spatterns \in Lists({Pattern}, 0) /\ ms.operations \in Lists(Operations, 1) /\ ms.name \in Input
  BY DEF Microservices
<1> DEFINE p == [k \in 1..ms.spatterns.counter |-> ms.spatterns.items[k]]
           o == [k \in 1..ms.operations.counter |-> OperationJson(ms.operations.items[k])]
<1>2. ms.spatterns.counter \in Nat /\ ms.operations.counter \in Nat /\ ms.operations.counter >= 1
  BY <1>1 DEF Lists
<1>3. p \in [1..ms.spatterns.counter -> {Pattern}]
  <2>1. \A k \in 1..ms.spatterns.counter : ms.spatterns.items[k] \in {Pattern}
    BY <1>1, ListDomain, ElementType, ZenonT(40)
  <2>2. QED BY <2>1
<1>4. o \in [1..ms.operations.counter -> OperationsJson]
  <2>1. \A k \in 1..ms.operations.counter : OperationJson(ms.operations.items[k]) \in OperationsJson
    BY <1>1, ListDomain, ElementType, OperationJsonFits
  <2>2. QED BY <2>1
<1> HIDE DEF p, o
<1>5. p \in Seq({Pattern})
  BY <1>2, <1>3, FunctionSequence, Zenon
<1>9. o \in Seq(OperationsJson) /\ Len(o) = ms.operations.counter
  BY <1>2, <1>4, FunctionSequence, Zenon
<1>6. o # <<>>
  BY <1>2, <1>9
<1>7. MicroserviceJson(ms) = [name |-> ms.name, spatterns |-> p, operations |-> o]
  BY DEF MicroserviceJson, p, o
<1>8. QED BY <1>1, <1>5, <1>6, <1>7, <1>9 DEF MicroservicesJson

LEMMA JsonFits ==
  ASSUME NEW ms, NEW gen, NEW mon, FormFits(ms, gen, mon) PROVE Json(ms, gen, mon) \in Jsons
<1>1. ms \in Lists(Microservices, 1) /\ gen \in Lists(Calls, 1) /\ mon \in Lists(Monkeys, 0)
  BY DEF FormFits
<1> DEFINE s == [k \in 1..ms.counter |-> MicroserviceJson(ms.items[k])]
           g == [k \in 1..gen.counter |-> CallJson(gen.items[k])]
           c == [k \in 1..mon.counter |-> mon.items[k].service.value]
<1>2. ms.counter \in Nat /\ ms.counter >= 1 /\ gen.counter \in Nat /\ mon.counter \in Nat
  BY <1>1 DEF Lists
<1>3. s \in [1..ms.counter -> MicroservicesJson]
  <2>1. \A k \in 1..ms.counter : MicroserviceJson(ms.items[k]) \in MicroservicesJson
    BY <1>1, ListDomain, ElementType, MicroserviceJsonFits
  <2>2. QED BY <2>1
<1>4. g \in [1..gen.counter -> CallsJson]
  <2>1. \A k \in 1..gen.counter : CallJson(gen.items[k]) \in CallsJson
    BY <1>1, ListDomain, ElementType, CallJsonFits
  <2>2. QED BY <2>1
<1>5. c \in [1..mon.counter -> Input]
  <2>1. \A k \in 1..mon.counter : mon.items[k] \in Monkeys
    BY <1>1, ListDomain, ElementType
  <2>2. \A k \in 1..mon.counter : mon.items[k].service.value \in Input
    BY <2>1 DEF Monkeys, Selects
  <2>3. QED BY <2>2
<1> HIDE DEF s, g, c
<1>6. /\ s \in Seq(MicroservicesJson) /\ Len(s) = ms.counter
      /\ g \in Seq(CallsJson) /\ c \in Seq(Input)
  BY <1>2, <1>3, <1>4, <1>5, FunctionSequence, Zenon
<1>7. s # <<>>
  BY <1>2, <1>6
<1>8. Json(ms, gen, mon) = [microservices |-> s, generators |-> g, chaosmonkeys |-> c]
  BY DEF Json, s, g, c
<1>9. QED BY <1>6, <1>7, <1>8 DEF Jsons

LEMMA FormIsReadable ==
  ASSUME NEW ms, NEW gen, NEW mon, FormFits(ms, gen, mon) PROVE Readable(ms, gen, mon)
<1>1. ms \in Lists(Microservices, 1) /\ gen \in Lists(Calls, 1) /\ mon \in Lists(Monkeys, 0)
  BY DEF FormFits
<1>2. ASSUME NEW S, NEW fixed \in Nat, NEW l \in Lists(S, fixed) PROVE Complete(l)
  BY DEF Complete, Lists
<1>3. Complete(ms) /\ Complete(gen) /\ Complete(mon)
  BY <1>1, <1>2
<1>4. ASSUME NEW s \in 1..ms.counter
      PROVE  /\ Complete(ms.items[s].spatterns) /\ Complete(ms.items[s].operations)
             /\ \A o \in 1..ms.items[s].operations.counter :
                  /\ Complete(ms.items[s].operations.items[o].opatterns)
                  /\ Complete(ms.items[s].operations.items[o].dependencies)
  <2>1. ms.items[s] \in Microservices
    BY <1>1, ListDomain, ElementType
  <2>2. ms.items[s].spatterns \in Lists({Pattern}, 0) /\ ms.items[s].operations \in Lists(Operations, 1)
    BY <2>1 DEF Microservices
  <2>3. ASSUME NEW o \in 1..ms.items[s].operations.counter
        PROVE  /\ Complete(ms.items[s].operations.items[o].opatterns)
               /\ Complete(ms.items[s].operations.items[o].dependencies)
    <3>1. ms.items[s].operations.items[o] \in Operations
      BY <2>2, ListDomain, ElementType
    <3>2. /\ ms.items[s].operations.items[o].opatterns \in Lists({Pattern}, 0)
          /\ ms.items[s].operations.items[o].dependencies \in Lists(Calls, 0)
      BY <3>1 DEF Operations
    <3>3. QED BY <3>2, <1>2
  <2>4. QED BY <2>2, <2>3, <1>2
<1>5. QED BY <1>3, <1>4 DEF Readable

-----------------------------------------------------------------------------
(* Edits.                                                                  *)

LEMMA FormFitsNow == EditorInvariant => FormFits(microservices, generators, chaosmonkeys)
BY DEF EditorInvariant, FormFits, Monkeys

LEMMA CreateJsonFits ==
  ASSUME EditorInvariant, error = "none", NEW ms, NEW gen, NEW mon, FormFits(ms, gen, mon),
         CreateJson(ms, gen, mon)
  PROVE  architecture' \in Jsons /\ error' \in {"none", "hang"}
BY FormIsReadable, JsonFits DEF CreateJson

LEMMA InvariantAfter ==
  ASSUME FormFits(microservices, generators, chaosmonkeys)', architecture' \in Jsons,
         error' \in {"none", "hang"}, leftover' \subseteq Nat
  PROVE  EditorInvariant'
BY DEF EditorInvariant, FormFits, Monkeys

LEMMA EditFits ==
  ASSUME EditorInvariant, NEW ms, NEW gen, NEW mon, FormFits(ms, gen, mon), Edit(ms, gen, mon)
  PROVE  EditorInvariant'
<1>1. /\ error = "none" /\ CreateJson(ms, gen, mon) /\ leftover' = leftover
      /\ microservices' = ms /\ generators' = gen /\ chaosmonkeys' = mon
  BY DEF Edit
<1>2. architecture' \in Jsons /\ error' \in {"none", "hang"}
  BY <1>1, CreateJsonFits
<1>3. leftover' \subseteq Nat
  BY <1>1 DEF EditorInvariant
<1>4. FormFits(microservices', generators', chaosmonkeys')
  BY <1>1
<1>5. QED BY <1>2, <1>3, <1>4, InvariantAfter DEF FormFits

LEMMA EditMicroservicesFits ==
  ASSUME EditorInvariant, NEW ms \in Lists(Microservices, 1), EditMicroservices(ms)
  PROVE  EditorInvariant'
<1>1. FormFits(ms, generators, chaosmonkeys)
  BY FormFitsNow DEF FormFits
<1>2. QED BY <1>1, EditFits DEF EditMicroservices

\* One microservice or one operation is different.
LEMMA MicroserviceFits ==
  ASSUME EditorInvariant, NEW s \in DOMAIN microservices.items
  PROVE  /\ microservices.items[s] \in Microservices
         /\ \A name \in Input : [microservices EXCEPT !.items[s].name = name] \in Lists(Microservices, 1)
         /\ \A l \in Lists({Pattern}, 0) :
              [microservices EXCEPT !.items[s].spatterns = l] \in Lists(Microservices, 1)
         /\ \A l \in Lists(Operations, 1) :
              [microservices EXCEPT !.items[s].operations = l] \in Lists(Microservices, 1)
<1>1. microservices \in Lists(Microservices, 1) /\ 1 \in Nat
  BY DEF EditorInvariant
<1>2. microservices.items[s] \in Microservices
  BY <1>1, ElementType, Zenon
<1>3. \A ms \in Microservices : [microservices EXCEPT !.items[s] = ms] \in Lists(Microservices, 1)
  BY <1>1, ChangedList, Zenon
<1>4. ASSUME NEW name \in Input
      PROVE  [microservices EXCEPT !.items[s].name = name] \in Lists(Microservices, 1)
  <2>1. [microservices.items[s] EXCEPT !.name = name] \in Microservices
    BY <1>2 DEF Microservices
  <2>2. QED BY <1>3, <2>1
<1>5. ASSUME NEW l \in Lists({Pattern}, 0)
      PROVE  [microservices EXCEPT !.items[s].spatterns = l] \in Lists(Microservices, 1)
  <2>1. [microservices.items[s] EXCEPT !.spatterns = l] \in Microservices
    BY <1>2 DEF Microservices
  <2>2. QED BY <1>3, <2>1
<1>6. ASSUME NEW l \in Lists(Operations, 1)
      PROVE  [microservices EXCEPT !.items[s].operations = l] \in Lists(Microservices, 1)
  <2>1. [microservices.items[s] EXCEPT !.operations = l] \in Microservices
    BY <1>2 DEF Microservices
  <2>2. QED BY <1>3, <2>1
<1>7. QED BY <1>2, <1>4, <1>5, <1>6

LEMMA OperationFits ==
  ASSUME EditorInvariant, NEW s \in DOMAIN microservices.items,
         NEW o \in DOMAIN microservices.items[s].operations.items
  PROVE  /\ OperationOf(s, o) \in Operations
         /\ \A op \in Operations : WithOperation(s, o, op) \in Lists(Microservices, 1)
<1> DEFINE ops == microservices.items[s].operations
<1>1. ops \in Lists(Operations, 1)
  BY MicroserviceFits DEF Microservices
<1>2. OperationOf(s, o) \in Operations
  BY <1>1, ElementType DEF OperationOf
<1>3. ASSUME NEW op \in Operations PROVE WithOperation(s, o, op) \in Lists(Microservices, 1)
  <2>1. [ops EXCEPT !.items[o] = op] \in Lists(Operations, 1)
    BY <1>1, ChangedList
  <2>2. [microservices EXCEPT !.items[s].operations = [ops EXCEPT !.items[o] = op]]
          \in Lists(Microservices, 1)
    BY <2>1, MicroserviceFits
  <2>3. QED BY <2>2 DEF WithOperation
<1>4. QED BY <1>2, <1>3

LEMMA DependenciesFit ==
  ASSUME EditorInvariant, NEW s \in DOMAIN microservices.items,
         NEW o \in DOMAIN microservices.items[s].operations.items
  PROVE  /\ OperationOf(s, o).dependencies \in Lists(Calls, 0)
         /\ \A l \in Lists(Calls, 0) : WithDependencies(s, o, l) \in Lists(Microservices, 1)
<1>1. OperationOf(s, o) \in Operations
  BY OperationFits
<1>2. ASSUME NEW l \in Lists(Calls, 0) PROVE WithDependencies(s, o, l) \in Lists(Microservices, 1)
  <2>1. [OperationOf(s, o) EXCEPT !.dependencies = l] \in Operations
    BY <1>1 DEF Operations
  <2>2. QED BY <2>1, OperationFits DEF WithDependencies
<1>3. QED BY <1>1, <1>2 DEF Operations

-----------------------------------------------------------------------------
(* One lemma per action.                                                   *)

LEMMA EditOtherFits == ASSUME EditorInvariant, EditOther PROVE EditorInvariant'
BY FormFitsNow, EditFits DEF EditOther

LEMMA FillFits ==
  ASSUME NEW ms, NEW gen, NEW mon, FormFits(ms, gen, mon), NEW names, NamesFit(names)
  PROVE  FormFits(FillServices(ms, names), FillCalls(gen, names), FillCalls(mon, names))
<1>1. ms \in Lists(Microservices, 1) /\ gen \in Lists(Calls, 1) /\ mon \in Lists(Monkeys, 0)
  BY DEF FormFits
<1>2. FillCalls(gen, names) \in Lists(Calls, 1)
  BY <1>1, FillCallsFits
<1>3. FillCalls(mon, names) \in Lists(Monkeys, 0)
  BY <1>1, FillMonkeysFits
<1>4. QED BY <1>1, <1>2, <1>3, FillServicesFits DEF FormFits

LEMMA NameMicroserviceFits ==
  ASSUME EditorInvariant, NEW s \in DOMAIN microservices.items, NEW name \in Input,
         NameMicroservice(s, name)
  PROVE  EditorInvariant'
<1> DEFINE named == [microservices EXCEPT !.items[s].name = name]
           names == ServiceNames(architecture')
<1>1. named \in Lists(Microservices, 1)
  BY MicroserviceFits
<1>2. FormFits(named, generators, chaosmonkeys)
  BY <1>1, FormFitsNow DEF FormFits
<1>3. /\ error = "none" /\ CreateJson(named, generators, chaosmonkeys) /\ leftover' = leftover
      /\ \/ /\ microservices' = FillServices(named, names)
            /\ generators' = FillCalls(generators, names)
            /\ chaosmonkeys' = FillCalls(chaosmonkeys, names)
         \/ microservices' = named /\ generators' = generators /\ chaosmonkeys' = chaosmonkeys
  BY DEF NameMicroservice
<1> HIDE DEF named
<1>4. architecture' \in Jsons /\ error' \in {"none", "hang"}
  BY <1>2, <1>3, CreateJsonFits
<1>5. NamesFit(names)
  BY <1>4, ServiceNamesFit
<1> HIDE DEF names
<1>6. FormFits(FillServices(named, names), FillCalls(generators, names), FillCalls(chaosmonkeys, names))
  BY <1>2, <1>5, FillFits
<1>7. FormFits(microservices', generators', chaosmonkeys')
  BY <1>2, <1>3, <1>6
<1>8. leftover' \subseteq Nat
  BY <1>3 DEF EditorInvariant
<1>9. QED BY <1>4, <1>7, <1>8, InvariantAfter DEF FormFits

LEMMA AddMicroserviceFits ==
  ASSUME EditorInvariant, NEW k \in microservices.adds, AddMicroservice(k) PROVE EditorInvariant'
<1>1. microservices \in Lists(Microservices, 1) /\ 1 \in Nat
  BY DEF EditorInvariant
<1>2. CASE k + 1 \in leftover
  BY <1>2 DEF AddMicroservice, EditorInvariant, form
<1>3. CASE k + 1 \notin leftover
  <2>1. Made(microservices, k, 1, NewMicroservice) \in Lists(Microservices, 1)
    BY <1>1, NewFits, MadeList, Zenon
  <2>2. EditMicroservices(Made(microservices, k, 1, NewMicroservice))
    BY <1>3 DEF AddMicroservice
  <2>3. QED BY <2>1, <2>2, EditMicroservicesFits
<1>4. QED BY <1>2, <1>3

LEMMA RemoveMicroserviceFits ==
  ASSUME EditorInvariant, NEW k \in microservices.removes, RemoveMicroservice(k)
  PROVE  EditorInvariant'
<1>1. microservices \in Lists(Microservices, 1) /\ 1 \in Nat
  BY DEF EditorInvariant
<1>2. Removed(microservices, k, 1) \in Lists(Microservices, 1)
  BY <1>1, RemovedList, Zenon
<1>3. k \in Nat
  BY <1>1 DEF Lists
<1>4. QED BY <1>2, <1>3 DEF RemoveMicroservice, EditorInvariant

LEMMA EditServicePatternsFits ==
  ASSUME EditorInvariant, NEW s \in DOMAIN microservices.items, EditServicePatterns(s)
  PROVE  EditorInvariant'
<1> DEFINE l == microservices.items[s].spatterns
<1>1. l \in Lists({Pattern}, 0) /\ 0 \in Nat /\ Pattern \in {Pattern}
  BY MicroserviceFits DEF Microservices
<1>2. PICK patterns \in Lists({Pattern}, 0) :
        EditMicroservices([microservices EXCEPT !.items[s].spatterns = patterns])
  <2>1. \A k \in l.adds : Made(l, k, 0, Pattern) \in Lists({Pattern}, 0)
    BY <1>1, MadeList, Zenon
  <2>2. \A k \in l.removes : Removed(l, k, 0) \in Lists({Pattern}, 0)
    BY <1>1, RemovedList, Zenon
  <2>3. QED BY <2>1, <2>2 DEF EditServicePatterns
<1>3. QED BY <1>2, MicroserviceFits, EditMicroservicesFits

LEMMA AddOperationFits ==
  ASSUME EditorInvariant, NEW s \in DOMAIN microservices.items, AddOperation(s)
  PROVE  EditorInvariant'
<1> DEFINE l == microservices.items[s].operations
<1>1. l \in Lists(Operations, 1) /\ 1 \in Nat
  BY MicroserviceFits DEF Microservices
<1>2. PICK k \in l.adds :
        EditMicroservices([microservices EXCEPT !.items[s].operations = Made(l, k, 1, NewOperation)])
  BY DEF AddOperation
<1>3. Made(l, k, 1, NewOperation) \in Lists(Operations, 1)
  BY <1>1, MadeList, NewFits, Zenon
<1>4. QED BY <1>2, <1>3, MicroserviceFits, EditMicroservicesFits

LEMMA RemoveOperationFits ==
  ASSUME EditorInvariant, NEW s \in DOMAIN microservices.items, RemoveOperation(s)
  PROVE  EditorInvariant'
<1> DEFINE l == microservices.items[s].operations
<1>1. l \in Lists(Operations, 1) /\ 1 \in Nat
  BY MicroserviceFits DEF Microservices
<1>2. PICK k \in l.removes :
        EditMicroservices([microservices EXCEPT !.items[s].operations = Removed(l, k, 1)])
  BY DEF RemoveOperation
<1>3. Removed(l, k, 1) \in Lists(Operations, 1)
  BY <1>1, RemovedList, Zenon
<1>4. QED BY <1>2, <1>3, MicroserviceFits, EditMicroservicesFits

LEMMA NameOperationFits ==
  ASSUME EditorInvariant, NEW s \in DOMAIN microservices.items,
         NEW o \in DOMAIN microservices.items[s].operations.items,
         NEW name \in Input, NameOperation(s, o, name)
  PROVE  EditorInvariant'
<1>1. [OperationOf(s, o) EXCEPT !.name = name] \in Operations
  BY OperationFits DEF Operations
<1>2. WithOperation(s, o, [OperationOf(s, o) EXCEPT !.name = name]) \in Lists(Microservices, 1)
  BY <1>1, OperationFits
<1>3. QED BY <1>2, EditMicroservicesFits DEF NameOperation

LEMMA EditOperationPatternsFits ==
  ASSUME EditorInvariant, NEW s \in DOMAIN microservices.items,
         NEW o \in DOMAIN microservices.items[s].operations.items, EditOperationPatterns(s, o)
  PROVE  EditorInvariant'
<1> DEFINE l == OperationOf(s, o).opatterns
<1>1. l \in Lists({Pattern}, 0) /\ 0 \in Nat /\ Pattern \in {Pattern}
  BY OperationFits DEF Operations
<1>2. PICK patterns \in Lists({Pattern}, 0) :
        EditMicroservices(WithOperation(s, o, [OperationOf(s, o) EXCEPT !.opatterns = patterns]))
  <2>1. \A k \in l.adds : Made(l, k, 0, Pattern) \in Lists({Pattern}, 0)
    BY <1>1, MadeList, Zenon
  <2>2. \A k \in l.removes : Removed(l, k, 0) \in Lists({Pattern}, 0)
    BY <1>1, RemovedList, Zenon
  <2>3. QED BY <2>1, <2>2 DEF EditOperationPatterns
<1>3. [OperationOf(s, o) EXCEPT !.opatterns = patterns] \in Operations
  BY OperationFits DEF Operations
<1>4. WithOperation(s, o, [OperationOf(s, o) EXCEPT !.opatterns = patterns]) \in Lists(Microservices, 1)
  BY <1>3, OperationFits
<1>5. QED BY <1>2, <1>4, EditMicroservicesFits

LEMMA AddDependencyFits ==
  ASSUME EditorInvariant, NEW s \in DOMAIN microservices.items,
         NEW o \in DOMAIN microservices.items[s].operations.items, AddDependency(s, o)
  PROVE  EditorInvariant'
<1> DEFINE l == OperationOf(s, o).dependencies
           names == ServiceNames(architecture)
<1>1. l \in Lists(Calls, 0) /\ 0 \in Nat
  BY DependenciesFit
<1>2. NamesFit(names)
  BY ServiceNamesFit DEF EditorInvariant
<1>3. PICK k \in l.adds :
        Edit(FillServices(WithDependencies(s, o, Made(l, k, 0, NewCall)), names),
             FillCalls(generators, names), FillCalls(chaosmonkeys, names))
  BY DEF AddDependency
<1>4. Made(l, k, 0, NewCall) \in Lists(Calls, 0)
  BY <1>1, MadeList, NewFits, Zenon
<1>5. WithDependencies(s, o, Made(l, k, 0, NewCall)) \in Lists(Microservices, 1)
  BY <1>4, DependenciesFit
<1> HIDE DEF names, l
<1>6. FormFits(WithDependencies(s, o, Made(l, k, 0, NewCall)), generators, chaosmonkeys)
  BY <1>5, FormFitsNow DEF FormFits
<1>7. FormFits(FillServices(WithDependencies(s, o, Made(l, k, 0, NewCall)), names),
               FillCalls(generators, names), FillCalls(chaosmonkeys, names))
  BY <1>2, <1>6, FillFits
<1>8. QED BY <1>3, <1>7, EditFits

LEMMA RemoveDependencyFits ==
  ASSUME EditorInvariant, NEW s \in DOMAIN microservices.items,
         NEW o \in DOMAIN microservices.items[s].operations.items, RemoveDependency(s, o)
  PROVE  EditorInvariant'
<1> DEFINE l == OperationOf(s, o).dependencies
<1>1. l \in Lists(Calls, 0) /\ 0 \in Nat
  BY DependenciesFit
<1>2. PICK k \in l.removes : EditMicroservices(WithDependencies(s, o, Removed(l, k, 0)))
  BY DEF RemoveDependency
<1>3. Removed(l, k, 0) \in Lists(Calls, 0)
  BY <1>1, RemovedList, Zenon
<1>4. WithDependencies(s, o, Removed(l, k, 0)) \in Lists(Microservices, 1)
  BY <1>3, DependenciesFit
<1>5. QED BY <1>2, <1>4, EditMicroservicesFits

LEMMA EditGeneratorsFits == ASSUME EditorInvariant, EditGenerators PROVE EditorInvariant'
<1>1. /\ microservices \in Lists(Microservices, 1) /\ generators \in Lists(Calls, 1)
      /\ chaosmonkeys \in Lists(Monkeys, 0) /\ 1 \in Nat
  BY DEF EditorInvariant, Monkeys
<1>2. \A k \in generators.adds : Made(generators, k, 1, NewCall) \in Lists(Calls, 1)
  BY <1>1, MadeList, NewFits, Zenon
<1>3. \A k \in generators.removes : Removed(generators, k, 1) \in Lists(Calls, 1)
  BY <1>1, RemovedList, Zenon
<1>4. PICK gen \in Lists(Calls, 1) : Edit(microservices, gen, chaosmonkeys)
  BY <1>2, <1>3 DEF EditGenerators
<1>5. FormFits(microservices, gen, chaosmonkeys)
  BY <1>1 DEF FormFits
<1>6. QED BY <1>4, <1>5, EditFits

LEMMA EditChaosmonkeysFits == ASSUME EditorInvariant, EditChaosmonkeys PROVE EditorInvariant'
<1>1. /\ microservices \in Lists(Microservices, 1) /\ generators \in Lists(Calls, 1)
      /\ chaosmonkeys \in Lists(Monkeys, 0) /\ 0 \in Nat
  BY DEF EditorInvariant, Monkeys
<1>2. \A k \in chaosmonkeys.adds : Made(chaosmonkeys, k, 0, NewChaosmonkey) \in Lists(Monkeys, 0)
  BY <1>1, MadeList, NewFits, Zenon
<1>3. \A k \in chaosmonkeys.removes : Removed(chaosmonkeys, k, 0) \in Lists(Monkeys, 0)
  BY <1>1, RemovedList, Zenon
<1>4. PICK mon \in Lists(Monkeys, 0) : Edit(microservices, generators, mon)
  BY <1>2, <1>3 DEF EditChaosmonkeys
<1>5. FormFits(microservices, generators, mon)
  BY <1>1 DEF FormFits
<1>6. QED BY <1>4, <1>5, EditFits

\* Choosing in a select
LEMMA CallFits ==
  ASSUME NEW call \in Calls
  PROVE  /\ call.service.options \subseteq Input /\ call.operation.options \subseteq Input
         /\ \A name \in Input : [call EXCEPT !.service.value = name] \in Calls
         /\ \A name \in Input : [call EXCEPT !.operation.value = name] \in Calls
BY DEF Calls, Selects

\* One call is different.
LEMMA GeneratorFits ==
  ASSUME EditorInvariant, NEW g \in DOMAIN generators.items
  PROVE  /\ generators.items[g] \in Calls
         /\ \A call \in Calls : [generators EXCEPT !.items[g] = call] \in Lists(Calls, 1)
<1>1. generators \in Lists(Calls, 1) /\ 1 \in Nat
  BY DEF EditorInvariant
<1>2. QED BY <1>1, ElementType, ChangedList, Zenon

LEMMA DependencyFits ==
  ASSUME EditorInvariant, NEW s \in DOMAIN microservices.items,
         NEW o \in DOMAIN microservices.items[s].operations.items,
         NEW l, l = OperationOf(s, o).dependencies, NEW d \in DOMAIN l.items
  PROVE  /\ l.items[d] \in Calls
         /\ \A call \in Calls :
              WithDependencies(s, o, [l EXCEPT !.items[d] = call]) \in Lists(Microservices, 1)
<1>1. l \in Lists(Calls, 0) /\ 0 \in Nat
  BY DependenciesFit
<1>2. l.items[d] \in Calls
  BY <1>1, ElementType, Zenon
<1>3. \A call \in Calls : [l EXCEPT !.items[d] = call] \in Lists(Calls, 0)
  BY <1>1, ChangedList, Zenon
<1>4. QED BY <1>2, <1>3, DependenciesFit

LEMMA ClickServiceFits == ASSUME EditorInvariant, ClickService PROVE EditorInvariant'
<1>1. architecture \in Jsons
  BY DEF EditorInvariant
<1>2. /\ microservices' \in Lists(Microservices, 1) /\ generators' \in Lists(Calls, 1)
      /\ UNCHANGED <<chaosmonkeys, architecture, leftover, error>>
  <2>1. microservices \in Lists(Microservices, 1) /\ generators \in Lists(Calls, 1)
    BY DEF EditorInvariant
  <2>2. UNCHANGED <<chaosmonkeys, architecture, leftover, error>>
    BY DEF ClickService
  <2>3. CASE \E s \in DOMAIN microservices.items :
               \E o \in DOMAIN microservices.items[s].operations.items :
                 LET l == OperationOf(s, o).dependencies
                 IN  \E d \in DOMAIN l.items :
                       /\ microservices' = WithDependencies(s, o,
                            [l EXCEPT !.items[d] = FillOperation(l.items[d], architecture)])
                       /\ UNCHANGED generators
    <3>6. PICK s \in DOMAIN microservices.items :
            \E o \in DOMAIN microservices.items[s].operations.items :
              \E d \in DOMAIN OperationOf(s, o).dependencies.items :
                /\ microservices' = WithDependencies(s, o,
                     [OperationOf(s, o).dependencies EXCEPT !.items[d] =
                        FillOperation(OperationOf(s, o).dependencies.items[d], architecture)])
                /\ generators' = generators
      BY <2>3
    <3>7. PICK o \in DOMAIN microservices.items[s].operations.items :
            \E d \in DOMAIN OperationOf(s, o).dependencies.items :
              /\ microservices' = WithDependencies(s, o,
                   [OperationOf(s, o).dependencies EXCEPT !.items[d] =
                      FillOperation(OperationOf(s, o).dependencies.items[d], architecture)])
              /\ generators' = generators
      BY <3>6
    <3>1. PICK d \in DOMAIN OperationOf(s, o).dependencies.items :
            /\ microservices' = WithDependencies(s, o,
                 [OperationOf(s, o).dependencies EXCEPT !.items[d] =
                    FillOperation(OperationOf(s, o).dependencies.items[d], architecture)])
            /\ generators' = generators
      BY <3>7
    <3> DEFINE l == OperationOf(s, o).dependencies
    <3>3. l.items[d] \in Calls
      BY DependencyFits
    <3>4. FillOperation(l.items[d], architecture) \in Calls
      BY <1>1, <3>3, FillOperationFits
    <3>5. QED BY <2>1, <2>2, <3>1, <3>4, DependencyFits
  <2>4. CASE \E g \in DOMAIN generators.items :
               /\ generators' =
                    [generators EXCEPT !.items[g] = FillOperation(generators.items[g], architecture)]
               /\ UNCHANGED microservices
    <3>1. PICK g \in DOMAIN generators.items :
            /\ generators' =
                 [generators EXCEPT !.items[g] = FillOperation(generators.items[g], architecture)]
            /\ UNCHANGED microservices
      BY <2>4
    <3>2. FillOperation(generators.items[g], architecture) \in Calls
      BY <1>1, GeneratorFits, FillOperationFits
    <3>3. QED BY <2>1, <2>2, <3>1, <3>2, GeneratorFits
  <2>5. QED BY <2>3, <2>4 DEF ClickService
<1>3. QED BY <1>2 DEF EditorInvariant

LEMMA ChooseDependencyServiceFits ==
  ASSUME EditorInvariant, NEW s \in DOMAIN microservices.items,
         NEW o \in DOMAIN microservices.items[s].operations.items,
         NEW d \in DOMAIN OperationOf(s, o).dependencies.items, ChooseDependencyService(s, o, d)
  PROVE  EditorInvariant'
<1> DEFINE l == OperationOf(s, o).dependencies
           With(call) == WithDependencies(s, o, [l EXCEPT !.items[d] = call])
           chosen(name) == [l.items[d] EXCEPT !.service.value = name]
<1>1. l.items[d] \in Calls
  BY DependencyFits
<1>2. \A call \in Calls : With(call) \in Lists(Microservices, 1)
  BY DependencyFits
<1>3. PICK name \in l.items[d].service.options :
        /\ error = "none" /\ CreateJson(With(chosen(name)), generators, chaosmonkeys)
        /\ microservices' = With(IF error' = "none"
                                 THEN FillOperation(chosen(name), architecture') ELSE chosen(name))
        /\ UNCHANGED <<generators, chaosmonkeys, leftover>>
  BY DEF ChooseDependencyService
<1>4. chosen(name) \in Calls
  BY <1>1, <1>3, CallFits
<1> HIDE DEF l, With, chosen
<1>5. FormFits(With(chosen(name)), generators, chaosmonkeys)
  BY <1>2, <1>4, FormFitsNow DEF FormFits
<1>6. architecture' \in Jsons /\ error' \in {"none", "hang"}
  BY <1>3, <1>5, CreateJsonFits
<1>7. FillOperation(chosen(name), architecture') \in Calls
  BY <1>4, <1>6, FillOperationFits
<1>8. microservices' \in Lists(Microservices, 1)
  BY <1>2, <1>3, <1>4, <1>7
<1>9. QED BY <1>3, <1>6, <1>8 DEF EditorInvariant

LEMMA ChooseGeneratorServiceFits ==
  ASSUME EditorInvariant, NEW g \in DOMAIN generators.items, ChooseGeneratorService(g)
  PROVE  EditorInvariant'
<1> DEFINE With(call) == [generators EXCEPT !.items[g] = call]
           chosen(name) == [generators.items[g] EXCEPT !.service.value = name]
<1>1. generators.items[g] \in Calls
  BY GeneratorFits
<1>2. \A call \in Calls : With(call) \in Lists(Calls, 1)
  BY GeneratorFits
<1>3. PICK name \in generators.items[g].service.options :
        /\ error = "none" /\ CreateJson(microservices, With(chosen(name)), chaosmonkeys)
        /\ generators' = With(IF error' = "none"
                              THEN FillOperation(chosen(name), architecture') ELSE chosen(name))
        /\ UNCHANGED <<microservices, chaosmonkeys, leftover>>
  BY DEF ChooseGeneratorService
<1>4. chosen(name) \in Calls
  BY <1>1, <1>3, CallFits
<1> HIDE DEF With, chosen
<1>5. FormFits(microservices, With(chosen(name)), chaosmonkeys)
  BY <1>2, <1>4, FormFitsNow DEF FormFits
<1>6. architecture' \in Jsons /\ error' \in {"none", "hang"}
  BY <1>3, <1>5, CreateJsonFits
<1>7. FillOperation(chosen(name), architecture') \in Calls
  BY <1>4, <1>6, FillOperationFits
<1>8. generators' \in Lists(Calls, 1)
  BY <1>2, <1>3, <1>4, <1>7
<1>9. QED BY <1>3, <1>6, <1>8 DEF EditorInvariant

LEMMA ChooseChaosmonkeyServiceFits ==
  ASSUME EditorInvariant, NEW c \in DOMAIN chaosmonkeys.items, ChooseChaosmonkeyService(c)
  PROVE  EditorInvariant'
<1>1. chaosmonkeys \in Lists(Monkeys, 0) /\ 0 \in Nat
  BY DEF EditorInvariant, Monkeys
<1>2. chaosmonkeys.items[c] \in Monkeys
  BY <1>1, ElementType, Zenon
<1>3. PICK name \in chaosmonkeys.items[c].service.options :
        Edit(microservices, generators, [chaosmonkeys EXCEPT !.items[c].service.value = name])
  BY DEF ChooseChaosmonkeyService
<1>4. [chaosmonkeys.items[c] EXCEPT !.service.value = name] \in Monkeys
  BY <1>2, <1>3 DEF Monkeys, Selects
<1>5. [chaosmonkeys EXCEPT !.items[c] = [chaosmonkeys.items[c] EXCEPT !.service.value = name]]
        \in Lists(Monkeys, 0)
  BY <1>1, <1>4, ChangedList, Zenon
<1>6. FormFits(microservices, generators, [chaosmonkeys EXCEPT !.items[c].service.value = name])
  BY <1>5, FormFitsNow DEF FormFits
<1>7. QED BY <1>3, <1>6, EditFits

LEMMA ChooseDependencyOperationFits ==
  ASSUME EditorInvariant, NEW s \in DOMAIN microservices.items,
         NEW o \in DOMAIN microservices.items[s].operations.items,
         NEW d \in DOMAIN OperationOf(s, o).dependencies.items, ChooseDependencyOperation(s, o, d)
  PROVE  EditorInvariant'
<1> DEFINE l == OperationOf(s, o).dependencies
<1>1. l.items[d] \in Calls
  BY DependencyFits
<1>2. PICK name \in l.items[d].operation.options :
        /\ microservices' = WithDependencies(s, o, [l EXCEPT !.items[d].operation.value = name])
        /\ UNCHANGED <<generators, chaosmonkeys, architecture, leftover, error>>
  BY DEF ChooseDependencyOperation
<1>3. [l.items[d] EXCEPT !.operation.value = name] \in Calls
  BY <1>1, <1>2, CallFits
<1>4. WithDependencies(s, o, [l EXCEPT !.items[d] = [l.items[d] EXCEPT !.operation.value = name]])
        \in Lists(Microservices, 1)
  BY <1>3, DependencyFits
<1>5. microservices' \in Lists(Microservices, 1)
  BY <1>2, <1>4
<1>6. QED BY <1>2, <1>5 DEF EditorInvariant

LEMMA ChooseGeneratorOperationFits ==
  ASSUME EditorInvariant, NEW g \in DOMAIN generators.items, ChooseGeneratorOperation(g)
  PROVE  EditorInvariant'
<1>1. PICK name \in generators.items[g].operation.options :
        Edit(microservices, [generators EXCEPT !.items[g].operation.value = name], chaosmonkeys)
  BY DEF ChooseGeneratorOperation
<1>2. [generators.items[g] EXCEPT !.operation.value = name] \in Calls
  BY <1>1, GeneratorFits, CallFits
<1>3. [generators EXCEPT !.items[g] = [generators.items[g] EXCEPT !.operation.value = name]]
        \in Lists(Calls, 1)
  BY <1>2, GeneratorFits
<1>4. FormFits(microservices, [generators EXCEPT !.items[g].operation.value = name], chaosmonkeys)
  BY <1>3, FormFitsNow DEF FormFits
<1>5. QED BY <1>1, <1>4, EditFits

-----------------------------------------------------------------------------
LEMMA InitFits == Init => EditorInvariant
<1> SUFFICES ASSUME Init PROVE EditorInvariant
  OBVIOUS
<1>1. ASSUME NEW S, NEW item \in S PROVE List(<<item>>, 1, {1}, {}) \in Lists(S, 1)
  <2>1. <<item>> \in Seq(S) /\ Len(<<item>>) = 1 /\ 1 \in Nat
    OBVIOUS
  <2> DEFINE items == <<item>>
  <2> HIDE DEF items
  <2>2. Len(items) >= 1 /\ {1} = {Len(items)} /\ {} = IF Len(items) > 1 THEN {Len(items)} ELSE {}
    BY <2>1 DEF items
  <2>3. items \in Seq(S) /\ Len(items) = 1 /\ 1 \in Nat
    BY <2>1 DEF items
  <2>4. List(items, Len(items), {1}, {}) \in Lists(S, 1)
    BY <2>2, <2>3, ListOf, Zenon
  <2>5. QED BY <2>3, <2>4 DEF items
<1>2. microservices \in Lists(Microservices, 1) /\ generators \in Lists(Calls, 1)
  BY <1>1, NewFits DEF Init
<1>3. chaosmonkeys \in Lists(Monkeys, 0)
  BY EmptyList DEF Init
<1>4. FormFits(microservices, generators, chaosmonkeys)
  BY <1>2, <1>3 DEF FormFits
<1>5. architecture \in Jsons
  BY <1>4, JsonFits DEF Init
<1>6. QED BY <1>2, <1>3, <1>5 DEF Init, EditorInvariant, Monkeys

LEMMA NextFits == ASSUME EditorInvariant, [Next]_vars PROVE EditorInvariant'
<1>1. CASE UNCHANGED vars
  BY <1>1 DEF vars, EditorInvariant
<1>2. ASSUME NEW s \in DOMAIN microservices.items, EditMicroservice(s) PROVE EditorInvariant'
  BY <1>2, NameMicroserviceFits, EditServicePatternsFits, AddOperationFits, RemoveOperationFits
     DEF EditMicroservice
<1>3. ASSUME NEW s \in DOMAIN microservices.items,
             NEW o \in DOMAIN microservices.items[s].operations.items, EditOperation(s, o)
      PROVE  EditorInvariant'
  <2>1. OperationInput \subseteq Input
    BY FormatterAssumption DEF Input
  <2>2. QED BY <1>3, <2>1, NameOperationFits, EditOperationPatternsFits, AddDependencyFits,
               RemoveDependencyFits, ChooseDependencyServiceFits, ChooseDependencyOperationFits
            DEF EditOperation
<1>4. QED
  BY <1>1, <1>2, <1>3, EditOtherFits, AddMicroserviceFits, RemoveMicroserviceFits,
     EditGeneratorsFits, EditChaosmonkeysFits, ClickServiceFits, ChooseGeneratorServiceFits,
     ChooseGeneratorOperationFits, ChooseChaosmonkeyServiceFits
  DEF Next

\* Whatever a user does to the form, its lists, counters and buttons agree,
\* everything that is counted can be read, and the script fails only after
\* a microservice was removed.
THEOREM EditorInvariantHolds == Spec => []EditorInvariant
<1>1. Init => EditorInvariant
  BY InitFits
<1>2. EditorInvariant /\ [Next]_vars => EditorInvariant'
  BY NextFits
<1>3. QED BY <1>1, <1>2, PTL DEF Spec

-----------------------------------------------------------------------------
(* What is written down follows the form: outlines of the form itself, and *)
(* what keeps them.                                                        *)

OperationOutline(op) ==
  [name |-> op.name, opatterns |-> op.opatterns.counter,
   dependencies |-> op.dependencies.counter]

ServiceOutline(ms) ==
  [name |-> ms.name, spatterns |-> ms.spatterns.counter,
   operations |-> [o \in 1..ms.operations.counter |-> OperationOutline(ms.operations.items[o])]]

FormOutline(ms, gen, mon) ==
  [microservices |-> [s \in 1..ms.counter |-> ServiceOutline(ms.items[s])],
   generators |-> gen.counter, chaosmonkeys |-> mon.counter]

LEMMA LengthOf ==
  ASSUME NEW S, NEW f \in Seq(S), NEW n \in Nat, DOMAIN f = 1..n PROVE Len(f) = n
<1>1. DOMAIN f = 1..Len(f) /\ Len(f) \in Nat
  OBVIOUS
<1>2. QED BY <1>1

LEMMA CounterIsNat ==
  ASSUME NEW S, NEW fixed \in Nat, NEW l \in Lists(S, fixed) PROVE l.counter \in Nat
BY DEF Lists

LEMMA OutlineOfOperation ==
  ASSUME NEW op \in Operations
  PROVE  LET json == OperationJson(op)
         IN  [name |-> json.name, opatterns |-> Len(json.opatterns),
              dependencies |-> Len(json.dependencies)] = OperationOutline(op)
<1>1. op.opatterns.counter \in Nat /\ op.dependencies.counter \in Nat
  BY CounterIsNat DEF Operations
<1>2. OperationJson(op).opatterns \in Seq({Pattern}) /\ OperationJson(op).dependencies \in Seq(CallsJson)
  BY OperationJsonFits DEF OperationsJson
<1>3. /\ DOMAIN OperationJson(op).opatterns = 1..op.opatterns.counter
      /\ DOMAIN OperationJson(op).dependencies = 1..op.dependencies.counter
      /\ OperationJson(op).name = op.name
  BY DEF OperationJson
<1>4. Len(OperationJson(op).opatterns) = op.opatterns.counter
  BY <1>1, <1>2, <1>3, LengthOf, Zenon
<1>5. Len(OperationJson(op).dependencies) = op.dependencies.counter
  BY <1>1, <1>2, <1>3, LengthOf, Zenon
<1>6. QED BY <1>3, <1>4, <1>5 DEF OperationOutline

LEMMA OutlineOfService ==
  ASSUME NEW ms \in Microservices
  PROVE  LET json == MicroserviceJson(ms)
         IN  [name |-> json.name, spatterns |-> Len(json.spatterns),
              operations |-> [o \in DOMAIN json.operations |->
                LET op == json.operations[o]
                IN  [name |-> op.name, opatterns |-> Len(op.opatterns),
                     dependencies |-> Len(op.dependencies)]]] = ServiceOutline(ms)
<1> DEFINE json == MicroserviceJson(ms)
<1>1. ms.spatterns.counter \in Nat /\ ms.operations \in Lists(Operations, 1)
  BY CounterIsNat DEF Microservices
<1>2. json.spatterns \in Seq({Pattern})
  BY MicroserviceJsonFits DEF MicroservicesJson
<1>3. /\ DOMAIN json.spatterns = 1..ms.spatterns.counter
      /\ DOMAIN json.operations = 1..ms.operations.counter
      /\ \A o \in 1..ms.operations.counter :
           json.operations[o] = OperationJson(ms.operations.items[o])
      /\ json.name = ms.name
  BY DEF MicroserviceJson
<1> HIDE DEF json
<1>4. Len(json.spatterns) = ms.spatterns.counter
  BY <1>1, <1>2, <1>3, LengthOf, Zenon
<1>5. ASSUME NEW o \in 1..ms.operations.counter
      PROVE  [name |-> json.operations[o].name, opatterns |-> Len(json.operations[o].opatterns),
              dependencies |-> Len(json.operations[o].dependencies)]
               = OperationOutline(ms.operations.items[o])
  <2>1. ms.operations.items[o] \in Operations
    BY <1>1, ListDomain, ElementType
  <2>2. QED BY <2>1, <1>3, OutlineOfOperation
<1>6. [o \in DOMAIN json.operations |->
         [name |-> json.operations[o].name, opatterns |-> Len(json.operations[o].opatterns),
          dependencies |-> Len(json.operations[o].dependencies)]]
        = [o \in 1..ms.operations.counter |-> OperationOutline(ms.operations.items[o])]
  BY <1>3, <1>5
<1>7. QED BY <1>3, <1>4, <1>6 DEF ServiceOutline, json

LEMMA OutlineOfForm ==
  ASSUME NEW ms, NEW gen, NEW mon, FormFits(ms, gen, mon)
  PROVE  Outline(Json(ms, gen, mon)) = FormOutline(ms, gen, mon)
<1> DEFINE json == Json(ms, gen, mon)
<1>1. ms \in Lists(Microservices, 1) /\ gen \in Lists(Calls, 1) /\ mon \in Lists(Monkeys, 0)
  BY DEF FormFits
<1>2. gen.counter \in Nat /\ mon.counter \in Nat
  BY <1>1, CounterIsNat
<1>3. json.generators \in Seq(CallsJson) /\ json.chaosmonkeys \in Seq(Input)
  BY JsonFits DEF Jsons
<1>4. /\ DOMAIN json.generators = 1..gen.counter /\ DOMAIN json.chaosmonkeys = 1..mon.counter
      /\ DOMAIN json.microservices = 1..ms.counter
      /\ \A s \in 1..ms.counter : json.microservices[s] = MicroserviceJson(ms.items[s])
  BY DEF Json
<1> HIDE DEF json
<1>5. Len(json.generators) = gen.counter
  BY <1>2, <1>3, <1>4, LengthOf, Zenon
<1>6. Len(json.chaosmonkeys) = mon.counter
  BY <1>2, <1>3, <1>4, LengthOf, Zenon
<1>7. ASSUME NEW s \in 1..ms.counter
      PROVE  LET service == json.microservices[s]
             IN  [name |-> service.name, spatterns |-> Len(service.spatterns),
                  operations |-> [o \in DOMAIN service.operations |->
                    LET op == service.operations[o]
                    IN  [name |-> op.name, opatterns |-> Len(op.opatterns),
                         dependencies |-> Len(op.dependencies)]]] = ServiceOutline(ms.items[s])
  <2>1. ms.items[s] \in Microservices
    BY <1>1, ListDomain, ElementType
  <2>2. QED BY <2>1, <1>4, OutlineOfService
<1>8. QED BY <1>4, <1>5, <1>6, <1>7 DEF Outline, FormOutline, json

LEMMA FollowsWhenSameOutline ==
  ASSUME FormFits(microservices, generators, chaosmonkeys)',
         NEW ms, NEW gen, NEW mon, FormFits(ms, gen, mon),
         FormOutline(microservices, generators, chaosmonkeys)' = FormOutline(ms, gen, mon),
         leftover' = {} => Outline(architecture)' = Outline(Json(ms, gen, mon))
  PROVE  JsonFollowsForm'
<1>1. FormFits(microservices', generators', chaosmonkeys')
  BY DEF FormFits
<1>2. Outline(Json(microservices', generators', chaosmonkeys'))
        = FormOutline(microservices', generators', chaosmonkeys')
  BY <1>1, OutlineOfForm
<1>3. Outline(Json(ms, gen, mon)) = FormOutline(ms, gen, mon)
  BY OutlineOfForm
<1>4. FormOutline(microservices', generators', chaosmonkeys') = FormOutline(ms, gen, mon)
  OBVIOUS
<1>5. Outline(Json(microservices, generators, chaosmonkeys))'
        = Outline(Json(microservices', generators', chaosmonkeys'))
  OBVIOUS
<1>6. QED BY <1>2, <1>3, <1>4, <1>5 DEF JsonFollowsForm

\* Filling the selects changes no outline.
LEMMA FillCallsOutline ==
  ASSUME NEW S, NEW fixed \in Nat, NEW l \in Lists(S, fixed), NEW names
  PROVE  FillCalls(l, names).counter = l.counter
BY DEF FillCalls, Lists

LEMMA FillDependenciesOutline ==
  ASSUME NEW op \in Operations, NEW names
  PROVE  OperationOutline(FillDependencies(op, names)) = OperationOutline(op)
<1>1. op.dependencies \in Lists(Calls, 0) /\ 0 \in Nat
  BY DEF Operations
<1>2. FillCalls(op.dependencies, names).counter = op.dependencies.counter
  BY <1>1, FillCallsOutline, Zenon
<1>3. /\ FillDependencies(op, names).name = op.name
      /\ FillDependencies(op, names).opatterns = op.opatterns
      /\ FillDependencies(op, names).dependencies = FillCalls(op.dependencies, names)
  BY DEF FillDependencies, Operations
<1>4. QED BY <1>2, <1>3 DEF OperationOutline

LEMMA FillMicroserviceOutline ==
  ASSUME NEW ms \in Microservices, NEW names
  PROVE  ServiceOutline(FillMicroservice(ms, names)) = ServiceOutline(ms)
<1> DEFINE ops == ms.operations
           filled == FillOperations(ops, names)
<1>1. ops \in Lists(Operations, 1) /\ 1 \in Nat
  BY DEF Microservices
<1>2. /\ FillMicroservice(ms, names).name = ms.name
      /\ FillMicroservice(ms, names).spatterns = ms.spatterns
      /\ FillMicroservice(ms, names).operations = filled
  BY DEF FillMicroservice, Microservices
<1>3. /\ filled.counter = ops.counter
      /\ filled.items = [k \in DOMAIN ops.items |-> FillDependencies(ops.items[k], names)]
  BY <1>1 DEF FillOperations, Lists
<1>4. DOMAIN ops.items = 1..ops.counter
  BY <1>1, ListDomain, Zenon
<1>5. \A o \in 1..ops.counter : ops.items[o] \in Operations
  BY <1>1, <1>4, ElementType, Zenon
<1> HIDE DEF ops, filled
<1>6. \A o \in 1..ops.counter : OperationOutline(filled.items[o]) = OperationOutline(ops.items[o])
  BY <1>3, <1>4, <1>5, FillDependenciesOutline
<1>7. [o \in 1..filled.counter |-> OperationOutline(filled.items[o])]
        = [o \in 1..ops.counter |-> OperationOutline(ops.items[o])]
  BY <1>3, <1>6
<1>8. QED BY <1>2, <1>7 DEF ServiceOutline, ops

LEMMA FillOutline ==
  ASSUME NEW ms, NEW gen, NEW mon, FormFits(ms, gen, mon), NEW names
  PROVE  FormOutline(FillServices(ms, names), FillCalls(gen, names), FillCalls(mon, names))
           = FormOutline(ms, gen, mon)
<1> DEFINE filled == FillServices(ms, names)
<1>1. /\ ms \in Lists(Microservices, 1) /\ gen \in Lists(Calls, 1) /\ mon \in Lists(Monkeys, 0)
      /\ 0 \in Nat /\ 1 \in Nat
  BY DEF FormFits
<1>2. FillCalls(gen, names).counter = gen.counter
  BY <1>1, FillCallsOutline, Zenon
<1>3. FillCalls(mon, names).counter = mon.counter
  BY <1>1, FillCallsOutline, Zenon
<1>4. /\ filled.counter = ms.counter
      /\ filled.items = [k \in DOMAIN ms.items |-> FillMicroservice(ms.items[k], names)]
  BY <1>1 DEF FillServices, Lists
<1>5. DOMAIN ms.items = 1..ms.counter
  BY <1>1, ListDomain, Zenon
<1>6. \A s \in 1..ms.counter : ms.items[s] \in Microservices
  BY <1>1, <1>5, ElementType, Zenon
<1> HIDE DEF filled
<1>7. \A s \in 1..ms.counter : ServiceOutline(filled.items[s]) = ServiceOutline(ms.items[s])
  BY <1>4, <1>5, <1>6, FillMicroserviceOutline
<1>8. QED BY <1>2, <1>3, <1>4, <1>7 DEF FormOutline, filled

\* Nor does another choice in a list of calls, or in a dependency.
LEMMA ChangedDependencyOutline ==
  ASSUME EditorInvariant, NEW s \in DOMAIN microservices.items,
         NEW o \in DOMAIN microservices.items[s].operations.items,
         NEW calls, calls.counter = OperationOf(s, o).dependencies.counter
  PROVE  LET changed == WithDependencies(s, o, calls)
         IN  /\ changed.counter = microservices.counter
             /\ \A r \in 1..microservices.counter :
                  ServiceOutline(changed.items[r]) = ServiceOutline(microservices.items[r])
<1> DEFINE changed == WithDependencies(s, o, calls)
           op == OperationOf(s, o)
           new == [op EXCEPT !.dependencies = calls]
           ms == microservices.items[s]
           ops == [ms.operations EXCEPT !.items[o] = new]
           service == [ms EXCEPT !.operations = ops]
<1>1. microservices \in Lists(Microservices, 1) /\ ms \in Microservices /\ op \in Operations
  BY MicroserviceFits, OperationFits DEF EditorInvariant
<1>2. ms.operations \in Lists(Operations, 1) /\ 1 \in Nat /\ op = ms.operations.items[o]
  BY <1>1 DEF Microservices, OperationOf
<1>3. OperationOutline(new) = OperationOutline(op)
  BY <1>1 DEF OperationOutline, Operations
<1>4. changed = [microservices EXCEPT !.items[s] = service]
  <2>1. changed = [microservices EXCEPT !.items[s].operations.items[o] = new]
    BY DEF WithDependencies, WithOperation
  <2>2. QED BY <2>1
<1> HIDE DEF new
<1>5. ops.counter = ms.operations.counter /\ ops.items = [ms.operations.items EXCEPT ![o] = new]
  BY <1>2 DEF Lists
<1> HIDE DEF op, ops
<1>6. \A k \in 1..ops.counter : OperationOutline(ops.items[k]) = OperationOutline(ms.operations.items[k])
  <2>1. DOMAIN ms.operations.items = 1..ms.operations.counter
    BY <1>2, ListDomain, Zenon
  <2>2. QED BY <1>2, <1>3, <1>5, <2>1
<1>7. service.name = ms.name /\ service.spatterns = ms.spatterns /\ service.operations = ops
  BY <1>1 DEF Microservices
<1> HIDE DEF ms, service
<1>8. ServiceOutline(service) = ServiceOutline(ms)
  <2>1. [k \in 1..ops.counter |-> OperationOutline(ops.items[k])]
          = [k \in 1..ms.operations.counter |-> OperationOutline(ms.operations.items[k])]
    BY <1>5, <1>6
  <2>2. QED BY <1>7, <2>1 DEF ServiceOutline
<1>9. /\ changed.counter = microservices.counter
      /\ changed.items = [microservices.items EXCEPT ![s] = service]
  BY <1>1, <1>4 DEF Lists
<1>10. DOMAIN microservices.items = 1..microservices.counter
  BY <1>1, <1>2, ListDomain, Zenon
<1> HIDE DEF changed
<1>11. \A r \in 1..microservices.counter :
         ServiceOutline(changed.items[r]) = ServiceOutline(microservices.items[r])
  BY <1>8, <1>9, <1>10 DEF ms
<1>12. QED BY <1>9, <1>11 DEF changed

LEMMA ChangedCallOutline ==
  ASSUME EditorInvariant, NEW s \in DOMAIN microservices.items,
         NEW o \in DOMAIN microservices.items[s].operations.items, NEW d, NEW call
  PROVE  FormOutline(
           WithDependencies(s, o, [OperationOf(s, o).dependencies EXCEPT !.items[d] = call]),
           generators, chaosmonkeys) = FormOutline(microservices, generators, chaosmonkeys)
<1>1. OperationOf(s, o).dependencies \in Lists(Calls, 0) /\ 0 \in Nat
  BY DependenciesFit
<1> DEFINE calls == [OperationOf(s, o).dependencies EXCEPT !.items[d] = call]
<1>2. calls.counter = OperationOf(s, o).dependencies.counter
  BY <1>1 DEF Lists
<1> HIDE DEF calls
<1> DEFINE changed == WithDependencies(s, o, calls)
<1>3. /\ changed.counter = microservices.counter
      /\ \A r \in 1..microservices.counter :
           ServiceOutline(changed.items[r]) = ServiceOutline(microservices.items[r])
  BY <1>2, ChangedDependencyOutline
<1> HIDE DEF changed
<1>4. FormOutline(changed, generators, chaosmonkeys) = FormOutline(microservices, generators, chaosmonkeys)
  BY <1>3 DEF FormOutline
<1>5. QED BY <1>4 DEF changed, calls

-----------------------------------------------------------------------------
(* One lemma per kind of action, for a step between forms that fit.        *)

LEMMA EditFollows ==
  ASSUME EditorInvariant', NEW ms, NEW gen, NEW mon, Edit(ms, gen, mon)
  PROVE  /\ microservices' = ms /\ generators' = gen /\ chaosmonkeys' = mon
         /\ leftover' = leftover /\ error = "none"
         /\ FormFits(ms, gen, mon) /\ architecture' = Json(ms, gen, mon)
         /\ JsonFollowsForm'
<1>1. /\ microservices' = ms /\ generators' = gen /\ chaosmonkeys' = mon
      /\ leftover' = leftover /\ error = "none" /\ CreateJson(ms, gen, mon)
  BY DEF Edit
<1>2. FormFits(ms, gen, mon)
  BY <1>1 DEF EditorInvariant, FormFits, Monkeys
<1>3. architecture' = Json(ms, gen, mon)
  BY <1>1, <1>2, FormIsReadable DEF CreateJson
<1>4. JsonFollowsForm'
  BY <1>1, <1>3 DEF JsonFollowsForm
<1>5. QED BY <1>1, <1>2, <1>3, <1>4

LEMMA EditMicroservicesFollows ==
  ASSUME EditorInvariant', NEW ms, EditMicroservices(ms) PROVE JsonFollowsForm'
BY EditFollows DEF EditMicroservices

LEMMA AddMicroserviceFollows ==
  ASSUME EditorInvariant', JsonFollowsForm, NEW k, AddMicroservice(k) PROVE JsonFollowsForm'
<1>1. CASE k + 1 \in leftover
  BY <1>1 DEF AddMicroservice, JsonFollowsForm, form
<1>2. CASE k + 1 \notin leftover
  BY <1>2, EditMicroservicesFollows DEF AddMicroservice
<1>3. QED BY <1>1, <1>2

LEMMA NameMicroserviceFollows ==
  ASSUME EditorInvariant, NEW s \in DOMAIN microservices.items, NEW name \in Input,
         NameMicroservice(s, name)
  PROVE  LET named == [microservices EXCEPT !.items[s].name = name]
         IN  /\ FormFits(named, generators, chaosmonkeys)
             /\ architecture' = Json(named, generators, chaosmonkeys)
             /\ JsonFollowsForm'
<1> DEFINE named == [microservices EXCEPT !.items[s].name = name]
           names == ServiceNames(architecture')
<1>1. FormFits(named, generators, chaosmonkeys)
  BY MicroserviceFits, FormFitsNow DEF FormFits
<1>2. /\ error = "none" /\ CreateJson(named, generators, chaosmonkeys)
      /\ \/ /\ microservices' = FillServices(named, names)
            /\ generators' = FillCalls(generators, names)
            /\ chaosmonkeys' = FillCalls(chaosmonkeys, names)
         \/ microservices' = named /\ generators' = generators /\ chaosmonkeys' = chaosmonkeys
  BY DEF NameMicroservice
<1> HIDE DEF named
<1>3. architecture' = Json(named, generators, chaosmonkeys)
  BY <1>1, <1>2, FormIsReadable DEF CreateJson
<1> HIDE DEF names
<1>4. FormOutline(microservices', generators', chaosmonkeys')
        = FormOutline(named, generators, chaosmonkeys)
  BY <1>1, <1>2, FillOutline
<1>5. EditorInvariant'
  BY NameMicroserviceFits
<1>6. FormFits(microservices', generators', chaosmonkeys')
  BY <1>5 DEF EditorInvariant, FormFits, Monkeys
<1>7. JsonFollowsForm'
  BY <1>1, <1>3, <1>4, <1>6, OutlineOfForm DEF JsonFollowsForm
<1>8. QED BY <1>1, <1>3, <1>7 DEF named

LEMMA StaysSameOutline ==
  ASSUME EditorInvariant, EditorInvariant', JsonFollowsForm,
         FormOutline(microservices', generators', chaosmonkeys')
           = FormOutline(microservices, generators, chaosmonkeys),
         UNCHANGED <<architecture, leftover>>
  PROVE  JsonFollowsForm'
<1>1. FormFits(microservices', generators', chaosmonkeys')
  BY DEF EditorInvariant, FormFits, Monkeys
<1>2. Outline(Json(microservices', generators', chaosmonkeys'))
        = Outline(Json(microservices, generators, chaosmonkeys))
  BY <1>1, FormFitsNow, OutlineOfForm
<1>3. QED BY <1>2 DEF JsonFollowsForm

\* The two disjuncts of ClickService
LEMMA ClickServiceIs ==
  ASSUME ClickService
  PROVE  /\ UNCHANGED <<chaosmonkeys, architecture, leftover, error>> /\ error = "none"
         /\ \/ \E s \in DOMAIN microservices.items :
                 \E o \in DOMAIN microservices.items[s].operations.items :
                   \E d \in DOMAIN OperationOf(s, o).dependencies.items :
                     /\ microservices' = WithDependencies(s, o,
                          [OperationOf(s, o).dependencies EXCEPT !.items[d] =
                             FillOperation(OperationOf(s, o).dependencies.items[d], architecture)])
                     /\ generators' = generators
            \/ \E g \in DOMAIN generators.items :
                 /\ generators' = [generators EXCEPT !.items[g] =
                                     FillOperation(generators.items[g], architecture)]
                 /\ microservices' = microservices
BY DEF ClickService

LEMMA ClickServiceFollows ==
  ASSUME EditorInvariant, EditorInvariant', JsonFollowsForm, ClickService PROVE JsonFollowsForm'
<1>1. FormOutline(microservices', generators', chaosmonkeys')
        = FormOutline(microservices, generators, chaosmonkeys)
  <2>1. CASE \E s \in DOMAIN microservices.items :
               \E o \in DOMAIN microservices.items[s].operations.items :
                 \E d \in DOMAIN OperationOf(s, o).dependencies.items :
                   /\ microservices' = WithDependencies(s, o,
                        [OperationOf(s, o).dependencies EXCEPT !.items[d] =
                           FillOperation(OperationOf(s, o).dependencies.items[d], architecture)])
                   /\ generators' = generators
    <3>1. PICK s \in DOMAIN microservices.items :
            \E o \in DOMAIN microservices.items[s].operations.items : \E call, d :
              /\ microservices' = WithDependencies(s, o,
                   [OperationOf(s, o).dependencies EXCEPT !.items[d] = call])
              /\ generators' = generators
      BY <2>1
    <3>2. PICK o \in DOMAIN microservices.items[s].operations.items : \E call, d :
            /\ microservices' = WithDependencies(s, o,
                 [OperationOf(s, o).dependencies EXCEPT !.items[d] = call])
            /\ generators' = generators
      BY <3>1
    <3>3. PICK call, d :
            /\ microservices' = WithDependencies(s, o,
                 [OperationOf(s, o).dependencies EXCEPT !.items[d] = call])
            /\ generators' = generators
      BY <3>2
    <3>4. FormOutline(
            WithDependencies(s, o, [OperationOf(s, o).dependencies EXCEPT !.items[d] = call]),
            generators, chaosmonkeys) = FormOutline(microservices, generators, chaosmonkeys)
      BY ChangedCallOutline
    <3>5. QED BY <3>3, <3>4, ClickServiceIs
  <2>2. CASE \E g \in DOMAIN generators.items :
               /\ generators' = [generators EXCEPT !.items[g] =
                                   FillOperation(generators.items[g], architecture)]
               /\ microservices' = microservices
    <3>1. generators'.counter = generators.counter
      BY <2>2 DEF EditorInvariant, Lists
    <3>2. QED BY <2>2, <3>1, ClickServiceIs DEF FormOutline
  <2>3. QED BY <2>1, <2>2, ClickServiceIs
<1>2. QED BY <1>1, StaysSameOutline, ClickServiceIs

LEMMA ChooseDependencyServiceFollows ==
  ASSUME EditorInvariant, NEW s \in DOMAIN microservices.items,
         NEW o \in DOMAIN microservices.items[s].operations.items,
         NEW d \in DOMAIN OperationOf(s, o).dependencies.items, ChooseDependencyService(s, o, d)
  PROVE  JsonFollowsForm'
<1> DEFINE l == OperationOf(s, o).dependencies
           With(call) == WithDependencies(s, o, [l EXCEPT !.items[d] = call])
           chosen(name) == [l.items[d] EXCEPT !.service.value = name]
<1>1. l.items[d] \in Calls
  BY DependencyFits
<1>2. /\ \A call \in Calls : With(call) \in Lists(Microservices, 1)
      /\ \A call : FormOutline(With(call), generators, chaosmonkeys)
                     = FormOutline(microservices, generators, chaosmonkeys)
  BY DependencyFits, ChangedCallOutline
<1>3. PICK name \in l.items[d].service.options :
        /\ CreateJson(With(chosen(name)), generators, chaosmonkeys)
        /\ microservices' = With(IF error' = "none"
                                 THEN FillOperation(chosen(name), architecture') ELSE chosen(name))
        /\ UNCHANGED <<generators, chaosmonkeys>>
  BY DEF ChooseDependencyService
<1>4. chosen(name) \in Calls
  BY <1>1, <1>3, CallFits
<1> HIDE DEF l, With, chosen
<1>5. FormFits(With(chosen(name)), generators, chaosmonkeys)
  BY <1>2, <1>4, FormFitsNow DEF FormFits
<1>6. architecture' = Json(With(chosen(name)), generators, chaosmonkeys)
  BY <1>3, <1>5, FormIsReadable DEF CreateJson
<1>7. FormFits(microservices', generators', chaosmonkeys')
  BY ChooseDependencyServiceFits DEF EditorInvariant, FormFits, Monkeys
<1>8. FormOutline(microservices', generators', chaosmonkeys')
        = FormOutline(With(chosen(name)), generators, chaosmonkeys)
  BY <1>2, <1>3
<1>9. QED BY <1>5, <1>6, <1>7, <1>8, OutlineOfForm DEF JsonFollowsForm

LEMMA ChooseGeneratorServiceFollows ==
  ASSUME EditorInvariant, NEW g \in DOMAIN generators.items, ChooseGeneratorService(g)
  PROVE  JsonFollowsForm'
<1> DEFINE With(call) == [generators EXCEPT !.items[g] = call]
           chosen(name) == [generators.items[g] EXCEPT !.service.value = name]
<1>1. generators.items[g] \in Calls
  BY GeneratorFits
<1>2. /\ \A call \in Calls : With(call) \in Lists(Calls, 1)
      /\ \A call : With(call).counter = generators.counter
  <2>1. \A call : With(call).counter = generators.counter
    BY DEF EditorInvariant, Lists
  <2>2. QED BY <2>1, GeneratorFits
<1>3. PICK name \in generators.items[g].service.options :
        /\ CreateJson(microservices, With(chosen(name)), chaosmonkeys)
        /\ generators' = With(IF error' = "none"
                              THEN FillOperation(chosen(name), architecture') ELSE chosen(name))
        /\ UNCHANGED <<microservices, chaosmonkeys>>
  BY DEF ChooseGeneratorService
<1>4. chosen(name) \in Calls
  BY <1>1, <1>3, CallFits
<1> HIDE DEF With, chosen
<1>5. FormFits(microservices, With(chosen(name)), chaosmonkeys)
  BY <1>2, <1>4, FormFitsNow DEF FormFits
<1>6. architecture' = Json(microservices, With(chosen(name)), chaosmonkeys)
  BY <1>3, <1>5, FormIsReadable DEF CreateJson
<1>7. FormFits(microservices', generators', chaosmonkeys')
  BY ChooseGeneratorServiceFits DEF EditorInvariant, FormFits, Monkeys
<1>8. FormOutline(microservices', generators', chaosmonkeys')
        = FormOutline(microservices, With(chosen(name)), chaosmonkeys)
  BY <1>2, <1>3 DEF FormOutline
<1>9. QED BY <1>5, <1>6, <1>7, <1>8, OutlineOfForm DEF JsonFollowsForm

LEMMA ChooseDependencyOperationFollows ==
  ASSUME EditorInvariant, JsonFollowsForm, NEW s \in DOMAIN microservices.items,
         NEW o \in DOMAIN microservices.items[s].operations.items,
         NEW d \in DOMAIN OperationOf(s, o).dependencies.items, ChooseDependencyOperation(s, o, d)
  PROVE  JsonFollowsForm'
<1> DEFINE l == OperationOf(s, o).dependencies
<1>1. PICK name \in l.items[d].operation.options :
        /\ microservices' = WithDependencies(s, o, [l EXCEPT !.items[d].operation.value = name])
        /\ UNCHANGED <<generators, chaosmonkeys, architecture, leftover>>
  BY DEF ChooseDependencyOperation
<1>2. microservices' = WithDependencies(s, o,
        [l EXCEPT !.items[d] = [l.items[d] EXCEPT !.operation.value = name]])
  BY <1>1
<1>3. FormOutline(microservices', generators', chaosmonkeys')
        = FormOutline(microservices, generators, chaosmonkeys)
  BY <1>1, <1>2, ChangedCallOutline
<1>4. QED BY <1>1, <1>3, ChooseDependencyOperationFits, StaysSameOutline

\* All others end with createJson of the form they leave.
LEMMA EditMicroserviceFollows ==
  ASSUME EditorInvariant, EditorInvariant', NEW s \in DOMAIN microservices.items, EditMicroservice(s)
  PROVE  JsonFollowsForm'
<1>1. CASE \E name \in Input : NameMicroservice(s, name)
  BY <1>1, NameMicroserviceFollows
<1>2. CASE EditServicePatterns(s)
  BY <1>2, EditMicroservicesFollows DEF EditServicePatterns
<1>3. CASE AddOperation(s)
  BY <1>3, EditMicroservicesFollows DEF AddOperation
<1>4. CASE RemoveOperation(s)
  BY <1>4, EditMicroservicesFollows DEF RemoveOperation
<1>5. QED BY <1>1, <1>2, <1>3, <1>4 DEF EditMicroservice

LEMMA EditOperationFollows ==
  ASSUME EditorInvariant, EditorInvariant', JsonFollowsForm, NEW s \in DOMAIN microservices.items,
         NEW o \in DOMAIN microservices.items[s].operations.items, EditOperation(s, o)
  PROVE  JsonFollowsForm'
<1>1. CASE \E name \in OperationInput : NameOperation(s, o, name)
  BY <1>1, EditMicroservicesFollows DEF NameOperation
<1>2. CASE EditOperationPatterns(s, o)
  BY <1>2, EditMicroservicesFollows DEF EditOperationPatterns
<1>3. CASE AddDependency(s, o)
  BY <1>3, EditFollows DEF AddDependency
<1>4. CASE RemoveDependency(s, o)
  BY <1>4, EditMicroservicesFollows DEF RemoveDependency
<1>5. ASSUME NEW d \in DOMAIN OperationOf(s, o).dependencies.items,
             ChooseDependencyService(s, o, d) \/ ChooseDependencyOperation(s, o, d)
      PROVE  JsonFollowsForm'
  BY <1>5, ChooseDependencyServiceFollows, ChooseDependencyOperationFollows
<1>6. QED BY <1>1, <1>2, <1>3, <1>4, <1>5 DEF EditOperation

LEMMA OthersFollow ==
  ASSUME EditorInvariant',
         \/ EditOther \/ EditGenerators \/ EditChaosmonkeys
         \/ \E g \in DOMAIN generators.items : ChooseGeneratorOperation(g)
         \/ \E c \in DOMAIN chaosmonkeys.items : ChooseChaosmonkeyService(c)
  PROVE  JsonFollowsForm'
<1>1. CASE EditOther
  BY <1>1, EditFollows DEF EditOther
<1>2. CASE EditGenerators
  BY <1>2, EditFollows DEF EditGenerators
<1>3. CASE EditChaosmonkeys
  BY <1>3, EditFollows DEF EditChaosmonkeys
<1>4. CASE \E g \in DOMAIN generators.items : ChooseGeneratorOperation(g)
  BY <1>4, EditFollows DEF ChooseGeneratorOperation
<1>5. CASE \E c \in DOMAIN chaosmonkeys.items : ChooseChaosmonkeyService(c)
  BY <1>5, EditFollows DEF ChooseChaosmonkeyService
<1>6. QED BY <1>1, <1>2, <1>3, <1>4, <1>5

LEMMA RemoveMicroserviceFollows ==
  ASSUME NEW k, RemoveMicroservice(k) PROVE leftover' # {}
BY DEF RemoveMicroservice

LEMMA NextFollows ==
  ASSUME EditorInvariant, JsonFollowsForm, [Next]_vars PROVE JsonFollowsForm'
<1>1. EditorInvariant'
  BY NextFits
<1>2. CASE UNCHANGED vars
  BY <1>2 DEF vars, JsonFollowsForm
<1>3. ASSUME NEW s \in DOMAIN microservices.items,
             NEW o \in DOMAIN microservices.items[s].operations.items, EditOperation(s, o)
      PROVE  JsonFollowsForm'
  BY <1>1, <1>3, EditOperationFollows
<1>4. ASSUME NEW k \in microservices.removes, RemoveMicroservice(k) PROVE JsonFollowsForm'
  BY <1>4, RemoveMicroserviceFollows DEF JsonFollowsForm
<1>5. QED
  BY <1>1, <1>2, <1>3, <1>4, AddMicroserviceFollows, EditMicroserviceFollows, OthersFollow,
     ClickServiceFollows, ChooseGeneratorServiceFollows
  DEF Next

\* Until a microservice is removed, what createJson has written down has the
\* elements of the form with their names, although the form goes on changing:
\* what is chosen and filled without createJson is no element of its own.
THEOREM JsonFollowsFormHolds == Spec => []JsonFollowsForm
<1>1. Init => EditorInvariant /\ JsonFollowsForm
  BY InitFits DEF Init, JsonFollowsForm
<1>2. EditorInvariant /\ JsonFollowsForm /\ [Next]_vars => EditorInvariant' /\ JsonFollowsForm'
  BY NextFits, NextFollows
<1>3. QED BY <1>1, <1>2, PTL DEF Spec

-----------------------------------------------------------------------------
(* Selects of services: what they hold, list by list.                      *)

NamesOf(ms) == {ms.items[s].name : s \in DOMAIN ms.items}

SelectRefers(select, names) ==
  select = NoSelect \/ (select.options = names /\ select.value \in names)

CallsRefer(l, names) == \A k \in DOMAIN l.items : SelectRefers(l.items[k].service, names)

OperationsRefer(l, names) ==
  \A k \in DOMAIN l.items : CallsRefer(l.items[k].dependencies, names)

ServicesRefer(l, names) ==
  \A k \in DOMAIN l.items : OperationsRefer(l.items[k].operations, names)

FormRefers(ms, gen, mon, names) ==
  ServicesRefer(ms, names) /\ CallsRefer(gen, names) /\ CallsRefer(mon, names)

Refers(ms, gen, mon) == NoName \notin NamesOf(ms) => FormRefers(ms, gen, mon, NamesOf(ms))

LEMMA SelectsOfForm ==
  ASSUME NEW ms, NEW gen, NEW mon, NEW names
  PROVE  (\A select \in {gen.items[g].service : g \in DOMAIN gen.items}
             \cup {mon.items[c].service : c \in DOMAIN mon.items}
             \cup UNION {UNION {{ms.items[s].operations.items[o].dependencies.items[d].service :
                          d \in DOMAIN ms.items[s].operations.items[o].dependencies.items} :
                   o \in DOMAIN ms.items[s].operations.items} : s \in DOMAIN ms.items} :
            SelectRefers(select, names))
         <=> FormRefers(ms, gen, mon, names)
<1> DEFINE ofGen == {gen.items[g].service : g \in DOMAIN gen.items}
           ofMon == {mon.items[c].service : c \in DOMAIN mon.items}
           ofOp(s, o) == {ms.items[s].operations.items[o].dependencies.items[d].service :
                            d \in DOMAIN ms.items[s].operations.items[o].dependencies.items}
           ofService(s) == UNION {ofOp(s, o) : o \in DOMAIN ms.items[s].operations.items}
           ofServices == UNION {ofService(s) : s \in DOMAIN ms.items}
           All(T) == \A select \in T : SelectRefers(select, names)
<1>1. All(ofGen) <=> CallsRefer(gen, names)
  BY Zenon DEF CallsRefer
<1>2. All(ofMon) <=> CallsRefer(mon, names)
  BY Zenon DEF CallsRefer
<1>3. ASSUME NEW s, NEW o
      PROVE  All(ofOp(s, o)) <=> CallsRefer(ms.items[s].operations.items[o].dependencies, names)
  BY Zenon DEF CallsRefer
<1> HIDE DEF ofGen, ofMon, ofOp
<1>4. ASSUME NEW s PROVE All(ofService(s)) <=> OperationsRefer(ms.items[s].operations, names)
  <2>1. All(ofService(s)) <=> \A o \in DOMAIN ms.items[s].operations.items : All(ofOp(s, o))
    BY Zenon
  <2>2. QED BY <1>3, <2>1, Zenon DEF OperationsRefer
<1> HIDE DEF ofService
<1>5. All(ofServices) <=> ServicesRefer(ms, names)
  <2>1. All(ofServices) <=> \A s \in DOMAIN ms.items : All(ofService(s))
    BY Zenon
  <2>2. QED BY <1>4, <2>1, Zenon DEF ServicesRefer
<1> HIDE DEF ofServices
<1>6. All(ofGen \cup ofMon \cup ofServices) <=> FormRefers(ms, gen, mon, names)
  BY <1>1, <1>2, <1>5, Zenon DEF FormRefers
<1>7. QED BY <1>6, Zenon DEF ofGen, ofMon, ofServices, ofService, ofOp

LEMMA SelectsReferIs ==
  SelectsReferToServices
    <=> (leftover = {} /\ error = "none" => Refers(microservices, generators, chaosmonkeys))
<1>1. FormNames = NamesOf(microservices)
  BY DEF FormNames, NamesOf
<1>2. (\A select \in ServiceSelects : SelectRefers(select, FormNames))
        <=> FormRefers(microservices, generators, chaosmonkeys, FormNames)
  BY SelectsOfForm, Zenon DEF ServiceSelects, OperationOf
<1> HIDE DEF FormNames
<1>3. SelectsReferToServices
        <=> (leftover = {} /\ error = "none" /\ NoName \notin FormNames =>
               \A select \in ServiceSelects : SelectRefers(select, FormNames))
  BY DEF SelectsReferToServices, SelectRefers
<1>4. QED BY <1>1, <1>2, <1>3 DEF Refers

LEMMA SelectsReferIsThen ==
  SelectsReferToServices'
    <=> (leftover' = {} /\ error' = "none" => Refers(microservices', generators', chaosmonkeys'))
<1>1. (SelectsReferToServices
         <=> (leftover = {} /\ error = "none" => Refers(microservices, generators, chaosmonkeys)))'
  BY SelectsReferIs, PTL
<1>2. QED BY <1>1

\* A filled select refers to the names it was filled with.
LEMMA FilledCallsRefer ==
  ASSUME NEW S, NEW fixed \in Nat, NEW l \in Lists(S, fixed),
         \A call \in S : \A select : [call EXCEPT !.service = select].service = select,
         NEW names, names.first \in names.all
  PROVE  CallsRefer(FillCalls(l, names), names.all)
<1>1. FillCalls(l, names).items = [k \in DOMAIN l.items |-> FillCall(l.items[k], names)]
  BY DEF FillCalls, Lists
<1>2. ASSUME NEW k \in DOMAIN l.items
      PROVE  SelectRefers(FillCall(l.items[k], names).service, names.all)
  <2>1. l.items[k] \in S
    BY ElementType
  <2>2. FillCall(l.items[k], names).service = Filled(l.items[k].service, names)
    BY <2>1 DEF FillCall
  <2>3. SelectRefers(Filled(l.items[k].service, names), names.all)
    BY DEF SelectRefers, Filled, Select
  <2>4. QED BY <2>2, <2>3
<1>3. QED BY <1>1, <1>2 DEF CallsRefer

LEMMA CallsHaveServices ==
  /\ \A call \in Calls : \A select : [call EXCEPT !.service = select].service = select
  /\ \A call \in Monkeys : \A select : [call EXCEPT !.service = select].service = select
BY DEF Calls, Monkeys

LEMMA FilledOperationsRefer ==
  ASSUME NEW l \in Lists(Operations, 1), NEW names, names.first \in names.all
  PROVE  OperationsRefer(FillOperations(l, names), names.all)
<1>1. FillOperations(l, names).items = [k \in DOMAIN l.items |-> FillDependencies(l.items[k], names)]
  BY DEF FillOperations, Lists
<1>2. ASSUME NEW k \in DOMAIN l.items
      PROVE  CallsRefer(FillDependencies(l.items[k], names).dependencies, names.all)
  <2>1. l.items[k] \in Operations /\ 0 \in Nat
    BY ElementType
  <2>2. l.items[k].dependencies \in Lists(Calls, 0)
    BY <2>1 DEF Operations
  <2>3. FillDependencies(l.items[k], names).dependencies = FillCalls(l.items[k].dependencies, names)
    BY <2>1 DEF FillDependencies, Operations
  <2>4. CallsRefer(FillCalls(l.items[k].dependencies, names), names.all)
    BY <2>1, <2>2, FilledCallsRefer, CallsHaveServices
  <2>5. QED BY <2>3, <2>4
<1>3. QED BY <1>1, <1>2 DEF OperationsRefer

LEMMA FilledServicesRefer ==
  ASSUME NEW l \in Lists(Microservices, 1), NEW names, names.first \in names.all
  PROVE  /\ ServicesRefer(FillServices(l, names), names.all)
         /\ NamesOf(FillServices(l, names)) = NamesOf(l)
<1>1. FillServices(l, names).items = [k \in DOMAIN l.items |-> FillMicroservice(l.items[k], names)]
  BY DEF FillServices, Lists
<1>2. ASSUME NEW k \in DOMAIN l.items
      PROVE  /\ OperationsRefer(FillMicroservice(l.items[k], names).operations, names.all)
             /\ FillMicroservice(l.items[k], names).name = l.items[k].name
  <2>1. l.items[k] \in Microservices
    BY ElementType
  <2>2. l.items[k].operations \in Lists(Operations, 1)
    BY <2>1 DEF Microservices
  <2>3. /\ FillMicroservice(l.items[k], names).operations = FillOperations(l.items[k].operations, names)
        /\ FillMicroservice(l.items[k], names).name = l.items[k].name
    BY <2>1 DEF FillMicroservice, Microservices
  <2>4. QED BY <2>2, <2>3, FilledOperationsRefer
<1>3. QED BY <1>1, <1>2 DEF ServicesRefer, NamesOf

LEMMA FilledFormRefers ==
  ASSUME NEW ms, NEW gen, NEW mon, FormFits(ms, gen, mon),
         NEW names, names.first \in names.all, names.all = NamesOf(ms)
  PROVE  Refers(FillServices(ms, names), FillCalls(gen, names), FillCalls(mon, names))
<1>1. ms \in Lists(Microservices, 1) /\ gen \in Lists(Calls, 1) /\ mon \in Lists(Monkeys, 0)
  BY DEF FormFits
<1>2. /\ ServicesRefer(FillServices(ms, names), names.all)
      /\ NamesOf(FillServices(ms, names)) = names.all
  BY <1>1, FilledServicesRefer
<1>3. CallsRefer(FillCalls(gen, names), names.all)
  BY <1>1, FilledCallsRefer, CallsHaveServices
<1>4. CallsRefer(FillCalls(mon, names), names.all)
  BY <1>1, FilledCallsRefer, CallsHaveServices
<1>5. QED BY <1>2, <1>3, <1>4 DEF Refers, FormRefers

\* The names that are written down are those of the form it was written from.
LEMMA NamesFromOutline ==
  ASSUME NEW ms, NEW gen, NEW mon, FormFits(ms, gen, mon),
         NEW json, Outline(json) = Outline(Json(ms, gen, mon))
  PROVE  ServiceNames(json).all = NamesOf(ms) /\ ServiceNames(json).first \in NamesOf(ms)
<1>1. ms \in Lists(Microservices, 1) /\ 1 \in Nat
  BY DEF FormFits
<1>2. DOMAIN ms.items = 1..ms.counter /\ ms.counter \in Nat /\ ms.counter >= 1
  BY <1>1 DEF Lists
<1>3. Outline(json) = FormOutline(ms, gen, mon)
  BY OutlineOfForm
<1>4. Outline(json).microservices = [s \in 1..ms.counter |-> ServiceOutline(ms.items[s])]
  BY <1>3 DEF FormOutline
<1>5. /\ DOMAIN Outline(json).microservices = DOMAIN json.microservices
      /\ \A s \in DOMAIN json.microservices :
           Outline(json).microservices[s].name = json.microservices[s].name
  <2> DEFINE ops(service) == [o \in DOMAIN service.operations |->
               LET op == service.operations[o]
               IN  [name |-> op.name, opatterns |-> Len(op.opatterns),
                    dependencies |-> Len(op.dependencies)]]
             service(s) == [name |-> json.microservices[s].name,
                            spatterns |-> Len(json.microservices[s].spatterns),
                            operations |-> ops(json.microservices[s])]
  <2>1. Outline(json).microservices = [s \in DOMAIN json.microservices |-> service(s)]
    BY DEF Outline
  <2> HIDE DEF ops
  <2>2. \A s : service(s).name = json.microservices[s].name
    OBVIOUS
  <2> HIDE DEF service
  <2>3. QED BY <2>1, <2>2
<1>6. \A s : ServiceOutline(ms.items[s]).name = ms.items[s].name
  BY DEF ServiceOutline
<1>7. /\ DOMAIN json.microservices = DOMAIN ms.items
      /\ \A s \in DOMAIN ms.items : json.microservices[s].name = ms.items[s].name
  BY <1>2, <1>4, <1>5, <1>6
<1>8. 1 \in DOMAIN ms.items
  BY <1>2
<1>9. QED BY <1>7, <1>8 DEF ServiceNames, NameList, NamesOf

\* Elements of a list after one was made or removed
LEMMA MadeElements ==
  ASSUME NEW S, NEW fixed \in Nat, NEW l \in Lists(S, fixed), NEW k \in l.adds, NEW item
  PROVE  \A j \in DOMAIN Made(l, k, fixed, item).items :
           \/ Made(l, k, fixed, item).items[j] = item
           \/ j \in DOMAIN l.items /\ Made(l, k, fixed, item).items[j] = l.items[j]
<1>1. l.items \in Seq(S) /\ k = Len(l.items)
  BY DEF Lists
<1>2. Made(l, k, fixed, item).items = Append(l.items, item)
  <2>1. SubSeq(l.items, 1, k) = l.items
    BY <1>1
  <2>2. QED BY <2>1 DEF Made, List
<1> DEFINE q == Append(l.items, item)
<1>3. /\ DOMAIN q = 1..(k + 1) /\ DOMAIN l.items = 1..k /\ k \in Nat
      /\ \A j \in 1..k : q[j] = l.items[j]
      /\ q[k + 1] = item
  BY <1>1
<1> HIDE DEF q
<1>4. \A j \in DOMAIN q : q[j] = item \/ (j \in DOMAIN l.items /\ q[j] = l.items[j])
  BY <1>3
<1>5. QED BY <1>2, <1>4 DEF q

LEMMA RemovedElements ==
  ASSUME NEW S, NEW fixed \in Nat, NEW l \in Lists(S, fixed), NEW k \in l.removes
  PROVE  \A j \in DOMAIN Removed(l, k, fixed).items :
           j \in DOMAIN l.items /\ Removed(l, k, fixed).items[j] = l.items[j]
<1>1. l.items \in Seq(S) /\ k = Len(l.items) /\ k \in Nat /\ k > 0
  BY DEF Lists
<1>2. Removed(l, k, fixed).items = SubSeq(l.items, 1, k - 1)
  BY DEF Removed, List
<1>3. QED BY <1>1, <1>2

\* Steps that keep the names of the services and what the selects refer to
CallsKept(l1, l2) == \A names : CallsRefer(l1, names) => CallsRefer(l2, names)

OperationsKept(l1, l2) == \A names : OperationsRefer(l1, names) => OperationsRefer(l2, names)

ServicesKept(ms1, ms2) ==
  /\ NamesOf(ms2) = NamesOf(ms1)
  /\ \A names : ServicesRefer(ms1, names) => ServicesRefer(ms2, names)

LEMMA NothingChanged ==
  /\ \A l : CallsKept(l, l)
  /\ \A l : OperationsKept(l, l)
  /\ \A l : ServicesKept(l, l)
BY DEF CallsKept, OperationsKept, ServicesKept

LEMMA KeptRefers ==
  ASSUME NEW ms1, NEW gen1, NEW mon1, NEW ms2, NEW gen2, NEW mon2, Refers(ms1, gen1, mon1),
         ServicesKept(ms1, ms2), CallsKept(gen1, gen2), CallsKept(mon1, mon2)
  PROVE  Refers(ms2, gen2, mon2)
BY DEF Refers, FormRefers, ServicesKept, CallsKept

LEMMA RefersThen ==
  ASSUME SelectsReferToServices, error = "none", leftover' = leftover,
         error' = "none" /\ Refers(microservices, generators, chaosmonkeys)
           => Refers(microservices', generators', chaosmonkeys')
  PROVE  SelectsReferToServices'
BY SelectsReferIs, SelectsReferIsThen

LEMMA ChangedServiceKept ==
  ASSUME EditorInvariant, NEW s \in DOMAIN microservices.items, NEW service,
         service.name = microservices.items[s].name,
         OperationsKept(microservices.items[s].operations, service.operations)
  PROVE  ServicesKept(microservices, [microservices EXCEPT !.items[s] = service])
<1>1. [microservices EXCEPT !.items[s] = service].items = [microservices.items EXCEPT ![s] = service]
  BY DEF EditorInvariant, Lists
<1>2. QED BY <1>1 DEF ServicesKept, NamesOf, ServicesRefer, OperationsKept

LEMMA ChangedOperationsKept ==
  ASSUME EditorInvariant, NEW s \in DOMAIN microservices.items, NEW ops,
         OperationsKept(microservices.items[s].operations, ops)
  PROVE  ServicesKept(microservices, [microservices EXCEPT !.items[s].operations = ops])
<1> DEFINE service == [microservices.items[s] EXCEPT !.operations = ops]
<1>1. microservices.items[s] \in Microservices
  BY MicroserviceFits
<1>2. service.name = microservices.items[s].name /\ service.operations = ops
  BY <1>1 DEF Microservices
<1> HIDE DEF service
<1>3. ServicesKept(microservices, [microservices EXCEPT !.items[s] = service])
  BY <1>2, ChangedServiceKept
<1>4. QED BY <1>3 DEF service

LEMMA ChangedOperationKept ==
  ASSUME EditorInvariant, NEW s \in DOMAIN microservices.items,
         NEW o \in DOMAIN microservices.items[s].operations.items, NEW op,
         CallsKept(OperationOf(s, o).dependencies, op.dependencies)
  PROVE  ServicesKept(microservices, WithOperation(s, o, op))
<1> DEFINE old == microservices.items[s].operations
           ops == [old EXCEPT !.items[o] = op]
<1>1. old \in Lists(Operations, 1)
  BY MicroserviceFits DEF Microservices
<1>2. ops.items = [old.items EXCEPT ![o] = op]
  BY <1>1 DEF Lists
<1>3. OperationOf(s, o) = old.items[o]
  BY DEF OperationOf
<1>4. WithOperation(s, o, op) = [microservices EXCEPT !.items[s].operations = ops]
  BY DEF WithOperation
<1> HIDE DEF ops
<1>5. OperationsKept(old, ops)
  BY <1>2, <1>3 DEF OperationsKept, OperationsRefer, CallsKept
<1>6. QED BY <1>4, <1>5, ChangedOperationsKept

LEMMA ChangedDependenciesKept ==
  ASSUME EditorInvariant, NEW s \in DOMAIN microservices.items,
         NEW o \in DOMAIN microservices.items[s].operations.items, NEW calls,
         CallsKept(OperationOf(s, o).dependencies, calls)
  PROVE  ServicesKept(microservices, WithDependencies(s, o, calls))
<1> DEFINE op == [OperationOf(s, o) EXCEPT !.dependencies = calls]
<1>1. OperationOf(s, o) \in Operations
  BY OperationFits
<1>2. op.dependencies = calls
  BY <1>1 DEF Operations
<1> HIDE DEF op
<1>3. ServicesKept(microservices, WithOperation(s, o, op))
  BY <1>2, ChangedOperationKept
<1>4. QED BY <1>3 DEF op, WithDependencies

\* Another call in a list refers if its select of services does.
LEMMA ChangedCallKept ==
  ASSUME NEW S, NEW fixed \in Nat, NEW l \in Lists(S, fixed), NEW k \in DOMAIN l.items, NEW call,
         \A names : SelectRefers(l.items[k].service, names) => SelectRefers(call.service, names)
  PROVE  CallsKept(l, [l EXCEPT !.items[k] = call])
<1>1. [l EXCEPT !.items[k] = call].items = [l.items EXCEPT ![k] = call]
  BY DEF Lists
<1>2. QED BY <1>1 DEF CallsKept, CallsRefer

LEMMA ChosenRefers ==
  ASSUME NEW select, NEW name \in select.options, NEW chosen,
         chosen.options = select.options, chosen.value = name
  PROVE  \A names : SelectRefers(select, names) => SelectRefers(chosen, names)
BY DEF SelectRefers, NoSelect, Select

LEMMA MadeCallKept ==
  ASSUME NEW S, NEW fixed \in Nat, NEW l \in Lists(S, fixed), NEW k \in l.adds, NEW call,
         call.service = NoSelect
  PROVE  CallsKept(l, Made(l, k, fixed, call))
BY MadeElements DEF CallsKept, CallsRefer, SelectRefers

LEMMA RemovedCallKept ==
  ASSUME NEW S, NEW fixed \in Nat, NEW l \in Lists(S, fixed), NEW k \in l.removes
  PROVE  CallsKept(l, Removed(l, k, fixed))
BY RemovedElements DEF CallsKept, CallsRefer

LEMMA MadeOperationKept ==
  ASSUME NEW l \in Lists(Operations, 1), NEW k \in l.adds
  PROVE  OperationsKept(l, Made(l, k, 1, NewOperation))
<1>1. \A names : CallsRefer(NewOperation.dependencies, names)
  BY DEF CallsRefer, NewOperation, Empty, List
<1>2. \A j \in DOMAIN Made(l, k, 1, NewOperation).items :
        \/ Made(l, k, 1, NewOperation).items[j] = NewOperation
        \/ j \in DOMAIN l.items /\ Made(l, k, 1, NewOperation).items[j] = l.items[j]
  BY MadeElements
<1>3. QED BY <1>1, <1>2 DEF OperationsKept, OperationsRefer

LEMMA RemovedOperationKept ==
  ASSUME NEW l \in Lists(Operations, 1), NEW k \in l.removes
  PROVE  OperationsKept(l, Removed(l, k, 1))
BY RemovedElements DEF OperationsKept, OperationsRefer

-----------------------------------------------------------------------------
(* One lemma per kind of action.                                           *)

LEMMA EditKept ==
  ASSUME EditorInvariant', SelectsReferToServices, NEW ms, NEW gen, NEW mon, Edit(ms, gen, mon),
         ServicesKept(microservices, ms), CallsKept(generators, gen), CallsKept(chaosmonkeys, mon)
  PROVE  SelectsReferToServices'
<1>1. /\ microservices' = ms /\ generators' = gen /\ chaosmonkeys' = mon
      /\ leftover' = leftover /\ error = "none"
  BY DEF Edit
<1>2. Refers(microservices, generators, chaosmonkeys) => Refers(ms, gen, mon)
  BY KeptRefers
<1>3. QED BY <1>1, <1>2, RefersThen

LEMMA EditMicroservicesKept ==
  ASSUME EditorInvariant', SelectsReferToServices, NEW ms, EditMicroservices(ms),
         ServicesKept(microservices, ms)
  PROVE  SelectsReferToServices'
BY EditKept, NothingChanged DEF EditMicroservices

LEMMA NameMicroserviceRefers ==
  ASSUME EditorInvariant, SelectsReferToServices, NEW s \in DOMAIN microservices.items,
         NEW name \in Input, NameMicroservice(s, name)
  PROVE  SelectsReferToServices'
<1> DEFINE named == [microservices EXCEPT !.items[s].name = name]
           names == ServiceNames(architecture')
<1>1. /\ FormFits(named, generators, chaosmonkeys)
      /\ architecture' = Json(named, generators, chaosmonkeys)
  BY NameMicroserviceFollows
<1>2. /\ error = "none" /\ leftover' = leftover
      /\ \/ /\ name # NoName
            /\ microservices' = FillServices(named, names)
            /\ generators' = FillCalls(generators, names)
            /\ chaosmonkeys' = FillCalls(chaosmonkeys, names)
         \/ error' # "none"
         \/ name = NoName /\ microservices' = named
  BY DEF NameMicroservice
<1>3. name \in NamesOf(named)
  <2>1. named.items = [microservices.items EXCEPT ![s] = [microservices.items[s] EXCEPT !.name = name]]
    BY DEF EditorInvariant, Lists
  <2>2. [microservices.items[s] EXCEPT !.name = name].name = name
    BY MicroserviceFits DEF Microservices
  <2> HIDE DEF named
  <2>3. named.items[s].name = name /\ s \in DOMAIN named.items
    BY <2>1, <2>2
  <2>4. QED BY <2>3 DEF NamesOf
<1> HIDE DEF named
<1>4. names.all = NamesOf(named) /\ names.first \in names.all
  BY <1>1, NamesFromOutline
<1> HIDE DEF names
<1>5. Refers(FillServices(named, names), FillCalls(generators, names), FillCalls(chaosmonkeys, names))
  BY <1>1, <1>4, FilledFormRefers
<1>6. error' = "none" => Refers(microservices', generators', chaosmonkeys')
  <2>1. CASE name = NoName /\ microservices' = named
    BY <1>3, <2>1 DEF Refers
  <2>2. QED BY <1>2, <1>5, <2>1
<1>7. QED BY <1>2, <1>6, RefersThen

LEMMA AddMicroserviceRefers ==
  ASSUME EditorInvariant, SelectsReferToServices, NEW k \in microservices.adds, AddMicroservice(k)
  PROVE  SelectsReferToServices'
<1>1. CASE k + 1 \in leftover
  <2>1. error' # "none"
    BY <1>1 DEF AddMicroservice
  <2>2. QED BY <2>1, SelectsReferIsThen
<1>2. CASE k + 1 \notin leftover
  <2> DEFINE ms == Made(microservices, k, 1, NewMicroservice)
  <2>1. microservices' = ms
    BY <1>2 DEF AddMicroservice, EditMicroservices, Edit
  <2>2. microservices \in Lists(Microservices, 1) /\ 1 \in Nat
    BY DEF EditorInvariant
  <2>3. \E j \in DOMAIN ms.items : ms.items[j] = NewMicroservice
    <3>1. microservices.items \in Seq(Microservices) /\ k = Len(microservices.items)
      BY <2>2 DEF Lists
    <3>2. ms.items = Append(microservices.items, NewMicroservice)
      <4>1. SubSeq(microservices.items, 1, k) = microservices.items
        BY <3>1
      <4>2. QED BY <4>1 DEF Made, List
    <3> HIDE DEF ms
    <3>3. k + 1 \in DOMAIN ms.items /\ ms.items[k + 1] = NewMicroservice
      BY <3>1, <3>2
    <3>4. QED BY <3>3
  <2>4. NewMicroservice.name = NoName
    BY DEF NewMicroservice
  <2> HIDE DEF ms
  <2>5. NoName \in NamesOf(ms)
    BY <2>3, <2>4 DEF NamesOf
  <2>6. QED BY <2>1, <2>5, SelectsReferIsThen DEF Refers
<1>3. QED BY <1>1, <1>2

LEMMA EditMicroserviceRefers ==
  ASSUME EditorInvariant, EditorInvariant', SelectsReferToServices,
         NEW s \in DOMAIN microservices.items, EditMicroservice(s)
  PROVE  SelectsReferToServices'
<1> DEFINE ms == microservices.items[s]
<1>1. ms \in Microservices /\ ms.operations \in Lists(Operations, 1)
  BY MicroserviceFits DEF Microservices
<1>2. CASE \E name \in Input : NameMicroservice(s, name)
  BY <1>2, NameMicroserviceRefers
<1>3. CASE EditServicePatterns(s)
  <2>1. ASSUME NEW l PROVE ServicesKept(microservices, [microservices EXCEPT !.items[s].spatterns = l])
    <3> DEFINE service == [ms EXCEPT !.spatterns = l]
    <3>1. service.name = ms.name /\ service.operations = ms.operations
      BY <1>1 DEF Microservices
    <3> HIDE DEF service
    <3>2. ServicesKept(microservices, [microservices EXCEPT !.items[s] = service])
      BY <3>1, ChangedServiceKept, NothingChanged
    <3>3. QED BY <3>2 DEF service
  <2>2. PICK l : EditMicroservices([microservices EXCEPT !.items[s].spatterns = l])
    BY <1>3 DEF EditServicePatterns
  <2>3. QED BY <2>1, <2>2, EditMicroservicesKept
<1>4. CASE AddOperation(s)
  <2>1. PICK k \in ms.operations.adds :
          EditMicroservices(
            [microservices EXCEPT !.items[s].operations = Made(ms.operations, k, 1, NewOperation)])
    BY <1>4 DEF AddOperation
  <2>2. OperationsKept(ms.operations, Made(ms.operations, k, 1, NewOperation))
    BY <1>1, MadeOperationKept
  <2>3. QED BY <2>1, <2>2, ChangedOperationsKept, EditMicroservicesKept
<1>5. CASE RemoveOperation(s)
  <2>1. PICK k \in ms.operations.removes :
          EditMicroservices(
            [microservices EXCEPT !.items[s].operations = Removed(ms.operations, k, 1)])
    BY <1>5 DEF RemoveOperation
  <2>2. OperationsKept(ms.operations, Removed(ms.operations, k, 1))
    BY <1>1, RemovedOperationKept
  <2>3. QED BY <2>1, <2>2, ChangedOperationsKept, EditMicroservicesKept
<1>6. QED BY <1>2, <1>3, <1>4, <1>5 DEF EditMicroservice

LEMMA AddDependencyRefers ==
  ASSUME EditorInvariant, JsonFollowsForm, SelectsReferToServices,
         NEW s \in DOMAIN microservices.items,
         NEW o \in DOMAIN microservices.items[s].operations.items, AddDependency(s, o)
  PROVE  SelectsReferToServices'
<1> DEFINE l == OperationOf(s, o).dependencies
           names == ServiceNames(architecture)
           made(k) == WithDependencies(s, o, Made(l, k, 0, NewCall))
<1>1. l \in Lists(Calls, 0) /\ 0 \in Nat
  BY DependenciesFit
<1>2. PICK k \in l.adds :
        Edit(FillServices(made(k), names), FillCalls(generators, names), FillCalls(chaosmonkeys, names))
  BY DEF AddDependency
<1>3. FormFits(made(k), generators, chaosmonkeys)
  <2>1. Made(l, k, 0, NewCall) \in Lists(Calls, 0)
    BY <1>1, MadeList, NewFits, Zenon
  <2>2. made(k) \in Lists(Microservices, 1)
    BY <2>1, DependenciesFit
  <2>3. QED BY <2>2, FormFitsNow DEF FormFits
<1>4. NamesOf(made(k)) = NamesOf(microservices)
  <2>1. NewCall.service = NoSelect
    BY DEF NewCall
  <2>2. CallsKept(l, Made(l, k, 0, NewCall))
    BY <1>1, <2>1, MadeCallKept, Zenon
  <2>3. ServicesKept(microservices, made(k))
    BY <2>2, ChangedDependenciesKept
  <2>4. QED BY <2>3 DEF ServicesKept
<1> HIDE DEF made, l
<1>5. leftover = {} => names.all = NamesOf(made(k)) /\ names.first \in names.all
  BY <1>4, FormFitsNow, NamesFromOutline DEF JsonFollowsForm
<1> HIDE DEF names
<1>6. leftover = {} =>
        Refers(FillServices(made(k), names), FillCalls(generators, names), FillCalls(chaosmonkeys, names))
  BY <1>3, <1>5, FilledFormRefers
<1>7. QED BY <1>2, <1>6, SelectsReferIsThen DEF Edit

LEMMA RemoveDependencyRefers ==
  ASSUME EditorInvariant, EditorInvariant', SelectsReferToServices,
         NEW s \in DOMAIN microservices.items,
         NEW o \in DOMAIN microservices.items[s].operations.items, RemoveDependency(s, o)
  PROVE  SelectsReferToServices'
<1> DEFINE l == OperationOf(s, o).dependencies
<1>1. l \in Lists(Calls, 0) /\ 0 \in Nat
  BY DependenciesFit
<1>2. PICK k \in l.removes : EditMicroservices(WithDependencies(s, o, Removed(l, k, 0)))
  BY DEF RemoveDependency
<1>3. CallsKept(l, Removed(l, k, 0))
  BY <1>1, RemovedCallKept, Zenon
<1>4. QED BY <1>2, <1>3, ChangedDependenciesKept, EditMicroservicesKept

\* What is chosen in a select of services or of operations
LEMMA ServiceOfCall ==
  ASSUME NEW call \in Calls
  PROVE  /\ \A json : FillOperation(call, json).service = call.service
         /\ \A name : [call EXCEPT !.operation.value = name].service = call.service
         /\ \A name : /\ [call EXCEPT !.service.value = name].service.options = call.service.options
                      /\ [call EXCEPT !.service.value = name].service.value = name
BY DEF Calls, Selects, FillOperation

LEMMA DependencyKept ==
  ASSUME EditorInvariant, NEW s \in DOMAIN microservices.items,
         NEW o \in DOMAIN microservices.items[s].operations.items,
         NEW l, l = OperationOf(s, o).dependencies, NEW d \in DOMAIN l.items, NEW call,
         \A names : SelectRefers(l.items[d].service, names) => SelectRefers(call.service, names)
  PROVE  ServicesKept(microservices, WithDependencies(s, o, [l EXCEPT !.items[d] = call]))
<1>1. l \in Lists(Calls, 0) /\ 0 \in Nat
  BY DependenciesFit
<1>2. CallsKept(l, [l EXCEPT !.items[d] = call])
  BY <1>1, ChangedCallKept
<1>3. QED BY <1>2, ChangedDependenciesKept

LEMMA GeneratorKept ==
  ASSUME EditorInvariant, NEW g \in DOMAIN generators.items, NEW call,
         \A names : SelectRefers(generators.items[g].service, names) => SelectRefers(call.service, names)
  PROVE  CallsKept(generators, [generators EXCEPT !.items[g] = call])
<1>1. generators \in Lists(Calls, 1) /\ 1 \in Nat
  BY DEF EditorInvariant
<1>2. QED BY <1>1, ChangedCallKept

LEMMA ClickServiceRefers ==
  ASSUME EditorInvariant, SelectsReferToServices, ClickService PROVE SelectsReferToServices'
<1>1. ServicesKept(microservices, microservices') /\ CallsKept(generators, generators')
  <2>1. CASE \E s \in DOMAIN microservices.items :
               \E o \in DOMAIN microservices.items[s].operations.items :
                 \E d \in DOMAIN OperationOf(s, o).dependencies.items :
                   /\ microservices' = WithDependencies(s, o,
                        [OperationOf(s, o).dependencies EXCEPT !.items[d] =
                           FillOperation(OperationOf(s, o).dependencies.items[d], architecture)])
                   /\ generators' = generators
    <3>1. PICK s \in DOMAIN microservices.items :
            \E o \in DOMAIN microservices.items[s].operations.items :
              \E d \in DOMAIN OperationOf(s, o).dependencies.items :
                /\ microservices' = WithDependencies(s, o,
                     [OperationOf(s, o).dependencies EXCEPT !.items[d] =
                        FillOperation(OperationOf(s, o).dependencies.items[d], architecture)])
                /\ generators' = generators
      BY <2>1
    <3>2. PICK o \in DOMAIN microservices.items[s].operations.items :
            \E d \in DOMAIN OperationOf(s, o).dependencies.items :
              /\ microservices' = WithDependencies(s, o,
                   [OperationOf(s, o).dependencies EXCEPT !.items[d] =
                      FillOperation(OperationOf(s, o).dependencies.items[d], architecture)])
              /\ generators' = generators
      BY <3>1
    <3> DEFINE l == OperationOf(s, o).dependencies
    <3>3. PICK d \in DOMAIN l.items :
            /\ microservices' = WithDependencies(s, o,
                 [l EXCEPT !.items[d] = FillOperation(l.items[d], architecture)])
            /\ generators' = generators
      BY <3>2
    <3>4. FillOperation(l.items[d], architecture).service = l.items[d].service
      BY DependencyFits, ServiceOfCall
    <3> DEFINE call == FillOperation(l.items[d], architecture)
    <3> HIDE DEF call
    <3>5. ServicesKept(microservices, WithDependencies(s, o, [l EXCEPT !.items[d] = call]))
      BY <3>4, DependencyKept DEF call
    <3>6. QED BY <3>3, <3>5, NothingChanged DEF call
  <2>2. CASE \E g \in DOMAIN generators.items :
               /\ generators' = [generators EXCEPT !.items[g] =
                                   FillOperation(generators.items[g], architecture)]
               /\ microservices' = microservices
    <3>1. PICK g \in DOMAIN generators.items :
            /\ generators' = [generators EXCEPT !.items[g] =
                                FillOperation(generators.items[g], architecture)]
            /\ microservices' = microservices
      BY <2>2
    <3> DEFINE call == FillOperation(generators.items[g], architecture)
    <3>2. call.service = generators.items[g].service
      BY GeneratorFits, ServiceOfCall
    <3> HIDE DEF call
    <3>3. CallsKept(generators, [generators EXCEPT !.items[g] = call])
      BY <3>2, GeneratorKept
    <3>4. QED BY <3>1, <3>3, NothingChanged DEF call
  <2>3. QED BY <2>1, <2>2, ClickServiceIs
<1>2. chaosmonkeys' = chaosmonkeys /\ leftover' = leftover /\ error = "none"
  BY ClickServiceIs
<1>3. Refers(microservices, generators, chaosmonkeys)
        => Refers(microservices', generators', chaosmonkeys')
  BY <1>1, <1>2, KeptRefers, NothingChanged
<1>4. QED BY <1>2, <1>3, RefersThen

LEMMA ChosenServiceRefers ==
  ASSUME NEW call \in Calls, NEW name \in call.service.options
  PROVE  \A names : SelectRefers(call.service, names)
           => SelectRefers([call EXCEPT !.service.value = name].service, names)
<1> DEFINE chosen == [call EXCEPT !.service.value = name].service
<1>1. chosen = [call.service EXCEPT !.value = name]
  BY DEF Calls
<1>2. call.service \in Selects
  BY DEF Calls
<1>3. chosen.options = call.service.options /\ chosen.value = name
  BY <1>1, <1>2 DEF Selects
<1> HIDE DEF chosen
<1>4. \A names : SelectRefers(call.service, names) => SelectRefers(chosen, names)
  BY <1>3, ChosenRefers
<1>5. QED BY <1>4 DEF chosen

LEMMA ChooseDependencyServiceRefers ==
  ASSUME EditorInvariant, SelectsReferToServices, NEW s \in DOMAIN microservices.items,
         NEW o \in DOMAIN microservices.items[s].operations.items,
         NEW d \in DOMAIN OperationOf(s, o).dependencies.items, ChooseDependencyService(s, o, d)
  PROVE  SelectsReferToServices'
<1> DEFINE l == OperationOf(s, o).dependencies
           chosen(name) == [l.items[d] EXCEPT !.service.value = name]
<1>1. l.items[d] \in Calls
  BY DependencyFits
<1>2. PICK name \in l.items[d].service.options :
        /\ error = "none" /\ UNCHANGED <<generators, chaosmonkeys, leftover>>
        /\ error' = "none" => microservices' = WithDependencies(s, o,
             [l EXCEPT !.items[d] = FillOperation(chosen(name), architecture')])
  BY DEF ChooseDependencyService
<1>3. chosen(name) \in Calls
  BY <1>1, <1>2, CallFits
<1>4. \A names : SelectRefers(l.items[d].service, names) => SelectRefers(chosen(name).service, names)
  BY <1>1, <1>2, ChosenServiceRefers
<1> DEFINE call == FillOperation(chosen(name), architecture')
<1>5. call.service = chosen(name).service
  BY <1>3, ServiceOfCall
<1> HIDE DEF call, chosen
<1>6. ServicesKept(microservices, WithDependencies(s, o, [l EXCEPT !.items[d] = call]))
  BY <1>4, <1>5, DependencyKept
<1>7. error' = "none" => ServicesKept(microservices, microservices')
  BY <1>2, <1>6 DEF call
<1>8. error' = "none" /\ Refers(microservices, generators, chaosmonkeys)
        => Refers(microservices', generators', chaosmonkeys')
  BY <1>2, <1>7, KeptRefers, NothingChanged
<1>9. QED BY <1>2, <1>8, RefersThen

LEMMA ChooseGeneratorServiceRefers ==
  ASSUME EditorInvariant, SelectsReferToServices, NEW g \in DOMAIN generators.items,
         ChooseGeneratorService(g)
  PROVE  SelectsReferToServices'
<1> DEFINE chosen(name) == [generators.items[g] EXCEPT !.service.value = name]
<1>1. generators.items[g] \in Calls
  BY GeneratorFits
<1>2. PICK name \in generators.items[g].service.options :
        /\ error = "none" /\ UNCHANGED <<microservices, chaosmonkeys, leftover>>
        /\ error' = "none" =>
             generators' = [generators EXCEPT !.items[g] = FillOperation(chosen(name), architecture')]
  BY DEF ChooseGeneratorService
<1>3. chosen(name) \in Calls
  BY <1>1, <1>2, CallFits
<1>4. \A names : SelectRefers(generators.items[g].service, names)
                   => SelectRefers(chosen(name).service, names)
  BY <1>1, <1>2, ChosenServiceRefers
<1> DEFINE call == FillOperation(chosen(name), architecture')
<1>5. call.service = chosen(name).service
  BY <1>3, ServiceOfCall
<1> HIDE DEF call, chosen
<1>6. CallsKept(generators, [generators EXCEPT !.items[g] = call])
  BY <1>4, <1>5, GeneratorKept
<1>7. error' = "none" => CallsKept(generators, generators')
  BY <1>2, <1>6 DEF call
<1>8. error' = "none" /\ Refers(microservices, generators, chaosmonkeys)
        => Refers(microservices', generators', chaosmonkeys')
  BY <1>2, <1>7, KeptRefers, NothingChanged
<1>9. QED BY <1>2, <1>8, RefersThen

LEMMA ChooseDependencyOperationRefers ==
  ASSUME EditorInvariant, SelectsReferToServices, NEW s \in DOMAIN microservices.items,
         NEW o \in DOMAIN microservices.items[s].operations.items,
         NEW d \in DOMAIN OperationOf(s, o).dependencies.items, ChooseDependencyOperation(s, o, d)
  PROVE  SelectsReferToServices'
<1> DEFINE l == OperationOf(s, o).dependencies
<1>1. PICK name \in l.items[d].operation.options :
        /\ microservices' = WithDependencies(s, o, [l EXCEPT !.items[d].operation.value = name])
        /\ UNCHANGED <<generators, chaosmonkeys, leftover>> /\ error = "none"
  BY DEF ChooseDependencyOperation
<1> DEFINE call == [l.items[d] EXCEPT !.operation.value = name]
<1>2. call.service = l.items[d].service
  BY DependencyFits, ServiceOfCall
<1>3. microservices' = WithDependencies(s, o, [l EXCEPT !.items[d] = call])
  BY <1>1
<1> HIDE DEF call
<1>4. ServicesKept(microservices, WithDependencies(s, o, [l EXCEPT !.items[d] = call]))
  BY <1>2, DependencyKept
<1>5. Refers(microservices, generators, chaosmonkeys)
        => Refers(microservices', generators', chaosmonkeys')
  BY <1>1, <1>3, <1>4, KeptRefers, NothingChanged
<1>6. QED BY <1>1, <1>5, RefersThen

LEMMA EditOperationRefers ==
  ASSUME EditorInvariant, EditorInvariant', JsonFollowsForm, SelectsReferToServices,
         NEW s \in DOMAIN microservices.items,
         NEW o \in DOMAIN microservices.items[s].operations.items, EditOperation(s, o)
  PROVE  SelectsReferToServices'
<1>1. OperationOf(s, o) \in Operations
  BY OperationFits
<1>2. CASE \E name \in OperationInput : NameOperation(s, o, name)
  <2>1. PICK name : EditMicroservices(WithOperation(s, o, [OperationOf(s, o) EXCEPT !.name = name]))
    BY <1>2 DEF NameOperation
  <2> DEFINE op == [OperationOf(s, o) EXCEPT !.name = name]
  <2>2. op.dependencies = OperationOf(s, o).dependencies
    BY <1>1 DEF Operations
  <2> HIDE DEF op
  <2>3. ServicesKept(microservices, WithOperation(s, o, op))
    BY <2>2, ChangedOperationKept, NothingChanged
  <2>4. QED BY <2>1, <2>3, EditMicroservicesKept DEF op
<1>3. CASE EditOperationPatterns(s, o)
  <2>1. PICK l : EditMicroservices(WithOperation(s, o, [OperationOf(s, o) EXCEPT !.opatterns = l]))
    BY <1>3 DEF EditOperationPatterns
  <2> DEFINE op == [OperationOf(s, o) EXCEPT !.opatterns = l]
  <2>2. op.dependencies = OperationOf(s, o).dependencies
    BY <1>1 DEF Operations
  <2> HIDE DEF op
  <2>3. ServicesKept(microservices, WithOperation(s, o, op))
    BY <2>2, ChangedOperationKept, NothingChanged
  <2>4. QED BY <2>1, <2>3, EditMicroservicesKept DEF op
<1>4. ASSUME NEW d \in DOMAIN OperationOf(s, o).dependencies.items,
             ChooseDependencyService(s, o, d) \/ ChooseDependencyOperation(s, o, d)
      PROVE  SelectsReferToServices'
  BY <1>4, ChooseDependencyServiceRefers, ChooseDependencyOperationRefers
<1>5. CASE AddDependency(s, o)
  BY <1>5, AddDependencyRefers
<1>6. CASE RemoveDependency(s, o)
  BY <1>6, RemoveDependencyRefers
<1>7. QED BY <1>2, <1>3, <1>4, <1>5, <1>6 DEF EditOperation

LEMMA EditGeneratorsRefers ==
  ASSUME EditorInvariant, EditorInvariant', SelectsReferToServices, EditGenerators
  PROVE  SelectsReferToServices'
<1>1. generators \in Lists(Calls, 1) /\ 1 \in Nat /\ NewCall.service = NoSelect
  BY DEF EditorInvariant, NewCall
<1>2. \A k \in generators.adds : CallsKept(generators, Made(generators, k, 1, NewCall))
  BY <1>1, MadeCallKept, Zenon
<1>3. \A k \in generators.removes : CallsKept(generators, Removed(generators, k, 1))
  BY <1>1, RemovedCallKept, Zenon
<1>4. PICK gen : Edit(microservices, gen, chaosmonkeys) /\ CallsKept(generators, gen)
  BY <1>2, <1>3 DEF EditGenerators
<1>5. QED BY <1>4, EditKept, NothingChanged

LEMMA EditChaosmonkeysRefers ==
  ASSUME EditorInvariant, EditorInvariant', SelectsReferToServices, EditChaosmonkeys
  PROVE  SelectsReferToServices'
<1>1. chaosmonkeys \in Lists(Monkeys, 0) /\ 0 \in Nat /\ NewChaosmonkey.service = NoSelect
  BY DEF EditorInvariant, Monkeys, NewChaosmonkey
<1>2. \A k \in chaosmonkeys.adds : CallsKept(chaosmonkeys, Made(chaosmonkeys, k, 0, NewChaosmonkey))
  BY <1>1, MadeCallKept, Zenon
<1>3. \A k \in chaosmonkeys.removes : CallsKept(chaosmonkeys, Removed(chaosmonkeys, k, 0))
  BY <1>1, RemovedCallKept, Zenon
<1>4. PICK mon : Edit(microservices, generators, mon) /\ CallsKept(chaosmonkeys, mon)
  BY <1>2, <1>3 DEF EditChaosmonkeys
<1>5. QED BY <1>4, EditKept, NothingChanged

LEMMA ChooseGeneratorOperationRefers ==
  ASSUME EditorInvariant, EditorInvariant', SelectsReferToServices,
         NEW g \in DOMAIN generators.items, ChooseGeneratorOperation(g)
  PROVE  SelectsReferToServices'
<1>1. PICK name : Edit(microservices, [generators EXCEPT !.items[g].operation.value = name], chaosmonkeys)
  BY DEF ChooseGeneratorOperation
<1> DEFINE call == [generators.items[g] EXCEPT !.operation.value = name]
<1>2. call.service = generators.items[g].service
  BY GeneratorFits, ServiceOfCall
<1>3. Edit(microservices, [generators EXCEPT !.items[g] = call], chaosmonkeys)
  BY <1>1
<1> HIDE DEF call
<1>4. CallsKept(generators, [generators EXCEPT !.items[g] = call])
  BY <1>2, GeneratorKept
<1>5. QED BY <1>3, <1>4, EditKept, NothingChanged

LEMMA ChooseChaosmonkeyServiceRefers ==
  ASSUME EditorInvariant, EditorInvariant', SelectsReferToServices,
         NEW c \in DOMAIN chaosmonkeys.items, ChooseChaosmonkeyService(c)
  PROVE  SelectsReferToServices'
<1> DEFINE old == chaosmonkeys.items[c]
<1>1. chaosmonkeys \in Lists(Monkeys, 0) /\ 0 \in Nat
  BY DEF EditorInvariant, Monkeys
<1>2. old \in Monkeys
  BY <1>1, ElementType, Zenon
<1>3. PICK name \in old.service.options :
        Edit(microservices, generators, [chaosmonkeys EXCEPT !.items[c].service.value = name])
  BY DEF ChooseChaosmonkeyService
<1> DEFINE monkey == [old EXCEPT !.service.value = name]
<1>4. monkey.service.options = old.service.options /\ monkey.service.value = name
  BY <1>2 DEF Monkeys, Selects
<1>5. Edit(microservices, generators, [chaosmonkeys EXCEPT !.items[c] = monkey])
  BY <1>3
<1> HIDE DEF monkey
<1>6. CallsKept(chaosmonkeys, [chaosmonkeys EXCEPT !.items[c] = monkey])
  BY <1>1, <1>4, ChosenRefers, ChangedCallKept
<1>7. QED BY <1>5, <1>6, EditKept, NothingChanged

LEMMA NextRefers ==
  ASSUME EditorInvariant, JsonFollowsForm, SelectsReferToServices, [Next]_vars
  PROVE  SelectsReferToServices'
<1>1. EditorInvariant'
  BY NextFits
<1>2. CASE UNCHANGED vars
  BY <1>2, SelectsReferIs, SelectsReferIsThen DEF vars
<1>3. CASE EditOther
  BY <1>1, <1>3, EditKept, NothingChanged DEF EditOther
<1>4. ASSUME NEW k \in microservices.removes, RemoveMicroservice(k) PROVE SelectsReferToServices'
  BY <1>4, RemoveMicroserviceFollows, SelectsReferIsThen
<1>5. ASSUME NEW s \in DOMAIN microservices.items,
             NEW o \in DOMAIN microservices.items[s].operations.items, EditOperation(s, o)
      PROVE  SelectsReferToServices'
  BY <1>1, <1>5, EditOperationRefers
<1>6. QED
  BY <1>1, <1>2, <1>3, <1>4, <1>5, AddMicroserviceRefers, EditMicroserviceRefers,
     EditGeneratorsRefers, EditChaosmonkeysRefers, ClickServiceRefers, ChooseGeneratorServiceRefers,
     ChooseGeneratorOperationRefers, ChooseChaosmonkeyServiceRefers
  DEF Next

LEMMA InitRefers == Init => SelectsReferToServices
<1> SUFFICES ASSUME Init PROVE SelectsReferToServices
  OBVIOUS
<1>1. \A names : CallsRefer(generators, names) /\ CallsRefer(chaosmonkeys, names)
  BY DEF Init, CallsRefer, SelectRefers, NewCall, Empty, List
<1>2. \A names : ServicesRefer(microservices, names)
  BY DEF Init, ServicesRefer, OperationsRefer, CallsRefer, NewMicroservice, NewOperation, Empty, List
<1>3. QED BY <1>1, <1>2, SelectsReferIs DEF Refers, FormRefers

\* Whatever is added, named, chosen and removed, until a microservice is
\* removed: when all microservices have valid names, every select of
\* services that has something to offer holds and offers the services of the
\* form.
THEOREM SelectsReferHolds == Spec => []SelectsReferToServices
<1>1. Init => EditorInvariant /\ JsonFollowsForm /\ SelectsReferToServices
  BY InitFits, InitRefers DEF Init, JsonFollowsForm
<1>2. EditorInvariant /\ JsonFollowsForm /\ SelectsReferToServices /\ [Next]_vars
        => EditorInvariant' /\ JsonFollowsForm' /\ SelectsReferToServices'
  BY NextFits, NextFollows, NextRefers
<1>3. QED BY <1>1, <1>2, PTL DEF Spec
=============================================================================
