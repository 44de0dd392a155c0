----------------------------- MODULE Formatter -----------------------------
(***************************************************************************)
(* The architecture editor of the report: a form of nested lists (services *)
(* with patterns and operations, operations with patterns and              *)
(* dependencies, generators, chaos monkeys) that grow and shrink at their  *)
(* ends by buttons, and the architecture that is written down from it.     *)
(* The counters of the script say how much of the form there is to read;   *)
(* the buttons that are shown say what a user can do next.                 *)
(***************************************************************************)
EXTENDS Integers, Sequences

LOCAL INSTANCE FiniteSetsExt

CONSTANTS
  Names,    \* names that pat_name accepts
  NoName,   \* the empty input, which it refuses
  Word,     \* a name with "generators" in it
  OperationInput,   \* bound: the names typed for operations
  MaxElements   \* bound on the elements of the form

ASSUME FormatterAssumption ==
  /\ NoName \notin Names /\ Word \in Names
  /\ OperationInput \subseteq Names \cup {NoName}
  /\ MaxElements \in Nat

VARIABLES
  microservices, generators, chaosmonkeys, \* the form
  architecture, \* what createJson has made of it
  leftover, \* removed microservices whose operation_counter was not removed
  error \* "type" after a TypeError, "hang" in an endless loop

vars == <<microservices, generators, chaosmonkeys, architecture, leftover, error>>
form == <<microservices, generators, chaosmonkeys>>

-----------------------------------------------------------------------------
(* The lists of the form.  The elements of a list are numbered; each lies  *)
(* in a container of the one before it.  adds and removes are the numbers  *)
(* of the elements whose buttons are shown, 0 for a button before the      *)
(* first element.                                                          *)

Input == Names \cup {NoName}

List(items, counter, adds, removes) ==
  [items |-> items, counter |-> counter, adds |-> adds, removes |-> removes]

\* A list that may be empty has an add button before its first element.
Empty == List(<<>>, 0, {0}, {})

\* The add button of element k was pressed: an element is made in its
\* container, and its buttons take the place of those of element k.  The
\* first fixed elements have no remove button.
Made(l, k, fixed, item) ==
  List(Append(SubSeq(l.items, 1, k), item), l.counter + 1,
       (IF l.counter >= fixed THEN l.adds \ {k} ELSE l.adds) \cup {k + 1},
       (IF l.counter > fixed THEN l.removes \ {k} ELSE l.removes)
         \cup (IF l.counter >= fixed THEN {k + 1} ELSE {}))

\* Mutant: the counter is not decremented.
RemovedButCounted(l, k, fixed) ==
  List(SubSeq(l.items, 1, k - 1), l.counter,
       {j \in l.adds : j < k} \cup (IF l.counter > fixed THEN {k - 1} ELSE {}),
       {j \in l.removes : j < k} \cup (IF l.counter > fixed + 1 THEN {k - 1} ELSE {}))

\* The remove button of element k was pressed: its container is cleared, and
\* the element before gets its buttons back.
Removed(l, k, fixed) ==
  List(SubSeq(l.items, 1, k - 1), l.counter - 1,
       {j \in l.adds : j < k} \cup (IF l.counter > fixed THEN {k - 1} ELSE {}),
       {j \in l.removes : j < k} \cup (IF l.counter > fixed + 1 THEN {k - 1} ELSE {}))

\* A select element: its value, and the options to choose from
Select(value, options) == [value |-> value, options |-> options]

NoSelect == Select(NoName, {})

\* Some names, and the first of them
NameList(all, first) == [all |-> all, first |-> first]

\* fillSelect: the value is kept if it is still there.
Filled(select, names) ==
  Select(IF select.value \in names.all THEN select.value ELSE names.first, names.all)

-----------------------------------------------------------------------------
(* What is written down.                                                   *)

CallJson(call) == [service |-> call.service.value, operation |-> call.operation.value]

\* The loops of createJson run below the counters.
OperationJson(op) ==
  [name |-> op.name,
   opatterns |-> [p \in 1..op.opatterns.counter |-> op.opatterns.items[p]],
   dependencies |-> [d \in 1..op.dependencies.counter |-> CallJson(op.dependencies.items[d])]]

MicroserviceJson(ms) ==
  [name |-> ms.name,
   spatterns |-> [p \in 1..ms.spatterns.counter |-> ms.spatterns.items[p]],
   operations |-> [o \in 1..ms.operations.counter |-> OperationJson(ms.operations.items[o])]]

Json(ms, gen, mon) ==
  [microservices |-> [s \in 1..ms.counter |-> MicroserviceJson(ms.items[s])],
   generators |-> [g \in 1..gen.counter |-> CallJson(gen.items[g])],
   chaosmonkeys |-> [c \in 1..mon.counter |-> mon.items[c].service.value]]

\* Are there elements for all that is counted?
Complete(l) == l.counter <= Len(l.items)

Readable(ms, gen, mon) ==
  /\ Complete(ms) /\ Complete(gen) /\ Complete(mon)
  /\ \A s \in 1..ms.counter :
       /\ Complete(ms.items[s].spatterns) /\ Complete(ms.items[s].operations)
       /\ \A o \in 1..ms.items[s].operations.counter :
            /\ Complete(ms.items[s].operations.items[o].opatterns)
            /\ Complete(ms.items[s].operations.items[o].dependencies)

\* Is the word among the operations of a microservice, as a name or a target?
SaysWord(service) ==
  \E j \in DOMAIN service.operations :
    LET op == service.operations[j]
    IN  \/ op.name = Word
        \/ \E d \in DOMAIN op.dependencies :
             Word \in {op.dependencies[d].service, op.dependencies[d].operation}

\* The text is cut where the word is first found, which should be after the
\* microservices.  When it is within the operations of one, their end is not
\* found, and the search starts anew at the same place.
Hangs(json) ==
  \E s \in DOMAIN json.microservices :
    /\ SaysWord(json.microservices[s])
    /\ \A r \in 1..s : json.microservices[r].name # Word
    /\ \A r \in 1..(s - 1) : ~SaysWord(json.microservices[r])

\* createJson, when the form is ms, gen, mon
CreateJson(ms, gen, mon) ==
  IF Readable(ms, gen, mon)
  THEN /\ architecture' = Json(ms, gen, mon)
       /\ error' = IF Hangs(architecture') THEN "hang" ELSE error
  ELSE error' = "type" /\ UNCHANGED architecture

\* getServiceNames
ServiceNames(json) ==
  NameList({json.microservices[s].name : s \in DOMAIN json.microservices},
           json.microservices[1].name)

\* getServiceOperations
OperationNames(json, service) ==
  LET with == {s \in DOMAIN json.microservices : json.microservices[s].name = service}
      first == CHOOSE s \in with : \A r \in with : s <= r
  IN  IF with = {} THEN NameList({}, NoName)
      ELSE NameList(UNION {{json.microservices[s].operations[j].name :
                              j \in DOMAIN json.microservices[s].operations} : s \in with},
                    json.microservices[first].operations[1].name)

-----------------------------------------------------------------------------
(* Filling the selects.                                                    *)

FillCall(call, names) == [call EXCEPT !.service = Filled(@, names)]

FillCalls(l, names) ==
  [l EXCEPT !.items = [k \in DOMAIN l.items |-> FillCall(l.items[k], names)]]

FillDependencies(op, names) == [op EXCEPT !.dependencies = FillCalls(@, names)]

FillOperations(l, names) ==
  [l EXCEPT !.items = [k \in DOMAIN l.items |-> FillDependencies(l.items[k], names)]]

FillMicroservice(ms, names) == [ms EXCEPT !.operations = FillOperations(@, names)]

\* fillServiceSelects: all selects of class microservice-names
FillServices(l, names) ==
  [l EXCEPT !.items = [k \in DOMAIN l.items |-> FillMicroservice(l.items[k], names)]]

\* fillOperationSelect
FillOperation(call, json) ==
  [call EXCEPT !.operation = Filled(@, OperationNames(json, call.service.value))]

-----------------------------------------------------------------------------
(* Operations of the user.  An event handler that throws an exception ends *)
(* there, and so does the model, except in RemoveMicroservice.             *)

\* A pattern: its type and arguments do not matter.
Pattern == "pattern"
NewCall == [service |-> NoSelect, operation |-> NoSelect]
NewChaosmonkey == [service |-> NoSelect]

\* makeOperation
NewOperation == [name |-> NoName, opatterns |-> Empty, dependencies |-> Empty]

\* makeMicroservice, with its first operation
NewMicroservice ==
  [name |-> NoName, spatterns |-> Empty,
   operations |-> List(<<NewOperation>>, 1, {1}, {})]

\* How many elements the form has
Elements ==
  LET Sum(l, Of(_)) == MapThenSumSet(LAMBDA k : Of(l.items[k]), DOMAIN l.items)
      OfOperation(op) == 1 + Len(op.opatterns.items) + Len(op.dependencies.items)
      OfService(service) ==
        1 + Len(service.spatterns.items) + Sum(service.operations, OfOperation)
  IN  Sum(microservices, OfService) + Len(generators.items) + Len(chaosmonkeys.items)

Room == Elements < MaxElements

\* A handler that changes the form and calls createJson
Edit(ms, gen, mon) ==
  /\ error = "none"
  /\ microservices' = ms /\ generators' = gen /\ chaosmonkeys' = mon
  /\ CreateJson(ms, gen, mon)
  /\ UNCHANGED leftover

EditMicroservices(ms) == Edit(ms, generators, chaosmonkeys)

\* Fields that are not modelled
EditOther == Edit(microservices, generators, chaosmonkeys)

\* Mutant: the name is checked before createJson, as elsewhere.
CheckedFirst(s, name) ==
  LET named == [microservices EXCEPT !.items[s].name = name]
      names == ServiceNames(architecture)
  IN  IF name # NoName
      THEN Edit(FillServices(named, names), FillCalls(generators, names),
                FillCalls(chaosmonkeys, names))
      ELSE EditMicroservices(named)

\* oninput of a microservice's name: createJson, and a valid name goes to all
\* selects of services.
NameMicroservice(s, name) ==
  LET named == [microservices EXCEPT !.items[s].name = name]
  IN  /\ error = "none"
      /\ CreateJson(named, generators, chaosmonkeys)
      /\ LET names == ServiceNames(architecture')
         IN  IF name # NoName /\ error' = "none"
             THEN /\ microservices' = FillServices(named, names)
                  /\ generators' = FillCalls(generators, names)
                  /\ chaosmonkeys' = FillCalls(chaosmonkeys, names)
             ELSE microservices' = named /\ UNCHANGED <<generators, chaosmonkeys>>
      /\ UNCHANGED leftover

\* If a microservice of this number was removed, makeOperation finds its
\* operation_counter and looks for buttons of an operation that is not there.
AddMicroservice(k) ==
  /\ k \in microservices.adds /\ Room
  /\ IF k + 1 \in leftover
     THEN /\ error = "none" /\ error' = "type"
          /\ UNCHANGED <<form, architecture, leftover>>
     ELSE EditMicroservices(Made(microservices, k, 1, NewMicroservice))

\* removeMicroservice fails on a variable that does not exist, with the
\* microservice gone: operation_counter stays and createJson is not called.
RemoveMicroservice(k) ==
  /\ error = "none"
  /\ k \in microservices.removes
  /\ microservices' = Removed(microservices, k, 1)
  /\ leftover' = leftover \cup {k}
  /\ UNCHANGED <<generators, chaosmonkeys, architecture, error>>

\* makePattern and removePattern of a microservice
EditServicePatterns(s) ==
  LET l == microservices.items[s].spatterns
      With(patterns) == EditMicroservices([microservices EXCEPT !.items[s].spatterns = patterns])
  IN  \/ \E k \in l.adds : Room /\ With(Made(l, k, 0, Pattern))
      \/ \E k \in l.removes : With(Removed(l, k, 0))

\* makeOperation and removeOperation
AddOperation(s) ==
  LET l == microservices.items[s].operations
  IN  \E k \in l.adds :
        /\ Room
        /\ EditMicroservices(
             [microservices EXCEPT !.items[s].operations = Made(l, k, 1, NewOperation)])

\* Mutant: createJson is not called.
RemovedUnseen(s) ==
  LET l == microservices.items[s].operations
  IN  \E k \in l.removes :
        /\ error = "none"
        /\ microservices' = [microservices EXCEPT !.items[s].operations = Removed(l, k, 1)]
        /\ UNCHANGED <<generators, chaosmonkeys, architecture, leftover, error>>

RemoveOperation(s) ==
  LET l == microservices.items[s].operations
  IN  \E k \in l.removes :
        EditMicroservices([microservices EXCEPT !.items[s].operations = Removed(l, k, 1)])

\* An operation of the form, and the form with another in its place
OperationOf(s, o) == microservices.items[s].operations.items[o]
WithOperation(s, o, op) == [microservices EXCEPT !.items[s].operations.items[o] = op]

\* oninput of an operation's name
NameOperation(s, o, name) ==
  EditMicroservices(WithOperation(s, o, [OperationOf(s, o) EXCEPT !.name = name]))

\* makePattern and removePattern of an operation
EditOperationPatterns(s, o) ==
  LET l == OperationOf(s, o).opatterns
      With(patterns) ==
        EditMicroservices(WithOperation(s, o, [OperationOf(s, o) EXCEPT !.opatterns = patterns]))
  IN  \/ \E k \in l.adds : Room /\ With(Made(l, k, 0, Pattern))
      \/ \E k \in l.removes : With(Removed(l, k, 0))

\* The form with other dependencies of an operation
WithDependencies(s, o, calls) ==
  WithOperation(s, o, [OperationOf(s, o) EXCEPT !.dependencies = calls])

\* makeDependency, fillServiceSelects, createJson
AddDependency(s, o) ==
  LET l == OperationOf(s, o).dependencies
      names == ServiceNames(architecture)
  IN  \E k \in l.adds :
        /\ Room
        /\ Edit(FillServices(WithDependencies(s, o, Made(l, k, 0, NewCall)), names),
                FillCalls(generators, names), FillCalls(chaosmonkeys, names))

RemoveDependency(s, o) ==
  LET l == OperationOf(s, o).dependencies
  IN  \E k \in l.removes : EditMicroservices(WithDependencies(s, o, Removed(l, k, 0)))

\* makeGenerator, removeGenerator, makeChaosmonkey and removeChaosmonkey
EditGenerators ==
  \/ \E k \in generators.adds :
       Room /\ Edit(microservices, Made(generators, k, 1, NewCall), chaosmonkeys)
  \/ \E k \in generators.removes :
       Edit(microservices, Removed(generators, k, 1), chaosmonkeys)

EditChaosmonkeys ==
  \/ \E k \in chaosmonkeys.adds :
       Room /\ Edit(microservices, generators, Made(chaosmonkeys, k, 0, NewChaosmonkey))
  \/ \E k \in chaosmonkeys.removes :
       Edit(microservices, generators, Removed(chaosmonkeys, k, 0))

\* onclick of a select of services fills the operations; createJson is not called.
ClickService ==
  /\ error = "none"
  /\ \/ \E s \in DOMAIN microservices.items :
          \E o \in DOMAIN microservices.items[s].operations.items :
            LET l == OperationOf(s, o).dependencies
            IN  \E d \in DOMAIN l.items :
                  /\ microservices' = WithDependencies(s, o,
                       [l EXCEPT !.items[d] = FillOperation(l.items[d], architecture)])
                  /\ UNCHANGED generators
     \/ \E g \in DOMAIN generators.items :
          /\ generators' = [generators EXCEPT !.items[g] = FillOperation(generators.items[g], architecture)]
          /\ UNCHANGED microservices
  /\ UNCHANGED <<chaosmonkeys, architecture, leftover, error>>

\* onchange of a select of services: createJson, and then the operations
\* of the service are offered.
ChooseDependencyService(s, o, d) ==
  LET l == OperationOf(s, o).dependencies
  IN  \E name \in l.items[d].service.options :
        LET chosen == [l.items[d] EXCEPT !.service.value = name]
            With(call) == WithDependencies(s, o, [l EXCEPT !.items[d] = call])
        IN  /\ error = "none"
            /\ CreateJson(With(chosen), generators, chaosmonkeys)
            /\ microservices' = With(IF error' = "none"
                                     THEN FillOperation(chosen, architecture') ELSE chosen)
            /\ UNCHANGED <<generators, chaosmonkeys, leftover>>

ChooseGeneratorService(g) ==
  \E name \in generators.items[g].service.options :
    LET chosen == [generators.items[g] EXCEPT !.service.value = name]
        With(call) == [generators EXCEPT !.items[g] = call]
    IN  /\ error = "none"
        /\ CreateJson(microservices, With(chosen), chaosmonkeys)
        /\ generators' = With(IF error' = "none"
                              THEN FillOperation(chosen, architecture') ELSE chosen)
        /\ UNCHANGED <<microservices, chaosmonkeys, leftover>>

ChooseChaosmonkeyService(c) ==
  \E name \in chaosmonkeys.items[c].service.options :
    Edit(microservices, generators, [chaosmonkeys EXCEPT !.items[c].service.value = name])

\* The select of a dependency's operation has no handler; that of a
\* generator's operation calls createJson.
ChooseDependencyOperation(s, o, d) ==
  LET l == OperationOf(s, o).dependencies
  IN  \E name \in l.items[d].operation.options :
        /\ error = "none"
        /\ microservices' = WithDependencies(s, o, [l EXCEPT !.items[d].operation.value = name])
        /\ UNCHANGED <<generators, chaosmonkeys, architecture, leftover, error>>

ChooseGeneratorOperation(g) ==
  \E name \in generators.items[g].operation.options :
    Edit(microservices, [generators EXCEPT !.items[g].operation.value = name], chaosmonkeys)

-----------------------------------------------------------------------------
\* The page is loaded: one microservice, one generator, and createJson.
Init ==
  /\ microservices = List(<<NewMicroservice>>, 1, {1}, {})
  /\ generators = List(<<NewCall>>, 1, {1}, {})
  /\ chaosmonkeys = Empty
  /\ architecture = Json(microservices, generators, chaosmonkeys)
  /\ leftover = {}
  /\ error = "none"

EditMicroservice(s) ==
  \/ \E name \in Input : NameMicroservice(s, name)
  \/ EditServicePatterns(s)
  \/ AddOperation(s)
  \/ RemoveOperation(s)

EditOperation(s, o) ==
  \/ \E name \in OperationInput : NameOperation(s, o, name)
  \/ EditOperationPatterns(s, o)
  \/ AddDependency(s, o)
  \/ RemoveDependency(s, o)
  \/ \E d \in DOMAIN OperationOf(s, o).dependencies.items :
       ChooseDependencyService(s, o, d) \/ ChooseDependencyOperation(s, o, d)

Next ==
  \/ EditOther
  \/ \E k \in microservices.adds : AddMicroservice(k)
  \/ \E k \in microservices.removes : RemoveMicroservice(k)
  \/ \E s \in DOMAIN microservices.items :
       \/ EditMicroservice(s)
       \/ \E o \in DOMAIN microservices.items[s].operations.items : EditOperation(s, o)
  \/ EditGenerators
  \/ EditChaosmonkeys
  \/ ClickService
  \/ \E g \in DOMAIN generators.items : ChooseGeneratorService(g) \/ ChooseGeneratorOperation(g)
  \/ \E c \in DOMAIN chaosmonkeys.items : ChooseChaosmonkeyService(c)

Spec == Init /\ [][Next]_vars

-----------------------------------------------------------------------------
(* What the editor promises.                                               *)

\* Lists of elements of S: the counter is the number of elements, of which
\* the first fixed ones cannot be removed; the buttons are those of the last.
Lists(S, fixed) ==
  {l \in [items : Seq(S), counter : Nat, adds : SUBSET Nat, removes : SUBSET Nat] :
     /\ l.counter = Len(l.items) /\ l.counter >= fixed
     /\ l.adds = {l.counter}
     /\ l.removes = IF l.counter > fixed THEN {l.counter} ELSE {}}

Selects == [value : Input, options : SUBSET Input]
Calls == [service : Selects, operation : Selects]
Operations ==
  [name : Input, opatterns : Lists({Pattern}, 0), dependencies : Lists(Calls, 0)]
Microservices ==
  [name : Input, spatterns : Lists({Pattern}, 0), operations : Lists(Operations, 1)]

CallsJson == [service : Input, operation : Input]
OperationsJson ==
  [name : Input, opatterns : Seq({Pattern}), dependencies : Seq(CallsJson)]
MicroservicesJson ==
  [name : Input, spatterns : Seq({Pattern}), operations : Seq(OperationsJson) \ {<<>>}]
Jsons ==
  [microservices : Seq(MicroservicesJson) \ {<<>>}, generators : Seq(CallsJson),
   chaosmonkeys : Seq(Input)]

\* Whatever buttons are pressed, in whatever order, all that is counted is
\* there and is written down; exactly the last element of each list can be
\* followed by another or be removed, but for the first microservice,
\* operation and generator; and the script fails only after a microservice
\* was removed.
EditorInvariant ==
  /\ microservices \in Lists(Microservices, 1)
  /\ generators \in Lists(Calls, 1)
  /\ chaosmonkeys \in Lists([service : Selects], 0)
  /\ architecture \in Jsons
  /\ leftover \subseteq Nat
  /\ error \in {"none", "hang", "type"}
  /\ error = "type" => leftover # {}

\* Services that the form names, and what the selects hold
FormNames == {microservices.items[s].name : s \in DOMAIN microservices.items}

ServiceSelects ==
  {generators.items[g].service : g \in DOMAIN generators.items}
    \cup {chaosmonkeys.items[c].service : c \in DOMAIN chaosmonkeys.items}
    \cup UNION {UNION {{OperationOf(s, o).dependencies.items[d].service :
                          d \in DOMAIN OperationOf(s, o).dependencies.items} :
                   o \in DOMAIN microservices.items[s].operations.items} :
            s \in DOMAIN microservices.items}

\* When all microservices have valid names and none was removed, a select of
\* services that has something to offer holds and offers the services of the
\* form, whatever they were called when the selects were filled.
SelectsReferToServices ==
  leftover = {} /\ error = "none" /\ NoName \notin FormNames =>
    \A select \in ServiceSelects :
      select = NoSelect \/ (select.options = FormNames /\ select.value \in FormNames)

\* Names and sizes of what is written down
Outline(json) ==
  [microservices |-> [s \in DOMAIN json.microservices |->
     LET service == json.microservices[s]
     IN  [name |-> service.name, spatterns |-> Len(service.spatterns),
          operations |-> [o \in DOMAIN service.operations |->
            LET op == service.operations[o]
            IN  [name |-> op.name, opatterns |-> Len(op.opatterns),
                 dependencies |-> Len(op.dependencies)]]]],
   generators |-> Len(json.generators), chaosmonkeys |-> Len(json.chaosmonkeys)]

\* Until a microservice is removed, what is written down has the
\* microservices, operations, patterns, dependencies, generators and chaos
\* monkeys of the form, with their names.
JsonFollowsForm ==
  leftover = {} =>
    Outline(architecture) = Outline(Json(microservices, generators, chaosmonkeys))
=============================================================================
