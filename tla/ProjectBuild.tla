---------------------------- MODULE ProjectBuild ----------------------------
(***************************************************************************)
(* Building a project of several sources (language/project.py): the        *)
(* sources are put in order, their module headers read line by line, the   *)
(* import graph resolved (language/modules.py), each source compiled, the  *)
(* references checked against the imports, the programs linked             *)
(* (air/linker.py), validated, and the entry directive resolved.  The      *)
(* first stage that refuses ends the build.                                *)
(*                                                                         *)
(* Names of sources and of modules are numbers, in the order of (casefold, *)
(* name): 2n and 2n + 1 differ in their case only.  A source declares one  *)
(* directive or function.                                                  *)
(***************************************************************************)
EXTENDS Naturals, Sequences, FiniteSets

CONSTANTS
  Projects,  \* the sequences of sources that may be given
  Entries,   \* the entries that may be asked for
  None

Fold(name) == name \div 2

\* A line of a header, what a source declares or refers to, and a source.
HeaderLine == [kind : {"module", "import"}, name : Nat]
              \cup [kind : {"blank", "ill-formed", "text"}, name : {None}]
Definition == [kind : {"directive", "function", "role"}, name : STRING]
SourceUnit == [source : Nat, lines : Seq(HeaderLine), declares : Definition,
               states : Seq(STRING), refers : Seq(Definition)]

\* The errors of a build, those of the modules by their codes.
Codes == {"EmptyProject", "DuplicateSourceUnit", "APX-MODULE-001", "APX-MODULE-002",
          "APX-MODULE-003", "APX-MODULE-004", "APX-MODULE-005", "APX-MODULE-006",
          "APX-MODULE-007", "APX-MODULE-008", "APX-MODULE-009", "ProjectCompilationError",
          "DuplicateLinkDefinition", "ProjectValidationError", "ProjectEntryPointError"}

ASSUME ProjectConstants ==
  /\ Projects \subseteq Seq(SourceUnit)
  /\ None \notin Nat /\ None \notin Codes

VARIABLES
  given,    \* the sources as they were given
  asked,    \* the entry that was asked for, or None
  phase,
  units,    \* the sources in order
  at,       \* the unit, by its place in units or in order, that is at hand
  line,     \* the next line of its header
  body,     \* whether its body has begun
  module,   \* of each unit, the module it declares or None
  imports,  \* of each unit, the modules it imports, in order of their lines
  order,    \* the places in units in the order in which they are compiled
  program,  \* the linked program: its states, directives and functions
  entry,    \* the entry directive resolved
  failure   \* the refusal: a code and the places of the units it is about

header == <<line, body, module, imports>>
vars   == <<given, asked, phase, units, at, header, order, program, entry, failure>>

NoFailure == [code |-> None, about |-> {}]

Init ==
  /\ given \in Projects /\ asked \in Entries
  /\ phase = "sources" /\ units = <<>> /\ at = 1
  /\ line = 1 /\ body = FALSE /\ module = <<>> /\ imports = <<>>
  /\ order = <<>> /\ entry = None /\ failure = NoFailure
  /\ program = [state |-> <<>>, directive |-> <<>>, function |-> <<>>]

Refuse(code, about) ==
  /\ failure' = [code |-> code, about |-> about]
  /\ phase' = "refused"
  /\ UNCHANGED <<given, asked, units, at, header, order, program, entry>>

Least(set) == CHOOSE k \in set : \A j \in set : k <= j

-----------------------------------------------------------------------------
(* _normalize_sources.                                                     *)

\* The places that repeat, but for case, a name before them.
Repeating(names, defined) ==
  {k \in defined : \E j \in defined : j < k /\ Fold(names[j]) = Fold(names[k])}

SourceNames == [k \in DOMAIN given |-> given[k].source]

NoSources == phase = "sources" /\ given = <<>> /\ Refuse("EmptyProject", {})

DuplicateSource ==
  /\ phase = "sources" /\ Repeating(SourceNames, DOMAIN given) # {}
  /\ Refuse("DuplicateSourceUnit", {Least(Repeating(SourceNames, DOMAIN given))})

Normalize ==
  /\ phase = "sources" /\ given # <<>> /\ Repeating(SourceNames, DOMAIN given) = {}
  /\ \E place \in [DOMAIN given -> DOMAIN given] :
       /\ \A j, k \in DOMAIN given :
            j < k => given[place[j]].source < given[place[k]].source
       /\ units' = [k \in DOMAIN given |-> given[place[k]]]
  /\ module' = [k \in DOMAIN given |-> None]
  /\ imports' = [k \in DOMAIN given |-> <<>>]
  /\ phase' = "headers"
  /\ UNCHANGED <<given, asked, at, line, body, order, program, entry, failure>>

-----------------------------------------------------------------------------
(* parse_module_source: a line declares the module, imports one, is blank, *)
(* looks like a header without being one ("ill-formed") or is text.        *)

Line == units[at].lines[line]

AtLine(kinds) ==
  /\ phase = "headers" /\ at <= Len(units)
  /\ line <= Len(units[at].lines) /\ Line.kind \in kinds

Declares == AtLine({"module"}) /\ ~body

Imports == AtLine({"import"}) /\ ~body

NextLine == /\ line' = line + 1
            /\ UNCHANGED <<given, asked, phase, units, at, order, program, entry, failure>>

SecondModule == /\ Declares /\ module[at] # None
                /\ Refuse("APX-MODULE-002", {at})

Declare == /\ Declares /\ module[at] = None
           /\ module' = [module EXCEPT ![at] = Line.name]
           /\ UNCHANGED <<body, imports>> /\ NextLine

ImportBeforeModule == /\ Imports /\ module[at] = None
                      /\ Refuse("APX-MODULE-003", {at})

Names(seq) == {seq[k] : k \in DOMAIN seq}

DuplicateImport == /\ Imports /\ module[at] # None /\ Line.name \in Names(imports[at])
                   /\ Refuse("APX-MODULE-004", {at})

Import == /\ Imports /\ module[at] # None /\ Line.name \notin Names(imports[at])
          /\ imports' = [imports EXCEPT ![at] = Append(@, Line.name)]
          /\ UNCHANGED <<body, module>> /\ NextLine

Blank == /\ AtLine({"blank"}) /\ UNCHANGED <<body, module, imports>> /\ NextLine

\* A header that is ill-formed or comes after the body has begun.
Misplaced ==
  /\ AtLine({"ill-formed", "module", "import"})
  /\ Line.kind # "ill-formed" => body
  /\ Refuse("APX-MODULE-001", {at})

Text == /\ AtLine({"text"}) /\ body' = TRUE
        /\ UNCHANGED <<module, imports>> /\ NextLine

UnitRead ==
  /\ phase = "headers" /\ at <= Len(units) /\ line > Len(units[at].lines)
  /\ at' = at + 1 /\ line' = 1 /\ body' = FALSE
  /\ UNCHANGED <<given, asked, phase, units, module, imports, order, program, entry,
                 failure>>

-----------------------------------------------------------------------------
(* build_module_graph.                                                     *)

Explicit  == {k \in DOMAIN module : module[k] # None}
Declared  == {module[k] : k \in Explicit}
HeadersRead == phase = "headers" /\ at > Len(units)

Compile(places) ==
  /\ order' = places /\ phase' = "compile" /\ at' = 1
  /\ UNCHANGED <<given, asked, units, header, program, entry, failure>>

Legacy == HeadersRead /\ Explicit = {} /\ Compile([k \in DOMAIN units |-> k])

MissingDeclaration ==
  /\ HeadersRead /\ Explicit \notin {{}, DOMAIN units}
  /\ Refuse("APX-MODULE-005", DOMAIN units \ Explicit)

AllExplicit == HeadersRead /\ Explicit = DOMAIN units

DuplicateModule ==
  /\ AllExplicit /\ Repeating(module, Explicit) # {}
  /\ Refuse("APX-MODULE-009", {Least(Repeating(module, Explicit))})

Unresolved == {k \in Explicit : ~(Names(imports[k]) \subseteq Declared)}

UndefinedImport ==
  /\ AllExplicit /\ Repeating(module, Explicit) = {} /\ Unresolved # {}
  /\ Refuse("APX-MODULE-006", {Least(Unresolved)})

Resolved == AllExplicit /\ Repeating(module, Explicit) = {} /\ Unresolved = {}

\* The order and the cycles of module ModuleGraph.
Placed(places, k) == {module[places[j]] : j \in 1..k}
IsOrder(places) ==
  \A k \in DOMAIN places :
    LET before == Placed(places, k - 1)
        ready  == {u \in Explicit : /\ module[u] \notin before
                                    /\ Names(imports[u]) \subseteq before}
    IN  /\ places[k] \in ready
        /\ \A u \in ready : module[places[k]] <= module[u]
IsCycle(path) ==
  \A k \in DOMAIN path :
    module[path[IF k = Len(path) THEN 1 ELSE k + 1]] \in Names(imports[path[k]])
Paths == UNION {[1..n -> Explicit] : n \in 1..Cardinality(Explicit)}

ImportCycle ==
  /\ Resolved
  /\ \E path \in Paths : IsCycle(path) /\ Refuse("APX-MODULE-007", Names(path))

Order ==
  /\ Resolved
  /\ \E places \in [DOMAIN units -> DOMAIN units] : IsOrder(places) /\ Compile(places)

-----------------------------------------------------------------------------
(* Compilation of each unit and validate_module_visibility.                *)

Unit == units[order[at]]
AtUnit(stage) == phase = stage /\ at <= Len(order)
PastUnits(stage) == phase = stage /\ at > Len(order)

NextUnit == /\ at' = at + 1
            /\ UNCHANGED <<given, asked, phase, units, header, order, program, entry,
                           failure>>
NextStage(stage) ==
  /\ phase' = stage /\ at' = 1
  /\ UNCHANGED <<given, asked, units, header, order, program, entry, failure>>

\* A source that does not parse, does not type or is a role is no program.
NotCompiled == /\ AtUnit("compile") /\ Unit.declares.kind \notin {"directive", "function"}
               /\ Refuse("ProjectCompilationError", {order[at]})
Compiled == /\ AtUnit("compile") /\ Unit.declares.kind \in {"directive", "function"}
            /\ NextUnit
AllCompiled == PastUnits("compile") /\ NextStage(IF Explicit = {} THEN "link" ELSE "visibility")

\* The unit that owns a definition: the last in order that declares it.
OwnersOf(id) == {j \in DOMAIN order : units[order[j]].declares = id}
Owner(id) == CHOOSE j \in OwnersOf(id) : \A i \in OwnersOf(id) : i <= j

Visible(k) == {module[k]} \cup Names(imports[k])

\* Faulty variant of Hidden: what an imported module imports is visible too.
HiddenBeyondImports ==
  {id \in Names(Unit.refers) :
     /\ OwnersOf(id) # {}
     /\ \A k \in DOMAIN units :
          module[k] \in Visible(order[at]) =>
            module[order[Owner(id)]] \notin Visible(k)}

\* Faulty variant of Hidden: a unit that imports nothing is not checked.
HiddenFromImporters ==
  {id \in Names(Unit.refers) :
     /\ OwnersOf(id) # {} /\ imports[order[at]] # <<>>
     /\ module[order[Owner(id)]] \notin Visible(order[at])}

\* What the unit refers to whose owner it does not import.
Hidden == {id \in Names(Unit.refers) :
             /\ OwnersOf(id) # {}
             /\ module[order[Owner(id)]] \notin Visible(order[at])}

NotVisible == AtUnit("visibility") /\ Hidden # {} /\ Refuse("APX-MODULE-008", {order[at]})
AllVisible == AtUnit("visibility") /\ Hidden = {} /\ NextUnit
VisibilityChecked == PastUnits("visibility") /\ NextStage("link")

-----------------------------------------------------------------------------
(* AIRProgramLinker.link: one category of definitions after the other, in  *)
(* each the units in order.                                                *)

Categories == <<"state", "directive", "function">>

\* What the units define in a category, as pairs of a definition and its unit.
DefinitionsOf(category, k) ==
  IF category = "state" THEN units[order[k]].states
  ELSE IF units[order[k]].declares.kind = category THEN <<units[order[k]].declares>> ELSE <<>>

Joined(category) ==
  LET upto[k \in 0..Len(order)] ==
        IF k = 0 THEN <<>> ELSE upto[k - 1] \o DefinitionsOf(category, k)
  IN  upto[Len(order)]

Repeated(seq) == {id \in Names(seq) : \E j, k \in DOMAIN seq : j # k /\ seq[j] = id /\ seq[k] = id}
DefinedBy(category, ids) ==
  {order[k] : k \in {j \in DOMAIN order : Names(DefinitionsOf(category, j)) \cap ids # {}}}

DuplicateDefinition ==
  /\ AtUnit("link") /\ at <= Len(Categories) /\ Repeated(Joined(Categories[at])) # {}
  /\ \E id \in Repeated(Joined(Categories[at])) :
       Refuse("DuplicateLinkDefinition", DefinedBy(Categories[at], {id}))

\* Faulty variant of Merge: what is defined again replaces what was defined.
MergeReplacing ==
  /\ phase = "link" /\ at <= Len(Categories)
  /\ program' = [program EXCEPT ![Categories[at]] = Joined(Categories[at])]
  /\ at' = at + 1
  /\ UNCHANGED <<given, asked, phase, units, header, order, entry, failure>>

Merge ==
  /\ phase = "link" /\ at <= Len(Categories) /\ Repeated(Joined(Categories[at])) = {}
  /\ program' = [program EXCEPT ![Categories[at]] = Joined(Categories[at])]
  /\ at' = at + 1
  /\ UNCHANGED <<given, asked, phase, units, header, order, entry, failure>>

Linked == phase = "link" /\ at > Len(Categories) /\ NextStage("validate")

-----------------------------------------------------------------------------
(* RuntimeValidator.validate, as far as references go.                     *)

Definitions == Names(program.directive) \cup Names(program.function)
References(id) == UNION {Names(units[k].refers) : k \in {j \in DOMAIN units : units[j].declares = id}}
Calls(id) == {callee \in References(id) : callee.kind = "function"}

Dangling == {k \in DOMAIN units : ~(Names(units[k].refers) \subseteq Definitions)}

\* A cycle of calls: the least sets of functions each of which calls one of the set.  The
\* code reports the first cycle its search closes; any of them may be blamed here.
CallsItself(functions) == functions # {} /\ \A f \in functions : Calls(f) \cap functions # {}
Recursive(functions) ==
  /\ CallsItself(functions)
  /\ \A fewer \in SUBSET functions : CallsItself(fewer) => fewer = functions

UndefinedReference ==
  /\ phase = "validate" /\ Dangling # {}
  /\ \E k \in Dangling : Refuse("ProjectValidationError", {k})

RecursiveFunctions ==
  /\ phase = "validate" /\ Dangling = {}
  /\ \E functions \in SUBSET Names(program.function) :
       /\ Recursive(functions)
       /\ Refuse("ProjectValidationError", {k \in DOMAIN units : units[k].declares \in functions})

Validated ==
  /\ phase = "validate" /\ Dangling = {}
  /\ ~\E functions \in SUBSET Names(program.function) : Recursive(functions)
  /\ NextStage("entry")

-----------------------------------------------------------------------------
(* _resolve_entry_directive, ProjectBuild.resolve_entry and execute.       *)

\* An entry is the plain name of a directive or its identifier.
IsEntry(id, reference) == id.kind = "directive" /\ id.name = reference.name
Matching(reference) == {id \in Names(program.directive) : IsEntry(id, reference)}

EntryGiven ==
  /\ phase = "entry" /\ asked # None
  /\ \E id \in Matching(asked) : entry' = id
  /\ phase' = "built"
  /\ UNCHANGED <<given, asked, units, at, header, order, program, failure>>

EntryLeftOpen ==
  /\ phase = "entry" /\ asked = None /\ phase' = "built"
  /\ UNCHANGED <<given, asked, units, at, header, order, program, entry, failure>>

UndefinedEntry ==
  /\ phase = "entry" /\ asked # None /\ Matching(asked) = {}
  /\ Refuse("ProjectEntryPointError", {})

\* The entry of one execution, the entry of the build, or the only directive.
Execute(reference) ==
  /\ phase = "built"
  /\ LET candidates == IF reference # None THEN Matching(reference)
                       ELSE IF entry # None THEN {entry} ELSE Names(program.directive)
     IN  \/ /\ Cardinality(candidates) # 1 /\ Refuse("ProjectEntryPointError", {})
         \/ /\ \E id \in candidates : candidates = {id} /\ entry' = id
            /\ phase' = "executed"
            /\ UNCHANGED <<given, asked, units, at, header, order, program, failure>>

-----------------------------------------------------------------------------
ReadHeader == \/ SecondModule \/ Declare \/ ImportBeforeModule \/ DuplicateImport \/ Import
              \/ Blank \/ Misplaced \/ Text \/ UnitRead

ResolveModules == \/ Legacy \/ MissingDeclaration \/ DuplicateModule \/ UndefinedImport
                  \/ ImportCycle \/ Order

\* The build is over, or the one execution that is considered after it.
Over == phase \in {"executed", "refused"} /\ UNCHANGED vars

Next ==
  \/ NoSources \/ DuplicateSource \/ Normalize
  \/ ReadHeader \/ ResolveModules
  \/ NotCompiled \/ Compiled \/ AllCompiled
  \/ NotVisible \/ AllVisible \/ VisibilityChecked
  \/ DuplicateDefinition \/ Merge \/ Linked
  \/ UndefinedReference \/ RecursiveFunctions \/ Validated
  \/ EntryGiven \/ EntryLeftOpen \/ UndefinedEntry
  \/ \E reference \in Entries : Execute(reference)
  \/ Over

Spec == Init /\ [][Next]_vars

-----------------------------------------------------------------------------
(* Properties.                                                             *)

IsBuilt == phase \in {"built", "executed"}

\* Types; a refusal names units, and no other phase has one.
TypeOK ==
  /\ phase \in {"sources", "headers", "compile", "visibility", "link", "validate", "entry",
                "built", "executed", "refused"}
  /\ at \in Nat \ {0} /\ line \in Nat \ {0} /\ body \in BOOLEAN
  /\ DOMAIN module = DOMAIN units /\ DOMAIN imports = DOMAIN units
  /\ Names(order) \subseteq DOMAIN units
  /\ failure.code \in Codes \cup {None} /\ (phase = "refused") = (failure.code # None)
  /\ failure.about \subseteq DOMAIN given

\* In a project that is built every reference has one definition, in its own
\* unit or, where there are modules, in one that its unit imports itself.
ReferencesResolve ==
  IsBuilt =>
    \A k \in DOMAIN units : \A id \in Names(units[k].refers) :
      \E target \in DOMAIN units :
        /\ \A j \in DOMAIN units : units[j].declares = id <=> j = target
        /\ Explicit # {} => target = k \/ module[target] \in Names(imports[k])

\* With modules, what a unit refers to is itself or is linked before it, so that
\* directives of two units never invoke each other, nor functions call.
ReferencesGoBack ==
  IsBuilt /\ Explicit # {} =>
    \A i, j \in DOMAIN order :
      units[order[j]].declares \in Names(units[order[i]].refers) => j <= i

\* No header is read as text or text as a header: what a unit that was read
\* declares and imports is what stands before its first line of text.
HeadersObeyed ==
  \A k \in {j \in DOMAIN units : phase = "headers" => j < at} : phase # "refused" =>
    LET lines == units[k].lines
        where(kinds) == {l \in DOMAIN lines : lines[l].kind \in kinds}
    IN  /\ \A l \in where({"module", "import"}) : \A t \in where({"text"}) : l < t
        /\ \A l \in where({"module"}) : module[k] = lines[l].name
        /\ \A m \in where({"module"}), l \in where({"import"}) : m < l
        /\ Names(imports[k]) = {lines[l].name : l \in where({"import"})}
        /\ Len(imports[k]) = Cardinality(where({"import"}))

\* A unit refused for a reference that is not visible refers to something that
\* no unit it sees defines.
InvisibleOnly ==
  failure.code = "APX-MODULE-008" =>
    \A k \in failure.about : \E id \in Names(units[k].refers) :
      \A j \in DOMAIN units : units[j].declares = id => module[j] \notin Visible(k)

=============================================================================
