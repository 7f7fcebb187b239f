---------------------------- MODULE CFamilyLinking ----------------------------
(****************************************************************************)
(* Linking the calls of a C/C++ code graph (plugins/c_family/linking.py,    *)
(* visibility.py).  A definition belongs to a file and a language; a header *)
(* read both ways has a C and a C++ view of one function, each visible to   *)
(* callers of its languages, and a header read as C alone has one view for  *)
(* both.  _resolve_calls gives each call the definitions it may reach, then *)
(* marks the functions a global initializer exposes as entry points.        *)
(* Function values are named without a scope.                               *)
(*                                                                          *)
(* A qualified name is a sequence of scopes ending in the name; Anon stands *)
(* for an anonymous namespace.  Positions in a file are numbers.            *)
(****************************************************************************)
EXTENDS Naturals, Sequences, FiniteSets, SequencesExt

CONSTANTS
    Units       \* the parsed programs: [defs, decls, values, calls, globals]

VARIABLES
    unit,       \* the program linked
    at,         \* the next call
    targets,    \* call -> definitions, of the calls linked so far
    entry       \* definitions marked as public entry points

linkVars == <<unit, at, targets, entry>>

Anon == "(anonymous)"
NoLanguages == {"unset"}        \* visible_languages is None
EnclosingScopes(scope) == [i \in 1..(Len(scope) + 1) |-> SubSeq(scope, 1, Len(scope) + 1 - i)]

\* The first of a sequence of names that something is known by
FirstKnown(names, Known(_)) ==
    LET hits == SelectSeq(names, LAMBDA n : Known(n) # {})
    IN  IF hits = <<>> THEN {} ELSE Known(hits[1])

-----------------------------------------------------------------------------
(* visibility.py: language guards of a header, three-valued.  A guard is    *)
(* [kind, value]: #ifdef __cplusplus, a comparison of it with a number, or  *)
(* anything else; a branch is the guard with the side taken.                *)

\* _guard_value: 1, 0, or 2 for unknown
GuardValue(guard, language) ==
    CASE guard.kind = "ifdef" -> IF language = "cpp" THEN 1 ELSE 0
      [] guard.kind = "ifndef" -> IF language = "cpp" THEN 0 ELSE 1
      [] guard.kind = "version" -> IF language = "c" THEN 0 ELSE 2
      [] OTHER -> 2

\* _binary_condition_value, for && and ||
BinaryCondition(operator, left, right) ==
    CASE operator = "and" -> IF left = 0 \/ right = 0 THEN 0
                             ELSE IF left = 1 /\ right = 1 THEN 1 ELSE 2
      [] OTHER -> IF left = 1 \/ right = 1 THEN 1
                  ELSE IF left = 0 /\ right = 0 THEN 0 ELSE 2

\* _condition_value over a condition [operator, parts], a part being a guard
ConditionValue(cond, language) ==
    IF Len(cond.parts) = 1 THEN GuardValue(cond.parts[1], language)
    ELSE BinaryCondition(cond.operator, GuardValue(cond.parts[1], language),
                         GuardValue(cond.parts[2], language))

\* header_node_languages: only a definitely inactive branch excludes
HeaderNodeLanguages(branches) ==
    {l \in {"c", "cpp"} : \A i \in DOMAIN branches :
        LET v == ConditionValue(branches[i].cond, l)
        IN  v = 2 \/ (v = 1) = ~branches[i].alternative}

-----------------------------------------------------------------------------
(* Definitions: [id, file, language, qualified, signature, internal,        *)
(* header, branches, span, min, max]; header is "none", or "both" or "one"  *)
(* for a header read in both languages or in one.                           *)

NameOf(d) == Last(d.qualified)
ScopeOf(d) == Front(d.qualified)
IsAnonymous(d) == Anon \in Range(ScopeOf(d))
WithoutAnon(q) == SelectSeq(q, LAMBDA p : p # Anon)

\* _file_functions: a header's definitions carry the languages that see them,
\* and the ones of a language that does not see them are not collected
FileFunctions ==
    {d \in unit.defs : d.header # "none" => d.language \in HeaderNodeLanguages(d.branches)}

\* _restore_c_functions and _file_functions: the visible languages of a view
HeaderVisible(d) ==
    CASE d.header = "none" -> NoLanguages
      [] d.language = "cpp" -> HeaderNodeLanguages(d.branches) \ {"c"}
      [] d.header = "both" -> {"c"}
      [] OTHER -> HeaderNodeLanguages(d.branches)

\* mutant: the languages of the view are not recorded
VisibleUnset(d) == NoLanguages

\* _with_c_linkage: an extern "C" declaration exposes a C definition to C++,
\* unless C++ has its own view of the same text
Visible(d) ==
    IF /\ d.language = "c" /\ ~d.internal
       /\ \E k \in unit.decls : k.externC /\ k.qualified = d.qualified
       /\ ~\E e \in FileFunctions : e.language = "cpp" /\ e.file = d.file /\ e.span = d.span
    THEN {"c", "cpp"}
    ELSE HeaderVisible(d)

ByName(n) == {d \in FileFunctions : NameOf(d) = n}
ByQualified(q) == {d \in FileFunctions : d.qualified = q \/ (IsAnonymous(d) /\ WithoutAnon(d.qualified) = q)}

\* declared_minimums
MinimumArguments(d) ==
    LET declared == {k.min : k \in {j \in unit.decls : /\ j.qualified = d.qualified
                                                        /\ j.signature = d.signature}}
    IN  IF declared = {} THEN d.min ELSE CHOOSE m \in declared : \A n \in declared : m <= n

\* _has_visible_value_declaration
ValueDeclared(file, q, position) ==
    \E v \in unit.values : v.file = file /\ v.qualified = q /\ v.position <= position

\* _visible_value_binding: the innermost, that is the latest, local of the name
Binding(caller, name, position) ==
    LET visible == {b \in caller.bindings :
                       /\ b.name = name /\ b.declared <= position
                       /\ b.from <= position /\ position <= b.to}
    IN  IF visible = {} THEN {}
        ELSE {CHOOSE b \in visible : \A c \in visible : c.declared <= b.declared}

\* _visible_anonymous_namespace_candidates
InAnonymousReach(d, scope) ==
    IsAnonymous(d) =>
        IsPrefix(SubSeq(ScopeOf(d), 1, (CHOOSE i \in DOMAIN ScopeOf(d) :
                               ScopeOf(d)[i] = Anon /\ \A j \in 1..(i - 1) : ScopeOf(d)[j] # Anon) - 1),
                   scope)

SameUnit(d, file) == d.internal => d.file = file

-----------------------------------------------------------------------------
(* Calls: [caller, name, kind, qualified, generic, absolute, receiver,      *)
(* count, position]; generic is the qualified name without its template     *)
(* arguments.  Callers: [file, language, scope, qualified, bindings].       *)

\* _c_call_candidates
CCandidates(call) ==
    LET own == {d \in ByName(call.name) : d.language = "c" /\ d.file = call.caller.file}
    IN  IF call.kind # "direct" \/ ValueDeclared(call.caller.file, <<call.name>>, call.position)
        THEN {}
        ELSE IF own # {} THEN own
        ELSE {d \in ByName(call.name) : d.language = "c" /\ ~d.internal}

\* The names a C++ call may mean, innermost scope first
CandidateNames(call, q) ==
    IF call.absolute THEN <<q>>
    ELSE [i \in DOMAIN EnclosingScopes(call.caller.scope) |-> EnclosingScopes(call.caller.scope)[i] \o q]

\* _call_candidates
CppCandidates(call) ==
    LET scope == call.caller.scope
        named == CASE call.qualified # <<>> ->
                          FirstKnown(CandidateNames(call, call.qualified) \o CandidateNames(call, call.generic),
                                     ByQualified)
                   [] call.receiver = "this" -> ByQualified(Append(Front(call.caller.qualified), call.name))
                   [] call.receiver # "" -> {}
                   [] OTHER -> FirstKnown(CandidateNames(call, <<call.name>>), ByQualified)
        known == IF named = {} /\ call.qualified = <<>> THEN ByName(call.name) ELSE named
        linkable == {d \in known : /\ Visible(d) = NoLanguages \/ "cpp" \in Visible(d)
                                   /\ SameUnit(d, call.caller.file)}
        reachable == {d \in linkable : call.qualified # <<>> \/ InAnonymousReach(d, scope)}
        own == {d \in reachable : d.file = call.caller.file}
        chosen == IF call.qualified = <<>> /\ own # {} THEN own ELSE reachable
    IN  IF call.qualified = <<>> /\ call.receiver \notin {"", "this"} THEN {}
        ELSE {d \in chosen : MinimumArguments(d) <= call.count /\ call.count <= d.max}

\* _reference_candidates: what an unqualified function value may be
ReferenceCandidates(name, file, language, scope, position, bindings) ==
    LET names == IF language = "cpp"
                 THEN [i \in DOMAIN EnclosingScopes(scope) |-> Append(EnclosingScopes(scope)[i], name)]
                 ELSE <<<<name>>>>
        \* the first enclosing scope that knows the name decides
        Known(q) == ValueDeclared(file, q, position) \/ (language = "cpp" /\ ByQualified(q) # {})
        deciding == SelectSeq(names, Known)
        hidden == \/ \E b \in bindings : /\ b.name = name /\ b.declared <= position
                                         /\ b.from <= position /\ position <= b.to
                  \/ deciding # <<>> /\ ValueDeclared(file, deciding[1], position)
        candidates == IF deciding = <<>> THEN ByName(name) ELSE ByQualified(deciding[1])
    IN  IF hidden THEN {}
        ELSE {d \in candidates :
                 /\ IF Visible(d) = NoLanguages THEN d.language = language ELSE language \in Visible(d)
                 /\ SameUnit(d, file)
                 /\ InAnonymousReach(d, scope)}

\* _pointer_targets_for_call: the local that the call goes through, if any
PointerBinding(call) ==
    IF call.receiver # "" THEN {} ELSE Binding(call.caller, call.name, call.position)

\* The body of the loop over calls in _resolve_calls
CandidatesOf(call) ==
    LET binding == PointerBinding(call)
    IN  IF binding # {}
        THEN UNION {ReferenceCandidates(r.name, call.caller.file, call.caller.language,
                                        call.caller.scope, r.position, call.caller.bindings) :
                      r \in {t \in UNION {b.targets : b \in binding} : t.position < call.position}}
        ELSE IF call.caller.language = "cpp" THEN CppCandidates(call) ELSE CCandidates(call)

LinkInit ==
    /\ unit \in Units
    /\ at = 1
    /\ targets = <<>>
    /\ entry = {d.id : d \in {e \in unit.defs : ~e.internal}}

ResolveCall ==
    /\ at <= Len(unit.calls)
    /\ targets' = Append(targets, {d.id : d \in CandidatesOf(unit.calls[at])})
    /\ at' = at + 1
    /\ UNCHANGED <<unit, entry>>

\* The references of global initializers, in each language their file is read
\* in that may compile them
InitializerTargets ==
    UNION {UNION {ReferenceCandidates(g.name, g.file, l, g.scope, g.position, {}) :
                    l \in HeaderNodeLanguages(g.branches) \cap g.languages} : g \in unit.globals}

\* What they may call is an entry point; annotate_public_entrypoints adds the
\* external functions a public header declares, which are entry points already
MarkEntries ==
    /\ at = Len(unit.calls) + 1
    /\ at' = at + 1
    /\ entry' = entry \cup {d.id : d \in InitializerTargets}
    /\ UNCHANGED <<unit, targets>>

LinkNext == ResolveCall \/ MarkEntries
LinkDone == at = Len(unit.calls) + 2
LinkSpec == LinkInit /\ [][LinkNext \/ (LinkDone /\ UNCHANGED linkVars)]_linkVars

-----------------------------------------------------------------------------
(* What the languages say: the definitions a direct call may bind to.       *)

DefById(id) == CHOOSE d \in unit.defs : d.id = id

\* A branch the preprocessor may take in a build of the language
MayCompile(d, language) ==
    \A i \in DOMAIN d.branches :
        LET c == d.branches[i].cond
            Truths(g) == CASE g.kind = "ifdef" -> {language = "cpp"}
                           [] g.kind = "ifndef" -> {language = "c"}
                           [] g.kind = "version" -> IF language = "c" THEN {FALSE} ELSE BOOLEAN
                           [] OTHER -> BOOLEAN
            values == IF Len(c.parts) = 1 THEN Truths(c.parts[1])
                      ELSE {IF c.operator = "and" THEN p /\ q ELSE p \/ q :
                              p \in Truths(c.parts[1]), q \in Truths(c.parts[2])}
        IN  (~d.branches[i].alternative) \in values

\* The definitions some build of their own language has
Compiled == {d \in unit.defs : d.header # "none" => MayCompile(d, d.language)}

\* C linkage is declared for C++, which has no view of the text itself
LentToCpp(d) ==
    /\ ~d.internal
    /\ \E k \in unit.decls : k.externC /\ k.qualified = d.qualified
    /\ \A e \in Compiled : e.language = "cpp" => <<e.file, e.span>> # <<d.file, d.span>>

\* What code of the language may take the address of: definitions in it, C
\* definitions lent to C++, and those of a header only ever read as C
Nameable(d, language) ==
    \/ d.language = language
    \/ /\ language = "cpp" /\ d.language = "c"
       /\ LentToCpp(d) \/ (d.header = "one" /\ MayCompile(d, "cpp"))

\* What it may call: to C++ also the C definitions of source files, whose
\* linkage a C++ translation unit may declare out of sight
Callable(d, language) ==
    Nameable(d, language) \/ (language = "cpp" /\ d.language = "c" /\ d.header = "none")

Reached(defs, caller) == {d \in defs : SameUnit(d, caller.file) /\ Callable(d, caller.language)}
OwnFirst(defs, caller) ==
    LET own == {d \in defs : d.file = caller.file} IN IF own # {} THEN own ELSE defs

\* The C++ definitions an unqualified name means: those of the innermost
\* enclosing scope that has any, through anonymous namespaces
Outward(name, scope, k) == Append(SubSeq(scope, 1, k), name)
KnownAt(name, scope, k) ==
    {d \in Compiled : Outward(name, scope, k) \in {d.qualified, WithoutAnon(d.qualified)}}
Depths(name, scope) == {k \in 0..Len(scope) : KnownAt(name, scope, k) # {}}
MeantBy(name, scope) ==
    IF Depths(name, scope) = {} THEN {d \in Compiled : NameOf(d) = name}
    ELSE KnownAt(name, scope, CHOOSE k \in Depths(name, scope) : \A j \in Depths(name, scope) : j <= k)

\* A value of the name, in no wider scope than the functions of the name
HiddenByValue(g) ==
    \E k \in 0..Len(g.scope) :
        /\ ValueDeclared(g.file, Outward(g.name, g.scope, k), g.position)
        /\ \A j \in Depths(g.name, g.scope) : j <= k

Bound(call) ==
    LET caller == call.caller
        meant == MeantBy(call.name, caller.scope)
    IN  IF caller.language = "c"
        THEN OwnFirst(Reached({d \in Compiled : NameOf(d) = call.name}, caller), caller)
        ELSE {d \in OwnFirst({e \in Reached(meant, caller) : InAnonymousReach(e, caller.scope)}, caller) :
                 MinimumArguments(d) <= call.count /\ call.count <= d.max}

\* _resolve_calls: a linked call never crosses a boundary the languages draw -
\* no static function of another file, no view of a header function that the
\* caller's language does not compile, none through a name a local variable
\* hides except what was assigned to it - and a plain call by name has every
\* definition its language may bind it to: of its own file, or else the
\* external ones of any build the guards leave open, in C++ those of the
\* nearest scope that take its arguments.  C binds nothing through a member.
LinksRespectLanguages ==
    \A i \in DOMAIN targets :
        LET call == unit.calls[i]
            caller == call.caller
            local == IF call.receiver = "" THEN Binding(caller, call.name, call.position) ELSE {}
            plain == /\ local = {} /\ call.kind = "direct" /\ call.receiver = "" /\ call.qualified = <<>>
                     /\ caller.language = "c" => ~ValueDeclared(caller.file, <<call.name>>, call.position)
        IN  /\ \A id \in targets[i] :
                  LET d == DefById(id)
                  IN  /\ d \in Reached(Compiled, caller)
                      /\ local # {} => /\ Nameable(d, caller.language)
                                       /\ \E b \in local : \E r \in b.targets :
                                              r.name = NameOf(d) /\ r.position < call.position
            /\ plain => targets[i] = {d.id : d \in Bound(call)}
            /\ (local = {} /\ caller.language = "c" /\ call.kind # "direct") => targets[i] = {}

\* _resolve_calls over the globals: a function no other file can call is an
\* entry point when, and only when, a global initializer of its own file names
\* it in a language that has both: a table of callbacks makes the static
\* functions in it reachable, and nothing else does.
EntriesAreRegistered ==
    LinkDone => \A d \in Compiled : d.internal =>
        (d.id \in entry <=>
            \E g \in unit.globals : \E l \in g.languages :
                /\ g.file = d.file /\ g.name = NameOf(d) /\ d.language = l
                /\ MayCompile(g, l)
                /\ ~HiddenByValue(g)
                /\ l = "cpp" => d \in MeantBy(g.name, g.scope) /\ InAnonymousReach(d, g.scope))
=============================================================================
