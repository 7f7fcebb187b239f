------------------------------ MODULE MCAnalysis ------------------------------
(*****************************************************************************)
(* The components that turn sources into a program to review and what the    *)
(* reviews found into reports, each explored on its own: a behaviour is a    *)
(* behaviour of one component, and the others stay off.                      *)
(*****************************************************************************)
EXTENDS Naturals, Sequences

CONSTANT Components   \* the components this run explores

VARIABLE component   \* the one in this behaviour
VARIABLES unit, at, targets, entry
VARIABLES program, pending, contracts, withdrawn
VARIABLES graph, request, split, notes, focus, found, search, runs, scopePhase
VARIABLES anchorVersion, cache, pc, anchorSince, key, got, anchor
VARIABLES tree, database, profileVersion, units, results, snapshot,
          profilePhase, served
VARIABLES dedupJournal, reviews, step, scope, current, todo, window, asked,
          output, claims, diagnostics, dedupPublished, dedupFinal
VARIABLES original, entries, repaired, passes, idsAt
VARIABLES run, outputJob, left, outputJournal, order, parts, starts, summaries,
          outputPhase, outputDocument, outputDecisions, outputOutcome
VARIABLES jsonDocument, pattern, events, validate, jsonAt, stack, builder,
          counts, afterKey, written, jsonStatus
VARIABLES setup, cliArgs, local, command, cliPhase, dest, streams, outputs,
          cliRefused, cliTodo, saved, error, cliDisk, exit

Off == "off"   \* the state of a component that is not in this behaviour

-----------------------------------------------------------------------------
(* Constants of the components.                                             *)

\* Programs to link: a name in two C files, one static; a header function under
\* a language guard; two namespaces; calls of every form
Guard(k) == [operator |-> "and", parts |-> <<[kind |-> k]>>]
Guards(o, j, k) == [operator |-> o, parts |-> <<[kind |-> j], [kind |-> k]>>]
Under(c, alt) == [cond |-> c, alternative |-> alt]
HeaderBranches ==
    {<<>>, <<Under(Guard("ifdef"), FALSE)>>, <<Under(Guard("ifdef"), TRUE)>>,
     <<Under(Guards("and", "ifndef", "other"), FALSE)>>, <<Under(Guards("or", "version", "other"), TRUE)>>}
Def(id, f, l, q, int, h, b, s, mn, mx) ==
    [id |-> id, file |-> f, language |-> l, qualified |-> q, signature |-> mx, internal |-> int,
     header |-> h, branches |-> b, span |-> s, min |-> mn, max |-> mx]
Defs(b, int) ==
    {Def(1, "a.c", "c", <<"f">>, int, "none", <<>>, 1, 0, 2),
     Def(2, "b.c", "c", <<"f">>, TRUE, "none", <<>>, 1, 0, 2),
     Def(3, "h.h", "c", <<"g">>, FALSE, "both", b, 5, 1, 1),
     Def(4, "h.h", "cpp", <<"g">>, FALSE, "both", b, 5, 1, 1),
     Def(5, "x.cpp", "cpp", <<"n", "(anonymous)", "f">>, TRUE, "none", <<>>, 9, 0, 1),
     Def(6, "y.cpp", "cpp", <<"n", "f">>, FALSE, "none", <<>>, 3, 2, 2),
     Def(7, "h.h", "c", <<"s">>, TRUE, "both", b, 8, 0, 0),
     Def(8, "h.h", "cpp", <<"s">>, TRUE, "both", b, 8, 0, 0),
     Def(9, "o.h", "c", <<"g">>, FALSE, "one", <<>>, 2, 1, 1),
     Def(10, "y.cpp", "cpp", <<"n", "K", "g">>, FALSE, "none", <<>>, 7, 1, 1),
     Def(11, "x.cpp", "cpp", <<"n", "(anonymous)", "w">>, TRUE, "none", <<>>, 12, 1, 1)}
PointerLocal ==
    {[name |-> "g", declared |-> 2, from |-> 2, to |-> 9,
      targets |-> {[name |-> "f", position |-> 3], [name |-> "g", position |-> 8]}]}
Caller(f, l, sc, b) ==
    [file |-> f, language |-> l, scope |-> sc, qualified |-> sc \o <<"K", "m">>, bindings |-> b]
CallBy(c, n, k, p) ==
    [caller |-> c, name |-> n, kind |-> "direct", qualified |-> <<>>, generic |-> <<>>, absolute |-> FALSE,
     receiver |-> "", count |-> k, position |-> p]
CallOn(c, n, r, k) == [CallBy(c, n, k, 6) EXCEPT !.receiver = r, !.kind = "member"]
CallIn(c, q, g, ab, k) ==
    [CallBy(c, q[Len(q)], k, 6) EXCEPT !.qualified = q, !.generic = g, !.absolute = ab]
CallsOf(bs) ==
    LET a == Caller("a.c", "c", <<>>, bs)
        z == Caller("z.cpp", "cpp", <<"n">>, {})
        y == Caller("y.cpp", "cpp", <<"n">>, {})
    IN  <<CallBy(a, "f", 1, 5), CallBy(a, "g", 1, 5), CallOn(a, "g", "", 1), CallOn(a, "f", "o", 1),
          CallBy(Caller("b.c", "c", <<>>, {}), "f", 1, 5), CallBy(Caller("c.c", "c", <<>>, {}), "f", 1, 5),
          CallBy(Caller("x.cpp", "cpp", <<"n">>, bs), "f", 1, 6),
          CallBy(Caller("x.cpp", "cpp", <<"n", "m">>, bs), "g", 1, 6),
          CallBy(Caller("x.cpp", "cpp", <<>>, {}), "w", 1, 6),
          CallIn(y, <<"n", "f">>, <<"n", "f">>, TRUE, 2), CallBy(z, "f", 2, 6),
          CallBy(Caller("z.cpp", "cpp", <<"n", "m">>, {}), "g", 1, 6),
          CallBy(Caller("z.cpp", "cpp", <<>>, {}), "f", 1, 6),
          CallBy(Caller("h.h", "cpp", <<>>, {}), "s", 0, 6),
          CallIn(z, <<"K<int>", "g">>, <<"K", "g">>, FALSE, 1),
          CallOn(z, "g", "this", 1), CallOn(z, "f", "o", 2)>>
GlobalIn(f, ls, n, b) ==
    [name |-> n, file |-> f, languages |-> ls, scope |-> <<>>, position |-> 4, branches |-> b]
LinkedUnits ==
    {[defs |-> Defs(b, int), decls |-> k, values |-> v, calls |-> CallsOf(bs),
      globals |-> {GlobalIn("h.h", {"c", "cpp"}, "s", gb), GlobalIn("h.h", {"c", "cpp"}, "g", b)}
                  \cup (IF bs = {} THEN {} ELSE {GlobalIn("a.c", {"c"}, "f", <<>>)})] :
        b \in HeaderBranches, gb \in {<<>>, <<Under(Guard("ifdef"), FALSE)>>},
        int \in BOOLEAN, bs \in {{}, PointerLocal},
        k \in {{}, {[qualified |-> <<"f">>, signature |-> 2, externC |-> TRUE, min |-> 0],
                    [qualified |-> <<"g">>, signature |-> 1, externC |-> TRUE, min |-> 1],
                    [qualified |-> <<"n", "f">>, signature |-> 2, externC |-> FALSE, min |-> 1]}},
        v \in {{}, {[file |-> "a.c", qualified |-> <<"f">>, position |-> 3]}}}

\* Programs with an allocator that may die, a getter with guards, and a caller
NullTest(v) == [var |-> v, null |-> TRUE]
IsNull(v) == [op |-> "and", atoms |-> <<NullTest(v)>>]
NotNull(v) == [op |-> "and", atoms |-> <<[var |-> v, null |-> FALSE]>>]
TwoNull(o, v, w) == [op |-> o, atoms |-> <<NullTest(v), NullTest(w)>>]
If(c, r) == [kind |-> "if", cond |-> c, returns |-> r, alt |-> FALSE, vars |-> {}]
Write(v) == [kind |-> "write", cond |-> IsNull(99), returns |-> "none", alt |-> FALSE, vars |-> {v}]
NoSink == [matches |-> FALSE, anchored |-> FALSE, alternatives |-> <<>>]
SinkWith(a) == [matches |-> TRUE, anchored |-> TRUE, alternatives |-> a]
Final(form, ts, args, betw, flag) ==
    [form |-> form, targets |-> ts, args |-> args, between |-> betw, conditional |-> flag = "conditional",
     modified |-> flag = "modified", escaped |-> flag = "escaped"]
Fn(n, nr, body, final, sink) == [params |-> n, noreturn |-> nr, body |-> body, final |-> final, sink |-> sink]
Die(nr) == Fn(0, nr, <<>>, Final("none", {}, <<>>, <<>>, ""), NoSink)
Alloc(flag, c) ==
    Fn(0, FALSE, <<>>, Final("local", {"malloc"}, <<>>, <<[targets |-> {"die"}, cond |-> c]>>, flag), NoSink)
MainFn(body, args) ==
    Fn(2, FALSE, body, Final("local", {"get"}, args, <<>>, ""), SinkWith(<<[inRange |-> TRUE, onResult |-> TRUE]>>))
Allocators ==
    {<<TRUE, "", IsNull(0)>>, <<FALSE, "", IsNull(0)>>, <<TRUE, "", NotNull(0)>>,
     <<TRUE, "modified", IsNull(0)>>, <<TRUE, "escaped", IsNull(0)>>}
GetterGuards ==
    {<<>>, <<If(IsNull(1), "null")>>, <<If(TwoNull("or", 1, 2), "null")>>, <<If(TwoNull("and", 1, 2), "null")>>,
     <<If(IsNull(1), "value")>>, <<If(TwoNull("or", 1, 99), "null")>>}
NullPrograms ==
    {[die |-> Die(al[1]), alloc |-> Alloc(al[2], al[3]), get |-> Fn(2, FALSE, b, f, NoSink), main |-> MainFn(mb, ar)] :
        al \in Allocators, b \in GetterGuards,
        f \in {Final("call", {"alloc"}, <<>>, <<>>, ""), Final("local", {"alloc"}, <<>>, <<>>, ""),
               Final("call", {"alloc", "malloc"}, <<>>, <<>>, "")},
        mb \in {<<>>, <<If(IsNull(1), "value")>>, <<If(IsNull(1), "value"), Write(1)>>,
                <<If(IsNull(1), "value"), If(IsNull(2), "value")>>},
        ar \in {<<1, 2>>, <<2, 1>>}}

\* Call graphs over three files, with a diamond, a cycle and two sources
CallGraphs ==
    {[nodes |-> 1..4, file |-> <<"a", "a", "b", "c">>, calls |-> c, sources |-> s] :
        c \in {{<<1, 2>>, <<2, 3>>, <<4, 3>>}, {<<4, 2>>, <<2, 1>>, <<4, 3>>, <<3, 1>>, <<2, 3>>},
               {<<1, 2>>, <<2, 1>>, <<1, 3>>, <<3, 4>>, <<2, 4>>}},
        s \in {{1}, {4}, {1, 4}}}
RequestFor(m, f, fl, w, sm) ==
    [mode |-> m, files |-> f, outside |-> {"o"}, failed |-> fl, unsupported |-> {"u"}, warned |-> w,
     simple |-> sm]
ReviewRequests ==
    {RequestFor("patch", <<>>, {}, {}, TRUE)}
    \cup {RequestFor("code", fs, fl, w, sm) :
            fs \in {<<"a">>, <<"b", "c">>, <<"a", "u">>, <<"b", "o">>, <<"u", "x">>},
            fl \in {{}, {"b"}}, w \in {{}, {"c"}}, sm \in BOOLEAN}

\* Three versions of a file, and snippets that occur in it once, twice, with
\* other spacing, with line numbers, in part, or not at all
SourceTexts ==
    << << <<"a">>, <<"_", "b">>, <<"}">>, <<"_", "a">>, <<"_", "b">> >>,
       << <<"b">>, <<"a", "b">>, <<>>, <<"_", "b">>, <<"a">>, <<"b", "_">> >>,
       << <<"c">>, <<"_", "b">>, <<"}">>, <<"_", "a">>, <<"_", "b">> >> >>
IssueSnippets ==
    {<< <<"a">> >>, << <<"}">> >>, << <<"a">>, <<"_", "b">> >>, << <<"a">>, <<"b">> >>,
     << <<"1:", "_", "a">>, <<"2:", "b">> >>, << <<"a">>, <<"c">>, <<"b">> >>,
     << <<"c">>, <<"c">> >>, << <<>>, <<"_", "b">>, <<>> >>, << <<"a", "b">> >>}
SourceIssues ==
    {[snippet |-> s, start |-> l[1], end |-> l[2], hint |-> h, context |-> {"g"}] :
        s \in IssueSnippets, l \in {<<0, 0>>, <<1, 2>>}, h \in {{}, 4..5}}
SourceFunctions == <<[from |-> 1, to |-> 3, name |-> "f"], [from |-> 4, to |-> 6, name |-> "g"]>>

\* Trees of two sources, a header and a system header, with lines that depend
\* on the configuration, are continued, blank, or set a line number
Both == {"x", "y"}
LineOf(on) == [on |-> on, cont |-> FALSE, blank |-> FALSE, include |-> "", number |-> 0]
Continued(on) == [LineOf(on) EXCEPT !.cont = TRUE]
Include(f) == [LineOf(Both) EXCEPT !.include = f]
Numbered == [LineOf(Both) EXCEPT !.number = 7]
Blank == [LineOf(Both) EXCEPT !.blank = TRUE]
InTree(texts) == [root |-> TRUE, texts |-> texts]
ProfileTrees ==
    {[a |-> InTree(<<<<Include("h"), LineOf({"x"}), LineOf(Both)>>, <<LineOf(Both), Include("h")>>>>),
      b |-> InTree(<<<<LineOf(Both), Include("s"), Blank, Continued({"y"}), LineOf(Both), LineOf(Both)>>>>),
      h |-> InTree(<<<<Continued(Both), LineOf(Both), LineOf(on)>>,
                     <<LineOf(Both), Continued(on), LineOf(Both)>>>>),
      s |-> [root |-> FALSE, texts |-> <<<<LineOf(Both), Include("h"), LineOf({"x"})>>>>]] :
        on \in {{"x"}, Both}}
    \cup {[a |-> InTree(<<<<Include("h"), LineOf(Both)>>>>),
           h |-> InTree(<<<<LineOf(Both), Numbered, LineOf(Both)>>>>)],
          [a |-> InTree(<<<<Numbered, LineOf(Both)>>>>)]}
Entry(f, c, argv, gaps, ok) == [file |-> f, config |-> c, argv |-> argv, gaps |-> gaps, usable |-> ok]
GoodArgv == <<"drop", "drop_value", "source", "keep_value", "v", "keep">>
CompileDatabases ==
    {<<Entry("a", "x", GoodArgv, FALSE, TRUE), Entry("b", "y", <<"source">>, TRUE, TRUE),
       Entry("z", "y", <<>>, TRUE, FALSE)>>,
     <<Entry("a", "x", GoodArgv, TRUE, TRUE), Entry("a", "y", GoodArgv, FALSE, TRUE),
       Entry("b", "x", GoodArgv, FALSE, TRUE)>>,
     <<Entry("a", "x", <<"unsupported">>, TRUE, TRUE), Entry("a", "y", <<"source", "keep_value">>, TRUE, TRUE)>>,
     <<Entry("a", "x", GoodArgv, TRUE, FALSE)>>, <<Entry("z", "y", <<>>, TRUE, TRUE)>>}

\* Findings to deduplicate: the same one twice, in one function and file or not
Finding(i, f, g) == [identity |-> i, file |-> f, function |-> g]
DedupJournals ==
    {<<Finding(1, 1, 1), Finding(2, 1, 1), Finding(3, 1, 2), Finding(4, 1, 1), Finding(4, 1, 1)>>,
     <<Finding(1, 1, 2), Finding(2, 2, 2), Finding(3, 1, 1)>>,
     <<Finding(1, 1, 1), Finding(1, 1, 1)>>}
ReviewOf(s, r) == [status |-> s, result |-> r]
DedupReviews ==
    {<<ReviewOf("succeeded", "standard"), ReviewOf("succeeded", "standard")>>,
     <<ReviewOf("succeeded", "standard"), ReviewOf("failed", "none")>>,
     <<ReviewOf("inconclusive", "none")>>, <<ReviewOf("failed", "none")>>,
     <<ReviewOf("succeeded", "patch")>>,
     <<ReviewOf("succeeded", "patch"), ReviewOf("succeeded", "standard")>>}

\* Ids that look generated, are taken, or are absent
GivenIds == {<<>>, <<0, 1>>, <<1, 0>>, <<2, 0>>, <<2, 1>>, <<4, 0>>}

\* Reviews of files, of a patch, and the groups two review nodes collected
JobOf(f, l, i, g) == [file |-> f, label |-> l, index |-> i, groups |-> g]
ReviewRuns ==
    {[mode |-> "code", files |-> <<"a", "b">>, triage |-> TRUE,
      jobs |-> <<JobOf("a", "a", 0, <<<<1>>, <<2>>>>), JobOf("b", "b", 1, <<<<3>>>>)>>],
     [mode |-> "code", files |-> <<"a", "b", "c">>, triage |-> FALSE,
      jobs |-> <<JobOf("a", "a", 0, <<<<1>>, <<2, 3>>>>), JobOf("b", "b", 1, <<>>),
                 JobOf("c", "c", 2, <<<<4>>, <<5>>>>)>>],
     [mode |-> "patch", files |-> <<>>, triage |-> FALSE,
      jobs |-> <<JobOf("a", "a", 0, <<<<1>>, <<2>>>>), JobOf("b", "b", 2, <<>>),
                 JobOf("a", "a", 3, <<<<3>>>>)>>],
     [mode |-> "collected", files |-> <<>>, triage |-> FALSE,
      jobs |-> <<JobOf("b", "b", 0, <<<<1>>>>), JobOf("a", "a", 0, <<<<2>>>>),
                 JobOf("b", "b", 0, <<<<3, 4>>>>)>>],
     \* the same file under the labels of the two review nodes
     [mode |-> "collected", files |-> <<>>, triage |-> TRUE,
      jobs |-> <<JobOf("a", "a", 0, <<<<1>>>>), JobOf("a", "./a", 0, <<<<2>>>>)>>]}

\* Documents with empty, scalar and nested values, and with repeated keys
Scalar(x) == [kind |-> "scalar", value |-> x, keys |-> <<>>, items |-> <<>>]
ArrayOf(s) == [kind |-> "array", value |-> "", keys |-> <<>>, items |-> s]
MapOf(k, s) == [kind |-> "map", value |-> "", keys |-> k, items |-> s]
Leaves == {Scalar("1"), ArrayOf(<<>>), MapOf(<<>>, <<>>), ArrayOf(<<Scalar("1"), Scalar("2")>>),
           MapOf(<<"r">>, <<Scalar("1")>>)}
JsonDocuments ==
    {MapOf(<<"r", "s">>, <<ArrayOf(<<x, y>>), z>>) : x, y, z \in Leaves}
    \cup {MapOf(<<"r">>, <<ArrayOf(<<MapOf(<<"r", "s">>, <<ArrayOf(<<x, y>>), Scalar("3")>>),
                                     MapOf(<<"s", "r">>, <<Scalar("4"), ArrayOf(<<y>>)>>)>>)>>) :
            x, y \in Leaves}
    \cup {MapOf(<<"r", "r">>, <<x, y>>) : x, y \in {Scalar("1"), ArrayOf(<<>>)}}
    \cup {MapOf(<<"s">>, <<MapOf(<<"r", "s", "r">>, <<Scalar("1"), Scalar("2"), Scalar("3")>>)>>)}
JsonPatterns == {<<"r", "*">>, <<"r", "*", "r", "*">>, <<"s">>}

\* Command lines: stages of every kind, formats that do and do not overlap, files
\* that one file system takes for the same, and two commands at the prompt
StageOf(k, f, n) == [kind |-> k, formats |-> f, filename |-> n]
Graph(r, t, l, f) == [interactive |-> FALSE, triaging |-> FALSE, linked |-> l, files |-> f,
                      review |-> r, triage |-> t]
Prompt(r, t, w, f) == [interactive |-> TRUE, triaging |-> w, linked |-> TRUE, files |-> f,
                       review |-> r, triage |-> t]
FileOf(b, f) == [base |-> <<b, 0>>, fmt |-> f]
NoStage == StageOf("none", <<>>, <<>>)
CliSetups ==
    {Graph(StageOf(k, <<"sarif", "json">>, <<"r", 0>>), StageOf(j, t, <<"R", 0>>), TRUE, f) :
        k, j \in {"builtin", "custom"}, t \in {<<>>, <<"html">>, <<"json">>},
        f \in {<<>>, <<FileOf("a", "json")>>, <<FileOf("a", "sarif")>>}}
    \cup {Graph(StageOf("builtin", <<"sarif">>, <<>>), StageOf("builtin", t, <<>>), l, <<>>) :
            t \in {<<"sarif">>, <<"csv", "json">>}, l \in BOOLEAN}
    \cup {Graph(StageOf(k, <<"json">>, <<>>), NoStage, FALSE, f) : k \in {"builtin", "private"},
            f \in {<<FileOf("a", "html")>>, <<FileOf("a", "csv"), FileOf("A", "csv")>>}}
    \* no result node to be told: the files are planned when the graph has run
    \cup {Graph(StageOf("private", r, <<>>), StageOf(k, t, <<>>), TRUE, f) :
            k \in {"none", "private"}, r \in {<<>>, <<"csv">>}, t \in {<<>>, <<"html">>},
            f \in {<<>>, <<FileOf("a", "json")>>, <<FileOf("a", "sarif"), FileOf("b", "csv")>>}}
    \cup {Graph(NoStage, StageOf("builtin", <<"json">>, <<>>), FALSE, f) :
            f \in {<<>>, <<FileOf("a", "sarif"), FileOf("b", "sarif")>>}}
    \* typed at the prompt: with --triage (w), and with files of the session
    \cup {Prompt(StageOf(k, r, <<>>), StageOf(j, <<"csv">>, <<>>), w, f) :
            k \in {"builtin", "private"}, j \in {"builtin", "custom"}, w \in BOOLEAN,
            r \in {<<>>, <<"sarif">>}, f \in {<<>>, <<FileOf("a", "json")>>}}
CliOverrides ==
    {<<>>, <<FileOf("b", "html"), FileOf("c", "sarif")>>, <<FileOf("a", "csv"), FileOf("A", "csv")>>}

-----------------------------------------------------------------------------
Link == INSTANCE CFamilyLinking WITH
            Units <- LinkedUnits
linkVars == <<unit, at, targets, entry>>
LinkOff ==
    /\ unit = Off /\ at = Off /\ targets = Off /\ entry = Off
LinkStep ==
    IF component = "link"
    THEN Link!LinkNext \/ (Link!LinkDone /\ UNCHANGED linkVars)
    ELSE UNCHANGED linkVars

Null == INSTANCE NullContracts WITH
            Programs <- NullPrograms, Owner <- "main"
nullVars == <<program, pending, contracts, withdrawn>>
NullOff ==
    /\ program = Off /\ pending = Off /\ contracts = Off /\ withdrawn = Off
NullStep ==
    IF component = "null"
    THEN Null!NullNext \/ (Null!NullDone /\ UNCHANGED nullVars)
    ELSE UNCHANGED nullVars

Scope == INSTANCE ReachabilityScope WITH
            Graphs <- CallGraphs, Requests <- ReviewRequests, Denied <- {"c"},
            MaxPath <- 3, phase <- scopePhase
scopeVars == <<graph, request, split, notes, focus, found, search, runs, scopePhase>>
ScopeOff ==
    /\ graph = Off /\ request = Off /\ split = Off /\ notes = Off /\ focus = Off /\ found = Off
    /\ search = Off /\ runs = Off /\ scopePhase = Off
ScopeStep ==
    IF component = "scope"
    THEN Scope!ScopeNext \/ (Scope!ScopeEnd /\ UNCHANGED scopeVars)
    ELSE UNCHANGED scopeVars

Anchor == INSTANCE SourceAnchors WITH
            Texts <- SourceTexts, Issues <- SourceIssues,
            Functions_ <- SourceFunctions, Threads <- {"t", "u"}, Capacity <- 2,
            version <- anchorVersion, since <- anchorSince
anchorVars == <<anchorVersion, cache, pc, anchorSince, key, got, anchor>>
AnchorOff ==
    /\ anchorVersion = Off /\ cache = Off /\ pc = Off /\ anchorSince = Off /\ key = Off
    /\ got = Off /\ anchor = Off
AnchorStep ==
    IF component = "anchor"
    THEN Anchor!AnchorNext
    ELSE UNCHANGED anchorVars

Profile == INSTANCE CompilationProfile WITH
            Trees <- ProfileTrees, Databases <- CompileDatabases, MaxEdits <- 2,
            version <- profileVersion, phase <- profilePhase
profileVars == <<tree, database, profileVersion, units, results, snapshot,
                 profilePhase, served>>
ProfileOff ==
    /\ tree = Off /\ database = Off /\ profileVersion = Off /\ units = Off /\ results = Off
    /\ snapshot = Off /\ profilePhase = Off /\ served = Off
ProfileStep ==
    IF component = "profile"
    THEN Profile!ProfileNext \/ (Profile!ProfileDone /\ UNCHANGED profileVars)
    ELSE UNCHANGED profileVars

Dedup == INSTANCE FindingDedup WITH
            Journals <- DedupJournals, ReviewSets <- DedupReviews, Capacity <- 3,
            Workers <- 2, MaxGroups <- 2, journal <- dedupJournal,
            published <- dedupPublished, final <- dedupFinal
dedupVars == <<dedupJournal, reviews, step, scope, current, todo, window, asked,
               output, claims, diagnostics, dedupPublished, dedupFinal>>
DedupOff ==
    /\ dedupJournal = Off /\ reviews = Off /\ step = Off /\ scope = Off /\ current = Off
    /\ todo = Off /\ window = Off /\ asked = Off /\ output = Off /\ claims = Off
    /\ diagnostics = Off /\ dedupPublished = Off /\ dedupFinal = Off
DedupStep ==
    IF component = "dedup"
    THEN Dedup!DedupNext
    ELSE UNCHANGED dedupVars

Ids == INSTANCE FindingIds WITH
            Findings <- 4, OriginalIds <- GivenIds, ChunkLimit <- 1,
            MergeWidth <- 2, PassLimit <- 2, at <- idsAt
idsVars == <<original, entries, repaired, passes, idsAt>>
IdsOff ==
    /\ original = Off /\ entries = Off /\ repaired = Off /\ passes = Off /\ idsAt = Off
IdsStep ==
    IF component = "ids"
    THEN Ids!IdNext
    ELSE UNCHANGED idsVars

Output == INSTANCE ReviewOutput WITH
            Runs <- ReviewRuns, job <- outputJob, journal <- outputJournal,
            phase <- outputPhase, document <- outputDocument,
            decisions <- outputDecisions, outcome <- outputOutcome
outputVars == <<run, outputJob, left, outputJournal, order, parts, starts,
                summaries, outputPhase, outputDocument, outputDecisions, outputOutcome>>
OutputOff ==
    /\ run = Off /\ outputJob = Off /\ left = Off /\ outputJournal = Off /\ order = Off
    /\ parts = Off /\ starts = Off /\ summaries = Off /\ outputPhase = Off
    /\ outputDocument = Off /\ outputDecisions = Off /\ outputOutcome = Off
OutputStep ==
    IF component = "output"
    THEN Output!OutputNext \/ (Output!OutputDone /\ UNCHANGED outputVars)
    ELSE UNCHANGED outputVars

Json == INSTANCE JsonEvents WITH
            Documents <- JsonDocuments, Depth <- 5, Patterns <- JsonPatterns,
            document <- jsonDocument, at <- jsonAt, status <- jsonStatus
jsonVars == <<jsonDocument, pattern, events, validate, jsonAt, stack, builder,
              counts, afterKey, written, jsonStatus>>
JsonOff ==
    /\ jsonDocument = Off /\ pattern = Off /\ events = Off /\ validate = Off /\ jsonAt = Off
    /\ stack = Off /\ builder = Off /\ counts = Off /\ afterKey = Off /\ written = Off
    /\ jsonStatus = Off
JsonStep ==
    IF component = "json"
    THEN Json!JsonNext \/ (Json!JsonDone /\ UNCHANGED jsonVars)
    ELSE UNCHANGED jsonVars

Cli == INSTANCE CommandLine WITH
            Setups <- CliSetups, Overrides <- CliOverrides,
            Aliases <- [A |-> "a", R |-> "r"], MaxCommands <- 2, phase <- cliPhase,
            refused <- cliRefused, todo <- cliTodo, disk <- cliDisk, args <- cliArgs
cliVars == <<setup, cliArgs, local, command, cliPhase, dest, streams, outputs, cliRefused, cliTodo,
             saved, error, cliDisk, exit>>
CliOff ==
    /\ setup = Off /\ cliArgs = Off /\ local = Off /\ command = Off /\ cliPhase = Off
    /\ dest = Off /\ streams = Off /\ outputs = Off /\ cliRefused = Off /\ cliTodo = Off
    /\ saved = Off /\ error = Off /\ cliDisk = Off /\ exit = Off
CliStep ==
    IF component = "cli"
    THEN Cli!CliNext \/ (Cli!CliDone /\ UNCHANGED cliVars)
    ELSE UNCHANGED cliVars

-----------------------------------------------------------------------------
Init ==
    /\ component \in Components
    /\ IF component = "link" THEN Link!LinkInit ELSE LinkOff
    /\ IF component = "null" THEN Null!NullInit ELSE NullOff
    /\ IF component = "scope" THEN Scope!ScopeInit ELSE ScopeOff
    /\ IF component = "anchor" THEN Anchor!AnchorInit ELSE AnchorOff
    /\ IF component = "profile" THEN Profile!ProfileInit ELSE ProfileOff
    /\ IF component = "dedup" THEN Dedup!DedupInit ELSE DedupOff
    /\ IF component = "ids" THEN Ids!IdInit ELSE IdsOff
    /\ IF component = "output" THEN Output!OutputInit ELSE OutputOff
    /\ IF component = "json" THEN Json!JsonInit ELSE JsonOff
    /\ IF component = "cli" THEN Cli!CliInit ELSE CliOff

Next ==
    /\ UNCHANGED component
    /\ LinkStep
    /\ NullStep
    /\ ScopeStep
    /\ AnchorStep
    /\ ProfileStep
    /\ DedupStep
    /\ IdsStep
    /\ OutputStep
    /\ JsonStep
    /\ CliStep

vars == <<component, linkVars, nullVars, scopeVars, anchorVars,
          profileVars, dedupVars, idsVars, outputVars, jsonVars, cliVars>>

Spec == Init /\ [][Next]_vars

-----------------------------------------------------------------------------
\* _resolve_calls: a linked call crosses no boundary the languages draw, every
\* definition a plain call may mean is a target, and the static functions that
\* are entry points are those a global initializer names.
LinksAreLegal == component = "link" => Link!LinksRespectLanguages /\ Link!EntriesAreRegistered

\* augment_function_contracts: the fixed point has exactly the contracts its
\* facts give, whatever the order of the functions.
ContractsAreExact == component = "null" => Null!ContractsExact

\* run_review and FindingPathAnnotator: success leaves no selected file out,
\* and the path of a finding is a shortest call path from a source in the
\* whole graph.
ScopeIsCovered == component = "scope" => Scope!PathsAreShortest /\ Scope!SuccessCoversSelection

\* SourceMapCache and SourceMap.resolve_issue: the map served is of a version
\* of the file during the call, and an anchor quotes the lines the snippet
\* names.
AnchorsAreSound == component = "anchor" => Anchor!MapsAreCurrent /\ Anchor!AnchorsQuoteTheSource

\* CompilationProfileService: the lines shown and analysed are those some
\* translation unit compiles, as the files were when the profile was made.
ProfileExact == component = "profile" => Profile!ProfileIsExact

\* FindingDedup: every finding of the journal is published, or stands behind
\* one that is, and failed reviews leave none behind; normalize_finding_ids:
\* the repaired ids tell all findings apart, and ids that did so already are
\* kept.
FindingsRepresented ==
    /\ component = "dedup" => Dedup!EveryFindingRepresented
    /\ component = "ids" => Ids!IdsTellFindingsApart

\* ReviewOutput.publish: the document has every group that was appended, in
\* the order of files, entries and parts, and nothing else.
DocumentIsReview == component = "output" => Output!DocumentIsTheReview

\* JsonSnapshot.events, _walk and write: the document rewritten as a stream
\* is the document with its selected values replaced.
JsonStreamExact == component = "json" => Json!StreamIsTheDocument

\* save_graph_outputs, save_output and _run_cli: every file the user is told of
\* holds the finished report of its stage and command, whether it was streamed
\* there or saved; a later error loses none of them; a run that ends in success
\* has failed at nothing and has saved every file asked for.
CommandsFaithful ==
    component = "cli" => Cli!FilesAsTold /\ Cli!NothingLost /\ Cli!NamesAreOwn /\ Cli!SuccessIsWhole

\* callsite_has_deterministic_nonnull_return ("Return whether source-derived
\* callsite facts prove a non-null result."): a finding is withdrawn only if
\* its null result is impossible.
WithdrawnImpossible == component = "null" => Null!WithdrawnIsImpossible

\* docs/execution-graph.md on finding_dedup, whose input is every selected
\* node output: everything a review node found and handed over is in the
\* published review.
CollectedIsPublished == component = "output" => Output!FoundIsPublished
=============================================================================
