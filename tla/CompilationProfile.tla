-------------------------- MODULE CompilationProfile --------------------------
(****************************************************************************)
(* The compilation profile (engine/nodes/compilation_profile): each unit of *)
(* a compilation database is preprocessed with the compiler recorded for    *)
(* it, the lines that survive are read back from the line markers, and a    *)
(* file on whose lines all units agree gets a canonical view with the       *)
(* others blanked.  The repository serves that view only while the file on  *)
(* disk is the one the view was made of.                                    *)
(*                                                                          *)
(* A line of a file is [on, cont, blank, include, number]: the              *)
(* configurations that compile it, whether it is continued on the next      *)
(* line, whether it is blank, the file it includes ("" if none), and the    *)
(* line number a #line directive sets (0 if none).                          *)
(****************************************************************************)
EXTENDS Naturals, Sequences, FiniteSets, FiniteSetsExt, SequencesExt

CONSTANTS
    Trees,      \* codebases: file -> [root, texts]: under the codebase, and its versions
    Databases,  \* compilation databases: sequences of entries [file, config, argv, gaps, usable]
    MaxEdits    \* edits of the files

VARIABLES
    tree, database,
    version,    \* file -> the version on disk
    units,      \* entries of the database kept
    results,    \* unit -> <<>> or <<[seen, lines, directive, at]>>
    snapshot,   \* [raw, shown]: file -> version, file -> canonical lines
    phase,      \* "load" | "verify" | "preprocess" | "installed" | "raised"
    served      \* <<>> or <<[file, at, shown, analysis]>>, the last view served

profileVars == <<tree, database, version, units, results, snapshot, phase, served>>

Nothing == [raw |-> <<>>, shown |-> <<>>]
TextAt(f, v) == tree[f].texts[v]
OnDisk(f) == TextAt(f, version[f])

-----------------------------------------------------------------------------
(* The command.  An argument is the class of option it belongs to.          *)

\* _sanitized_argv; "invalid" when an option is unsupported or lacks its value
SanitizedArgv(argv) ==
    LET Step(acc, a) ==
            IF acc.pending # "" THEN
                [acc EXCEPT !.pending = "",
                            !.bad = @ \/ a = "response_file",
                            !.out = IF acc.pending = "keep_value"
                                    THEN @ \o <<"keep_value", a>> ELSE @]
            ELSE CASE a \in {"keep_value", "drop_value"} -> [acc EXCEPT !.pending = a]
                   [] a \in {"unsupported", "response_file"} -> [acc EXCEPT !.bad = TRUE]
                   [] a = "drop" -> acc
                   [] OTHER -> [acc EXCEPT !.out = Append(@, a), !.source = @ \/ a = "source"]
        end == FoldLeft(Step, [out |-> <<>>, pending |-> "", bad |-> FALSE, source |-> FALSE], argv)
    IN  IF end.bad \/ end.pending # "" THEN <<"invalid">>
        ELSE IF end.source THEN end.out ELSE Append(end.out, "source")

-----------------------------------------------------------------------------
(* External: what the preprocessor prints, as markers and lines.            *)

Marker(file, line, flags) == [file |-> file, line |-> line, flags |-> flags]
Line(full) == [file |-> "", line |-> IF full THEN 1 ELSE 0, flags |-> {}]
IsMarker(item) == item.file # ""

Continues(text, i) == i > 1 /\ text[i - 1].cont

RECURSIVE Printed(_, _, _)
Printed(f, config, gaps) ==
    LET text == OnDisk(f)
        Emit(i) ==
            CASE config \notin text[i].on \/ text[i].blank \/ Continues(text, i) ->
                     IF gaps THEN <<Marker(f, i + 1, {})>> ELSE <<Line(FALSE)>>
              [] text[i].include # "" ->
                     <<Marker(text[i].include, 1, {1})>>
                     \o Printed(text[i].include, config, gaps)
                     \o <<Marker(f, i + 1, {2})>>
              [] text[i].number # 0 -> <<Marker(f, text[i].number, {})>>
              [] OTHER -> <<Line(TRUE)>>
    IN  FlattenSeq([i \in DOMAIN text |-> Emit(i)])

Output(u) == <<Marker(u.file, 1, {})>> \o Printed(u.file, u.config, u.gaps)

-----------------------------------------------------------------------------
(* Reading it back.                                                         *)

\* _marker_paths: a file outside the codebase has no path in it
PathOf(f) == IF tree[f].root THEN f ELSE ""

\* _mapped_lines
MappedLines(output, source) ==
    LET Step(acc, item) ==
            IF IsMarker(item)
            THEN [path |-> PathOf(item.file), line |-> item.line,
                  physical |-> IF item.flags \cap {1, 2} # {} THEN item.file ELSE acc.physical,
                  seen |-> acc.seen \cup ({PathOf(item.file)} \ {""}),
                  lines |-> acc.lines,
                  directive |-> acc.directive \cup
                      (IF item.file # acc.physical THEN {acc.physical} ELSE {})]
            ELSE [acc EXCEPT !.line = @ + 1,
                             !.lines = IF acc.path # "" /\ item.line = 1
                                       THEN @ \cup {<<acc.path, acc.line>>} ELSE @]
    IN  FoldLeft(Step, [path |-> "", line |-> 0, physical |-> source, seen |-> {},
                        lines |-> {}, directive |-> {}], output)

\* mutant: a line directive goes unnoticed
ValidSourcesAlways(files) == TRUE

\* _validate_sources: no #line directive anywhere in the text
ValidSources(files) ==
    \A f \in files : \A i \in DOMAIN OnDisk(f) : OnDisk(f)[i].number = 0

\* mutant: continued lines are hidden
ContinuationsNone(text, active) == active

\* _include_line_continuations
IncludeContinuations(text, active) ==
    active \cup {i \in DOMAIN text : \E j \in active :
                    j < i /\ \A k \in j..(i - 1) : k \in DOMAIN text /\ text[k].cont}

-----------------------------------------------------------------------------
ProfileInit ==
    /\ tree \in Trees /\ database \in Databases
    /\ version = [f \in DOMAIN tree |-> 1]
    /\ units = <<>> /\ results = <<>> /\ snapshot = Nothing
    /\ phase = "load" /\ served = <<>>

\* load_compilation_database: entries of other languages are left out, one
\* that cannot be used refuses the database; no unit left is an error too
Load ==
    /\ phase = "load"
    /\ LET kept == SelectSeq(database, LAMBDA e : e.file \in DOMAIN tree)
       IN  /\ units' = kept
           /\ results' = [u \in DOMAIN kept |-> <<>>]
           /\ phase' = IF kept = <<>> \/ \E u \in DOMAIN kept : ~kept[u].usable
                       THEN "raised" ELSE "verify"
    /\ UNCHANGED <<tree, database, version, snapshot, served>>

\* build_profiled_source first validates the sources of the units
Verify ==
    /\ phase = "verify"
    /\ phase' = IF ValidSources({units[u].file : u \in DOMAIN units}) THEN "preprocess" ELSE "raised"
    /\ UNCHANGED <<tree, database, version, units, results, snapshot, served>>

\* _preprocess, as a job for each unit
Preprocess(u) ==
    /\ phase = "preprocess" /\ results[u] = <<>>
    /\ SanitizedArgv(units[u].argv) # <<"invalid">>
    /\ LET mapped == MappedLines(Output(units[u]), units[u].file)
       IN  /\ mapped.seen # {}
           /\ results' = [results EXCEPT ![u] = <<[seen |-> mapped.seen, lines |-> mapped.lines,
                                                   directive |-> mapped.directive, at |-> version]>>]
    /\ UNCHANGED <<phase, tree, database, version, units, snapshot, served>>

\* The options are refused, or the compiler fails, takes too long or names
\* no source
PreprocessFails(u) ==
    /\ phase = "preprocess" /\ results[u] = <<>>
    /\ phase' = "raised"
    /\ UNCHANGED <<tree, database, version, units, results, snapshot, served>>

Seen == UNION {results[u][1].seen : u \in DOMAIN units}
Directives == UNION {results[u][1].directive : u \in DOMAIN units}

\* The lines each unit that saw f compiles, with their continuations
ViewsOf(f) ==
    {IncludeContinuations(OnDisk(f), {i \in DOMAIN OnDisk(f) : <<f, i>> \in results[u][1].lines}) :
        u \in {v \in DOMAIN units : f \in results[v][1].seen}}

\* The snapshot is read, the views compared and the artifact installed
Install ==
    /\ phase = "preprocess"
    /\ \A u \in DOMAIN units : results[u] # <<>>
    /\ IF ~ValidSources(Directives) \/ ~ValidSources(Seen)
       THEN phase' = "raised" /\ UNCHANGED snapshot
       ELSE /\ phase' = "installed"
            /\ snapshot' = [raw |-> [f \in Seen |-> version[f]],
                            shown |-> [f \in {g \in Seen : Cardinality(ViewsOf(g)) = 1} |->
                                          CHOOSE lines \in ViewsOf(f) : TRUE]]
    /\ UNCHANGED <<tree, database, version, units, results, served>>

\* mutant: a change of the file is not noticed
UnchangedAlways(f) == TRUE
Unchanged(f) == version[f] = snapshot.raw[f]

\* view_for_path: a file the units disagree on is shown whole
ShownOf(f) ==
    IF f \notin DOMAIN snapshot.raw THEN {}
    ELSE IF f \in DOMAIN snapshot.shown THEN snapshot.shown[f]
    ELSE DOMAIN TextAt(f, snapshot.raw[f])

\* analysis_for_path: and analysed as empty
AnalysisOf(f) == IF f \in DOMAIN snapshot.shown THEN snapshot.shown[f] ELSE {}

\* source_view_for_path and analysis_source_for_path: nothing for a file no
\* unit saw, an error for a file that changed
ServeView(f) ==
    /\ phase = "installed"
    /\ f \in DOMAIN snapshot.raw => Unchanged(f)
    /\ served' = <<[file |-> f, at |-> version[f], shown |-> ShownOf(f), analysis |-> AnalysisOf(f)]>>
    /\ UNCHANGED <<tree, database, version, units, results, snapshot, phase>>

\* External: an editor saves a file
EditFile(f) ==
    /\ MapThenSumSet(LAMBDA g : version[g] - 1, DOMAIN version) < MaxEdits
    /\ version[f] < Len(tree[f].texts)
    /\ version' = [version EXCEPT ![f] = @ + 1]
    /\ served' = <<>>
    /\ UNCHANGED <<tree, database, units, results, snapshot, phase>>

ProfileNext ==
    \/ Load \/ Verify \/ Install
    \/ \E u \in DOMAIN units : Preprocess(u) \/ PreprocessFails(u)
    \/ \E f \in DOMAIN tree : ServeView(f) \/ EditFile(f)

ProfileDone == phase = "raised"
ProfileSpec == ProfileInit /\ [][ProfileNext \/ (ProfileDone /\ UNCHANGED profileVars)]_profileVars

-----------------------------------------------------------------------------
(* What the compiler compiles, from the files themselves.                   *)

RECURSIVE Reached(_, _, _)
Reached(f, config, at) ==
    {f} \cup UNION {Reached(TextAt(f, at[f])[i].include, config, at) :
        i \in {j \in DOMAIN TextAt(f, at[f]) :
                 TextAt(f, at[f])[j].include # "" /\ config \in TextAt(f, at[f])[j].on}}

Compiled(f, config, at) ==
    LET text == TextAt(f, at[f])
        starts == {i \in DOMAIN text : /\ config \in text[i].on /\ ~text[i].blank
                                       /\ text[i].include = "" /\ ~Continues(text, i)}
    IN  starts \cup {i \in DOMAIN text : \E j \in starts : j < i /\ \A k \in j..(i - 1) : text[k].cont}

\* build_profiled_source, for files that did not change while the units were
\* preprocessed: the snapshot has exactly the files of the codebase some unit
\* reaches; where all those units compile the same lines the canonical view
\* has these lines and no other, where they differ there is none; and the
\* repository serves a view only of the text that is on disk then.
ProfileIsExact ==
    /\ phase = "installed" =>
          LET at == results[1][1].at
              steady == \A u \in DOMAIN units : results[u][1].at = at
              inTime == \A f \in DOMAIN snapshot.raw : snapshot.raw[f] = at[f]
              Reach(u) == {f \in Reached(units[u].file, units[u].config, at) : tree[f].root}
              Lines(f) == {Compiled(f, units[u].config, at) : u \in {v \in DOMAIN units : f \in Reach(v)}}
          IN  steady /\ inTime =>
                  /\ DOMAIN snapshot.raw = UNION {Reach(u) : u \in DOMAIN units}
                  /\ \A f \in DOMAIN snapshot.raw :
                        IF Cardinality(Lines(f)) = 1
                        THEN f \in DOMAIN snapshot.shown /\ snapshot.shown[f] \in Lines(f)
                        ELSE f \notin DOMAIN snapshot.shown
    /\ \A i \in DOMAIN served :
          served[i].file \in DOMAIN snapshot.raw => served[i].at = snapshot.raw[served[i].file]
=============================================================================
