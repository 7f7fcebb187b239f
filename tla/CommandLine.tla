----------------------------- MODULE CommandLine -----------------------------
(****************************************************************************)
(* A session of the command line (cli/entry.py, cli/output.py and the       *)
(* review commands of cli/commands.py): one run of the execution graph, or  *)
(* review commands typed at the prompt.  The files of a command are planned *)
(* before it runs, so that stages can stream their reports to them, and     *)
(* once more when it has run, from what the stages really produced; the two *)
(* plans must agree wherever a report is already on disk.                   *)
(*                                                                          *)
(* A path is a base and a format; a base is a name and the number of the    *)
(* command that made it up, 0 for a base the user gave.  The engine is      *)
(* represented by what may become of each stage.                            *)
(****************************************************************************)
EXTENDS Naturals, Sequences, FiniteSets, FiniteSetsExt, SequencesExt

CONSTANTS
    Setups,       \* [interactive, review, triage, linked, files, triaging]: stages are
                  \* [kind, formats, filename], kind "builtin" | "custom" (its result
                  \* node is named result) | "private" (it is not) | "none"; linked: triage
                  \* reads review.sarif; files: --output-file; triaging: --triage
    Overrides,    \* --output-file arguments of a command at the prompt
    Aliases,      \* names the file system takes for another: name -> name
    MaxCommands   \* bound: commands typed at the prompt

VARIABLES
    setup,
    args,      \* [files, generated]: args.output_file and _metis_generated_output
    local,     \* the copy of args the command works on
    command,   \* number of the command, 0 before the first
    phase,     \* "prompt" | "review" | "triage" | "save" | "saving" | "told" | "finalize" |
               \* "close" | "end"
    dest,      \* [review, triage]: where a streaming stage writes its report
    streams,   \* the stages that stream
    outputs,   \* [review, triage]: [formats, filename, findings, sarif, of]
    refused,   \* whether the files could not be planned once the command had run
    todo,      \* <<stage, path>> still to save
    saved,     \* <<stage, path>> the user was told of
    error,     \* "none" | "failures" (diagnostics) | "raised" | "interrupt"
    disk,      \* path -> [of, shape, command]: the reports written
    exit       \* "none", "ok", "error" or "interrupt"

cliVars == <<setup, args, local, command, phase, dest, streams, outputs, refused, todo,
             saved, error, disk, exit>>

Path(base, format) == [base |-> base, fmt |-> format]
Stages == {"review", "triage"}

\* The names a command makes up for a stage: where it streams without a file, and
\* where the other stage has the file of its first choice
Export(s, n) == <<IF s = "review" THEN "review export" ELSE "triage export", n>>
Fallback(s, n) == <<IF s = "review" THEN "review fallback" ELSE "triage fallback", n>>

\* output_path_identity
Identity(p) == IF p.base[1] \in DOMAIN Aliases THEN [p EXCEPT !.base[1] = Aliases[@]] ELSE p
Identities(files) == {Identity(p) : p \in ToSet(files)}

-----------------------------------------------------------------------------
(* Planning the files.                                                      *)

Refused == [ok |-> FALSE, files |-> <<>>]

\* output_files_for_formats: the formats nobody named a file for get the base
\* of the first one, or the fallback where the other stage has that file
FilesForFormats(provided, formats, generated, reserved, fallback) ==
    LET selected == IF generated THEN <<>> ELSE provided
        Named == {p.fmt : p \in ToSet(selected)}
        Add(plan, f) ==
            LET near == Path(provided[1].base, f)
                p == IF Identity(near) \in reserved THEN Path(fallback, f) ELSE near
            IN  IF f \in Named THEN plan
                ELSE [ok |-> plan.ok /\ Identity(p) \notin reserved \cup Identities(plan.files),
                      files |-> Append(plan.files, p)]
    IN  IF \/ Cardinality(Identities(selected)) # Len(selected)
           \/ Identities(selected) \cap reserved # {}
        THEN Refused
        ELSE FoldLeft(Add, [ok |-> TRUE, files |-> selected], formats)

NoPlan == [ok |-> TRUE, review |-> <<>>, triage |-> <<>>]
Available(values, f) == IF f = "sarif" THEN values.sarif ELSE values.findings

\* The first part of graph_output_files: which stage an explicit file is of
Assign(a, p, review, triage, partial) ==
    CASE p.fmt \in ToSet(a.triageFormats) -> [a EXCEPT !.triage = Append(@, p)]
      [] p.fmt \notin ToSet(a.triageFormats) /\ p.fmt \in ToSet(a.reviewFormats) ->
            [a EXCEPT !.review = Append(@, p)]
      [] OTHER ->
            IF triage.sarif
            THEN [a EXCEPT !.triage = Append(@, p), !.triageFormats = Append(@, p.fmt)]
            ELSE IF Available(review, p.fmt)
            THEN [a EXCEPT !.review = Append(@, p), !.reviewFormats = Append(@, p.fmt)]
            ELSE [a EXCEPT !.ok = a.ok /\ partial]

\* graph_output_files, with the generated bases of command n
GraphFiles(from, review, triage, partial, n) ==
    LET explicit == from.files # <<>> /\ ~from.generated
        reviewFormats == IF partial THEN SelectSeq(review.formats, LAMBDA f : Available(review, f))
                         ELSE review.formats
        triageFormats == IF partial /\ ~triage.sarif THEN <<>> ELSE triage.formats
        NamedFiles(values, formats) == {Identity(Path(values.filename, f)) : f \in ToSet(formats)}
        clash == /\ ~explicit /\ review.filename # <<>> /\ triage.filename # <<>>
                 /\ NamedFiles(review, reviewFormats) \cap NamedFiles(triage, triageFormats) # {}
        a == FoldLeft(LAMBDA b, p : Assign(b, p, review, triage, partial),
                      [ok |-> ~clash, review |-> <<>>, triage |-> <<>>,
                       reviewFormats |-> reviewFormats, triageFormats |-> triageFormats],
                      IF explicit THEN from.files ELSE <<>>)
        produced == /\ a.triageFormats # <<>> => triage.sarif
                    /\ \A f \in ToSet(a.reviewFormats) : Available(review, f)
        Select(s, mine, formats, values, other) ==
            LET own == IF explicit THEN Fallback(s, n) ELSE <<s, n>>
                base == IF ~explicit /\ values.filename # <<>> THEN values.filename ELSE own
                generated == ~explicit \/ mine = <<>>
            IN  IF formats = <<>> THEN [ok |-> TRUE, files |-> mine]
                ELSE FilesForFormats(IF generated THEN <<Path(base, "json")>> ELSE mine, formats,
                                     generated, Identities(other), Fallback(s, n))
        t == Select("triage", a.triage, a.triageFormats, triage, a.review)
        r == Select("review", a.review, a.reviewFormats, review, t.files)
    IN  [ok |-> a.ok /\ produced /\ t.ok /\ r.ok, review |-> r.files, triage |-> t.files]

\* Mutant: the review streams in the format of its own files.
DestinationOfOwn(plan, s, n) ==
    LET files == plan[s]
        Of(f) == SelectSeq(files, LAMBDA p : p.fmt = f)
        json == \E p \in ToSet(files) : p.fmt # "sarif"
    IN  IF Of("json") # <<>> THEN Head(Of("json"))
        ELSE IF Of("sarif") # <<>> /\ ~(s = "review" /\ json) THEN Head(Of("sarif"))
        ELSE Path(Export(s, n), "json")

\* streaming_output_files: a review is streamed as SARIF only if no file of any
\* stage needs its JSON; without a file to stream to, in a temporary directory
Destination(plan, s, n) ==
    LET Of(f) == SelectSeq(plan[s], LAMBDA p : p.fmt = f)
        json == \E p \in ToSet(plan.review \o plan.triage) : p.fmt # "sarif"
    IN  IF Of("json") # <<>> THEN Head(Of("json"))
        ELSE IF Of("sarif") # <<>> /\ ~(s = "review" /\ json) THEN Head(Of("sarif"))
        ELSE Path(Export(s, n), "json")

NoOutput == [formats |-> <<>>, filename |-> <<>>, findings |-> FALSE, sarif |-> FALSE,
             of |-> "none"]

\* What a stage is planned to produce, if its result node can be told
Planned(s) ==
    IF setup[s].kind \in {"builtin", "custom"}
    THEN [NoOutput EXCEPT !.formats = setup[s].formats, !.filename = setup[s].filename,
                          !.findings = (s = "review"), !.sarif = TRUE]
    ELSE NoOutput

\* streaming_stages
GraphStreams ==
    LET supported == {s \in Stages : setup[s].kind = "builtin"}
    IN  IF /\ setup.review.kind # "none"
           /\ \/ "review" \notin supported
              \/ setup.triage.kind # "none" /\ ("triage" \notin supported \/ ~setup.linked)
        THEN {} ELSE supported

-----------------------------------------------------------------------------
CliInit ==
    /\ setup \in Setups
    /\ args = [files |-> setup.files, generated |-> FALSE]
    /\ local = args /\ command = 0 /\ phase = "prompt"
    /\ dest = [s \in Stages |-> <<>>] /\ streams = {}
    /\ outputs = [s \in Stages |-> NoOutput]
    /\ refused = FALSE /\ todo = <<>> /\ saved = {} /\ error = "none" /\ disk = <<>> /\ exit = "none"

\* determine_output_file: overrides, the files of the session, or a name made up
\* for this command
CommandFiles(from, override, n) ==
    IF override # <<>> THEN [files |-> override, generated |-> FALSE]
    ELSE IF from.files # <<>> THEN [files |-> from.files, generated |-> FALSE]
    ELSE [files |-> <<Path(<<"results", n>>, "json")>>, generated |-> TRUE]

\* Mutant: the command works on the arguments of the session.
ArgumentsShared(new) == args' = new /\ local' = new

\* execute_command: args = copy(args)
Arguments(new) == local' = new /\ UNCHANGED args

FirstStage == IF setup.review.kind # "none" THEN "review" ELSE "triage"

\* A command or graph whose files cannot be planned
Rejected ==
    /\ phase' = "told" /\ error' = "raised"
    /\ UNCHANGED <<dest, streams>>

Started(plan, n, streaming) ==
    /\ dest' = [s \in Stages |-> Destination(plan, s, n)]
    /\ streams' = streaming
    /\ phase' = FirstStage /\ error' = "none"

Fresh ==
    /\ command' = command + 1
    /\ outputs' = [s \in Stages |-> NoOutput] /\ refused' = FALSE /\ todo' = <<>> /\ saved' = {}
    /\ UNCHANGED <<setup, disk, exit>>

\* The graph: _execute_graph_with_progress up to the engine.  Without a stage whose
\* result node can be told, nothing is planned before it runs.
BeginGraph ==
    LET new == CommandFiles(args, <<>>, 1)
        known == \E s \in Stages : setup[s].kind \in {"builtin", "custom"}
        plan == IF known THEN GraphFiles(new, Planned("review"), Planned("triage"), FALSE, 1) ELSE NoPlan
    IN  /\ ~setup.interactive /\ phase = "prompt" /\ command = 0
        /\ args' = new /\ local' = new
        /\ IF plan.ok THEN Started(plan, 1, GraphStreams) ELSE Rejected
        /\ Fresh

\* A review command: _execute_review up to the engine.  With --triage it streams only
\* if the triage stage can take the report from its file.
BeginReview(override) ==
    LET n == command + 1
        new == CommandFiles(args, override, n)
        named == setup.review.formats # <<>>
        review == [Planned("review") EXCEPT
                      !.formats = IF named THEN @
                                  ELSE FoldLeft(LAMBDA fs, p : IF p.fmt \in ToSet(fs) THEN fs
                                                               ELSE Append(fs, p.fmt), <<>>, new.files),
                      !.filename = IF new.generated /\ @ = <<>> THEN new.files[1].base ELSE @]
        early == /\ setup.review.kind \in {"builtin", "custom"}
                 /\ setup.triaging => setup.triage.kind = "builtin"
        plan == IF early THEN GraphFiles(new, review, NoOutput, FALSE, n) ELSE NoPlan
    IN  /\ setup.interactive /\ phase = "prompt" /\ command < MaxCommands
        /\ Arguments(IF early /\ plan.ok THEN [files |-> plan.review, generated |-> FALSE] ELSE new)
        /\ IF plan.ok
           THEN Started(plan, n, IF early THEN {s \in {"review"} : setup[s].kind = "builtin"} ELSE {})
           ELSE Rejected
        /\ Fresh

-----------------------------------------------------------------------------
(* The engine.                                                              *)

Write(p, report) == [q \in DOMAIN disk \cup {Identity(p)} |->
                        IF q = Identity(p) THEN report ELSE disk[q]]

\* The shape of a report: Metis reviews, or SARIF
Shape(s, p) ==
    IF p.fmt = "sarif" THEN "sarif"
    ELSE IF s = "review" \/ (setup.review.kind # "none" /\ dest.review.fmt # "sarif") THEN "reviews"
    ELSE "sarif"

\* StreamingOutput: the report of a streaming stage is published at its
\* destination, and its outputs refer to it
Publish(s, whether) ==
    disk' = IF s \in streams /\ whether
            THEN Write(dest[s], [of |-> s, shape |-> Shape(s, dest[s]), command |-> command])
            ELSE disk

StageOutputs(s, findings, sarif) ==
    IF s \in streams
    THEN [NoOutput EXCEPT !.formats = setup[s].formats, !.filename = setup[s].filename, !.of = s,
             !.findings = (s = "review" /\ dest[s].fmt # "sarif"), !.sarif = TRUE]
    ELSE [NoOutput EXCEPT !.formats = setup[s].formats, !.filename = setup[s].filename, !.of = s,
             !.findings = (s = "review" /\ findings), !.sarif = sarif]

Triages == IF setup.interactive THEN setup.triaging ELSE setup.triage.kind # "none"

EngineUnchanged == UNCHANGED <<setup, args, local, command, dest, streams, refused, todo, saved, exit>>

\* The stage ends, possibly with files or findings that failed.  A review command
\* with failures raises, and is not triaged.
StageDone(s, failures) ==
    /\ phase = s /\ setup[s].kind # "none" /\ (s = "triage" => ~setup.interactive)
    /\ Publish(s, TRUE)
    /\ outputs' = [outputs EXCEPT ![s] = StageOutputs(s, TRUE, TRUE)]
    /\ error' = IF failures THEN IF setup.interactive THEN "raised" ELSE "failures" ELSE error
    /\ phase' = IF s = "review" /\ Triages /\ ~(setup.interactive /\ failures)
                THEN "triage" ELSE "save"
    /\ EngineUnchanged

\* The stage ends in error: with an output that did not validate dropped, or with
\* none, whether or not its report was published before.
StageErrs(s, published, findings, sarif) ==
    /\ phase = s /\ setup[s].kind # "none" /\ (s = "triage" => ~setup.interactive)
    /\ findings \/ sarif => published
    /\ s = "triage" => ~findings
    /\ Publish(s, published)
    /\ outputs' = [outputs EXCEPT ![s] = IF findings \/ sarif THEN StageOutputs(s, findings, sarif)
                                         ELSE NoOutput]
    /\ error' = "raised"
    /\ phase' = IF outputs'["review"] = NoOutput /\ outputs'["triage"] = NoOutput
                THEN "told" ELSE "save"
    /\ EngineUnchanged

\* An interrupt, or the cancellation of the run, has no result
Interrupted(s, published) ==
    /\ phase = s /\ setup[s].kind # "none" /\ (s = "triage" => ~setup.interactive)
    /\ Publish(s, published)
    /\ error' = "interrupt" /\ phase' = "told"
    /\ outputs' = [r \in Stages |-> NoOutput]
    /\ EngineUnchanged

\* _triage_review_output: the report is triaged in place, or in memory.  Whatever
\* becomes of it, the review is saved.
TriageReview(outcome) ==
    LET streamed == "review" \in streams
        replaced == outcome \in {"ok", "failures"}
        r == outputs.review
    IN  /\ phase = "triage" /\ setup.interactive
        /\ outcome \in {"ok", "failures"} => setup.triage.kind # "none"
        /\ disk' = IF streamed /\ replaced
                   THEN Write(dest.review, [of |-> "triage", command |-> command,
                                            shape |-> disk[Identity(dest.review)].shape])
                   ELSE disk
        /\ outputs' = [outputs EXCEPT !.review =
                          [r EXCEPT !.of = IF replaced THEN "triage" ELSE @,
                                    !.formats = IF replaced /\ (~streamed \/ outcome = "failures")
                                                THEN @ \o SelectSeq(setup.triage.formats,
                                                                    LAMBDA f : f \notin ToSet(r.formats))
                                                ELSE @]]
        /\ error' = CASE outcome = "ok" -> "none" [] outcome = "interrupt" -> "interrupt"
                      [] OTHER -> "raised"
        /\ phase' = "save"
        /\ EngineUnchanged

-----------------------------------------------------------------------------
(* Saving.                                                                  *)

\* save_graph_outputs up to the files.  A plan that cannot be made is an error of
\* its own, unless the command already has one.
PlanSave ==
    LET partial == error \in {"raised", "interrupt"}
        r == outputs.review
        generated == local.generated \/ local.files = <<>>
        review == IF setup.interactive /\ generated /\ r.filename = <<>> /\ local.files # <<>>
                  THEN [r EXCEPT !.filename = local.files[1].base] ELSE r
        plan == GraphFiles(local, review, outputs.triage, partial, command)
        Of(s) == [i \in DOMAIN plan[s] |-> <<s, plan[s][i]>>]
    IN  /\ phase = "save"
        /\ refused' = ~plan.ok
        /\ todo' = IF plan.ok THEN Of("review") \o Of("triage") ELSE <<>>
        /\ phase' = IF plan.ok THEN "saving" ELSE "told"
        /\ error' = IF plan.ok \/ partial THEN error ELSE "raised"
        /\ UNCHANGED <<setup, args, local, command, dest, streams, outputs, saved, disk, exit>>

\* What save_output writes: taken from the report of a stage that streamed, from
\* its values otherwise.  The JSON of a triage of the review is the review's,
\* annotated.
Report(s, p) ==
    LET values == outputs[s]
        source == IF s \in streams THEN disk[Identity(dest[s])]
                  ELSE [of |-> values.of, command |-> command,
                        shape |-> IF values.findings \/ (s = "triage" /\ setup.linked
                                                         /\ outputs.review.findings)
                                  THEN "reviews" ELSE "sarif"]
    IN  CASE p.fmt \in {"html", "csv"} -> [source EXCEPT !.shape = "any"]
          [] p.fmt = "sarif" -> [source EXCEPT !.shape = "sarif"]
          [] OTHER -> source

SaveFile ==
    LET s == Head(todo)[1]
        p == Head(todo)[2]
    IN  /\ phase = "saving" /\ todo # <<>>
        /\ disk' = Write(p, Report(s, p))
        /\ saved' = saved \cup {Head(todo)} /\ todo' = Tail(todo)
        /\ UNCHANGED <<setup, args, local, command, phase, dest, streams, outputs, refused, error, exit>>

\* A file cannot be written, or the user interrupts: those after it are not tried.
\* An error the command already has is kept.
SaveFails(interrupt) ==
    /\ phase = "saving" /\ todo # <<>>
    /\ error' = IF interrupt THEN "interrupt" ELSE IF error = "interrupt" THEN error ELSE "raised"
    /\ phase' = "told"
    /\ UNCHANGED <<setup, args, local, command, dest, streams, outputs, refused, todo, saved, disk, exit>>

SaveDone ==
    /\ phase = "saving" /\ todo = <<>>
    /\ phase' = "told"
    /\ UNCHANGED <<setup, args, local, command, dest, streams, outputs, refused, todo, saved, error,
                   disk, exit>>

-----------------------------------------------------------------------------
(* The end of a command and of the session.                                 *)

\* Mutant: failed files and findings are only reported.
ExitOfRun == IF error \in {"none", "failures"} THEN "ok" ELSE "error"

\* The rest of _run_cli: diagnostics of failed files or findings are an error too
ExitCode == IF error = "none" THEN "ok" ELSE IF error = "interrupt" THEN "interrupt" ELSE "error"

EndGraph ==
    /\ phase = "told" /\ ~setup.interactive
    /\ exit' = ExitCode /\ phase' = "finalize"
    /\ UNCHANGED <<setup, args, local, command, dest, streams, outputs, refused, todo, saved, error,
                   disk>>

\* run_interactive_loop: an error is printed; an interrupt of the user ends the
\* session, and so does a cancellation, which is not a success
EndCommand ==
    /\ phase = "told" /\ setup.interactive
    /\ phase' = IF error = "interrupt" THEN "finalize" ELSE "prompt"
    /\ exit' \in IF error = "interrupt" THEN {"ok", "interrupt"} ELSE {exit}
    /\ UNCHANGED <<setup, args, local, command, dest, streams, outputs, refused, todo, saved, error,
                   disk>>

Leave ==
    /\ phase = "prompt" /\ setup.interactive
    /\ exit' = "ok" /\ phase' = "finalize"
    /\ UNCHANGED <<setup, args, local, command, dest, streams, outputs, refused, todo, saved, error,
                   disk>>

\* finalize_cli_session, which may raise, and the close of the engine in any case
Finalize(fails) ==
    /\ phase = "finalize"
    /\ exit' = IF fails THEN "error" ELSE exit
    /\ phase' = "close"
    /\ UNCHANGED <<setup, args, local, command, dest, streams, outputs, refused, todo, saved, error,
                   disk>>

Close ==
    /\ phase = "close"
    /\ phase' = "end"
    /\ UNCHANGED <<setup, args, local, command, dest, streams, outputs, refused, todo, saved, error,
                   disk, exit>>

CliNext ==
    \/ BeginGraph \/ \E o \in Overrides : BeginReview(o)
    \/ \E s \in Stages :
          \/ \E f \in BOOLEAN : StageDone(s, f)
          \/ \E p, f, g \in BOOLEAN : StageErrs(s, p, f, g)
          \/ \E p \in BOOLEAN : Interrupted(s, p)
    \/ \E o \in {"ok", "failures", "error", "interrupt"} : TriageReview(o)
    \/ PlanSave \/ SaveFile \/ (\E i \in BOOLEAN : SaveFails(i)) \/ SaveDone
    \/ EndGraph \/ EndCommand \/ Leave \/ (\E f \in BOOLEAN : Finalize(f))
    \/ Close

CliDone == phase = "end"
CliSpec == CliInit /\ [][CliNext \/ (CliDone /\ UNCHANGED cliVars)]_cliVars

-----------------------------------------------------------------------------
(* Properties.                                                              *)

\* The shape the documentation gives a file: SARIF for .sarif; the Metis reviews for
\* the JSON of a review and of a triage that reads it
Expected(s, p) ==
    CASE p.fmt = "sarif" -> "sarif"
      [] p.fmt \in {"html", "csv"} -> "any"
      [] OTHER -> IF s = "review" \/ setup.linked THEN "reviews" ELSE "sarif"

\* save_graph_outputs: when a command has ended, each file the user was told of holds
\* the report of its own stage and command, in the shape its format asks for,
\* although a stage may have streamed into that file under another plan.
FilesAsTold ==
    phase = "told" =>
        \A t \in saved :
            LET s == t[1] p == t[2] IN
            /\ disk[Identity(p)].command = command
            /\ disk[Identity(p)].of = outputs[s].of
            /\ disk[Identity(p)].shape = Expected(s, p)

\* Files that cannot be planned are refused before anything has run, unless a stage
\* has a result node of its own name or the review is triaged by a stage that cannot
\* take it from its file.  Otherwise a report that was finished is not lost to an
\* error that came later: unless a file could not be written, each stage is saved in
\* all of its formats that can still be made, and a command that succeeded has saved
\* every file of the command line.
NothingLost ==
    /\ refused => \/ \E s \in Stages : setup[s].kind = "private"
                  \/ setup.triaging /\ setup.triage.kind # "builtin"
    /\ phase = "told" /\ ~refused /\ todo = <<>> =>
        /\ \A s \in Stages : \A f \in ToSet(outputs[s].formats) :
               Available(outputs[s], f) \/ (s = "triage" /\ outputs[s].sarif)
                   => \E t \in saved : t[1] = s /\ t[2].fmt = f
        /\ error \in {"none", "failures"} /\ ~local.generated =>
               ToSet(local.files) \subseteq {t[2] : t \in saved}

\* execute_command copies its arguments: a name made up for one command is never
\* written by another.
NamesAreOwn == \A q \in DOMAIN disk : q.base[2] # 0 => disk[q].command = q.base[2]

\* _run_cli: a graph ends in success only if no file or finding failed, every stage
\* has handed over its report, and each file of the command line holds one: neither
\* a file that could not be planned or written, nor the session's own end, is passed
\* over.
SuccessIsWhole ==
    phase = "end" /\ exit = "ok" /\ ~setup.interactive =>
        /\ error = "none" /\ ~refused /\ todo = <<>>
        /\ \A s \in Stages : setup[s].kind # "none" => outputs[s].sarif
        /\ ~local.generated => ToSet(local.files) \subseteq {t[2] : t \in saved}
=============================================================================
