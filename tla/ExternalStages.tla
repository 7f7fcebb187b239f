---------------------------- MODULE ExternalStages ----------------------------
(****************************************************************************)
(* External stages (engine/external_stages): an analysis and a validation   *)
(* are commands that exchange files with Metis in a run directory.  The     *)
(* caller may name the directory, so several calls, at once or one after    *)
(* the other, may share it; the request file, created exclusively, is the   *)
(* only lock.  A command may write its output or not, fail, hang, or be     *)
(* killed after it wrote.                                                   *)
(****************************************************************************)
EXTENDS Naturals, Sequences, FiniteSets, SequencesExt

CONSTANTS
    Calls,      \* call -> [stages, bindings, given]: the stages to run, the
                \* placeholders of the command, the given input is readable
    Results     \* results in an analysis SARIF

VARIABLES
    files,      \* the run directory: <<stage, kind>> -> content
    pc,         \* call -> where it is
    at,         \* call -> number of the stage it is in
    child,      \* call -> "none" | "running" | "zero" | "nonzero" | "killed"
    applied     \* call -> [payload, decisions]: the loop over the decisions

externalVars == <<files, pc, at, child, applied>>

Call == DOMAIN Calls
Kinds == {"request", "log", "output", "validated"}
Missing == [by |-> 0, ok |-> FALSE, items |-> <<>>]
StageOf(c) == Calls[c].stages[at[c]]
File(c, kind) == files[<<StageOf(c), kind>>]
Idle == [payload |-> {}, decisions |-> <<>>]

\* The SARIF a validation reads: the analysis of the same pipeline, or a file
\* the caller names
Input(c) == IF at[c] = 1 THEN [by |-> c, ok |-> Calls[c].given, items |-> <<>>]
            ELSE files[<<"analysis", "output">>]

Raise(c) == pc' = [pc EXCEPT ![c] = "raised"]
Goto(c, label) == pc' = [pc EXCEPT ![c] = label]
Write(c, kind, content) == files' = [files EXCEPT ![<<StageOf(c), kind>>] = content]

-----------------------------------------------------------------------------
ExternalInit ==
    /\ files = [f \in {"analysis", "validation"} \X Kinds |-> Missing]
    /\ pc = [c \in Call |-> "start"]
    /\ at = [c \in Call |-> 1]
    /\ child = [c \in Call |-> "none"]
    /\ applied = [c \in Call |-> Idle]

\* _analysis_stage, _validation_stage and _validate_bindings: the command
\* refers to the request, or to everything the stage needs
Configured(c) == Calls[c].bindings \in {"request", "all", "undefined"}

\* The stage is looked up, the directory made, the codebase resolved, which may
\* be missing, and the input of a validation must load
Prepare(c) ==
    /\ pc[c] = "start"
    /\ \/ Configured(c) /\ (StageOf(c) = "validation" => Input(c).ok) /\ Goto(c, "check")
       \/ Raise(c)
    /\ UNCHANGED <<files, at, child, applied>>

\* An output that exists is refused
CheckOutputs(c) ==
    /\ pc[c] = "check"
    /\ IF File(c, "output") # Missing \/ File(c, "validated") # Missing
       THEN Raise(c) ELSE Goto(c, "request")
    /\ UNCHANGED <<files, at, child, applied>>

\* mutant: the request replaces one that is there
ExclusiveNever(c) == FALSE

\* open(path, "x") fails if the file exists
Refused(c) == File(c, "request") # Missing

WriteRequest(c) ==
    /\ pc[c] = "request"
    /\ IF Refused(c)
       THEN Raise(c) /\ UNCHANGED files
       ELSE Goto(c, "spawn") /\ Write(c, "request", [by |-> c, ok |-> TRUE, items |-> <<>>])
    /\ UNCHANGED <<at, child, applied>>

\* expand_command refuses a placeholder without a binding; the process may not
\* start: neither leaves a log
SpawnFails(c) ==
    /\ pc[c] = "spawn"
    /\ Raise(c)
    /\ UNCHANGED <<files, at, child, applied>>

Spawn(c) ==
    /\ pc[c] = "spawn"
    /\ Calls[c].bindings # "undefined"
    /\ child' = [child EXCEPT ![c] = "running"]
    /\ Goto(c, "wait")
    /\ UNCHANGED <<files, at, applied>>

-----------------------------------------------------------------------------
(* The command.                                                             *)

Outputs(c) ==
    {[by |-> c, ok |-> FALSE, items |-> <<>>]} \cup
    {[by |-> c, ok |-> TRUE, items |-> s] :
        s \in IF StageOf(c) = "analysis" THEN {<<>>} ELSE {<<1>>, <<1, Results + 1>>}}

ChildWrites(c) ==
    /\ child[c] = "running"
    /\ \E content \in Outputs(c) : Write(c, "output", content)
    /\ UNCHANGED <<pc, at, child, applied>>

ChildExits(c, how) ==
    /\ child[c] = "running"
    /\ child' = [child EXCEPT ![c] = how]
    /\ UNCHANGED <<files, pc, at, applied>>

-----------------------------------------------------------------------------
(* ExternalStageRunner.run and what follows.                                *)

\* The deadline passes: the process is killed and waited for
TimesOut(c) ==
    /\ pc[c] = "wait" /\ child[c] = "running"
    /\ child' = [child EXCEPT ![c] = "killed"]
    /\ Goto(c, "log")
    /\ UNCHANGED <<files, at, applied>>

\* The wait is cancelled: killed, and raised without a log
Interrupted(c) ==
    /\ pc[c] = "wait" /\ child[c] = "running"
    /\ child' = [child EXCEPT ![c] = "killed"]
    /\ Raise(c)
    /\ UNCHANGED <<files, at, applied>>

Communicated(c) ==
    /\ pc[c] = "wait" /\ child[c] \in {"zero", "nonzero"}
    /\ Goto(c, "log")
    /\ UNCHANGED <<files, at, child, applied>>

\* _run_stage_and_log: the log is written either way, the failure raised after
WriteLog(c) ==
    /\ pc[c] = "log"
    /\ Write(c, "log", [by |-> c, ok |-> child[c] = "zero", items |-> <<>>])
    /\ IF child[c] = "zero" THEN Goto(c, "require") ELSE Raise(c)
    /\ UNCHANGED <<at, child, applied>>

\* The next stage of the pipeline, or the result
Advance(c) ==
    IF at[c] < Len(Calls[c].stages)
    THEN at' = [at EXCEPT ![c] = @ + 1] /\ child' = [child EXCEPT ![c] = "none"] /\ Goto(c, "start")
    ELSE UNCHANGED <<at, child>> /\ Goto(c, "returned")

\* _require_file and load_metis_sarif_file
TakeAnalysis(c) ==
    /\ pc[c] = "require" /\ StageOf(c) = "analysis"
    /\ IF File(c, "output").ok THEN Advance(c) ELSE Raise(c) /\ UNCHANGED <<at, child>>
    /\ UNCHANGED <<files, applied>>

\* The decisions are loaded, then the input again
TakeDecisions(c) ==
    /\ pc[c] = "require" /\ StageOf(c) = "validation"
    /\ IF File(c, "output").ok /\ Input(c).ok
       THEN /\ applied' = [applied EXCEPT ![c] = [payload |-> {},
                                                  decisions |-> File(c, "output").items]]
            /\ Goto(c, "apply")
       ELSE Raise(c) /\ UNCHANGED applied
    /\ UNCHANGED <<files, at, child>>

\* One decision: its result must exist
ApplyDecision(c) ==
    /\ pc[c] = "apply" /\ applied[c].decisions # <<>>
    /\ LET result == Head(applied[c].decisions)
       IN  IF result \in 1..Results
           THEN /\ applied' = [applied EXCEPT ![c] = [payload |-> @.payload \cup {result},
                                                      decisions |-> Tail(@.decisions)]]
                /\ UNCHANGED pc
           ELSE Raise(c) /\ UNCHANGED applied
    /\ UNCHANGED <<files, at, child>>

\* The results are saved; validation is the last stage of a pipeline
SaveValidated(c) ==
    /\ pc[c] = "apply" /\ applied[c].decisions = <<>>
    /\ Write(c, "validated", [by |-> c, ok |-> TRUE, items |-> SetToSeq(applied[c].payload)])
    /\ Goto(c, "returned")
    /\ UNCHANGED <<at, child, applied>>

ExternalNext ==
    \E c \in Call :
        \/ Prepare(c) \/ CheckOutputs(c) \/ WriteRequest(c) \/ SpawnFails(c) \/ Spawn(c)
        \/ ChildWrites(c) \/ ChildExits(c, "zero") \/ ChildExits(c, "nonzero")
        \/ TimesOut(c) \/ Interrupted(c) \/ Communicated(c) \/ WriteLog(c)
        \/ TakeAnalysis(c) \/ TakeDecisions(c) \/ ApplyDecision(c) \/ SaveValidated(c)

ExternalDone == \A c \in Call : pc[c] \in {"returned", "raised"}
ExternalSpec ==
    ExternalInit /\ [][ExternalNext \/ (ExternalDone /\ UNCHANGED externalVars)]_externalVars

-----------------------------------------------------------------------------
\* run_pipeline, run_analysis and run_validation: whatever else uses the run
\* directory, a call that returns has found there, and still finds, the
\* request it wrote, the output its own command wrote before it ended well,
\* and a validated SARIF with every decision applied; no call leaves its
\* command running.
ResultIsOwn ==
    \A c \in Call :
        /\ pc[c] \in {"returned", "raised"} => child[c] # "running"
        /\ pc[c] = "returned" =>
              \A s \in Range(Calls[c].stages) :
                  /\ files[<<s, "request">>].by = c
                  /\ files[<<s, "output">>].by = c /\ files[<<s, "output">>].ok
                  /\ files[<<s, "log">>].by = c /\ files[<<s, "log">>].ok
                  /\ s = "validation" =>
                        /\ files[<<s, "validated">>].by = c
                        /\ Range(files[<<s, "validated">>].items)
                              = Range(files[<<s, "output">>].items)
=============================================================================
