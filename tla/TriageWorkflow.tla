---------------------------- MODULE TriageWorkflow ----------------------------
(****************************************************************************)
(* Triage of one finding after another by one worker thread                 *)
(* (engine/nodes/triage): the thread's cached workflow, the source window   *)
(* shown to the model, the lines its tools read, a decision that may cite   *)
(* only what was shown, a fallback without tools, and a second look at the  *)
(* source before the decision counts.  The source may be edited meanwhile.  *)
(*                                                                          *)
(* One file is cited; a line's content is "p", "q", or "p " with a trailing *)
(* blank; "~" is a line cut off in the middle.                              *)
(****************************************************************************)
EXTENDS Integers, Sequences, FiniteSets, FiniteSetsExt

CONSTANTS
    Lines,          \* lines of the file: 1..n
    Findings,       \* lines findings are reported at
    Radius,         \* FILE_WINDOW_RADIUS
    Capture,        \* DEFAULT_CAPTURE_MAX_CHARS, in half lines
    PackMax,        \* EVIDENCE_PACK_MAX_CHARS, in half lines
    Header,         \* length of the section's header, in half lines
    Answers,        \* what the model may answer: [status, evidence, chain]
    Navigations,    \* addresses navigation capabilities may have
    Models,
    MaxAttempts,    \* JsonPromptRunner's attempts
    MaxEdits, MaxCalls

VARIABLES
    disk,       \* line -> content
    edits, calls,
    live,       \* [at, id]: the navigation capability in use, its address and identity
    workflow,   \* the thread's workflow: <<>> or <<[at, id, model]>>
    call,       \* [model, finding, id]: the call being served
    phase,      \* "idle" | "collect" | "tools" | "fallback" | "decide"
    attempt,    \* failed answers of the invocation
    shown,      \* line -> contents the model of this invocation has seen
    observed,   \* line -> set of <<content, trimmed>>: SourceEvidence.observed
    initial,    \* SourceEvidence.initial
    errors,     \* SourceEvidence.errors: there are some
    answer,     \* <<>> or <<decision>>
    result      \* <<>> or <<[status, evidence, source]>>, of the last call

workVars == <<disk, edits, calls, live, workflow, call, phase, attempt, shown,
              observed, initial, errors, answer, result>>

Contents == {"p", "q", "p "}
RStrip(c) == IF c = "p " THEN "p" ELSE c
Nothing == [l \in Lines |-> {}]
NoCall == [model |-> "", finding |-> 0, id |-> 0]

Cited(decision) == UNION {e[1]..e[2] : e \in decision.evidence}

-----------------------------------------------------------------------------
(* The source window: triage_node_collect_evidence.                         *)

WindowOf(finding) ==
    {l \in Lines : finding <= l + Radius /\ l <= finding + Radius}
PlaceIn(window, l) == l - Min(window) + 1

\* The lines of the window that are within so many half lines; the last one
\* may be cut
Cut(window, halves) ==
    [l \in Lines |->
        IF l \notin window THEN {}
        ELSE IF 2 * PlaceIn(window, l) <= halves THEN {disk[l]}
        ELSE IF 2 * PlaceIn(window, l) - 1 <= halves THEN {"~"}
        ELSE {}]

\* mutant: the header does not count
RoomNoHeader == PackMax
Room == PackMax - Header

\* The observation: what was captured, as far as the pack has room for it
Observation(window) == Cut(window, Min({Capture, Room}))

\* The pack the model sees is cut after its header and sections were joined
Displayed(window) ==
    [l \in Lines |->
        IF l \notin window THEN {}
        ELSE IF 2 * PlaceIn(window, l) <= Capture /\ Header + 2 * PlaceIn(window, l) <= PackMax
        THEN {disk[l]} ELSE {}]

-----------------------------------------------------------------------------
(* SourceEvidence                                                           *)

\* observe: rows of grep are compared without trailing blanks
Observe(seen, l, tool) ==
    [seen EXCEPT ![l] = @ \cup {IF tool = "grep" THEN <<RStrip(disk[l]), TRUE>>
                                ELSE <<disk[l], FALSE>>}]

\* The source on disk still reads as observed
Matches(l) ==
    \E o \in observed[l] : (IF o[2] THEN RStrip(disk[l]) ELSE disk[l]) = o[1]

\* validate
Validates(decision) ==
    /\ decision.status \in {"valid", "invalid"} => decision.evidence # {} /\ decision.chain
    /\ \A e \in decision.evidence :
          /\ e[1] <= e[2]
          /\ \A l \in e[1]..e[2] : l \in Lines /\ observed[l] # {}
    /\ \A l \in Cited(decision) : Matches(l)

\* TriageDecisionModel
SchemaValid(decision) ==
    decision.status = "valid" => decision.evidence # {} /\ decision.chain

-----------------------------------------------------------------------------
WorkInit ==
    /\ disk = [l \in Lines |-> "p"]
    /\ edits = 0 /\ calls = 0
    /\ live \in [at : Navigations, id : {1}]
    /\ workflow = <<>>
    /\ call = NoCall
    /\ phase = "idle"
    /\ attempt = 0
    /\ shown = Nothing /\ observed = Nothing /\ initial = Nothing
    /\ errors = FALSE /\ answer = <<>> /\ result = <<>>

\* mutant: the model is not part of the key
KeyWithoutModel(w) == <<w.at>>

\* workflow_key: the id() of the capability, and the model
KeyOf(w) == <<w.at, w.model>>

\* classify and _workflow: the thread's workflow, if its key is that of the call
BeginCall(model, finding) ==
    /\ phase = "idle" /\ calls < MaxCalls
    /\ LET wanted == [at |-> live.at, id |-> live.id, model |-> model]
       IN  workflow' = IF workflow # <<>> /\ KeyOf(workflow[1]) = KeyOf(wanted)
                       THEN workflow ELSE <<wanted>>
    /\ call' = [model |-> model, finding |-> finding, id |-> live.id]
    /\ calls' = calls + 1
    /\ phase' = "collect"
    /\ result' = <<>> /\ shown' = Nothing
    /\ UNCHANGED <<disk, edits, live, attempt, observed, initial, errors, answer>>

\* The run's navigation capability is replaced.  The old one is freed unless
\* the workflow holds it as its toolbox, so the new one may have its address
\* only if not
ReplaceNavigation(address) ==
    /\ phase = "idle" /\ calls < MaxCalls
    /\ address \notin (IF workflow = <<>> THEN {} ELSE {workflow[1].at})
    /\ live.id < 2
    /\ live' = [at |-> address, id |-> live.id + 1]
    /\ result' = <<>>
    /\ UNCHANGED <<disk, edits, calls, workflow, call, phase, attempt, shown, observed,
                   initial, errors, answer>>

\* TriageClassifierService.close
CloseService ==
    /\ phase = "idle" /\ workflow # <<>> /\ calls < MaxCalls
    /\ workflow' = <<>>
    /\ result' = <<>>
    /\ UNCHANGED <<disk, edits, calls, live, call, phase, attempt, shown, observed,
                   initial, errors, answer>>

\* The window is read; reading it may fail, which shows nothing
CollectEvidence(readable) ==
    /\ phase = "collect"
    /\ LET window == IF readable THEN WindowOf(call.finding) ELSE {}
           seen == [l \in Lines |-> IF window = {} THEN {}
                                    ELSE {<<c, FALSE>> : c \in Observation(window)[l]}]
       IN  /\ shown' = IF window = {} THEN Nothing ELSE Displayed(window)
           /\ observed' = seen
           /\ initial' = seen
    /\ attempt' = 0 /\ errors' = FALSE /\ answer' = <<>>
    /\ phase' = "tools"
    /\ UNCHANGED <<disk, edits, calls, live, workflow, call, result>>

\* The model reads a line with a navigation tool
ReadLine(l, tool) ==
    /\ phase = "tools"
    /\ shown' = [shown EXCEPT ![l] = @ \cup {disk[l]}]
    /\ observed' = Observe(observed, l, tool)
    /\ UNCHANGED <<disk, edits, calls, live, workflow, call, phase, attempt, initial,
                   errors, answer, result>>

\* mutant: what the tools read stays observed
ResetToolsNever == observed

\* reset_tools
ResetTools == initial

\* An invocation without an answer left: the fallback has no tools, and its
\* model has seen the window alone
GiveUp ==
    IF phase = "tools"
    THEN /\ phase' = "fallback" /\ attempt' = 0
         /\ observed' = ResetTools
         /\ shown' = [l \in Lines |-> {o[1] : o \in initial[l]} \ {"~"}]
    ELSE phase' = "decide" /\ UNCHANGED <<attempt, observed, shown>>

\* _normalize_triage_decision: the schema, then the evidence
Answered(decision) ==
    /\ phase \in {"tools", "fallback"}
    /\ errors' = (SchemaValid(decision) /\ ~Validates(decision))
    /\ IF SchemaValid(decision) /\ Validates(decision)
       THEN /\ answer' = <<decision>>
            /\ phase' = "decide"
            /\ UNCHANGED <<attempt, observed, shown>>
       ELSE /\ UNCHANGED answer
            /\ IF attempt + 1 < MaxAttempts
               THEN attempt' = attempt + 1 /\ UNCHANGED <<phase, observed, shown>>
               ELSE GiveUp
    /\ UNCHANGED <<disk, edits, calls, live, workflow, call, initial, result>>

\* The request fails for good: the failure is the caller's
ModelFails ==
    /\ phase \in {"tools", "fallback"}
    /\ phase' = "idle"
    /\ shown' = Nothing
    /\ observed' = Nothing /\ initial' = Nothing /\ errors' = FALSE /\ answer' = <<>> /\ attempt' = 0
    /\ UNCHANGED <<disk, edits, calls, live, workflow, call, result>>

\* mutant: an accepted answer is not looked at again
StillValidAlways(decision) == TRUE
StillValid(decision) == Validates(decision)

\* _decide: no answer, or one the source no longer supports, is inconclusive
Decide ==
    /\ phase = "decide"
    /\ result' = <<IF answer = <<>>
                   THEN [status |-> "inconclusive", evidence |-> {},
                         source |-> IF errors THEN "validation_failure" ELSE "execution_failure"]
                   ELSE IF StillValid(answer[1])
                   THEN [status |-> answer[1].status, evidence |-> Cited(answer[1]),
                         source |-> "model"]
                   ELSE [status |-> "inconclusive", evidence |-> {},
                         source |-> "validation_failure"]>>
    /\ phase' = "idle"
    /\ observed' = Nothing /\ initial' = Nothing /\ errors' = FALSE /\ answer' = <<>> /\ attempt' = 0
    /\ UNCHANGED <<disk, edits, calls, live, workflow, call, shown>>

\* External: a line of the file is edited
EditLine(l, content) ==
    /\ edits < MaxEdits /\ disk[l] # content
    /\ disk' = [disk EXCEPT ![l] = content]
    /\ edits' = edits + 1
    /\ result' = <<>>
    /\ UNCHANGED <<calls, live, workflow, call, phase, attempt, shown, observed,
                   initial, errors, answer>>

WorkNext ==
    \/ \E m \in Models, f \in Findings : BeginCall(m, f)
    \/ \E a \in Navigations : ReplaceNavigation(a)
    \/ CloseService
    \/ \E r \in BOOLEAN : CollectEvidence(r)
    \/ \E l \in Lines, tool \in {"sed", "grep"} : ReadLine(l, tool)
    \/ \E d \in Answers : Answered(d)
    \/ ModelFails \/ Decide
    \/ \E l \in Lines, c \in Contents : EditLine(l, c)

WorkDone == phase = "idle" /\ calls = MaxCalls
WorkSpec == WorkInit /\ [][WorkNext \/ (WorkDone /\ UNCHANGED workVars)]_workVars

-----------------------------------------------------------------------------
\* TriageWorkflow.triage and SourceEvidence: a verdict that is not
\* inconclusive rests on cited lines, each of which was shown to the model of
\* the invocation that answered and reads on disk, when the verdict is given,
\* as it was shown, up to the blanks a search trims.
VerdictIsGrounded ==
    \A i \in DOMAIN result :
        result[i].status # "inconclusive" =>
            /\ result[i].evidence # {}
            /\ \A l \in result[i].evidence :
                  RStrip(disk[l]) \in {RStrip(c) : c \in shown[l]}

\* TriageClassifierService._workflow: the workflow a call uses was made for
\* the navigation capability and the model of that call, though the key holds
\* only the capability's address, which another one may get.
WorkflowIsOfItsCall ==
    phase # "idle" => workflow[1].id = call.id /\ workflow[1].model = call.model
=============================================================================
