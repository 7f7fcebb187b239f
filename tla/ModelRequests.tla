--------------------------- MODULE ModelRequests ---------------------------
(***************************************************************************)
(* One model request (JsonPromptRunner.invoke, llm_runner.py, with the     *)
(* tool loop of model_tool_runner.py).  A request makes attempts until one *)
(* yields a parsed value.  Failed transports and unusable answers have a   *)
(* retry budget each.  In an attempt with tools the model may call tools   *)
(* for some rounds; what they returned is evidence, which a later attempt  *)
(* puts into its prompt instead of offering the tools again.  The caller   *)
(* may observe successful tool results and cancel at any time; the code    *)
(* polls for cancellation at its checkpoints.                              *)
(***************************************************************************)
EXTENDS Integers, FiniteSets, Sequences

CONSTANTS MaxAttempts,          \* answers the request may ask for
          MaxTransportRetries,  \* the provider's max_retries
          MaxToolRounds,        \* rounds of tool calls in one attempt
          MaxToolCalls          \* bound on the tool calls of one answer

ASSUME RequestConstants ==
    /\ MaxAttempts \in Nat \ {0}
    /\ MaxTransportRetries \in Nat
    /\ MaxToolRounds \in Nat \ {0}
    /\ MaxToolCalls \in Nat \ {0}

VARIABLES
    tools,       \* the request offers model tools
    notify,      \* the request has on_output_limit
    phase,       \* where the request is
    attempt,     \* attempts begun
    transportRetries, outputAttempts,
    evidence,    \* tool_evidence: Seq([id, ok])
    round,       \* tool rounds completed in this attempt
    left,        \* tool calls of this round still to run
    found,       \* the tool loop's own evidence list
    used,        \* history: tool calls begun
    observed,    \* history: results handed to on_tool_result
    failure,     \* why the attempt failed
    limitHit,    \* confirmed_output_limit
    incomplete,  \* incomplete_response is not None
    hit,         \* history: the failures met so far
    notified,    \* history: on_output_limit was called
    result,      \* "value" or "nothing" once decided
    cancelled    \* the caller's cancellation

setup    == <<tools, notify>>
budget   == <<attempt, transportRetries, outputAttempts>>
toolLoop == <<round, left, found, used>>
failing  == <<failure, limitHit, incomplete, hit>>
vars == <<setup, phase, budget, evidence, toolLoop, observed, failing, notified,
          result, cancelled>>

Phases == {"begin", "attempt", "call", "answer", "tool", "using", "parse", "failed",
           "backoff", "exhausted", "finish", "returned", "raised"}

(* active_tools: the tools are offered until there is evidence. *)
ActiveTools == tools /\ evidence = <<>>

(* range(self._max_attempts + max_transport_retries) *)
AttemptRange == MaxAttempts + MaxTransportRetries

Init ==
    /\ tools \in BOOLEAN
    /\ notify \in BOOLEAN
    /\ phase = "begin"
    /\ attempt = 0
    /\ transportRetries = 0
    /\ outputAttempts = 0
    /\ evidence = <<>>
    /\ round = 0
    /\ left = 0
    /\ found = <<>>
    /\ used = 0
    /\ observed = <<>>
    /\ failure = "none"
    /\ limitHit = FALSE
    /\ incomplete = FALSE
    /\ hit = {}
    /\ notified = FALSE
    /\ result = "none"
    /\ cancelled = FALSE

(* A step between checkpoints: a cancelled request raises, another goes on *)
(* or raises an error of its own that nothing retries.                     *)
Raises == phase' = "raised"
Reaches(next) == ~cancelled /\ phase' = next

-----------------------------------------------------------------------------
(* invoke up to the loop; a bad template or missing round limit raises. *)
Begin ==
    /\ phase = "begin"
    /\ Reaches("attempt") \/ Raises
    /\ UNCHANGED <<setup, budget, evidence, toolLoop, observed, failing, notified,
                   result, cancelled>>

(* The top of the loop up to the first model call.  Building the chat      *)
(* model may fail like a transport, an oversized prompt raises.            *)
BeginAttempt ==
    /\ phase = "attempt"
    /\ attempt' = attempt + 1
    /\ round' = 0
    /\ found' = <<>>
    /\ \/ Reaches("call") /\ UNCHANGED <<failure, hit>>
       \/ Reaches("failed") /\ failure' = "transport" /\ hit' = hit \cup {"transport"}
       \/ Raises /\ UNCHANGED <<failure, hit>>
    /\ UNCHANGED <<setup, transportRetries, outputAttempts, evidence, left, used,
                   observed, limitHit, incomplete, notified, result, cancelled>>

(* The checkpoint and the input budget before a model call.  Mutant: the   *)
(* checkpoint is missing.                                                  *)
CallModelUnchecked ==
    /\ phase = "call"
    /\ phase' = "answer" \/ Raises
    /\ UNCHANGED <<setup, budget, evidence, toolLoop, observed, failing, notified,
                   result, cancelled>>
CallModel ==
    /\ phase = "call"
    /\ Reaches("answer") \/ Raises
    /\ UNCHANGED <<setup, budget, evidence, toolLoop, observed, failing, notified,
                   result, cancelled>>

-----------------------------------------------------------------------------
(* The successful calls among `calls`, in order: the k-th is the one with  *)
(* k successful calls up to it.                                            *)
Succeeded(calls) ==
    LET good == {i \in 1..Len(calls) : calls[i].ok}
        Upto(i) == {j \in good : j <= i}
    IN  [k \in 1..Cardinality(good) |->
            calls[CHOOSE i \in good : Cardinality(Upto(i)) = k]]

(* _observe_tool_results *)
Observe == observed' = observed \o Succeeded(found)

(* What the attempt leaves behind for the next: the tool loop hands its    *)
(* evidence over, an attempt without tools keeps what it had.              *)
(* Mutant: only the answer that completed hands its evidence over. *)
KeepEvidence == UNCHANGED evidence /\ IF ActiveTools THEN Observe ELSE UNCHANGED observed
TakeEvidence ==
    IF ActiveTools THEN evidence' = found /\ Observe ELSE UNCHANGED <<evidence, observed>>

(* The model asks for tools, in all rounds but the last. *)
AnswerWithCalls ==
    /\ phase = "answer"
    /\ ActiveTools
    /\ round < MaxToolRounds
    /\ Reaches("tool")
    /\ left' \in 1..MaxToolCalls
    /\ UNCHANGED <<setup, budget, evidence, round, found, used, observed, failing,
                   notified, result, cancelled>>

(* A completed answer. *)
AnswerComplete ==
    /\ phase = "answer"
    /\ Reaches("parse")
    /\ TakeEvidence
    /\ UNCHANGED <<setup, budget, toolLoop, failing, notified, result, cancelled>>

(* require_completed_model_response: the output limit was reached, or the  *)
(* answer is incomplete, refused or filtered.                              *)
AnswerUnusable(kind) ==
    /\ phase = "answer"
    /\ Reaches("failed")
    /\ TakeEvidence
    /\ failure' = kind
    /\ hit' = hit \cup {kind}
    /\ limitHit' = (limitHit \/ kind = "limit")
    /\ incomplete' = (incomplete \/ kind = "incomplete")
    /\ UNCHANGED <<setup, budget, toolLoop, notified, result, cancelled>>

(* The call fails: what the tool loop found is lost. *)
AnswerLost ==
    /\ phase = "answer"
    /\ Reaches("failed")
    /\ failure' = "transport"
    /\ hit' = hit \cup {"transport"}
    /\ UNCHANGED <<setup, budget, evidence, toolLoop, observed, limitHit, incomplete,
                   notified, result, cancelled>>

(* A cancelled request, a certificate error, or an observer that raises.   *)
AnswerRaises ==
    /\ phase = "answer"
    /\ Raises
    /\ UNCHANGED <<setup, budget, evidence, toolLoop, observed, failing, notified,
                   result, cancelled>>

(* A tool call begins ... *)
UseTool ==
    /\ phase = "tool"
    /\ \/ Reaches("using") /\ used' = used + 1
       \/ cancelled /\ Raises /\ UNCHANGED used
    /\ UNCHANGED <<setup, budget, evidence, round, left, found, observed, failing,
                   notified, result, cancelled>>

(* ... and ends.  An error is evidence too; on_tool_error may raise. *)
ToolEnds ==
    /\ phase = "using"
    /\ \/ /\ Reaches(IF left = 1 THEN "call" ELSE "tool")
          /\ \E ok \in BOOLEAN : found' = Append(found, [id |-> used, ok |-> ok])
          /\ left' = left - 1
          /\ round' = IF left = 1 THEN round + 1 ELSE round
       \/ Raises /\ UNCHANGED <<found, left, round>>
    /\ UNCHANGED <<setup, budget, evidence, used, observed, failing, notified, result,
                   cancelled>>

-----------------------------------------------------------------------------
(* request.parse: a value ends the request, None or an exception fails the *)
(* attempt.                                                                *)
Parse ==
    /\ phase = "parse"
    /\ \/ Reaches("finish") /\ result' = "value" /\ UNCHANGED <<failure, hit>>
       \/ /\ Reaches("failed")
          /\ failure' = "invalid"
          /\ hit' = hit \cup {"invalid"}
          /\ UNCHANGED result
       \/ cancelled /\ Raises /\ UNCHANGED <<failure, hit, result>>
    /\ UNCHANGED <<setup, budget, evidence, toolLoop, observed, limitHit, incomplete,
                   notified, cancelled>>

(* A failed transport is retried unless the retries are used up or the     *)
(* provider says not to (_provider_retry_delay).                           *)
(* Mutant: transport failures use up answers. *)
RetryTransportAsAnswer ==
    /\ phase = "failed"
    /\ failure = "transport"
    /\ \/ /\ transportRetries < MaxTransportRetries
          /\ outputAttempts' = outputAttempts + 1
          /\ Reaches("backoff")
       \/ Raises /\ UNCHANGED outputAttempts
    /\ UNCHANGED <<setup, attempt, transportRetries, evidence, toolLoop, observed,
                   failing, notified, result, cancelled>>
RetryTransport ==
    /\ phase = "failed"
    /\ failure = "transport"
    /\ \/ /\ transportRetries < MaxTransportRetries
          /\ transportRetries' = transportRetries + 1
          /\ Reaches("backoff")
       \/ Raises /\ UNCHANGED transportRetries
    /\ UNCHANGED <<setup, attempt, outputAttempts, evidence, toolLoop, observed,
                   failing, notified, result, cancelled>>

RetryOutput ==
    /\ phase = "failed"
    /\ failure # "transport"
    /\ outputAttempts' = outputAttempts + 1
    /\ \/ Reaches(IF outputAttempts' >= MaxAttempts THEN "exhausted" ELSE "backoff")
       \/ cancelled /\ Raises
    /\ UNCHANGED <<setup, attempt, transportRetries, evidence, toolLoop, observed,
                   failing, notified, result, cancelled>>

(* The sleep polls for cancellation; then the next attempt, if the range   *)
(* of the loop has one.                                                    *)
Backoff ==
    /\ phase = "backoff"
    /\ \/ Reaches(IF attempt < AttemptRange THEN "attempt" ELSE "exhausted")
       \/ cancelled /\ Raises
    /\ UNCHANGED <<setup, budget, evidence, toolLoop, observed, failing, notified,
                   result, cancelled>>

(* After the loop: an output limit is reported to the caller or raised, an *)
(* incomplete answer is raised, otherwise there is no result.              *)
Exhausted ==
    /\ phase = "exhausted"
    /\ \/ /\ Reaches("finish")
          /\ IF limitHit THEN notify ELSE ~incomplete
          /\ notified' = limitHit
          /\ result' = "nothing"
       \/ /\ cancelled \/ limitHit \/ incomplete
          /\ Raises
          /\ UNCHANGED <<notified, result>>
    /\ UNCHANGED <<setup, budget, evidence, toolLoop, observed, failing, cancelled>>

(* The last checkpoint of invoke. *)
Finish ==
    /\ phase = "finish"
    /\ Reaches("returned") \/ (cancelled /\ Raises)
    /\ UNCHANGED <<setup, budget, evidence, toolLoop, observed, failing, notified,
                   result, cancelled>>

Cancel ==
    /\ ~cancelled
    /\ cancelled' = TRUE
    /\ UNCHANGED <<setup, phase, budget, evidence, toolLoop, observed, failing,
                   notified, result>>

Ended == phase \in {"returned", "raised"} /\ UNCHANGED vars

Next ==
    \/ Begin \/ BeginAttempt \/ CallModel
    \/ AnswerWithCalls \/ AnswerComplete \/ AnswerLost \/ AnswerRaises
    \/ AnswerUnusable("limit") \/ AnswerUnusable("incomplete")
    \/ UseTool \/ ToolEnds \/ Parse
    \/ RetryTransport \/ RetryOutput \/ Backoff \/ Exhausted \/ Finish
    \/ Cancel \/ Ended

Spec == Init /\ [][Next]_vars

-----------------------------------------------------------------------------
(* Inside invoke_model_with_tools. *)
InToolLoop == ActiveTools /\ phase \in {"call", "answer", "tool", "using"}

(* What the caller has observed and what the model is shown never drift    *)
(* apart: outside the tool loop the observed results are the successful    *)
(* calls of the evidence in use, each once and in order.  Results of an    *)
(* attempt that was thrown away are not observed, and results that are     *)
(* carried into a retry are not observed again.                            *)
ObservedIsEvidence ==
    phase # "raised" /\ ~InToolLoop => observed = Succeeded(evidence)

(* A request returns no result only after max_attempts unusable answers,   *)
(* however transport failures were interleaved with them, and only if each *)
(* was complete but invalid or the caller was told of an output limit.     *)
NothingIsExplained ==
    phase = "returned" /\ result = "nothing" =>
        /\ outputAttempts = MaxAttempts
        /\ {"limit", "incomplete"} \cap hit # {} => notified

(* After cancellation no model or tool call begins, nothing more is        *)
(* observed, and the request does not return.                              *)
CancellationWins ==
    [][cancelled =>
          /\ phase' \in {"answer", "using", "returned"} => phase' = phase
          /\ observed' = observed]_vars
=============================================================================
