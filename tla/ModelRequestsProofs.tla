------------------------ MODULE ModelRequestsProofs ------------------------
(***************************************************************************)
(* Theorems about ModelRequests for every value of its constants.          *)
(*                                                                         *)
(* NothingIsExplained is not inductive: that the loop over                 *)
(* range(max_attempts + max_transport_retries) is never left by running    *)
(* out of its range depends on how the two counters add up to the number   *)
(* of attempts, and that nothing is hidden from the caller on how the two  *)
(* flags relate to what has happened.                                      *)
(***************************************************************************)
EXTENDS ModelRequests, FiniteSetTheorems, TLAPS

Spent == transportRetries + outputAttempts

InAttempt == phase \in {"call", "answer", "tool", "using", "parse", "failed"}

(* The counters while the request may still try again. *)
Trying ==
    phase \in {"begin", "attempt", "backoff"} \/ InAttempt =>
        /\ outputAttempts < MaxAttempts
        /\ transportRetries <= MaxTransportRetries
        /\ attempt = IF InAttempt THEN Spent + 1 ELSE Spent
        /\ result = "none"

(* The loop was left by its break. *)
LeftByBreak ==
    phase = "exhausted" => outputAttempts = MaxAttempts /\ result = "none"

CountersTyped ==
    /\ phase \in Phases
    /\ attempt \in Nat
    /\ transportRetries \in Nat
    /\ outputAttempts \in Nat

Explained ==
    phase \in {"finish", "returned"} /\ result = "nothing" =>
        /\ outputAttempts = MaxAttempts
        /\ {"limit", "incomplete"} \cap hit # {} => notified

(* The two flags remember what has happened. *)
FlagsRemember ==
    /\ "limit" \in hit => limitHit
    /\ "incomplete" \in hit => incomplete

ExplainedInv == CountersTyped /\ Trying /\ LeftByBreak /\ FlagsRemember /\ Explained

LEMMA ExplainedInit == Init => ExplainedInv
BY RequestConstants
   DEF Init, ExplainedInv, CountersTyped, Trying, LeftByBreak, FlagsRemember,
       Explained, Spent, InAttempt, Phases

LEMMA CountersStep == CountersTyped /\ [Next]_vars => CountersTyped'
BY DEF CountersTyped, Next, vars, setup, budget, toolLoop, failing, Phases, Raises,
       Reaches, Begin, BeginAttempt, CallModel, AnswerWithCalls, AnswerComplete,
       AnswerUnusable, AnswerLost, AnswerRaises, UseTool, ToolEnds, Parse,
       RetryTransport, RetryOutput, Backoff, Exhausted, Finish, Cancel, Ended

(* An attempt is paid for by one of the two counters before the next.      *)
LEMMA TryingStep ==
    ASSUME CountersTyped, Trying, [Next]_vars
    PROVE  Trying'
<1> USE RequestConstants DEF CountersTyped, Trying, InAttempt, Spent, Raises, Reaches
<1>1. CASE Begin
  BY <1>1 DEF Begin, budget
<1>2. CASE BeginAttempt
  BY <1>2 DEF BeginAttempt
<1>3. CASE CallModel \/ AnswerWithCalls \/ AnswerComplete \/ AnswerLost \/ AnswerRaises
  BY <1>3 DEF CallModel, AnswerWithCalls, AnswerComplete, AnswerLost, AnswerRaises, budget
<1>4. CASE AnswerUnusable("limit") \/ AnswerUnusable("incomplete")
  BY <1>4 DEF AnswerUnusable, budget
<1>5. CASE UseTool \/ ToolEnds \/ Parse
  BY <1>5 DEF UseTool, ToolEnds, Parse, budget
<1>6. CASE RetryTransport
  BY <1>6 DEF RetryTransport
<1>7. CASE RetryOutput
  BY <1>7 DEF RetryOutput
<1>8. CASE Backoff \/ Exhausted \/ Finish
  BY <1>8 DEF Backoff, Exhausted, Finish, budget
<1>9. CASE Cancel \/ Ended \/ UNCHANGED vars
  BY <1>9 DEF Cancel, Ended, vars, budget
<1> QED
  BY <1>1, <1>2, <1>3, <1>4, <1>5, <1>6, <1>7, <1>8, <1>9 DEF Next

(* The range of the loop has an attempt left whenever a retry is due, so   *)
(* the loop ends only where it breaks.                                     *)
LEMMA BreakStep ==
    ASSUME CountersTyped, Trying, LeftByBreak, [Next]_vars
    PROVE  LeftByBreak'
<1> USE RequestConstants DEF CountersTyped, LeftByBreak, Raises, Reaches
<1>1. CASE RetryOutput
  BY <1>1 DEF RetryOutput, Trying, InAttempt
<1>2. CASE Backoff
  <2>1. attempt < AttemptRange
    BY <1>2 DEF Backoff, Trying, InAttempt, Spent, AttemptRange
  <2> QED
    BY <1>2, <2>1 DEF Backoff
<1>3. CASE Begin \/ BeginAttempt \/ CallModel \/ UseTool \/ ToolEnds \/ Parse
  BY <1>3 DEF Begin, BeginAttempt, CallModel, UseTool, ToolEnds, Parse
<1>4. CASE AnswerWithCalls \/ AnswerComplete \/ AnswerLost \/ AnswerRaises
           \/ AnswerUnusable("limit") \/ AnswerUnusable("incomplete")
  BY <1>4 DEF AnswerWithCalls, AnswerComplete, AnswerLost, AnswerRaises, AnswerUnusable
<1>5. CASE RetryTransport \/ Exhausted \/ Finish
  BY <1>5 DEF RetryTransport, Exhausted, Finish
<1>6. CASE Cancel \/ Ended \/ UNCHANGED vars
  BY <1>6 DEF Cancel, Ended, vars, budget
<1> QED
  BY <1>1, <1>2, <1>3, <1>4, <1>5, <1>6 DEF Next

LEMMA FlagsStep ==
    ASSUME FlagsRemember, [Next]_vars
    PROVE  FlagsRemember'
<1> USE DEF FlagsRemember
<1>1. CASE BeginAttempt \/ AnswerLost \/ Parse
  BY <1>1 DEF BeginAttempt, AnswerLost, Parse
<1>2. CASE AnswerUnusable("limit") \/ AnswerUnusable("incomplete")
  BY <1>2 DEF AnswerUnusable
<1>3. CASE Begin \/ CallModel \/ UseTool \/ ToolEnds \/ AnswerWithCalls
           \/ AnswerComplete \/ AnswerRaises
  BY <1>3 DEF Begin, CallModel, UseTool, ToolEnds, AnswerWithCalls, AnswerComplete,
              AnswerRaises, failing
<1>4. CASE RetryTransport \/ RetryOutput \/ Backoff \/ Exhausted \/ Finish \/ Cancel
  BY <1>4 DEF RetryTransport, RetryOutput, Backoff, Exhausted, Finish, Cancel, failing
<1>5. CASE Ended \/ UNCHANGED vars
  BY <1>5 DEF Ended, vars, failing
<1> QED
  BY <1>1, <1>2, <1>3, <1>4, <1>5 DEF Next

LEMMA ExplainedStep ==
    ASSUME ExplainedInv, [Next]_vars
    PROVE  Explained'
<1> USE DEF ExplainedInv, Explained, Raises, Reaches
<1>1. CASE Exhausted
  BY <1>1 DEF Exhausted, LeftByBreak, FlagsRemember, budget, failing
<1>2. CASE Parse
  BY <1>2 DEF Parse
<1>3. CASE Finish
  BY <1>3 DEF Finish, budget, failing
<1>4. CASE Begin \/ BeginAttempt \/ CallModel \/ UseTool \/ ToolEnds
  BY <1>4 DEF Begin, BeginAttempt, CallModel, UseTool, ToolEnds
<1>5. CASE AnswerWithCalls \/ AnswerComplete \/ AnswerLost \/ AnswerRaises
           \/ AnswerUnusable("limit") \/ AnswerUnusable("incomplete")
  BY <1>5 DEF AnswerWithCalls, AnswerComplete, AnswerLost, AnswerRaises, AnswerUnusable
<1>6. CASE RetryTransport \/ RetryOutput \/ Backoff
  BY <1>6 DEF RetryTransport, RetryOutput, Backoff
<1>7. CASE Cancel \/ Ended \/ UNCHANGED vars
  BY <1>7 DEF Cancel, Ended, vars, budget, failing
<1> QED
  BY <1>1, <1>2, <1>3, <1>4, <1>5, <1>6, <1>7 DEF Next

(* For every budget: a request without a result has used all its answers   *)
(* (JsonPromptRunner._invoke_attempts never leaves its loop by running out *)
(* of the range), and no output limit or incomplete answer among them is   *)
(* kept from the caller.                                                   *)
THEOREM NothingExplained == Spec => []NothingIsExplained
<1>1. Init => ExplainedInv
  BY ExplainedInit
<1>2. ExplainedInv /\ [Next]_vars => ExplainedInv'
  BY CountersStep, TryingStep, BreakStep, FlagsStep, ExplainedStep DEF ExplainedInv
<1>3. ExplainedInv => NothingIsExplained
  BY DEF ExplainedInv, Explained, NothingIsExplained
<1> QED
  BY <1>1, <1>2, <1>3, PTL DEF Spec

(* For every budget: after cancellation the checkpoints of                 *)
(* _invoke_attempts and invoke_model_with_tools stop the request before    *)
(* its next model call, tool call, observation or normal return.           *)
THEOREM CancellationStops == Spec => CancellationWins
<1>1. ASSUME [Next]_vars, cancelled
      PROVE  UNCHANGED vars \/ ( /\ phase' \in {"answer", "using", "returned"} => phase' = phase
                                 /\ observed' = observed)
  <2> USE <1>1 DEF Raises, Reaches
  <2>1. CASE Begin \/ BeginAttempt \/ CallModel \/ UseTool \/ ToolEnds \/ Parse
    BY <2>1 DEF Begin, BeginAttempt, CallModel, UseTool, ToolEnds, Parse
  <2>2. CASE AnswerWithCalls \/ AnswerComplete \/ AnswerLost \/ AnswerRaises
             \/ AnswerUnusable("limit") \/ AnswerUnusable("incomplete")
    BY <2>2 DEF AnswerWithCalls, AnswerComplete, AnswerLost, AnswerRaises, AnswerUnusable
  <2>3. CASE RetryTransport \/ RetryOutput \/ Backoff \/ Exhausted \/ Finish
    BY <2>3 DEF RetryTransport, RetryOutput, Backoff, Exhausted, Finish
  <2>4. CASE Cancel \/ Ended \/ UNCHANGED vars
    BY <2>4 DEF Cancel, Ended
  <2> QED
    BY <2>1, <2>2, <2>3, <2>4 DEF Next
<1>2. [Next]_vars => [cancelled =>
          /\ phase' \in {"answer", "using", "returned"} => phase' = phase
          /\ observed' = observed]_vars
  BY <1>1
<1> QED
  BY <1>2, PTL DEF Spec, CancellationWins

-----------------------------------------------------------------------------
(* What is observed.  The tools are offered only while there is no         *)
(* evidence, so the one attempt that hands its evidence over starts from   *)
(* an empty list of observed results.                                      *)

Calls == [id : Nat, ok : BOOLEAN]

(* The successful calls of a loop form a sequence; an empty loop has none. *)
LEMMA SucceededIsSequence ==
    ASSUME NEW calls \in Seq(Calls)
    PROVE  /\ \E S : Succeeded(calls) \in Seq(S)
           /\ calls = <<>> => Succeeded(calls) = <<>>
<1> DEFINE good == {i \in 1..Len(calls) : calls[i].ok}
<1>1. IsFiniteSet(good) /\ Cardinality(good) \in Nat
  <2>1. IsFiniteSet(1..Len(calls))
    BY FS_Interval
  <2> QED
    BY <2>1, FS_Subset, FS_CardinalityType
<1>2. DOMAIN Succeeded(calls) = 1..Cardinality(good)
  BY DEF Succeeded
<1>3. \E S : Succeeded(calls) \in Seq(S)
  <2> DEFINE S == {Succeeded(calls)[k] : k \in 1..Cardinality(good)}
  <2>1. Succeeded(calls) \in [1..Cardinality(good) -> S]
    BY DEF Succeeded
  <2>2. Succeeded(calls) \in Seq(S)
    <3> HIDE DEF good, S
    <3> QED
      BY <1>1, <2>1
  <2> QED
    BY <2>2
<1>4. ASSUME calls = <<>> PROVE Succeeded(calls) = <<>>
  <2>1. good = {}
    BY <1>4
  <2>2. Cardinality(good) = 0
    BY <2>1, FS_EmptySet
  <2>3. DOMAIN Succeeded(calls) = {}
    <3> HIDE DEF good
    <3>1. 1..0 = {}
      OBVIOUS
    <3> QED
      BY <1>2, <2>2, <3>1
  <2> QED
    BY <1>3, <2>3
<1> QED
  BY <1>3, <1>4

ToolsTyped ==
    /\ evidence \in Seq(Calls)
    /\ found \in Seq(Calls)
    /\ used \in Nat

LEMMA ToolsTypedStep ==
    ASSUME ToolsTyped, [Next]_vars
    PROVE  ToolsTyped'
<1> USE DEF ToolsTyped, Calls
<1>1. CASE BeginAttempt
  BY <1>1 DEF BeginAttempt
<1>2. CASE AnswerComplete \/ AnswerUnusable("limit") \/ AnswerUnusable("incomplete")
  BY <1>2 DEF AnswerComplete, AnswerUnusable, TakeEvidence, toolLoop
<1>3. CASE UseTool
  BY <1>3 DEF UseTool
<1>4. CASE ToolEnds
  <2>1. \A ok \in BOOLEAN : Append(found, [id |-> used, ok |-> ok]) \in Seq(Calls)
    <3>1. \A ok \in BOOLEAN : [id |-> used, ok |-> ok] \in Calls
      OBVIOUS
    <3> HIDE DEF Calls
    <3> QED
      BY <3>1
  <2> HIDE DEF Calls
  <2> QED
    BY <1>4, <2>1 DEF ToolEnds
<1>5. CASE Begin \/ CallModel \/ AnswerWithCalls \/ AnswerLost \/ AnswerRaises \/ Parse
  BY <1>5 DEF Begin, CallModel, AnswerWithCalls, AnswerLost, AnswerRaises, Parse, toolLoop
<1>6. CASE RetryTransport \/ RetryOutput \/ Backoff \/ Exhausted \/ Finish \/ Cancel
  BY <1>6 DEF RetryTransport, RetryOutput, Backoff, Exhausted, Finish, Cancel, toolLoop
<1>7. CASE Ended \/ UNCHANGED vars
  BY <1>7 DEF Ended, vars, toolLoop
<1> QED
  BY <1>1, <1>2, <1>3, <1>4, <1>5, <1>6, <1>7 DEF Next

(* Stronger than the property: also inside the tool loop, where neither    *)
(* has anything yet.                                                       *)
InStep == observed = Succeeded(evidence)

LEMMA TakeEvidenceStep ==
    ASSUME ToolsTyped, InStep, TakeEvidence
    PROVE  InStep'
<1>1. CASE ActiveTools
  <2>1. evidence = <<>> /\ evidence' = found /\ observed' = observed \o Succeeded(found)
    BY <1>1 DEF ActiveTools, TakeEvidence, Observe
  <2>2. observed = <<>>
    BY <2>1, SucceededIsSequence DEF InStep, ToolsTyped
  <2>3. PICK S : Succeeded(found) \in Seq(S)
    BY SucceededIsSequence DEF ToolsTyped
  <2>4. observed' = Succeeded(found)
    BY <2>1, <2>2, <2>3
  <2>5. Succeeded(found) = Succeeded(evidence')
    BY <2>1
  <2> QED
    BY <2>4, <2>5 DEF InStep
<1>2. CASE ~ActiveTools
  BY <1>2 DEF TakeEvidence, InStep
<1> QED
  BY <1>1, <1>2

LEMMA InStepStep ==
    ASSUME ToolsTyped, InStep, [Next]_vars
    PROVE  InStep'
<1>1. CASE AnswerComplete \/ AnswerUnusable("limit") \/ AnswerUnusable("incomplete")
  BY <1>1, TakeEvidenceStep DEF AnswerComplete, AnswerUnusable
<1>2. ASSUME UNCHANGED <<evidence, observed>> PROVE InStep'
  BY <1>2 DEF InStep
<1>3. CASE Begin \/ BeginAttempt \/ CallModel \/ AnswerWithCalls \/ AnswerLost
           \/ AnswerRaises \/ UseTool \/ ToolEnds \/ Parse
  BY <1>2, <1>3 DEF Begin, BeginAttempt, CallModel, AnswerWithCalls, AnswerLost,
                    AnswerRaises, UseTool, ToolEnds, Parse
<1>4. CASE RetryTransport \/ RetryOutput \/ Backoff \/ Exhausted \/ Finish \/ Cancel
  BY <1>2, <1>4 DEF RetryTransport, RetryOutput, Backoff, Exhausted, Finish, Cancel
<1>5. CASE Ended \/ UNCHANGED vars
  BY <1>2, <1>5 DEF Ended, vars
<1> QED
  BY <1>1, <1>3, <1>4, <1>5 DEF Next

(* For every budget and any number of tool calls: what on_tool_result was  *)
(* given is exactly the successful part of the evidence the prompts carry, *)
(* in order and without repetition, whatever attempts were thrown away or  *)
(* retried in between.                                                     *)
THEOREM ObservationExact == Spec => []ObservedIsEvidence
<1>1. Init => ToolsTyped /\ InStep
  <2> SUFFICES ASSUME Init PROVE ToolsTyped /\ InStep
    OBVIOUS
  <2>1. ToolsTyped
    BY DEF Init, ToolsTyped
  <2>2. observed = <<>> /\ evidence = <<>>
    BY DEF Init
  <2> QED
    BY <2>1, <2>2, SucceededIsSequence DEF InStep, ToolsTyped
<1>2. ToolsTyped /\ InStep /\ [Next]_vars => (ToolsTyped /\ InStep)'
  BY ToolsTypedStep, InStepStep
<1>3. InStep => ObservedIsEvidence
  BY DEF InStep, ObservedIsEvidence
<1> QED
  BY <1>1, <1>2, <1>3, PTL DEF Spec
=============================================================================
