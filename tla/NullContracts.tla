---------------------------- MODULE NullContracts ----------------------------
(****************************************************************************)
(* The null contracts of the reachability review: from the syntax facts of  *)
(* C functions, augment_function_contracts derives "f returns non-null when *)
(* its parameters satisfy R" to a fixed point over the call graph, and the  *)
(* admission of findings withdraws a finding whose necessary condition (a   *)
(* call result being NULL at the sink) those contracts contradict.          *)
(*                                                                          *)
(* A program is a function from names to the syntax the rules look at; what *)
(* C makes of that syntax is Outcomes, the reference the contracts are      *)
(* compared with.  A variable is a parameter 1..n, the Local, or Opaque (a  *)
(* test that is not a comparison with NULL).                                *)
(****************************************************************************)
EXTENDS Naturals, Sequences, FiniteSets, FiniteSetsExt, SequencesExt

CONSTANTS
    Programs,   \* the programs analysed
    Owner       \* the function that holds the finding

VARIABLES
    program,    \* name -> function syntax
    pending,    \* the queue of functions to derive
    contracts,  \* name -> [transfers |-> set of requirement sets, exit |-> ...]
    withdrawn   \* "undecided", or whether the finding was withdrawn

nullVars == <<program, pending, contracts, withdrawn>>

Local == 0
Opaque == 99
Functions_ == DOMAIN program

-----------------------------------------------------------------------------
(* Null facts of a condition (plugins/c_family/ast.py).  A condition is     *)
(* [op |-> "and" | "or", atoms |-> sequence of [var, null]]; one atom is a  *)
(* comparison.  A fact is a pair <<variable, is null>>.                     *)

\* _deduplicate_null_facts: contradictory facts are no facts
Deduplicated(facts) ==
    IF \E f, g \in facts : f[1] = g[1] /\ f[2] # g[2] THEN {} ELSE facts

\* _guaranteed_null_facts: the facts the branch implies
GuaranteedNullFacts(cond, truth) ==
    LET known == {a \in Range(cond.atoms) : a.var # Opaque}
        required == Len(cond.atoms) = 1 \/ (cond.op = "and") = truth
    IN  IF required
        THEN Deduplicated({<<a.var, a.null = truth>> : a \in known})
        ELSE {}

\* _null_condition
HasNullCondition(cond) ==
    \E truth \in BOOLEAN : GuaranteedNullFacts(cond, truth) # {}

\* _terminal_guard_condition: an if without else whose branch always returns
TerminalGuard(s) ==
    /\ s.kind = "if"
    /\ ~s.alt
    /\ s.returns # "none"
    /\ GuaranteedNullFacts(s.cond, FALSE) # {}

\* mutant: a later write does not invalidate the guard
WithoutIdentifiersKept(facts, killed) == facts

\* _without_null_identifiers
WithoutIdentifiers(facts, killed) == {f \in facts : f[1] \notin killed}

\* _preceding_must_conditions: what earlier guards leave true at the callsite
PrecedingMustFacts(body) ==
    LET Step(facts, s) ==
            IF TerminalGuard(s)
            THEN facts \cup GuaranteedNullFacts(s.cond, FALSE)
            ELSE WithoutIdentifiers(facts, s.vars)
    IN  FoldLeft(Step, {}, body)

\* _enclosing_conditions: each return in the body, under its conditions
EarlyReturns(body) == SelectSeq(body, LAMBDA s : s.kind = "if" /\ s.returns # "none")

-----------------------------------------------------------------------------
(* Contracts (nodes/reachability/state.py).                                 *)

None == {<<Opaque, TRUE>>}      \* no requirement set

\* _callsite_must_null_literals
CallsiteMustLiterals(owner, call) ==
    {<<i, b>> \in (DOMAIN call.args) \X BOOLEAN :
        /\ call.args[i] \in 1..owner.params
        /\ <<call.args[i], b>> \in PrecedingMustFacts(owner.body)}

\* _return_exclusion_requirements: the facts of the opposite branch
ReturnExclusion(node, s) ==
    LET opposite == GuaranteedNullFacts(s.cond, FALSE)
    IN  IF \E f \in opposite : f[1] \notin 1..node.params THEN {} ELSE opposite

\* _callee_nonnull_transfers
CalleeTransfers(call, ctr) ==
    IF Cardinality(call.targets) # 1 THEN {}
    ELSE UNION {ctr[t].transfers : t \in call.targets \cap DOMAIN ctr}

\* The requirements of the callee, as requirements of the owner's parameters
Mapped(owner, call, requirements) ==
    IF \A r \in requirements :
           /\ r[1] <= Len(call.args)
           /\ call.args[r[1]] \in 1..owner.params
    THEN {<<call.args[r[1]], r[2]>> : r \in requirements}
    ELSE None

\* _callee_nonnull_requirements (a function has at most one transfer, so the
\* order in which the code tries them does not matter)
CalleeRequirements(owner, call, ctr) ==
    LET found == {Mapped(owner, call, r) : r \in CalleeTransfers(call, ctr)} \ {None}
    IN  IF found = {} THEN None ELSE CHOOSE r \in found : TRUE

\* mutant: the function called on the NULL branch may return
FatalNullBranchAny(final, ctr) ==
    /\ Len(final.between) = 1
    /\ GuaranteedNullFacts(final.between[1].cond, TRUE) = {<<Local, TRUE>>}
    /\ GuaranteedNullFacts(final.between[1].cond, FALSE) = {<<Local, FALSE>>}

\* _fatal_null_branch_proves_nonnull: the single call between is under a test
\* of the local for NULL, and its only target never returns
FatalNullBranch(final, ctr) ==
    /\ Len(final.between) = 1
    /\ LET c == final.between[1]
       IN  /\ Cardinality(c.targets) = 1
           /\ \A t \in c.targets : t \in DOMAIN ctr /\ ctr[t].exit = "impossible"
           /\ GuaranteedNullFacts(c.cond, TRUE) = {<<Local, TRUE>>}
           /\ GuaranteedNullFacts(c.cond, FALSE) = {<<Local, FALSE>>}

\* expression_modified_between
ModifiedBetween(final) == final.modified

\* _forwarded_return_requirements
ForwardedRequirements(node, ctr) ==
    LET final == node.final
    IN  CASE final.form = "call" -> CalleeRequirements(node, final, ctr)
          [] final.form = "local" ->
                 IF final.conditional \/ final.escaped \/ ModifiedBetween(final)
                 THEN None
                 ELSE IF FatalNullBranch(final, ctr) THEN {}
                 ELSE CalleeRequirements(node, final, ctr)
          [] OTHER -> None

\* _derive_nonnull_return_transfer
DeriveTransfer(node, ctr) ==
    LET early == Range(EarlyReturns(node.body))
        excluded == {ReturnExclusion(node, s) : s \in early}
        forwarded == ForwardedRequirements(node, ctr)
    IN  IF \/ node.final.form = "none"
           \/ \E s \in early : s.returns # "null"
           \/ {} \in excluded
           \/ forwarded = None
        THEN None
        ELSE UNION excluded \cup forwarded

\* The reverse edges of the call graph
Callers(f) == {g \in Functions_ : f \in program[g].final.targets
                   \/ \E i \in DOMAIN program[g].final.between :
                          f \in program[g].final.between[i].targets}

-----------------------------------------------------------------------------
(* Admission of findings (nodes/reachability/finding_admission.py).         *)

\* callsite_has_deterministic_nonnull_return
DeterministicNonnull(owner, call, ctr) ==
    \E r \in CalleeTransfers(call, ctr) : r \subseteq CallsiteMustLiterals(owner, call)

\* _condition_is_contradicted: the result reaches the sink unchanged, in the
\* finding's anchor, with no call between, and cannot be null.  _expression_
\* matches_result is the "matches" of the sink
ConditionContradicted(owner, ctr) ==
    /\ owner.final.form = "local"
    /\ owner.sink.matches
    /\ owner.sink.anchored
    /\ ~ModifiedBetween(owner.final)
    /\ owner.final.between = <<>>
    /\ DeterministicNonnull(owner, owner.final, ctr)

\* _admitted_finding_ids: withdrawn when each alternative has a contradicted
\* condition; an alternative whose sink index is out of range never has one
Withdrawn(owner, ctr) ==
    /\ owner.sink.alternatives # <<>>
    /\ \A i \in DOMAIN owner.sink.alternatives :
           LET alternative == owner.sink.alternatives[i]
           IN  /\ alternative.inRange
               /\ alternative.onResult
               /\ ConditionContradicted(owner, ctr)

-----------------------------------------------------------------------------
(* What the C program does.                                                 *)

Truths(cond, env) ==
    LET Values(a) == IF a.var = Opaque THEN BOOLEAN ELSE {env[a.var] = a.null}
        each == {Values(cond.atoms[i]) : i \in DOMAIN cond.atoms}
    IN  IF cond.op = "and"
        THEN {t \in BOOLEAN : IF t THEN \A v \in each : TRUE \in v
                                   ELSE \E v \in each : FALSE \in v}
        ELSE {t \in BOOLEAN : IF t THEN \E v \in each : TRUE \in v
                                   ELSE \A v \in each : FALSE \in v}

\* The environments in which the body is passed, and the values it returns
Run(body, env) ==
    LET Step(acc, s) ==
            IF s.kind = "write"
            THEN [acc EXCEPT !.envs =
                     UNION {{[e EXCEPT ![v] = b] : v \in s.vars, b \in BOOLEAN}
                                : e \in acc.envs}]
            ELSE [envs |-> {e \in acc.envs :
                               s.returns = "none" \/ FALSE \in Truths(s.cond, e)},
                  out |-> acc.out \cup
                     IF \A e \in acc.envs : TRUE \notin Truths(s.cond, e) THEN {}
                     ELSE CASE s.returns = "null" -> {TRUE}
                            [] s.returns = "value" -> BOOLEAN
                            [] OTHER -> {}]
    IN  FoldLeft(Step, [envs |-> {env}, out |-> {}], body)

\* Whether f may return null (TRUE) or not (FALSE); {} when it never returns
RECURSIVE Outcomes(_, _, _)
Outcomes(f, args, fuel) ==
    IF f \notin Functions_ THEN BOOLEAN
    ELSE IF fuel = 0 THEN {}
    ELSE
      LET node == program[f]
          final == node.final
          env == [v \in 0..node.params |-> IF v \in DOMAIN args THEN args[v] ELSE TRUE]
          passed == Run(node.body, env)
          ArgsOf(e) == {a \in [DOMAIN final.args -> BOOLEAN] :
                          \A i \in DOMAIN a :
                             final.args[i] \in 1..node.params => a[i] = e[final.args[i]]}
          Called(e) == UNION {Outcomes(t, a, fuel - 1) : t \in final.targets, a \in ArgsOf(e)}
          Survives(b, e) ==
              \A i \in DOMAIN final.between :
                 \/ FALSE \in Truths(final.between[i].cond, [e EXCEPT ![Local] = b])
                 \/ \E t \in final.between[i].targets :
                        t \notin Functions_ \/ ~program[t].noreturn
          Result(e) ==
              CASE final.form = "call" -> Called(e)
                [] final.form = "local" ->
                       IF final.modified \/ final.escaped \/ final.conditional
                       THEN BOOLEAN
                       ELSE {b \in Called(e) : Survives(b, e)}
                [] OTHER -> BOOLEAN
      IN  IF node.noreturn THEN {}
          ELSE passed.out \cup UNION {Result(e) : e \in passed.envs}

Fuel == Cardinality(Functions_) + 1

\* A guard that consists of comparisons with NULL alone, of unwritten parameters
ExactGuards ==
    \A f \in Functions_ \ {Owner} : \A i \in DOMAIN program[f].body :
        LET s == program[f].body[i]
        IN  s.kind = "if" /\ \A a \in Range(s.cond.atoms) : a.var # Opaque

-----------------------------------------------------------------------------
NullInit ==
    /\ program \in Programs
    /\ pending \in SetToSeqs(Functions_)
    /\ contracts = [f \in Functions_ |->
                      [transfers |-> {},
                       exit |-> IF program[f].noreturn THEN "impossible" ELSE "unknown"]]
    /\ withdrawn = "undecided"

\* mutant: callers are not derived again
RescheduleNone(queue, f) == queue

\* The callers of a function whose contract grew, unless they are queued
Reschedule(queue, f) == queue \o SetToSeq(Callers(f) \ Range(queue))

\* One round of the loop of augment_function_contracts
Derive ==
    /\ pending # <<>>
    /\ LET f == Head(pending)
           transfer == DeriveTransfer(program[f], contracts)
       IN  IF transfer = None \/ transfer \in contracts[f].transfers
           THEN /\ pending' = Tail(pending)
                /\ UNCHANGED contracts
           ELSE /\ contracts' = [contracts EXCEPT ![f].transfers = @ \cup {transfer}]
                /\ pending' = Reschedule(Tail(pending), f)
    /\ UNCHANGED <<program, withdrawn>>

\* The finding of the owner is admitted or withdrawn
Admit ==
    /\ pending = <<>>
    /\ withdrawn = "undecided"
    /\ withdrawn' = IF Withdrawn(program[Owner], contracts) THEN "yes" ELSE "no"
    /\ UNCHANGED <<program, pending, contracts>>

NullNext == Derive \/ Admit
NullDone == withdrawn # "undecided"
NullSpec == NullInit /\ [][NullNext \/ (NullDone /\ UNCHANGED nullVars)]_nullVars

-----------------------------------------------------------------------------
\* No call of f whose arguments meet the requirements returns NULL
Sound(f, requirements) ==
    \A args \in [1..program[f].params -> BOOLEAN] :
        (\A r \in requirements : args[r[1]] = r[2]) => TRUE \notin Outcomes(f, args, Fuel)

\* What the finding needs: the owner's call result is NULL at the sink
NullAtSink ==
    \E args \in [1..program[Owner].params -> BOOLEAN] :
        LET passed == Run(program[Owner].body,
                          [v \in 0..program[Owner].params |->
                              IF v = 0 THEN TRUE ELSE args[v]])
            final == program[Owner].final
        IN  \/ final.modified \/ final.between # <<>>
            \/ \E e \in passed.envs : \E a \in [DOMAIN final.args -> BOOLEAN] :
                  /\ \A i \in DOMAIN a :
                        final.args[i] \in 1..program[Owner].params
                            => a[i] = e[final.args[i]]
                  /\ \E t \in final.targets : TRUE \in Outcomes(t, a, Fuel)

\* augment_function_contracts and _admitted_finding_ids, on programs whose
\* guards are comparisons of parameters with NULL: whatever order the
\* functions are taken in, a derived contract is never wrong about the
\* program, a finding is withdrawn only when its condition is impossible, and
\* once the queue is empty no function has a contract left to derive (the
\* fixed point the callers' rescheduling must reach).
ContractsExact ==
    /\ ExactGuards =>
          /\ \A f \in Functions_ : \A r \in contracts[f].transfers : Sound(f, r)
          /\ withdrawn = "yes" => ~NullAtSink
    /\ pending = <<>> =>
          \A f \in Functions_ :
             DeriveTransfer(program[f], contracts) \in contracts[f].transfers \cup {None}

\* callsite_has_deterministic_nonnull_return says it returns "whether source-
\* derived callsite facts prove a non-null result", and on that a finding is
\* withdrawn: then the result must be impossible to be NULL, for every
\* program.
WithdrawnIsImpossible == withdrawn = "yes" => ~NullAtSink
=============================================================================
