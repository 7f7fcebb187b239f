---------------------------- MODULE FindingDedup ----------------------------
(***************************************************************************)
(* The last node of the review stage (nodes/finding_dedup): the results of *)
(* the review nodes are combined, exact copies dropped, and the rest is    *)
(* adjudicated by the model, batch by batch, first among the findings of a *)
(* function, then among those of a file.  What survives is published.      *)
(*                                                                         *)
(* A record is known by its position in the journal, which orders records  *)
(* as their index does.  A packet of records fits the model input if it    *)
(* has at most Capacity records.                                           *)
(***************************************************************************)
EXTENDS Naturals, FiniteSets, Sequences, SequencesExt, FiniteSetsExt

CONSTANTS Journals,    \* journals: sequences of [identity, file, function]
          ReviewSets,  \* what the review nodes returned: sequences of [status, result]
          Capacity,    \* bound: records of one packet
          Workers,     \* max_workers: batches of a window
          MaxGroups    \* bound: duplicate groups of one decision

VARIABLES
    journal,     \* the records of the ReviewOutput
    reviews,     \* the input "reviews" of the node
    step,        \* where execute is
    scope,       \* "function" or "file"
    current,     \* the records in the file current
    todo,        \* batches not yet in a window
    window,      \* batches of the window, each adjudicated by a job of its own
    asked,       \* batches of the window the model is asked about now
    output,      \* the records appended to dedup-<scope>.jsonl
    claims,      \* history: the members of all groups that were accepted
    diagnostics, \* the number of failed adjudications
    published,   \* the records in the published file
    final        \* the status of the FinalReviewRun

dedupVars == <<journal, reviews, step, scope, current, todo, window, asked,
               output, claims, diagnostics, published, final>>

\* combine_review_runs: whether any run has a result, and the status.
HasResult(rs) == \E i \in DOMAIN rs : rs[i].result # "none"
CombinedStatus(rs) ==
    LET all(s) == \A i \in DOMAIN rs : rs[i].status = s
        some(s) == \E i \in DOMAIN rs : rs[i].status = s
    IN IF HasResult(rs) THEN IF all("succeeded") THEN "succeeded" ELSE "inconclusive"
       ELSE IF some("failed") THEN "failed" ELSE "inconclusive"

\* combine_review_results: the result of a patch stands alone.
Results(rs, kind) == {i \in DOMAIN rs : rs[i].result = kind}
Combinable(rs) == Results(rs, "patch") # {} =>
                    Cardinality(Results(rs, "patch")) = 1 /\ Results(rs, "standard") = {}

\* unique_records: of records that agree but for their id, the first.
Unique == {p \in DOMAIN journal :
             \A q \in DOMAIN journal : journal[q].identity = journal[p].identity => p <= q}

Fits(batch) == Cardinality(batch) <= Capacity

\* _payload_scope_key and _payload_sort_key.
ScopeKey(p, s) == IF s = "file" THEN <<journal[p].file>>
                  ELSE <<journal[p].file, journal[p].function>>
SortedBefore(p, q) == \/ journal[p].function < journal[q].function
                      \/ journal[p].function = journal[q].function /\ p < q

\* The packets that the records of one scope key are cut into.
Packets(members) ==
    LET ordered == SetToSortSeq(members, SortedBefore)
        Piece(n) == {ordered[i] : i \in {j \in DOMAIN ordered : (j - 1) \div Capacity = n}}
    IN {Piece(n) : n \in 0..((Len(ordered) - 1) \div Capacity)}

BatchesOf(records, s) ==
    UNION {Packets({p \in records : ScopeKey(p, s) = k}) : k \in {ScopeKey(p, s) : p \in records}}

-----------------------------------------------------------------------------
(* _merge_decision_groups and _representative_indexes                        *)

Groups == {[members |-> m, representative |-> r] :
             m \in SUBSET DOMAIN journal, r \in DOMAIN journal}

\* A group with too few members, members of other batches or a stranger as its
\* representative is ignored.
AcceptedBy(batch, group) == /\ Cardinality(group.members) >= 2
                            /\ group.members \subseteq batch
                            /\ group.representative \in group.members

Accepted(batch, decision) == SelectSeq(decision, LAMBDA g : AcceptedBy(batch, g))

\* _UnionFind.union over the members of one group.
Union(members, components) ==
    LET touched == {c \in components : c \cap members # {}}
    IN (components \ touched) \union {UNION touched}

DuplicateGroups(batch, decision) ==
    FoldLeft(LAMBDA cs, g : Union(g.members, cs), {{p} : p \in batch}, Accepted(batch, decision))

\* Mutant: the last preference of the whole batch stands for every component.
LastPreference(component, preferences) ==
    IF preferences = <<>> THEN Min(component) ELSE Last(preferences)

\* _preferred_representative: the last preference in the component.
Representative(component, preferences) ==
    LET inside == SelectSeq(preferences, LAMBDA p : p \in component)
    IN IF inside = <<>> THEN Min(component) ELSE Last(inside)

Survivors(batch, decision) ==
    LET preferences == [i \in DOMAIN Accepted(batch, decision) |->
                          Accepted(batch, decision)[i].representative]
    IN {Representative(c, preferences) : c \in DuplicateGroups(batch, decision)}

-----------------------------------------------------------------------------
DedupInit ==
    /\ journal \in Journals /\ reviews \in ReviewSets
    /\ step = "combine" /\ scope = "function" /\ current = {}
    /\ todo = {} /\ window = {} /\ asked = {} /\ output = {} /\ claims = {}
    /\ diagnostics = 0 /\ published = {} /\ final = "none"

\* A patch is published as it is, and without a result nothing is.
Combine ==
    /\ step = "combine"
    /\ IF ~Combinable(reviews) THEN step' = "raised" /\ UNCHANGED <<current, published, final>>
       ELSE IF ~HasResult(reviews) \/ Results(reviews, "patch") # {}
       THEN /\ step' = "done" /\ final' = CombinedStatus(reviews)
            /\ published' = IF HasResult(reviews) THEN DOMAIN journal ELSE {}
            /\ UNCHANGED current
       ELSE /\ step' = IF Cardinality(Unique) < 2 THEN "publish" ELSE "scope"
            /\ current' = Unique /\ UNCHANGED <<published, final>>
    /\ UNCHANGED <<journal, reviews, scope, todo, window, asked, output, claims, diagnostics>>

\* whole_packet: records that fit together are adjudicated together.
BeginScope ==
    /\ step = "scope" /\ step' = "batches"
    /\ todo' = IF Fits(current) THEN {current} ELSE BatchesOf(current, scope)
    /\ output' = {}
    /\ UNCHANGED <<journal, reviews, scope, current, window, asked, claims, diagnostics,
                   published, final>>

BeginWindow(w) ==
    /\ step = "batches" /\ window = {} /\ asked = {}
    /\ w \subseteq todo /\ Cardinality(w) = Min({Workers, Cardinality(todo)}) /\ w # {}
    /\ window' = w /\ todo' = todo \ w
    /\ UNCHANGED <<journal, reviews, step, scope, current, asked, output, claims, diagnostics,
                   published, final>>

\* decide: a single record is kept; nobody asks after a failure.
DecideWithoutModel(batch) ==
    /\ batch \in window
    /\ Cardinality(batch) < 2 \/ ~Fits(batch) \/ diagnostics > 0
    /\ window' = window \ {batch} /\ output' = output \union batch
    /\ UNCHANGED <<journal, reviews, step, scope, current, todo, asked, claims, diagnostics,
                   published, final>>

Ask(batch) ==
    /\ batch \in window /\ Cardinality(batch) >= 2 /\ Fits(batch) /\ diagnostics = 0
    /\ window' = window \ {batch} /\ asked' = asked \union {batch}
    /\ UNCHANGED <<journal, reviews, step, scope, current, todo, output, claims, diagnostics,
                   published, final>>

Decide(batch, decision) ==
    /\ batch \in asked /\ asked' = asked \ {batch}
    /\ output' = output \union Survivors(batch, decision)
    /\ claims' = claims \union {g.members : g \in ToSet(Accepted(batch, decision))}
    /\ UNCHANGED <<journal, reviews, step, scope, current, todo, window, diagnostics,
                   published, final>>

\* No valid answer: the batch is kept, and the failure reported.
AdjudicationFails(batch) ==
    /\ batch \in asked /\ asked' = asked \ {batch}
    /\ output' = output \union batch /\ diagnostics' = diagnostics + 1
    /\ UNCHANGED <<journal, reviews, step, scope, current, todo, window, claims,
                   published, final>>

\* A whole packet is decided once; else the survivors go on to the file scope.
EndScope ==
    /\ step = "batches" /\ todo = {} /\ window = {} /\ asked = {}
    /\ current' = output
    /\ IF Fits(current) \/ scope = "file"
       THEN step' = "publish" /\ UNCHANGED scope
       ELSE step' = "scope" /\ scope' = "file"
    /\ UNCHANGED <<journal, reviews, todo, window, asked, output, claims, diagnostics,
                   published, final>>

\* After a failure the original records are published, copies included.
Publish ==
    /\ step = "publish" /\ step' = "done"
    /\ published' = IF diagnostics > 0 THEN DOMAIN journal ELSE current
    /\ final' = IF diagnostics > 0 THEN "inconclusive" ELSE CombinedStatus(reviews)
    /\ UNCHANGED <<journal, reviews, scope, current, todo, window, asked, output, claims,
                   diagnostics>>

DedupDone == step \in {"done", "raised"} /\ UNCHANGED dedupVars

DedupNext ==
    \/ Combine \/ BeginScope \/ EndScope \/ Publish \/ DedupDone
    \/ \E w \in SUBSET todo : BeginWindow(w)
    \/ \E batch \in window : DecideWithoutModel(batch) \/ Ask(batch)
    \/ \E batch \in asked :
        \/ AdjudicationFails(batch)
        \/ \E decision \in SeqOf(Groups, MaxGroups) : Decide(batch, decision)

DedupSpec == DedupInit /\ [][DedupNext]_dedupVars

-----------------------------------------------------------------------------
(* Property *)

\* The records a chain of accepted groups connects with p.
Reached(p) ==
    LET Grow[n \in 0..Len(journal)] ==
          IF n = 0 THEN {p}
          ELSE Grow[n - 1] \union UNION {m \in claims : m \cap Grow[n - 1] # {}}
    IN Grow[Len(journal)]

\* Deduplication loses no finding and keeps no two that were called duplicates:
\* without a failure exactly one finding of every chain of accepted duplicates is
\* published, whichever scope, batch and job accepted them, and it is a first copy;
\* after any failed adjudication every original finding is published and the run
\* is not a success (consolidate_records and execute of finding_dedup).
EveryFindingRepresented ==
    step = "done" /\ Results(reviews, "standard") # {} =>
        /\ diagnostics = 0 => /\ published \subseteq Unique
                              /\ \A p \in Unique : Cardinality(Reached(p) \cap published) = 1
        /\ diagnostics > 0 => published = DOMAIN journal /\ final = "inconclusive"
        /\ final = "succeeded" => \A i \in DOMAIN reviews : reviews[i].status = "succeeded"
=============================================================================
