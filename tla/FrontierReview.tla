--------------------------- MODULE FrontierReview ---------------------------
(***************************************************************************)
(* The review of a set of functions in packets (IncrementalGraphReviewer,  *)
(* nodes/reachability/incremental_review.py).  Functions are grouped by    *)
(* file, their source lines are cut into packets that fit the model's      *)
(* input, the packets of a wave are reviewed in parallel, and a packet of  *)
(* several functions whose answer was unusable is replaced by packets of   *)
(* its two halves in the next wave.                                        *)
(*                                                                         *)
(* A function is a number (its place in the order of _node_sort_key), a    *)
(* piece of source a pair of a function and a line, the unit in which      *)
(* tokens are counted.  How many lines fit depends on the evidence that is *)
(* rendered with them and is chosen for each group; so is what the model   *)
(* makes of a packet.                                                      *)
(***************************************************************************)
EXTENDS Integers, FiniteSets

CONSTANTS Functions,  \* planned functions, a set of numbers
          File,       \* [Functions -> file]
          Lines,      \* [Functions -> number of source lines, 0 if missing]
          Budgets     \* lines that may fit beside the prompt, the evidence and the schema

ASSUME FrontierConstants ==
    /\ Functions \subseteq Nat /\ IsFiniteSet(Functions)
    /\ Lines \in [Functions -> Nat]
    /\ Budgets \subseteq Nat \ {0}

VARIABLES
    phase,       \* "build", "review" or "done"
    todo,        \* calls of _build_packets still to make: <<parent, functions>>
    candidates,  \* functions of the call being made
    groups,      \* its pending_groups
    scheduled,   \* its scheduled_node_ids
    overflowed,  \* functions its failures name
    wave,        \* packets of the next wave
    nextIndex,   \* index of the next packet
    leaves,      \* leaf_packets
    answers,     \* leaf_responses, by index
    failures,    \* <<function, kind>>
    waves,       \* history: turns of the loop
    covered      \* history: pieces in packets answered for good

call    == <<candidates, groups, scheduled, overflowed>>
results == <<leaves, answers, covered, waves>>
vars    == <<phase, todo, call, wave, nextIndex, results, failures>>

Kinds == {"ok", "invalid_output", "context_overflow", "provider_error"}

Pieces(fs) == UNION {{f} \X (1..Lines[f]) : f \in fs}

Before(p, q) == p[1] < q[1] \/ (p[1] = q[1] /\ p[2] < q[2])

(* The last lines of the parts of a body of n lines: split_snippet halves  *)
(* the body, and each half, until it fits.                                 *)
PartEnds(n, b) ==
    LET ends[k \in 0..n] == IF k <= b THEN {k}
                            ELSE ends[k \div 2] \cup {k \div 2 + e : e \in ends[k - k \div 2]}
    IN  ends[n]

(* The last pieces of the chunks: a chunk takes the next parts, whole, as  *)
(* long as they fit together.                                              *)
ChunkEnds(fs, b) ==
    LET all == Pieces(fs)
        parts == {p \in all : p[2] \in PartEnds(Lines[p[1]], b)}
        place(p) == Cardinality({q \in all : ~Before(p, q)})
        reached(n) == {place(p) : p \in {q \in parts : place(q) <= n}}
        end[i \in 0..Cardinality(all)] ==
            IF i = 0 THEN 0
            ELSE LET near == reached(end[i - 1] + b) IN CHOOSE n \in near : \A m \in near : m <= n
    IN  {p \in parts : \E i \in DOMAIN end : end[i] = place(p)}

Chunks(fs, b) ==
    LET all == Pieces(fs)
        ends == ChunkEnds(fs, b)
        chunk(p) == Cardinality({e \in ends : Before(e, p)})
    IN  {{p \in all : chunk(p) = k} : k \in {chunk(p) : p \in all}}

FunctionsOf(packet) == {p[1] : p \in packet.pieces}

(* nodes[:midpoint] and nodes[midpoint:] *)
FirstHalf(fs) == {f \in fs : Cardinality({g \in fs : g < f}) < Cardinality(fs) \div 2}
Halves(fs) == {FirstHalf(fs), fs \ FirstHalf(fs)} \ {{}}

Least(fs) == CHOOSE f \in fs : \A g \in fs : f <= g

Init ==
    /\ phase = IF Functions = {} THEN "review" ELSE "build"
    /\ todo = {<<-1, fs>> : fs \in {Functions} \ {{}}}
    /\ candidates = {}
    /\ groups = {}
    /\ scheduled = {}
    /\ overflowed = {}
    /\ wave = {}
    /\ nextIndex = 0
    /\ leaves = {}
    /\ answers = <<>>
    /\ failures = {}
    /\ waves = 0
    /\ covered = {}

-----------------------------------------------------------------------------
(* _build_packets() *)

(* The calls are made in the order of the packets they replace. *)
NextCall ==
    CHOOSE t \in todo : \A u \in todo :
        t[1] < u[1] \/ (t[1] = u[1] /\ Least(t[2]) <= Least(u[2]))

BuildBegin ==
    /\ phase = "build"
    /\ candidates = {} /\ todo # {}
    /\ candidates' = NextCall[2]
    /\ todo' = todo \ {NextCall}
    /\ groups' = {{g \in candidates' : File[g] = File[f]} : f \in candidates'}
    /\ scheduled' = {}
    /\ overflowed' = {}
    /\ UNCHANGED <<phase, wave, nextIndex, results, failures>>

NextGroup == CHOOSE g \in groups : Least(g) = Least(UNION groups)

(* The evidence leaves no room for source, or one line does not fit: the   *)
(* group is halved, a single function given up.                            *)
GroupOverflows ==
    /\ groups # {}
    /\ LET g == NextGroup IN
         \/ /\ Cardinality(g) > 1
            /\ groups' = (groups \ {g}) \cup Halves(g)
            /\ UNCHANGED <<overflowed, failures>>
         \/ /\ Cardinality(g) = 1
            /\ groups' = groups \ {g}
            /\ overflowed' = overflowed \cup g
            /\ failures' = failures \cup {<<f, "context_overflow">> : f \in g}
    /\ UNCHANGED <<phase, todo, candidates, scheduled, wave, nextIndex, results>>

(* Mutant: packets are numbered within their call. *)
IndexWithinCall(kept, c) ==
    Cardinality({d \in kept : \E q \in d : \A p \in c : Before(q, p)})
PacketIndex(kept, c) ==
    nextIndex + Cardinality({d \in kept : \E q \in d : \A p \in c : Before(q, p)})

(* The chunks become packets, except those that are too long once          *)
(* rendered with their own evidence.                                       *)
GroupChunked ==
    /\ groups # {}
    /\ \E b \in Budgets :
         LET chunks == Chunks(NextGroup, b) IN
         \E kept \in SUBSET chunks :
           LET lost == {p[1] : p \in UNION (chunks \ kept)} IN
             /\ wave' = wave \cup {[index |-> PacketIndex(kept, c), pieces |-> c] : c \in kept}
             /\ nextIndex' = nextIndex + Cardinality(kept)
             /\ scheduled' = scheduled \cup {p[1] : p \in UNION kept}
             /\ overflowed' = overflowed \cup lost
             /\ failures' = failures \cup {<<f, "context_overflow">> : f \in lost}
    /\ groups' = groups \ {NextGroup}
    /\ UNCHANGED <<phase, todo, candidates, results>>

(* What was neither scheduled nor reported has no source. *)
Missing == (candidates \ scheduled) \ overflowed

BuildEnd ==
    /\ candidates # {} /\ groups = {}
    /\ failures' = failures \cup {<<f, "missing_source">> : f \in Missing}
    /\ candidates' = {}
    /\ scheduled' = {}
    /\ overflowed' = {}
    /\ phase' = IF todo = {} THEN "review" ELSE "build"
    /\ UNCHANGED <<todo, groups, wave, nextIndex, results>>

-----------------------------------------------------------------------------
(* _review_frontier_packets(): one turn of its loop. *)

(* Mutant: a packet of one function is split again. *)
AlwaysSplit(packet, kind) == kind \in {"invalid_output", "context_overflow"}

ShouldSplit(packet, kind) ==
    /\ kind \in {"invalid_output", "context_overflow"}
    /\ Cardinality(FunctionsOf(packet)) > 1

(* Packets with the same contents (one cache key) are reviewed once, and   *)
(* the answer is fanned out.                                               *)
UniqueContents == {w.pieces : w \in wave}

ReviewWave ==
    /\ phase = "review"
    /\ wave # {}
    /\ \E answer \in [UniqueContents -> Kinds] :
         LET split == {w \in wave : ShouldSplit(w, answer[w.pieces])}
             leaf  == wave \ split
         IN  /\ leaves' = leaves \cup leaf
             /\ answers' = [i \in DOMAIN answers \cup {w.index : w \in leaf} |->
                              IF \E w \in leaf : w.index = i
                              THEN answer[(CHOOSE w \in leaf : w.index = i).pieces]
                              ELSE answers[i]]
             /\ failures' = failures \cup
                  UNION {{<<f, answer[w.pieces]>> : f \in FunctionsOf(w)} :
                           w \in {v \in leaf : answer[v.pieces] # "ok"}}
             /\ covered' = covered \cup UNION {w.pieces : w \in {v \in leaf : answer[v.pieces] = "ok"}}
             /\ todo' = UNION {{<<w.index, h>> : h \in Halves(FunctionsOf(w))} : w \in split}
             /\ phase' = IF split = {} THEN "review" ELSE "build"
    /\ wave' = {}
    /\ waves' = waves + 1
    /\ UNCHANGED <<call, nextIndex>>

Finish ==
    /\ phase = "review"
    /\ wave = {}
    /\ phase' = "done"
    /\ UNCHANGED <<todo, call, wave, nextIndex, results, failures>>

Done == phase = "done" /\ UNCHANGED vars

Next ==
    \/ BuildBegin \/ GroupOverflows \/ GroupChunked \/ BuildEnd
    \/ ReviewWave \/ Finish
    \/ Done

Spec == Init /\ [][Next]_vars

-----------------------------------------------------------------------------
(* The outcome, review() *)
Succeeded(f) ==
    LET mine == {w \in leaves : f \in FunctionsOf(w)} IN
    mine # {} /\ \A w \in mine : answers[w.index] = "ok"

FailedNodes == {f \in Functions : ~Succeeded(f)} \cup {g[1] : g \in failures}

-----------------------------------------------------------------------------
(* No function is dropped silently: a function counts as failed exactly    *)
(* when a failure with its kind is reported, and each line of a function   *)
(* that counts as reviewed was in a packet the model answered properly,    *)
(* whatever was split, cut across packets, or reviewed twice.              *)
ReviewedExact ==
    phase = "done" =>
        /\ FailedNodes = {g[1] : g \in failures}
        /\ \A f \in Functions \ FailedNodes : Lines[f] > 0 /\ Pieces({f}) \subseteq covered

(* Splitting ends soon: the loop turns at most once more than the halvings *)
(* that separate all the functions, however the source is cut and whatever *)
(* the model answers.                                                      *)
WavesBounded == waves > 1 => 2 ^ (waves - 2) < Cardinality(Functions)

(* The review ends, and reports for every function what became of it.      *)
ReviewSound == ReviewedExact /\ WavesBounded
=============================================================================
