---------------------------- MODULE PacketFindings ----------------------------
(****************************************************************************)
(* What becomes of a packet's response (reachability/incremental_review.py) *)
(* after the model answered or a checkpoint was read back: it is validated  *)
(* against the lines the packet showed, kept until every packet has         *)
(* returned, and then anchored a second time, against the file as it is     *)
(* then.                                                                    *)
(*                                                                          *)
(* The graph is the one of the first version of the file: a function is     *)
(* [from, to, calls], a call [line, result].                                *)
(****************************************************************************)
EXTENDS Naturals, Sequences, FiniteSets, Functions

CONSTANTS
    Versions,   \* texts of the file, as sequences of lines ("" is blank)
    Graph,      \* function -> [from, to, calls]
    Packets,    \* [nodes, shown]: functions in source order, lines of the file
    Responses   \* what a model answers: [parses, reviews], a review being
                \* [snippet, line, confident, alternatives] and an alternative
                \* [sink, all], numbers counted from 0

VARIABLES
    version,    \* of the file on disk
    packet,
    analysis,   \* <<>> or <<reviews>>, as validated, under their numbers in the response
    checked,    \* version of the file when it was validated
    stage,      \* "built" | "failed" | "waiting" | "anchored" | "raised"
    findings    \* [review, function, from, to, subjects]

packetVars == <<version, packet, analysis, checked, stage, findings>>

Text == Versions[version]
Nodes == Range(packet.nodes)
Min(S) == CHOOSE x \in S : \A y \in S : x <= y
Max(S) == CHOOSE x \in S : \A y \in S : y <= x

\* Where the snippet begins; nothing is found of an empty one
Spans(text, snippet) ==
    {i \in 1..Len(text) : /\ snippet # <<>> /\ i + Len(snippet) - 1 <= Len(text)
                          /\ SubSeq(text, i, i + Len(snippet) - 1) = snippet}

-----------------------------------------------------------------------------
Before(a, b) == a[1] < b[1] \/ (a[1] = b[1] /\ a[2] < b[2])

\* Pairs in their order: each has as many before it as its place says
Sorted(S) ==
    [k \in 1..Cardinality(S) |-> CHOOSE p \in S : Cardinality({q \in S : Before(q, p)}) = k - 1]

\* _call_result_entries: the results of calls the packet shows, in the order
\* of the functions and of their calls
ShownCalls ==
    {p \in (DOMAIN packet.nodes) \X (UNION {DOMAIN Graph[f].calls : f \in Nodes}) :
        LET calls == Graph[packet.nodes[p[1]]].calls
        IN  p[2] \in DOMAIN calls /\ calls[p[2]].result /\ calls[p[2]].line \in packet.shown}
CallResult(p) ==
    [function |-> packet.nodes[p[1]], call |-> p[2], line |-> Graph[packet.nodes[p[1]]].calls[p[2]].line]
CallResults == [k \in DOMAIN Sorted(ShownCalls) |-> CallResult(Sorted(ShownCalls)[k])]

\* resolve_issue (SourceAnchors): the line reported if the snippet is there,
\* or where it is found, among the lines shown first; 0 if it is not
Locate(review) ==
    LET spans == Spans(Text, review.snippet)
        hinted == {i \in spans : i \in Min(packet.shown)..Max(packet.shown)}
    IN  IF review.line \in spans THEN review.line
        ELSE IF hinted # {} THEN Min(hinted)
        ELSE IF spans # {} THEN Min(spans) ELSE 0

\* mutant: only the ends of the anchor must have been shown
ShownEnds(from, to) == {from, to} \subseteq packet.shown

\* Both ends were shown, and every line between them that is not blank
Shown(from, to) ==
    /\ {from, to} \subseteq packet.shown
    /\ \A i \in from..to : i \notin packet.shown => Text[i] = ""

Owners(from, to) == {f \in Nodes : Graph[f].from <= from /\ to <= Graph[f].to}
None == [function |-> "", from |-> 0, to |-> 0]

\* _review_anchor
ReviewAnchor(review) ==
    LET from == Locate(review)
        to == from + Len(review.snippet) - 1
    IN  IF from > 0 /\ Shown(from, to) /\ Cardinality(Owners(from, to)) = 1
        THEN [function |-> CHOOSE f \in Owners(from, to) : TRUE, from |-> from, to |-> to]
        ELSE None

\* mutant: any call of the function may be the sink
SinkAnywhere(line, anchor) == TRUE
SinkInside(line, anchor) == line \in anchor.from..anchor.to

\* _valid_necessary_condition_alternatives
ValidAlternatives(review, anchor) ==
    LET calls == Graph[anchor.function].calls
        alternatives == review.alternatives
    IN  /\ \A n \in DOMAIN alternatives :
              /\ alternatives[n].sink < Len(calls)
              /\ SinkInside(calls[alternatives[n].sink + 1].line, anchor)
              /\ \A i \in Range(alternatives[n].all) : i < Len(CallResults)
              /\ IsInjective(alternatives[n].all)
        /\ \A m, n \in DOMAIN alternatives :
              /\ alternatives[m].sink = alternatives[n].sink
              /\ Range(alternatives[m].all) = Range(alternatives[n].all)
              => m = n

Kept(response) ==
    [n \in {m \in DOMAIN response.reviews : response.reviews[m].confident} |-> response.reviews[n]]

\* _parse_review_response and _validated_packet_analysis
Valid(response) ==
    /\ response.parses
    /\ \A n \in DOMAIN Kept(response) :
          LET anchor == ReviewAnchor(Kept(response)[n])
          IN  anchor # None /\ ValidAlternatives(Kept(response)[n], anchor)

\* function_for_location, for the symbol of the anchor: among the functions
\* of the whole graph that contain the line
FunctionForLocation(line, symbol) ==
    LET containing == {f \in DOMAIN Graph : line \in Graph[f].from..Graph[f].to}
        named == containing \cap {symbol}
        pool == IF named # {} THEN named ELSE containing
    IN  IF pool = {} THEN ""
        ELSE CHOOSE f \in pool : \A g \in pool : Graph[g].from <= Graph[f].from

-----------------------------------------------------------------------------
PacketInit ==
    /\ version = 1
    /\ packet \in Packets
    /\ analysis = <<>> /\ checked = 0
    /\ stage = "built"
    /\ findings = <<>>

\* The model answers, or the record of a checkpoint for the same prompt is
\* read: neither is taken unless it is valid
Validate(response) ==
    /\ stage = "built"
    /\ IF Valid(response)
       THEN /\ analysis' = <<Kept(response)>> /\ checked' = version /\ stage' = "waiting"
       ELSE /\ stage' = "failed" /\ UNCHANGED <<analysis, checked>>
    /\ UNCHANGED <<version, packet, findings>>

FindingOf(review, anchor) ==
    [review |-> review, function |-> anchor.function, from |-> anchor.from, to |-> anchor.to,
     subjects |-> UNION {{CallResults[i + 1] : i \in Range(review.alternatives[n].all)} :
                            n \in DOMAIN review.alternatives}]

\* _anchor_reviews, once all packets have returned; a review that lost its
\* anchor, or whose function the graph does not have there, raises
AnchorReviews ==
    /\ stage = "waiting"
    /\ LET reviews == analysis[1]
           Lost(n) == LET a == ReviewAnchor(reviews[n])
                      IN  a = None \/ FunctionForLocation(a.from, a.function) # a.function
       IN  IF \E n \in DOMAIN reviews : Lost(n)
           THEN stage' = "raised" /\ UNCHANGED findings
           ELSE /\ stage' = "anchored"
                /\ findings' = [n \in DOMAIN reviews |-> FindingOf(reviews[n], ReviewAnchor(reviews[n]))]
    /\ UNCHANGED <<version, packet, analysis, checked>>

\* External: an editor saves the file
EditFile ==
    /\ version < Len(Versions) /\ stage \in {"built", "waiting"}
    /\ version' = version + 1
    /\ UNCHANGED <<packet, analysis, checked, stage, findings>>

PacketNext == AnchorReviews \/ EditFile \/ \E r \in Responses : Validate(r)
PacketDone == stage \in {"failed", "raised", "anchored"}
PacketSpec == PacketInit /\ [][PacketNext \/ (PacketDone /\ UNCHANGED packetVars)]_packetVars

-----------------------------------------------------------------------------
\* _validated_packet_analysis and _anchor_reviews: whatever happened to the
\* file meanwhile, a finding quotes its snippet from lines the model was
\* shown and lies in a function of the packet; in a file that did not change
\* after validation, every confident review of the accepted response becomes
\* a finding (a review never loses its anchor between the two passes), its
\* sink calls are calls of that function inside the anchor, and its
\* conditions are about call results on lines that were shown.
FindingsAreGrounded ==
    /\ \A n \in DOMAIN findings :
          LET f == findings[n]
          IN  /\ SubSeq(Text, f.from, f.to) = f.review.snippet
              /\ \A i \in f.from..f.to : Text[i] # "" => i \in packet.shown
              /\ f.function \in Nodes /\ f.from >= Graph[f.function].from /\ f.to <= Graph[f.function].to
    /\ version = checked =>
          /\ stage # "raised"
          /\ stage = "anchored" => [n \in DOMAIN findings |-> findings[n].review] = analysis[1]
          /\ \A n \in DOMAIN findings :
                LET f == findings[n]
                    alternatives == f.review.alternatives
                IN  /\ \A m \in DOMAIN alternatives :
                          \E c \in DOMAIN Graph[f.function].calls :
                              /\ c = alternatives[m].sink + 1
                              /\ Graph[f.function].calls[c].line \in f.from..f.to
                    /\ \A s \in f.subjects : s.function \in Nodes /\ s.line \in packet.shown
=============================================================================
