------------------------------ MODULE JsonEvents ------------------------------
(****************************************************************************)
(* JsonSnapshot.events, _walk and write with _write_json_events             *)
(* (json_io.py): a document is read as a stream of parser events, given     *)
(* paths by a stack, the values at one pattern of paths are built and       *)
(* transformed, and the rest is written on, so that no more than one        *)
(* selected value is in memory.                                             *)
(*                                                                          *)
(* A document is a tree: a scalar, an array of trees or a map of keys to    *)
(* trees in order.  An array index i is the name "#i".                      *)
(****************************************************************************)
EXTENDS Naturals, Sequences, FiniteSets, SequencesExt

CONSTANTS
    Documents,  \* [kind, value, keys, items]
    Depth,      \* bound: how deep the documents are nested
    Patterns    \* sequences of names, "*" standing for any index

VARIABLES
    document, pattern,
    events,     \* the parser's events for the document
    validate,   \* the first pass over a snapshot validates, without writing
    at,         \* events read
    stack,      \* open containers: [path, kind, count, key, keys]
    builder,    \* <<>> or <<[path, events]>>: the value being built
    counts,     \* the writer's open containers: entries written
    afterKey,   \* the writer has just written a key
    written,    \* tokens
    status      \* "reading" | "done" | "raised"

jsonVars == <<document, pattern, events, validate, at, stack, builder, counts, afterKey, written, status>>

Indexes == <<"#0", "#1", "#2", "#3">>
Event(kind, value) == [event |-> kind, value |-> value]
Token(kind, value) == [token |-> kind, value |-> value, path |-> <<>>, built |-> <<>>]
Punctuation(mark) == Token("mark", mark)
\* A selected value, as the transformation is given it
RecordToken(path, built) == [token |-> "record", value |-> "", path |-> path, built |-> built]

\* The documents and the values in them
Within[n \in 0..Depth] ==
    IF n = 0 THEN Documents
    ELSE LET outer == Within[n - 1] IN outer \cup UNION {ToSet(t.items) : t \in outer}
Trees == Within[Depth]

\* External: the events of the parser
EventsOf[tree \in Trees] ==
    CASE tree.kind = "scalar" -> <<Event("value", tree.value)>>
      [] tree.kind = "array" ->
             <<Event("start_array", "")>>
             \o FlattenSeq([i \in DOMAIN tree.items |-> EventsOf[tree.items[i]]])
             \o <<Event("end_array", "")>>
      [] tree.kind = "map" ->
             <<Event("start_map", "")>>
             \o FlattenSeq([i \in DOMAIN tree.items |->
                    <<Event("map_key", tree.keys[i])>> \o EventsOf[tree.items[i]]])
             \o <<Event("end_map", "")>>

Starts == {"start_map", "start_array"}
Ends == {"end_map", "end_array"}

-----------------------------------------------------------------------------
(* Paths.                                                                   *)

\* mutant: entries of an array are not counted
AdvancedNever(container) == container

\* An entry of an array takes the next index
Advanced(container) ==
    IF container.kind = "start_array" THEN [container EXCEPT !.count = @ + 1] ELSE container

\* The path of a value that begins here
Place ==
    IF stack = <<>> THEN <<>>
    ELSE LET parent == Last(stack)
         IN  Append(parent.path, IF parent.kind = "start_array" THEN Indexes[parent.count + 1]
                                 ELSE parent.key)

PathOf(event) ==
    CASE event.event \in Ends \cup {"map_key"} -> Last(stack).path
      [] OTHER -> Place

\* The stack after an event
Stacked(event) ==
    LET top == Len(stack)
        parents == IF stack = <<>> THEN <<>> ELSE [stack EXCEPT ![top] = Advanced(@)]
    IN  CASE event.event \in Ends -> Front(stack)
          [] event.event = "map_key" -> [stack EXCEPT ![top].key = event.value,
                                                      ![top].keys = @ \cup {event.value}]
          [] event.event \in Starts ->
                 Append(parents, [path |-> Place, kind |-> event.event, count |-> 0, key |-> "", keys |-> {}])
          [] OTHER -> parents

Duplicate(event) == event.event = "map_key" /\ event.value \in Last(stack).keys

\* _walk: the path is one of the pattern's
Selected(path) ==
    /\ Len(path) = Len(pattern)
    /\ \A i \in DOMAIN path :
          IF pattern[i] = "*" THEN path[i] \in ToSet(Indexes) ELSE path[i] = pattern[i]

-----------------------------------------------------------------------------
(* The writer.                                                              *)

\* mutant: every entry is preceded by a comma
CommaAlways(count) == <<Punctuation(",")>>
Comma(count) == IF count > 0 THEN <<Punctuation(",")>> ELSE <<>>

\* _write_json_events for one event, a token standing for a selected value
Written(kind, tokens) ==
    LET entry == counts # <<>> /\ ~afterKey /\ kind \notin Ends
        counted == IF entry THEN [counts EXCEPT ![Len(counts)] = @ + 1] ELSE counts
    IN  /\ written' = written \o (IF entry THEN Comma(Last(counts)) ELSE <<>>) \o tokens
        /\ counts' = CASE kind \in Ends -> Front(counts)
                       [] kind \in Starts -> Append(counted, 0)
                       [] OTHER -> counted
        /\ afterKey' = IF kind \in Ends THEN afterKey ELSE kind = "map_key"

Mark(event) ==
    CASE event.event = "start_map" -> Punctuation("{")
      [] event.event = "end_map" -> Punctuation("}")
      [] event.event = "start_array" -> Punctuation("[")
      [] event.event = "end_array" -> Punctuation("]")
      [] event.event = "map_key" -> Token("key", event.value)
      [] OTHER -> Token("value", event.value)

-----------------------------------------------------------------------------
JsonInit ==
    /\ document \in Documents /\ pattern \in Patterns
    /\ events = EventsOf[document] /\ validate = TRUE
    /\ at = 0 /\ stack = <<>> /\ builder = <<>> /\ counts = <<>>
    /\ afterKey = FALSE /\ written = <<>> /\ status = "reading"

More == status = "reading" /\ at < Len(events)
Coming == events[at + 1]
Read == at' = at + 1 /\ stack' = Stacked(Coming)

\* A key given twice is refused on the first pass
RefuseKey ==
    /\ More /\ validate /\ Duplicate(Coming)
    /\ status' = "raised"
    /\ UNCHANGED <<document, pattern, events, validate, at, stack, builder, counts, afterKey, written>>

CheckEvent ==
    /\ More /\ validate /\ ~Duplicate(Coming)
    /\ Read
    /\ UNCHANGED <<document, pattern, events, validate, builder, counts, afterKey, written, status>>

\* The document is valid: the second pass selects and writes
Validated ==
    /\ status = "reading" /\ validate /\ at = Len(events)
    /\ validate' = FALSE /\ at' = 0
    /\ UNCHANGED <<document, pattern, events, stack, builder, counts, afterKey, written, status>>

\* An event of a value that is being built; the value is complete when the
\* container at its path ends
BuildEvent ==
    /\ More /\ ~validate /\ builder # <<>>
    /\ LET built == Append(builder[1].events, Coming)
       IN  IF PathOf(Coming) = builder[1].path /\ Coming.event \in Ends
           THEN builder' = <<>> /\ Written("record", <<RecordToken(builder[1].path, built)>>)
           ELSE /\ builder' = <<[builder[1] EXCEPT !.events = built]>>
                /\ UNCHANGED <<counts, afterKey, written>>
    /\ Read
    /\ UNCHANGED <<document, pattern, events, validate, status>>

\* A value at the pattern begins, and ends at once if it is a scalar
SelectEvent ==
    /\ More /\ ~validate /\ builder = <<>>
    /\ Coming.event \notin Ends \cup {"map_key"} /\ Selected(PathOf(Coming))
    /\ IF Coming.event \in Starts
       THEN /\ builder' = <<[path |-> PathOf(Coming), events |-> <<Coming>>]>>
            /\ UNCHANGED <<counts, afterKey, written>>
       ELSE /\ Written("record", <<RecordToken(PathOf(Coming), <<Coming>>)>>)
            /\ UNCHANGED builder
    /\ Read
    /\ UNCHANGED <<document, pattern, events, validate, status>>

PassEvent ==
    /\ More /\ ~validate /\ builder = <<>>
    /\ (Coming.event \notin Ends \cup {"map_key"}) => ~Selected(PathOf(Coming))
    /\ Written(Coming.event, <<Mark(Coming)>>)
    /\ Read
    /\ UNCHANGED <<document, pattern, events, validate, builder, status>>

EndStream ==
    /\ status = "reading" /\ ~validate /\ at = Len(events)
    /\ status' = "done"
    /\ UNCHANGED <<document, pattern, events, validate, at, stack, builder, counts, afterKey, written>>

JsonNext == RefuseKey \/ CheckEvent \/ Validated \/ BuildEvent \/ SelectEvent \/ PassEvent \/ EndStream
JsonDone == status # "reading"
JsonSpec == JsonInit /\ [][JsonNext \/ (JsonDone /\ UNCHANGED jsonVars)]_jsonVars

-----------------------------------------------------------------------------
(* The document with its selected values replaced, written from the tree.   *)

Repeats[tree \in Trees] ==
    \/ tree.kind = "map" /\ ~IsInjective(tree.keys)
    \/ \E i \in DOMAIN tree.items : Repeats[tree.items[i]]

Separated(parts) ==
    FlattenSeq([i \in DOMAIN parts |-> IF i = 1 THEN parts[i] ELSE <<Punctuation(",")>> \o parts[i]])

Rewritten[tree \in Trees, path \in Seq(STRING)] ==
    CASE Selected(path) -> <<RecordToken(path, EventsOf[tree])>>
      [] ~Selected(path) /\ tree.kind = "scalar" -> <<Token("value", tree.value)>>
      [] ~Selected(path) /\ tree.kind = "array" ->
             <<Punctuation("[")>>
             \o Separated([i \in DOMAIN tree.items |-> Rewritten[tree.items[i], Append(path, Indexes[i])]])
             \o <<Punctuation("]")>>
      [] ~Selected(path) /\ tree.kind = "map" ->
             <<Punctuation("{")>>
             \o Separated([i \in DOMAIN tree.items |->
                    <<Token("key", tree.keys[i])>>
                    \o Rewritten[tree.items[i], Append(path, tree.keys[i])]])
             \o <<Punctuation("}")>>

\* events, _walk, write and _write_json_events: what is written in the end is
\* the document with exactly the values at the pattern replaced, each built
\* whole from its own events and handed over with its own path (the indexes
\* of the arrays around it), and commas where JSON has them; a document with
\* a repeated key, and no other, is refused, before anything is written.
StreamIsTheDocument ==
    /\ status = "raised" => Repeats[document] /\ written = <<>>
    /\ status = "done" => ~Repeats[document] /\ written = Rewritten[document, <<>>]
=============================================================================
