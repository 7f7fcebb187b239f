----------------------------- MODULE SourceAnchors -----------------------------
(****************************************************************************)
(* Where a finding is: SourceMap.resolve_issue turns the snippet and the    *)
(* lines a model reported into an anchor in the file                        *)
(* (engine/source/source_map.py), over maps that SourceRepository caches by *)
(* path, modification time and size while threads read and files change.    *)
(*                                                                          *)
(* A text is a sequence of lines, a line a sequence of tokens: a word, the  *)
(* blank "_", or a line number such as "2:".                                *)
(****************************************************************************)
EXTENDS Naturals, Sequences, FiniteSets, FiniteSetsExt, SequencesExt

CONSTANTS
    Texts,      \* the successive texts of one file
    Issues,     \* [snippet, start, end, hint, context] a model may report
    Functions_, \* [from, to, name]: the functions of every text
    Threads,
    Capacity    \* of the cache

VARIABLES
    version,    \* which text is on disk
    cache,      \* sequence of [key, text], the least recently used first
    pc,         \* thread -> "idle" | "stat" | "read" | "insert" | "resolve"
    since,      \* thread -> the version on disk when its call began
    key,        \* thread -> the key it computed
    got,        \* thread -> the version it read
    anchor      \* the anchor the last step gave, <<[issue, text, at]>>, or <<>>

anchorVars == <<version, cache, pc, since, key, got, anchor>>

-----------------------------------------------------------------------------
(* Lines and snippets.                                                      *)

Blank == "_"
Trivial == {"}"}
Numbers == <<"1:", "2:", "3:", "4:", "5:">>

\* _norm_line
Words(line) == SelectSeq(line, LAMBDA t : t # Blank)
\* rstrip
Stripped(line) ==
    LET ends == {i \in DOMAIN line : line[i] # Blank}
    IN  IF ends = {} THEN <<>> ELSE SubSeq(line, 1, Max(ends))
Joined(lines) == FlattenSeq([i \in DOMAIN lines |-> Words(lines[i])])
\* "\n".join
Text(lines) == FlattenSeq([i \in DOMAIN lines |->
                   IF i = 1 THEN lines[i] ELSE <<"\n">> \o lines[i]])
Places(needle, text) ==
    {p \in 1..Len(text) : p + Len(needle) - 1 <= Len(text)
                          /\ SubSeq(text, p, p + Len(needle) - 1) = needle}
Quotes(text, needle) == needle = <<>> \/ Places(needle, text) # {}

\* _without_consistent_line_numbers: every line carries its own number
Unnumbered(snippet, from, to) ==
    LET Numbered(i) ==
            LET w == Words(snippet[i])
            IN  w # <<>> /\ from + i - 1 \in DOMAIN Numbers /\ Head(w) = Numbers[from + i - 1]
        Without(line) == LET p == Min({i \in DOMAIN line : line[i] # Blank})
                         IN  SubSeq(line, IF p < Len(line) /\ line[p + 1] = Blank THEN p + 2 ELSE p + 1,
                                    Len(line))
    IN  IF Len(snippet) = (to + 1) - from /\ \A i \in DOMAIN snippet : Numbered(i)
        THEN [i \in DOMAIN snippet |-> Without(snippet[i])]
        ELSE snippet

\* The blank lines around a snippet, dropped
Trimmed(snippet) ==
    LET full == {i \in DOMAIN snippet : Words(snippet[i]) # <<>>}
    IN  IF full = {} THEN <<>>
        ELSE [i \in 1..(Max(full) - Min(full) + 1) |-> Stripped(snippet[Min(full) + i - 1])]

-----------------------------------------------------------------------------
(* SourceMap                                                                *)

None == [from |-> 0, to |-> 0, confidence |-> "unresolved"]

\* anchor_for_lines clamps to the file
AnchorForLines(text, from, to, confidence) ==
    LET first == Max({1, Min({from, Len(text)})})
    IN  [from |-> first, to |-> Max({first, Min({to, Len(text)})}), confidence |-> confidence]

\* verify_lines: the snippet is in the lines, or the lines in the snippet
VerifyLines(text, from, to, snippet) ==
    LET actual == Joined(SubSeq(text, from, to))
        wanted == Joined(snippet)
    IN  IF /\ 1 <= from /\ from <= to /\ to <= Len(text)
           /\ wanted # <<>> /\ actual # <<>>
           /\ Quotes(actual, wanted) \/ Quotes(wanted, actual)
        THEN AnchorForLines(text, from, to, "exact")
        ELSE None

\* enclosing_symbol: the first function around the line, or ""
EnclosingSymbol(line) ==
    LET around == SelectSeq(Functions_, LAMBDA f : f.from <= line /\ line <= f.to)
    IN  IF around = <<>> THEN "" ELSE around[1].name

\* mutant: an occurrence in the hint is not preferred
DisambiguateFirst(spans, hint, context) == spans[1]

\* _disambiguate: in the hint first, then in a function the text mentions
Disambiguate(spans, hint, context) ==
    LET hinted == SelectSeq(spans, LAMBDA s : s.from \in hint \/ s.to \in hint)
        left == IF hinted # <<>> THEN hinted ELSE spans
        named == SelectSeq(left, LAMBDA s : EnclosingSymbol(s.from) \in context)
    IN  IF Len(hinted) = 1 THEN hinted[1]
        ELSE IF named # <<>> THEN named[1] ELSE left[1]

\* The spans of lines where the snippet occurs, in order
Occurrences(text, snippet) ==
    LET hay == Text([i \in DOMAIN text |-> Stripped(text[i])])
        Line(p) == 1 + Cardinality({q \in 1..(p - 1) : hay[q] = "\n"})
        places == SetToSortSeq(Places(Text(snippet), hay), <)
    IN  [i \in DOMAIN places |-> [from |-> Line(places[i]),
                                  to |-> Line(places[i]) + Len(snippet) - 1]]

\* _resolve_verbatim
ResolveVerbatim(text, snippet, hint, context) ==
    LET spans == Occurrences(text, snippet)
    IN  IF spans = <<>> THEN None
        ELSE IF Len(spans) = 1
        THEN AnchorForLines(text, spans[1].from, spans[1].to, "exact")
        ELSE LET chosen == Disambiguate(spans, hint, context)
             IN  AnchorForLines(text, chosen.from, chosen.to, "disambiguated")

\* The lines of the file that equal a line of the snippet worth matching, one
\* entry for each such line of the snippet
Wanted(snippet) ==
    SelectSeq([i \in DOMAIN snippet |-> Words(snippet[i])],
              LAMBDA w : \E i \in DOMAIN w : w[i] \notin Trivial)
Hits(text, snippet) ==
    LET wanted == Wanted(snippet)
        Times(i) == Cardinality({j \in DOMAIN wanted : wanted[j] = Words(text[i])})
        Add(acc, i) == acc \o [k \in 1..Times(i) |-> i]
    IN  FoldLeft(Add, <<>>, [i \in DOMAIN text |-> i])

Window(snippet) == Max({Len(snippet), 3})

\* mutant: the last line found is taken for the best window
BestWindowLate(hits, window, hint) ==
    [start |-> hits[Len(hits)], count |-> 1]

\* The sliding window of _resolve_fuzzy
BestWindow(hits, window, hint) ==
    LET First(h) == Min({j \in DOMAIN hits : hits[j] + window >= h})
        Step(best, i) ==
            LET h == hits[i]
                count == i - First(h) + 1
            IN  IF \/ count > best.count
                   \/ count = best.count /\ h \in hint /\ best.start \notin hint
                THEN [start |-> hits[First(h)], count |-> count]
                ELSE best
    IN  FoldLeft(Step, [start |-> hits[1], count |-> 1], [i \in DOMAIN hits |-> i])

\* _resolve_fuzzy
ResolveFuzzy(text, snippet, hint) ==
    LET hits == Hits(text, snippet)
        window == Window(snippet)
        best == BestWindow(hits, window, hint)
        cluster == {h \in Range(hits) : best.start <= h /\ h <= best.start + window}
    IN  IF hits = <<>> THEN None
        ELSE AnchorForLines(text, Min(cluster), Max(cluster), "fuzzy")

\* resolve_snippet
ResolveSnippet(text, candidate, hint, context) ==
    LET snippet == Trimmed(candidate)
        verbatim == ResolveVerbatim(text, snippet, hint, context)
    IN  IF snippet = <<>> \/ text = <<>> THEN None
        ELSE IF verbatim # None THEN verbatim
        ELSE ResolveFuzzy(text, snippet, hint)

\* resolve_issue: the lines reported, if the snippet is there; else wherever
\* the snippet is, as it stands or without its line numbers
ResolveIssue(text, issue) ==
    LET plain == Unnumbered(issue.snippet, issue.start, issue.end)
        candidates == IF plain = issue.snippet THEN <<plain>> ELSE <<issue.snippet, plain>>
        tries == [i \in DOMAIN candidates |->
                      VerifyLines(text, issue.start, issue.end, candidates[i])]
                 \o [i \in DOMAIN candidates |->
                      ResolveSnippet(text, candidates[i], issue.hint, issue.context)]
        found == SelectSeq(tries, LAMBDA a : a # None)
    IN  IF found = <<>> THEN None ELSE found[1]

-----------------------------------------------------------------------------
(* SourceRepository                                                         *)

AnchorInit ==
    /\ version = 1 /\ cache = <<>>
    /\ pc = [t \in Threads |-> "idle"]
    /\ since = [t \in Threads |-> 0]
    /\ key = [t \in Threads |-> <<0, 0>>]
    /\ got = [t \in Threads |-> 0]
    /\ anchor = <<>>

\* mutant: the key is the size alone
KeySizeOnly(v) == <<0, Len(Text(Texts[v]))>>

\* The modification time and the size
Key(v) == <<v, Len(Text(Texts[v]))>>

Stat(t) ==
    /\ pc[t] = "idle"
    /\ since' = [since EXCEPT ![t] = version]
    /\ key' = [key EXCEPT ![t] = Key(version)]
    /\ pc' = [pc EXCEPT ![t] = "stat"]
    /\ anchor' = <<>>
    /\ UNCHANGED <<version, cache, got>>

Entry(k) == SelectSeq(cache, LAMBDA e : e.key = k)
Others(k) == SelectSeq(cache, LAMBDA e : e.key # k)

\* Under the lock: a hit moves to the end
LookUp(t) ==
    /\ pc[t] = "stat"
    /\ IF Entry(key[t]) # <<>>
       THEN /\ cache' = Others(key[t]) \o Entry(key[t])
            /\ got' = [got EXCEPT ![t] = Entry(key[t])[1].text]
            /\ pc' = [pc EXCEPT ![t] = "resolve"]
       ELSE pc' = [pc EXCEPT ![t] = "read"] /\ UNCHANGED <<cache, got>>
    /\ anchor' = <<>>
    /\ UNCHANGED <<version, since, key>>

ReadFile(t) ==
    /\ pc[t] = "read"
    /\ got' = [got EXCEPT ![t] = version]
    /\ pc' = [pc EXCEPT ![t] = "insert"]
    /\ anchor' = <<>>
    /\ UNCHANGED <<version, cache, since, key>>

\* Under the lock again: stored under the key of the stat, the oldest dropped
Insert(t) ==
    /\ pc[t] = "insert"
    /\ LET all == Append(Others(key[t]), [key |-> key[t], text |-> got[t]])
           excess == IF Len(all) > Capacity THEN Len(all) - Capacity ELSE 0
       IN  cache' = SubSeq(all, excess + 1, Len(all))
    /\ pc' = [pc EXCEPT ![t] = "resolve"]
    /\ anchor' = <<>>
    /\ UNCHANGED <<version, since, key, got>>

Resolve(t) ==
    /\ pc[t] = "resolve"
    /\ \E issue \in Issues :
          anchor' = <<[issue |-> issue, text |-> Texts[got[t]],
                       at |-> ResolveIssue(Texts[got[t]], issue)]>>
    /\ pc' = [pc EXCEPT ![t] = "idle"]
    /\ since' = [since EXCEPT ![t] = 0]
    /\ key' = [key EXCEPT ![t] = <<0, 0>>]
    /\ got' = [got EXCEPT ![t] = 0]
    /\ UNCHANGED <<version, cache>>

\* External: the file changes, and with it its modification time
EditFile ==
    /\ version < Len(Texts)
    /\ version' = version + 1
    /\ anchor' = <<>>
    /\ UNCHANGED <<cache, pc, since, key, got>>

AnchorNext ==
    \/ EditFile
    \/ \E t \in Threads : Stat(t) \/ LookUp(t) \/ ReadFile(t) \/ Insert(t) \/ Resolve(t)

AnchorSpec == AnchorInit /\ [][AnchorNext]_anchorVars

-----------------------------------------------------------------------------
\* SourceRepository.get: the text a call works on was the text on disk at
\* some moment of that call, though the map is cached under what stat said
\* before the file was read and other threads share the entry.
MapsAreCurrent ==
    \A t \in Threads :
        pc[t] = "resolve" => since[t] <= got[t] /\ got[t] <= version

\* SourceMap.resolve_issue: an exact anchor's lines contain the snippet or are
\* contained in it; an ambiguous snippet goes to an occurrence, in the hint if
\* any is; a fuzzy anchor is given only to a snippet that occurs nowhere as a
\* whole, starts and ends on lines of the snippet, and no window of that size
\* has more of them; unresolved means no line worth matching is in the file.
AnchorsQuoteTheSource ==
    \A i \in DOMAIN anchor :
        LET a == anchor[i].at
            text == anchor[i].text
            issue == anchor[i].issue
            candidates == {issue.snippet, Unnumbered(issue.snippet, issue.start, issue.end)}
            lines == Joined(SubSeq(text, a.from, a.to))
            In(h, from) == from <= h /\ h <= from + Window(Trimmed(issue.snippet))
            Count(hits, from) == Cardinality({j \in DOMAIN hits : In(hits[j], from)})
        IN  CASE a.confidence = "exact" ->
                   \E s \in candidates : Quotes(lines, Joined(s)) \/ Quotes(Joined(s), lines)
              [] a.confidence = "disambiguated" ->
                   \E s \in candidates :
                      LET spans == Range(Occurrences(text, Trimmed(s)))
                      IN  /\ [from |-> a.from, to |-> a.to] \in spans
                          /\ (\E o \in spans : o.from \in issue.hint \/ o.to \in issue.hint)
                                => a.from \in issue.hint \/ a.to \in issue.hint
              [] a.confidence = "fuzzy" ->
                   \E s \in candidates :
                      LET hits == Hits(text, Trimmed(s))
                      IN  /\ Occurrences(text, Trimmed(s)) = <<>>
                          /\ {a.from, a.to} \subseteq Range(hits)
                          /\ \A h \in Range(hits) : Count(hits, a.from) >= Count(hits, h)
              [] OTHER -> \A s \in candidates : Hits(text, Trimmed(s)) = <<>>
=============================================================================
