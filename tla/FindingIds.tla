----------------------------- MODULE FindingIds -----------------------------
(***************************************************************************)
(* normalize_finding_ids (sarif/writer.py) over the external merge sort of *)
(* json_io.py: every published finding gets an id of its own.  A finding   *)
(* keeps its original id if it is the first to have it; the others get     *)
(* generated ids, which may collide with original ones and are then        *)
(* generated anew, pass after pass.                                        *)
(*                                                                         *)
(* An id is a pair: <<>> for none, <<p, n>> for what uuid5 makes of        *)
(* position p and attempt n, <<0, n>> for an id nothing generates.  uuid5  *)
(* is taken to be injective.  Ids are ordered as TLC can compare them, by  *)
(* their numbers; any order of ids would do.                               *)
(***************************************************************************)
EXTENDS Integers, FiniteSets, Sequences, SequencesExt, FiniteSetsExt

CONSTANTS Findings,     \* bound: how many findings are published
          OriginalIds,  \* the ids findings come with
          ChunkLimit,   \* records of a sorted chunk (4096, or 8 MiB)
          MergeWidth,   \* runs merged at once (32)
          PassLimit     \* collision passes (8)

VARIABLES
    original,  \* original[p]: the id the finding at position p comes with
    entries,   \* the records in the order of the last sort: [position, id, attempt]
    repaired,  \* whether the last pass generated an id
    passes,    \* collision_passes
    at         \* "normalize", "repair", "done" or "raised"

idVars == <<original, entries, repaired, passes, at>>

-----------------------------------------------------------------------------
(* The sort keys of normalize_finding_ids                                     *)

IdBefore(a, b) == \/ Len(a) < Len(b)
                  \/ Len(a) = 2 /\ Len(b) = 2 /\ (a[1] < b[1] \/ (a[1] = b[1] /\ a[2] < b[2]))

ByPosition(a, b) == a.position < b.position

\* The key of the first sort: the stripped id, then the position.
ByOriginal(a, b) == IdBefore(a.id, b.id) \/ (a.id = b.id /\ a.position < b.position)

\* Mutant: a generated id may come before the original it collides with.
ByIdAlone(a, b) == IdBefore(a.id, b.id) \/ (a.id = b.id /\ a.position < b.position)

\* The key of a pass: of equal ids originals come first.
ById(a, b) ==
    \/ IdBefore(a.id, b.id)
    \/ a.id = b.id /\ a.attempt < 0 /\ b.attempt >= 0
    \/ a.id = b.id /\ (a.attempt >= 0) = (b.attempt >= 0) /\ a.position < b.position

\* The key a sort is called with.
Less(key, a, b) == CASE key = "position" -> ByPosition(a, b)
                     [] key = "original" -> ByOriginal(a, b)
                     [] key = "id" -> ById(a, b)

-----------------------------------------------------------------------------
(* sorted_json_records: sorted chunks, merged MergeWidth at a time.           *)

\* The results of f on the elements of s, and the numbers of n things.
Mapped(f(_), s) == FoldLeft(LAMBDA out, x : Append(out, f(x)), <<>>, s)
Places(n) == [i \in 1..n |-> i]

\* sorted(chunk, key): equal keys stay in the order they came.
SortedChunk(chunk, key) ==
    LET before(i, j) == \/ Less(key, chunk[i], chunk[j])
                        \/ ~Less(key, chunk[j], chunk[i]) /\ i < j
    IN Mapped(LAMBDA i : chunk[i], SetToSortSeq(DOMAIN chunk, before))

Chunks(items) ==
    Mapped(LAMBDA n : SubSeq(items, (n - 1) * ChunkLimit + 1, Min({n * ChunkLimit, Len(items)})),
           Places((Len(items) + ChunkLimit - 1) \div ChunkLimit))

\* heapq.merge: the smallest head, of equal ones the head of the earliest run.
MergeRuns(runs, key) ==
    LET Next1(state) ==
          LET open == {r \in DOMAIN runs : state.heads[r] <= Len(runs[r])}
              head(r) == runs[r][state.heads[r]]
              first == CHOOSE r \in open :
                         \A s \in open \ {r} : \/ Less(key, head(r), head(s))
                                               \/ ~Less(key, head(s), head(r)) /\ r < s
          IN [heads |-> [state.heads EXCEPT ![first] = @ + 1],
              out |-> Append(state.out, head(first))]
        total == FoldLeft(LAMBDA n, run : n + Len(run), 0, runs)
        start == [heads |-> [r \in DOMAIN runs |-> 1], out |-> <<>>]
    IN FoldLeft(LAMBDA state, n : Next1(state), start, Places(total)).out

\* More than MergeWidth runs are first merged into fewer, level by level.
Merge(runs, key) ==
    LET Group(rs, n) == SubSeq(rs, (n - 1) * MergeWidth + 1, Min({n * MergeWidth, Len(rs)}))
        Level(rs) == IF Len(rs) <= MergeWidth THEN rs
                     ELSE Mapped(LAMBDA n : MergeRuns(Group(rs, n), key),
                                 Places((Len(rs) + MergeWidth - 1) \div MergeWidth))
    IN MergeRuns(FoldLeft(LAMBDA rs, r : Level(rs), runs, runs), key)

SortRecords(items, key) ==
    Merge(Mapped(LAMBDA chunk : SortedChunk(chunk, key), Chunks(items)), key)

-----------------------------------------------------------------------------
IdInit ==
    /\ original \in [1..Findings -> OriginalIds]
    /\ entries = [p \in 1..Findings |-> [position |-> p, id |-> original[p], attempt |-> -1]]
    /\ repaired = FALSE /\ passes = 0 /\ at = "normalize"

\* normalized(): a missing id and a repeated one are replaced.
Repeats(sorted, i) == i > 1 /\ sorted[i].id = sorted[i - 1].id
NormalizedEntry(sorted, i) ==
    IF sorted[i].id = <<>> \/ Repeats(sorted, i)
    THEN [sorted[i] EXCEPT !.id = <<sorted[i].position, 0>>, !.attempt = 0]
    ELSE sorted[i]

Normalize ==
    /\ at = "normalize"
    /\ LET sorted == SortRecords(entries, "original")
           normal == Mapped(LAMBDA i : NormalizedEntry(sorted, i), Places(Findings))
       IN /\ entries' = SortRecords(normal, "position")
          /\ repaired' = (normal # sorted)
    /\ at' = "repair"
    /\ UNCHANGED <<original, passes>>

\* repair_collisions(): the previous id is the one before its repair.
RepairedEntry(sorted, i) ==
    IF Repeats(sorted, i)
    THEN [sorted[i] EXCEPT !.id = <<sorted[i].position, sorted[i].attempt + 1>>,
                           !.attempt = @ + 1]
    ELSE sorted[i]

RepairPass ==
    /\ at = "repair" /\ repaired /\ passes < PassLimit
    /\ LET sorted == SortRecords(entries, "id")
           repairs == Mapped(LAMBDA i : RepairedEntry(sorted, i), Places(Findings))
       IN /\ entries' = SortRecords(repairs, "position")
          /\ repaired' = (repairs # sorted)
    /\ passes' = passes + 1
    /\ UNCHANGED <<original, at>>

IdsEnd ==
    /\ at = "repair" /\ (~repaired \/ passes = PassLimit)
    /\ at' = IF repaired THEN "raised" ELSE "done"
    /\ UNCHANGED <<original, entries, repaired, passes>>

IdsDone == at \in {"done", "raised"} /\ UNCHANGED idVars

IdNext == Normalize \/ RepairPass \/ IdsEnd \/ IdsDone

IdSpec == IdInit /\ [][IdNext]_idVars

-----------------------------------------------------------------------------
(* Property *)

FirstWithId(p) == /\ original[p] # <<>>
                  /\ \A q \in 1..(p - 1) : original[q] # original[p]

\* Published findings can be told apart and referred to: their ids are distinct, the
\* first finding with an original id keeps it although generated ids may equal it,
\* findings stay in order with none lost or repeated by the external sort, and a
\* repair is given up only after PassLimit passes that all met a collision
\* (normalize_finding_ids, "preserving first originals over generated IDs").
IdsTellFindingsApart ==
    at = "done" =>
        /\ Len(entries) = Findings
        /\ \A p \in 1..Findings :
             /\ entries[p].position = p /\ entries[p].id # <<>>
             /\ FirstWithId(p) => entries[p].id = original[p]
             /\ \A q \in 1..Findings : entries[p].id = entries[q].id => p = q
=============================================================================
