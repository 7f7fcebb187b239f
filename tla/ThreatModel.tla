----------------------------- MODULE ThreatModel -----------------------------
(***************************************************************************)
(* The threat model kept in repository memory (nodes/threat_model): its    *)
(* sources are fingerprinted, read and distilled by a model, the claims    *)
(* reduced to a contract, lessons drawn from the git history, and the      *)
(* result replaces the namespace in one transaction; a later run reuses it *)
(* when the fingerprint is the same.  Reviews and triage read it back page *)
(* by page (threat_context_retrieval.py).                                  *)
(*                                                                         *)
(* A source holds a text, 0 when there is no such file, and may come back  *)
(* to a text it had.  A claim is its kind ([statement, type, disposition]) *)
(* with the scopes it applies to and the sources it comes from.            *)
(***************************************************************************)
EXTENDS Naturals, FiniteSets, Sequences, SequencesExt, FiniteSetsExt

CONSTANTS Sources,        \* the files the patterns may match, numbers
          Cases,          \* [distillations, kinds, commits, builds, edits]: the claims,
                          \* without sources, that a model makes of a text; the kinds it
                          \* may give to claims it merges, {} when they are not merged
                          \* (no model, or no room for them); the git history, lengths of
                          \* message and of paths; bounds on runs and on edits
          Paths,          \* paths that are reviewed, also used as scopes
          PromptLimit,    \* what a history prompt holds
          Processes,      \* processes that initialise the threat model
          PageSize        \* batch_size of iter_records

VARIABLES
    setup,    \* the case of this behaviour
    history,  \* history[s]: the texts of the source so far, the last one now
    store,    \* the repository memory
    commits,  \* transactions that wrote it
    builder,  \* builder[p]: initialize_threat_model_memory of the process
    reader    \* a get_threat_model_context in progress

threatVars == <<setup, history, store, commits, builder, reader>>

text == [s \in Sources |-> Last(history[s])]

-----------------------------------------------------------------------------
(* Repository memory: MemoryService over the SQLite store                    *)
(* (memory/service.py, sqlite_store.py, sqlite_records.py).  A store is its  *)
(* table of records and the rows of its text index, and every operator is    *)
(* one transaction.  A namespace is a sequence of numbers and a key a        *)
(* number, ordered as the code orders strings.                               *)

EmptyStore == [rows |-> {}, index |-> {}]

\* _namespace_startswith
StartsWith(namespace, prefix) == IsPrefix(prefix, namespace)

At(memory, namespace, key) == {r \in memory.rows : r.namespace = namespace /\ r.key = key}

\* get_record
Get(memory, namespace, key) == At(memory, namespace, key)

\* MemoryRecordsTable.delete
Delete(memory, namespace, key) ==
    [rows |-> memory.rows \ At(memory, namespace, key),
     index |-> {i \in memory.index : i.namespace # namespace \/ i.key # key}]

\* _put: created_at is that of the record it replaces.
Put(memory, record, now) ==
    LET old == At(memory, record.namespace, record.key)
    IN  [rows |-> (memory.rows \ old) \cup
                    {[namespace |-> record.namespace, key |-> record.key, value |-> record.value,
                      created |-> IF old = {} THEN now ELSE (CHOOSE r \in old : TRUE).created,
                      updated |-> now]},
         index |-> Delete(memory, record.namespace, record.key).index \cup
                    {[namespace |-> record.namespace, key |-> record.key, text |-> record.value]}]

Under(memory, prefix) == {r \in memory.rows : StartsWith(r.namespace, prefix)}

\* replace_records: everything under the prefix goes and the records come, in one transaction.
Replace(memory, prefix, records, now) ==
    LET cleared == FoldLeft(LAMBDA s, r : Delete(s, r.namespace, r.key), memory,
                            SetToSeq(Under(memory, prefix)))
    IN  FoldLeft(LAMBDA s, r : Put(s, r, now), cleared, records)

\* sort(key=(namespace, key))
Precedes(r, s) ==
    LET a == Append(r.namespace, 0) \o <<r.key>>
        b == Append(s.namespace, 0) \o <<s.key>>
    IN  \E i \in 1..Len(b) : /\ \A j \in 1..(i - 1) : j <= Len(a) /\ a[j] = b[j]
                             /\ i > Len(a) \/ a[i] < b[i]

\* search: the page of limit records from offset.
Search(memory, prefix, limit, offset) ==
    LET all == SetToSortSeq(Under(memory, prefix), Precedes)
    IN  SubSeq(all, offset + 1, Min({offset + limit, Len(all)}))

\* iter_records reads pages, each in a transaction of its own; the last one is short.
LastPage(page, limit) == Len(page) < limit

\* is_fresh, for the records of an earlier snapshot.
IsFresh(record, fingerprint) == record.value.snapshot = fingerprint

-----------------------------------------------------------------------------
Root == <<1>>
Authoritative == <<1, 1>>
Contracts == <<1, 2>>
History == <<1, 3>>
NoText == [s \in Sources |-> 0]
NoBuild == [at |-> "idle", runs |-> 0, fingerprint |-> NoText, seen |-> <<>>, read |-> NoText,
            distilled |-> [s \in Sources |-> {}], contract |-> <<>>, merged |-> FALSE,
            batches |-> <<>>, given |-> <<>>, lessons |-> {}]
NoRead == [at |-> "idle", since |-> 0, path |-> "", said |-> {}, clauses |-> {}, records |-> <<>>,
           texts |-> {}, lessons |-> {}]

ThreatInit ==
    /\ setup \in Cases
    /\ history \in [Sources -> {<<0>>, <<1>>}] /\ store = EmptyStore /\ commits = 0
    /\ builder = [p \in Processes |-> NoBuild] /\ reader = NoRead

\* A source is edited, created or removed at any time, perhaps to a text it had before.
EditSource(s) ==
    /\ MapThenSumSet(LAMBDA x : Len(history[x]) - 1, Sources) < setup.edits
    /\ \E t \in 0..2 \ {text[s]} : history' = [history EXCEPT ![s] = Append(@, t)]
    /\ UNCHANGED <<setup, store, commits, builder, reader>>

-----------------------------------------------------------------------------
(* Claims                                                                    *)

Together(from, more) == from \o SelectSeq(more, LAMBDA x : x \notin ToSet(from))

\* Mutant: a claim that was made before keeps the scopes it had.
DedupeFirst(claims) ==
    LET Known(kept, c) == {i \in DOMAIN kept : kept[i].kind = c.kind}
    IN  FoldLeft(LAMBDA kept, c : IF Known(kept, c) = {} THEN Append(kept, c) ELSE kept, <<>>, claims)

\* _dedupe_distilled_claims: one claim per kind, with all scopes and sources.
Dedupe(claims) ==
    LET Known(kept, c) == {i \in DOMAIN kept : kept[i].kind = c.kind}
        Merge(kept, c) ==
          IF Known(kept, c) = {} THEN Append(kept, c)
          ELSE [kept EXCEPT ![Min(Known(kept, c))].scopes = @ \cup c.scopes,
                            ![Min(Known(kept, c))].from = Together(@, c.from)]
    IN  FoldLeft(Merge, <<>>, claims)

\* The claims of all sources, each with the file it comes from.
ClaimsOf(distilled) ==
    LET Of(s) == SetToSeq({[kind |-> c.kind, scopes |-> c.scopes, from |-> <<s>>] : c \in distilled[s]})
    IN  Dedupe(FoldLeft(LAMBDA all, s : all \o Of(s), <<>>, SetToSortSeq(Sources, <)))

\* Mutant: an answer is taken whatever claims it leaves out.
CompleteAnyhow(claims, answer) == answer # <<>>

\* An answer is a sequence of merged claims [kind, scopes, of], of the indexes
\* of the claims it rests on; it counts only when it leaves no claim out.
Complete(claims, answer) == answer # <<>> /\ UNION {answer[i].of : i \in DOMAIN answer} = DOMAIN claims

\* _model_reduce_source_claim_group: the model's own kind and scopes, with the
\* scopes and the sources of the claims merged.
Reduced(claims, answer) ==
    IF ~Complete(claims, answer) THEN claims
    ELSE Dedupe([i \in DOMAIN answer |->
            [kind |-> answer[i].kind,
             scopes |-> answer[i].scopes \cup UNION {claims[j].scopes : j \in answer[i].of},
             from |-> FoldLeft(LAMBDA f, j : Together(f, claims[j].from), <<>>,
                               SetToSortSeq(answer[i].of, <))]])

\* What the model may merge, and under what.
Merged(claims) == [kind : setup.kinds, scopes : {{}}, of : SUBSET DOMAIN claims \ {{}}]

-----------------------------------------------------------------------------
(* initialize_threat_model_memory                                            *)

\* Mutant: the fingerprint is that of the files when the records are written.
FingerprintAtWrite(p) == text

\* The run ends with an error and leaves the memory as it was.
Failed(p) == [NoBuild EXCEPT !.at = "failed", !.runs = builder[p].runs]

\* snapshot_fp, computed before anything is read.
SnapshotFingerprint(p) == builder[p].fingerprint

BeginBuild(p) ==
    /\ builder[p].at \in {"idle", "reused", "written", "failed"}
    /\ MapThenSumSet(LAMBDA q : builder[q].runs, Processes) < setup.builds
    /\ builder' = [builder EXCEPT ![p] = [NoBuild EXCEPT !.at = "look", !.fingerprint = text,
                                                        !.runs = builder[p].runs + 1]]
    /\ UNCHANGED <<setup, history, store, commits, reader>>

\* list(service.iter_records(...)), a page at a time.
LookAtRecords(p) ==
    LET b == builder[p]
        page == Search(store, Root, PageSize, Len(b.seen))
        seen == b.seen \o page
        reusable == /\ seen # <<>>
                    /\ \A i \in DOMAIN seen :
                         /\ IsFresh(seen[i], b.fingerprint)
                         /\ seen[i].namespace = Authoritative => seen[i].value.body # {}
    IN  /\ b.at = "look"
        /\ builder' = [builder EXCEPT ![p].seen = IF LastPage(page, PageSize) /\ ~reusable THEN <<>> ELSE seen,
                         ![p].at = CASE ~LastPage(page, PageSize) -> "look"
                                     [] reusable -> "reused" [] OTHER -> "read"]
        /\ UNCHANGED <<setup, history, store, commits, reader>>

ToRead(b) == {s \in Sources : b.fingerprint[s] # 0 /\ b.read[s] = 0}

\* _prepare_threat_source: a file that cannot be read, or whose distillation
\* fails, ends the run; no answer leaves the source without claims.
PrepareSource(p, ds) ==
    LET b == builder[p]
        s == CHOOSE x \in ToRead(b) : \A y \in ToRead(b) : x <= y
    IN  /\ b.at = "read" /\ ToRead(b) # {}
        /\ builder' = IF text[s] = 0 THEN [builder EXCEPT ![p] = Failed(p)]
                      ELSE [builder EXCEPT ![p].read[s] = text[s], ![p].distilled[s] = ds]
        /\ UNCHANGED <<setup, history, store, commits, reader>>

DistillationFails(p) ==
    /\ builder[p].at = "read" /\ ToRead(builder[p]) # {}
    /\ builder' = [builder EXCEPT ![p] = Failed(p)]
    /\ UNCHANGED <<setup, history, store, commits, reader>>

\* The history as one batch of whole commits, when it is enabled.
WholeHistory == [i \in DOMAIN setup.commits |->
                   [index |-> i, message |-> <<0, setup.commits[i].message>>,
                    paths |-> <<0, setup.commits[i].paths>>]]

ReduceClaims(p, answer) ==
    LET b == builder[p]
        claims == ClaimsOf(b.distilled)
    IN  /\ b.at = "read" /\ ToRead(b) = {}
        /\ builder' = [builder EXCEPT ![p].contract = Reduced(claims, answer),
                         ![p].merged = Complete(claims, answer),
                         ![p].batches = IF setup.commits = <<>> THEN <<>> ELSE <<WholeHistory>>,
                         ![p].at = "history"]
    /\ UNCHANGED <<setup, history, store, commits, reader>>

-----------------------------------------------------------------------------
(* _distill_history                                                          *)

Span(r) == r[2] - r[1]
FirstPart(r) == <<r[1], r[1] + Span(r) \div 2>>

\* Mutant: the second part starts one position late.
SecondPartLate(r) == <<r[1] + Span(r) \div 2 + 1, r[2]>>

SecondPart(r) == <<r[1] + Span(r) \div 2, r[2]>>
Size(batch) == FoldLeft(LAMBDA n, f : n + Span(f.message) + Span(f.paths), 0, batch)

\* A batch that is too large is cut: between commits, then a commit's message
\* from its paths, then either in the middle.
Halves(batch) ==
    LET middle == Len(batch) \div 2
        f == batch[1]
        None(r) == <<r[2], r[2]>>
    IN  CASE Len(batch) > 1 -> <<SubSeq(batch, 1, middle), SubSeq(batch, middle + 1, Len(batch))>>
          [] Span(f.message) > 0 /\ Span(f.paths) > 0 ->
               << <<[f EXCEPT !.paths = None(@)]>>, <<[f EXCEPT !.message = None(@)]>> >>
          [] Span(f.message) > 1 /\ Span(f.paths) = 0 ->
               << <<[f EXCEPT !.message = FirstPart(@)]>>, <<[f EXCEPT !.message = SecondPart(@)]>> >>
          [] Span(f.message) = 0 /\ Span(f.paths) > 1 ->
               << <<[f EXCEPT !.paths = FirstPart(@)]>>, <<[f EXCEPT !.paths = SecondPart(@)]>> >>
          [] OTHER -> <<>>

SplitBatch(p) ==
    LET b == builder[p] IN
    /\ b.at = "history" /\ b.batches # <<>> /\ Size(Head(b.batches)) > PromptLimit
    /\ builder' = IF Halves(Head(b.batches)) = <<>> THEN [builder EXCEPT ![p] = Failed(p)]
                  ELSE [builder EXCEPT ![p].batches = Halves(Head(b.batches)) \o Tail(b.batches)]
    /\ UNCHANGED <<setup, history, store, commits, reader>>

\* _dedupe_history_lessons: one lesson per statement.
WithLesson(lessons, l) ==
    LET same == {k \in lessons : k.statement = l.statement}
    IN  (lessons \ same) \cup {[statement |-> l.statement, scopes |-> UNION {k.scopes : k \in same \cup {l}},
                                from |-> UNION {k.from : k \in same \cup {l}}]}

\* One prompt: a lesson may only cite commits that the prompt showed.
DistillBatch(p, answer) ==
    LET b == builder[p]
        batch == Head(b.batches)
        shown == {batch[i].index : i \in DOMAIN batch}
    IN  /\ b.at = "history" /\ b.batches # <<>> /\ Size(batch) <= PromptLimit
        /\ builder' = IF \A l \in answer : l.from \subseteq shown
                      THEN [builder EXCEPT ![p].batches = Tail(b.batches), ![p].given = @ \o batch,
                                           ![p].lessons = FoldSet(LAMBDA l, all : WithLesson(all, l), @, answer)]
                      ELSE [builder EXCEPT ![p] = Failed(p)]
        /\ UNCHANGED <<setup, history, store, commits, reader>>

-----------------------------------------------------------------------------
(* The snapshot replaces the namespace                                       *)

\* What of a value no record holds in the code, and no action reads: the texts
\* it was distilled from, and whether its claims were merged.
Record(p, namespace, key, body) ==
    [namespace |-> namespace, key |-> key,
     value |-> [snapshot |-> SnapshotFingerprint(p), body |-> body,
                read |-> builder[p].read, merged |-> builder[p].merged]]

\* The scope clauses of a contract, each with its first source.
Compiled(kind) ==
    /\ kind.type \in {"scope_rule", "caller_contract", "analysis_policy"}
    /\ kind.disposition \in {"out_of_scope", "integration_risk", "advisory"}
ContractOf(claims) ==
    [said |-> {c.kind : c \in ToSet(claims)},
     clauses |-> {[kind |-> c.kind, scopes |-> c.scopes, source |-> c.from[1]] :
                     c \in {d \in ToSet(claims) : Compiled(d.kind)}}]

\* _write_threat_source_record, _write_authoritative_contract_record and
\* write_history_records; a record of its own stands for an empty snapshot.
Records(p) ==
    LET b == builder[p]
        of == SetToSortSeq({s \in Sources : b.read[s] # 0}, <)
        sources == [i \in DOMAIN of |-> Record(p, Authoritative, of[i], b.distilled[of[i]])]
        contract == IF b.contract = <<>> THEN <<>> ELSE <<Record(p, Contracts, 1, {ContractOf(b.contract)})>>
        told == SetToSeq(b.lessons)
        lessons == [i \in DOMAIN told |-> Record(p, History, i, {told[i]})]
        all == sources \o contract \o lessons
    IN  IF all = <<>> THEN <<Record(p, Root, 1, {})>> ELSE all

WriteSnapshot(p) ==
    /\ builder[p].at = "history" /\ builder[p].batches = <<>>
    /\ store' = Replace(store, Root, Records(p), commits + 1) /\ commits' = commits + 1
    /\ builder' = [builder EXCEPT ![p] = [NoBuild EXCEPT !.at = "written", !.runs = builder[p].runs]]
    /\ UNCHANGED <<setup, history, reader>>

-----------------------------------------------------------------------------
(* get_threat_model_context and threat_model_scope_policy                    *)

\* _scope_applies_to_path, and the lessons of a record
AppliesTo(scopes, path) == scopes = {} \/ "repository" \in scopes \/ path \in scopes
Concerns(record, path) == \E lesson \in record.value.body : AppliesTo(lesson.scopes, path)

\* _clause_authorizes_automatic_filter: repository-wide exclusion is for
\* analysis policies alone, and other rules must name the path.
Excludes(c, path) ==
    /\ c.kind.disposition = "out_of_scope"
    /\ \/ c.kind.type = "analysis_policy" /\ "repository" \in c.scopes
       \/ /\ c.kind.type \in {"analysis_policy", "scope_rule"}
          /\ "repository" \notin c.scopes /\ path \in c.scopes

\* threat_model_scope_policy
PolicyFor(context) == {c \in context.clauses : Excludes(c, context.path)}

\* The contract in one transaction, ...
ReadContract(path) ==
    LET contract == UNION {r.value.body : r \in Get(store, Contracts, 1)}
    IN  /\ reader.at = "idle" /\ store.rows # {}
        /\ reader' = [NoRead EXCEPT !.at = "sources", !.since = commits, !.path = path,
                        !.said = UNION {c.said : c \in contract},
                        !.clauses = UNION {c.clauses : c \in contract}]
        /\ UNCHANGED <<setup, history, store, commits, builder>>

\* ... then the sources without claims, a page of all records at a time, ...
ReadSources ==
    LET page == Search(store, Root, PageSize, Len(reader.records))
    IN  /\ reader.at = "sources"
        /\ reader' = [reader EXCEPT
                        !.records = IF LastPage(page, PageSize) THEN <<>> ELSE @ \o page,
                        !.texts = @ \cup {r.key : r \in {x \in ToSet(page) :
                                              x.namespace = Authoritative /\ x.value.body = {}}},
                        !.at = IF LastPage(page, PageSize) THEN "lessons" ELSE "sources"]
        /\ UNCHANGED <<setup, history, store, commits, builder>>

\* ... and the lessons that concern the path.
ReadLessons ==
    LET page == Search(store, History, PageSize, Len(reader.records))
    IN  /\ reader.at = "lessons"
        /\ reader' = [reader EXCEPT
                        !.records = @ \o page,
                        !.lessons = @ \cup {r.key : r \in {x \in ToSet(page) : Concerns(x, reader.path)}},
                        !.at = IF LastPage(page, PageSize) THEN "done" ELSE "lessons"]
        /\ UNCHANGED <<setup, history, store, commits, builder>>

EndRead == /\ reader.at = "done" /\ reader' = NoRead
           /\ UNCHANGED <<setup, history, store, commits, builder>>

ThreatDone == \A p \in Processes : builder[p].at \in {"idle", "reused", "written", "failed"}

\* The lessons a model may draw, of two statements.
Lessons == [statement : 1..2, scopes : {{path} : path \in Paths}, from : {{i} : i \in DOMAIN setup.commits}]

ThreatNext ==
    \/ \E s \in Sources : EditSource(s)
    \/ \E p \in Processes :
         \/ BeginBuild(p) \/ LookAtRecords(p) \/ DistillationFails(p) \/ SplitBatch(p) \/ WriteSnapshot(p)
         \/ \E ds \in setup.distillations : PrepareSource(p, ds)
         \/ \E answer \in SeqOf(Merged(ClaimsOf(builder[p].distilled)), 2) : ReduceClaims(p, answer)
         \/ \E answer \in {{}} \cup {{l} : l \in Lessons} : DistillBatch(p, answer)
    \/ (\E path \in Paths : ReadContract(path)) \/ ReadSources \/ ReadLessons \/ EndRead

ThreatSpec == ThreatInit /\ [][ThreatNext \/ (ThreatDone /\ UNCHANGED threatVars)]_threatVars

-----------------------------------------------------------------------------
(***************************************************************************)
(* A snapshot that a run reuses was distilled from the texts the run       *)
(* fingerprinted, or from texts that came after those:                     *)
(* initialize_threat_model_memory takes the fingerprint before it reads    *)
(* the sources, so an edit in between makes the next run build again       *)
(* instead of keeping stale claims - unless the edit was undone, and the   *)
(* fingerprint is again that of the text before it.                        *)
(***************************************************************************)
ReusedIsNotStale ==
    \A p \in Processes : builder[p].at = "reused" =>
        \A i \in DOMAIN builder[p].seen : \A s \in Sources :
            LET read == builder[p].seen[i].value.read[s]
                wanted == builder[p].fingerprint[s]
            IN  \/ read = wanted
                \/ \E j, k \in DOMAIN history[s] : j < k /\ history[s][j] = wanted /\ history[s][k] = read

(***************************************************************************)
(* Nothing a source said is lost between it and the contract: every claim  *)
(* of every source has a claim of the contract with at least its scopes    *)
(* that names the source, whatever kind the model gave it (the provenance  *)
(* check of _model_reduce_source_claim_group, and the deduplications       *)
(* before and after it).                                                   *)
(***************************************************************************)
ProvenanceIsKept ==
    \A p \in Processes : builder[p].at = "history" =>
        \A s \in Sources : \A c \in builder[p].distilled[s] : \E d \in ToSet(builder[p].contract) :
            /\ c.scopes \subseteq d.scopes /\ s \in ToSet(d.from)
            /\ ~builder[p].merged => d.kind = c.kind

(***************************************************************************)
(* A context for a path that no process replaced underneath it is that of  *)
(* the snapshot: each source is there as text or through the contract,     *)
(* each lesson that concerns the path is there, and an exclusion cites a   *)
(* source of the snapshot.  Unless the model merged claims under kinds of  *)
(* its own, the path is excluded when a source says in an analysis policy  *)
(* that it is, and only when some source does: compiling the clauses,      *)
(* which joins the scopes of claims that agree, adds no exclusion and      *)
(* loses none of a policy.                                                 *)
(***************************************************************************)
ContextIsComplete ==
    reader.at = "done" /\ reader.since = commits =>
        LET sources == {r \in store.rows : r.namespace = Authoritative}
            claims == UNION {r.value.body : r \in sources}
            merged == \E r \in store.rows : r.value.merged
        IN  /\ reader.texts = {r.key : r \in {x \in sources : x.value.body = {}}}
            /\ claims # {} => reader.said # {}
            /\ reader.lessons = {r.key : r \in {x \in store.rows : x.namespace = History /\ Concerns(x, reader.path)}}
            /\ \A c \in PolicyFor(reader) : \E r \in sources : r.key = c.source /\ r.value.body # {}
            /\ ~merged =>
                 /\ {c.kind : c \in claims} = reader.said
                 /\ PolicyFor(reader) # {} => \E c \in claims : Excludes(c, reader.path)
                 /\ (\E c \in claims : c.kind.type = "analysis_policy" /\ Excludes(c, reader.path))
                      => PolicyFor(reader) # {}

(***************************************************************************)
(* A snapshot is written from the whole history: every part of every       *)
(* commit's message and list of paths was in exactly one prompt, however   *)
(* the batches had to be cut, and lessons cite only commits (the splitting *)
(* of _distill_history).                                                   *)
(***************************************************************************)
HistoryIsReadWhole ==
    \A p \in Processes : builder[p].at = "history" /\ builder[p].batches = <<>> =>
        LET given == builder[p].given
            Shown(i, j, Part(_)) == Cardinality({k \in DOMAIN given :
                given[k].index = i /\ Part(given[k])[1] <= j /\ j < Part(given[k])[2]})
            Message(f) == f.message
            PathList(f) == f.paths
        IN  \A i \in DOMAIN setup.commits :
              /\ \A j \in 0..(setup.commits[i].message - 1) : Shown(i, j, Message) = 1
              /\ \A j \in 0..(setup.commits[i].paths - 1) : Shown(i, j, PathList) = 1
=============================================================================
