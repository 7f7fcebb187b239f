------------------------ MODULE ReviewPipelineProofs ------------------------
(****************************************************************************)
(* The components of the review and triage pipeline, for every value of     *)
(* their constants: file review and its checkpoints, generated artifacts    *)
(* and snapshots, the triage of a finding, the triage stage and its store,  *)
(* the code graph service, the parser pool and the findings of a packet.    *)
(* Each part has an inductive invariant, the steps that keep it, and its    *)
(* theorem.                                                                 *)
(****************************************************************************)
EXTENDS MCReviewPipeline, Integers, FiniteSetTheorems, SequenceTheorems, WellFoundedInduction, TLAPS

LEMMA ComponentSteps ==
    ASSUME [Next]_vars
    PROVE  /\ component' = component
           /\ component = "simple" => Simple!Next \/ UNCHANGED simpleVars
           /\ component = "files" => Files!FileNext \/ UNCHANGED filesVars
           /\ component = "work" => Work!WorkNext \/ UNCHANGED workVars
           /\ component = "stage" => Stage!Next \/ UNCHANGED stageVars
           /\ component = "store" => Store!StoreNext \/ UNCHANGED storeVars
           /\ component = "service" => Service!GraphNext \/ UNCHANGED serviceVars
           /\ component = "parse" => Parse!ParseNext \/ UNCHANGED parseVars
           /\ component = "packet" => Packet!PacketNext \/ UNCHANGED packetVars
BY DEF Next, vars, SimpleStep, FilesStep, WorkStep, StageStep, StoreStep, ServiceStep, ParseStep, PacketStep

-----------------------------------------------------------------------------
(* File review.  Whatever an answer was computed from is in its evidence,  *)
(* or the evidence is marked invalid and the answer is not kept; a file    *)
(* that fell through is among the failures.                                *)

JobPlaces == {"todo", "missed", "replay", "cached", "read", "chunks", "put", "done", "failed",
              "cancelled"}
Reads == ToolPlaces \X Nat
CheckpointRecord == [mode : {"files", "patch"}, file : ReviewFiles, text : Nat,
                     seen : SUBSET Reads, evidence : Seq(Reads)]
JobRecord == [at : JobPlaces, text : Nat, left : Int, seen : SUBSET Reads,
              evidence : Seq(Reads) \cup {Simple!Invalid},
              record : CheckpointRecord \cup {Simple!NoRecord}, since : [ToolPlaces -> Nat]]
AnswerRecord == [text : Nat, seen : SUBSET Reads]

SimpleTyped ==
    /\ content \in [ReviewFiles -> Nat] /\ tree \in [ToolPlaces -> Nat]
    /\ simpleMode \in {"files", "patch"} /\ streaming \in BOOLEAN /\ refused \in BOOLEAN
    /\ simplePhase \in {"down", "cached", "review", "returned"}
    /\ work \in [ReviewFiles -> JobRecord]
    /\ answers \in [ReviewFiles -> AnswerRecord]

(* Everything the tools showed is in the evidence, if there are tools. *)
Evident(x) ==
    IF Tools = "navigation" THEN \A v \in x.seen : \E i \in DOMAIN x.evidence : x.evidence[i] = v
    ELSE x.seen = {}

RecordsSound == \A r \in simpleDisk \cup records : r \in CheckpointRecord /\ Evident(r)

EvidenceSound(f) ==
    /\ work[f].evidence = Simple!Invalid \/ Evident(work[f])
    /\ work[f].at = "put" => work[f].evidence # Simple!Invalid
    /\ Tools # "navigation" => work[f].seen = {}
    /\ writing = f => work[f].at = "put"

(* A job that makes the calls of a record again has its text, and every    *)
(* call made so far gave what the codebase showed since the lookup.        *)
Confirmed(x, now) ==
    /\ x.record \in CheckpointRecord /\ Evident(x.record) /\ x.record.text = x.text
    /\ x.left \in Nat /\ x.left <= Len(x.record.evidence)
    /\ \A p \in ToolPlaces : x.since[p] <= now[p]
    /\ \A i \in 1..x.left :
          x.record.evidence[i][2] \in x.since[x.record.evidence[i][1]]..now[x.record.evidence[i][1]]
ReplaySound(f) == work[f].at = "replay" => Confirmed(work[f], tree) /\ ~streaming

FateRecorded(f) ==
    /\ work[f].at = "failed" => f \in failures
    /\ work[f].at = "cancelled" => refused
    /\ ~streaming /\ answers[f] # Simple!NoAnswer => work[f].at \in {"put", "done", "cached"}
    /\ simplePhase = "down" => work[f].at = "todo"
    /\ simplePhase = "cached" => work[f].at \in {"todo", "missed", "replay", "cached"}
    /\ simplePhase = "returned" => work[f].at \in Simple!Ended

JobIsSound(f) == EvidenceSound(f) /\ ReplaySound(f) /\ FateRecorded(f)

SimpleInv ==
    /\ SimpleTyped /\ RecordsSound
    /\ \A f \in ReviewFiles : JobIsSound(f)
    /\ refused => failures # {}
    /\ Simple!StatusFaithful

LEMMA IdleJob ==
    /\ Simple!Idle \in JobRecord /\ Simple!Idle.at = "todo"
    /\ Simple!Idle.seen = {} /\ Simple!Idle.evidence = <<>>
    /\ Simple!NoAnswer \in AnswerRecord
<1>1. <<>> \in Seq(Reads)
  OBVIOUS
<1>2. Simple!Idle \in JobRecord
  BY <1>1 DEF Simple!Idle, JobRecord, JobPlaces
<1>3. Simple!NoAnswer \in AnswerRecord
  BY ReviewAssumption DEF Simple!NoAnswer, AnswerRecord
<1> QED
  BY <1>2, <1>3 DEF Simple!Idle

LEMMA OverJob ==
    ASSUME NEW where \in JobPlaces
    PROVE  /\ Simple!Over(where) \in JobRecord /\ Simple!Over(where).at = where
           /\ Simple!Over(where).seen = {} /\ Simple!Over(where).evidence = <<>>
BY IdleJob DEF Simple!Over, Simple!Idle, JobRecord

LEMMA InvalidEvidence == Simple!Invalid # <<>>
BY DEF Simple!Invalid

LEMMA JobTyped ==
    ASSUME SimpleInv, NEW f \in ReviewFiles
    PROVE  /\ work \in [ReviewFiles -> JobRecord] /\ work[f] \in JobRecord
           /\ work[f].left \in Int /\ work[f].text \in Nat /\ work[f].at \in JobPlaces
           /\ work[f].evidence \in Seq(Reads) \cup {Simple!Invalid} /\ work[f].seen \subseteq Reads
           /\ content \in [ReviewFiles -> Nat] /\ tree \in [ToolPlaces -> Nat]
           /\ answers \in [ReviewFiles -> AnswerRecord] /\ refused \in BOOLEAN
           /\ refused => failures # {}
           /\ EvidenceSound(f) /\ ReplaySound(f) /\ FateRecorded(f) /\ RecordsSound
<1>1. work \in [ReviewFiles -> JobRecord] /\ work[f] \in JobRecord
  BY DEF SimpleInv, SimpleTyped
<1>2. /\ work[f].left \in Int /\ work[f].text \in Nat /\ work[f].at \in JobPlaces
      /\ work[f].evidence \in Seq(Reads) \cup {Simple!Invalid} /\ work[f].seen \subseteq Reads
  BY <1>1 DEF JobRecord
<1> QED
  BY <1>1, <1>2 DEF SimpleInv, SimpleTyped, JobIsSound

(* All jobs and answers are new. *)
LEMMA AllNew ==
    ASSUME work' = [f \in ReviewFiles |-> Simple!Idle],
           answers' = [f \in ReviewFiles |-> Simple!NoAnswer],
           refused' = FALSE, writing' = "nobody", simplePhase' \in {"down", "cached"},
           streaming' \in BOOLEAN, simpleMode' \in {"files", "patch"}, RecordsSound',
           content' \in [ReviewFiles -> Nat], tree' \in [ToolPlaces -> Nat]
    PROVE  SimpleInv'
<1>1. SimpleTyped'
  BY IdleJob DEF SimpleTyped
<1>2. ASSUME NEW f \in ReviewFiles PROVE JobIsSound(f)'
  <2>1. work'[f] = Simple!Idle /\ answers'[f] = Simple!NoAnswer
    OBVIOUS
  <2>2. Evident(work[f])'
    BY <2>1, IdleJob DEF Evident
  <2>3. EvidenceSound(f)'
    BY <2>1, <2>2, IdleJob, InvalidEvidence, ReviewAssumption DEF EvidenceSound
  <2>4. FateRecorded(f)' /\ ReplaySound(f)'
    BY <2>1, IdleJob DEF FateRecorded, ReplaySound
  <2> QED
    BY <2>3, <2>4 DEF JobIsSound
<1>3. Simple!StatusFaithful'
  BY DEF Simple!StatusFaithful
<1> QED
  BY <1>1, <1>2, <1>3 DEF SimpleInv

LEMMA SimpleInitial == Simple!Init => SimpleInv
<1> SUFFICES ASSUME Simple!Init PROVE SimpleInv
  OBVIOUS
<1>0. /\ content \in [ReviewFiles -> {0, 1}] /\ tree = [p \in ToolPlaces |-> 0]
      /\ simpleDisk = {} /\ records = {} /\ simpleMode = "files"
      /\ simplePhase = "down" /\ streaming = FALSE /\ refused = FALSE /\ writing = "nobody"
      /\ work = [f \in ReviewFiles |-> Simple!Idle]
      /\ answers = [f \in ReviewFiles |-> Simple!NoAnswer]
  BY DEF Simple!Init
<1>1. SimpleTyped
  <2>1. content \in [ReviewFiles -> Nat] /\ tree \in [ToolPlaces -> Nat]
    BY <1>0
  <2>2. work \in [ReviewFiles -> JobRecord] /\ answers \in [ReviewFiles -> AnswerRecord]
    BY <1>0, IdleJob
  <2> QED
    BY <1>0, <2>1, <2>2 DEF SimpleTyped
<1>2. ASSUME NEW f \in ReviewFiles PROVE JobIsSound(f)
  <2>1. work[f] = Simple!Idle /\ answers[f] = Simple!NoAnswer
    BY <1>0
  <2>2. Evident(work[f])
    BY <2>1, IdleJob DEF Evident
  <2>3. EvidenceSound(f)
    BY <1>0, <2>1, <2>2, IdleJob, InvalidEvidence, ReviewAssumption DEF EvidenceSound
  <2>4. FateRecorded(f) /\ ReplaySound(f)
    BY <1>0, <2>1, IdleJob DEF FateRecorded, ReplaySound
  <2> QED
    BY <2>3, <2>4 DEF JobIsSound
<1>3. Simple!StatusFaithful /\ RecordsSound
  BY <1>0 DEF Simple!StatusFaithful, RecordsSound
<1> QED
  BY <1>0, <1>1, <1>2, <1>3 DEF SimpleInv

(* A step of one job, while the review runs: the other jobs stay sound. *)
LEMMA JobChanges ==
    ASSUME SimpleInv, NEW f \in ReviewFiles, NEW j \in JobRecord,
           work' = [work EXCEPT ![f] = j],
           UNCHANGED <<content, tree, simpleMode, streaming, simplePhase>>,
           simplePhase # "returned",
           RecordsSound', refused' \in BOOLEAN, refused => refused', failures \subseteq failures',
           refused' => failures' # {},
           answers' \in [ReviewFiles -> AnswerRecord],
           \A g \in ReviewFiles \ {f} : answers'[g] = answers[g],
           \A g \in ReviewFiles \ {f} : writing' = g => writing = g,
           JobIsSound(f)'
    PROVE  SimpleInv'
<1>1. SimpleTyped'
  BY DEF SimpleInv, SimpleTyped
<1>2. ASSUME NEW g \in ReviewFiles, g # f PROVE JobIsSound(g)'
  <2>1. work'[g] = work[g] /\ answers'[g] = answers[g]
    BY <1>2 DEF SimpleInv, SimpleTyped
  <2>2. EvidenceSound(g) /\ FateRecorded(g) /\ ReplaySound(g)
    BY DEF SimpleInv, JobIsSound
  <2>3. EvidenceSound(g)'
    BY <1>2, <2>1, <2>2 DEF EvidenceSound, Evident, Simple!Invalid
  <2>4. FateRecorded(g)'
    BY <2>1, <2>2 DEF FateRecorded
  <2>5. ReplaySound(g)'
    BY <2>1, <2>2 DEF ReplaySound
  <2> QED
    BY <2>3, <2>4, <2>5 DEF JobIsSound
<1>3. Simple!StatusFaithful'
  BY DEF Simple!StatusFaithful
<1> QED
  BY <1>1, <1>2, <1>3 DEF SimpleInv

(* A step that moves a job on, keeping what it has seen or starting afresh. *)
LEMMA JobMoves ==
    ASSUME SimpleInv, NEW f \in ReviewFiles, NEW j \in JobRecord,
           work' = [work EXCEPT ![f] = j],
           \/ j.seen = work[f].seen /\ j.evidence = work[f].evidence
           \/ j.seen = {} /\ j.evidence = <<>>,
           UNCHANGED <<content, tree, simpleMode, simpleDisk, records, streaming, simplePhase, writing>>,
           simplePhase # "returned", simplePhase # "down", work[f].at # "put",
           simplePhase = "cached" => j.at \in {"missed", "replay", "cached"},
           refused' \in BOOLEAN, refused => refused', failures \subseteq failures',
           refused' => failures' # {},
           answers' \in [ReviewFiles -> AnswerRecord],
           \A g \in ReviewFiles \ {f} : answers'[g] = answers[g],
           j.at = "put" => j.evidence # Simple!Invalid,
           j.at = "replay" => Confirmed(j, tree) /\ ~streaming,
           j.at = "failed" => f \in failures', j.at = "cancelled" => refused',
           ~streaming /\ answers'[f] # Simple!NoAnswer => j.at \in {"put", "done", "cached"}
    PROVE  SimpleInv'
<1>1. work'[f] = j
  BY JobTyped
<1>2. EvidenceSound(f) /\ RecordsSound
  BY JobTyped
<1>3. j.evidence = Simple!Invalid \/ Evident(j)
  <2>1. CASE j.seen = {} /\ j.evidence = <<>>
    BY <2>1 DEF Evident
  <2>2. CASE j.seen = work[f].seen /\ j.evidence = work[f].evidence
    BY <1>2, <2>2 DEF Evident, EvidenceSound
  <2> QED
    BY <2>1, <2>2
<1>4. Tools # "navigation" => j.seen = {}
  BY <1>2 DEF EvidenceSound
<1>5. writing' # f
  BY <1>2 DEF EvidenceSound
<1>6. EvidenceSound(f)'
  BY <1>1, <1>3, <1>4, <1>5 DEF EvidenceSound, Evident, Simple!Invalid
<1>7. FateRecorded(f)'
  BY <1>1 DEF FateRecorded
<1>8. ReplaySound(f)'
  BY <1>1 DEF ReplaySound
<1>9. RecordsSound'
  BY <1>2 DEF RecordsSound, Evident
<1>10. JobIsSound(f)'
  BY <1>6, <1>7, <1>8 DEF JobIsSound
<1> QED
  BY <1>9, <1>10, JobChanges

(* What is the same after a step that leaves outcome and session alone. *)
LEMMA QuietMove ==
    ASSUME SimpleInv, NEW f \in ReviewFiles, NEW j \in JobRecord,
           work' = [work EXCEPT ![f] = j],
           \/ j.seen = work[f].seen /\ j.evidence = work[f].evidence
           \/ j.seen = {} /\ j.evidence = <<>>,
           UNCHANGED <<simpleDisk, simplePhase, simpleMode, streaming>>,
           UNCHANGED Simple!outcome, UNCHANGED Simple!sources, UNCHANGED Simple!session,
           work[f].at \in {"todo", "replay", "read", "chunks"},
           simplePhase \in {"cached", "review"},
           simplePhase = "cached" => j.at \in {"missed", "replay"},
           j.at \notin {"put", "failed"},
           j.at = "replay" => Confirmed(j, tree) /\ ~streaming,
           j.at = "cancelled" => refused
    PROVE  SimpleInv'
<1>1. /\ UNCHANGED <<content, tree, simpleMode, simpleDisk, records, streaming, simplePhase,
                     writing, answers, failures, refused>>
  BY DEF Simple!outcome, Simple!sources, Simple!session
<1>2. /\ answers \in [ReviewFiles -> AnswerRecord] /\ refused \in BOOLEAN /\ FateRecorded(f)
      /\ refused => failures # {}
  BY JobTyped
<1>3. ~streaming => answers[f] = Simple!NoAnswer
  BY <1>2 DEF FateRecorded
<1>4. /\ simplePhase # "returned" /\ simplePhase # "down" /\ work[f].at # "put"
      /\ simplePhase = "cached" => j.at \in {"missed", "replay", "cached"}
      /\ j.at # "put" /\ j.at # "failed"
  OBVIOUS
<1>5. /\ refused' \in BOOLEAN /\ (refused => refused') /\ failures \subseteq failures'
      /\ (refused' => failures' # {}) /\ answers' \in [ReviewFiles -> AnswerRecord]
      /\ \A g \in ReviewFiles \ {f} : answers'[g] = answers[g]
      /\ j.at = "cancelled" => refused'
      /\ ~(~streaming /\ answers'[f] # Simple!NoAnswer)
  BY <1>1, <1>2, <1>3
<1> QED
  BY <1>1, <1>4, <1>5, JobMoves, Zenon

(* ... and ends the job, or gives it up. *)
LEMMA QuietOver ==
    ASSUME SimpleInv, NEW f \in ReviewFiles, NEW where \in {"missed", "done", "cancelled"},
           work' = [work EXCEPT ![f] = Simple!Over(where)],
           UNCHANGED <<simpleDisk, simplePhase, simpleMode, streaming>>,
           UNCHANGED Simple!outcome, UNCHANGED Simple!sources, UNCHANGED Simple!session,
           work[f].at \in {"todo", "replay", "read", "chunks"},
           simplePhase \in {"cached", "review"}, simplePhase = "cached" => where = "missed",
           where = "cancelled" => refused
    PROVE  SimpleInv'
<1>1. where \in JobPlaces
  BY DEF JobPlaces
<1> DEFINE j == Simple!Over(where)
<1>2. j \in JobRecord /\ j.at = where /\ j.seen = {} /\ j.evidence = <<>>
  BY <1>1, OverJob
<1>3. work' = [work EXCEPT ![f] = j]
  OBVIOUS
<1> HIDE DEF j
<1>4. /\ j.at \notin {"put", "failed"} /\ ~(j.at = "replay")
      /\ simplePhase = "cached" => j.at \in {"missed", "replay"}
      /\ j.at = "cancelled" => refused
  BY <1>2
<1> QED
  BY <1>2, <1>3, <1>4, QuietMove

LEMMA RunningJob ==
    ASSUME SimpleInv, NEW f \in ReviewFiles
    PROVE  /\ work[f].at \in {"read", "chunks", "put"} => simplePhase = "review"
           /\ work[f].at = "replay" => simplePhase \in {"cached", "review"}
<1>1. FateRecorded(f) /\ SimpleTyped
  BY DEF SimpleInv, JobIsSound
<1> QED
  BY <1>1 DEF FateRecorded, SimpleTyped, Simple!Ended

(* A record is found by the text of the file, and nothing is made again yet. *)
LEMMA LookupKeeps ==
    ASSUME SimpleInv, NEW f \in ReviewFiles, Simple!Lookup(f) PROVE SimpleInv'
<1>1. PICK r \in Simple!RecordsOf(f, content[f]) :
        work' = [work EXCEPT ![f] = [Simple!Idle EXCEPT !.at = "replay", !.text = content[f],
                                                        !.record = r, !.since = tree]]
  BY DEF Simple!Lookup
<1> DEFINE j == [Simple!Idle EXCEPT !.at = "replay", !.text = content[f], !.record = r, !.since = tree]
<1>2. r \in records /\ r.text = content[f] /\ ~streaming
  BY DEF Simple!RecordsOf, Simple!Checkpointed
<1>3. r \in CheckpointRecord /\ Evident(r)
  BY <1>2, JobTyped DEF RecordsSound
<1>4. content[f] \in Nat /\ tree \in [ToolPlaces -> Nat]
  BY JobTyped
<1>5. /\ j \in JobRecord /\ j.at = "replay" /\ j.text = content[f] /\ j.left = 0 /\ j.record = r
      /\ j.since = tree /\ j.seen = {} /\ j.evidence = <<>>
  BY <1>3, <1>4, IdleJob DEF JobRecord, JobPlaces, Simple!Idle
<1>6. work' = [work EXCEPT ![f] = j]
  BY <1>1
<1> HIDE DEF j
<1>7. r.evidence \in Seq(Reads)
  BY <1>3 DEF CheckpointRecord
<1>8. Confirmed(j, tree)
  <2>1. Len(r.evidence) \in Nat /\ 0 <= Len(r.evidence)
    BY <1>7
  <2>2. \A p \in ToolPlaces : tree[p] <= tree[p]
    BY <1>4
  <2>3. 1..0 = {}
    OBVIOUS
  <2> QED
    BY <1>2, <1>3, <1>5, <2>1, <2>2, <2>3 DEF Confirmed
<1>9. work[f].at = "todo" /\ simplePhase \in {"cached", "review"}
  BY DEF Simple!Lookup, Simple!LooksUp, Simple!Open
<1> QED
  BY <1>2, <1>5, <1>6, <1>8, <1>9, QuietMove DEF Simple!Lookup

(* One more call of the record gave what it gave before. *)
LEMMA ReplayKeeps ==
    ASSUME SimpleInv, NEW f \in ReviewFiles, Simple!Replay(f) PROVE SimpleInv'
<1> DEFINE j == [work[f] EXCEPT !.left = work[f].left + 1]
           evidence == work[f].record.evidence
           n == work[f].left + 1
<1>1. /\ work[f].at = "replay" /\ n <= Len(evidence) /\ tree[evidence[n][1]] = evidence[n][2]
      /\ work' = [work EXCEPT ![f] = j]
  BY DEF Simple!Replay
<1>2. Confirmed(work[f], tree) /\ ~streaming /\ work[f] \in JobRecord /\ tree \in [ToolPlaces -> Nat]
  BY <1>1, JobTyped DEF ReplaySound
<1>3. /\ work[f].record \in CheckpointRecord /\ work[f].left \in Nat /\ evidence \in Seq(Reads)
      /\ work[f].since \in [ToolPlaces -> Nat]
  BY <1>2 DEF Confirmed, CheckpointRecord, JobRecord
<1>4. /\ j \in JobRecord /\ j.at = "replay" /\ j.left = n /\ j.record = work[f].record
      /\ j.since = work[f].since /\ j.text = work[f].text
      /\ j.seen = work[f].seen /\ j.evidence = work[f].evidence
  <2>1. n \in Int
    BY <1>3
  <2> QED
    BY <1>1, <1>2, <2>1 DEF JobRecord
<1>5. evidence[n] \in Reads
  BY <1>1, <1>3
<1>6. evidence[n][1] \in ToolPlaces /\ evidence[n][2] \in Nat
  BY <1>5 DEF Reads
<1>7. evidence[n][2] \in work[f].since[evidence[n][1]]..tree[evidence[n][1]]
  <2> DEFINE p == evidence[n][1]
             v == evidence[n][2]
  <2>1. p \in ToolPlaces /\ v \in Nat /\ tree[p] = v /\ work[f].since[p] \in Nat
    BY <1>1, <1>3, <1>6
  <2>2. work[f].since[p] <= tree[p]
    BY <1>2, <2>1 DEF Confirmed
  <2> HIDE DEF p, v
  <2>3. v \in work[f].since[p]..tree[p]
    BY <2>1, <2>2
  <2> QED
    BY <2>3 DEF p, v
<1>8. /\ n \in Nat /\ \A i \in 1..n : i \in 1..work[f].left \/ i = n
  BY <1>3
<1>9. Confirmed(j, tree)
  <2>1. \A i \in 1..n : evidence[i][2] \in work[f].since[evidence[i][1]]..tree[evidence[i][1]]
    BY <1>2, <1>7, <1>8 DEF Confirmed
  <2>2. /\ \A p \in ToolPlaces : work[f].since[p] <= tree[p]
        /\ Evident(work[f].record) /\ work[f].record.text = work[f].text
    BY <1>2 DEF Confirmed
  <2> HIDE DEF j, n
  <2> QED
    BY <1>1, <1>3, <1>4, <1>8, <2>1, <2>2 DEF Confirmed
<1> HIDE DEF j
<1>10. simplePhase \in {"cached", "review"}
  BY <1>1, RunningJob
<1> QED
  BY <1>1, <1>2, <1>4, <1>9, <1>10, QuietMove DEF Simple!Replay

(* The job of a review goes on with the text it has. *)
LEMMA RejectRecordKeeps ==
    ASSUME SimpleInv, NEW f \in ReviewFiles, Simple!RejectRecord(f) PROVE SimpleInv'
<1>1. work[f].at = "replay" /\ simplePhase \in {"cached", "review"}
  BY RunningJob DEF Simple!RejectRecord
<1>2. CASE simplePhase = "cached"
  BY <1>1, <1>2, QuietOver DEF Simple!RejectRecord
<1>3. CASE simplePhase # "cached"
  <2> DEFINE j == [Simple!Idle EXCEPT !.at = "read", !.text = work[f].text, !.left = FirstChunks]
  <2>1. work' = [work EXCEPT ![f] = j]
    BY <1>3 DEF Simple!RejectRecord
  <2>2. work[f].text \in Nat
    BY JobTyped
  <2>3. j \in JobRecord /\ j.at = "read" /\ j.seen = {} /\ j.evidence = <<>>
    <3>1. FirstChunks \in Int /\ "read" \in JobPlaces
      BY ReviewAssumption DEF JobPlaces
    <3> QED
      BY <2>2, <3>1, IdleJob DEF JobRecord
  <2> HIDE DEF j
  <2> QED
    BY <1>1, <1>3, <2>1, <2>3, QuietMove DEF Simple!RejectRecord
<1> QED
  BY <1>2, <1>3

(* Every call of the record was made again, and gave what the codebase had *)
(* shown at some time since the job looked for it.                         *)
LEMMA ConfirmedIsCurrent ==
    ASSUME SimpleInv, NEW f \in ReviewFiles, Simple!Resume(f),
           NEW r \in work[f].record.seen
    PROVE  r[2] \in work[f].since[r[1]]..tree[r[1]]
<1>1. Confirmed(work[f], tree) /\ work[f].left = Len(work[f].record.evidence)
  BY JobTyped DEF Simple!Resume, ReplaySound
<1>2. work[f].record.evidence \in Seq(Reads)
  BY <1>1 DEF Confirmed, CheckpointRecord
<1>3. PICK i \in DOMAIN work[f].record.evidence : work[f].record.evidence[i] = r
  BY <1>1 DEF Confirmed, Evident
<1>4. i \in 1..work[f].left
  BY <1>1, <1>2
<1> QED
  BY <1>1, <1>3, <1>4 DEF Confirmed

LEMMA ResumeKeeps ==
    ASSUME SimpleInv, NEW f \in ReviewFiles, Simple!Resume(f)
    PROVE  SimpleInv'
<1> DEFINE a == [text |-> work[f].record.text, seen |-> work[f].record.seen]
           j == Simple!Over("cached")
<1>1. /\ UNCHANGED <<content, tree, simpleMode, simpleDisk, records, streaming, simplePhase, writing,
                     failures, refused>>
      /\ work[f].at = "replay" /\ work' = [work EXCEPT ![f] = j]
      /\ answers' = [answers EXCEPT ![f] = a]
  BY DEF Simple!Resume, Simple!sources, Simple!session
<1>2. /\ answers \in [ReviewFiles -> AnswerRecord] /\ refused \in BOOLEAN
      /\ (refused => failures # {}) /\ Confirmed(work[f], tree)
  BY <1>1, JobTyped DEF ReplaySound
<1>3. a \in AnswerRecord
  BY <1>2 DEF Confirmed, CheckpointRecord, AnswerRecord
<1>4. j \in JobRecord /\ j.at = "cached" /\ j.seen = {} /\ j.evidence = <<>>
  BY OverJob DEF JobPlaces
<1> HIDE DEF a, j
<1>5. /\ answers' \in [ReviewFiles -> AnswerRecord]
      /\ \A g \in ReviewFiles \ {f} : answers'[g] = answers[g]
  BY <1>1, <1>2, <1>3
<1>6. simplePhase \in {"cached", "review"}
  BY <1>1, RunningJob
<1> QED
  BY <1>1, <1>2, <1>4, <1>5, <1>6, JobMoves

LEMMA EditKeeps ==
    ASSUME SimpleInv, content' \in [ReviewFiles -> Nat], tree' \in [ToolPlaces -> Nat],
           \A p \in ToolPlaces : tree[p] <= tree'[p],
           UNCHANGED <<simpleDisk, simplePhase, simpleMode, streaming, work>>,
           UNCHANGED Simple!outcome, UNCHANGED Simple!session
    PROVE  SimpleInv'
<1>1. UNCHANGED <<simpleDisk, simplePhase, simpleMode, streaming, work, records, writing, answers,
                  failures, refused, simpleStatus>>
  BY DEF Simple!outcome, Simple!session
<1>2. SimpleTyped' /\ RecordsSound'
  BY <1>1 DEF SimpleInv, SimpleTyped, RecordsSound, Evident
<1>3. ASSUME NEW f \in ReviewFiles PROVE JobIsSound(f)'
  <2>1. EvidenceSound(f)' /\ FateRecorded(f)'
    BY <1>1, JobTyped DEF EvidenceSound, FateRecorded, Evident, Simple!Invalid
  <2>2. ASSUME Confirmed(work[f], tree) PROVE Confirmed(work[f], tree')
    <3>1. /\ work[f].since \in [ToolPlaces -> Nat] /\ tree \in [ToolPlaces -> Nat]
          /\ work[f].record \in CheckpointRecord /\ work[f].record.evidence \in Seq(Reads)
      BY <2>2, JobTyped DEF Confirmed, JobRecord, CheckpointRecord
    <3>2. ASSUME NEW p \in ToolPlaces PROVE work[f].since[p] <= tree'[p]
      <4>1. work[f].since[p] <= tree[p] /\ tree[p] <= tree'[p]
        BY <2>2 DEF Confirmed
      <4>2. work[f].since[p] \in Nat /\ tree[p] \in Nat /\ tree'[p] \in Nat
        BY <3>1
      <4> QED
        BY <4>1, <4>2
    <3>3. ASSUME NEW i \in 1..work[f].left
          PROVE  work[f].record.evidence[i][2]
                   \in work[f].since[work[f].record.evidence[i][1]]..tree'[work[f].record.evidence[i][1]]
      <4>1. i \in 1..Len(work[f].record.evidence)
        BY <2>2, <3>1 DEF Confirmed
      <4> DEFINE p == work[f].record.evidence[i][1]
                 v == work[f].record.evidence[i][2]
      <4>2. p \in ToolPlaces /\ v \in Nat
        <5>1. work[f].record.evidence[i] \in Reads
          BY <3>1, <4>1
        <5> QED
          BY <5>1 DEF Reads
      <4>3. v \in work[f].since[p]..tree[p]
        BY <2>2 DEF Confirmed
      <4> HIDE DEF p, v
      <4>4. work[f].since[p] \in Nat /\ tree[p] \in Nat /\ tree'[p] \in Nat /\ tree[p] <= tree'[p]
        BY <3>1, <4>2
      <4>5. v \in work[f].since[p]..tree'[p]
        BY <4>2, <4>3, <4>4
      <4> QED
        BY <4>5 DEF p, v
    <3> QED
      BY <2>2, <3>2, <3>3 DEF Confirmed
  <2>3. ReplaySound(f)'
    BY <1>1, <2>2, JobTyped DEF ReplaySound
  <2> QED
    BY <2>1, <2>3 DEF JobIsSound
<1>4. Simple!StatusFaithful'
  BY <1>1 DEF SimpleInv, Simple!StatusFaithful, Simple!NoAnswer
<1>5. (refused => failures # {})'
  BY <1>1 DEF SimpleInv
<1> QED
  BY <1>2, <1>3, <1>4, <1>5 DEF SimpleInv

LEMMA SourcesEdited ==
    ASSUME SimpleInv,
           \/ \E f \in ReviewFiles : Simple!EditFile(f)
           \/ \E p \in ToolPlaces : Simple!EditTree(p)
    PROVE  SimpleInv'
<1>1. content \in [ReviewFiles -> Nat] /\ tree \in [ToolPlaces -> Nat]
  BY DEF SimpleInv, SimpleTyped
<1>2. CASE \E f \in ReviewFiles : Simple!EditFile(f)
  <2>1. PICK f \in ReviewFiles : Simple!EditFile(f)
    BY <1>2
  <2>2. /\ content' \in [ReviewFiles -> Nat] /\ tree' = tree
    BY <1>1, <2>1 DEF Simple!EditFile
  <2>3. \A p \in ToolPlaces : tree[p] <= tree'[p]
    BY <1>1, <2>2
  <2> QED
    BY <1>1, <2>1, <2>2, <2>3, EditKeeps DEF Simple!EditFile
<1>3. CASE \E p \in ToolPlaces : Simple!EditTree(p)
  <2>1. PICK p \in ToolPlaces : Simple!EditTree(p)
    BY <1>3
  <2>2. content' = content /\ tree' = [tree EXCEPT ![p] = 1] /\ tree[p] = 0
    BY <2>1 DEF Simple!EditTree
  <2>3. tree' \in [ToolPlaces -> Nat] /\ \A q \in ToolPlaces : tree[q] <= tree'[q]
    BY <1>1, <2>2
  <2> QED
    BY <1>1, <2>1, <2>2, <2>3, EditKeeps DEF Simple!EditTree
<1> QED
  BY <1>2, <1>3

LEMMA BeginReviewKeeps == ASSUME SimpleInv, Simple!BeginReview PROVE SimpleInv'
<1> DEFINE next == [f \in ReviewFiles |-> IF work[f].at = "cached" THEN work[f] ELSE Simple!Idle]
<1>0. /\ UNCHANGED <<content, tree, simpleMode, simpleDisk, records, streaming, writing, answers,
                     failures, refused, simpleStatus>>
      /\ simplePhase = "cached" /\ simplePhase' = "review" /\ work' = next
  BY DEF Simple!BeginReview, Simple!outcome, Simple!sources, Simple!session
<1>1. SimpleTyped' /\ RecordsSound'
  BY <1>0, IdleJob DEF SimpleInv, SimpleTyped, RecordsSound, Evident
<1>2. ASSUME NEW f \in ReviewFiles PROVE JobIsSound(f)'
  <2>1. EvidenceSound(f) /\ FateRecorded(f)
    BY DEF SimpleInv, JobIsSound
  <2>2. CASE work[f].at = "cached"
    <3>1. work'[f] = work[f]
      BY <1>0, <2>2
    <3> QED
      BY <1>0, <2>1, <2>2, <3>1
         DEF JobIsSound, EvidenceSound, FateRecorded, ReplaySound, Evident, Simple!Invalid
  <2>3. CASE work[f].at # "cached"
    <3>1. work'[f] = Simple!Idle
      BY <1>0, <2>3
    <3>2. ~streaming => answers[f] = Simple!NoAnswer
      BY <1>0, <2>1, <2>3 DEF FateRecorded
    <3>3. writing # f
      BY <1>0, <2>1 DEF EvidenceSound, FateRecorded
    <3>4. FateRecorded(f)' /\ ReplaySound(f)'
      BY <1>0, <3>1, <3>2, IdleJob DEF FateRecorded, ReplaySound
    <3>5. EvidenceSound(f)'
      BY <1>0, <3>1, <3>3, IdleJob, InvalidEvidence DEF EvidenceSound, Evident
    <3> QED
      BY <3>4, <3>5 DEF JobIsSound
  <2> QED
    BY <2>2, <2>3
<1>3. Simple!StatusFaithful'
  BY <1>0 DEF Simple!StatusFaithful
<1>4. (refused => failures # {})'
  BY <1>0 DEF SimpleInv
<1> QED
  BY <1>1, <1>2, <1>3, <1>4 DEF SimpleInv

LEMMA ReadFileKeeps ==
    ASSUME SimpleInv, NEW f \in ReviewFiles, Simple!ReadFile(f) PROVE SimpleInv'
<1> DEFINE j == [Simple!Idle EXCEPT !.at = "read", !.text = content[f], !.left = FirstChunks]
<1>1. /\ simplePhase = "review" /\ work[f].at = "todo" /\ work' = [work EXCEPT ![f] = j]
  BY DEF Simple!ReadFile, Simple!Open
<1>2. content[f] \in Nat
  BY JobTyped
<1>3. j \in JobRecord /\ j.at = "read" /\ j.seen = {} /\ j.evidence = <<>>
  <2>1. FirstChunks \in Int /\ "read" \in JobPlaces
    BY ReviewAssumption DEF JobPlaces
  <2> QED
    BY <1>2, <2>1, IdleJob DEF JobRecord
<1> HIDE DEF j
<1> QED
  BY <1>1, <1>3, QuietMove DEF Simple!ReadFile

LEMMA ChunksKeep ==
    ASSUME SimpleInv, NEW f \in ReviewFiles, Simple!StartChunks(f) \/ Simple!SplitChunk(f)
    PROVE  SimpleInv'
<1>1. /\ work[f].at \in {"read", "chunks"} /\ UNCHANGED <<simpleDisk, simplePhase, simpleMode, streaming>>
      /\ UNCHANGED Simple!outcome /\ UNCHANGED Simple!sources /\ UNCHANGED Simple!session
  BY DEF Simple!StartChunks, Simple!SplitChunk
<1>2. PICK j : /\ j \in JobRecord /\ j.at = "chunks" /\ j.seen = work[f].seen
               /\ j.evidence = work[f].evidence /\ work' = [work EXCEPT ![f] = j]
  <2>1. work[f] \in JobRecord /\ work[f].left \in Int
    BY JobTyped
  <2>2. work[f].left + 1 \in Int
    BY <2>1
  <2>3. CASE Simple!StartChunks(f)
    <3> DEFINE j == [work[f] EXCEPT !.at = "chunks"]
    <3>1. j \in JobRecord /\ j.at = "chunks" /\ j.seen = work[f].seen /\ j.evidence = work[f].evidence
      BY <2>1 DEF JobRecord, JobPlaces
    <3>2. work' = [work EXCEPT ![f] = j]
      BY <2>3 DEF Simple!StartChunks
    <3> QED
      BY <3>1, <3>2
  <2>4. CASE Simple!SplitChunk(f)
    <3> DEFINE j == [work[f] EXCEPT !.left = work[f].left + 1]
    <3>1. j \in JobRecord /\ j.at = "chunks" /\ j.seen = work[f].seen /\ j.evidence = work[f].evidence
      BY <2>1, <2>2, <2>4 DEF Simple!SplitChunk, JobRecord
    <3>2. work' = [work EXCEPT ![f] = j]
      BY <2>4 DEF Simple!SplitChunk
    <3> QED
      BY <3>1, <3>2
  <2> QED
    BY <2>3, <2>4
<1>3. simplePhase = "review"
  BY <1>1, RunningJob
<1> QED
  BY <1>1, <1>2, <1>3, QuietMove

(* observe(): the evidence has what was seen, or is invalid for good. *)
LEMMA UseToolKeeps ==
    ASSUME SimpleInv, NEW f \in ReviewFiles, NEW p \in ToolPlaces, NEW failed \in BOOLEAN,
           Simple!UseTool(f, p, failed)
    PROVE  SimpleInv'
<1> DEFINE read == <<p, tree[p]>>
           seen == IF failed THEN work[f].seen ELSE work[f].seen \cup {read}
           evidence == Simple!Observe(work[f].evidence, read, failed)
           j == [work[f] EXCEPT !.seen = seen, !.evidence = evidence]
<1>0. /\ UNCHANGED <<content, tree, simpleMode, simpleDisk, records, streaming, simplePhase, writing,
                     answers, failures, refused>>
      /\ work[f].at = "chunks" /\ Tools = "navigation" /\ work' = [work EXCEPT ![f] = j]
      /\ work[f].evidence # Simple!Invalid
  BY DEF Simple!UseTool, Simple!outcome, Simple!sources, Simple!session
<1>1. /\ work \in [ReviewFiles -> JobRecord] /\ work[f] \in JobRecord
      /\ tree \in [ToolPlaces -> Nat]
      /\ answers \in [ReviewFiles -> AnswerRecord] /\ refused \in BOOLEAN
      /\ (refused => failures # {}) /\ EvidenceSound(f) /\ FateRecorded(f) /\ RecordsSound
  BY JobTyped
<1>2. work[f].evidence \in Seq(Reads) /\ work[f].seen \subseteq Reads /\ read \in Reads
  BY <1>0, <1>1, JobTyped DEF Reads
<1> HIDE DEF read
<1>5. ASSUME evidence # Simple!Invalid
      PROVE  evidence = Append(work[f].evidence, read) /\ ~failed
  BY <1>5 DEF Simple!Observe
<1>6. evidence \in Seq(Reads) \cup {Simple!Invalid} /\ seen \in SUBSET Reads
  <2>1. Append(work[f].evidence, read) \in Seq(Reads)
    BY <1>2
  <2>2. evidence \in Seq(Reads) \cup {Simple!Invalid}
    BY <2>1, <1>5
  <2>3. seen \in SUBSET Reads
    BY <1>2
  <2> QED
    BY <2>2, <2>3
<1>7. ASSUME evidence # Simple!Invalid, NEW v \in seen
      PROVE  \E i \in DOMAIN evidence : evidence[i] = v
  <2>1. evidence = Append(work[f].evidence, read) /\ seen = work[f].seen \cup {read}
    BY <1>5, <1>7
  <2>2. \A u \in work[f].seen : \E i \in DOMAIN work[f].evidence : work[f].evidence[i] = u
    BY <1>0, <1>1 DEF EvidenceSound, Evident
  <2> DEFINE n == Len(work[f].evidence)
  <2>3. /\ n \in Nat /\ DOMAIN work[f].evidence = 1..n /\ DOMAIN evidence = 1..(n + 1)
        /\ evidence[n + 1] = read /\ \A i \in 1..n : evidence[i] = work[f].evidence[i]
    BY <1>2, <2>1
  <2> HIDE DEF n, evidence, seen
  <2>4. CASE v = read
    BY <2>3, <2>4
  <2>5. CASE v \in work[f].seen
    <3>1. PICK i \in 1..n : work[f].evidence[i] = v
      BY <2>2, <2>3, <2>5
    <3>2. i \in 1..(n + 1) /\ evidence[i] = v
      BY <2>3, <3>1
    <3> QED
      BY <2>3, <3>2
  <2> QED
    BY <1>7, <2>1, <2>4, <2>5
<1> HIDE DEF evidence, seen
<1>8. j \in JobRecord /\ j.at = "chunks" /\ j.seen = seen /\ j.evidence = evidence
  BY <1>0, <1>1, <1>6 DEF JobRecord
<1> HIDE DEF j
<1>9. work'[f] = j
  BY <1>0, <1>1
<1>10. evidence = Simple!Invalid \/ Evident(work[f])'
  BY <1>0, <1>7, <1>8, <1>9 DEF Evident
<1>11. EvidenceSound(f)'
  BY <1>0, <1>1, <1>8, <1>9, <1>10 DEF EvidenceSound, Simple!Invalid
<1>12. FateRecorded(f)' /\ ReplaySound(f)'
  BY <1>0, <1>1, <1>8, <1>9 DEF FateRecorded, ReplaySound
<1>13. RecordsSound'
  BY <1>0, <1>1 DEF RecordsSound, Evident
<1>14. simplePhase # "returned"
  BY <1>0, RunningJob
<1>15. JobIsSound(f)'
  BY <1>11, <1>12 DEF JobIsSound
<1> QED
  BY <1>0, <1>1, <1>8, <1>13, <1>14, <1>15, JobChanges

(* A chunk, or the answer, of a file is done. *)
LEMMA AnswerKeeps ==
    ASSUME SimpleInv, NEW f \in ReviewFiles, work[f].at = "chunks", NEW j \in JobRecord,
           j.at \in {"chunks", "put", "done"}, work' = [work EXCEPT ![f] = j],
           \/ j.seen = work[f].seen /\ j.evidence = work[f].evidence
           \/ j.seen = {} /\ j.evidence = <<>>,
           answers' \in {answers, [answers EXCEPT ![f] = [text |-> work[f].text, seen |-> work[f].seen]]},
           j.at = "chunks" /\ ~streaming => answers' = answers,
           j.at = "put" => j.evidence # Simple!Invalid,
           UNCHANGED <<simpleDisk, simplePhase, simpleMode, streaming, failures, refused>>,
           UNCHANGED Simple!sources, UNCHANGED Simple!session
    PROVE  SimpleInv'
<1>1. UNCHANGED <<content, tree, simpleMode, simpleDisk, records, streaming, simplePhase, writing>>
  BY DEF Simple!sources, Simple!session
<1>2. /\ answers \in [ReviewFiles -> AnswerRecord] /\ refused \in BOOLEAN
      /\ (refused => failures # {}) /\ FateRecorded(f)
  BY JobTyped
<1>3. [text |-> work[f].text, seen |-> work[f].seen] \in AnswerRecord
  BY JobTyped DEF AnswerRecord
<1>4. /\ answers' \in [ReviewFiles -> AnswerRecord]
      /\ \A g \in ReviewFiles \ {f} : answers'[g] = answers[g]
  BY <1>2, <1>3
<1>5. ~streaming /\ answers'[f] # Simple!NoAnswer => j.at \in {"put", "done", "cached"}
  BY <1>2 DEF FateRecorded
<1>6. /\ j.at # "failed" /\ j.at # "cancelled" /\ j.at # "replay" /\ work[f].at # "put"
      /\ simplePhase \notin {"down", "cached", "returned"}
  BY RunningJob
<1> QED
  BY <1>1, <1>2, <1>4, <1>5, <1>6, JobMoves

LEMMA ReviewChunkKeeps ==
    ASSUME SimpleInv, NEW f \in ReviewFiles, NEW b \in BOOLEAN, Simple!ReviewChunk(f, b)
    PROVE  SimpleInv'
<1> DEFINE j == [work[f] EXCEPT !.left = work[f].left - 1]
<1>1. /\ work[f].at = "chunks" /\ work' = [work EXCEPT ![f] = j]
      /\ answers' \in {answers, [answers EXCEPT ![f] = [text |-> work[f].text, seen |-> work[f].seen]]}
      /\ ~streaming => answers' = answers
  BY DEF Simple!ReviewChunk
<1>2. work[f] \in JobRecord /\ work[f].left - 1 \in Int
  BY JobTyped
<1>3. j \in JobRecord /\ j.at = "chunks" /\ j.seen = work[f].seen /\ j.evidence = work[f].evidence
  BY <1>1, <1>2 DEF JobRecord
<1> HIDE DEF j
<1> QED
  BY <1>1, <1>3, AnswerKeeps DEF Simple!ReviewChunk

LEMMA EndChunksKeeps ==
    ASSUME SimpleInv, NEW f \in ReviewFiles, Simple!EndChunks(f) \/ Simple!EndEntry(f)
    PROVE  SimpleInv'
<1>1. /\ work[f].at = "chunks"
      /\ work' = [work EXCEPT ![f] = IF Simple!ToPut(f) THEN [work[f] EXCEPT !.at = "put"]
                                     ELSE Simple!Over("done")]
      /\ answers' \in {answers, [answers EXCEPT ![f] = [text |-> work[f].text, seen |-> work[f].seen]]}
      /\ UNCHANGED <<simpleDisk, simplePhase, simpleMode, streaming, failures, refused>>
      /\ UNCHANGED Simple!sources /\ UNCHANGED Simple!session
  BY DEF Simple!EndChunks, Simple!EndEntry
<1>2. CASE Simple!ToPut(f)
  <2> DEFINE j == [work[f] EXCEPT !.at = "put"]
  <2>1. work[f] \in JobRecord /\ work[f].evidence # Simple!Invalid
    BY <1>2, JobTyped DEF Simple!ToPut
  <2>2. j \in JobRecord /\ j.at = "put" /\ j.seen = work[f].seen /\ j.evidence = work[f].evidence
    BY <2>1 DEF JobRecord, JobPlaces
  <2>3. work' = [work EXCEPT ![f] = j]
    BY <1>1, <1>2
  <2> HIDE DEF j
  <2> QED
    BY <1>1, <2>1, <2>2, <2>3, AnswerKeeps
<1>3. CASE ~Simple!ToPut(f)
  <2> DEFINE j == Simple!Over("done")
  <2>1. j \in JobRecord /\ j.at = "done" /\ j.seen = {} /\ j.evidence = <<>>
    BY OverJob DEF JobPlaces
  <2>2. work' = [work EXCEPT ![f] = j]
    BY <1>1, <1>3
  <2> HIDE DEF j
  <2> QED
    BY <1>1, <2>1, <2>2, AnswerKeeps
<1> QED
  BY <1>2, <1>3

LEMMA FailFileKeeps ==
    ASSUME SimpleInv, NEW f \in ReviewFiles, NEW b \in BOOLEAN, Simple!FailFile(f, b)
    PROVE  SimpleInv'
<1> DEFINE j == Simple!Over("failed")
<1>1. /\ UNCHANGED <<content, tree, simpleMode, simpleDisk, records, streaming, simplePhase, writing,
                     answers>>
      /\ work[f].at \in {"todo", "read", "chunks"} /\ work' = [work EXCEPT ![f] = j]
      /\ work[f].at = "todo" => simplePhase = "review"
      /\ failures' = failures \cup {f} /\ refused' = (refused \/ b)
  BY DEF Simple!FailFile, Simple!Open, Simple!sources, Simple!session
<1>2. /\ answers \in [ReviewFiles -> AnswerRecord] /\ refused \in BOOLEAN
      /\ (refused => failures # {}) /\ FateRecorded(f)
  BY JobTyped
<1>3. j \in JobRecord /\ j.at = "failed" /\ j.seen = {} /\ j.evidence = <<>>
  BY OverJob DEF JobPlaces
<1> HIDE DEF j
<1>4. /\ simplePhase \notin {"down", "cached", "returned"}
      /\ refused' \in BOOLEAN /\ f \in failures' /\ failures \subseteq failures'
      /\ answers' = answers /\ (~streaming => answers[f] = Simple!NoAnswer)
  BY <1>1, <1>2, RunningJob DEF FateRecorded
<1> QED
  BY <1>1, <1>2, <1>3, <1>4, JobMoves

LEMMA PutRecordSound ==
    ASSUME SimpleInv, NEW f \in ReviewFiles, work[f].at = "put"
    PROVE  Simple!RecordOf(f) \in CheckpointRecord /\ Evident(Simple!RecordOf(f))
<1>1. work[f] \in JobRecord /\ EvidenceSound(f) /\ simpleMode \in {"files", "patch"}
  BY JobTyped DEF SimpleInv, SimpleTyped
<1>2. work[f].evidence \in Seq(Reads) /\ work[f].text \in Nat /\ work[f].seen \subseteq Reads
  BY <1>1, JobTyped DEF EvidenceSound
<1>3. Simple!RecordOf(f) \in CheckpointRecord
  BY <1>1, <1>2 DEF Simple!RecordOf, CheckpointRecord
<1>4. Evident(work[f])
  BY <1>1 DEF EvidenceSound
<1> QED
  BY <1>3, <1>4 DEF Simple!RecordOf, Evident

LEMMA PutRecordKeeps ==
    ASSUME SimpleInv, NEW f \in ReviewFiles, Simple!PutRecord(f) PROVE SimpleInv'
<1>1. /\ UNCHANGED <<content, tree, simpleMode, simpleDisk, streaming, simplePhase, answers,
                     failures, refused, work>>
      /\ work[f].at = "put" /\ writing' = f
      /\ records' \subseteq records \cup {Simple!RecordOf(f)}
  BY DEF Simple!PutRecord, Simple!Stored, Simple!sources, Simple!outcome
<1>2. RecordsSound'
  BY <1>1, PutRecordSound DEF SimpleInv, RecordsSound, Evident
<1>3. /\ work \in [ReviewFiles -> JobRecord] /\ work[f] \in JobRecord
      /\ answers \in [ReviewFiles -> AnswerRecord] /\ refused \in BOOLEAN
      /\ (refused => failures # {}) /\ EvidenceSound(f) /\ FateRecorded(f)
  BY JobTyped
<1>4. work' = [work EXCEPT ![f] = work[f]]
  BY <1>1, <1>3
<1>5. EvidenceSound(f)' /\ FateRecorded(f)' /\ ReplaySound(f)'
  BY <1>1, <1>3 DEF EvidenceSound, FateRecorded, ReplaySound, Evident, Simple!Invalid
<1>6. simplePhase # "returned"
  BY <1>1, RunningJob
<1>7. JobIsSound(f)'
  BY <1>5 DEF JobIsSound
<1> QED
  BY <1>1, <1>2, <1>3, <1>4, <1>6, <1>7, JobChanges

LEMMA DeliverRecordKeeps ==
    ASSUME SimpleInv, NEW f \in ReviewFiles, NEW b \in BOOLEAN, Simple!DeliverRecord(f, b)
    PROVE  SimpleInv'
<1> DEFINE j == Simple!Over("done")
<1>1. /\ UNCHANGED <<content, tree, simpleMode, records, streaming, simplePhase, answers, failures,
                     refused>>
      /\ writing = f /\ writing' = "nobody" /\ work' = [work EXCEPT ![f] = j]
      /\ simpleDisk' \subseteq simpleDisk \cup {Simple!RecordOf(f)}
  BY DEF Simple!DeliverRecord, Simple!Stored, Simple!sources, Simple!outcome
<1>2. /\ work \in [ReviewFiles -> JobRecord] /\ work[f] \in JobRecord
      /\ answers \in [ReviewFiles -> AnswerRecord] /\ refused \in BOOLEAN
      /\ (refused => failures # {}) /\ EvidenceSound(f) /\ FateRecorded(f)
  BY JobTyped
<1>3. work[f].at = "put"
  BY <1>1, <1>2 DEF EvidenceSound
<1>4. RecordsSound'
  BY <1>1, <1>3, PutRecordSound DEF SimpleInv, RecordsSound, Evident
<1>5. j \in JobRecord /\ j.at = "done" /\ j.seen = {} /\ j.evidence = <<>>
  BY OverJob DEF JobPlaces
<1> HIDE DEF j
<1>6. work'[f] = j
  BY <1>1, <1>2
<1>7. simplePhase \notin {"down", "cached", "returned"}
  BY <1>3, RunningJob
<1>8. EvidenceSound(f)' /\ FateRecorded(f)' /\ ReplaySound(f)'
  BY <1>1, <1>2, <1>5, <1>6, <1>7, ReviewAssumption, InvalidEvidence
     DEF EvidenceSound, FateRecorded, ReplaySound, Evident
<1>9. \A g \in ReviewFiles : writing' # g
  BY <1>1, ReviewAssumption
<1>10. JobIsSound(f)'
  BY <1>8 DEF JobIsSound
<1> QED
  BY <1>1, <1>2, <1>4, <1>5, <1>7, <1>9, <1>10, JobChanges

(* The status follows from what became of the files. *)
LEMMA ReturnKeeps == ASSUME SimpleInv, Simple!Return PROVE SimpleInv'
<1>0. /\ UNCHANGED <<content, tree, simpleDisk, streaming, simpleMode, work, answers, failures,
                     refused, writing>>
      /\ simplePhase' = "returned" /\ simpleStatus' = Simple!ReviewStatus /\ records' = {}
      /\ \A f \in ReviewFiles : work[f].at \in Simple!Ended
  BY DEF Simple!Return, Simple!sources
<1>1. SimpleTyped' /\ RecordsSound'
  BY <1>0 DEF SimpleInv, SimpleTyped, RecordsSound, Evident
<1>2. \A f \in ReviewFiles : EvidenceSound(f) /\ FateRecorded(f) /\ ReplaySound(f)
  BY DEF SimpleInv, JobIsSound
<1>3. \A f \in ReviewFiles : JobIsSound(f)'
  BY <1>0, <1>2 DEF JobIsSound, EvidenceSound, FateRecorded, ReplaySound, Evident, Simple!Invalid
<1>4. refused => failures # {}
  BY DEF SimpleInv
<1>5. simpleStatus' = "succeeded" <=> failures = {}
  BY <1>0 DEF Simple!ReviewStatus
<1>6. \A f \in ReviewFiles : work[f].at \in {"done", "cached"} \/ failures # {}
  BY <1>0, <1>2, <1>4 DEF FateRecorded, Simple!Ended
<1>7. ASSUME simpleStatus' = "failed", NEW f \in ReviewFiles PROVE answers[f] = Simple!NoAnswer
  <2>1. Simple!Completed = {} /\ ~Simple!Streamed
    BY <1>0, <1>7 DEF Simple!ReviewStatus
  <2>2. CASE streaming
    BY <2>1, <2>2 DEF Simple!Streamed
  <2>3. ASSUME ~streaming, answers[f] # Simple!NoAnswer PROVE FALSE
    <3>1. work[f].at \in {"done", "cached"}
      BY <1>0, <1>2, <2>3 DEF FateRecorded, Simple!Ended
    <3> QED
      BY <2>1, <2>3, <3>1 DEF Simple!Completed
  <2> QED
    BY <2>2, <2>3
<1>8. Simple!StatusFaithful'
  BY <1>0, <1>2, <1>4, <1>5, <1>6, <1>7 DEF Simple!StatusFaithful, FateRecorded, Simple!NoAnswer
<1> QED
  BY <1>0, <1>1, <1>3, <1>4, <1>8 DEF SimpleInv

LEMMA NewReviewKeeps ==
    ASSUME SimpleInv, Simple!Crash \/ \E b \in BOOLEAN, m \in {"files", "patch"} : Simple!Begin(b, m)
    PROVE  SimpleInv'
<1> DEFINE New == /\ work' = [f \in ReviewFiles |-> Simple!Idle]
                  /\ answers' = [f \in ReviewFiles |-> Simple!NoAnswer]
                  /\ refused' = FALSE /\ writing' = "nobody"
                  /\ simplePhase' \in {"down", "cached"}
                  /\ streaming' \in BOOLEAN /\ simpleMode' \in {"files", "patch"}
                  /\ UNCHANGED <<content, tree, simpleDisk>>
                  /\ records' \subseteq simpleDisk
<1>1. New
  <2>1. CASE Simple!Crash
    BY <2>1 DEF Simple!Crash, Simple!sources
  <2>2. ASSUME NEW b \in BOOLEAN, NEW m \in {"files", "patch"}, Simple!Begin(b, m)
        PROVE  New
    BY <2>2 DEF Simple!Begin, Simple!sources
  <2> QED
    BY <2>1, <2>2
<1>2. content \in [ReviewFiles -> Nat] /\ tree \in [ToolPlaces -> Nat] /\ RecordsSound
  BY DEF SimpleInv, SimpleTyped
<1>3. RecordsSound'
  BY <1>1, <1>2 DEF RecordsSound, Evident
<1> QED
  BY <1>1, <1>2, <1>3, AllNew

LEMMA SimpleFileStep ==
    ASSUME SimpleInv, NEW f \in ReviewFiles, NEW b \in BOOLEAN,
           \/ Simple!EditFile(f) \/ Simple!NotCached(f)
           \/ Simple!Lookup(f) \/ Simple!Replay(f) \/ Simple!RejectRecord(f) \/ Simple!Resume(f)
           \/ Simple!SkipFile(f) \/ Simple!ReadFile(f) \/ Simple!StartChunks(f)
           \/ Simple!SplitChunk(f) \/ (\E p \in ToolPlaces : Simple!UseTool(f, p, b))
           \/ Simple!ReviewChunk(f, b) \/ Simple!FailFile(f, b) \/ Simple!DeliverRecord(f, b)
           \/ Simple!CancelFile(f) \/ Simple!EndChunks(f) \/ Simple!EndEntry(f)
           \/ Simple!PutRecord(f)
    PROVE  SimpleInv'
<1>1. CASE Simple!NotCached(f)
  BY <1>1, QuietOver DEF Simple!NotCached
<1>2. CASE Simple!SkipFile(f)
  BY <1>2, QuietOver DEF Simple!SkipFile, Simple!Open
<1>3. CASE Simple!CancelFile(f)
  BY <1>3, QuietOver DEF Simple!CancelFile
<1> QED
  BY <1>1, <1>2, <1>3, SourcesEdited, LookupKeeps, ReplayKeeps, RejectRecordKeeps, ResumeKeeps,
     ReadFileKeeps, ChunksKeep, UseToolKeeps, ReviewChunkKeeps, EndChunksKeeps, FailFileKeeps,
     PutRecordKeeps, DeliverRecordKeeps

LEMMA SimpleStepKeeps ==
    ASSUME SimpleInv, Simple!Next \/ UNCHANGED simpleVars PROVE SimpleInv'
<1>1. CASE \E f \in ReviewFiles :
        \/ Simple!EditFile(f) \/ Simple!NotCached(f)
        \/ Simple!Lookup(f) \/ Simple!Replay(f) \/ Simple!RejectRecord(f) \/ Simple!Resume(f)
        \/ Simple!SkipFile(f) \/ Simple!ReadFile(f) \/ Simple!StartChunks(f) \/ Simple!SplitChunk(f)
        \/ \E b \in BOOLEAN : \/ \E p \in ToolPlaces : Simple!UseTool(f, p, b)
                              \/ Simple!ReviewChunk(f, b)
                              \/ Simple!FailFile(f, b) \/ Simple!DeliverRecord(f, b)
        \/ Simple!CancelFile(f) \/ Simple!EndChunks(f) \/ Simple!EndEntry(f)
        \/ Simple!PutRecord(f)
  BY <1>1, SimpleFileStep
<1>2. CASE UNCHANGED simpleVars
  <2>1. content \in [ReviewFiles -> Nat] /\ tree \in [ToolPlaces -> Nat]
    BY DEF SimpleInv, SimpleTyped
  <2>2. content' = content /\ tree' = tree /\ \A p \in ToolPlaces : tree[p] <= tree'[p]
    BY <1>2, <2>1 DEF simpleVars
  <2> QED
    BY <1>2, <2>1, <2>2, EditKeeps DEF simpleVars, Simple!outcome, Simple!session
<1>3. CASE Simple!Done
  BY <1>2, <1>3 DEF Simple!Done, Simple!vars, simpleVars
<1> QED
  BY <1>1, <1>2, <1>3, SourcesEdited, NewReviewKeeps, BeginReviewKeeps, ReturnKeeps DEF Simple!Next

(* SimpleReviewService, for any files, tools, edits, crashes and runs: the *)
(* status, the failures and the answers agree with what became of every    *)
(* file.                                                                   *)
THEOREM ReviewStatusIsFaithful == Spec => []ReviewStatusFaithful
<1> DEFINE Inv == component = "simple" => SimpleInv
<1>1. Init => Inv
  BY SimpleInitial DEF Init
<1>2. Inv /\ [Next]_vars => Inv'
  BY ComponentSteps, SimpleStepKeeps
<1>3. Inv => ReviewStatusFaithful
  BY DEF ReviewStatusFaithful, SimpleInv
<1> QED
  BY <1>1, <1>2, <1>3, PTL DEF Spec

(* Only Resume takes a result from a checkpoint. *)
LEMMA ResumingSteps ==
    ASSUME SimpleInv, Simple!Next \/ UNCHANGED simpleVars, NEW f \in ReviewFiles,
           work[f].at # "cached", work'[f].at = "cached"
    PROVE  Simple!Resume(f)
<1>1. work \in [ReviewFiles -> JobRecord]
  BY DEF SimpleInv, SimpleTyped
<1>2. ASSUME work'[f] = work[f] PROVE FALSE
  BY <1>2
<1>3. ASSUME NEW g \in ReviewFiles, Simple!EditFile(g) \/ Simple!PutRecord(g)
      PROVE  FALSE
  BY <1>2, <1>3 DEF Simple!EditFile, Simple!PutRecord
<1>4. ASSUME NEW g \in ReviewFiles, NEW j, work' = [work EXCEPT ![g] = j], j.at # "cached"
      PROVE  FALSE
  BY <1>1, <1>2, <1>4
<1>5. ASSUME NEW g \in ReviewFiles, Simple!Resume(g)
      PROVE  g = f
  BY <1>1, <1>2, <1>5 DEF Simple!Resume
<1>6. ASSUME NEW g \in ReviewFiles, NEW b \in BOOLEAN,
             \/ Simple!NotCached(g) \/ Simple!SkipFile(g) \/ Simple!FailFile(g, b)
             \/ Simple!DeliverRecord(g, b) \/ Simple!CancelFile(g)
      PROVE  FALSE
  <2>1. PICK where \in {"missed", "done", "failed", "cancelled"} :
           work' = [work EXCEPT ![g] = Simple!Over(where)]
    BY <1>6 DEF Simple!NotCached, Simple!SkipFile, Simple!FailFile, Simple!DeliverRecord,
                Simple!CancelFile
  <2>2. Simple!Over(where).at = where
    BY OverJob DEF JobPlaces
  <2> QED
    BY <1>4, <2>1, <2>2
<1>7. ASSUME NEW g \in ReviewFiles, Simple!ReadFile(g) \/ Simple!Lookup(g) \/ Simple!RejectRecord(g)
      PROVE  FALSE
  <2>1. PICK j : work' = [work EXCEPT ![g] = j] /\ j.at \in {"read", "replay", "missed"}
    <3>1. CASE Simple!ReadFile(g)
      <4> DEFINE j == [Simple!Idle EXCEPT !.at = "read", !.text = content[g], !.left = FirstChunks]
      <4>1. work' = [work EXCEPT ![g] = j] /\ j.at = "read"
        BY <3>1 DEF Simple!ReadFile, Simple!Idle
      <4> QED
        BY <4>1
    <3>2. CASE Simple!Lookup(g)
      <4>1. PICK r : work' = [work EXCEPT ![g] = [Simple!Idle EXCEPT !.at = "replay",
                                  !.text = content[g], !.record = r, !.since = tree]]
        BY <3>2 DEF Simple!Lookup
      <4>2. [Simple!Idle EXCEPT !.at = "replay", !.text = content[g], !.record = r,
                                !.since = tree].at = "replay"
        BY DEF Simple!Idle
      <4> QED
        BY <4>1, <4>2
    <3>3. CASE Simple!RejectRecord(g)
      <4> DEFINE j == [Simple!Idle EXCEPT !.at = "read", !.text = work[g].text, !.left = FirstChunks]
      <4>1. work' = [work EXCEPT ![g] = Simple!Over("missed")] \/ work' = [work EXCEPT ![g] = j]
        BY <3>3 DEF Simple!RejectRecord
      <4>2. j.at = "read"
        BY DEF Simple!Idle
      <4>3. Simple!Over("missed").at = "missed"
        BY OverJob DEF JobPlaces
      <4> HIDE DEF j
      <4> QED
        BY <4>1, <4>2, <4>3
    <3> QED
      BY <1>7, <3>1, <3>2, <3>3
  <2> QED
    BY <1>4, <2>1
<1>8. ASSUME NEW g \in ReviewFiles, NEW b \in BOOLEAN,
             \/ Simple!SplitChunk(g) \/ Simple!ReviewChunk(g, b)
             \/ \E p \in ToolPlaces : Simple!UseTool(g, p, b)
             \/ Simple!StartChunks(g) \/ Simple!Replay(g)
      PROVE  FALSE
  <2>1. work[g] \in JobRecord
    BY <1>1
  <2>2. CASE Simple!SplitChunk(g) \/ Simple!ReviewChunk(g, b) \/ Simple!Replay(g)
    <3>1. PICK n : work' = [work EXCEPT ![g] = [work[g] EXCEPT !.left = n]]
      BY <2>2 DEF Simple!SplitChunk, Simple!ReviewChunk, Simple!Replay
    <3>2. [work[g] EXCEPT !.left = n].at # "cached"
      BY <2>1, <2>2 DEF Simple!SplitChunk, Simple!ReviewChunk, Simple!Replay, JobRecord
    <3> QED
      BY <1>4, <3>1, <3>2
  <2>3. CASE Simple!StartChunks(g)
    <3>1. work' = [work EXCEPT ![g] = [work[g] EXCEPT !.at = "chunks"]]
      BY <2>3 DEF Simple!StartChunks
    <3>2. [work[g] EXCEPT !.at = "chunks"].at = "chunks"
      BY <2>1 DEF JobRecord
    <3> QED
      BY <1>4, <3>1, <3>2
  <2>4. ASSUME NEW p \in ToolPlaces, Simple!UseTool(g, p, b) PROVE FALSE
    <3>1. PICK s, e : work' = [work EXCEPT ![g] = [work[g] EXCEPT !.seen = s, !.evidence = e]]
      BY <2>4 DEF Simple!UseTool
    <3>2. [work[g] EXCEPT !.seen = s, !.evidence = e].at = "chunks"
      BY <2>1, <2>4 DEF Simple!UseTool, JobRecord
    <3> QED
      BY <1>4, <3>1, <3>2
  <2> QED
    BY <1>8, <2>2, <2>3, <2>4
<1>9. ASSUME NEW g \in ReviewFiles, Simple!EndChunks(g) \/ Simple!EndEntry(g) PROVE FALSE
  <2>1. work[g] \in JobRecord
    BY <1>1
  <2>2. work' = [work EXCEPT ![g] = IF Simple!ToPut(g) THEN [work[g] EXCEPT !.at = "put"]
                                    ELSE Simple!Over("done")]
    BY <1>9 DEF Simple!EndChunks, Simple!EndEntry
  <2>3. [work[g] EXCEPT !.at = "put"].at = "put" /\ Simple!Over("done").at = "done"
    BY <2>1, OverJob DEF JobRecord, JobPlaces
  <2> QED
    BY <1>4, <2>2, <2>3
<1>10. ASSUME Simple!BeginReview \/ Simple!Crash \/ \E b \in BOOLEAN, m \in {"files", "patch"} : Simple!Begin(b, m)
      PROVE  FALSE
  <2>1. work'[f] = Simple!Idle
    BY <1>10 DEF Simple!BeginReview, Simple!Crash, Simple!Begin
  <2> QED
    BY <2>1, IdleJob
<1>11. ASSUME Simple!Return \/ Simple!Done \/ UNCHANGED simpleVars
       PROVE  FALSE
  BY <1>2, <1>11 DEF Simple!Return, Simple!Done, Simple!vars, simpleVars
<1>12. ASSUME NEW g \in ReviewFiles,
              \/ Simple!EditFile(g) \/ Simple!NotCached(g)
              \/ Simple!Lookup(g) \/ Simple!Replay(g) \/ Simple!RejectRecord(g) \/ Simple!Resume(g)
              \/ Simple!SkipFile(g) \/ Simple!ReadFile(g) \/ Simple!StartChunks(g) \/ Simple!SplitChunk(g)
              \/ \E b \in BOOLEAN : \/ \E p \in ToolPlaces : Simple!UseTool(g, p, b)
                                    \/ Simple!ReviewChunk(g, b)
                                    \/ Simple!FailFile(g, b) \/ Simple!DeliverRecord(g, b)
              \/ Simple!CancelFile(g) \/ Simple!EndChunks(g) \/ Simple!EndEntry(g)
              \/ Simple!PutRecord(g)
       PROVE  Simple!Resume(f)
  <2>1. CASE Simple!EditFile(g) \/ Simple!PutRecord(g)
    BY <1>3, <2>1
  <2>2. CASE \/ Simple!NotCached(g) \/ Simple!SkipFile(g) \/ Simple!CancelFile(g)
             \/ \E b \in BOOLEAN : Simple!FailFile(g, b) \/ Simple!DeliverRecord(g, b)
    BY <1>6, <2>2
  <2>3. CASE Simple!ReadFile(g) \/ Simple!Lookup(g) \/ Simple!RejectRecord(g)
    BY <1>7, <2>3
  <2>4. CASE \E b \in BOOLEAN, p \in ToolPlaces : Simple!UseTool(g, p, b)
    BY <1>8, <2>4
  <2>5. CASE \/ Simple!SplitChunk(g) \/ Simple!StartChunks(g) \/ Simple!Replay(g)
             \/ \E b \in BOOLEAN : Simple!ReviewChunk(g, b)
    BY <1>8, <2>5
  <2>6. CASE Simple!EndChunks(g) \/ Simple!EndEntry(g)
    BY <1>9, <2>6
  <2>7. CASE Simple!Resume(g)
    BY <1>5, <2>7
  <2> QED
    BY <1>12, <2>1, <2>2, <2>3, <2>4, <2>5, <2>6, <2>7
<1>13. ASSUME NEW p \in ToolPlaces, Simple!EditTree(p) PROVE FALSE
  BY <1>2, <1>13 DEF Simple!EditTree
<1> QED
  BY <1>10, <1>11, <1>12, <1>13 DEF Simple!Next

LEMMA ResumesOnlyCurrent ==
    ASSUME SimpleInv, Simple!Next \/ UNCHANGED simpleVars PROVE Simple!ResumesCurrent
<1> SUFFICES ASSUME NEW f \in ReviewFiles, work[f].at # "cached", work'[f].at = "cached"
             PROVE  /\ answers'[f].text = work[f].text
                    /\ \A r \in answers'[f].seen : r[2] \in work[f].since[r[1]]..tree[r[1]]
  BY DEF Simple!ResumesCurrent
<1>1. Simple!Resume(f)
  BY ResumingSteps
<1>2. answers'[f] = [text |-> work[f].record.text, seen |-> work[f].record.seen]
  BY <1>1, JobTyped DEF Simple!Resume
<1>3. work[f].record.text = work[f].text
  BY <1>1, JobTyped DEF Simple!Resume, ReplaySound, Confirmed
<1> QED
  BY <1>1, <1>2, <1>3, ConfirmedIsCurrent

(* _review_file_standard and checkpoint_evidence_valid, for any files,     *)
(* places, tools, edits and crashes, edits between the lookup of a record, *)
(* the calls that are made again and the answer included: a result taken   *)
(* from a checkpoint is of the text the job read, and every read it rests  *)
(* on is one that the codebase showed after the job looked it up.          *)
THEOREM CheckpointsAreCurrent == Spec => ResumedIsCurrent
<1> DEFINE Inv == component = "simple" => SimpleInv
           Step == component = "simple" => Simple!ResumesCurrent
<1>1. Init => Inv
  BY SimpleInitial DEF Init
<1>2. Inv /\ [Next]_vars => Inv'
  BY ComponentSteps, SimpleStepKeeps
<1>3. Inv /\ [Next]_vars => [Step]_vars
  BY ComponentSteps, ResumesOnlyCurrent
<1> QED
  BY <1>1, <1>2, <1>3, PTL DEF Spec, ResumedIsCurrent

-----------------------------------------------------------------------------
(* Generated artifacts.  Time stamps only grow, and what a user writes     *)
(* moves them: a committed signature that still fits is of a file that     *)
(* nobody but a publisher wrote.                                           *)

Blocks == {b \in Seq(Nat) : Len(b) = 2}
FileRecord == [blocks : Blocks, mtime : Nat, ctime : Nat, nlink : Nat,
               author : Publishers \cup {"user", "nobody"}]
PublicationRecord == [at : {"idle", "written", "locked", "replaced", "ended"}, inode : Nat,
                      previous : Seq(Nat), failed : BOOLEAN]
SnapshotRecord == [at : {"none", "copy", "raised", "taken"}, inode : Nat, before : FileRecord,
                   copied : Seq(Nat)]

FilesTyped ==
    /\ created \in 0..MaxInodes /\ path \in 0..created
    /\ inodes \in [1..MaxInodes -> FileRecord]
    /\ history \in [1..MaxInodes -> SUBSET Blocks]
    /\ pub \in [Publishers -> PublicationRecord]
    /\ snap \in SnapshotRecord /\ registry \in Seq(Nat)
    /\ filesEdits \in Nat /\ raced \in BOOLEAN

Contents == \A i \in 1..created : inodes[i].blocks \in history[i]

Holds(p) == pub[p].at \in {"locked", "replaced"}
Temporary(p) == pub[p].at \in {"written", "locked"}

LockHeld == lock \in Publishers \cup {"nobody"} /\ \A p \in Publishers : lock = p <=> Holds(p)

(* A file that is not yet in its place is nobody else's. *)
OwnFiles ==
    /\ \A p \in Publishers : Temporary(p) =>
          /\ pub[p].inode \in 1..created /\ pub[p].inode # path
          /\ inodes[pub[p].inode].author \in Publishers
    /\ \A p, q \in Publishers : Temporary(p) /\ Temporary(q) /\ pub[p].inode = pub[q].inode => p = q

(* Under the lock the file is the one that was found or the one put there. *)
Undisturbed(p) ==
    /\ pub[p].at = "locked" \/ (pub[p].at = "replaced" /\ pub[p].failed) =>
          pub[p].previous = Files!Fingerprint(path)
    /\ pub[p].at = "replaced" /\ ~pub[p].failed =>
          path # 0 /\ inodes[path].author \in Publishers

(* A signature is of no later state, and of the present one only if a      *)
(* publisher wrote it.                                                     *)
Signs(i, m, c) ==
    /\ registry = <<i, m, c>>
    /\ m <= inodes[i].mtime /\ c <= inodes[i].ctime
    /\ m = inodes[i].mtime /\ c = inodes[i].ctime => inodes[i].author \in Publishers
Signed == registry # <<>> => \E i \in 1..created, m, c \in Nat : Signs(i, m, c)

(* What was copied is of the version found, unless the file changed. *)
Copying ==
    /\ snap.at # "none" => snap.inode \in 1..created
    /\ snap.at = "copy" =>
          /\ Len(snap.copied) <= 2 /\ snap.before.blocks \in history[snap.inode]
          /\ snap.before.mtime <= inodes[snap.inode].mtime
          /\ snap.before.mtime = inodes[snap.inode].mtime =>
                /\ inodes[snap.inode].blocks = snap.before.blocks
                /\ \A k \in 1..Len(snap.copied) : snap.copied[k] = snap.before.blocks[k]

FilesInv ==
    /\ FilesTyped /\ Contents /\ LockHeld /\ OwnFiles
    /\ ~raced => Signed /\ \A p \in Publishers : Undisturbed(p)
    /\ Copying /\ Files!SnapshotIsOneVersion

(* What no step undoes. *)
Aged ==
    /\ created' \in 0..MaxInodes /\ created <= created'
    /\ \A i \in 1..created :
          /\ inodes[i].mtime <= inodes'[i].mtime /\ inodes[i].ctime <= inodes'[i].ctime
          /\ inodes[i].mtime = inodes'[i].mtime =>
                inodes'[i].blocks = inodes[i].blocks /\ inodes'[i].author = inodes[i].author
          /\ history[i] \subseteq history'[i]

LEMMA NewBlocks == \A n \in Nat : <<n, n>> \in Blocks
<1> TAKE n \in Nat
<1>1. <<n, n>> \in Seq(Nat) /\ Len(<<n, n>>) = 2
  OBVIOUS
<1> QED
  BY <1>1 DEF Blocks

LEMMA FingerprintIsSignature ==
    ASSUME FilesTyped PROVE Files!Fingerprint(path) \in Seq(Nat)
<1>1. <<>> \in Seq(Nat)
  OBVIOUS
<1>2. CASE path = 0
  BY <1>1, <1>2 DEF Files!Fingerprint, Files!NoSignature
<1>3. CASE path # 0
  <2>1. path \in 1..MaxInodes /\ path \in Nat
    BY <1>3, FilesAssumption DEF FilesTyped
  <2>2. inodes[path] \in FileRecord
    BY <2>1 DEF FilesTyped
  <2>3. inodes[path].mtime \in Nat /\ inodes[path].ctime \in Nat
    BY <2>2 DEF FileRecord
  <2> QED
    BY <1>3, <2>1, <2>3 DEF Files!Fingerprint
<1> QED
  BY <1>2, <1>3

LEMMA FilesInitial == Files!FileInit => FilesInv
<1> SUFFICES ASSUME Files!FileInit PROVE FilesInv
  OBVIOUS
<1>0. <<>> \in Seq(Nat)
  OBVIOUS
<1>1. Files!NoFile \in FileRecord
  BY NewBlocks DEF Files!NoFile, Files!Nobody, FileRecord
<1>2. Files!IdlePublication \in PublicationRecord /\ Files!NoSnapshot \in SnapshotRecord
  BY <1>0, <1>1 DEF Files!IdlePublication, Files!NoSnapshot, Files!NoSignature, PublicationRecord,
    SnapshotRecord
<1>3. FilesTyped
  <2>1. inodes \in [1..MaxInodes -> FileRecord] /\ pub \in [Publishers -> PublicationRecord]
    BY <1>1, <1>2 DEF Files!FileInit
  <2>2. history \in [1..MaxInodes -> SUBSET Blocks] /\ created \in 0..MaxInodes /\ path \in 0..created
    BY FilesAssumption DEF Files!FileInit
  <2>3. registry \in Seq(Nat) /\ snap \in SnapshotRecord /\ filesEdits \in Nat /\ raced \in BOOLEAN
    BY <1>0, <1>2 DEF Files!FileInit, Files!NoSignature
  <2> QED
    BY <2>1, <2>2, <2>3 DEF FilesTyped
<1>4. \A p \in Publishers : pub[p].at = "idle"
  BY DEF Files!FileInit, Files!IdlePublication
<1>5. snap.at = "none" /\ registry = <<>> /\ lock = "nobody" /\ created = 0
  BY DEF Files!FileInit, Files!NoSnapshot, Files!NoSignature, Files!Nobody
<1>6. Contents /\ Copying /\ Files!SnapshotIsOneVersion /\ Signed
  BY <1>5 DEF Contents, Copying, Files!SnapshotIsOneVersion, Signed
<1>7. LockHeld
  BY <1>4, <1>5, FilesAssumption DEF LockHeld, Holds
<1>8. OwnFiles /\ \A p \in Publishers : Undisturbed(p)
  BY <1>4 DEF OwnFiles, Undisturbed, Temporary
<1> QED
  BY <1>3, <1>6, <1>7, <1>8 DEF FilesInv

(* Steps that leave the files alone: only publications and the registry.   *)
Bookkeeping ==
    /\ UNCHANGED <<inodes, created, path, filesEdits, raced, snap, history>>

LEMMA PublicationStep ==
    ASSUME FilesTyped, NEW p \in Publishers, NEW r \in PublicationRecord,
           pub' = [pub EXCEPT ![p] = r]
    PROVE  /\ pub' \in [Publishers -> PublicationRecord]
           /\ pub'[p] = r /\ \A q \in Publishers : q # p => pub'[q] = pub[q]
BY DEF FilesTyped

(* A publication moves on, the files stay. *)
LEMMA BookkeepingKeeps ==
    ASSUME FilesInv, Bookkeeping, NEW p \in Publishers, NEW r \in PublicationRecord,
           pub' = [pub EXCEPT ![p] = r],
           lock' \in Publishers \cup {"nobody"}, registry' \in Seq(Nat), ~raced => Signed',
           lock' = p <=> r.at \in {"locked", "replaced"},
           \A q \in Publishers : q # p => (lock' = q <=> lock = q),
           r.at \in {"written", "locked"} => Temporary(p) /\ r.inode = pub[p].inode,
           ~raced /\ r.at \in {"locked", "replaced"} => r.previous = Files!Fingerprint(path),
           r.at = "replaced" => r.failed
    PROVE  FilesInv'
<1>0. /\ inodes' = inodes /\ created' = created /\ path' = path /\ filesEdits' = filesEdits
      /\ raced' = raced /\ snap' = snap /\ history' = history
  BY DEF Bookkeeping
<1>1. /\ pub' \in [Publishers -> PublicationRecord]
      /\ pub'[p] = r /\ \A q \in Publishers : q # p => pub'[q] = pub[q]
  BY PublicationStep DEF FilesInv
<1>2. FilesTyped'
  BY <1>0, <1>1 DEF FilesInv, FilesTyped
<1>3. Contents' /\ Copying' /\ Files!SnapshotIsOneVersion'
  BY <1>0 DEF FilesInv, Contents, Copying, Files!SnapshotIsOneVersion
<1>4. LockHeld'
  BY <1>1 DEF FilesInv, LockHeld, Holds
<1>5. OwnFiles'
  <2>1. \A q \in Publishers : Temporary(q)' => Temporary(q) /\ pub'[q].inode = pub[q].inode
    BY <1>1 DEF Temporary
  <2> QED
    BY <1>0, <2>1 DEF FilesInv, OwnFiles
<1>6. ASSUME NEW q \in Publishers, ~raced PROVE Undisturbed(q)'
  <2>1. Files!Fingerprint(path)' = Files!Fingerprint(path)
    BY <1>0 DEF Files!Fingerprint
  <2>2. CASE q = p
    BY <1>1, <1>6, <2>1, <2>2 DEF Undisturbed
  <2>3. CASE q # p
    BY <1>0, <1>1, <1>6, <2>1, <2>3 DEF Undisturbed, FilesInv
  <2> QED
    BY <2>2, <2>3
<1> QED
  BY <1>0, <1>2, <1>3, <1>4, <1>5, <1>6 DEF FilesInv

LEMMA PublisherEnds ==
    ASSUME FilesInv, NEW p \in Publishers,
           \/ Files!WriteFails(p) \/ Files!LockTimesOut(p) \/ Files!PublisherDies(p)
    PROVE  FilesInv'
<1> DEFINE r == [pub[p] EXCEPT !.at = "ended"]
<1>1. pub[p] \in PublicationRecord
  BY DEF FilesInv, FilesTyped
<1>2. r \in PublicationRecord /\ r.at = "ended"
  BY <1>1 DEF PublicationRecord
<1>3. pub' = [pub EXCEPT ![p] = r] /\ Bookkeeping /\ registry' = registry
  BY DEF Files!WriteFails, Files!LockTimesOut, Files!PublisherDies, Bookkeeping
<1>4. ~raced => Signed'
  BY <1>3 DEF FilesInv, Signed, Signs, Bookkeeping
<1>5. /\ lock' \in Publishers \cup {"nobody"} /\ lock' # p
      /\ \A q \in Publishers : q # p => (lock' = q <=> lock = q)
  <2>1. CASE Files!WriteFails(p) \/ Files!LockTimesOut(p)
    <3>1. lock' = lock /\ pub[p].at = "written"
      BY <2>1 DEF Files!WriteFails, Files!LockTimesOut
    <3>2. lock # p
      BY <3>1 DEF FilesInv, LockHeld, Holds
    <3> QED
      BY <3>1, <3>2 DEF FilesInv, LockHeld
  <2>2. CASE Files!PublisherDies(p)
    BY <2>2, FilesAssumption DEF Files!PublisherDies, Files!Nobody, FilesInv, LockHeld
  <2> QED
    BY <2>1, <2>2
<1>6. registry' \in Seq(Nat)
  BY <1>3 DEF FilesInv, FilesTyped
<1>7. lock' = p <=> r.at \in {"locked", "replaced"}
  BY <1>2, <1>5
<1>8. /\ r.at \in {"written", "locked"} => Temporary(p) /\ r.inode = pub[p].inode
      /\ ~raced /\ r.at \in {"locked", "replaced"} => r.previous = Files!Fingerprint(path)
      /\ r.at = "replaced" => r.failed
  BY <1>2
<1> HIDE DEF r
<1> QED
  BY <1>2, <1>3, <1>4, <1>5, <1>6, <1>7, <1>8, BookkeepingKeeps

LEMMA BeginKeeps ==
    ASSUME FilesInv, NEW p \in Publishers, Files!BeginPublication(p) PROVE FilesInv'
<1> DEFINE r == [pub[p] EXCEPT !.at = "locked", !.previous = Files!Fingerprint(path)]
<1>0. FilesTyped /\ pub[p] \in PublicationRecord /\ Files!Fingerprint(path) \in Seq(Nat)
  BY FingerprintIsSignature DEF FilesInv, FilesTyped
<1>2. /\ r \in PublicationRecord /\ r.at = "locked" /\ r.inode = pub[p].inode
      /\ r.previous = Files!Fingerprint(path)
  BY <1>0 DEF PublicationRecord
<1>3. /\ pub' = [pub EXCEPT ![p] = r] /\ Bookkeeping /\ registry' = registry
      /\ pub[p].at = "written" /\ lock = "nobody" /\ lock' = p
  BY DEF Files!BeginPublication, Bookkeeping, Files!Nobody
<1>4. ~raced => Signed'
  BY <1>3 DEF FilesInv, Signed, Signs, Bookkeeping
<1>5. /\ lock' \in Publishers \cup {"nobody"}
      /\ \A q \in Publishers : q # p => (lock' = q <=> lock = q)
      /\ lock' = p <=> r.at \in {"locked", "replaced"}
  BY <1>2, <1>3, FilesAssumption
<1>6. registry' \in Seq(Nat)
  BY <1>3 DEF FilesInv, FilesTyped
<1>8. /\ r.at \in {"written", "locked"} => Temporary(p) /\ r.inode = pub[p].inode
      /\ ~raced /\ r.at \in {"locked", "replaced"} => r.previous = Files!Fingerprint(path)
      /\ r.at = "replaced" => r.failed
  BY <1>2, <1>3 DEF Temporary
<1> HIDE DEF r
<1> QED
  BY <1>2, <1>3, <1>4, <1>5, <1>6, <1>8, BookkeepingKeeps

(* The finally block: what is recorded is of a publisher, or nothing is. *)
LEMMA EndKeeps ==
    ASSUME FilesInv, NEW p \in Publishers, NEW b \in BOOLEAN, Files!EndPublication(p, b)
    PROVE  FilesInv'
<1> DEFINE r == [pub[p] EXCEPT !.at = "ended"]
<1>0. FilesTyped /\ pub[p] \in PublicationRecord /\ Files!Fingerprint(path) \in Seq(Nat)
  BY FingerprintIsSignature DEF FilesInv, FilesTyped
<1>2. r \in PublicationRecord /\ r.at = "ended"
  BY <1>0 DEF PublicationRecord
<1>3. /\ pub' = [pub EXCEPT ![p] = r] /\ Bookkeeping /\ pub[p].at = "replaced"
      /\ lock' = "nobody" /\ lock = p
      /\ registry' = IF Files!Records(p) /\ b THEN Files!Fingerprint(path) ELSE registry
  BY DEF Files!EndPublication, Bookkeeping, Files!Nobody, FilesInv, LockHeld, Holds
<1>4. ASSUME ~raced PROVE Signed'
  <2>1. CASE registry' = registry
    BY <1>3, <1>4, <2>1 DEF FilesInv, Signed, Signs, Bookkeeping
  <2>2. CASE registry' # registry
    <3>1. registry' = Files!Fingerprint(path) /\ Files!Records(p)
      BY <1>3, <2>2
    <3>2. path # 0 /\ inodes[path].author \in Publishers
      BY <1>0, <1>3, <1>4, <3>1 DEF Files!Records, FilesInv, Undisturbed, PublicationRecord
    <3>3. registry' = <<path, inodes[path].mtime, inodes[path].ctime>>
      BY <3>1, <3>2 DEF Files!Fingerprint
    <3>4. path \in 1..created /\ inodes[path] \in FileRecord
      BY <1>0, <3>2, FilesAssumption DEF FilesTyped
    <3>5. inodes[path].mtime \in Nat /\ inodes[path].ctime \in Nat
      BY <3>4 DEF FileRecord
    <3>6. Signs(path, inodes[path].mtime, inodes[path].ctime)'
      BY <1>3, <3>2, <3>3, <3>5 DEF Signs, Bookkeeping
    <3>7. /\ path \in 1..created' /\ path' = path /\ inodes' = inodes
      BY <1>3, <3>4 DEF Bookkeeping
    <3> QED
      BY <3>5, <3>6, <3>7 DEF Signed
  <2> QED
    BY <2>1, <2>2
<1>5. /\ lock' \in Publishers \cup {"nobody"}
      /\ \A q \in Publishers : q # p => (lock' = q <=> lock = q)
      /\ lock' = p <=> r.at \in {"locked", "replaced"}
  BY <1>2, <1>3, FilesAssumption
<1>6. registry' \in Seq(Nat)
  BY <1>0, <1>3 DEF FilesTyped
<1>8. /\ r.at \in {"written", "locked"} => Temporary(p) /\ r.inode = pub[p].inode
      /\ ~raced /\ r.at \in {"locked", "replaced"} => r.previous = Files!Fingerprint(path)
      /\ r.at = "replaced" => r.failed
  BY <1>2
<1> HIDE DEF r
<1> QED
  BY <1>2, <1>3, <1>4, <1>5, <1>6, <1>8, BookkeepingKeeps

LEMMA ReplaceFails ==
    ASSUME FilesInv, NEW p \in Publishers, Files!Replace(p, TRUE) PROVE FilesInv'
<1> DEFINE r == [pub[p] EXCEPT !.at = "replaced", !.failed = TRUE]
<1>0. FilesTyped /\ pub[p] \in PublicationRecord
  BY DEF FilesInv, FilesTyped
<1>2. r \in PublicationRecord /\ r.at = "replaced" /\ r.failed /\ r.previous = pub[p].previous
  BY <1>0 DEF PublicationRecord
<1>3. /\ pub' = [pub EXCEPT ![p] = r] /\ Bookkeeping /\ pub[p].at = "locked"
      /\ lock' = lock /\ registry' = registry
  BY DEF Files!Replace, Bookkeeping
<1>4. ~raced => Signed'
  BY <1>3 DEF FilesInv, Signed, Signs, Bookkeeping
<1>5. /\ lock' \in Publishers \cup {"nobody"}
      /\ \A q \in Publishers : q # p => (lock' = q <=> lock = q)
      /\ lock' = p <=> r.at \in {"locked", "replaced"}
  BY <1>2, <1>3 DEF FilesInv, LockHeld, Holds
<1>6. registry' \in Seq(Nat)
  BY <1>0, <1>3 DEF FilesTyped
<1>8. /\ r.at \in {"written", "locked"} => Temporary(p) /\ r.inode = pub[p].inode
      /\ ~raced /\ r.at \in {"locked", "replaced"} => r.previous = Files!Fingerprint(path)
      /\ r.at = "replaced" => r.failed
  BY <1>2, <1>3 DEF FilesInv, Undisturbed
<1> HIDE DEF r
<1> QED
  BY <1>2, <1>3, <1>4, <1>5, <1>6, <1>8, BookkeepingKeeps

-----------------------------------------------------------------------------
LEMMA AgedKeeps ==
    ASSUME FilesInv, FilesTyped', Aged, snap' = snap, registry' = registry, raced => raced'
    PROVE  Copying' /\ Files!SnapshotIsOneVersion' /\ (~raced' => Signed')
<1>0. /\ created \in Nat /\ created' \in Nat /\ 1..created \subseteq 1..MaxInodes
      /\ 1..created \subseteq 1..created'
  BY FilesAssumption DEF FilesInv, FilesTyped, Aged
<1>1. \A i \in 1..created :
         /\ inodes[i].mtime \in Nat /\ inodes[i].ctime \in Nat
         /\ inodes'[i].mtime \in Nat /\ inodes'[i].ctime \in Nat
  <2> TAKE i \in 1..created
  <2>1. inodes[i] \in FileRecord /\ inodes'[i] \in FileRecord
    BY <1>0 DEF FilesInv, FilesTyped
  <2> QED
    BY <2>1 DEF FileRecord
<1>2. snap \in SnapshotRecord /\ snap.before.mtime \in Nat /\ snap.at # "none" => snap.inode \in 1..created
  BY DEF FilesInv, FilesTyped, Copying, SnapshotRecord, FileRecord
<1>3. Copying'
  <2>1. snap.at # "none" => snap.inode \in 1..created'
    BY <1>0, <1>2 DEF FilesInv, Copying
  <2>2. ASSUME snap.at = "copy"
        PROVE  /\ Len(snap.copied) <= 2 /\ snap.before.blocks \in history'[snap.inode]
               /\ snap.before.mtime <= inodes'[snap.inode].mtime
               /\ snap.before.mtime = inodes'[snap.inode].mtime =>
                    /\ inodes'[snap.inode].blocks = snap.before.blocks
                    /\ \A k \in 1..Len(snap.copied) : snap.copied[k] = snap.before.blocks[k]
    <3> DEFINE i == snap.inode
    <3>1. /\ i \in 1..created /\ Len(snap.copied) <= 2 /\ snap.before.blocks \in history[i]
          /\ snap.before.mtime <= inodes[i].mtime
          /\ snap.before.mtime = inodes[i].mtime =>
               /\ inodes[i].blocks = snap.before.blocks
               /\ \A k \in 1..Len(snap.copied) : snap.copied[k] = snap.before.blocks[k]
      BY <2>2 DEF FilesInv, Copying
    <3>2. /\ inodes[i].mtime <= inodes'[i].mtime /\ history[i] \subseteq history'[i]
          /\ inodes[i].mtime = inodes'[i].mtime => inodes'[i].blocks = inodes[i].blocks
      BY <3>1 DEF Aged
    <3>3. snap.before.mtime \in Nat
      BY DEF FilesInv, FilesTyped, SnapshotRecord, FileRecord
    <3>4. inodes[i].mtime \in Nat /\ inodes'[i].mtime \in Nat
      BY <1>1, <3>1
    <3> HIDE DEF i
    <3>5. snap.before.mtime = inodes'[i].mtime => snap.before.mtime = inodes[i].mtime /\ inodes[i].mtime = inodes'[i].mtime
      BY <3>1, <3>2, <3>3, <3>4
    <3>6. snap.before.mtime <= inodes'[i].mtime
      BY <3>1, <3>2, <3>3, <3>4
    <3> QED
      BY <3>1, <3>2, <3>5, <3>6 DEF i
  <2> QED
    BY <2>1, <2>2 DEF Copying
<1>4. Files!SnapshotIsOneVersion'
  <2>1. snap.at = "taken" => snap.inode \in 1..created /\ snap.copied \in history[snap.inode]
    BY DEF FilesInv, Copying, Files!SnapshotIsOneVersion
  <2> QED
    BY <2>1 DEF Aged, Files!SnapshotIsOneVersion
<1>5. ASSUME ~raced', registry # <<>> PROVE \E i \in 1..created', m, c \in Nat : Signs(i, m, c)'
  <2>1. PICK i \in 1..created, m \in Nat, c \in Nat : Signs(i, m, c)
    BY <1>5 DEF FilesInv, Signed
  <2>2. /\ registry = <<i, m, c>> /\ m <= inodes[i].mtime /\ c <= inodes[i].ctime
        /\ m = inodes[i].mtime /\ c = inodes[i].ctime => inodes[i].author \in Publishers
    BY <2>1 DEF Signs
  <2>3. /\ inodes[i].mtime <= inodes'[i].mtime /\ inodes[i].ctime <= inodes'[i].ctime
        /\ inodes[i].mtime = inodes'[i].mtime => inodes'[i].author = inodes[i].author
    BY DEF Aged
  <2>4. /\ inodes[i].mtime \in Nat /\ inodes[i].ctime \in Nat
        /\ inodes'[i].mtime \in Nat /\ inodes'[i].ctime \in Nat
    BY <1>1
  <2>5. m <= inodes'[i].mtime /\ c <= inodes'[i].ctime
    BY <2>2, <2>3, <2>4
  <2>6. m = inodes'[i].mtime /\ c = inodes'[i].ctime =>
           /\ m = inodes[i].mtime /\ c = inodes[i].ctime /\ inodes[i].mtime = inodes'[i].mtime
    BY <2>2, <2>3, <2>4
  <2>7. Signs(i, m, c)'
    BY <2>2, <2>3, <2>5, <2>6 DEF Signs
  <2> QED
    BY <1>0, <2>7
<1> QED
  BY <1>3, <1>4, <1>5 DEF Signed

LEMMA WriteKeeps ==
    ASSUME FilesInv, NEW p \in Publishers, Files!WriteTemporary(p) PROVE FilesInv'
<1> DEFINE n == created + 1
           r == [Files!IdlePublication EXCEPT !.at = "written", !.inode = n]
           file == Files!NewFile(<<n, n>>, p)
<1>0. /\ created \in 0..MaxInodes /\ created < MaxInodes /\ created' = n /\ path \in 0..created
      /\ pub[p].at = "idle"
      /\ inodes' = [inodes EXCEPT ![n] = file] /\ history' = [history EXCEPT ![n] = {<<n, n>>}]
      /\ pub' = [pub EXCEPT ![p] = r]
      /\ path' = path /\ registry' = registry /\ lock' = lock /\ filesEdits' = filesEdits
      /\ raced' = raced /\ snap' = snap
  BY DEF Files!WriteTemporary, FilesInv, FilesTyped
<1>1. n \in 1..MaxInodes /\ n \in Nat /\ n # path /\ n \notin 1..created /\ 1..n = 1..created \cup {n}
      /\ created \in Nat
  BY <1>0, FilesAssumption
<1>2. file \in FileRecord /\ file.author = p /\ file.blocks = <<n, n>>
  BY <1>1, NewBlocks DEF Files!NewFile, FileRecord
<1>3. r \in PublicationRecord /\ r.at = "written" /\ r.inode = n
  <2>1. <<>> \in Seq(Nat)
    OBVIOUS
  <2> QED
    BY <1>1, <2>1 DEF Files!IdlePublication, Files!NoSignature, PublicationRecord
<1> HIDE DEF n, r, file
<1>4. /\ pub' \in [Publishers -> PublicationRecord]
      /\ pub'[p] = r /\ \A q \in Publishers : q # p => pub'[q] = pub[q]
  BY <1>0, <1>3, PublicationStep DEF FilesInv
<1>5. /\ inodes' \in [1..MaxInodes -> FileRecord] /\ history' \in [1..MaxInodes -> SUBSET Blocks]
      /\ inodes'[n] = file /\ history'[n] = {<<n, n>>}
      /\ \A i \in 1..MaxInodes : i # n => inodes'[i] = inodes[i] /\ history'[i] = history[i]
  BY <1>0, <1>1, <1>2, NewBlocks DEF FilesInv, FilesTyped
<1>6. created' \in 0..MaxInodes /\ path' \in 0..created' /\ created <= created'
  BY <1>0, <1>1 DEF n
<1>7. FilesTyped'
  BY <1>0, <1>4, <1>5, <1>6 DEF FilesInv, FilesTyped
<1>8. \A i \in 1..created : i \in 1..MaxInodes /\ i # n
  <2>1. 1..created \subseteq 1..MaxInodes
    BY FilesAssumption DEF FilesInv, FilesTyped
  <2> QED
    BY <1>1, <2>1
<1>9. \A i \in 1..created : inodes'[i] = inodes[i] /\ history'[i] = history[i]
  BY <1>5, <1>8
<1>10. \A i \in 1..created : inodes[i].mtime \in Nat /\ inodes[i].ctime \in Nat
  BY <1>8 DEF FilesInv, FilesTyped, FileRecord
<1>11. Aged
  BY <1>6, <1>9, <1>10 DEF Aged
<1>12. Contents'
  BY <1>0, <1>1, <1>2, <1>5, <1>9 DEF FilesInv, Contents
<1>13. LockHeld'
  BY <1>0, <1>3, <1>4 DEF FilesInv, LockHeld, Holds
<1>14. OwnFiles'
  <2>1. \A q \in Publishers : q # p /\ Temporary(q)' => Temporary(q) /\ pub'[q].inode = pub[q].inode
    BY <1>4 DEF Temporary
  <2>2. \A q \in Publishers : q # p /\ Temporary(q)' =>
          /\ pub'[q].inode \in 1..created /\ pub'[q].inode # path'
          /\ inodes'[pub'[q].inode].author \in Publishers
    BY <1>0, <1>9, <2>1 DEF FilesInv, OwnFiles
  <2>3. \A q \in Publishers : Temporary(q)' =>
          /\ pub'[q].inode \in 1..created' /\ pub'[q].inode # path'
          /\ inodes'[pub'[q].inode].author \in Publishers
    BY <1>0, <1>1, <1>2, <1>3, <1>4, <1>5, <2>2
  <2>4. \A q, s \in Publishers : Temporary(q)' /\ Temporary(s)' /\ pub'[q].inode = pub'[s].inode => q = s
    BY <1>1, <1>3, <1>4, <2>1, <2>2 DEF FilesInv, OwnFiles
  <2> QED
    BY <2>3, <2>4 DEF OwnFiles
<1>15. ASSUME NEW q \in Publishers, ~raced PROVE Undisturbed(q)'
  <2>1. path # 0 => path \in 1..created
    BY <1>0
  <2>2. Files!Fingerprint(path)' = Files!Fingerprint(path)
    BY <1>0, <1>9, <2>1 DEF Files!Fingerprint
  <2>3. path # 0 => inodes'[path] = inodes[path]
    BY <1>9, <2>1
  <2>4. CASE q = p
    BY <1>3, <1>4, <2>4 DEF Undisturbed
  <2>5. CASE q # p
    BY <1>0, <1>4, <1>15, <2>2, <2>3, <2>5 DEF Undisturbed, FilesInv
  <2> QED
    BY <2>4, <2>5
<1> QED
  BY <1>0, <1>7, <1>11, <1>12, <1>13, <1>14, <1>15, AgedKeeps DEF FilesInv

(* Renaming touches the times of two files, and nothing else of them. *)
LEMMA RenamedFiles ==
    ASSUME FilesTyped, NEW i \in Nat
    PROVE  /\ Files!Renamed(i) \in [1..MaxInodes -> FileRecord]
           /\ \A j \in 1..MaxInodes :
                /\ Files!Renamed(i)[j].blocks = inodes[j].blocks
                /\ Files!Renamed(i)[j].author = inodes[j].author
                /\ Files!Renamed(i)[j].mtime = inodes[j].mtime
                /\ inodes[j].ctime <= Files!Renamed(i)[j].ctime
                /\ inodes[j].mtime \in Nat
<1> SUFFICES ASSUME NEW j \in 1..MaxInodes
             PROVE  /\ Files!Renamed(i)[j] \in FileRecord
                    /\ Files!Renamed(i)[j].blocks = inodes[j].blocks
                    /\ Files!Renamed(i)[j].author = inodes[j].author
                    /\ Files!Renamed(i)[j].mtime = inodes[j].mtime
                    /\ inodes[j].ctime <= Files!Renamed(i)[j].ctime
                    /\ inodes[j].mtime \in Nat
  BY DEF Files!Renamed
<1> DEFINE f == inodes[j]
<1>1. f \in FileRecord
  BY DEF FilesTyped
<1>2. f.ctime \in Nat /\ f.mtime \in Nat
  BY <1>1 DEF FileRecord
<1>3. f.ctime + 1 \in Nat /\ f.ctime <= f.ctime + 1 /\ f.ctime <= f.ctime
  BY <1>2
<1>4. CASE j = i
  <2>1. Files!Renamed(i)[j] = [f EXCEPT !.ctime = f.ctime + 1]
    BY <1>4 DEF Files!Renamed
  <2> QED
    BY <1>1, <1>2, <1>3, <2>1 DEF FileRecord
<1>5. CASE j # i /\ j = path
  <2>0. f = [blocks |-> f.blocks, mtime |-> f.mtime, ctime |-> f.ctime, nlink |-> f.nlink,
             author |-> f.author]
    BY <1>1 DEF FileRecord
  <2>1. Files!Renamed(i)[j] = [blocks |-> f.blocks, mtime |-> f.mtime, ctime |-> f.ctime + 1,
                               nlink |-> 0, author |-> f.author]
    BY <1>5, <2>0 DEF Files!Renamed
  <2> QED
    BY <1>1, <1>2, <1>3, <2>1 DEF FileRecord
<1>6. CASE j # i /\ j # path
  <2>1. Files!Renamed(i)[j] = f
    BY <1>6 DEF Files!Renamed
  <2> QED
    BY <1>1, <1>2, <1>3, <2>1
<1> QED
  BY <1>4, <1>5, <1>6

LEMMA ReplaceKeeps ==
    ASSUME FilesInv, NEW p \in Publishers, Files!Replace(p, FALSE) PROVE FilesInv'
<1> DEFINE n == pub[p].inode
           r == [pub[p] EXCEPT !.at = "replaced", !.failed = FALSE]
<1>0. /\ pub[p].at = "locked" /\ pub' = [pub EXCEPT ![p] = r]
      /\ inodes' = Files!Renamed(n) /\ path' = n
      /\ created' = created /\ registry' = registry /\ lock' = lock /\ filesEdits' = filesEdits
      /\ raced' = raced /\ snap' = snap /\ history' = history
  BY DEF Files!Replace
<1>1. FilesTyped /\ pub[p] \in PublicationRecord /\ n \in Nat /\ n \in 1..created /\ lock = p
      /\ inodes[n].author \in Publishers /\ created \in 0..MaxInodes /\ Temporary(p)
  BY <1>0 DEF FilesInv, FilesTyped, OwnFiles, Temporary, LockHeld, Holds, PublicationRecord
<1>2. r \in PublicationRecord /\ r.at = "replaced" /\ ~r.failed
  BY <1>1 DEF PublicationRecord
<1> HIDE DEF n, r
<1>3. /\ pub' \in [Publishers -> PublicationRecord]
      /\ pub'[p] = r /\ \A q \in Publishers : q # p => pub'[q] = pub[q]
  BY <1>0, <1>1, <1>2, PublicationStep
<1>4. /\ inodes' \in [1..MaxInodes -> FileRecord]
      /\ \A j \in 1..MaxInodes :
           /\ inodes'[j].blocks = inodes[j].blocks /\ inodes'[j].author = inodes[j].author
           /\ inodes'[j].mtime = inodes[j].mtime /\ inodes[j].ctime <= inodes'[j].ctime
           /\ inodes[j].mtime \in Nat
  BY <1>0, <1>1, RenamedFiles
<1>5. path' \in 0..created /\ path' # 0 /\ 1..created \subseteq 1..MaxInodes
  BY <1>0, <1>1, FilesAssumption
<1>6. FilesTyped'
  BY <1>0, <1>1, <1>3, <1>4, <1>5 DEF FilesTyped
<1>7. \A j \in 1..created : inodes[j].mtime <= inodes'[j].mtime
  BY <1>4, <1>5
<1>8. Aged
  <2>1. created <= created'
    BY <1>0, <1>1, FilesAssumption
  <2> QED
    BY <1>0, <1>1, <1>4, <1>5, <1>7, <2>1 DEF Aged
<1>9. Contents'
  BY <1>0, <1>4, <1>5 DEF FilesInv, Contents
<1>10. LockHeld'
  BY <1>0, <1>1, <1>2, <1>3 DEF FilesInv, LockHeld, Holds
<1>11. OwnFiles'
  <2>1. \A q \in Publishers : Temporary(q)' => q # p /\ Temporary(q) /\ pub'[q].inode = pub[q].inode
    BY <1>2, <1>3 DEF Temporary
  <2>2. \A q \in Publishers : Temporary(q)' => pub'[q].inode # n
    BY <1>1, <2>1 DEF FilesInv, OwnFiles, n
  <2> QED
    BY <1>0, <1>4, <1>5, <2>1, <2>2 DEF FilesInv, OwnFiles
<1>12. ASSUME NEW q \in Publishers, ~raced PROVE Undisturbed(q)'
  <2>1. CASE q = p
    BY <1>0, <1>1, <1>2, <1>3, <1>4, <1>5, <2>1 DEF Undisturbed
  <2>2. CASE q # p
    <3>1. pub'[q].at \notin {"locked", "replaced"}
      BY <1>1, <1>3, <2>2 DEF FilesInv, LockHeld, Holds
    <3> QED
      BY <3>1 DEF Undisturbed
  <2> QED
    BY <2>1, <2>2
<1> QED
  BY <1>0, <1>6, <1>8, <1>9, <1>10, <1>11, <1>12, AgedKeeps DEF FilesInv

(* A user's step under no lock meets no publication that holds it. *)
LEMMA UsersUndisturbed ==
    ASSUME FilesInv, raced' = (raced \/ lock # "nobody"), pub' = pub
    PROVE  (raced => raced') /\ (~raced' => \A p \in Publishers : Undisturbed(p)')
<1> SUFFICES ASSUME ~raced', NEW p \in Publishers PROVE Undisturbed(p)'
  BY DEF FilesInv, FilesTyped
<1>1. lock = "nobody"
  OBVIOUS
<1>2. pub'[p].at \notin {"locked", "replaced"}
  BY <1>1, FilesAssumption DEF FilesInv, LockHeld, Holds
<1> QED
  BY <1>2 DEF Undisturbed

LEMMA FileEditKeeps ==
    ASSUME FilesInv, NEW b \in {1, 2}, Files!EditBlock(b) PROVE FilesInv'
<1> DEFINE old == inodes[path]
           new == [blocks |-> [old.blocks EXCEPT ![b] = 10 + filesEdits], mtime |-> old.mtime + 1,
                   ctime |-> old.ctime + 1, nlink |-> old.nlink, author |-> "user"]
<1>0. /\ path # 0 /\ filesEdits' = filesEdits + 1
      /\ inodes' = [inodes EXCEPT ![path] = new]
      /\ history' = [history EXCEPT ![path] = @ \union {inodes'[path].blocks}]
      /\ raced' = (raced \/ lock # "nobody")
      /\ created' = created /\ path' = path /\ registry' = registry /\ lock' = lock
      /\ pub' = pub /\ snap' = snap
  BY DEF Files!EditBlock, Files!Nobody
<1>1. /\ path \in 1..MaxInodes /\ path \in 1..created /\ 1..created \subseteq 1..MaxInodes
      /\ filesEdits \in Nat /\ created \in 0..MaxInodes /\ created \in Nat
  BY <1>0, FilesAssumption DEF FilesInv, FilesTyped
<1>2. old \in FileRecord
  BY <1>1 DEF FilesInv, FilesTyped
<1>3. old.blocks \in Blocks /\ old.mtime \in Nat /\ old.ctime \in Nat
  BY <1>2 DEF FileRecord
<1>4. [old.blocks EXCEPT ![b] = 10 + filesEdits] \in Blocks
  <2>1. old.blocks \in Seq(Nat) /\ Len(old.blocks) = 2 /\ 10 + filesEdits \in Nat
    BY <1>1, <1>3 DEF Blocks
  <2>2. b \in 1..Len(old.blocks)
    BY <2>1
  <2>3. ASSUME NEW s \in Seq(Nat), NEW e \in Nat, b \in 1..Len(s)
        PROVE  [s EXCEPT ![b] = e] \in Seq(Nat) /\ Len([s EXCEPT ![b] = e]) = Len(s)
    BY <2>3, ExceptSeq
  <2> HIDE DEF old
  <2>4. /\ [old.blocks EXCEPT ![b] = 10 + filesEdits] \in Seq(Nat)
        /\ Len([old.blocks EXCEPT ![b] = 10 + filesEdits]) = 2
    BY <2>1, <2>2, <2>3
  <2> QED
    BY <2>4 DEF Blocks
<1>5. /\ new \in FileRecord /\ new.mtime = old.mtime + 1 /\ new.ctime = old.ctime + 1
  BY <1>2, <1>3, <1>4 DEF FileRecord
<1>6. old.mtime <= new.mtime /\ old.mtime # new.mtime /\ old.ctime <= new.ctime
  BY <1>3, <1>5
<1> HIDE DEF old, new
<1>7. /\ inodes' \in [1..MaxInodes -> FileRecord] /\ inodes'[path] = new
      /\ \A i \in 1..MaxInodes : i # path => inodes'[i] = inodes[i]
  BY <1>0, <1>1, <1>5 DEF FilesInv, FilesTyped
<1>8. /\ history' \in [1..MaxInodes -> SUBSET Blocks]
      /\ \A i \in 1..MaxInodes : history[i] \subseteq history'[i]
      /\ new.blocks \in history'[path]
  <2>1. new.blocks \in Blocks
    BY <1>5 DEF FileRecord
  <2> QED
    BY <1>0, <1>1, <1>7, <2>1 DEF FilesInv, FilesTyped
<1>9. FilesTyped'
  BY <1>0, <1>1, <1>7, <1>8 DEF FilesInv, FilesTyped
<1>10. Aged
  <2>1. \A i \in 1..created :
          /\ inodes[i].mtime <= inodes'[i].mtime /\ inodes[i].ctime <= inodes'[i].ctime
          /\ inodes[i].mtime = inodes'[i].mtime =>
                inodes'[i].blocks = inodes[i].blocks /\ inodes'[i].author = inodes[i].author
    <3> TAKE i \in 1..created
    <3>1. inodes[i] \in FileRecord /\ i \in 1..MaxInodes
      BY <1>1 DEF FilesInv, FilesTyped
    <3>2. inodes[i].mtime \in Nat /\ inodes[i].ctime \in Nat
      BY <3>1 DEF FileRecord
    <3>3. CASE i = path
      BY <1>6, <1>7, <3>3 DEF old
    <3>4. CASE i # path
      BY <1>7, <3>1, <3>2, <3>4
    <3> QED
      BY <3>3, <3>4
  <2>2. created <= created' /\ created' \in 0..MaxInodes
    BY <1>0, <1>1
  <2> QED
    BY <1>1, <1>8, <2>1, <2>2 DEF Aged
<1>11. Contents'
  BY <1>0, <1>1, <1>7, <1>8 DEF FilesInv, Contents
<1>12. LockHeld'
  BY <1>0 DEF FilesInv, LockHeld, Holds
<1>13. OwnFiles'
  BY <1>0, <1>1, <1>7 DEF FilesInv, OwnFiles, Temporary
<1> QED
  BY <1>0, <1>9, <1>10, <1>11, <1>12, <1>13, AgedKeeps, UsersUndisturbed DEF FilesInv

LEMMA ByHandKeeps == ASSUME FilesInv, Files!ReplaceByHand PROVE FilesInv'
<1> DEFINE n == created + 1
           file == Files!NewFile(<<20, 20>>, "user")
<1>0. /\ created < MaxInodes /\ filesEdits' = filesEdits + 1 /\ created' = n /\ path' = n
      /\ inodes' = [Files!Renamed(0) EXCEPT ![n] = file]
      /\ history' = [history EXCEPT ![n] = {<<20, 20>>}]
      /\ raced' = (raced \/ lock # "nobody")
      /\ registry' = registry /\ lock' = lock /\ pub' = pub /\ snap' = snap
  BY DEF Files!ReplaceByHand, Files!Nobody
<1>1. /\ created \in 0..MaxInodes /\ created \in Nat /\ n \in 1..MaxInodes
      /\ n \notin 1..created /\ 1..n = 1..created \cup {n} /\ n \in 0..n
      /\ 1..created \subseteq 1..MaxInodes /\ created <= n /\ n \in 0..MaxInodes
      /\ filesEdits + 1 \in Nat
  BY <1>0, FilesAssumption DEF FilesInv, FilesTyped
<1>2. file \in FileRecord /\ file.blocks = <<20, 20>>
  BY NewBlocks DEF Files!NewFile, FileRecord
<1>3. <<20, 20>> \in Blocks
  BY NewBlocks
<1> HIDE DEF n, file
<1>4. /\ Files!Renamed(0) \in [1..MaxInodes -> FileRecord]
      /\ \A j \in 1..MaxInodes :
           /\ Files!Renamed(0)[j].blocks = inodes[j].blocks
           /\ Files!Renamed(0)[j].author = inodes[j].author
           /\ Files!Renamed(0)[j].mtime = inodes[j].mtime
           /\ inodes[j].ctime <= Files!Renamed(0)[j].ctime
           /\ inodes[j].mtime \in Nat
  BY RenamedFiles DEF FilesInv
<1>5. /\ inodes' \in [1..MaxInodes -> FileRecord] /\ inodes'[n] = file
      /\ \A j \in 1..MaxInodes : j # n => inodes'[j] = Files!Renamed(0)[j]
  BY <1>0, <1>1, <1>2, <1>4
<1>6. \A j \in 1..created :
        /\ inodes'[j].blocks = inodes[j].blocks /\ inodes'[j].author = inodes[j].author
        /\ inodes'[j].mtime = inodes[j].mtime /\ inodes[j].ctime <= inodes'[j].ctime
        /\ inodes[j].mtime <= inodes'[j].mtime
  BY <1>1, <1>4, <1>5
<1>7. /\ history' \in [1..MaxInodes -> SUBSET Blocks] /\ history'[n] = {<<20, 20>>}
      /\ \A j \in 1..MaxInodes : j # n => history'[j] = history[j]
  BY <1>0, <1>1, <1>3 DEF FilesInv, FilesTyped
<1>8. raced' \in BOOLEAN
  BY <1>0
<1>9. FilesTyped'
  BY <1>0, <1>1, <1>5, <1>7, <1>8 DEF FilesInv, FilesTyped
<1>10. Aged
  BY <1>0, <1>1, <1>6, <1>7 DEF Aged
<1>11. Contents'
  BY <1>0, <1>1, <1>2, <1>5, <1>6, <1>7 DEF FilesInv, Contents
<1>12. LockHeld'
  BY <1>0 DEF FilesInv, LockHeld, Holds
<1>13. OwnFiles'
  BY <1>0, <1>1, <1>6 DEF FilesInv, OwnFiles, Temporary
<1> QED
  BY <1>0, <1>9, <1>10, <1>11, <1>12, <1>13, AgedKeeps, UsersUndisturbed DEF FilesInv

(* The reader. *)
LEMMA SnapshotKeeps ==
    ASSUME FilesInv, snap' \in SnapshotRecord, Copying', Files!SnapshotIsOneVersion',
           UNCHANGED <<inodes, created, path, registry, lock, pub, filesEdits, raced, history>>
    PROVE  FilesInv'
<1>1. FilesTyped' /\ Contents' /\ LockHeld' /\ OwnFiles'
  BY DEF FilesInv, FilesTyped, Contents, LockHeld, OwnFiles, Holds, Temporary
<1>2. ~raced => Signed' /\ \A p \in Publishers : Undisturbed(p)'
  BY DEF FilesInv, Signed, Signs, Undisturbed, Files!Fingerprint
<1> QED
  BY <1>1, <1>2 DEF FilesInv

LEMMA OpenKeeps == ASSUME FilesInv, Files!OpenSnapshot PROVE FilesInv'
<1>1. path \in 1..created /\ path \in Nat /\ path \in 1..MaxInodes
  BY FilesAssumption DEF FilesInv, FilesTyped, Files!OpenSnapshot
<1>2. inodes[path] \in FileRecord
  BY <1>1 DEF FilesInv, FilesTyped
<1>3. <<>> \in Seq(Nat) /\ Len(<<>>) = 0
  OBVIOUS
<1>4. /\ snap' = [at |-> "copy", inode |-> path, before |-> inodes[path], copied |-> <<>>]
      /\ UNCHANGED <<inodes, created, path, registry, lock, pub, filesEdits, raced, history>>
  BY DEF Files!OpenSnapshot
<1>5. snap' \in SnapshotRecord
  BY <1>1, <1>2, <1>3, <1>4 DEF SnapshotRecord
<1>6. inodes[path].mtime \in Nat /\ inodes[path].blocks \in history[path]
  BY <1>1, <1>2 DEF FileRecord, FilesInv, Contents
<1>7. Copying'
  BY <1>1, <1>3, <1>4, <1>6 DEF Copying
<1>8. Files!SnapshotIsOneVersion'
  BY <1>4 DEF Files!SnapshotIsOneVersion
<1> QED
  BY <1>4, <1>5, <1>7, <1>8, SnapshotKeeps

LEMMA CopyKeeps == ASSUME FilesInv, Files!CopyBlock PROVE FilesInv'
<1> DEFINE i == snap.inode
           now == inodes[i]
           x == now.blocks[Len(snap.copied) + 1]
<1>1. /\ snap \in SnapshotRecord /\ snap.at = "copy" /\ Len(snap.copied) < 2 /\ i \in 1..created
      /\ snap' = [snap EXCEPT !.copied = Append(snap.copied, x)]
      /\ UNCHANGED <<inodes, created, path, registry, lock, pub, filesEdits, raced, history>>
  BY DEF Files!CopyBlock, FilesInv, FilesTyped, Copying
<1>2. snap.copied \in Seq(Nat) /\ Len(snap.copied) + 1 \in 1..2
  BY <1>1 DEF SnapshotRecord
<1>3. now \in FileRecord
  <2>1. i \in 1..MaxInodes
    BY <1>1, FilesAssumption DEF FilesInv, FilesTyped
  <2> QED
    BY <2>1 DEF FilesInv, FilesTyped
<1>4. now.blocks \in Seq(Nat) /\ Len(now.blocks) = 2
  BY <1>3 DEF FileRecord, Blocks
<1>5. x \in Nat
  BY <1>2, <1>4
<1>6. /\ snap'.at = "copy" /\ snap'.inode = i /\ snap'.before = snap.before
      /\ snap'.copied = Append(snap.copied, x) /\ snap' \in SnapshotRecord
  BY <1>1, <1>2, <1>5 DEF SnapshotRecord
<1>7. /\ Len(snap'.copied) = Len(snap.copied) + 1
      /\ \A k \in 1..Len(snap'.copied) :
            snap'.copied[k] = IF k = Len(snap.copied) + 1 THEN x ELSE snap.copied[k]
      /\ \A k \in 1..Len(snap'.copied) : k = Len(snap.copied) + 1 \/ k \in 1..Len(snap.copied)
  BY <1>2, <1>5, <1>6
<1>8. /\ snap.before.blocks \in history[i] /\ snap.before.mtime <= now.mtime
      /\ snap.before.mtime = now.mtime =>
            /\ now.blocks = snap.before.blocks
            /\ \A k \in 1..Len(snap.copied) : snap.copied[k] = snap.before.blocks[k]
  BY <1>1 DEF FilesInv, Copying
<1>9. snap.before.mtime = now.mtime =>
         \A k \in 1..Len(snap'.copied) : snap'.copied[k] = snap.before.blocks[k]
  BY <1>7, <1>8
<1>10. Len(snap'.copied) <= 2
  BY <1>2, <1>7
<1>11. Copying'
  BY <1>1, <1>6, <1>8, <1>9, <1>10 DEF Copying
<1>12. Files!SnapshotIsOneVersion'
  BY <1>6 DEF Files!SnapshotIsOneVersion
<1> QED
  BY <1>1, <1>6, <1>11, <1>12, SnapshotKeeps

LEMMA EndSnapshotKeeps == ASSUME FilesInv, Files!EndSnapshot PROVE FilesInv'
<1> DEFINE i == snap.inode
           now == inodes[i]
           at == IF Files!Changed(snap.before, now) THEN "raised" ELSE "taken"
<1>1. /\ snap \in SnapshotRecord /\ snap.at = "copy" /\ Len(snap.copied) = 2 /\ i \in 1..created
      /\ snap' = [snap EXCEPT !.at = at]
      /\ UNCHANGED <<inodes, created, path, registry, lock, pub, filesEdits, raced, history>>
  BY DEF Files!EndSnapshot, FilesInv, FilesTyped, Copying
<1>2. /\ at \in {"raised", "taken"}
      /\ at = "taken" => snap.before.mtime = now.mtime
  BY DEF Files!Changed
<1>3. snap' \in SnapshotRecord /\ snap'.at = at /\ snap'.inode = i /\ snap'.copied = snap.copied
  BY <1>1, <1>2 DEF SnapshotRecord
<1>4. ASSUME at = "taken" PROVE snap.copied \in history[i]
  <2>1. /\ snap.before.blocks \in history[i]
        /\ \A k \in 1..Len(snap.copied) : snap.copied[k] = snap.before.blocks[k]
    BY <1>1, <1>2, <1>4 DEF FilesInv, Copying
  <2>2. /\ snap.copied \in Seq(Nat) /\ snap.before.blocks \in Seq(Nat)
        /\ Len(snap.before.blocks) = 2
    BY <1>1 DEF SnapshotRecord, FileRecord, Blocks
  <2>3. snap.copied = snap.before.blocks
    BY <1>1, <2>1, <2>2, SeqEqual
  <2> QED
    BY <2>1, <2>3
<1> HIDE DEF at
<1>5. Copying'
  BY <1>1, <1>2, <1>3 DEF Copying
<1>6. Files!SnapshotIsOneVersion'
  BY <1>1, <1>3, <1>4 DEF Files!SnapshotIsOneVersion
<1> QED
  BY <1>1, <1>3, <1>5, <1>6, SnapshotKeeps

LEMMA FileStepKeeps ==
    ASSUME FilesInv, Files!FileNext \/ UNCHANGED filesVars PROVE FilesInv'
<1>1. ASSUME NEW p \in Publishers,
             \/ Files!WriteTemporary(p) \/ Files!WriteFails(p) \/ Files!BeginPublication(p)
             \/ Files!LockTimesOut(p) \/ Files!PublisherDies(p)
      PROVE  FilesInv'
  BY <1>1, WriteKeeps, PublisherEnds, BeginKeeps
<1>2. ASSUME NEW p \in Publishers, NEW b \in BOOLEAN, Files!Replace(p, b) \/ Files!EndPublication(p, b)
      PROVE  FilesInv'
  <2>1. CASE b = TRUE
    BY <1>2, <2>1, ReplaceFails, EndKeeps
  <2>2. CASE b = FALSE
    BY <1>2, <2>2, ReplaceKeeps, EndKeeps
  <2> QED
    BY <2>1, <2>2
<1>3. ASSUME UNCHANGED filesVars PROVE FilesInv'
  <2>1. Copying' /\ Files!SnapshotIsOneVersion' /\ snap' \in SnapshotRecord
    BY <1>3 DEF filesVars, FilesInv, FilesTyped, Copying, Files!SnapshotIsOneVersion
  <2> QED
    BY <1>3, <2>1, SnapshotKeeps DEF filesVars
<1>4. Files!FileDone => UNCHANGED filesVars
  BY DEF Files!FileDone, Files!fileVars, filesVars
<1> QED
  BY <1>1, <1>2, <1>3, <1>4, FileEditKeeps, ByHandKeeps, OpenKeeps, CopyKeeps, EndSnapshotKeeps
     DEF Files!FileNext

LEMMA FilesInvSuffices ==
    ASSUME FilesInv PROVE Files!HiddenIsGenerated /\ Files!SnapshotIsOneVersion
<1> SUFFICES ASSUME Files!Hidden, ~raced PROVE inodes[path].author \in Publishers
  BY DEF Files!HiddenIsGenerated, FilesInv
<1>1. path # 0 /\ registry = <<path, inodes[path].mtime, inodes[path].ctime>>
  BY DEF Files!Hidden, Files!Fingerprint
<1>2. registry # <<>>
  BY <1>1
<1>3. PICK i \in 1..created, m \in Nat, c \in Nat : Signs(i, m, c)
  BY <1>2 DEF FilesInv, Signed
<1>4. i = path /\ m = inodes[path].mtime /\ c = inodes[path].ctime
  BY <1>1, <1>3 DEF Signs
<1> QED
  BY <1>3, <1>4 DEF Signs

(* generated_artifacts.py, atomic_text_writer and JsonSnapshot, for any    *)
(* publishers and users: a file is hidden only if a publisher wrote what   *)
(* it holds, unless a user wrote while a publication held the registry,    *)
(* and a snapshot that was not refused is one version of the file.         *)
THEOREM FilesSound == Spec => []FilesAreSound
<1> DEFINE Inv == component = "files" => FilesInv
<1>1. Init => Inv
  BY FilesInitial DEF Init
<1>2. Inv /\ [Next]_vars => Inv'
  BY ComponentSteps, FileStepKeeps
<1>3. Inv => FilesAreSound
  BY FilesInvSuffices DEF FilesAreSound
<1> QED
  BY <1>1, <1>2, <1>3, PTL DEF Spec

-----------------------------------------------------------------------------
(* The triage of one finding.  Whatever the evidence holds was shown to    *)
(* the model of the invocation, and a workflow is of the live navigation   *)
(* if it has its address.                                                  *)

WorkTyped ==
    /\ workDisk \in [SourceLines -> Work!Contents]
    /\ shown \in [SourceLines -> SUBSET Work!Contents]
    /\ DOMAIN observed = SourceLines /\ DOMAIN initial = SourceLines
    /\ answer = <<>> \/ \E d \in Answers : answer = <<d>>
    /\ live.id \in Nat

(* A row that is not cut off reads like a line that was shown. *)
Shows(o, seen) ==
    /\ o[1] \in Work!Contents \cup {"~"}
    /\ o[1] # "~" => \E c \in seen : Work!RStrip(c) = Work!RStrip(o[1])

RowsShown ==
    /\ \A l \in SourceLines : \A o \in observed[l] : Shows(o, shown[l])
    /\ \A l \in SourceLines : \A o \in initial[l] : o[1] \in Work!Contents \cup {"~"}

WorkflowSound ==
    \/ workflow = <<>>
    \/ \E w : workflow = <<w>> /\ (w.at = live.at => w.id = live.id)

WorkInv ==
    /\ WorkTyped /\ RowsShown /\ WorkflowSound
    /\ workPhase # "idle" => result = <<>>
    /\ workPhase \in {"idle", "collect"} => \A l \in SourceLines : observed[l] = {}
    /\ Work!VerdictIsGrounded /\ Work!WorkflowIsOfItsCall

LEMMA Stripped ==
    \A c \in Work!Contents : Work!RStrip(c) \in Work!Contents /\ Work!RStrip(Work!RStrip(c)) = Work!RStrip(c)
BY DEF Work!Contents, Work!RStrip

LEMMA LeastLine ==
    ASSUME NEW S, S \subseteq Nat, S # {}
    PROVE  Work!Min(S) \in S
<1>1. PICK y \in S : \A z \in S : <<z, y>> \notin OpToRel(<, Nat)
  BY NatLessThanWellFounded, WFMin
<1>2. \A z \in S : y <= z
  <2> TAKE z \in S
  <2>1. z \in Nat /\ y \in Nat
    OBVIOUS
  <2>2. ~(z < y)
    BY <1>1, <2>1 DEF OpToRel
  <2> QED
    BY <2>1, <2>2
<1> QED
  BY <1>2 DEF Work!Min

LEMMA LeastOfTwo ==
    ASSUME NEW a \in Int, NEW b \in Int
    PROVE  Work!Min({a, b}) \in Int /\ Work!Min({a, b}) <= a /\ Work!Min({a, b}) <= b
<1>1. \E x \in {a, b} : \A y \in {a, b} : x <= y
  OBVIOUS
<1>2. /\ Work!Min({a, b}) \in {a, b}
      /\ \A y \in {a, b} : Work!Min({a, b}) <= y
  BY <1>1 DEF Work!Min
<1> QED
  BY <1>2

LEMMA WorkInitial == Work!WorkInit => WorkInv
<1> SUFFICES ASSUME Work!WorkInit PROVE WorkInv
  OBVIOUS
<1>1. live.id = 1
  BY DEF Work!WorkInit
<1>2. WorkTyped
  BY <1>1 DEF Work!WorkInit, WorkTyped, Work!Nothing, Work!Contents
<1>3. RowsShown /\ WorkflowSound
  BY DEF Work!WorkInit, RowsShown, WorkflowSound, Work!Nothing
<1>4. /\ Work!VerdictIsGrounded /\ Work!WorkflowIsOfItsCall /\ workPhase = "idle"
      /\ \A l \in SourceLines : observed[l] = {}
  BY DEF Work!WorkInit, Work!Nothing, Work!VerdictIsGrounded, Work!WorkflowIsOfItsCall
<1> QED
  BY <1>2, <1>3, <1>4 DEF WorkInv

(* What was observed of the window was displayed. *)
LEMMA ObservationDisplayed ==
    ASSUME WorkTyped, NEW frame, frame \subseteq SourceLines, frame # {}, NEW l \in SourceLines,
           NEW c \in Work!Observation(frame)[l]
    PROVE  c = "~" \/ (c = workDisk[l] /\ Work!Displayed(frame)[l] = {c})
<1> DEFINE p == Work!PlaceIn(frame, l)
           m == Work!Min({Capture, Work!Room})
<1>1. Work!Min(frame) \in Nat
  BY LeastLine, WorkAssumption
<1>2. p \in Int /\ Work!Room \in Int /\ Capture \in Int /\ Header \in Int /\ PackMax \in Int
  BY <1>1, WorkAssumption DEF Work!PlaceIn, Work!Room
<1>3. m \in Int /\ m <= Capture /\ m <= Work!Room
  BY <1>2, LeastOfTwo
<1>4. Work!Observation(frame)[l] = IF l \notin frame THEN {}
                                    ELSE IF 2 * p <= m THEN {workDisk[l]}
                                    ELSE IF 2 * p - 1 <= m THEN {"~"} ELSE {}
  BY DEF Work!Observation, Work!Cut
<1>5. Work!Displayed(frame)[l] = IF l \notin frame THEN {}
                                  ELSE IF 2 * p <= Capture /\ Header + 2 * p <= PackMax
                                  THEN {workDisk[l]} ELSE {}
  BY DEF Work!Displayed
<1> HIDE DEF p, m
<1>6. c = "~" \/ (c = workDisk[l] /\ 2 * p <= m /\ l \in frame)
  BY <1>4
<1>7. 2 * p <= m => 2 * p <= Capture /\ Header + 2 * p <= PackMax
  BY <1>2, <1>3 DEF Work!Room
<1> QED
  BY <1>5, <1>6, <1>7

LEMMA CollectKeeps == ASSUME WorkInv, NEW r \in BOOLEAN, Work!CollectEvidence(r) PROVE WorkInv'
<1> DEFINE frame == IF r THEN Work!WindowOf(call.finding) ELSE {}
           seen == [l \in SourceLines |-> IF frame = {} THEN {}
                                          ELSE {<<c, FALSE>> : c \in Work!Observation(frame)[l]}]
<1>0. /\ shown' = (IF frame = {} THEN Work!Nothing ELSE Work!Displayed(frame))
      /\ observed' = seen /\ initial' = seen
  BY DEF Work!CollectEvidence
<1>1. /\ workPhase = "collect" /\ workPhase' = "tools" /\ answer' = <<>>
      /\ UNCHANGED <<workDisk, live, workflow, call, result>>
  BY DEF Work!CollectEvidence
<1>2. frame \subseteq SourceLines
  BY DEF Work!WindowOf
<1>3. WorkTyped
  BY DEF WorkInv
<1>4. /\ shown' \in [SourceLines -> SUBSET Work!Contents] /\ DOMAIN seen = SourceLines
  BY <1>0, <1>3 DEF Work!Nothing, Work!Displayed, WorkTyped
<1> HIDE DEF frame
<1>5. ASSUME NEW l \in SourceLines, NEW o \in seen[l] PROVE Shows(o, shown'[l])
  <2>1. frame # {} /\ seen[l] = {<<c, FALSE>> : c \in Work!Observation(frame)[l]}
    BY <1>5
  <2>2. PICK c \in Work!Observation(frame)[l] : o = <<c, FALSE>>
    BY <1>5, <2>1
  <2>3. c = "~" \/ (c = workDisk[l] /\ Work!Displayed(frame)[l] = {c})
    BY <1>2, <1>3, <2>1, ObservationDisplayed
  <2>4. o[1] = c /\ shown'[l] = Work!Displayed(frame)[l] /\ workDisk[l] \in Work!Contents
    BY <1>0, <1>3, <2>1, <2>2 DEF WorkTyped
  <2> QED
    BY <2>3, <2>4 DEF Shows
<1> HIDE DEF seen
<1>6. WorkTyped'
  BY <1>0, <1>1, <1>3, <1>4 DEF WorkTyped
<1>7. RowsShown'
  BY <1>0, <1>5 DEF RowsShown, Shows
<1>8. WorkflowSound' /\ Work!VerdictIsGrounded' /\ Work!WorkflowIsOfItsCall'
  BY <1>1 DEF WorkInv, WorkflowSound, Work!VerdictIsGrounded, Work!WorkflowIsOfItsCall
<1> QED
  BY <1>1, <1>6, <1>7, <1>8 DEF WorkInv

LEMMA ReadKeeps ==
    ASSUME WorkInv, NEW l \in SourceLines, NEW tool \in {"sed", "grep"}, Work!ReadLine(l, tool)
    PROVE  WorkInv'
<1> DEFINE row == IF tool = "grep" THEN <<Work!RStrip(workDisk[l]), TRUE>> ELSE <<workDisk[l], FALSE>>
<1>0. /\ workPhase = "tools" /\ shown' = [shown EXCEPT ![l] = shown[l] \cup {workDisk[l]}]
      /\ observed' = [observed EXCEPT ![l] = observed[l] \cup {row}]
      /\ UNCHANGED <<workDisk, live, workflow, call, workPhase, initial, answer, result>>
  BY DEF Work!ReadLine, Work!Observe
<1>1. workDisk[l] \in Work!Contents
  BY DEF WorkInv, WorkTyped
<1>2. row[1] \in Work!Contents /\ Work!RStrip(row[1]) = Work!RStrip(workDisk[l])
  BY <1>1, Stripped
<1> HIDE DEF row
<1>3. WorkTyped'
  BY <1>0, <1>1 DEF WorkInv, WorkTyped
<1>4. /\ \A k \in SourceLines : shown[k] \subseteq shown'[k] /\ workDisk[l] \in shown'[l]
      /\ \A k \in SourceLines : k # l => observed'[k] = observed[k]
      /\ observed'[l] = observed[l] \cup {row}
  BY <1>0 DEF WorkInv, WorkTyped
<1>5. ASSUME NEW k \in SourceLines, NEW o \in observed'[k] PROVE Shows(o, shown'[k])
  <2>1. CASE o \in observed[k]
    BY <1>4, <2>1 DEF WorkInv, RowsShown, Shows
  <2>2. CASE o \notin observed[k]
    <3>1. k = l /\ o = row
      BY <1>4, <1>5, <2>2
    <3> QED
      BY <1>2, <1>4, <3>1 DEF Shows
  <2> QED
    BY <2>1, <2>2
<1>6. RowsShown'
  BY <1>0, <1>5 DEF WorkInv, RowsShown
<1>7. WorkflowSound' /\ Work!VerdictIsGrounded' /\ Work!WorkflowIsOfItsCall'
  BY <1>0 DEF WorkInv, WorkflowSound, Work!VerdictIsGrounded, Work!WorkflowIsOfItsCall
<1> QED
  BY <1>0, <1>3, <1>6, <1>7 DEF WorkInv

(* The fallback's model has seen what reset_tools leaves. *)
LEMMA VerdictKeeps == ASSUME WorkInv, NEW d \in Answers, Work!Answered(d) PROVE WorkInv'
<1>0. /\ workPhase \in {"tools", "fallback"} /\ workPhase' \in {"tools", "fallback", "decide"}
      /\ answer' = answer \/ answer' = <<d>>
      /\ UNCHANGED <<workDisk, live, workflow, call, initial, result>>
      /\ \/ UNCHANGED <<observed, shown>>
         \/ /\ observed' = initial
            /\ shown' = [l \in SourceLines |-> {o[1] : o \in initial[l]} \ {"~"}]
  BY DEF Work!Answered, Work!GiveUp, Work!ResetTools
<1>1. WorkTyped' /\ RowsShown'
  <2>1. CASE UNCHANGED <<observed, shown>>
    BY <1>0, <2>1 DEF WorkInv, WorkTyped, RowsShown
  <2>2. CASE /\ observed' = initial
             /\ shown' = [l \in SourceLines |-> {o[1] : o \in initial[l]} \ {"~"}]
    <3>1. \A l \in SourceLines : {o[1] : o \in initial[l]} \ {"~"} \subseteq Work!Contents
      BY DEF WorkInv, RowsShown
    <3>2. shown' \in [SourceLines -> SUBSET Work!Contents]
      BY <2>2, <3>1
    <3>3. WorkTyped'
      BY <1>0, <2>2, <3>2 DEF WorkInv, WorkTyped
    <3>4. ASSUME NEW l \in SourceLines, NEW o \in initial[l]
          PROVE  Shows(o, shown'[l])
      <4>1. o[1] # "~" => o[1] \in shown'[l]
        BY <2>2, <3>4
      <4> QED
        BY <4>1 DEF Shows, WorkInv, RowsShown
    <3> QED
      BY <1>0, <2>2, <3>3, <3>4 DEF WorkInv, RowsShown
  <2> QED
    BY <1>0, <2>1, <2>2
<1>2. WorkflowSound' /\ Work!VerdictIsGrounded' /\ Work!WorkflowIsOfItsCall'
  BY <1>0 DEF WorkInv, WorkflowSound, Work!VerdictIsGrounded, Work!WorkflowIsOfItsCall
<1> QED
  BY <1>0, <1>1, <1>2 DEF WorkInv

LEMMA BeginCallKeeps ==
    ASSUME WorkInv, NEW m, NEW f, Work!BeginCall(m, f) PROVE WorkInv'
<1> DEFINE wanted == [at |-> live.at, id |-> live.id, model |-> m]
<1>0. /\ workPhase = "idle" /\ workPhase' = "collect" /\ result' = <<>> /\ shown' = Work!Nothing
      /\ call' = [model |-> m, finding |-> f, id |-> live.id]
      /\ UNCHANGED <<workDisk, live, observed, initial, answer>>
  BY DEF Work!BeginCall
<1>1. workflow' = IF workflow # <<>> /\ Work!KeyOf(workflow[1]) = Work!KeyOf(wanted)
                  THEN workflow ELSE <<wanted>>
  BY DEF Work!BeginCall
<1>2. PICK w : workflow' = <<w>> /\ w.at = live.at /\ w.id = live.id /\ w.model = m
  <2>1. CASE workflow # <<>> /\ Work!KeyOf(workflow[1]) = Work!KeyOf(wanted)
    <3>1. PICK v : workflow = <<v>> /\ (v.at = live.at => v.id = live.id)
      BY <2>1 DEF WorkInv, WorkflowSound
    <3>2. v.at = live.at /\ v.model = m
      BY <2>1, <3>1 DEF Work!KeyOf
    <3> QED
      BY <1>1, <2>1, <3>1, <3>2
  <2>2. CASE ~(workflow # <<>> /\ Work!KeyOf(workflow[1]) = Work!KeyOf(wanted))
    BY <1>1, <2>2
  <2> QED
    BY <2>1, <2>2
<1>3. WorkTyped' /\ RowsShown'
  BY <1>0 DEF WorkInv, WorkTyped, RowsShown, Work!Nothing
<1>4. WorkflowSound' /\ Work!WorkflowIsOfItsCall' /\ Work!VerdictIsGrounded'
  BY <1>0, <1>2 DEF WorkflowSound, Work!WorkflowIsOfItsCall, Work!VerdictIsGrounded
<1> QED
  BY <1>0, <1>3, <1>4 DEF WorkInv

LEMMA IdleStepKeeps ==
    ASSUME WorkInv, Work!CloseService \/ \E a \in Navigations : Work!ReplaceNavigation(a)
    PROVE  WorkInv'
<1>0. /\ workPhase = "idle" /\ workPhase' = "idle" /\ result' = <<>> /\ live'.id \in Nat
      /\ UNCHANGED <<workDisk, shown, observed, initial, answer>>
  BY DEF Work!CloseService, Work!ReplaceNavigation, WorkInv, WorkTyped
<1>1. WorkflowSound'
  <2>1. CASE Work!CloseService
    BY <2>1 DEF Work!CloseService, WorkflowSound
  <2>2. CASE \E a \in Navigations : Work!ReplaceNavigation(a)
    <3>1. PICK a \in Navigations : Work!ReplaceNavigation(a)
      BY <2>2
    <3>2. workflow' = workflow /\ live'.at = a /\ (workflow # <<>> => workflow[1].at # a)
      BY <3>1 DEF Work!ReplaceNavigation
    <3> QED
      BY <3>2 DEF WorkInv, WorkflowSound
  <2> QED
    BY <2>1, <2>2
<1>2. WorkTyped' /\ RowsShown'
  BY <1>0 DEF WorkInv, WorkTyped, RowsShown
<1>3. Work!WorkflowIsOfItsCall' /\ Work!VerdictIsGrounded'
  BY <1>0 DEF Work!WorkflowIsOfItsCall, Work!VerdictIsGrounded
<1> QED
  BY <1>0, <1>1, <1>2, <1>3 DEF WorkInv

LEMMA FailureKeeps == ASSUME WorkInv, Work!ModelFails PROVE WorkInv'
<1>0. /\ workPhase # "idle" /\ workPhase' = "idle" /\ result' = <<>> /\ answer' = <<>>
      /\ shown' = Work!Nothing /\ observed' = Work!Nothing /\ initial' = Work!Nothing
      /\ UNCHANGED <<workDisk, live, workflow>>
  BY DEF Work!ModelFails, WorkInv
<1>1. WorkTyped' /\ RowsShown' /\ WorkflowSound' /\ \A l \in SourceLines : observed'[l] = {}
  BY <1>0 DEF WorkInv, WorkTyped, RowsShown, WorkflowSound, Work!Nothing
<1>2. Work!WorkflowIsOfItsCall' /\ Work!VerdictIsGrounded'
  BY <1>0 DEF Work!WorkflowIsOfItsCall, Work!VerdictIsGrounded
<1> QED
  BY <1>0, <1>1, <1>2 DEF WorkInv

(* A decision that still validates cites lines that were shown. *)
LEMMA ValidIsGrounded ==
    ASSUME WorkInv, NEW d \in Answers, Work!Validates(d), d.status # "inconclusive"
    PROVE  /\ Work!Cited(d) # {}
           /\ \A l \in Work!Cited(d) : Work!RStrip(workDisk[l]) \in {Work!RStrip(c) : c \in shown[l]}
<1>1. d.status \in {"valid", "invalid"} /\ \A e \in d.evidence : e[1] \in Nat /\ e[2] \in Nat
  BY WorkAssumption
<1>2. /\ d.evidence # {} /\ \A e \in d.evidence : e[1] <= e[2]
      /\ \A e \in d.evidence : \A l \in e[1]..e[2] : l \in SourceLines
      /\ \A l \in Work!Cited(d) : Work!Matches(l)
  BY <1>1 DEF Work!Validates
<1>3. Work!Cited(d) # {}
  <2>1. PICK e \in d.evidence : TRUE
    BY <1>2
  <2>2. e[1] \in e[1]..e[2]
    BY <1>1, <1>2
  <2> QED
    BY <2>2 DEF Work!Cited
<1>4. ASSUME NEW l \in Work!Cited(d)
      PROVE  Work!RStrip(workDisk[l]) \in {Work!RStrip(c) : c \in shown[l]}
  <2>1. l \in SourceLines
    BY <1>2, <1>4 DEF Work!Cited
  <2>2. workDisk[l] \in Work!Contents
    BY <2>1 DEF WorkInv, WorkTyped
  <2>3. PICK o \in observed[l] : (IF o[2] THEN Work!RStrip(workDisk[l]) ELSE workDisk[l]) = o[1]
    BY <1>2 DEF Work!Matches
  <2>4. o[1] \in Work!Contents /\ Work!RStrip(o[1]) = Work!RStrip(workDisk[l])
    BY <2>2, <2>3, Stripped
  <2>5. o[1] # "~"
    BY <2>4 DEF Work!Contents
  <2>6. Shows(o, shown[l])
    BY <2>1 DEF WorkInv, RowsShown
  <2>7. PICK c \in shown[l] : Work!RStrip(c) = Work!RStrip(o[1])
    BY <2>5, <2>6 DEF Shows
  <2> QED
    BY <2>4, <2>7
<1> QED
  BY <1>3, <1>4

LEMMA DecideKeeps == ASSUME WorkInv, Work!Decide PROVE WorkInv'
<1>0. /\ workPhase' = "idle" /\ answer' = <<>>
      /\ observed' = Work!Nothing /\ initial' = Work!Nothing
      /\ UNCHANGED <<workDisk, live, workflow, shown>>
  BY DEF Work!Decide
<1>1. WorkTyped' /\ RowsShown' /\ WorkflowSound' /\ \A l \in SourceLines : observed'[l] = {}
  BY <1>0 DEF WorkInv, WorkTyped, RowsShown, WorkflowSound, Work!Nothing
<1>2. PICK x : /\ result' = <<x>>
               /\ \/ x.status = "inconclusive"
                  \/ \E d \in Answers : /\ Work!Validates(d)
                                        /\ x.status = d.status /\ x.evidence = Work!Cited(d)
  <2>1. CASE answer = <<>>
    BY <2>1 DEF Work!Decide
  <2>2. CASE answer # <<>>
    <3>1. PICK d \in Answers : answer = <<d>>
      BY <2>2 DEF WorkInv, WorkTyped
    <3>2. answer[1] = d
      BY <3>1
    <3>3. CASE Work!Validates(d)
      <4>1. result' = <<[status |-> d.status, evidence |-> Work!Cited(d), source |-> "model"]>>
        BY <2>2, <3>2, <3>3 DEF Work!Decide, Work!StillValid
      <4> QED
        BY <3>3, <4>1
    <3>4. CASE ~Work!Validates(d)
      <4>1. result' = <<[status |-> "inconclusive", evidence |-> {}, source |-> "validation_failure"]>>
        BY <2>2, <3>2, <3>4 DEF Work!Decide, Work!StillValid
      <4> QED
        BY <4>1
    <3> QED
      BY <3>3, <3>4
  <2> QED
    BY <2>1, <2>2
<1>3. x.status # "inconclusive" =>
        /\ x.evidence # {}
        /\ \A l \in x.evidence : Work!RStrip(workDisk[l]) \in {Work!RStrip(c) : c \in shown[l]}
  BY <1>2, ValidIsGrounded
<1>4. Work!VerdictIsGrounded'
  <2>1. \A i \in DOMAIN result' : result'[i] = x
    BY <1>2
  <2> QED
    BY <1>0, <1>3, <2>1 DEF Work!VerdictIsGrounded
<1>5. Work!WorkflowIsOfItsCall'
  BY <1>0 DEF Work!WorkflowIsOfItsCall
<1> QED
  BY <1>0, <1>1, <1>4, <1>5 DEF WorkInv

LEMMA WorkStepKeeps == ASSUME WorkInv, Work!WorkNext \/ UNCHANGED workVars PROVE WorkInv'
<1>1. ASSUME NEW l \in SourceLines, NEW c \in Work!Contents, Work!EditLine(l, c) PROVE WorkInv'
  <2>0. /\ workDisk' = [workDisk EXCEPT ![l] = c] /\ result' = <<>>
        /\ UNCHANGED <<live, workflow, call, workPhase, shown, observed, initial, answer>>
    BY <1>1 DEF Work!EditLine
  <2>1. WorkTyped' /\ RowsShown' /\ WorkflowSound'
    BY <2>0 DEF WorkInv, WorkTyped, RowsShown, WorkflowSound
  <2>2. Work!WorkflowIsOfItsCall' /\ Work!VerdictIsGrounded'
    BY <2>0 DEF WorkInv, Work!WorkflowIsOfItsCall, Work!VerdictIsGrounded
  <2> QED
    BY <2>0, <2>1, <2>2 DEF WorkInv
<1>2. ASSUME UNCHANGED workVars PROVE WorkInv'
  <2>0. UNCHANGED <<workDisk, result, live, workflow, call, workPhase, shown, observed, initial, answer>>
    BY <1>2 DEF workVars
  <2>1. WorkTyped' /\ RowsShown' /\ WorkflowSound'
    BY <2>0 DEF WorkInv, WorkTyped, RowsShown, WorkflowSound
  <2>2. Work!WorkflowIsOfItsCall' /\ Work!VerdictIsGrounded'
    BY <2>0 DEF WorkInv, Work!WorkflowIsOfItsCall, Work!VerdictIsGrounded
  <2> QED
    BY <2>0, <2>1, <2>2 DEF WorkInv
<1> QED
  BY <1>1, <1>2, BeginCallKeeps, IdleStepKeeps, CollectKeeps, ReadKeeps, VerdictKeeps, FailureKeeps,
     DecideKeeps DEF Work!WorkNext

(* TriageWorkflow.triage, SourceEvidence and _workflow, for any file,      *)
(* window, budgets, answers and edits: a verdict that is not inconclusive  *)
(* cites lines that were shown in its invocation and still read so, and a  *)
(* workflow serves only calls of the navigation and model it was made for. *)
THEOREM VerdictsAreGrounded == Spec => []VerdictGrounded
<1> DEFINE Inv == component = "work" => WorkInv
<1>1. Init => Inv
  BY WorkInitial DEF Init
<1>2. Inv /\ [Next]_vars => Inv'
  BY ComponentSteps, WorkStepKeeps
<1>3. Inv => VerdictGrounded
  BY DEF WorkInv, VerdictGrounded
<1> QED
  BY <1>1, <1>2, <1>3, PTL DEF Spec

-----------------------------------------------------------------------------
(* The triage stage.  A finding's annotation, outcome and count follow     *)
(* from where its job is, and from the phase of the calling thread.        *)

Active == {"classifying", "recording", "storing"}
Collected == {"storing", "done", "reported"}
Answered == {"decided", "error"}
InBatch == {"running", "draining", "leftovers", "flush"}
Before == {"between", "running", "draining", "leftovers"}

StageTyped ==
    /\ stageMode \in {"file", "run"} /\ base \in Nat /\ (stageMode = "file" => base = 0)
    /\ stagePhase \in InBatch \cup {"between", "closing", "publish", "returned", "raised"}
    /\ batch \subseteq Stage!Findings /\ offset \in Nat
    /\ stageJob \in [Stage!Findings -> Active \cup Collected \cup {"pending", "raised"}]
    /\ decision \in [Stage!Findings -> Answered \cup {"none", "nothing"}]
    /\ stageJournal \in Seq(Stage!Findings) /\ failure \in BOOLEAN
    /\ outcomes \subseteq Stage!Findings /\ handled \subseteq Stage!Findings
    /\ processed \in Nat /\ counted \in Nat

JobSound(i) ==
    /\ stageJob[i] \in {"pending", "classifying"} => decision[i] = "none"
    /\ stageJob[i] = "recording" => decision[i] \in Answered
    /\ stageJob[i] \in Collected => decision[i] \in Answered \cup {"nothing"}
    /\ stageJob[i] \in Active => stagePhase \in {"running", "draining"}
    /\ i \notin batch => stageJob[i] \in {"pending", "reported"}

Placed(i) ==
    /\ i \in Stage!Annotated <=> stageJob[i] \in Collected /\ decision[i] # "nothing"
    /\ i \in outcomes <=> stageJob[i] = "done"
    /\ i \in handled <=> /\ decision[i] # "nothing"
                         /\ \/ stageJob[i] = "reported"
                            \/ stageJob[i] = "done" /\ stagePhase \notin Before

(* What has been reported by now, unless something failed. *)
Complete(i) ==
    \/ stagePhase \in {"leftovers", "flush", "between"} /\ i \in batch
    \/ stageMode = "file" /\ stagePhase \in InBatch \cup {"between"} /\ i <= offset
    \/ stagePhase \in {"closing", "publish"}

Counted ==
    /\ Len(stageJournal) = Cardinality(Stage!Annotated)
    /\ processed = base + Cardinality(handled)
    /\ ~failure => /\ counted = processed
                   /\ handled \subseteq attempted /\ attempted \subseteq Stage!Annotated

Phases ==
    /\ stagePhase \in {"running", "between", "publish"} => ~failure
    /\ stagePhase = "draining" => failure
    /\ stageMode = "run" => stagePhase \notin {"between", "closing"} /\ batch = Stage!Findings
    /\ stageMode = "file" => stagePhase # "publish"
    /\ stageMode = "file" /\ stagePhase \in InBatch =>
          batch = {i \in Stage!Findings : offset < i /\ i <= offset + BatchSize}

StageInv ==
    /\ StageTyped /\ Phases /\ Counted
    /\ \A i \in Stage!Findings : JobSound(i) /\ Placed(i)
    /\ ~failure => \A i \in Stage!Findings : Complete(i) => stageJob[i] = "reported"
    /\ Stage!CheckpointComplete /\ Stage!ReturnExact

LEMMA StageCardinality == \A S : Stage!Cardinality(S) = Cardinality(S)
BY DEF Stage!Cardinality, Cardinality

LEMMA FindingsFinite ==
    \A S : S \subseteq Stage!Findings => IsFiniteSet(S) /\ Cardinality(S) \in Nat
<1> SUFFICES ASSUME NEW S, S \subseteq Stage!Findings PROVE IsFiniteSet(S) /\ Cardinality(S) \in Nat
  OBVIOUS
<1>1. IsFiniteSet(Stage!Findings)
  BY StageAssumption, FS_Interval DEF Stage!Findings
<1> QED
  BY <1>1, FS_Subset, FS_CardinalityType

LEMMA StageInitial == Stage!Init => StageInv
<1> SUFFICES ASSUME Stage!Init PROVE StageInv
  OBVIOUS
<1>0. /\ stageMode \in {"file", "run"} /\ base \in Nat /\ (stageMode = "file" => base = 0)
      /\ stagePhase = IF stageMode = "run" THEN "running" ELSE "between"
      /\ batch = IF stageMode = "run" THEN Stage!Findings ELSE {}
      /\ offset = 0 /\ stageJob = [i \in Stage!Findings |-> "pending"]
      /\ decision = [i \in Stage!Findings |-> "none"] /\ outcomes = {} /\ stageJournal = <<>>
      /\ processed = base /\ handled = {} /\ failure = FALSE /\ attempted = {} /\ counted = base
  BY StageAssumption DEF Stage!Init, Stage!FirstBatch
<1>1. <<>> \in Seq(Stage!Findings) /\ Len(<<>>) = 0
  OBVIOUS
<1>2. Stage!Annotated = {}
  BY <1>0 DEF Stage!Annotated, Stage!Range
<1>3. Cardinality({}) = 0
  BY FS_EmptySet
<1>4. StageTyped
  BY <1>0, <1>1 DEF StageTyped, InBatch
<1>5. Phases
  BY <1>0 DEF Phases, InBatch
<1>6. Counted
  BY <1>0, <1>1, <1>2, <1>3 DEF Counted
<1>7. \A i \in Stage!Findings : JobSound(i) /\ Placed(i)
  BY <1>0, <1>2 DEF JobSound, Placed, Collected, Active
<1>8. \A i \in Stage!Findings : Complete(i) => stageJob[i] = "reported"
  BY <1>0, StageAssumption DEF Complete, Stage!Findings
<1>9. Stage!CheckpointComplete /\ Stage!ReturnExact
  BY <1>0 DEF Stage!CheckpointComplete, Stage!ReturnExact
<1> QED
  BY <1>4, <1>5, <1>6, <1>7, <1>8, <1>9 DEF StageInv

(* One job moves, while the thread waits for completions. *)
LEMMA TriageJobMoves ==
    ASSUME StageInv, NEW i \in Stage!Findings, NEW where \in Active \cup Collected \cup {"raised"},
           NEW said \in Answered \cup {"none", "nothing"},
           stagePhase \in {"running", "draining"}, i \in batch, stageJob[i] # "reported",
           UNCHANGED <<stageMode, base, batch, offset, stagePhase, failure>>,
           stageJob' = [stageJob EXCEPT ![i] = where], decision' = [decision EXCEPT ![i] = said],
           stageJournal' \in Seq(Stage!Findings), outcomes' \subseteq Stage!Findings,
           handled' \subseteq Stage!Findings, processed' \in Nat, counted' \in Nat,
           Counted', JobSound(i)', Placed(i)',
           Stage!Annotated' \ {i} = Stage!Annotated \ {i}, outcomes' \ {i} = outcomes \ {i},
           handled' \ {i} = handled \ {i}
    PROVE  StageInv'
<1>1. /\ stageJob'[i] = where /\ decision'[i] = said
      /\ \A j \in Stage!Findings : j # i => stageJob'[j] = stageJob[j] /\ decision'[j] = decision[j]
  BY DEF StageInv, StageTyped
<1>2. StageTyped'
  BY DEF StageInv, StageTyped
<1>3. Phases'
  BY DEF StageInv, Phases
<1>4. ASSUME NEW j \in Stage!Findings PROVE JobSound(j)' /\ Placed(j)'
  <2>1. CASE j = i
    BY <2>1
  <2>2. CASE j # i
    <3>1. JobSound(j) /\ Placed(j)
      BY DEF StageInv
    <3>2. /\ j \in Stage!Annotated' <=> j \in Stage!Annotated
          /\ j \in outcomes' <=> j \in outcomes
          /\ j \in handled' <=> j \in handled
      BY <2>2
    <3> QED
      BY <1>1, <2>2, <3>1, <3>2 DEF JobSound, Placed
  <2> QED
    BY <2>1, <2>2
<1>5. ~failure' => \A j \in Stage!Findings : Complete(j)' => stageJob'[j] = "reported"
  <2>1. \A j \in Stage!Findings : Complete(j)' => Complete(j)
    BY DEF Complete
  <2>2. ~failure => \A j \in Stage!Findings : Complete(j) => j # i
    BY DEF StageInv
  <2> QED
    BY <1>1, <2>1, <2>2 DEF StageInv
<1>6. Stage!CheckpointComplete' /\ Stage!ReturnExact'
  BY DEF Stage!CheckpointComplete, Stage!ReturnExact
<1> QED
  BY <1>2, <1>3, <1>4, <1>5, <1>6 DEF StageInv

LEMMA StartKeeps == ASSUME StageInv, NEW i \in Stage!Findings, Stage!StartJob(i) PROVE StageInv'
<1>0. /\ stagePhase = "running" /\ i \in batch /\ stageJob[i] = "pending"
      /\ stageJob' = [stageJob EXCEPT ![i] = "classifying"]
      /\ UNCHANGED <<stageMode, base, batch, offset, stagePhase, failure>>
      /\ UNCHANGED <<decision, outcomes, stageJournal, processed, handled, attempted, counted>>
  BY DEF Stage!StartJob, Stage!Goto, Stage!calls, Stage!saved
<1>1. /\ decision' = [decision EXCEPT ![i] = "none"] /\ decision[i] = "none"
      /\ stageJob'[i] = "classifying" /\ i \notin Stage!Annotated /\ i \notin outcomes
      /\ i \notin handled
  BY <1>0 DEF StageInv, StageTyped, JobSound, Placed, Collected
<1>2. Stage!Annotated' = Stage!Annotated
  BY <1>0 DEF Stage!Annotated, Stage!Range
<1>3. JobSound(i)' /\ Placed(i)'
  BY <1>0, <1>1, <1>2 DEF JobSound, Placed, Collected, Active
<1>4. Counted'
  BY <1>0, <1>2 DEF StageInv, Counted
<1>5. /\ stageJournal' \in Seq(Stage!Findings) /\ outcomes' \subseteq Stage!Findings
      /\ handled' \subseteq Stage!Findings /\ processed' \in Nat /\ counted' \in Nat
  BY <1>0 DEF StageInv, StageTyped
<1>6. "classifying" \in Active \cup Collected \cup {"raised"} /\ "none" \in Answered \cup {"none", "nothing"}
  BY DEF Active
<1> QED
  BY <1>0, <1>1, <1>2, <1>3, <1>4, <1>5, <1>6, TriageJobMoves

LEMMA ClassifyKeeps == ASSUME StageInv, NEW i \in Stage!Findings, Stage!Classify(i) PROVE StageInv'
<1>0. /\ stageJob[i] = "classifying"
      /\ UNCHANGED <<stageMode, base, batch, offset, stagePhase, failure>>
      /\ UNCHANGED <<outcomes, stageJournal, processed, handled, attempted, counted>>
  BY DEF Stage!Classify, Stage!calls, Stage!saved
<1>1. PICK where \in {"recording", "storing", "raised"}, said \in Answered \cup {"none", "nothing"} :
        /\ stageJob' = [stageJob EXCEPT ![i] = where] /\ decision' = [decision EXCEPT ![i] = said]
        /\ where = "recording" => said \in Answered
        /\ where = "storing" => said = "nothing"
  <2>1. decision[i] = "none" /\ decision = [decision EXCEPT ![i] = "none"]
    BY <1>0 DEF StageInv, StageTyped, JobSound
  <2>2. CASE \E d \in {"decided", "error"} :
              decision' = [decision EXCEPT ![i] = d] /\ stageJob' = [stageJob EXCEPT ![i] = "recording"]
    BY <2>2 DEF Answered
  <2>3. CASE decision' = [decision EXCEPT ![i] = "nothing"] /\ stageJob' = [stageJob EXCEPT ![i] = "storing"]
    BY <2>3
  <2>4. CASE stageJob' = [stageJob EXCEPT ![i] = "raised"] /\ decision' = decision
    <3>1. decision' = [decision EXCEPT ![i] = "none"]
      BY <2>1, <2>4
    <3> QED
      BY <2>4, <3>1
  <2> QED
    BY <2>2, <2>3, <2>4 DEF Stage!Classify, Stage!Goto
<1>2. /\ stageJob'[i] = where /\ decision'[i] = said /\ i \in batch
      /\ stagePhase \in {"running", "draining"}
      /\ i \notin Stage!Annotated /\ i \notin outcomes /\ i \notin handled
  BY <1>0, <1>1 DEF StageInv, StageTyped, JobSound, Placed, Collected, Active
<1>3. Stage!Annotated' = Stage!Annotated
  BY <1>0 DEF Stage!Annotated, Stage!Range
<1>4. JobSound(i)' /\ Placed(i)'
  BY <1>0, <1>1, <1>2, <1>3 DEF JobSound, Placed, Collected, Active
<1>5. Counted'
  BY <1>0, <1>3 DEF StageInv, Counted
<1>6. /\ stageJournal' \in Seq(Stage!Findings) /\ outcomes' \subseteq Stage!Findings
      /\ handled' \subseteq Stage!Findings /\ processed' \in Nat /\ counted' \in Nat
  BY <1>0 DEF StageInv, StageTyped
<1>7. where \in Active \cup Collected \cup {"raised"} /\ stageJob[i] # "reported"
  BY <1>0 DEF Active
<1> QED
  BY <1>0, <1>1, <1>2, <1>3, <1>4, <1>5, <1>6, <1>7, TriageJobMoves

LEMMA AnnotateKeeps == ASSUME StageInv, NEW i \in Stage!Findings, Stage!Annotate(i) PROVE StageInv'
<1>0. /\ stageJob[i] = "recording"
      /\ UNCHANGED <<stageMode, base, batch, offset, stagePhase, failure>>
      /\ UNCHANGED <<decision, outcomes, processed, handled, attempted, counted>>
  BY DEF Stage!Annotate, Stage!calls, Stage!saved
<1>1. /\ i \in batch /\ stagePhase \in {"running", "draining"} /\ decision[i] \in Answered
      /\ i \notin Stage!Annotated /\ i \notin outcomes /\ i \notin handled
      /\ decision' = [decision EXCEPT ![i] = decision[i]] /\ stageJournal \in Seq(Stage!Findings)
  BY <1>0 DEF StageInv, StageTyped, JobSound, Placed, Collected, Active
<1>2. /\ outcomes' \subseteq Stage!Findings /\ handled' \subseteq Stage!Findings
      /\ processed' \in Nat /\ counted' \in Nat
      /\ decision[i] \in Answered \cup {"none", "nothing"}
  BY <1>0 DEF StageInv, StageTyped
<1>3. CASE stageJournal' = Append(stageJournal, i) /\ stageJob' = [stageJob EXCEPT ![i] = "storing"]
  <2>1. stageJournal' \in Seq(Stage!Findings) /\ Len(stageJournal') = Len(stageJournal) + 1
    BY <1>1, <1>3
  <2>2. Stage!Annotated' = Stage!Annotated \cup {i}
    <3>1. /\ DOMAIN stageJournal' = 1..(Len(stageJournal) + 1) /\ DOMAIN stageJournal = 1..Len(stageJournal)
          /\ Len(stageJournal) \in Nat
      BY <1>1, <1>3
    <3>2. \A k \in 1..(Len(stageJournal) + 1) :
            stageJournal'[k] = IF k = Len(stageJournal) + 1 THEN i ELSE stageJournal[k]
      BY <1>1, <1>3
    <3>3. \A k \in 1..(Len(stageJournal) + 1) : k = Len(stageJournal) + 1 \/ k \in 1..Len(stageJournal)
      BY <3>1
    <3>4. 1..Len(stageJournal) \subseteq 1..(Len(stageJournal) + 1) /\ Len(stageJournal) + 1 \in 1..(Len(stageJournal) + 1)
          /\ \A k \in 1..Len(stageJournal) : k # Len(stageJournal) + 1
      BY <3>1
    <3>5. Stage!Annotated' \subseteq Stage!Annotated \cup {i}
      BY <3>1, <3>2, <3>3 DEF Stage!Annotated, Stage!Range
    <3>6. Stage!Annotated \subseteq Stage!Annotated'
      BY <3>1, <3>2, <3>4 DEF Stage!Annotated, Stage!Range
    <3>7. i \in Stage!Annotated'
      BY <3>1, <3>2, <3>4 DEF Stage!Annotated, Stage!Range
    <3> QED
      BY <3>5, <3>6, <3>7
  <2>3. Stage!Annotated \subseteq Stage!Findings
    BY <1>1 DEF Stage!Annotated, Stage!Range
  <2>4. IsFiniteSet(Stage!Annotated)
    BY <2>3, FindingsFinite
  <2>5. Cardinality(Stage!Annotated') = Cardinality(Stage!Annotated) + 1
    BY <1>1, <2>2, <2>4, FS_AddElement
  <2>6. Counted'
    BY <1>0, <2>1, <2>2, <2>5 DEF StageInv, Counted
  <2>7. stageJob'[i] = "storing" /\ decision'[i] = decision[i]
    BY <1>0, <1>3 DEF StageInv, StageTyped
  <2>8. JobSound(i)' /\ Placed(i)'
    BY <1>0, <1>1, <2>2, <2>7 DEF JobSound, Placed, Collected, Active, Answered
  <2>9. "storing" \in Active \cup Collected \cup {"raised"} /\ stageJob[i] # "reported"
    BY <1>0 DEF Active
  <2>10. /\ Stage!Annotated' \ {i} = Stage!Annotated \ {i} /\ outcomes' \ {i} = outcomes \ {i}
         /\ handled' \ {i} = handled \ {i}
    BY <1>0, <2>2
  <2> QED
    BY <1>0, <1>1, <1>2, <1>3, <2>1, <2>6, <2>8, <2>9, <2>10, TriageJobMoves
<1>4. CASE stageJournal' = stageJournal /\ stageJob' = [stageJob EXCEPT ![i] = "raised"]
  <2>1. Stage!Annotated' = Stage!Annotated
    BY <1>4 DEF Stage!Annotated, Stage!Range
  <2>2. Counted'
    BY <1>0, <1>4, <2>1 DEF StageInv, Counted
  <2>3. stageJob'[i] = "raised" /\ decision'[i] = decision[i]
    BY <1>0, <1>4 DEF StageInv, StageTyped
  <2>4. JobSound(i)' /\ Placed(i)'
    BY <1>0, <1>1, <2>1, <2>3 DEF JobSound, Placed, Collected, Active
  <2>5. stageJob[i] # "reported"
    BY <1>0
  <2> QED
    BY <1>0, <1>1, <1>2, <1>4, <2>1, <2>2, <2>4, <2>5, TriageJobMoves
<1> QED
  BY <1>3, <1>4 DEF Stage!Annotate, Stage!Goto

LEMMA StoreKeeps == ASSUME StageInv, NEW i \in Stage!Findings, Stage!StoreOutcome(i) PROVE StageInv'
<1>0. /\ stageJob[i] = "storing" /\ outcomes' = outcomes \cup {i}
      /\ stageJob' = [stageJob EXCEPT ![i] = "done"]
      /\ UNCHANGED <<stageMode, base, batch, offset, stagePhase, failure>>
      /\ UNCHANGED <<decision, stageJournal, processed, handled, attempted, counted>>
  BY DEF Stage!StoreOutcome, Stage!Goto, Stage!calls, Stage!saved
<1>1. /\ i \in batch /\ stagePhase \in {"running", "draining"}
      /\ decision' = [decision EXCEPT ![i] = decision[i]]
      /\ decision[i] \in Answered \cup {"nothing"}
      /\ i \notin handled /\ (i \in Stage!Annotated <=> decision[i] # "nothing")
  BY <1>0 DEF StageInv, StageTyped, JobSound, Placed, Collected, Active
<1>2. /\ stageJournal' \in Seq(Stage!Findings) /\ outcomes' \subseteq Stage!Findings
      /\ handled' \subseteq Stage!Findings /\ processed' \in Nat /\ counted' \in Nat
  BY <1>0 DEF StageInv, StageTyped
<1>3. Stage!Annotated' = Stage!Annotated
  BY <1>0 DEF Stage!Annotated, Stage!Range
<1>4. stageJob'[i] = "done" /\ decision'[i] = decision[i]
  BY <1>0 DEF StageInv, StageTyped
<1>5. JobSound(i)' /\ Placed(i)'
  BY <1>0, <1>1, <1>3, <1>4 DEF JobSound, Placed, Collected, Active, Before
<1>6. Counted'
  BY <1>0, <1>3 DEF StageInv, Counted
<1>7. /\ "done" \in Active \cup Collected \cup {"raised"} /\ stageJob[i] # "reported"
      /\ decision[i] \in Answered \cup {"none", "nothing"}
  BY <1>0, <1>1 DEF Collected
<1>8. outcomes' \ {i} = outcomes \ {i}
  BY <1>0
<1> QED
  BY <1>0, <1>1, <1>2, <1>3, <1>5, <1>6, <1>7, <1>8, TriageJobMoves

(* report_completion() drops a finding without a decision. *)
LEMMA DropKeeps ==
    ASSUME StageInv, NEW i \in Stage!Findings, i \in batch, stagePhase = "running",
           stageJob[i] = "done", decision[i] = "nothing", outcomes' = outcomes \ {i},
           stageJob' = [stageJob EXCEPT ![i] = "reported"],
           UNCHANGED <<stageMode, base, batch, offset, stagePhase, failure>>,
           UNCHANGED <<decision, stageJournal, processed, handled, attempted, counted>>
    PROVE  StageInv'
<1>1. /\ decision' = [decision EXCEPT ![i] = decision[i]] /\ stageJob'[i] = "reported"
      /\ decision'[i] = "nothing" /\ i \notin Stage!Annotated /\ i \notin handled
  BY DEF StageInv, StageTyped, Placed
<1>2. /\ stageJournal' \in Seq(Stage!Findings) /\ outcomes' \subseteq Stage!Findings
      /\ handled' \subseteq Stage!Findings /\ processed' \in Nat /\ counted' \in Nat
  BY DEF StageInv, StageTyped
<1>3. Stage!Annotated' = Stage!Annotated
  BY DEF Stage!Annotated, Stage!Range
<1>4. JobSound(i)' /\ Placed(i)'
  BY <1>1, <1>3 DEF JobSound, Placed, Collected, Active
<1>5. Counted'
  BY <1>3 DEF StageInv, Counted
<1>6. "reported" \in Active \cup Collected \cup {"raised"} /\ stageJob[i] # "reported"
      /\ decision[i] \in Answered \cup {"none", "nothing"}
  BY DEF Collected
<1>7. outcomes' \ {i} = outcomes \ {i}
  OBVIOUS
<1> QED
  BY <1>1, <1>2, <1>3, <1>4, <1>5, <1>6, <1>7, TriageJobMoves

(* It counts the others, at a checkpoint. *)
LEMMA CountKeeps ==
    ASSUME StageInv, NEW i \in Stage!Findings, i \in batch, stagePhase = "running",
           stageJob[i] = "done", decision[i] # "nothing", outcomes' = outcomes \ {i},
           handled' = handled \cup {i}, processed' = processed + 1, counted' = processed + 1,
           attempted' = Stage!Annotated, stageJob' = [stageJob EXCEPT ![i] = "reported"],
           UNCHANGED <<stageMode, base, batch, offset, stagePhase, failure>>,
           UNCHANGED <<decision, stageJournal>>
    PROVE  StageInv'
<1>1. /\ decision' = [decision EXCEPT ![i] = decision[i]] /\ stageJob'[i] = "reported"
      /\ decision'[i] = decision[i] /\ i \in Stage!Annotated /\ i \notin handled
      /\ decision[i] \in Answered
  BY DEF StageInv, StageTyped, Placed, JobSound, Collected, Before
<1>2. /\ stageJournal' \in Seq(Stage!Findings) /\ outcomes' \subseteq Stage!Findings
      /\ handled' \subseteq Stage!Findings /\ processed' \in Nat /\ counted' \in Nat
      /\ handled \subseteq Stage!Findings /\ processed \in Nat /\ base \in Nat
  BY DEF StageInv, StageTyped
<1>3. Stage!Annotated' = Stage!Annotated
  BY DEF Stage!Annotated, Stage!Range
<1>4. JobSound(i)' /\ Placed(i)'
  BY <1>1, <1>3 DEF JobSound, Placed, Collected, Active
<1>5. Counted'
  <2>1. IsFiniteSet(handled) /\ Cardinality(handled) \in Nat
    BY <1>2, FindingsFinite
  <2>2. Cardinality(handled') = Cardinality(handled) + 1
    BY <1>1, <2>1, FS_AddElement
  <2>3. handled \subseteq Stage!Annotated
    BY DEF StageInv, Counted, Phases
  <2>4. processed' = base + Cardinality(handled')
    BY <1>2, <2>1, <2>2 DEF StageInv, Counted
  <2> QED
    BY <1>1, <1>3, <2>3, <2>4 DEF StageInv, Counted
<1>6. "reported" \in Active \cup Collected \cup {"raised"} /\ stageJob[i] # "reported"
      /\ decision[i] \in Answered \cup {"none", "nothing"}
  BY <1>1 DEF Collected
<1>7. outcomes' \ {i} = outcomes \ {i} /\ handled' \ {i} = handled \ {i}
  OBVIOUS
<1> QED
  BY <1>1, <1>2, <1>3, <1>4, <1>5, <1>6, <1>7, TriageJobMoves

-----------------------------------------------------------------------------
(* The thread moves, and the jobs stay. *)
LEMMA WorkStays ==
    ASSUME UNCHANGED Stage!work
    PROVE  /\ stageJob' = stageJob /\ decision' = decision /\ outcomes' = outcomes
           /\ stageJournal' = stageJournal /\ Stage!Annotated' = Stage!Annotated
BY DEF Stage!work, Stage!Annotated, Stage!Range

LEMMA FailsKeeps ==
    ASSUME StageInv, stagePhase = "running", Stage!RunFails, counted' \in Nat PROVE StageInv'
<1>0. /\ stagePhase' = "draining" /\ failure' = TRUE
      /\ UNCHANGED <<stageMode, base, batch, offset, processed, handled>>
      /\ stageJob' = stageJob /\ decision' = decision /\ outcomes' = outcomes
      /\ stageJournal' = stageJournal /\ Stage!Annotated' = Stage!Annotated
  BY WorkStays DEF Stage!RunFails, Stage!calls
<1>1. StageTyped'
  BY <1>0 DEF StageInv, StageTyped, InBatch
<1>2. Phases' /\ Counted'
  BY <1>0 DEF StageInv, Phases, Counted, InBatch
<1>3. \A i \in Stage!Findings : JobSound(i)' /\ Placed(i)'
  BY <1>0 DEF StageInv, JobSound, Placed, Before
<1>4. Stage!CheckpointComplete' /\ Stage!ReturnExact'
  BY <1>0 DEF Stage!CheckpointComplete, Stage!ReturnExact
<1> QED
  BY <1>0, <1>1, <1>2, <1>3, <1>4 DEF StageInv

LEMMA ReportKeeps == ASSUME StageInv, NEW i \in Stage!Findings, Stage!Report(i) PROVE StageInv'
<1>0. stagePhase = "running" /\ i \in batch /\ stageJob[i] = "done"
  BY DEF Stage!Report
<1>1. processed + 1 \in Nat /\ counted \in Nat
  BY DEF StageInv, StageTyped
<1>2. CASE Stage!RunFails
  <2>1. counted' \in Nat
    BY <1>0, <1>1, <1>2 DEF Stage!Report, Stage!saved, Stage!Checkpoint, Stage!RunFails
  <2> QED
    BY <1>0, <1>2, <2>1, FailsKeeps
<1>3. CASE ~Stage!RunFails /\ ~Stage!Handled(i)
  BY <1>0, <1>3, DropKeeps DEF Stage!Report, Stage!Goto, Stage!Handled, Stage!calls, Stage!saved
<1>4. CASE ~Stage!RunFails /\ Stage!Handled(i)
  BY <1>0, <1>4, CountKeeps DEF Stage!Report, Stage!Goto, Stage!Handled, Stage!calls, Stage!Checkpoint
<1> QED
  BY <1>2, <1>3, <1>4

LEMMA RunEndsKeeps == ASSUME StageInv, Stage!Drain \/ Stage!AllReported PROVE StageInv'
<1>0. /\ stagePhase' = "leftovers"
      /\ UNCHANGED <<stageMode, base, batch, offset, processed, handled, failure, attempted, counted>>
      /\ stageJob' = stageJob /\ decision' = decision /\ outcomes' = outcomes
      /\ stageJournal' = stageJournal /\ Stage!Annotated' = Stage!Annotated
      /\ stagePhase \in {"running", "draining"}
  BY WorkStays DEF Stage!Drain, Stage!AllReported, Stage!calls, Stage!saved
<1>1. StageTyped' /\ Phases' /\ Counted'
  BY <1>0 DEF StageInv, StageTyped, Phases, Counted, InBatch
<1>2. \A i \in Stage!Findings : stageJob[i] \notin Active
  <2>1. CASE Stage!Drain
    BY <2>1 DEF Stage!Drain, Stage!InFlight, StageInv, JobSound, Active
  <2>2. CASE Stage!AllReported
    BY <2>2 DEF Stage!AllReported, StageInv, JobSound, Active
  <2> QED
    BY <2>1, <2>2
<1>3. \A i \in Stage!Findings : JobSound(i)' /\ Placed(i)'
  BY <1>0, <1>2 DEF StageInv, JobSound, Placed, Before
<1>4. ~failure => \A i \in Stage!Findings : Complete(i)' => stageJob[i] = "reported"
  <2>1. stagePhase = "draining" => failure
    BY DEF StageInv, Phases
  <2> SUFFICES ASSUME ~failure, NEW i \in Stage!Findings, Complete(i)' PROVE stageJob[i] = "reported"
    OBVIOUS
  <2>2. Stage!AllReported
    BY <1>0, <2>1 DEF Stage!Drain
  <2>3. i \in batch \/ Complete(i)
    BY <1>0 DEF Complete, InBatch
  <2> QED
    BY <2>2, <2>3 DEF StageInv, Stage!AllReported
<1>5. Stage!CheckpointComplete' /\ Stage!ReturnExact'
  BY <1>0 DEF Stage!CheckpointComplete, Stage!ReturnExact
<1> QED
  BY <1>0, <1>1, <1>3, <1>4, <1>5 DEF StageInv

LEMMA LeftoversKeeps == ASSUME StageInv, Stage!Leftovers PROVE StageInv'
<1> DEFINE kept == {i \in outcomes : Stage!Handled(i)}
<1>0. /\ stagePhase = "leftovers" /\ stagePhase' = "flush"
      /\ processed' = processed + Cardinality(kept) /\ handled' = handled \cup kept
      /\ UNCHANGED <<stageMode, base, batch, offset, failure, attempted, counted>>
      /\ stageJob' = stageJob /\ decision' = decision /\ outcomes' = outcomes
      /\ stageJournal' = stageJournal /\ Stage!Annotated' = Stage!Annotated
  <2>1. UNCHANGED Stage!work
    BY DEF Stage!Leftovers
  <2>2. /\ stagePhase = "leftovers" /\ stagePhase' = "flush"
        /\ UNCHANGED <<stageMode, base, batch, offset, failure, attempted, counted>>
    BY DEF Stage!Leftovers, Stage!calls, Stage!saved
  <2>3. processed' = processed + Cardinality(kept) /\ handled' = handled \cup kept
    BY StageCardinality DEF Stage!Leftovers
  <2> QED
    BY <2>1, <2>2, <2>3, WorkStays
<1>1. /\ kept \subseteq Stage!Findings /\ kept \cap handled = {}
      /\ \A i \in Stage!Findings : i \in kept <=> stageJob[i] = "done" /\ decision[i] # "nothing"
      /\ handled \subseteq Stage!Findings
  BY <1>0 DEF StageInv, StageTyped, Placed, Stage!Handled, Before
<1>2. ~failure => kept = {}
  <2>1. ~failure => \A i \in batch : stageJob[i] = "reported"
    BY <1>0 DEF StageInv, Complete, StageTyped
  <2>2. \A i \in kept : i \in batch
    BY <1>1 DEF StageInv, JobSound
  <2> QED
    BY <1>1, <2>1, <2>2
<1> HIDE DEF kept
<1>3. IsFiniteSet(kept) /\ IsFiniteSet(handled) /\ Cardinality(kept) \in Nat /\ Cardinality(handled) \in Nat
  BY <1>1, FindingsFinite
<1>4. Cardinality(handled \cup kept) = Cardinality(handled) + Cardinality(kept)
  <2>1. Cardinality(handled \cap kept) = 0
    <3>1. handled \cap kept = {}
      BY <1>1
    <3> QED
      BY <3>1, FS_EmptySet
  <2>2. Cardinality(handled \cup kept) =
            Cardinality(handled) + Cardinality(kept) - Cardinality(handled \cap kept)
    BY <1>3, FS_Union
  <2> QED
    BY <1>3, <2>1, <2>2
<1>5. StageTyped'
  <2>1. processed' \in Nat
    BY <1>0, <1>3 DEF StageInv, StageTyped
  <2> QED
    BY <1>0, <1>1, <2>1 DEF StageInv, StageTyped, InBatch
<1>6. Counted'
  <2>1. processed' = base + Cardinality(handled')
    BY <1>0, <1>3, <1>4 DEF StageInv, StageTyped, Counted
  <2>2. ~failure => handled' = handled /\ processed' = processed
    <3>1. Cardinality({}) = 0
      BY FS_EmptySet
    <3>2. processed \in Nat
      BY DEF StageInv, StageTyped
    <3>3. ASSUME ~failure PROVE handled' = handled /\ processed' = processed
      BY <1>0, <1>2, <3>1, <3>2, <3>3
    <3> QED
      BY <3>3
  <2> QED
    BY <1>0, <2>1, <2>2 DEF StageInv, Counted
<1>7. Phases'
  BY <1>0 DEF StageInv, Phases, InBatch
<1>8. \A i \in Stage!Findings : JobSound(i)' /\ Placed(i)'
  BY <1>0, <1>1 DEF StageInv, JobSound, Placed, Before
<1>9. ~failure' => \A i \in Stage!Findings : Complete(i)' => stageJob'[i] = "reported"
  BY <1>0 DEF StageInv, Complete, InBatch
<1>10. Stage!CheckpointComplete' /\ Stage!ReturnExact'
  BY <1>0 DEF Stage!CheckpointComplete, Stage!ReturnExact
<1> QED
  BY <1>5, <1>6, <1>7, <1>8, <1>9, <1>10 DEF StageInv

(* After the leftovers, what is annotated is what is handled. *)
LEMMA Settled ==
    ASSUME StageInv, stagePhase \in {"flush", "closing", "publish"}
    PROVE  /\ handled = Stage!Annotated /\ processed = base + Len(stageJournal)
           /\ Len(stageJournal) = Cardinality(Stage!Annotated)
           /\ Len(stageJournal) \in Nat
           /\ stageJournal # <<>> => processed > base
           /\ ~failure => attempted = Stage!Annotated /\ counted = base + Len(stageJournal)
<1>1. stageJournal \in Seq(Stage!Findings) /\ base \in Nat
  BY DEF StageInv, StageTyped
<1>2. Stage!Annotated \subseteq Stage!Findings
  BY <1>1 DEF Stage!Annotated, Stage!Range
<1>3. handled = Stage!Annotated
  <2>1. \A i \in Stage!Findings : i \in handled <=> i \in Stage!Annotated
    BY DEF StageInv, JobSound, Placed, Before, Active, Collected
  <2> QED
    BY <1>2, <2>1 DEF StageInv, StageTyped
<1>4. Len(stageJournal) = Cardinality(Stage!Annotated) /\ processed = base + Len(stageJournal)
  BY <1>3 DEF StageInv, Counted
<1>5. Len(stageJournal) \in Nat /\ (stageJournal # <<>> => Len(stageJournal) > 0)
  BY <1>1
<1>6. Len(stageJournal) > 0 => base + Len(stageJournal) > base
  BY <1>1, <1>5
<1>7. ~failure => attempted = Stage!Annotated /\ counted = base + Len(stageJournal)
  BY <1>3, <1>4 DEF StageInv, Counted
<1> QED
  BY <1>3, <1>4, <1>5, <1>6, <1>7

(* Between the batches no job is under way or waits to be reported. *)
LEMMA BetweenBatches ==
    ASSUME StageInv, stagePhase = "between"
    PROVE  ~failure /\ stageMode = "file" /\ \A i \in Stage!Findings : stageJob[i] \in {"pending", "reported"}
BY DEF StageInv, StageTyped, Phases, JobSound, Complete

LEMMA FlushKeeps == ASSUME StageInv, Stage!Flush PROVE StageInv'
<1>0. /\ stagePhase = "flush" /\ offset' = offset + Cardinality(batch) /\ Stage!AfterBatch
      /\ UNCHANGED <<stageMode, base, batch, processed, handled>>
      /\ stageJob' = stageJob /\ decision' = decision /\ outcomes' = outcomes
      /\ stageJournal' = stageJournal /\ Stage!Annotated' = Stage!Annotated
  <2>1. UNCHANGED Stage!work
    BY DEF Stage!Flush
  <2>2. /\ stagePhase = "flush" /\ offset' = offset + Cardinality(batch) /\ Stage!AfterBatch
        /\ UNCHANGED <<stageMode, base, batch, processed, handled>>
    BY StageCardinality DEF Stage!Flush
  <2> QED
    BY <2>1, <2>2, WorkStays
<1>1. /\ stageMode \in {"file", "run"} /\ failure \in BOOLEAN /\ batch \subseteq Stage!Findings
      /\ processed \in Nat /\ counted \in Nat /\ base \in Nat /\ offset \in Nat
  BY DEF StageInv, StageTyped
<1>2. /\ handled = Stage!Annotated /\ processed = base + Len(stageJournal)
      /\ Len(stageJournal) = Cardinality(Stage!Annotated) /\ Len(stageJournal) \in Nat
      /\ stageJournal # <<>> => processed > base
      /\ ~failure => attempted = Stage!Annotated /\ counted = base + Len(stageJournal)
  BY <1>0, Settled
<1>3. \/ ~Stage!FlushPartial /\ failure' = failure /\ attempted' = attempted /\ counted' = counted
      \/ /\ Stage!FlushPartial /\ attempted' = Stage!Annotated /\ counted' = processed
         /\ failure' \in BOOLEAN /\ (failure => failure')
  BY <1>1 DEF Stage!Flush, Stage!saved, Stage!Checkpoint
<1>4. /\ failure' \in BOOLEAN /\ (failure => failure') /\ counted' \in Nat
      /\ stageMode = "file" => failure' = failure
      /\ ~failure' => attempted' = Stage!Annotated /\ counted' = base + Len(stageJournal)
  BY <1>1, <1>2, <1>3 DEF Stage!FlushPartial
<1>5. stagePhase' = IF stageMode = "file" THEN IF failure' THEN "closing" ELSE "between"
                    ELSE IF failure' THEN "raised" ELSE "publish"
  BY <1>0, <1>1, <1>4 DEF Stage!AfterBatch
<1>6. Cardinality(batch) \in Nat
  BY <1>1, FindingsFinite
<1>7. offset' \in Nat
  BY <1>0, <1>1, <1>6
<1>8. StageTyped'
  BY <1>0, <1>1, <1>4, <1>5, <1>7 DEF StageInv, StageTyped
<1>9. Phases'
  BY <1>0, <1>1, <1>4, <1>5 DEF StageInv, Phases, InBatch
<1>10. Counted'
  BY <1>0, <1>1, <1>2, <1>4 DEF StageInv, Counted
<1>11. ~failure => \A i \in batch : stageJob[i] = "reported"
  BY <1>0, <1>1 DEF StageInv, Complete
<1>12. \A i \in Stage!Findings : stageJob[i] = "done" => i \in batch
  BY DEF StageInv, JobSound
<1>13. \A i \in Stage!Findings : JobSound(i)' /\ Placed(i)'
  BY <1>0, <1>4, <1>5, <1>11, <1>12 DEF StageInv, JobSound, Placed, Before, Active
<1>14. ASSUME ~failure', NEW i \in Stage!Findings, Complete(i)' PROVE stageJob[i] = "reported"
  <2>1. CASE i \in batch
    BY <1>4, <1>11, <1>14, <2>1
  <2>2. CASE i \notin batch
    <3>1. stageMode = "file" /\ i <= offset'
      BY <1>0, <1>1, <1>5, <1>14, <2>2 DEF Complete, StageInv, Phases, InBatch
    <3>2. batch = {j \in Stage!Findings : offset < j /\ j <= offset + BatchSize}
      BY <1>0, <3>1 DEF StageInv, Phases, InBatch
    <3>3. batch \subseteq (offset + 1)..(offset + BatchSize)
      BY <1>1, <3>2, StageAssumption DEF Stage!Findings
    <3>4. /\ IsFiniteSet((offset + 1)..(offset + BatchSize))
          /\ Cardinality((offset + 1)..(offset + BatchSize)) = BatchSize
      <4>1. offset + 1 \in Int /\ offset + BatchSize \in Int /\ offset + 1 <= offset + BatchSize
        BY <1>1, StageAssumption
      <4>2. ASSUME NEW a \in Int, NEW b \in Int, a <= b
            PROVE  IsFiniteSet(a..b) /\ Cardinality(a..b) = b - a + 1
        BY <4>2, FS_Interval
      <4>3. /\ IsFiniteSet((offset + 1)..(offset + BatchSize))
            /\ Cardinality((offset + 1)..(offset + BatchSize)) = (offset + BatchSize) - (offset + 1) + 1
        BY <4>1, <4>2
      <4>4. (offset + BatchSize) - (offset + 1) + 1 = BatchSize
        BY <1>1, StageAssumption
      <4> QED
        BY <4>3, <4>4
    <3>5. Cardinality(batch) <= BatchSize
      BY <3>3, <3>4, FS_Subset
    <3>6. i <= offset + BatchSize /\ i \in Nat
      BY <1>0, <1>1, <1>6, <3>1, <3>5, StageAssumption DEF Stage!Findings
    <3>7. i <= offset
      BY <1>1, <2>2, <3>2, <3>6
    <3>8. Complete(i)
      BY <1>0, <3>1, <3>7 DEF Complete, InBatch
    <3> QED
      BY <1>4, <1>14, <3>8 DEF StageInv
  <2> QED
    BY <2>1, <2>2
<1>15. Stage!CheckpointComplete'
  <2> SUFFICES ASSUME stagePhase' = "raised", stageJournal # <<>>
               PROVE  attempted' = Stage!Annotated /\ counted' = base + Len(stageJournal)
    BY <1>0, <1>1, <1>4, <1>5 DEF Stage!CheckpointComplete
  <2>1. stageMode = "run" /\ processed > base
    BY <1>1, <1>2, <1>4, <1>5
  <2>2. CASE failure
    BY <1>2, <1>3, <2>1, <2>2 DEF Stage!FlushPartial
  <2>3. CASE ~failure
    BY <1>2, <1>3, <2>3
  <2> QED
    BY <2>2, <2>3
<1>16. Stage!ReturnExact'
  BY <1>1, <1>4, <1>5 DEF Stage!ReturnExact
<1> QED
  BY <1>0, <1>8, <1>9, <1>10, <1>13, <1>14, <1>15, <1>16 DEF StageInv

LEMMA BatchKeeps == ASSUME StageInv, Stage!NextBatch PROVE StageInv'
<1>0. /\ stagePhase = "between" /\ stagePhase' = "running"
      /\ batch' = {i \in Stage!Findings : offset < i /\ i <= offset + BatchSize}
      /\ UNCHANGED <<stageMode, base, offset, processed, handled, failure, attempted, counted>>
      /\ stageJob' = stageJob /\ decision' = decision /\ outcomes' = outcomes
      /\ stageJournal' = stageJournal /\ Stage!Annotated' = Stage!Annotated
  BY WorkStays DEF Stage!NextBatch, Stage!saved
<1>1. ~failure /\ stageMode = "file" /\ \A i \in Stage!Findings : stageJob[i] \in {"pending", "reported"}
  BY <1>0, BetweenBatches
<1>2. StageTyped' /\ Phases' /\ Counted'
  BY <1>0, <1>1 DEF StageInv, StageTyped, Phases, Counted, InBatch
<1>3. \A i \in Stage!Findings : JobSound(i)' /\ Placed(i)'
  BY <1>0, <1>1 DEF StageInv, JobSound, Placed, Before, Active
<1>4. \A i \in Stage!Findings : Complete(i)' => stageJob'[i] = "reported"
  BY <1>0, <1>1 DEF StageInv, Complete, InBatch
<1>5. Stage!CheckpointComplete' /\ Stage!ReturnExact'
  BY <1>0 DEF Stage!CheckpointComplete, Stage!ReturnExact
<1> QED
  BY <1>2, <1>3, <1>4, <1>5 DEF StageInv

LEMMA LeaveKeeps == ASSUME StageInv, Stage!LeaveBatches PROVE StageInv'
<1>0. /\ stagePhase = "between" /\ stagePhase' = "closing"
      /\ failure' = TRUE \/ (offset = Count /\ failure' = failure)
      /\ UNCHANGED <<stageMode, base, batch, offset, processed, handled, attempted, counted>>
      /\ stageJob' = stageJob /\ decision' = decision /\ outcomes' = outcomes
      /\ stageJournal' = stageJournal /\ Stage!Annotated' = Stage!Annotated
  BY WorkStays DEF Stage!LeaveBatches, Stage!calls, Stage!saved
<1>1. ~failure /\ stageMode = "file" /\ \A i \in Stage!Findings : stageJob[i] \in {"pending", "reported"}
  BY <1>0, BetweenBatches
<1>2. StageTyped' /\ Phases' /\ Counted'
  BY <1>0, <1>1 DEF StageInv, StageTyped, Phases, Counted, InBatch
<1>3. \A i \in Stage!Findings : JobSound(i)' /\ Placed(i)'
  BY <1>0, <1>1 DEF StageInv, JobSound, Placed, Before, Active
<1>4. ~failure' => \A i \in Stage!Findings : stageJob[i] = "reported"
  <2>1. offset = Count => \A i \in Stage!Findings : i <= offset
    BY StageAssumption DEF Stage!Findings
  <2> QED
    BY <1>0, <1>1, <2>1 DEF StageInv, Complete
<1>5. Stage!CheckpointComplete' /\ Stage!ReturnExact'
  BY <1>0 DEF Stage!CheckpointComplete, Stage!ReturnExact
<1> QED
  BY <1>0, <1>2, <1>3, <1>4, <1>5 DEF StageInv

(* The call ends. *)
LEMMA EndOfCallKeeps ==
    ASSUME StageInv, stagePhase \in {"closing", "publish"}, stagePhase' \in {"returned", "raised"},
           stagePhase' = "returned" => ~failure,
           stageMode = "run" /\ stagePhase' = "returned" => stagePublished' = Stage!Annotated,
           stageJournal # <<>> => attempted' = Stage!Annotated,
           ~failure => attempted' = Stage!Annotated,
           stageJournal # <<>> \/ ~failure => counted' = base + Len(stageJournal), counted' \in Nat,
           UNCHANGED Stage!work,
           UNCHANGED <<stageMode, base, batch, offset, processed, handled, failure>>
    PROVE  StageInv'
<1>0. /\ stageJob' = stageJob /\ decision' = decision /\ outcomes' = outcomes
      /\ stageJournal' = stageJournal /\ Stage!Annotated' = Stage!Annotated
  BY WorkStays
<1>1. /\ handled = Stage!Annotated /\ processed = base + Len(stageJournal)
      /\ Len(stageJournal) = Cardinality(Stage!Annotated) /\ Len(stageJournal) \in Nat
  BY Settled
<1>2. StageTyped' /\ Phases'
  BY <1>0 DEF StageInv, StageTyped, Phases, InBatch
<1>3. Counted'
  BY <1>0, <1>1 DEF StageInv, Counted
<1>4. \A i \in Stage!Findings : JobSound(i)' /\ Placed(i)'
  BY <1>0 DEF StageInv, JobSound, Placed, Before
<1>5. ~failure => \A i \in Stage!Findings : stageJob[i] = "reported"
  BY DEF StageInv, Complete
<1>6. \A i \in Stage!Findings : Complete(i)' => FALSE
  BY DEF Complete, InBatch
<1>7. Stage!CheckpointComplete'
  BY <1>0 DEF Stage!CheckpointComplete
<1>8. Stage!ReturnExact'
  <2>1. ~failure => Stage!Findings \ handled = {i \in Stage!Findings : decision[i] = "nothing"}
    BY <1>5 DEF StageInv, Placed
  <2>2. ASSUME stagePhase' = "returned"
        PROVE  /\ Len(stageJournal') = Cardinality(Stage!Annotated')
               /\ processed' = base' + Len(stageJournal') /\ handled' = Stage!Annotated'
               /\ Stage!Findings \ handled' = {i \in Stage!Findings : decision'[i] = "nothing"}
               /\ stageMode' = "run" => stagePublished' = Stage!Annotated'
    BY <1>0, <1>1, <2>1, <2>2
  <2> QED
    BY <2>2, StageCardinality DEF Stage!ReturnExact
<1> QED
  BY <1>2, <1>3, <1>4, <1>6, <1>7, <1>8 DEF StageInv

LEMMA CloseKeeps == ASSUME StageInv, Stage!CloseFile PROVE StageInv'
<1>0. /\ stagePhase = "closing" /\ UNCHANGED Stage!work
      /\ UNCHANGED <<stageMode, base, batch, offset, processed, handled, failure>>
  BY DEF Stage!CloseFile, Stage!calls
<1>1. /\ stageMode = "file" /\ base = 0 /\ counted \in Nat /\ base + Len(stageJournal) = Len(stageJournal)
      /\ Len(stageJournal) \in Nat
      /\ ~failure => attempted = Stage!Annotated /\ counted = base + Len(stageJournal)
  BY <1>0, Settled DEF StageInv, StageTyped, Phases
<1>2. \/ attempted' = Stage!Annotated /\ counted' = Len(stageJournal)
      \/ /\ attempted' = attempted /\ counted' = counted
         /\ stageJournal = <<>> \/ ~failure
  BY DEF Stage!CloseFile, Stage!Checkpoint, Stage!saved
<1>3. stagePhase' \in {"returned", "raised"} /\ (stagePhase' = "returned" => ~failure)
  BY DEF Stage!CloseFile
<1> QED
  BY <1>0, <1>1, <1>2, <1>3, EndOfCallKeeps

LEMMA PublishKeeps == ASSUME StageInv, Stage!PublishRun PROVE StageInv'
<1>0. /\ stagePhase = "publish" /\ UNCHANGED Stage!work
      /\ UNCHANGED <<stageMode, base, batch, offset, processed, handled, failure>>
      /\ attempted' = attempted /\ counted' = counted
      /\ \/ stagePublished' = Stage!Annotated /\ stagePhase' = "returned"
         \/ stagePhase' = "raised"
  BY DEF Stage!PublishRun, Stage!calls
<1>1. /\ ~failure /\ counted \in Nat
      /\ attempted = Stage!Annotated /\ counted = base + Len(stageJournal)
  BY <1>0, Settled DEF StageInv, StageTyped, Phases
<1> QED
  BY <1>0, <1>1, EndOfCallKeeps

LEMMA StageStepKeeps == ASSUME StageInv, Stage!Next \/ UNCHANGED stageVars PROVE StageInv'
<1>1. ASSUME UNCHANGED stageVars PROVE StageInv'
  <2>1. Stage!Annotated' = Stage!Annotated
    BY <1>1 DEF stageVars, Stage!Annotated, Stage!Range
  <2>2. StageTyped' /\ Phases' /\ Counted'
    BY <1>1, <2>1 DEF stageVars, StageInv, StageTyped, Phases, Counted
  <2>3. \A i \in Stage!Findings : JobSound(i)' /\ Placed(i)'
    BY <1>1, <2>1 DEF stageVars, StageInv, JobSound, Placed
  <2>4. ~failure' => \A i \in Stage!Findings : Complete(i)' => stageJob'[i] = "reported"
    BY <1>1 DEF stageVars, StageInv, Complete
  <2>5. Stage!CheckpointComplete' /\ Stage!ReturnExact'
    BY <1>1, <2>1 DEF stageVars, StageInv, Stage!CheckpointComplete, Stage!ReturnExact
  <2> QED
    BY <2>2, <2>3, <2>4, <2>5 DEF StageInv
<1>2. Stage!Ended => UNCHANGED stageVars
  BY DEF Stage!Ended, Stage!vars, Stage!calls, Stage!work, Stage!saved, stageVars
<1>3. ASSUME Stage!Interrupted PROVE StageInv'
  <2>1. counted' \in Nat
    BY <1>3 DEF Stage!Interrupted, Stage!saved, StageInv, StageTyped
  <2> QED
    BY <1>3, <2>1, FailsKeeps DEF Stage!Interrupted
<1> QED
  BY <1>1, <1>2, <1>3, StartKeeps, ClassifyKeeps, AnnotateKeeps, StoreKeeps, ReportKeeps,
     RunEndsKeeps, LeftoversKeeps, FlushKeeps, BatchKeeps, LeaveKeeps, CloseKeeps, PublishKeeps
     DEF Stage!Next

(* TriageService.triage_file and triage_run, for any number of findings,   *)
(* batch size and workers, and any jobs, callbacks and readers that fail:  *)
(* however the call ends, its last checkpoint had every annotation and     *)
(* their number, and what it returns is what was annotated.                *)
THEOREM TriageAccounts == Spec => []TriageAccountsForAll
<1> DEFINE Inv == component = "stage" => StageInv
<1>1. Init => Inv
  BY StageInitial DEF Init
<1>2. Inv /\ [Next]_vars => Inv'
  BY ComponentSteps, StageStepKeeps
<1>3. Inv => TriageAccountsForAll
  BY DEF StageInv, TriageAccountsForAll
<1> QED
  BY <1>1, <1>2, <1>3, PTL DEF Spec

-----------------------------------------------------------------------------
(* The triage store.  While a publication goes through the snapshot, the   *)
(* changes still to come are the decisions it began with and has not       *)
(* written, in the order of the snapshot, and none of them is behind it.   *)

(* The elements of S, each once, in the order of the snapshot. *)
Listed(s, S) ==
    /\ s \in Seq(S)
    /\ \A p \in S : \E i \in 1..Len(s) : s[i] = p
    /\ \A i, j \in 1..Len(s) : i < j => Store!Before(s[i], s[j])

StoreTyped ==
    /\ storeDocument.groups \in Seq(Seq(BOOLEAN)) /\ include \in BOOLEAN
    /\ storeDecisions \in Seq(Store!Positions)
    /\ pass \in [at : {"idle", "merging"}, changes : Seq(Store!Positions), limit : Nat,
                 record : Nat, written : SUBSET Store!Positions]
    /\ upTo \in 0..Len(storeDecisions)

DecidedOnce ==
    /\ \A m, n \in 1..Len(storeDecisions) : storeDecisions[m] = storeDecisions[n] => m = n
    /\ \A n \in 1..Len(storeDecisions) : Store!Yielded(storeDecisions[n])

TotalsExact ==
    state = "open" =>
        /\ total = Cardinality(Store!Positions)
        /\ remaining = Cardinality({pos \in Store!Positions : ~Store!Triaged(pos)})

Decided(n) == {storeDecisions[m] : m \in 1..n}

Merging ==
    pass.at = "merging" =>
        /\ pass.limit <= Len(storeDecisions) /\ pass.record <= Len(Store!Ordered)
        /\ pass.written \subseteq Decided(pass.limit)
        /\ Listed(pass.changes, Decided(pass.limit) \ pass.written)
        /\ \A k \in 1..pass.record :
              Store!Ordered[k] \in Decided(pass.limit) => Store!Ordered[k] \in pass.written

StoreInv ==
    /\ StoreTyped /\ DecidedOnce /\ TotalsExact /\ Merging
    /\ target = Decided(upTo)

LEMMA StoreCardinality == \A S : Store!Cardinality(S) = Cardinality(S)
BY DEF Store!Cardinality, Cardinality

LEMMA BeforeOrders ==
    /\ \A p \in Nat \X Nat : ~Store!Before(p, p)
    /\ \A p, q \in Nat \X Nat : p = q \/ Store!Before(p, q) \/ Store!Before(q, p)
    /\ \A p, q, r \in Nat \X Nat : Store!Before(p, q) /\ Store!Before(q, r) => Store!Before(p, r)
BY DEF Store!Before

(* A sequence sorted by rank has every element, in increasing order. *)
LEMMA SortedListed ==
    ASSUME NEW S, S \subseteq Nat \X Nat, IsFiniteSet(S)
    PROVE  Listed(Store!Sorted(S), S)
<1> DEFINE n == Cardinality(S)
           Lower(p) == {q \in S : Store!Before(q, p)}
           Rank(p) == Cardinality(Lower(p))
           r == [p \in S |-> Rank(p)]
           s == Store!Sorted(S)
<1>1. n \in Nat
  BY FS_CardinalityType
<1>2. ASSUME NEW p \in S PROVE IsFiniteSet(Lower(p)) /\ Rank(p) \in 0..(n - 1)
  <2>1. Lower(p) \in SUBSET S /\ p \notin Lower(p)
    BY BeforeOrders
  <2>2. IsFiniteSet(Lower(p)) /\ Cardinality(Lower(p)) <= n /\ Cardinality(Lower(p)) # n
    BY <2>1, FS_Subset
  <2>3. Cardinality(Lower(p)) \in Nat
    BY <2>2, FS_CardinalityType
  <2> QED
    BY <1>1, <2>2, <2>3
<1>3. ASSUME NEW p \in S, NEW q \in S, Store!Before(p, q) PROVE Rank(p) < Rank(q)
  <2>1. Lower(p) \in SUBSET Lower(q) /\ p \in Lower(q) /\ p \notin Lower(p)
    BY <1>3, BeforeOrders
  <2>2. Cardinality(Lower(p)) <= Cardinality(Lower(q)) /\ Cardinality(Lower(p)) # Cardinality(Lower(q))
    BY <1>2, <2>1, FS_Subset
  <2>3. Rank(p) \in 0..(n - 1) /\ Rank(q) \in 0..(n - 1)
    BY <1>2
  <2> HIDE DEF Lower
  <2> QED
    BY <1>1, <2>2, <2>3
<1>4. r \in [S -> 0..(n - 1)]
  BY <1>2
<1>5. \A p, q \in S : r[p] = r[q] => p = q
  <2> SUFFICES ASSUME NEW p \in S, NEW q \in S, p # q PROVE r[p] # r[q]
    OBVIOUS
  <2>1. Store!Before(p, q) \/ Store!Before(q, p)
    BY BeforeOrders
  <2>2. Rank(p) < Rank(q) \/ Rank(q) < Rank(p)
    BY <2>1, <1>3
  <2>3. Rank(p) \in 0..(n - 1) /\ Rank(q) \in 0..(n - 1)
    BY <1>2
  <2> HIDE DEF Rank
  <2> QED
    BY <1>1, <2>2, <2>3
<1>6. r \in Injection(S, 0..(n - 1))
  BY <1>4, <1>5 DEF Injection, IsInjective
<1>7. IsFiniteSet(0..(n - 1)) /\ Cardinality(0..(n - 1)) = n
  <2>1. IsFiniteSet(0..(n - 1)) /\ Cardinality(0..(n - 1)) = IF 0 > n - 1 THEN 0 ELSE (n - 1) - 0 + 1
    BY <1>1, FS_Interval
  <2> QED
    BY <1>1, <2>1
<1>8. r \in Surjection(S, 0..(n - 1))
  BY <1>6, <1>7, FS_Injection
<1>9. ASSUME NEW k \in 1..n PROVE s[k] \in S /\ Rank(s[k]) = k - 1
  <2>1. k - 1 \in 0..(n - 1)
    BY <1>1
  <2>2. PICK p \in S : r[p] = k - 1
    BY <1>8, <2>1 DEF Surjection
  <2>3. Rank(p) = k - 1
    BY <2>2
  <2>4. s[k] = CHOOSE x \in S : Rank(x) = k - 1
    BY StoreCardinality DEF Store!Sorted
  <2> HIDE DEF Rank
  <2> QED
    BY <2>3, <2>4
<1>10. s \in [1..n -> S]
  <2> DEFINE Place(k) == CHOOSE x \in S : Store!Cardinality(Lower(x)) = k - 1
  <2>1. s = [k \in 1..Store!Cardinality(S) |-> Place(k)]
    BY DEF Store!Sorted
  <2> HIDE DEF s, Place
  <2>2. DOMAIN s = 1..n /\ s = [k \in 1..n |-> s[k]]
    BY <2>1, StoreCardinality
  <2> QED
    BY <1>9, <2>2
<1> HIDE DEF s, Lower
<1>11. s \in Seq(S) /\ Len(s) = n
  BY <1>1, <1>10
<1>12. ASSUME NEW p \in S PROVE \E i \in 1..n : s[i] = p
  <2>1. Rank(p) + 1 \in 1..n
    BY <1>1, <1>2
  <2>2. s[Rank(p) + 1] \in S /\ Rank(s[Rank(p) + 1]) = (Rank(p) + 1) - 1
    BY <2>1, <1>9
  <2>3. Rank(p) \in Nat
    BY <1>1, <1>2
  <2>4. Rank(s[Rank(p) + 1]) = Rank(p)
    BY <2>2, <2>3
  <2>5. s[Rank(p) + 1] = p
    BY <2>2, <2>4, <1>5
  <2> QED
    BY <2>1, <2>5
<1>13. ASSUME NEW i \in 1..n, NEW j \in 1..n, i < j PROVE Store!Before(s[i], s[j])
  <2>1. s[i] \in S /\ s[j] \in S /\ Rank(s[i]) = i - 1 /\ Rank(s[j]) = j - 1
    BY <1>9
  <2>2. s[i] = s[j] \/ Store!Before(s[i], s[j]) \/ Store!Before(s[j], s[i])
    BY <2>1, BeforeOrders
  <2>3. ~(Rank(s[j]) < Rank(s[i])) /\ Rank(s[i]) # Rank(s[j])
    BY <2>1, <1>1, <1>13
  <2> QED
    BY <2>1, <2>2, <2>3, <1>3
<1> QED
  BY <1>11, <1>12, <1>13 DEF Listed, s

LEMMA PositionsFinite ==
    ASSUME StoreTyped
    PROVE  Store!Positions \subseteq Nat \X Nat /\ IsFiniteSet(Store!Positions)
<1> DEFINE G == storeDocument.groups
           In(g) == {<<g, i>> : i \in DOMAIN G[g]}
           f == [g \in DOMAIN G |-> In(g)]
           All == {In(g) : g \in DOMAIN G}
<1>1. Len(G) \in Nat /\ DOMAIN G = 1..Len(G)
  BY DEF StoreTyped
<1>2. ASSUME NEW g \in DOMAIN G PROVE IsFiniteSet(In(g)) /\ In(g) \subseteq Nat \X Nat
  <2>1. G[g] \in Seq(BOOLEAN) /\ g \in Nat
    BY <1>1 DEF StoreTyped
  <2>2. Len(G[g]) \in Nat /\ DOMAIN G[g] = 1..Len(G[g])
    BY <2>1
  <2> DEFINE e == [i \in DOMAIN G[g] |-> <<g, i>>]
  <2>3. e \in Surjection(DOMAIN G[g], In(g))
    BY DEF Surjection
  <2>4. IsFiniteSet(DOMAIN G[g])
    BY <2>2, FS_Interval
  <2>5. IsFiniteSet(In(g))
    BY <2>3, <2>4, FS_Surjection
  <2> QED
    BY <2>1, <2>2, <2>5
<1>3. f \in Surjection(DOMAIN G, All)
  BY DEF Surjection
<1>4. IsFiniteSet(DOMAIN G)
  BY <1>1, FS_Interval
<1>5. IsFiniteSet(All)
  BY <1>3, <1>4, FS_Surjection
<1>6. \A T \in All : IsFiniteSet(T)
  BY <1>2
<1>7. IsFiniteSet(UNION All)
  BY <1>5, <1>6, FS_UNION
<1>8. UNION All \subseteq Nat \X Nat
  BY <1>2
<1>9. Store!Positions = UNION All
  BY DEF Store!Positions
<1> QED
  BY <1>7, <1>8, <1>9

LEMMA OrderedListed ==
    ASSUME StoreTyped PROVE Listed(Store!Ordered, Store!Positions)
BY PositionsFinite, SortedListed DEF Store!Ordered

LEMMA StoreInitial == Store!StoreInit => StoreInv
<1> SUFFICES ASSUME Store!StoreInit PROVE StoreInv
  OBVIOUS
<1>1. storeDecisions = <<>> /\ upTo = 0 /\ target = {} /\ state = "opening"
  BY DEF Store!StoreInit
<1>2. pass.at = "idle"
  BY DEF Store!StoreInit, Store!NoPass
<1>3. storeDocument.groups \in Seq(Seq(BOOLEAN)) /\ include \in BOOLEAN
  BY StoreAssumption DEF Store!StoreInit
<1>4. pass \in [at : {"idle", "merging"}, changes : Seq(Store!Positions), limit : Nat,
                record : Nat, written : SUBSET Store!Positions]
  BY DEF Store!StoreInit, Store!NoPass
<1>5. StoreTyped
  BY <1>1, <1>3, <1>4 DEF StoreTyped
<1>6. DecidedOnce /\ TotalsExact /\ Merging
  BY <1>1, <1>2 DEF DecidedOnce, TotalsExact, Merging
<1> QED
  BY <1>1, <1>5, <1>6 DEF StoreInv, Decided

(* The positions, and what is of them, depend on the snapshot only. *)
LEMMA SnapshotStays ==
    ASSUME storeDocument' = storeDocument
    PROVE  /\ Store!Positions' = Store!Positions
           /\ Store!Ordered' = Store!Ordered
           /\ \A p : Store!Triaged(p)' <=> Store!Triaged(p)
BY DEF Store!Positions, Store!Ordered, Store!Triaged

LEMMA StoreOpenKeeps ==
    ASSUME StoreInv, Store!OpenStore PROVE StoreInv'
<1>1. UNCHANGED <<storeDocument, include, storeDecisions, pass, target, upTo>>
  BY DEF Store!OpenStore
<1>2. StoreTyped' /\ DecidedOnce' /\ Merging'
  <2>1. Store!Positions' = Store!Positions /\ Store!Ordered' = Store!Ordered
    BY <1>1, SnapshotStays
  <2>2. \A n : Store!Yielded(storeDecisions[n])' <=> Store!Yielded(storeDecisions[n])
    BY <1>1, SnapshotStays DEF Store!Yielded, Store!Triaged
  <2>3. StoreTyped'
    BY <1>1, <2>1 DEF StoreInv, StoreTyped
  <2>4. DecidedOnce'
    BY <1>1, <2>2 DEF StoreInv, DecidedOnce
  <2>5. Merging'
    BY <1>1, <2>1 DEF StoreInv, Merging, Decided, Listed
  <2> QED
    BY <2>3, <2>4, <2>5
<1>3. TotalsExact'
  BY <1>1, SnapshotStays, StoreCardinality DEF TotalsExact, Store!OpenStore
<1> QED
  BY <1>1, <1>2, <1>3 DEF StoreInv, Decided

LEMMA AppendKeeps ==
    ASSUME StoreInv, NEW pos \in Store!Positions, Store!AppendDecision(pos) PROVE StoreInv'
<1> DEFINE n == Len(storeDecisions)
<1>0. /\ UNCHANGED <<storeDocument, state, total, remaining, include, pass, target, upTo>>
      /\ storeDecisions' = Append(storeDecisions, pos)
      /\ Store!Yielded(pos) /\ pos \notin Store!Range(storeDecisions)
  BY DEF Store!AppendDecision
<1>1. StoreTyped /\ DecidedOnce /\ TotalsExact /\ Merging /\ target = Decided(upTo)
  BY DEF StoreInv
<1>2. /\ storeDecisions \in Seq(Store!Positions) /\ n \in Nat /\ DOMAIN storeDecisions = 1..n
  BY <1>1 DEF StoreTyped
<1>3. /\ storeDecisions' \in Seq(Store!Positions) /\ Len(storeDecisions') = n + 1
      /\ \A m \in 1..n : storeDecisions'[m] = storeDecisions[m]
      /\ storeDecisions'[n + 1] = pos
  BY <1>0, <1>2
<1>4. \A m \in 1..n : storeDecisions[m] # pos
  BY <1>0, <1>2 DEF Store!Range
<1>5. \A p : Store!Yielded(p)' <=> Store!Yielded(p)
  BY <1>0, SnapshotStays DEF Store!Yielded
<1>6. ASSUME NEW k \in 0..n PROVE Decided(k)' = Decided(k)
  <2>1. \A m \in 1..k : storeDecisions'[m] = storeDecisions[m]
    BY <1>2, <1>3
  <2> QED
    BY <2>1 DEF Decided
<1>7. StoreTyped'
  <2>1. upTo' \in 0..Len(storeDecisions')
    BY <1>0, <1>1, <1>2, <1>3 DEF StoreTyped
  <2>2. Store!Positions' = Store!Positions
    BY <1>0, SnapshotStays
  <2> QED
    BY <1>0, <1>1, <1>3, <2>1, <2>2 DEF StoreTyped
<1>8. DecidedOnce'
  <2>1. \A m \in 1..(n + 1) : m \in 1..n \/ m = n + 1
    BY <1>2
  <2>2. ASSUME NEW m \in 1..(n + 1), NEW k \in 1..(n + 1), storeDecisions'[m] = storeDecisions'[k]
        PROVE  m = k
    BY <1>1, <1>3, <1>4, <2>1, <2>2 DEF DecidedOnce
  <2>3. ASSUME NEW m \in 1..(n + 1) PROVE Store!Yielded(storeDecisions'[m])
    BY <1>0, <1>1, <1>3, <2>1 DEF DecidedOnce
  <2>4. \A m \in 1..(n + 1) : Store!Yielded(storeDecisions[m])'
    <3>1. \A m : Store!Yielded(storeDecisions[m])' <=> Store!Yielded(storeDecisions'[m])
      BY <1>0, SnapshotStays DEF Store!Yielded, Store!Triaged
    <3> QED
      BY <2>3, <3>1
  <2> QED
    BY <1>3, <2>2, <2>4 DEF DecidedOnce
<1>9. TotalsExact'
  BY <1>0, <1>1, SnapshotStays DEF TotalsExact
<1>10. Merging'
  <2> SUFFICES ASSUME pass.at = "merging" PROVE Merging'
    BY <1>0 DEF Merging
  <2>1. pass.limit \in 0..n
    BY <1>1, <1>2 DEF Merging, StoreTyped
  <2>2. Decided(pass.limit)' = Decided(pass.limit)
    <3>1. Decided(pass.limit)' = {storeDecisions'[m] : m \in 1..pass.limit}
      BY <1>0 DEF Decided
    <3>2. \A m \in 1..pass.limit : storeDecisions'[m] = storeDecisions[m]
      BY <1>2, <1>3, <2>1
    <3> QED
      BY <3>1, <3>2 DEF Decided
  <2>3. pass.limit <= Len(storeDecisions')
    BY <1>2, <1>3, <2>1
  <2>4. Store!Ordered' = Store!Ordered
    BY <1>0, SnapshotStays
  <2> QED
    BY <1>0, <1>1, <2>2, <2>3, <2>4 DEF Merging, Listed
<1>11. target' = Decided(upTo)'
  <2>1. Decided(upTo)' = {storeDecisions'[m] : m \in 1..upTo}
    BY <1>0 DEF Decided
  <2>2. \A m \in 1..upTo : storeDecisions'[m] = storeDecisions[m]
    BY <1>1, <1>2, <1>3 DEF StoreTyped
  <2> QED
    BY <1>0, <1>1, <2>1, <2>2 DEF Decided
<1> QED
  BY <1>7, <1>8, <1>9, <1>10, <1>11 DEF StoreInv

(* Steps of a publication leave the decisions and the snapshot alone. *)
LEMMA PublicationKeeps ==
    ASSUME StoreInv, UNCHANGED <<storeDocument, state, total, remaining, include, storeDecisions>>
    PROVE  /\ DecidedOnce' /\ TotalsExact'
           /\ Store!Positions' = Store!Positions /\ Store!Ordered' = Store!Ordered
           /\ storeDecisions \in Seq(Store!Positions) /\ Len(storeDecisions) \in Nat
           /\ DOMAIN storeDecisions = 1..Len(storeDecisions)
           /\ \A n : Decided(n)' = {storeDecisions[m] : m \in 1..n'}
<1>1. Store!Positions' = Store!Positions /\ Store!Ordered' = Store!Ordered
  BY SnapshotStays
<1>2. DecidedOnce' /\ TotalsExact'
  BY SnapshotStays DEF StoreInv, DecidedOnce, TotalsExact, Store!Yielded
<1> QED
  BY <1>1, <1>2 DEF StoreInv, StoreTyped, Decided

LEMMA PublishBeginKeeps ==
    ASSUME StoreInv, Store!BeginPublish PROVE StoreInv'
<1> DEFINE n == Len(storeDecisions)
<1>0. /\ UNCHANGED <<storeDocument, state, total, remaining, include, storeDecisions, target, upTo>>
      /\ pass' = [at |-> "merging", changes |-> Store!Changes(storeDecisions), limit |-> n,
                  record |-> 0, written |-> {}]
  BY DEF Store!BeginPublish, Store!NoPass
<1>1. /\ DecidedOnce' /\ TotalsExact' /\ Store!Positions' = Store!Positions
      /\ Store!Ordered' = Store!Ordered
      /\ storeDecisions \in Seq(Store!Positions) /\ n \in Nat /\ DOMAIN storeDecisions = 1..n
  BY <1>0, PublicationKeeps
<1>2. StoreTyped
  BY DEF StoreInv
<1>3. Decided(n) = Store!Range(storeDecisions) /\ Decided(n) \subseteq Store!Positions
  BY <1>1 DEF Decided, Store!Range
<1>4. IsFiniteSet(Decided(n)) /\ Decided(n) \subseteq Nat \X Nat
  BY <1>2, <1>3, PositionsFinite, FS_Subset
<1>5. Listed(Store!Changes(storeDecisions), Decided(n))
  BY <1>3, <1>4, SortedListed DEF Store!Changes
<1>6. StoreTyped'
  <2>1. Store!Changes(storeDecisions) \in Seq(Store!Positions)
    BY <1>3, <1>5 DEF Listed
  <2>2. pass' \in [at : {"idle", "merging"}, changes : Seq(Store!Positions), limit : Nat,
                   record : Nat, written : SUBSET Store!Positions]
    BY <1>0, <1>1, <2>1
  <2> QED
    BY <1>0, <1>1, <1>2, <2>2 DEF StoreTyped
<1>7. Merging'
  <2>1. /\ pass'.at = "merging" /\ pass'.changes = Store!Changes(storeDecisions) /\ pass'.limit = n
        /\ pass'.record = 0 /\ pass'.written = {}
    BY <1>0
  <2>2. Decided(pass.limit)' = Decided(n)
    BY <1>0, <2>1 DEF Decided
  <2>3. Listed(pass'.changes, Decided(n) \ {})
    <3>1. Decided(n) \ {} = Decided(n)
      OBVIOUS
    <3> QED
      BY <1>5, <2>1, <3>1
  <2>4. Listed(pass.changes, Decided(pass.limit) \ pass.written)'
    BY <2>1, <2>2, <2>3 DEF Listed
  <2>5. Len(Store!Ordered) \in Nat
    BY <1>2, OrderedListed DEF Listed
  <2> QED
    BY <1>0, <1>1, <2>1, <2>2, <2>4, <2>5 DEF Merging
<1>8. target' = Decided(upTo)'
  BY <1>0 DEF StoreInv, Decided
<1> QED
  BY <1>1, <1>6, <1>7, <1>8 DEF StoreInv

(* A change for a finding that the pass has reached is the next one. *)
LEMMA NextChangeIsHead ==
    ASSUME StoreInv, pass.at = "merging", pass.record < Len(Store!Ordered),
           NEW pos, pos = Store!Ordered[pass.record + 1],
           pos \in Decided(pass.limit) \ pass.written
    PROVE  pass.changes # <<>> /\ Head(pass.changes) = pos
<1> DEFINE D == Decided(pass.limit) \ pass.written
           O == Store!Ordered
<1>1. Merging /\ StoreTyped
  BY DEF StoreInv
<1>2. Listed(pass.changes, D) /\ Listed(O, Store!Positions)
  BY <1>1, OrderedListed DEF Merging
<1>3. pass.record \in Nat /\ pass.limit \in Nat /\ pass.limit <= Len(storeDecisions)
  BY <1>1 DEF StoreTyped, Merging
<1>4. D \subseteq Store!Positions
  <2>1. storeDecisions \in Seq(Store!Positions)
    BY <1>1 DEF StoreTyped
  <2>2. \A m \in 1..pass.limit : storeDecisions[m] \in Store!Positions
    BY <1>3, <2>1
  <2> QED
    BY <2>2 DEF Decided
<1>5. PICK j \in 1..Len(pass.changes) : pass.changes[j] = pos
  BY <1>2 DEF Listed
<1>6. pass.changes \in Seq(D) /\ Len(pass.changes) \in Nat
  BY <1>2 DEF Listed
<1>7. pass.changes # <<>> /\ Head(pass.changes) = pass.changes[1] /\ 1 \in 1..Len(pass.changes)
      /\ pass.changes[1] \in D
  BY <1>5, <1>6
<1>8. ASSUME j # 1 PROVE FALSE
  <2>1. 1 < j
    BY <1>5, <1>6, <1>8
  <2>2. Store!Before(pass.changes[1], pos)
    BY <1>2, <1>5, <1>7, <2>1 DEF Listed
  <2>3. PICK m \in 1..Len(O) : O[m] = pass.changes[1]
    BY <1>2, <1>4, <1>7 DEF Listed
  <2>4. Len(O) \in Nat
    BY <1>2 DEF Listed
  <2>5. pass.record + 1 \in 1..Len(O)
    BY <1>3, <2>4
  <2>6. O[m] \in Nat \X Nat /\ pos \in Nat \X Nat
    BY <1>1, <1>4, <1>7, <2>3, PositionsFinite
  <2>7. CASE m <= pass.record
    <3>1. m \in 1..pass.record
      BY <1>3, <2>4, <2>7
    <3> QED
      BY <1>1, <1>7, <2>3, <3>1 DEF Merging
  <2>8. CASE m = pass.record + 1
    BY <2>2, <2>3, <2>6, <2>8, BeforeOrders
  <2>9. CASE m > pass.record + 1
    <3>1. Store!Before(pos, O[m])
      BY <1>2, <2>5, <2>9 DEF Listed
    <3> QED
      BY <2>2, <2>3, <2>6, <3>1, BeforeOrders
  <2> QED
    BY <1>3, <2>4, <2>7, <2>8, <2>9
<1> QED
  BY <1>5, <1>7, <1>8

LEMMA TailListed ==
    ASSUME NEW s, NEW S, S \subseteq Nat \X Nat, Listed(s, S), s # <<>>
    PROVE  Listed(Tail(s), S \ {Head(s)})
<1>1. s \in Seq(S) /\ Len(s) \in Nat /\ Len(s) > 0 /\ DOMAIN s = 1..Len(s)
  <2>1. s \in Seq(S)
    BY DEF Listed
  <2> QED
    BY <2>1
<1>2. /\ Head(s) = s[1] /\ Len(Tail(s)) = Len(s) - 1 /\ Tail(s) \in Seq(S)
      /\ \A i \in 1..(Len(s) - 1) : Tail(s)[i] = s[i + 1]
  BY <1>1
<1>3. ASSUME NEW i \in 1..(Len(s) - 1) PROVE Tail(s)[i] \in S \ {Head(s)}
  <2>1. i + 1 \in 1..Len(s) /\ 1 \in 1..Len(s) /\ 1 < i + 1
    BY <1>1
  <2>2. Store!Before(s[1], s[i + 1]) /\ s[1] \in S /\ s[i + 1] \in S
    BY <1>1, <2>1 DEF Listed
  <2> QED
    BY <1>2, <2>2, BeforeOrders
<1>4. Tail(s) \in Seq(S \ {Head(s)})
  <2> DEFINE t == Tail(s)
             n == Len(s) - 1
             U == S \ {Head(s)}
  <2>1. t \in Seq(S) /\ Len(t) = n /\ n \in Nat
    BY <1>1, <1>2
  <2>2. \A i \in 1..n : t[i] \in U
    BY <1>3
  <2> HIDE DEF t, n, U
  <2>3. t \in [1..n -> U]
    BY <2>1, <2>2
  <2>4. t \in Seq(U)
    BY <2>1, <2>3
  <2> QED
    BY <2>4 DEF t, U
<1>5. ASSUME NEW p \in S \ {Head(s)} PROVE \E i \in 1..(Len(s) - 1) : Tail(s)[i] = p
  <2>1. PICK j \in 1..Len(s) : s[j] = p
    BY DEF Listed
  <2>2. j # 1
    BY <1>2, <2>1
  <2>3. j - 1 \in 1..(Len(s) - 1) /\ (j - 1) + 1 = j
    BY <1>1, <2>1, <2>2
  <2>4. Tail(s)[j - 1] = p
    BY <1>2, <2>1, <2>3
  <2> QED
    BY <2>3, <2>4
<1>6. ASSUME NEW i \in 1..(Len(s) - 1), NEW j \in 1..(Len(s) - 1), i < j
      PROVE  Store!Before(Tail(s)[i], Tail(s)[j])
  <2>1. i + 1 \in 1..Len(s) /\ j + 1 \in 1..Len(s) /\ i + 1 < j + 1
    BY <1>1, <1>6
  <2> QED
    BY <1>2, <2>1 DEF Listed
<1> QED
  BY <1>2, <1>4, <1>5, <1>6 DEF Listed

LEMMA MergeKeeps ==
    ASSUME StoreInv, Store!MergeRecord PROVE StoreInv'
<1> DEFINE O == Store!Ordered
           pos == O[pass.record + 1]
           meets == pass.changes # <<>> /\ Head(pass.changes) = pos
           D == Decided(pass.limit)
<1>0. /\ UNCHANGED <<storeDocument, state, total, remaining, include, storeDecisions, target, upTo>>
      /\ pass.at = "merging" /\ pass.record < Len(O)
      /\ pass' = [pass EXCEPT !.record = pass.record + 1,
                              !.changes = IF meets THEN Tail(pass.changes) ELSE pass.changes,
                              !.written = IF meets THEN pass.written \union {pos} ELSE pass.written]
  BY DEF Store!MergeRecord
<1>1. /\ DecidedOnce' /\ TotalsExact' /\ Store!Positions' = Store!Positions /\ Store!Ordered' = O
      /\ storeDecisions \in Seq(Store!Positions) /\ Len(storeDecisions) \in Nat
  BY <1>0, PublicationKeeps
<1>2. StoreTyped /\ Merging
  BY DEF StoreInv
<1>3. pass \in [at : {"idle", "merging"}, changes : Seq(Store!Positions), limit : Nat,
                record : Nat, written : SUBSET Store!Positions]
  BY <1>2 DEF StoreTyped
<1>4. /\ pass'.at = "merging" /\ pass'.limit = pass.limit /\ pass'.record = pass.record + 1
      /\ pass'.changes = IF meets THEN Tail(pass.changes) ELSE pass.changes
      /\ pass'.written = IF meets THEN pass.written \union {pos} ELSE pass.written
      /\ pass.record \in Nat /\ pass.limit \in Nat
  BY <1>0, <1>3
<1>5. /\ pass.limit <= Len(storeDecisions) /\ pass.written \subseteq D
      /\ Listed(pass.changes, D \ pass.written)
      /\ \A k \in 1..pass.record : O[k] \in D => O[k] \in pass.written
  BY <1>0, <1>2 DEF Merging
<1>6. Listed(O, Store!Positions)
  BY <1>2, OrderedListed
<1>7. Len(O) \in Nat /\ pos \in Store!Positions
  <2>1. O \in Seq(Store!Positions) /\ Len(O) \in Nat
    BY <1>6 DEF Listed
  <2>2. pass.record + 1 \in 1..Len(O)
    BY <1>0, <1>4, <2>1
  <2> QED
    BY <2>1, <2>2
<1>8. D \subseteq Store!Positions /\ D \subseteq Nat \X Nat
  <2>1. \A m \in 1..pass.limit : storeDecisions[m] \in Store!Positions
    BY <1>1, <1>4, <1>5
  <2> QED
    BY <1>2, <2>1, PositionsFinite DEF Decided
<1>9. pos \in D \ pass.written => meets
  BY <1>0, NextChangeIsHead
<1>10. meets => pos \in D \ pass.written
  <2>1. pass.changes \in Seq(D \ pass.written)
    BY <1>5 DEF Listed
  <2> QED
    BY <2>1
<1>11. Decided(pass.limit)' = D
  BY <1>0, <1>4 DEF Decided
<1>12. Listed(pass'.changes, D \ pass'.written)
  <2>1. CASE meets
    <3>1. Listed(Tail(pass.changes), (D \ pass.written) \ {pos})
      BY <1>5, <1>8, <2>1, TailListed
    <3>2. (D \ pass.written) \ {pos} = D \ (pass.written \union {pos})
      OBVIOUS
    <3> QED
      BY <1>4, <2>1, <3>1, <3>2
  <2>2. CASE ~meets
    BY <1>4, <1>5, <2>2
  <2> QED
    BY <2>1, <2>2
<1> HIDE DEF meets
<1>13. ASSUME NEW k \in 1..(pass.record + 1), O[k] \in D PROVE O[k] \in pass'.written
  <2>1. CASE k = pass.record + 1
    BY <1>4, <1>9, <1>13, <2>1
  <2>2. CASE k # pass.record + 1
    <3>1. k \in 1..pass.record
      BY <1>4, <2>2
    <3> QED
      BY <1>4, <1>5, <1>13, <3>1
  <2> QED
    BY <2>1, <2>2
<1>14. pass'.written \subseteq D
  BY <1>4, <1>5, <1>10
<1> HIDE DEF D, O, pos
<1>15. Merging'
  <2>1. pass'.record <= Len(O)
    BY <1>0, <1>4, <1>7
  <2>2. Listed(pass.changes, Decided(pass.limit) \ pass.written)'
    BY <1>11, <1>12 DEF Listed
  <2> QED
    BY <1>0, <1>1, <1>4, <1>5, <1>11, <1>13, <1>14, <2>1, <2>2 DEF Merging
<1>16. StoreTyped'
  <2>1. pass'.changes \in Seq(Store!Positions)
    <3>1. pass'.changes \in Seq(D \ pass'.written) /\ D \ pass'.written \subseteq Store!Positions
      BY <1>8, <1>12 DEF Listed
    <3> QED
      BY <3>1
  <2>2. pass'.written \subseteq Store!Positions
    BY <1>8, <1>14
  <2>3. pass' \in [at : {"idle", "merging"}, changes : Seq(Store!Positions), limit : Nat,
                   record : Nat, written : SUBSET Store!Positions]
    <3>1. pass' = [at |-> "merging", changes |-> pass'.changes, limit |-> pass.limit,
                   record |-> pass.record + 1, written |-> pass'.written]
      BY <1>0, <1>3
    <3>2. ASSUME NEW c \in Seq(Store!Positions), NEW w \in SUBSET Store!Positions,
                 NEW l \in Nat, NEW r \in Nat
          PROVE  [at |-> "merging", changes |-> c, limit |-> l, record |-> r, written |-> w] \in
                   [at : {"idle", "merging"}, changes : Seq(Store!Positions), limit : Nat,
                    record : Nat, written : SUBSET Store!Positions]
      OBVIOUS
    <3>3. pass.record + 1 \in Nat
      BY <1>4
    <3> QED
      BY <1>4, <2>1, <2>2, <3>1, <3>2, <3>3, Zenon
  <2> QED
    BY <1>0, <1>1, <1>2, <2>3 DEF StoreTyped
<1>17. target' = Decided(upTo)'
  BY <1>0 DEF StoreInv, Decided
<1> QED
  BY <1>1, <1>15, <1>16, <1>17 DEF StoreInv

(* A pass that is over leaves nothing behind. *)
LEMMA PassEnds ==
    ASSUME StoreInv, UNCHANGED <<storeDocument, state, total, remaining, include, storeDecisions>>,
           pass' = Store!NoPass, upTo' \in 0..Len(storeDecisions), target' = Decided(upTo')
    PROVE  StoreInv'
<1>1. /\ DecidedOnce' /\ TotalsExact' /\ Store!Positions' = Store!Positions
  BY PublicationKeeps
<1>2. pass'.at = "idle"
  BY DEF Store!NoPass
<1>3. pass' \in [at : {"idle", "merging"}, changes : Seq(Store!Positions), limit : Nat,
                 record : Nat, written : SUBSET Store!Positions]
  BY DEF Store!NoPass
<1>4. StoreTyped'
  BY <1>1, <1>3 DEF StoreInv, StoreTyped
<1>5. Merging'
  BY <1>2 DEF Merging
<1>6. target' = Decided(upTo)'
  BY DEF Decided
<1> QED
  BY <1>1, <1>4, <1>5, <1>6 DEF StoreInv

LEMMA PublishEndKeeps ==
    ASSUME StoreInv, Store!EndPublish PROVE StoreInv'
<1>0. /\ UNCHANGED <<storeDocument, state, total, remaining, include, storeDecisions>>
      /\ pass.at = "merging" /\ pass.record = Len(Store!Ordered)
      /\ target' = pass.written /\ upTo' = pass.limit /\ pass' = Store!NoPass
  BY DEF Store!EndPublish
<1>1. Merging /\ StoreTyped
  BY DEF StoreInv
<1>2. pass.limit \in 0..Len(storeDecisions) /\ storeDecisions \in Seq(Store!Positions)
  BY <1>0, <1>1 DEF Merging, StoreTyped
<1>3. Decided(pass.limit) \subseteq Store!Positions
  <2>1. \A m \in 1..pass.limit : storeDecisions[m] \in Store!Positions
    BY <1>2
  <2> QED
    BY <2>1 DEF Decided
<1>4. ASSUME NEW p \in Decided(pass.limit) PROVE p \in pass.written
  <2>1. PICK k \in 1..Len(Store!Ordered) : Store!Ordered[k] = p
    BY <1>1, <1>3, OrderedListed DEF Listed
  <2> QED
    BY <1>0, <1>1, <2>1 DEF Merging
<1>5. pass.written = Decided(pass.limit)
  BY <1>0, <1>1, <1>4 DEF Merging
<1> QED
  BY <1>0, <1>2, <1>5, PassEnds

LEMMA FailKeeps ==
    ASSUME StoreInv, Store!PublishFails PROVE StoreInv'
<1>0. /\ UNCHANGED <<storeDocument, state, total, remaining, include, storeDecisions, target, upTo>>
      /\ pass' = Store!NoPass
  BY DEF Store!PublishFails
<1>1. upTo' \in 0..Len(storeDecisions) /\ target' = Decided(upTo')
  BY <1>0 DEF StoreInv, StoreTyped
<1> QED
  BY <1>0, <1>1, PassEnds

LEMMA RestKeeps ==
    ASSUME StoreInv, state' \in {state, "closed"},
           UNCHANGED <<storeDocument, total, remaining, include, storeDecisions, pass, target, upTo>>
    PROVE  StoreInv'
<1>1. /\ Store!Positions' = Store!Positions /\ Store!Ordered' = Store!Ordered
      /\ \A p : Store!Triaged(p)' <=> Store!Triaged(p)
  BY SnapshotStays
<1>2. \A n : Store!Yielded(storeDecisions[n])' <=> Store!Yielded(storeDecisions[n])
  BY DEF Store!Yielded, Store!Triaged
<1>3. StoreTyped' /\ DecidedOnce'
  BY <1>1, <1>2 DEF StoreInv, StoreTyped, DecidedOnce
<1>4. TotalsExact'
  BY <1>1 DEF StoreInv, TotalsExact
<1>5. Merging' /\ target' = Decided(upTo)'
  BY <1>1 DEF StoreInv, Merging, Decided, Listed
<1> QED
  BY <1>3, <1>4, <1>5 DEF StoreInv

LEMMA StoreStepKeeps ==
    ASSUME StoreInv, Store!StoreNext \/ UNCHANGED storeVars PROVE StoreInv'
<1>1. CASE Store!CloseStore
  BY <1>1, RestKeeps DEF Store!CloseStore
<1>2. CASE UNCHANGED storeVars
  BY <1>2, RestKeeps DEF storeVars
<1>3. CASE Store!StoreDone
  BY <1>3, RestKeeps DEF Store!StoreDone, Store!storeVars
<1> QED
  BY <1>1, <1>2, <1>3, StoreOpenKeeps, AppendKeeps, PublishBeginKeeps, MergeKeeps, PublishEndKeeps, FailKeeps
     DEF Store!StoreNext

LEMMA DecisionsCounted ==
    ASSUME StoreInv, state = "open" PROVE Len(storeDecisions) <= Store!Counted
<1> DEFINE Y == {p \in Store!Positions : Store!Yielded(p)}
           n == Len(storeDecisions)
<1>1. StoreTyped /\ DecidedOnce /\ TotalsExact
  BY DEF StoreInv
<1>2. storeDecisions \in Seq(Store!Positions) /\ n \in Nat /\ DOMAIN storeDecisions = 1..n
  BY <1>1 DEF StoreTyped
<1>3. IsFiniteSet(Y)
  BY <1>1, PositionsFinite, FS_Subset
<1>4. storeDecisions \in Injection(1..n, Y)
  <2>1. \A m \in 1..n : storeDecisions[m] \in Y
    BY <1>1, <1>2 DEF DecidedOnce
  <2>2. storeDecisions \in [1..n -> Y]
    BY <1>2, <2>1
  <2> QED
    BY <1>1, <1>2, <2>2 DEF DecidedOnce, Injection, IsInjective
<1>5. Cardinality(1..n) <= Cardinality(Y) /\ Cardinality(1..n) = n
  <2>1. Cardinality(1..n) <= Cardinality(Y)
    BY <1>3, <1>4, FS_Injection
  <2>2. Cardinality(1..n) = IF 1 > n THEN 0 ELSE n - 1 + 1
    BY <1>2, FS_Interval
  <2> QED
    BY <1>2, <2>1, <2>2
<1>6. Cardinality(Y) = Store!Counted
  <2>1. CASE include
    <3>1. Y = Store!Positions
      BY <2>1 DEF Store!Yielded
    <3> QED
      BY <1>1, <2>1, <3>1 DEF Store!Counted, TotalsExact
  <2>2. CASE ~include
    <3>1. Y = {p \in Store!Positions : ~Store!Triaged(p)}
      BY <2>2 DEF Store!Yielded
    <3> QED
      BY <1>1, <2>2, <3>1 DEF Store!Counted, TotalsExact
  <2> QED
    BY <2>1, <2>2
<1> QED
  BY <1>5, <1>6

(* TriageStore, for any documents, order of the decisions and number of    *)
(* publications: a published file has the decisions that were in the log   *)
(* when its publication began and no other, each at its own finding, and   *)
(* there are never more than the total that is reported.                   *)
THEOREM PublicationsAreExact == Spec => []TriagePublishedExact
<1> DEFINE Inv == component = "store" => StoreInv
<1>1. Init => Inv
  BY StoreInitial DEF Init
<1>2. Inv /\ [Next]_vars => Inv'
  BY ComponentSteps, StoreStepKeeps
<1>3. Inv => TriagePublishedExact
  BY DecisionsCounted DEF StoreInv, Decided, TriagePublishedExact, Store!PublishedIsExact
<1> QED
  BY <1>1, <1>2, <1>3, PTL DEF Spec

-----------------------------------------------------------------------------
(* The code graph service: fingerprints, graphs and checks are read file by *)
(* file, but texts only grow, so a fingerprint that is read twice is that   *)
(* of the codebase at every moment between.                                 *)

Readings == [GraphSources -> Nat]
References == [rev : Nat, print : Readings, failed : SUBSET GraphSources]
Steps == {"print", "build", "check", "leave"}
CallStates == {"idle", "waiting", "active", "returned", "raised", "loaded", "missing"}

\* r is no newer than s, in every file
NoNewer(r, s) == \A f \in GraphSources : r[f] <= s[f]

ServiceTyped ==
    /\ graphEdits \in 0..MaxChanges
    /\ serviceVersion \in [GraphSources -> 0..graphEdits]
    /\ revision \in Nat /\ generation \in Nat
    /\ rows \subseteq [rev : 1..revision, print : Readings, graph : Readings, failed : SUBSET GraphSources]
    /\ active \in Callers \cup {"nobody"}
    /\ last \in References
    /\ graphCall \in [Callers -> [at : CallStates, seen : Nat, ref : References, got : Readings]]
    /\ draft \in [step : Steps, print : Readings, graph : Readings, failed : SUBSET GraphSources,
                  check : Readings, ref : References]

\* What is stored is of its fingerprint, and no newer than the sources
RowsSound == \A r \in rows : Service!GraphOf(r.graph, r.print) /\ NoNewer(r.print, serviceVersion)

\* The codebases since the active call began: the latest is that on disk
SinceSound ==
    active # "nobody" =>
        /\ serviceVersion \in serviceSince
        /\ \A v \in serviceSince : v \in Readings /\ NoNewer(v, serviceVersion)

\* Until the active call has its result, every row is older than the call
RowsOlder ==
    active # "nobody" /\ draft.step # "leave" => \A r \in rows, v \in serviceSince : NoNewer(r.print, v)

\* The first fingerprint has no text older than some codebase of the call
Printing ==
    active # "nobody" /\ draft.step = "print" =>
        /\ draft.graph = Service!Unread /\ draft.check = Service!Unread
        /\ \A f \in GraphSources : draft.print[f] # Service!NotRead => draft.print[f] <= serviceVersion[f]
        /\ \E v \in serviceSince : \A f \in GraphSources :
              draft.print[f] # Service!NotRead => v[f] <= draft.print[f]

\* From v on, the codebase when the first fingerprint was complete, everything is
\* read in the order fingerprint, graph, second fingerprint
ReadAround(v) ==
    /\ NoNewer(draft.print, v)
    /\ \A f \in GraphSources :
          /\ draft.graph[f] # Service!NotRead => v[f] <= draft.graph[f] /\ draft.graph[f] <= serviceVersion[f]
          /\ draft.check[f] # Service!NotRead =>
                /\ v[f] <= draft.check[f] /\ draft.check[f] <= serviceVersion[f]
                /\ draft.graph[f] # Service!NotRead => draft.graph[f] <= draft.check[f]

Building ==
    active # "nobody" /\ draft.step \in {"build", "check"} =>
        /\ draft.step = "build" => draft.check = Service!Unread
        /\ \E v \in serviceSince : ReadAround(v)

ServiceInv ==
    /\ ServiceTyped /\ RowsSound /\ SinceSound /\ RowsOlder /\ Printing /\ Building
    /\ Service!GraphIsOfItsSources

LEMMA NotReadIsLate == Service!NotRead \in Nat /\ Service!NotRead > MaxChanges /\ Service!Unread \in Readings
                       /\ MaxChanges \in Nat
BY ServiceAssumption DEF Service!NotRead, Service!Unread, Readings

LEMMA NoReferenceTyped == Service!NoReference \in References
BY NotReadIsLate DEF Service!NoReference, References

LEMMA NewDraftTyped ==
    /\ Service!NewDraft \in [step : Steps, print : Readings, graph : Readings, failed : SUBSET GraphSources,
                             check : Readings, ref : References]
    /\ Service!NewDraft.step = "print" /\ Service!NewDraft.print = Service!Unread
    /\ Service!NewDraft.graph = Service!Unread /\ Service!NewDraft.check = Service!Unread
<1> DEFINE R == [step |-> "print", print |-> Service!Unread, graph |-> Service!Unread, failed |-> {},
                 check |-> Service!Unread, ref |-> Service!NoReference]
<1>1. Service!NewDraft = R
  BY DEF Service!NewDraft
<1>2. Service!Unread \in Readings /\ Service!NoReference \in References /\ {} \in SUBSET GraphSources
      /\ "print" \in Steps
  BY NotReadIsLate, NoReferenceTyped DEF Steps
<1> HIDE DEF References, Readings
<1> QED
  BY <1>1, <1>2

LEMMA ServiceInitial == ASSUME Service!GraphInit PROVE ServiceInv
<1>1. ServiceTyped
  <2>1. graphCall \in [Callers -> [at : CallStates, seen : Nat, ref : References, got : Readings]]
    BY NotReadIsLate, NoReferenceTyped DEF Service!GraphInit, Service!IdleCall, CallStates
  <2>2. serviceVersion \in [GraphSources -> 0..graphEdits] /\ graphEdits \in 0..MaxChanges
    BY NotReadIsLate DEF Service!GraphInit
  <2>3. draft = Service!NewDraft /\ last = Service!NoReference /\ active = "nobody" /\ rows = {}
        /\ revision = 0 /\ generation = 0
    BY DEF Service!GraphInit, Service!NoOne
  <2> QED
    BY <2>1, <2>2, <2>3, NoReferenceTyped, NewDraftTyped DEF ServiceTyped
<1>2. active = "nobody" /\ rows = {} /\ \A c \in Callers : graphCall[c].at = "idle"
  BY DEF Service!GraphInit, Service!NoOne, Service!IdleCall
<1> QED
  BY <1>1, <1>2 DEF ServiceInv, RowsSound, SinceSound, RowsOlder, Printing, Building,
     Service!GraphIsOfItsSources, Service!Draft, Service!NoOne

LEMMA GraphEditKeeps == ASSUME ServiceInv, NEW f \in GraphSources, Service!EditSource(f) PROVE ServiceInv'
<1>1. /\ ServiceTyped /\ RowsSound /\ SinceSound /\ RowsOlder /\ Printing /\ Building
      /\ Service!GraphIsOfItsSources
  BY DEF ServiceInv
<1>2. /\ graphEdits < MaxChanges /\ graphEdits' = graphEdits + 1
      /\ serviceVersion' = [serviceVersion EXCEPT ![f] = graphEdits + 1]
      /\ serviceSince' = serviceSince \cup {serviceVersion'}
      /\ rows' = rows /\ revision' = revision /\ active' = active /\ generation' = generation
      /\ last' = last /\ graphCall' = graphCall /\ draft' = draft
  BY DEF Service!EditSource
<1>3. ServiceTyped'
  BY <1>1, <1>2, NotReadIsLate DEF ServiceTyped
<1>4. /\ serviceVersion \in Readings /\ serviceVersion' \in Readings
      /\ NoNewer(serviceVersion, serviceVersion')
  BY <1>1, <1>2, <1>3, NotReadIsLate DEF ServiceTyped, NoNewer, Readings
<1>5. \A r \in rows : r.print \in Readings /\ r.graph \in Readings
  BY <1>1 DEF ServiceTyped
<1>6. RowsSound'
  BY <1>1, <1>2, <1>4, <1>5 DEF RowsSound, NoNewer, Service!GraphOf, Service!NotRead, Readings
<1>7. SinceSound'
  BY <1>1, <1>2, <1>4 DEF SinceSound, NoNewer, Readings
<1>8. RowsOlder'
  BY <1>1, <1>2, <1>6 DEF RowsOlder, RowsSound
<1>9. draft.print \in Readings /\ draft.graph \in Readings /\ draft.check \in Readings
  BY <1>1 DEF ServiceTyped
<1>10. Printing'
  BY <1>1, <1>2, <1>4, <1>9 DEF Printing, NoNewer, Readings, Service!NotRead, Service!Unread
<1>11. Building'
  BY <1>1, <1>2, <1>4, <1>9 DEF Building, ReadAround, NoNewer, Readings, Service!NotRead, Service!Unread
<1>12. Service!GraphIsOfItsSources'
  BY <1>1, <1>2 DEF Service!GraphIsOfItsSources, Service!Draft, Service!GraphOf, Service!NotRead,
     Service!NoReference, Service!Unread, Service!NoOne
<1> QED
  BY <1>3, <1>6, <1>7, <1>8, <1>10, <1>11, <1>12 DEF ServiceInv

Drafts == [step : Steps, print : Readings, graph : Readings, failed : SUBSET GraphSources,
           check : Readings, ref : References]

\* What a step of the active call has to show
LEMMA DraftKeeps ==
    ASSUME ServiceInv, active # "nobody", draft.step # "leave", draft' \in Drafts, Printing', Building',
           draft'.step = "leave" /\ draft'.ref # Service!NoReference => draft'.ref.print \in serviceSince,
           UNCHANGED <<serviceVersion, graphEdits, rows, revision, active, generation, last, graphCall, serviceSince>>
    PROVE  ServiceInv'
<1>1. /\ ServiceTyped /\ RowsSound /\ SinceSound /\ RowsOlder /\ Service!GraphIsOfItsSources
  BY DEF ServiceInv
<1>2. ServiceTyped'
  BY <1>1 DEF ServiceTyped, Drafts
<1>3. RowsSound' /\ SinceSound' /\ RowsOlder'
  BY <1>1 DEF RowsSound, SinceSound, RowsOlder, NoNewer, Service!GraphOf, Service!NotRead
<1>4. Service!GraphIsOfItsSources'
  BY <1>1 DEF Service!GraphIsOfItsSources, Service!Draft, Service!GraphOf, Service!NotRead,
     Service!NoReference, Service!Unread, Service!NoOne
<1> QED
  BY <1>2, <1>3, <1>4 DEF ServiceInv

LEMMA HashKeeps == ASSUME ServiceInv, NEW f \in GraphSources, Service!HashSource(f) PROVE ServiceInv'
<1>1. ServiceTyped /\ SinceSound /\ Printing
  BY DEF ServiceInv
<1>2. /\ active # "nobody" /\ draft.step = "print" /\ draft.print[f] = Service!NotRead
      /\ draft' = [draft EXCEPT !.print[f] = serviceVersion[f]]
      /\ UNCHANGED <<serviceVersion, graphEdits, rows, revision, active, generation, last, graphCall, serviceSince>>
  BY DEF Service!HashSource, Service!Draft, Service!NoOne
<1>3. draft \in Drafts /\ serviceVersion \in Readings
  BY <1>1, NotReadIsLate DEF ServiceTyped, Drafts, Readings
<1>4. draft' \in Drafts /\ draft'.step = "print"
  BY <1>2, <1>3 DEF Drafts, Readings
<1>5. Printing'
  <2>1. PICK v \in serviceSince : \A g \in GraphSources :
              draft.print[g] # Service!NotRead => v[g] <= draft.print[g]
    BY <1>1, <1>2 DEF Printing
  <2>2. v[f] <= serviceVersion[f] /\ serviceVersion[f] <= serviceVersion[f]
    BY <1>1, <1>2, <1>3 DEF SinceSound, NoNewer, Readings
  <2>3. \A g \in GraphSources : draft'.print[g] = IF g = f THEN serviceVersion[f] ELSE draft.print[g]
    BY <1>2, <1>3 DEF Drafts, Readings
  <2>4. draft'.graph = draft.graph /\ draft'.check = draft.check
    BY <1>2, <1>3 DEF Drafts
  <2> QED
    BY <1>1, <1>2, <2>1, <2>2, <2>3, <2>4 DEF Printing, Service!NotRead, Service!Unread
<1>6. Building'
  BY <1>4 DEF Building
<1> QED
  BY <1>2, <1>4, <1>5, <1>6, DraftKeeps

\* A nonempty set of rows has one with the last revision
LEMMA PreferredIsFound ==
    ASSUME ServiceTyped, NEW F, F \subseteq rows, F # {}
    PROVE  Service!Preferred(F) \in F
<1> DEFINE C == {r \in F : r.failed = {}}
           B == IF C # {} THEN C ELSE F
           T == {revision - r.rev : r \in B}
<1>1. B \subseteq F /\ B # {} /\ \A r \in B : r.rev \in 1..revision
  BY DEF ServiceTyped
<1>2. T \subseteq Nat /\ T # {}
  BY <1>1 DEF ServiceTyped
<1>3. PICK t \in T : \A u \in T : <<u, t>> \notin OpToRel(<, Nat)
  BY <1>2, NatLessThanWellFounded, WFMin
<1>4. PICK r \in B : t = revision - r.rev
  BY <1>3
<1>5. \A q \in B : q.rev <= r.rev
  <2> TAKE q \in B
  <2>1. revision - q.rev \in T
    OBVIOUS
  <2>2. ~(revision - q.rev < revision - r.rev)
    BY <1>2, <1>3, <1>4, <2>1 DEF OpToRel
  <2> QED
    BY <1>1, <2>2 DEF ServiceTyped
<1>6. Service!Preferred(F) = CHOOSE x \in B : \A q \in B : q.rev <= x.rev
  BY DEF Service!Preferred
<1> HIDE DEF B
<1> QED
  BY <1>1, <1>5, <1>6

LEMMA LookUpKeeps == ASSUME ServiceInv, Service!LookUp PROVE ServiceInv'
<1>1. ServiceTyped /\ SinceSound /\ Printing /\ RowsOlder
  BY DEF ServiceInv
<1> DEFINE found == {r \in rows : r.print = draft.print}
           best == Service!Preferred(found)
<1>2. /\ active # "nobody" /\ draft.step = "print" /\ \A f \in GraphSources : draft.print[f] # Service!NotRead
      /\ UNCHANGED <<serviceVersion, graphEdits, rows, revision, active, generation, last, graphCall, serviceSince>>
  BY DEF Service!LookUp, Service!Draft, Service!NoOne
<1>3. draft \in Drafts /\ serviceVersion \in Readings /\ draft.print \in Readings
  BY <1>1, NotReadIsLate DEF ServiceTyped, Drafts, Readings
<1>4. CASE found # {} /\ draft' = [draft EXCEPT !.step = "leave", !.ref = Service!Reference(best)]
  <2>1. best \in found /\ best \in rows /\ best.print = draft.print
    BY <1>1, <1>4, PreferredIsFound
  <2>2. Service!Reference(best) \in References /\ Service!Reference(best).print = draft.print
    <3>1. \A r \in rows : Service!Reference(r) \in References /\ Service!Reference(r).print = r.print
      BY <1>1 DEF ServiceTyped, Service!Reference, References
    <3> HIDE DEF best
    <3> QED
      BY <2>1, <3>1
  <2>3. draft' \in Drafts /\ draft'.step = "leave" /\ draft'.ref.print = draft.print
    BY <1>3, <1>4, <2>2 DEF Drafts, Steps
  <2>4. PICK v \in serviceSince : \A f \in GraphSources : v[f] <= draft.print[f]
    BY <1>1, <1>2 DEF Printing
  <2>5. v \in Readings /\ NoNewer(draft.print, v)
    BY <1>1, <1>2, <2>1, <2>4 DEF SinceSound, RowsOlder
  <2>6. v = draft.print
    BY <1>3, <2>4, <2>5 DEF NoNewer, Readings
  <2>7. Printing' /\ Building'
    BY <2>3 DEF Printing, Building
  <2> QED
    BY <1>2, <2>3, <2>4, <2>6, <2>7, DraftKeeps
<1>5. CASE draft' = [draft EXCEPT !.step = "build"]
  <2>1. /\ draft' \in Drafts /\ draft'.step = "build" /\ draft'.print = draft.print
        /\ draft'.graph = draft.graph /\ draft'.check = draft.check
    BY <1>3, <1>5 DEF Drafts, Steps
  <2>2. /\ NoNewer(draft.print, serviceVersion) /\ serviceVersion \in serviceSince
        /\ draft.graph = Service!Unread /\ draft.check = Service!Unread
    BY <1>1, <1>2 DEF Printing, SinceSound, NoNewer
  <2>3. Building'
    BY <1>2, <2>1, <2>2 DEF Building, ReadAround, NoNewer, Service!Unread, Service!NotRead
  <2>4. Printing'
    BY <2>1 DEF Printing
  <2> QED
    BY <1>2, <2>1, <2>3, <2>4, DraftKeeps
<1> QED
  BY <1>4, <1>5 DEF Service!LookUp, Service!Leave

LEMMA BuildKeeps ==
    ASSUME ServiceInv, NEW f \in GraphSources, NEW b \in BOOLEAN, Service!BuildFile(f, b) PROVE ServiceInv'
<1>1. ServiceTyped /\ SinceSound /\ Building
  BY DEF ServiceInv
<1>2. /\ active # "nobody" /\ draft.step = "build" /\ f \notin Service!Built
      /\ UNCHANGED <<serviceVersion, graphEdits, rows, revision, active, generation, last, graphCall, serviceSince>>
  BY DEF Service!BuildFile, Service!Draft, Service!NoOne
<1>3. draft \in Drafts /\ serviceVersion \in Readings
  BY <1>1, NotReadIsLate DEF ServiceTyped, Drafts, Readings
<1>4. PICK v \in serviceSince : ReadAround(v)
  BY <1>1, <1>2 DEF Building
<1>5. CASE draft' = [draft EXCEPT !.failed = @ \union {f}]
  <2>1. /\ draft' \in Drafts /\ draft'.step = "build" /\ draft'.print = draft.print
        /\ draft'.graph = draft.graph /\ draft'.check = draft.check
    BY <1>2, <1>3, <1>5 DEF Drafts
  <2>2. Printing' /\ Building'
    BY <1>1, <1>2, <1>4, <2>1 DEF Printing, Building, ReadAround, NoNewer, Service!Unread, Service!NotRead
  <2> QED
    BY <1>2, <2>1, <2>2, DraftKeeps
<1>6. CASE draft' = [draft EXCEPT !.graph[f] = serviceVersion[f]]
  <2>1. /\ draft' \in Drafts /\ draft'.step = "build" /\ draft'.print = draft.print
        /\ draft'.check = draft.check
        /\ \A g \in GraphSources : draft'.graph[g] = IF g = f THEN serviceVersion[f] ELSE draft.graph[g]
    BY <1>2, <1>3, <1>6 DEF Drafts, Readings
  <2>2. v[f] <= serviceVersion[f] /\ serviceVersion[f] <= serviceVersion[f]
    BY <1>1, <1>2, <1>3 DEF SinceSound, NoNewer, Readings
  <2>3. draft.check = Service!Unread /\ \A g \in GraphSources : draft.check[g] = Service!NotRead
    BY <1>1, <1>2 DEF Building, Service!Unread
  <2>4. (ReadAround(v))'
    BY <1>2, <1>4, <2>1, <2>2, <2>3 DEF ReadAround, NoNewer, Service!NotRead
  <2>5. Printing' /\ Building'
    BY <1>2, <2>1, <2>3, <2>4 DEF Printing, Building, Service!Unread, Service!NotRead
  <2> QED
    BY <1>2, <2>1, <2>5, DraftKeeps
<1> QED
  BY <1>5, <1>6 DEF Service!BuildFile

LEMMA ProviderKeeps ==
    ASSUME ServiceInv, NEW p \in GraphProviders, Service!ProviderFails(p) PROVE ServiceInv'
<1>1. ServiceTyped /\ SinceSound /\ Building
  BY DEF ServiceInv
<1> DEFINE own == {f \in GraphSources : ProviderOf[f] = p}
<1>2. /\ active # "nobody" /\ draft.step = "build"
      /\ draft' = [draft EXCEPT !.failed = @ \union own,
                     !.graph = [f \in GraphSources |-> IF f \in own THEN Service!NotRead ELSE @[f]]]
      /\ UNCHANGED <<serviceVersion, graphEdits, rows, revision, active, generation, last, graphCall, serviceSince>>
  BY DEF Service!ProviderFails, Service!Draft, Service!NoOne
<1>3. draft \in Drafts
  BY <1>1 DEF ServiceTyped, Drafts
<1>4. PICK v \in serviceSince : ReadAround(v)
  BY <1>1, <1>2 DEF Building
<1>5. own \subseteq GraphSources
  OBVIOUS
<1> HIDE DEF own
<1>6. /\ draft' \in Drafts /\ draft'.step = "build" /\ draft'.print = draft.print /\ draft'.check = draft.check
      /\ \A f \in GraphSources : draft'.graph[f] = Service!NotRead \/ draft'.graph[f] = draft.graph[f]
  BY <1>2, <1>3, <1>5, NotReadIsLate DEF Drafts, Readings
<1>7. (ReadAround(v))'
  BY <1>2, <1>4, <1>6 DEF ReadAround, NoNewer, Service!NotRead
<1>8. Printing' /\ Building'
  BY <1>1, <1>2, <1>6, <1>7 DEF Printing, Building, Service!Unread, Service!NotRead
<1> QED
  BY <1>2, <1>6, <1>8, DraftKeeps

LEMMA GraphAnnotateKeeps ==
    ASSUME ServiceInv, NEW broken \in SUBSET GraphSources, Service!Annotate(broken) PROVE ServiceInv'
<1>1. ServiceTyped /\ Building
  BY DEF ServiceInv
<1>2. /\ active # "nobody" /\ draft.step = "build"
      /\ draft' = [draft EXCEPT !.step = "check", !.failed = @ \union broken]
      /\ UNCHANGED <<serviceVersion, graphEdits, rows, revision, active, generation, last, graphCall, serviceSince>>
  BY DEF Service!Annotate, Service!Draft, Service!NoOne
<1>3. draft \in Drafts
  BY <1>1 DEF ServiceTyped, Drafts
<1>4. /\ draft' \in Drafts /\ draft'.step = "check" /\ draft'.print = draft.print
      /\ draft'.graph = draft.graph /\ draft'.check = draft.check
  BY <1>2, <1>3 DEF Drafts, Steps
<1>5. Printing' /\ Building'
  BY <1>1, <1>2, <1>4 DEF Printing, Building, ReadAround, NoNewer, Service!Unread, Service!NotRead
<1> QED
  BY <1>2, <1>4, <1>5, DraftKeeps

LEMMA HashAgainKeeps == ASSUME ServiceInv, NEW f \in GraphSources, Service!HashAgain(f) PROVE ServiceInv'
<1>1. ServiceTyped /\ SinceSound /\ Building
  BY DEF ServiceInv
<1>2. /\ active # "nobody" /\ draft.step = "check"
      /\ draft' = [draft EXCEPT !.check[f] = serviceVersion[f]]
      /\ UNCHANGED <<serviceVersion, graphEdits, rows, revision, active, generation, last, graphCall, serviceSince>>
  BY DEF Service!HashAgain, Service!Draft, Service!NoOne
<1>3. draft \in Drafts /\ serviceVersion \in Readings
  BY <1>1, NotReadIsLate DEF ServiceTyped, Drafts, Readings
<1>4. PICK v \in serviceSince : ReadAround(v)
  BY <1>1, <1>2 DEF Building
<1>5. /\ draft' \in Drafts /\ draft'.step = "check" /\ draft'.print = draft.print
      /\ draft'.graph = draft.graph
      /\ \A g \in GraphSources : draft'.check[g] = IF g = f THEN serviceVersion[f] ELSE draft.check[g]
  BY <1>2, <1>3 DEF Drafts, Readings
<1>6. v[f] <= serviceVersion[f] /\ serviceVersion[f] <= serviceVersion[f]
  BY <1>1, <1>2, <1>3 DEF SinceSound, NoNewer, Readings
<1>7. (ReadAround(v))'
  BY <1>2, <1>4, <1>5, <1>6 DEF ReadAround, NoNewer, Service!NotRead
<1>8. Printing' /\ Building'
  BY <1>2, <1>5, <1>7 DEF Printing, Building
<1> QED
  BY <1>2, <1>5, <1>8, DraftKeeps

LEMMA NewDraftStarts ==
    ASSUME SinceSound', active' # "nobody", draft' = Service!NewDraft
    PROVE  Printing' /\ Building' /\ draft' \in Drafts /\ draft'.step = "print"
<1>1. draft' \in Drafts /\ draft'.step = "print" /\ draft'.print = Service!Unread
      /\ draft'.graph = Service!Unread /\ draft'.check = Service!Unread
  BY NewDraftTyped DEF Drafts
<1>2. \A f \in GraphSources : draft'.print[f] = Service!NotRead
  BY <1>1 DEF Service!Unread
<1>3. serviceVersion' \in serviceSince'
  BY DEF SinceSound
<1> QED
  BY <1>1, <1>2, <1>3 DEF Printing, Building, Service!Unread, Service!NotRead

LEMMA StartOverKeeps == ASSUME ServiceInv, Service!StartOver PROVE ServiceInv'
<1>1. SinceSound
  BY DEF ServiceInv
<1>2. /\ active # "nobody" /\ draft.step = "check" /\ draft' = Service!NewDraft
      /\ UNCHANGED <<serviceVersion, graphEdits, rows, revision, active, generation, last, graphCall, serviceSince>>
  BY DEF Service!StartOver, Service!Draft, Service!NoOne
<1>3. SinceSound'
  BY <1>1, <1>2 DEF SinceSound, NoNewer
<1> QED
  BY <1>2, <1>3, NewDraftStarts, DraftKeeps

LEMMA RaiseKeeps == ASSUME ServiceInv, Service!MaterializeRaises PROVE ServiceInv'
<1>1. ServiceTyped
  BY DEF ServiceInv
<1>2. /\ active # "nobody" /\ draft.step # "leave"
      /\ draft' = [draft EXCEPT !.step = "leave", !.ref = Service!NoReference]
      /\ UNCHANGED <<serviceVersion, graphEdits, rows, revision, active, generation, last, graphCall, serviceSince>>
  BY DEF Service!MaterializeRaises, Service!Leave, Service!NoOne
<1>3. draft \in Drafts
  BY <1>1 DEF ServiceTyped, Drafts
<1>4. draft' \in Drafts /\ draft'.step = "leave" /\ draft'.ref = Service!NoReference
  BY <1>2, <1>3, NoReferenceTyped DEF Drafts, Steps
<1>5. Printing' /\ Building'
  BY <1>4 DEF Printing, Building
<1> QED
  BY <1>2, <1>4, <1>5, DraftKeeps

LEMMA SaveKeeps == ASSUME ServiceInv, Service!Save PROVE ServiceInv'
<1> DEFINE row == [rev |-> revision + 1, print |-> draft.print, graph |-> draft.graph, failed |-> draft.failed]
<1>1. ServiceTyped /\ RowsSound /\ SinceSound /\ Building /\ Service!GraphIsOfItsSources
  BY DEF ServiceInv
<1>2. /\ active # "nobody" /\ draft.step = "check" /\ draft.check = draft.print
      /\ \A f \in GraphSources : draft.check[f] # Service!NotRead
      /\ rows' = rows \union {row} /\ revision' = revision + 1
      /\ draft' = [draft EXCEPT !.step = "leave", !.ref = Service!Reference(row)]
      /\ UNCHANGED <<serviceVersion, graphEdits, active, generation, last, graphCall, serviceSince>>
  BY DEF Service!Save, Service!Draft, Service!NoOne, Service!SourcesUnchanged, Service!Leave
<1>3. draft \in Drafts /\ serviceVersion \in Readings /\ draft.print \in Readings /\ draft.graph \in Readings
  BY <1>1, NotReadIsLate DEF ServiceTyped, Drafts, Readings
<1>4. PICK v \in serviceSince : ReadAround(v)
  BY <1>1, <1>2 DEF Building
<1>5. v \in Readings
  BY <1>1, <1>2 DEF SinceSound
<1>6. v = draft.print
  BY <1>2, <1>3, <1>4, <1>5 DEF ReadAround, NoNewer, Readings
<1>7. Service!GraphOf(draft.graph, draft.print) /\ NoNewer(draft.print, serviceVersion)
  <2>1. \A f \in GraphSources : draft.graph[f] # Service!NotRead =>
            draft.print[f] <= draft.graph[f] /\ draft.graph[f] <= draft.print[f]
    BY <1>2, <1>4, <1>6 DEF ReadAround
  <2> QED
    BY <1>1, <1>2, <1>3, <1>6, <2>1 DEF Service!GraphOf, SinceSound, Readings
<1>8. /\ Service!Reference(row) \in References /\ Service!Reference(row).print = draft.print
      /\ row \in [rev : 1..(revision + 1), print : Readings, graph : Readings, failed : SUBSET GraphSources]
      /\ row.print = draft.print /\ row.graph = draft.graph
  BY <1>1, <1>3 DEF ServiceTyped, Service!Reference, References, Drafts
<1> HIDE DEF row
<1>9. draft' \in Drafts /\ draft'.step = "leave" /\ draft'.ref.print = draft.print
  BY <1>2, <1>3, <1>8 DEF Drafts, Steps
<1>10. rows' \subseteq [rev : 1..revision', print : Readings, graph : Readings, failed : SUBSET GraphSources]
  <2>1. rows \subseteq [rev : 1..(revision + 1), print : Readings, graph : Readings, failed : SUBSET GraphSources]
    BY <1>1 DEF ServiceTyped
  <2> QED
    BY <1>2, <1>8, <2>1
<1>11. ServiceTyped'
  BY <1>1, <1>2, <1>9, <1>10 DEF ServiceTyped, Drafts
<1>12. RowsSound'
  BY <1>1, <1>2, <1>7, <1>8 DEF RowsSound, NoNewer, Service!GraphOf, Service!NotRead
<1>13. SinceSound'
  BY <1>1, <1>2 DEF SinceSound, NoNewer
<1>14. RowsOlder' /\ Printing' /\ Building'
  BY <1>9 DEF RowsOlder, Printing, Building
<1>15. Service!GraphIsOfItsSources'
  <2>1. \A c \in Callers : graphCall[c].at = "loaded" => Service!GraphOf(graphCall[c].got, graphCall[c].ref.print)
    BY <1>1 DEF Service!GraphIsOfItsSources
  <2> QED
    BY <1>2, <1>4, <1>6, <1>9, <1>12, <2>1 DEF Service!GraphIsOfItsSources, RowsSound, Service!GraphOf, Service!NotRead
<1> QED
  BY <1>11, <1>12, <1>13, <1>14, <1>15 DEF ServiceInv

LEMMA BecomeActiveKeeps ==
    ASSUME ServiceInv, NEW c \in Callers, graphCall[c].at # "loaded", Service!BecomeActive(c),
           UNCHANGED <<serviceVersion, graphEdits, rows, revision, generation, last>>
    PROVE  ServiceInv'
<1>1. ServiceTyped /\ RowsSound /\ Service!GraphIsOfItsSources
  BY DEF ServiceInv
<1>2. /\ active' = c /\ draft' = Service!NewDraft /\ serviceSince' = {serviceVersion}
      /\ graphCall' = [graphCall EXCEPT ![c].at = "active"] /\ c # "nobody"
  BY ServiceAssumption DEF Service!BecomeActive
<1>3. serviceVersion \in Readings /\ NoNewer(serviceVersion, serviceVersion)
  BY <1>1, NotReadIsLate DEF ServiceTyped, Readings, NoNewer
<1>4. SinceSound'
  BY <1>2, <1>3 DEF SinceSound, NoNewer
<1>5. Printing' /\ Building' /\ draft' \in Drafts /\ draft'.step = "print"
  BY <1>2, <1>4, NewDraftStarts
<1>6. /\ graphCall' \in [Callers -> [at : CallStates, seen : Nat, ref : References, got : Readings]]
      /\ \A d \in Callers : graphCall'[d].at = "loaded" => graphCall'[d] = graphCall[d]
  BY <1>1, <1>2 DEF ServiceTyped, CallStates
<1>7. ServiceTyped'
  BY <1>1, <1>2, <1>5, <1>6 DEF ServiceTyped, Drafts
<1>8. RowsSound' /\ RowsOlder'
  BY <1>1, <1>2 DEF RowsSound, RowsOlder, NoNewer, Service!GraphOf, Service!NotRead
<1>9. Service!GraphIsOfItsSources'
  BY <1>1, <1>5, <1>6 DEF Service!GraphIsOfItsSources, Service!GraphOf, Service!NotRead, Service!Draft, Service!NoOne
<1> QED
  BY <1>4, <1>5, <1>7, <1>8, <1>9 DEF ServiceInv

\* A step of a call that is not the active one
LEMMA CallKeeps ==
    ASSUME ServiceInv,
           graphCall' \in [Callers -> [at : CallStates, seen : Nat, ref : References, got : Readings]],
           \A d \in Callers : graphCall'[d].at = "loaded" =>
               Service!GraphOf(graphCall'[d].got, graphCall'[d].ref.print),
           UNCHANGED <<serviceVersion, graphEdits, rows, revision, active, generation, last, draft, serviceSince>>
    PROVE  ServiceInv'
<1>1. /\ ServiceTyped /\ RowsSound /\ SinceSound /\ RowsOlder /\ Printing /\ Building
      /\ Service!GraphIsOfItsSources
  BY DEF ServiceInv
<1>2. ServiceTyped'
  BY <1>1 DEF ServiceTyped
<1>3. RowsSound' /\ SinceSound' /\ RowsOlder'
  BY <1>1 DEF RowsSound, SinceSound, RowsOlder, NoNewer, Service!GraphOf, Service!NotRead
<1>4. Printing' /\ Building'
  BY <1>1 DEF Printing, Building, ReadAround, NoNewer, Service!Unread, Service!NotRead
<1>5. Service!GraphIsOfItsSources'
  BY <1>1 DEF Service!GraphIsOfItsSources, Service!Draft, Service!GraphOf, Service!NotRead,
     Service!NoReference, Service!Unread, Service!NoOne
<1> QED
  BY <1>2, <1>3, <1>4, <1>5 DEF ServiceInv

LEMMA EnterKeeps == ASSUME ServiceInv, NEW c \in Callers, Service!EnterMaterialize(c) PROVE ServiceInv'
<1>1. ServiceTyped /\ Service!GraphIsOfItsSources
  BY DEF ServiceInv
<1>2. graphCall[c].at = "idle" /\ UNCHANGED <<serviceVersion, graphEdits, rows, revision, generation, last>>
  BY DEF Service!EnterMaterialize
<1>3. CASE Service!BecomeActive(c)
  BY <1>2, <1>3, BecomeActiveKeeps
<1>4. CASE /\ graphCall' = [graphCall EXCEPT ![c].at = "waiting", ![c].seen = generation]
           /\ UNCHANGED <<active, draft, serviceSince>>
  <2>1. /\ graphCall' \in [Callers -> [at : CallStates, seen : Nat, ref : References, got : Readings]]
        /\ \A d \in Callers : graphCall'[d].at = "loaded" => graphCall'[d] = graphCall[d]
    BY <1>1, <1>4 DEF ServiceTyped, CallStates
  <2> QED
    BY <1>1, <1>2, <1>4, <2>1, CallKeeps DEF Service!GraphIsOfItsSources
<1> QED
  BY <1>3, <1>4 DEF Service!EnterMaterialize

LEMMA WakeKeeps == ASSUME ServiceInv, NEW c \in Callers, Service!WakeWaiter(c) PROVE ServiceInv'
<1>1. ServiceTyped /\ Service!GraphIsOfItsSources
  BY DEF ServiceInv
<1>2. graphCall[c].at = "waiting" /\ UNCHANGED <<serviceVersion, graphEdits, rows, revision, generation, last>>
  BY DEF Service!WakeWaiter
<1>3. CASE Service!BecomeActive(c)
  BY <1>2, <1>3, BecomeActiveKeeps
<1>4. CASE /\ graphCall' = [graphCall EXCEPT ![c].at = "returned", ![c].ref = last]
           /\ UNCHANGED <<active, draft, serviceSince>>
  <2>1. /\ graphCall' \in [Callers -> [at : CallStates, seen : Nat, ref : References, got : Readings]]
        /\ \A d \in Callers : graphCall'[d].at = "loaded" => graphCall'[d] = graphCall[d]
    BY <1>1, <1>4 DEF ServiceTyped, CallStates
  <2> QED
    BY <1>1, <1>2, <1>4, <2>1, CallKeeps DEF Service!GraphIsOfItsSources
<1> QED
  BY <1>3, <1>4 DEF Service!WakeWaiter

LEMMA CancelWaiterKeeps == ASSUME ServiceInv, NEW c \in Callers, Service!CancelWaiter(c) PROVE ServiceInv'
<1>1. ServiceTyped /\ Service!GraphIsOfItsSources
  BY DEF ServiceInv
<1>2. /\ graphCall' = [graphCall EXCEPT ![c].at = "raised"]
      /\ UNCHANGED <<serviceVersion, graphEdits, rows, revision, active, generation, last, draft, serviceSince>>
  BY DEF Service!CancelWaiter
<1>3. /\ graphCall' \in [Callers -> [at : CallStates, seen : Nat, ref : References, got : Readings]]
      /\ \A d \in Callers : graphCall'[d].at = "loaded" => graphCall'[d] = graphCall[d]
  BY <1>1, <1>2 DEF ServiceTyped, CallStates
<1> QED
  BY <1>1, <1>2, <1>3, CallKeeps DEF Service!GraphIsOfItsSources

LEMMA LoadKeeps == ASSUME ServiceInv, NEW c \in Callers, Service!LoadGraph(c) PROVE ServiceInv'
<1>1. ServiceTyped /\ RowsSound /\ Service!GraphIsOfItsSources
  BY DEF ServiceInv
<1>2. UNCHANGED <<serviceVersion, graphEdits, rows, revision, active, generation, last, draft, serviceSince>>
  BY DEF Service!LoadGraph
<1>3. CASE graphCall' = [graphCall EXCEPT ![c].at = "missing"]
  <2>1. /\ graphCall' \in [Callers -> [at : CallStates, seen : Nat, ref : References, got : Readings]]
        /\ \A d \in Callers : graphCall'[d].at = "loaded" => graphCall'[d] = graphCall[d]
    BY <1>1, <1>3 DEF ServiceTyped, CallStates
  <2> QED
    BY <1>1, <1>2, <2>1, CallKeeps DEF Service!GraphIsOfItsSources
<1>4. CASE \E r \in Service!Stored(graphCall[c].ref) :
               graphCall' = [graphCall EXCEPT ![c].at = "loaded", ![c].got = r.graph]
  <2>1. PICK r \in Service!Stored(graphCall[c].ref) :
               graphCall' = [graphCall EXCEPT ![c].at = "loaded", ![c].got = r.graph]
    BY <1>4
  <2>2. r \in rows /\ graphCall[c].ref = Service!Reference(r) /\ r.graph \in Readings
    BY <1>1, <2>1 DEF Service!Stored, ServiceTyped
  <2>3. graphCall[c].ref.print = r.print /\ Service!GraphOf(r.graph, r.print)
    BY <1>1, <2>2 DEF Service!Reference, RowsSound
  <2>4. /\ graphCall' \in [Callers -> [at : CallStates, seen : Nat, ref : References, got : Readings]]
        /\ \A d \in Callers : d # c => graphCall'[d] = graphCall[d]
        /\ graphCall'[c].got = r.graph /\ graphCall'[c].ref = graphCall[c].ref
    <3> DEFINE g == r.graph
    <3>1. g \in Readings /\ graphCall' = [graphCall EXCEPT ![c].at = "loaded", ![c].got = g]
      BY <2>1, <2>2
    <3> HIDE DEF g
    <3>2. /\ graphCall' \in [Callers -> [at : CallStates, seen : Nat, ref : References, got : Readings]]
          /\ \A d \in Callers : d # c => graphCall'[d] = graphCall[d]
          /\ graphCall'[c].got = g /\ graphCall'[c].ref = graphCall[c].ref
      BY <1>1, <3>1 DEF ServiceTyped, CallStates
    <3> QED
      BY <3>2 DEF g
  <2> QED
    BY <1>1, <1>2, <2>3, <2>4, CallKeeps DEF Service!GraphIsOfItsSources
<1> QED
  BY <1>3, <1>4 DEF Service!LoadGraph

LEMMA FinishKeeps == ASSUME ServiceInv, Service!FinishMaterialization PROVE ServiceInv'
<1>1. ServiceTyped /\ RowsSound /\ Service!GraphIsOfItsSources
  BY DEF ServiceInv
<1> DEFINE end == IF draft.ref = Service!NoReference THEN "raised" ELSE "returned"
<1>2. /\ active # "nobody" /\ last' = draft.ref /\ generation' = generation + 1 /\ active' = "nobody"
      /\ graphCall' = [graphCall EXCEPT ![active] = [@ EXCEPT !.at = end, !.ref = draft.ref]]
      /\ draft' = Service!NewDraft /\ UNCHANGED <<serviceVersion, graphEdits, rows, revision, serviceSince>>
  BY DEF Service!FinishMaterialization, Service!Draft, Service!NoOne
<1>3. draft.ref \in References /\ active \in Callers /\ end \in {"raised", "returned"}
  BY <1>1, <1>2 DEF ServiceTyped
<1> HIDE DEF end
<1>4. /\ graphCall' \in [Callers -> [at : CallStates, seen : Nat, ref : References, got : Readings]]
      /\ \A d \in Callers : graphCall'[d].at = "loaded" => graphCall'[d] = graphCall[d]
  BY <1>1, <1>2, <1>3 DEF ServiceTyped, CallStates
<1>5. ServiceTyped'
  BY <1>1, <1>2, <1>3, <1>4, NewDraftTyped DEF ServiceTyped
<1>6. RowsSound' /\ SinceSound' /\ RowsOlder' /\ Printing' /\ Building'
  BY <1>1, <1>2 DEF RowsSound, SinceSound, RowsOlder, Printing, Building, NoNewer, Service!GraphOf, Service!NotRead
<1>7. Service!GraphIsOfItsSources'
  <2>1. \A d \in Callers : graphCall'[d].at = "loaded" => Service!GraphOf(graphCall'[d].got, graphCall'[d].ref.print)
    BY <1>1, <1>4 DEF Service!GraphIsOfItsSources
  <2>2. \A r \in rows' : Service!GraphOf(r.graph, r.print)
    BY <1>1, <1>2 DEF RowsSound
  <2> QED
    BY <1>2, <2>1, <2>2 DEF Service!GraphIsOfItsSources, Service!GraphOf, Service!NotRead, Service!Draft, Service!NoOne
<1> QED
  BY <1>5, <1>6, <1>7 DEF ServiceInv

LEMMA DropStoreKeeps == ASSUME ServiceInv, Service!DropStore PROVE ServiceInv'
<1>1. /\ ServiceTyped /\ SinceSound /\ Printing /\ Building /\ Service!GraphIsOfItsSources
  BY DEF ServiceInv
<1>2. /\ rows' = {} /\ revision' = 0
      /\ UNCHANGED <<serviceVersion, graphEdits, active, generation, last, graphCall, draft, serviceSince>>
  BY DEF Service!DropStore
<1>3. ServiceTyped'
  BY <1>1, <1>2 DEF ServiceTyped
<1>4. RowsSound' /\ SinceSound' /\ RowsOlder'
  BY <1>1, <1>2 DEF RowsSound, SinceSound, RowsOlder, NoNewer
<1>5. Printing' /\ Building'
  BY <1>1, <1>2 DEF Printing, Building, ReadAround, NoNewer, Service!Unread, Service!NotRead
<1>6. Service!GraphIsOfItsSources'
  BY <1>1, <1>2 DEF Service!GraphIsOfItsSources, Service!Draft, Service!GraphOf, Service!NotRead,
     Service!NoReference, Service!Unread, Service!NoOne
<1> QED
  BY <1>3, <1>4, <1>5, <1>6 DEF ServiceInv

LEMMA ServiceRests == ASSUME ServiceInv, UNCHANGED serviceVars PROVE ServiceInv'
<1>1. /\ ServiceTyped /\ Service!GraphIsOfItsSources
      /\ UNCHANGED <<serviceVersion, graphEdits, rows, revision, active, generation, last, graphCall, draft, serviceSince>>
  BY DEF ServiceInv, serviceVars
<1>2. graphCall' \in [Callers -> [at : CallStates, seen : Nat, ref : References, got : Readings]]
  BY <1>1 DEF ServiceTyped
<1>3. \A d \in Callers : graphCall'[d].at = "loaded" => Service!GraphOf(graphCall'[d].got, graphCall'[d].ref.print)
  BY <1>1 DEF Service!GraphIsOfItsSources
<1> QED
  BY <1>1, <1>2, <1>3, CallKeeps

LEMMA ServiceStepKeeps ==
    ASSUME ServiceInv, Service!GraphNext \/ UNCHANGED serviceVars PROVE ServiceInv'
<1>1. CASE Service!GraphDone
  BY <1>1, ServiceRests DEF Service!GraphDone, Service!graphVars, serviceVars
<1> QED
  BY <1>1, ServiceRests, EnterKeeps, WakeKeeps, CancelWaiterKeeps, LoadKeeps, GraphEditKeeps, HashKeeps, HashAgainKeeps,
     BuildKeeps, ProviderKeeps, GraphAnnotateKeeps, LookUpKeeps, StartOverKeeps, SaveKeeps, RaiseKeeps,
     FinishKeeps, DropStoreKeeps DEF Service!GraphNext

(* CodeGraphService, for any sources, providers, callers, edits and failures *)
(* and a store dropped at any time: a graph is that of the texts its         *)
(* fingerprint names although they are read one after the other while users  *)
(* edit, that codebase existed while the call ran that returned it, and      *)
(* load() gives that graph.                                                  *)
THEOREM GraphsAreOfTheirSources == Spec => []GraphOfItsSources
<1> DEFINE Inv == component = "service" => ServiceInv
<1>1. Init => Inv
  BY ServiceInitial DEF Init
<1>2. Inv /\ [Next]_vars => Inv'
  BY ComponentSteps, ServiceStepKeeps
<1>3. Inv => GraphOfItsSources
  BY DEF ServiceInv, GraphOfItsSources
<1> QED
  BY <1>1, <1>2, <1>3, PTL DEF Spec

-----------------------------------------------------------------------------
(* The parser pool and the merge.  Every file that could be read is in one   *)
(* batch, and a batch that is settled was parsed or lost; the merge has      *)
(* dealt with the files before the one it is at.                             *)

ParseStages == {"plan", "run", "merge", "returned", "raised"}
ParseOutcomes == {"none", "parsed", "error"}
ThreadStates == {"start", "waiting", "stopping", "done", "cancelled"}
ParsedAll == DOMAIN ParsedFiles

NothingPlanned == parseStage = "plan" => batches = <<>>

\* A batch is a batch of whole folders, in which its files are alone
Distributed ==
    parseStage # "plan" =>
        /\ \A b, c \in Parse!Batch : \A f \in batches[b] : f \in batches[c] => b = c
        /\ \A b \in Parse!Batch : \A f \in batches[b] : f \in ParsedAll /\ ParsedFiles[f].meta

Spread ==
    parseStage = "run" =>
        /\ \A f \in ParsedAll : ParsedFiles[f].meta => \E b \in Parse!Batch : f \in batches[b]
        /\ parseAnswers = [f \in {g \in ParsedAll : ~ParsedFiles[g].meta} |-> Parse!Errored]

BatchesSettled ==
    /\ parseOutcome \in [Parse!Batch -> ParseOutcomes] /\ thread \in [Parse!Batch -> ThreadStates]
    /\ \A b \in Parse!Batch : thread[b] = "done" => parseOutcome[b] \in {"parsed", "error"}

BatchLost(f) == \E b \in Parse!Batch : f \in batches[b] /\ parseOutcome[b] = "error"

ResultOf(f) == parseAnswers[f] = IF BatchLost(f) THEN Parse!Errored ELSE Parse!ParseFile(f)

Unmerged == merged = [at |-> 1, processed |-> <<>>, failed |-> <<>>, graph |-> {}, functions |-> {}]

NodesOf(s) == UNION {parseAnswers[f].nodes : f \in Parse!Range(s)}

MergedUpTo ==
    /\ merged = [at |-> merged.at, processed |-> merged.processed, failed |-> merged.failed,
                 graph |-> merged.graph, functions |-> merged.functions]
    /\ merged.at \in 1..(Len(ParsedFiles) + 1)
    /\ merged.processed \in Seq(ParsedAll) /\ merged.failed \in Seq(ParsedAll)
    /\ Len(merged.processed) + Len(merged.failed) = merged.at - 1
    /\ Parse!Range(merged.processed) \cup Parse!Range(merged.failed) = 1..(merged.at - 1)
    /\ merged.graph = NodesOf(merged.processed) /\ merged.functions = NodesOf(merged.processed)

ParseInv ==
    /\ parseStage \in ParseStages
    /\ NothingPlanned /\ Distributed /\ Spread /\ BatchesSettled
    /\ parseStage \in {"plan", "run", "raised"} => Unmerged
    /\ parseStage \in {"merge", "returned", "raised"} => \A b \in Parse!Batch : worker[b] # "running"
    /\ parseStage \in {"merge", "returned"} => MergedUpTo /\ \A f \in ParsedAll : ResultOf(f)
    /\ parseStage = "returned" => merged.at > Len(ParsedFiles)

LEMMA FilesNumbered ==
    /\ ParsedAll = 1..Len(ParsedFiles) /\ Len(ParsedFiles) \in Nat /\ Parse!AllFiles = ParsedAll
    /\ Cardinality(ParsedAll) = Len(ParsedFiles)
<1>1. ParsedAll = 1..Len(ParsedFiles) /\ Len(ParsedFiles) \in Nat
  BY ParseAssumption DEF ParsedAll
<1>2. Cardinality(1..Len(ParsedFiles)) = Len(ParsedFiles)
  <2>1. IF 1 > Len(ParsedFiles) THEN Cardinality(1..Len(ParsedFiles)) = 0
        ELSE Cardinality(1..Len(ParsedFiles)) = Len(ParsedFiles) - 1 + 1
    BY <1>1, FS_Interval
  <2> QED
    BY <1>1, <2>1
<1> QED
  BY <1>1, <1>2 DEF Parse!AllFiles, ParsedAll

LEMMA ParseInitial == ASSUME Parse!ParseInit PROVE ParseInv
<1>1. Parse!Batch = {}
  BY DEF Parse!ParseInit, Parse!Batch
<1> QED
  BY <1>1 DEF Parse!ParseInit, ParseInv, ParseStages, NothingPlanned, Distributed, Spread, BatchesSettled, Unmerged, ThreadStates,
     ParseOutcomes

LEMMA UnmergedIsMerged == ASSUME Unmerged PROVE MergedUpTo
<1>1. Parse!Range(<<>>) = {}
  BY DEF Parse!Range
<1> QED
  BY <1>1, FilesNumbered DEF Unmerged, MergedUpTo, NodesOf

LEMMA PlanKeeps == ASSUME ParseInv, Parse!Plan PROVE ParseInv'
<1>1. parseStage = "plan" /\ parseStage' = "run" /\ Unmerged /\ Unmerged'
  BY DEF Parse!Plan, ParseInv, Unmerged
<1> DEFINE count == IF MaxParsers < Parse!Cardinality(Parse!Folders) THEN MaxParsers
                    ELSE Parse!Cardinality(Parse!Folders)
<1>2. PICK assigned \in [Parse!Folders -> 1..count] :
        batches' = [i \in Parse!Range(assigned) |-> Parse!FilesOf(assigned, Parse!Folders, i)]
  BY DEF Parse!Plan
<1>3. Parse!Batch' = Parse!Range(assigned)
  BY <1>2 DEF Parse!Batch
<1>4. ASSUME NEW f, NEW b \in Parse!Batch', f \in batches'[b]
      PROVE  f \in ParsedAll /\ ParsedFiles[f].meta /\ assigned[ParsedFiles[f].folder] = b
  BY <1>2, <1>3, <1>4, FilesNumbered DEF Parse!FilesOf, Parse!InFolders
<1>5. Distributed'
  BY <1>4 DEF Distributed
<1>6. ASSUME NEW f \in ParsedAll, ParsedFiles[f].meta PROVE \E b \in Parse!Batch' : f \in batches'[b]
  <2>1. ParsedFiles[f].folder \in Parse!Folders
    BY <1>6, FilesNumbered DEF Parse!Folders
  <2>2. assigned[ParsedFiles[f].folder] \in Parse!Range(assigned)
    BY <2>1 DEF Parse!Range
  <2>3. f \in Parse!FilesOf(assigned, Parse!Folders, assigned[ParsedFiles[f].folder])
    BY <1>6, <2>1, FilesNumbered DEF Parse!FilesOf, Parse!InFolders
  <2> QED
    BY <1>2, <1>3, <2>2, <2>3
<1>7. Spread'
  BY <1>6, FilesNumbered DEF Spread, Parse!Plan, ParsedAll
<1>8. BatchesSettled'
  BY DEF BatchesSettled, Parse!Plan, Parse!Batch, ParseOutcomes, ThreadStates
<1> QED
  BY <1>1, <1>5, <1>7, <1>8 DEF ParseInv, NothingPlanned, ParseStages

LEMMA SequentialKeeps == ASSUME ParseInv, Parse!ParseSequentially PROVE ParseInv'
<1>1. parseStage = "plan" /\ parseStage' = "merge" /\ Unmerged' /\ batches = <<>> /\ batches' = <<>>
  BY DEF Parse!ParseSequentially, ParseInv, Unmerged, NothingPlanned
<1>2. Parse!Batch' = {}
  BY <1>1 DEF Parse!Batch
<1>3. Unmerged' => MergedUpTo'
  <2>1. Parse!Range(<<>>) = {}
    BY DEF Parse!Range
  <2> QED
    BY <2>1, FilesNumbered DEF Unmerged, MergedUpTo, NodesOf
<1>4. \A f \in ParsedAll : ResultOf(f)'
  BY <1>2, FilesNumbered DEF ResultOf, BatchLost, Parse!ParseSequentially
<1>5. BatchesSettled'
  BY <1>1 DEF BatchesSettled, Parse!ParseSequentially, ParseInv, Parse!Batch
<1> QED
  BY <1>1, <1>2, <1>3, <1>4, <1>5 DEF ParseInv, NothingPlanned, Spread, Distributed, ParseStages

Pool(b) ==
    \/ Parse!Submit(b) \/ Parse!WorkerAnswers(b) \/ Parse!WorkerDies(b) \/ Parse!Collect(b)
    \/ Parse!CollectInvalid(b) \/ Parse!GiveUp(b) \/ Parse!Abandon(b) \/ Parse!EnterStop(b)
    \/ Parse!Terminate(b) \/ Parse!Cancel

LEMMA PoolKeeps == ASSUME ParseInv, NEW b \in Parse!Batch, Pool(b) PROVE ParseInv'
<1>1. parseStage = "run" /\ UNCHANGED <<batches, parseAnswers, parseStage, merged>>
  BY DEF Pool, Parse!Submit, Parse!WorkerAnswers, Parse!WorkerDies, Parse!Collect, Parse!CollectInvalid,
     Parse!GiveUp, Parse!Abandon, Parse!EnterStop, Parse!Terminate, Parse!Cancel, Parse!Running
<1>2. Parse!Batch' = Parse!Batch
  BY <1>1 DEF Parse!Batch
<1>3. BatchesSettled'
  <2>1. UNCHANGED <<thread, parseOutcome>> \/ (\E t \in ThreadStates, o \in ParseOutcomes :
            /\ thread' = [thread EXCEPT ![b] = t]
            /\ parseOutcome' = parseOutcome \/ parseOutcome' = [parseOutcome EXCEPT ![b] = o]
            /\ t = "done" => parseOutcome'[b] \in {"parsed", "error"})
    BY DEF ParseInv, BatchesSettled, ThreadStates, ParseOutcomes,
     Pool, Parse!Submit, Parse!WorkerAnswers, Parse!WorkerDies, Parse!Collect, Parse!CollectInvalid,
     Parse!GiveUp, Parse!Abandon, Parse!EnterStop, Parse!Terminate, Parse!Cancel, Parse!Running
  <2> QED
    BY <1>2, <2>1 DEF ParseInv, BatchesSettled
<1> QED
  BY <1>1, <1>2, <1>3 DEF ParseInv, NothingPlanned, Distributed, Spread, Unmerged

LEMMA JoinKeeps == ASSUME ParseInv, Parse!Join PROVE ParseInv'
<1>1. /\ parseStage = "run" /\ parseStage' \in {"raised", "merge"}
      /\ UNCHANGED <<batches, thread, parseOutcome, merged>> /\ Unmerged /\ Unmerged'
      /\ Parse!Batch' = Parse!Batch
  BY DEF Parse!Join, Parse!Running, ParseInv, Unmerged, Parse!Batch
<1>2. \A b \in Parse!Batch : worker'[b] # "running"
  BY DEF Parse!Join
<1>3. ASSUME parseStage' = "merge", NEW f \in ParsedAll PROVE ResultOf(f)'
  <2>1. \A b \in Parse!Batch : parseOutcome[b] \in {"parsed", "error"}
    BY <1>3 DEF Parse!Join, ParseInv, BatchesSettled
  <2>2. parseAnswers'[f] = IF f \in DOMAIN parseAnswers THEN parseAnswers[f]
                           ELSE IF \E b \in Parse!Batch : f \in batches[b] /\ parseOutcome[b] = "parsed"
                                THEN Parse!ParseFile(f) ELSE Parse!Errored
    BY <1>3, FilesNumbered DEF Parse!Join
  <2>3. CASE ParsedFiles[f].meta
    <3>1. PICK b \in Parse!Batch : f \in batches[b]
      BY <1>1, <2>3 DEF ParseInv, Spread
    <3>2. \A c \in Parse!Batch : f \in batches[c] => c = b
      BY <1>1, <3>1 DEF ParseInv, Distributed
    <3>3. f \notin DOMAIN parseAnswers
      BY <1>1, <2>3 DEF ParseInv, Spread
    <3> QED
      BY <1>1, <2>1, <2>2, <3>1, <3>2, <3>3 DEF ResultOf, BatchLost
  <2>4. CASE ~ParsedFiles[f].meta
    <3>1. parseAnswers[f] = Parse!Errored /\ f \in DOMAIN parseAnswers
      BY <1>1, <2>4 DEF ParseInv, Spread
    <3>2. Parse!ParseFile(f) = Parse!Errored
      BY <2>4 DEF Parse!ParseFile, Parse!Errored
    <3> QED
      BY <2>2, <3>1, <3>2 DEF ResultOf
  <2> QED
    BY <2>3, <2>4
<1>4. MergedUpTo'
  <2>1. Parse!Range(<<>>) = {}
    BY DEF Parse!Range
  <2> QED
    BY <1>1, <2>1, FilesNumbered DEF Unmerged, MergedUpTo, NodesOf
<1> QED
  BY <1>1, <1>2, <1>3, <1>4 DEF ParseInv, NothingPlanned, Distributed, Spread, BatchesSettled, ParseStages

LEMMA RangeOfAppend ==
    ASSUME NEW S, NEW s \in Seq(S), NEW x
    PROVE  Parse!Range(Append(s, x)) = Parse!Range(s) \cup {x}
<1>1. DOMAIN s = 1..Len(s) /\ DOMAIN Append(s, x) = 1..(Len(s) + 1) /\ Len(s) \in Nat
  OBVIOUS
<1>2. \A i \in 1..Len(s) : Append(s, x)[i] = s[i]
  OBVIOUS
<1>3. Append(s, x)[Len(s) + 1] = x
  OBVIOUS
<1> QED
  BY <1>1, <1>2, <1>3 DEF Parse!Range

LEMMA MergeFileKeeps == ASSUME ParseInv, Parse!MergeFile PROVE ParseInv'
<1> DEFINE f == merged.at
           parsed == parseAnswers[f]
<1>1. /\ parseStage = "merge" /\ f \in ParsedAll /\ MergedUpTo
      /\ UNCHANGED <<batches, parseAnswers, thread, worker, parseOutcome, parseStage>>
      /\ Parse!Batch' = Parse!Batch
  BY FilesNumbered DEF Parse!MergeFile, ParseInv, MergedUpTo, Parse!Batch
<1>2. CASE ~parsed.error /\ merged.graph \cap parsed.nodes = {}
  <2>1. merged' = [at |-> f + 1, processed |-> Append(merged.processed, f), failed |-> merged.failed,
                   graph |-> merged.graph \cup parsed.nodes, functions |-> merged.functions \cup parsed.nodes]
    BY <1>1, <1>2 DEF Parse!MergeFile, Parse!Merged, MergedUpTo
  <2>2. Parse!Range(Append(merged.processed, f)) = Parse!Range(merged.processed) \cup {f}
    BY <1>1, RangeOfAppend DEF MergedUpTo
  <2>3. NodesOf(Append(merged.processed, f)) = NodesOf(merged.processed) \cup parsed.nodes
    BY <2>2 DEF NodesOf
  <2>4. /\ Append(merged.processed, f) \in Seq(ParsedAll) /\ merged.failed \in Seq(ParsedAll)
        /\ 1..f = (1..(f - 1)) \cup {f} /\ f + 1 \in 1..(Len(ParsedFiles) + 1) /\ f \in Nat
    BY <1>1, FilesNumbered DEF MergedUpTo
  <2>5. Parse!Range(Append(merged.processed, f)) \cup Parse!Range(merged.failed) = 1..f
    BY <1>1, <2>2, <2>4 DEF MergedUpTo
  <2>6. Len(Append(merged.processed, f)) + Len(merged.failed) = f
    <3>1. PICK p, q : p = merged.processed /\ q = merged.failed
      OBVIOUS
    <3>2. Len(p) + Len(q) = f - 1 /\ p \in Seq(ParsedAll) /\ q \in Seq(ParsedAll) /\ f \in Nat
      BY <1>1, <3>1 DEF MergedUpTo
    <3>3. Len(Append(p, f)) + Len(q) = f
      BY <3>2
    <3> QED
      BY <3>1, <3>3
  <2>7. MergedUpTo'
    <3>1. /\ merged'.at = f + 1 /\ merged'.at - 1 = f
          /\ merged'.processed = Append(merged.processed, f) /\ merged'.failed = merged.failed
          /\ merged'.graph = merged.graph \cup parsed.nodes /\ merged'.functions = merged.functions \cup parsed.nodes
      BY <2>1, <2>4
    <3>2. merged' = [at |-> merged'.at, processed |-> merged'.processed, failed |-> merged'.failed,
                     graph |-> merged'.graph, functions |-> merged'.functions]
      BY <2>1
    <3>3. /\ Parse!Range(merged.processed)' = Parse!Range(Append(merged.processed, f))
          /\ Parse!Range(merged.failed)' = Parse!Range(merged.failed)
          /\ NodesOf(merged.processed)' = NodesOf(Append(merged.processed, f))
      BY <1>1, <3>1 DEF Parse!Range, NodesOf
    <3> QED
      BY <1>1, <2>3, <2>4, <2>5, <2>6, <3>1, <3>2, <3>3 DEF MergedUpTo
  <2> QED
    BY <1>1, <2>7 DEF ParseInv, NothingPlanned, Distributed, Spread, BatchesSettled, ResultOf, BatchLost
<1>3. CASE parsed.error \/ merged.graph \cap parsed.nodes # {}
  <2>1. merged' = [at |-> f + 1, processed |-> merged.processed, failed |-> Append(merged.failed, f),
                   graph |-> merged.graph, functions |-> merged.functions]
    BY <1>1, <1>3 DEF Parse!MergeFile, Parse!Merged, MergedUpTo
  <2>2. Parse!Range(Append(merged.failed, f)) = Parse!Range(merged.failed) \cup {f}
    BY <1>1, RangeOfAppend DEF MergedUpTo
  <2>3. merged.graph = NodesOf(merged.processed) /\ merged.functions = NodesOf(merged.processed)
    BY <1>1 DEF MergedUpTo
  <2>4. /\ merged.processed \in Seq(ParsedAll) /\ Append(merged.failed, f) \in Seq(ParsedAll)
        /\ 1..f = (1..(f - 1)) \cup {f} /\ f + 1 \in 1..(Len(ParsedFiles) + 1) /\ f \in Nat
    BY <1>1, FilesNumbered DEF MergedUpTo
  <2>5. Parse!Range(merged.processed) \cup Parse!Range(Append(merged.failed, f)) = 1..f
    BY <1>1, <2>2, <2>4 DEF MergedUpTo
  <2>6. Len(merged.processed) + Len(Append(merged.failed, f)) = f
    <3>1. PICK p, q : p = merged.processed /\ q = merged.failed
      OBVIOUS
    <3>2. Len(p) + Len(q) = f - 1 /\ p \in Seq(ParsedAll) /\ q \in Seq(ParsedAll) /\ f \in Nat
      BY <1>1, <3>1 DEF MergedUpTo
    <3>3. Len(p) + Len(Append(q, f)) = f
      BY <3>2
    <3> QED
      BY <3>1, <3>3
  <2>7. MergedUpTo'
    <3>1. /\ merged'.at = f + 1 /\ merged'.at - 1 = f
          /\ merged'.processed = merged.processed /\ merged'.failed = Append(merged.failed, f)
          /\ merged'.graph = merged.graph /\ merged'.functions = merged.functions
      BY <2>1, <2>4
    <3>2. merged' = [at |-> merged'.at, processed |-> merged'.processed, failed |-> merged'.failed,
                     graph |-> merged'.graph, functions |-> merged'.functions]
      BY <2>1
    <3>3. /\ Parse!Range(merged.processed)' = Parse!Range(merged.processed)
          /\ Parse!Range(merged.failed)' = Parse!Range(Append(merged.failed, f))
          /\ NodesOf(merged.processed)' = NodesOf(merged.processed)
      BY <1>1, <3>1 DEF Parse!Range, NodesOf
    <3> QED
      BY <1>1, <2>3, <2>4, <2>5, <2>6, <3>1, <3>2, <3>3 DEF MergedUpTo
  <2> QED
    BY <1>1, <2>7 DEF ParseInv, NothingPlanned, Distributed, Spread, BatchesSettled, ResultOf, BatchLost
<1> QED
  BY <1>2, <1>3

LEMMA BuildReturnsKeeps == ASSUME ParseInv, Parse!BuildReturns PROVE ParseInv'
<1>1. /\ parseStage = "merge" /\ parseStage' = "returned" /\ merged.at > Len(ParsedFiles)
      /\ UNCHANGED <<batches, parseAnswers, thread, worker, parseOutcome, merged>>
      /\ Parse!Batch' = Parse!Batch
  BY DEF Parse!BuildReturns, Parse!Batch
<1> QED
  BY <1>1 DEF ParseInv, ParseStages, NothingPlanned, Distributed, Spread, BatchesSettled, ResultOf, BatchLost, MergedUpTo, NodesOf

LEMMA ParseStepKeeps ==
    ASSUME ParseInv, Parse!ParseNext \/ UNCHANGED parseVars PROVE ParseInv'
<1>1. CASE UNCHANGED parseVars
  <2>1. Parse!Batch' = Parse!Batch
    BY <1>1 DEF parseVars, Parse!Batch
  <2>2. Parse!Range(merged.processed)' = Parse!Range(merged.processed)
        /\ Parse!Range(merged.failed)' = Parse!Range(merged.failed)
    BY <1>1 DEF parseVars, Parse!Range
  <2>3. MergedUpTo => MergedUpTo'
    BY <1>1, <2>2 DEF parseVars, MergedUpTo, NodesOf
  <2> QED
    BY <1>1, <2>1, <2>3 DEF parseVars, ParseInv, NothingPlanned, Distributed, Spread, BatchesSettled, Unmerged, ResultOf, BatchLost
<1>2. CASE Parse!Cancel
  <2>1. Parse!Batch' = Parse!Batch
    BY <1>2 DEF Parse!Cancel, Parse!Batch
  <2> QED
    BY <1>2, <2>1 DEF Parse!Cancel, ParseInv, NothingPlanned, Distributed, Spread, BatchesSettled, Unmerged
<1>3. CASE \E b \in Parse!Batch : Pool(b)
  BY <1>3, PoolKeeps
<1> QED
  BY <1>1, <1>2, <1>3, PlanKeeps, SequentialKeeps, JoinKeeps, MergeFileKeeps, BuildReturnsKeeps DEF Parse!ParseNext, Pool

(* parse_files_in_parallel and build_graph, for any files, folders and       *)
(* workers that answer, die or hang: a returned graph accounts for every     *)
(* file once, a file's result is that of its own parse unless its own batch  *)
(* was lost, the graph has the functions of the processed files and no       *)
(* others, and no worker is left running.                                    *)
THEOREM FilesAreAccounted == Spec => []FilesAccounted
<1> DEFINE Inv == component = "parse" => ParseInv
<1>1. Init => Inv
  BY ParseInitial DEF Init
<1>2. Inv /\ [Next]_vars => Inv'
  BY ComponentSteps, ParseStepKeeps
<1>3. Inv => FilesAccounted
  <2> SUFFICES ASSUME component = "parse", ParseInv PROVE Parse!EveryFileAccounted
    BY DEF FilesAccounted
  <2>1. Parse!ParseDone => \A b \in Parse!Batch : worker[b] # "running"
    BY DEF Parse!ParseDone, ParseInv
  <2>2. ASSUME parseStage = "returned"
        PROVE  /\ Len(merged.processed) + Len(merged.failed) = Cardinality(ParsedAll)
               /\ Parse!Range(merged.processed) \cup Parse!Range(merged.failed) = ParsedAll
               /\ \A f \in ParsedAll : ResultOf(f)
               /\ merged.graph = NodesOf(merged.processed) /\ merged.functions = NodesOf(merged.processed)
    <3>1. merged.at = Len(ParsedFiles) + 1 /\ MergedUpTo /\ \A f \in ParsedAll : ResultOf(f)
      BY <2>2, FilesNumbered DEF ParseInv, MergedUpTo
    <3> QED
      BY <3>1, FilesNumbered DEF MergedUpTo
  <2>3. Parse!Cardinality(Parse!AllFiles) = Cardinality(ParsedAll)
    BY FilesNumbered DEF Parse!Cardinality, Cardinality
  <2> QED
    BY <2>1, <2>2, <2>3, FilesNumbered DEF Parse!EveryFileAccounted, ResultOf, BatchLost, NodesOf
<1> QED
  BY <1>1, <1>2, <1>3, PTL DEF Spec

-----------------------------------------------------------------------------
(* The findings of a packet.  Validation and anchoring locate a snippet by   *)
(* the same rule, so in an unchanged file they find the same place, and in a *)
(* changed one the second look is as strict as the first.                    *)

Alternatives == [sink : Nat, all : Seq(Nat)]
Reviews == [snippet : Seq(STRING), line : Nat, confident : BOOLEAN, alternatives : Seq(Alternatives)]

\* The reviews that were accepted, as the text of the file is now
Accepted ==
    \A n \in DOMAIN analysis[1] :
        /\ Packet!ReviewAnchor(analysis[1][n]) # Packet!None
        /\ Packet!ValidAlternatives(analysis[1][n], Packet!ReviewAnchor(analysis[1][n]))

PacketTyped ==
    /\ packetVersion \in 1..Len(FileVersions) /\ checked \in 0..packetVersion
    /\ packet \in FilePackets
    /\ packetStage \in {"built", "failed", "waiting", "anchored", "raised"}
    /\ packetStage \in {"waiting", "anchored", "raised"} =>
          /\ analysis[1] = [n \in DOMAIN analysis[1] |-> analysis[1][n]]
          /\ \A n \in DOMAIN analysis[1] : analysis[1][n] \in Reviews

PacketInv ==
    /\ PacketTyped
    /\ packetStage \in {"built", "failed"} => checked = 0
    /\ packetStage \in {"built", "failed", "waiting", "raised"} => findings = <<>>
    /\ packetStage \in {"waiting", "anchored", "raised"} /\ packetVersion = checked => Accepted
    /\ Packet!FindingsAreGrounded

LEMMA TextTyped == ASSUME PacketTyped PROVE Packet!Text \in Seq(STRING)
BY PacketAssumption DEF PacketTyped, Packet!Text

LEMMA NodesTyped ==
    ASSUME PacketTyped
    PROVE  /\ packet.nodes \in Seq(DOMAIN FileGraph) /\ Packet!Nodes \subseteq DOMAIN FileGraph
           /\ Packet!Nodes = {packet.nodes[n] : n \in DOMAIN packet.nodes}
           /\ \A f \in Packet!Nodes : FileGraph[f].calls \in Seq([line : Nat, result : BOOLEAN])
BY PacketAssumption DEF PacketTyped, Packet!Nodes, Packet!Range

\* A snippet is found where it stands
LEMMA LocateFinds ==
    ASSUME PacketTyped, NEW r \in Reviews
    PROVE  Packet!Locate(r) = 0 \/ Packet!Locate(r) \in Packet!Spans(Packet!Text, r.snippet)
<1> DEFINE spans == Packet!Spans(Packet!Text, r.snippet)
           hinted == {i \in spans : i \in Packet!Min(packet.shown)..Packet!Max(packet.shown)}
<1>1. spans \subseteq Nat
  BY TextTyped DEF Packet!Spans
<1>2. ASSUME NEW S, S \subseteq spans, S # {} PROVE Packet!Min(S) \in S
  <2>1. S \subseteq Nat
    BY <1>1, <1>2
  <2>2. PICK y \in S : \A z \in S : <<z, y>> \notin OpToRel(<, Nat)
    BY <1>2, <2>1, NatLessThanWellFounded, WFMin
  <2>3. \A z \in S : y <= z
    <3> TAKE z \in S
    <3>1. z \in Nat /\ y \in Nat
      BY <2>1
    <3>2. ~(z < y)
      BY <2>2, <3>1 DEF OpToRel
    <3> QED
      BY <3>1, <3>2
  <2> QED
    BY <2>3 DEF Packet!Min
<1>3. hinted # {} => Packet!Min(hinted) \in spans
  BY <1>2
<1>4. spans # {} => Packet!Min(spans) \in spans
  BY <1>2
<1>5. Packet!Locate(r) = IF r.line \in spans THEN r.line
        ELSE IF hinted # {} THEN Packet!Min(hinted)
        ELSE IF spans # {} THEN Packet!Min(spans) ELSE 0
  BY DEF Packet!Locate
<1> HIDE DEF spans, hinted
<1>6. Packet!Locate(r) = 0 \/ Packet!Locate(r) \in spans
  BY <1>3, <1>4, <1>5
<1> QED
  BY <1>6 DEF spans

LEMMA AnchorGrounded ==
    ASSUME PacketTyped, NEW r \in Reviews, Packet!ReviewAnchor(r) # Packet!None
    PROVE  LET a == Packet!ReviewAnchor(r)
           IN  /\ a.function \in Packet!Nodes
               /\ a.from \in Nat /\ a.to \in Nat /\ a.from <= a.to
               /\ SubSeq(Packet!Text, a.from, a.to) = r.snippet
               /\ \A i \in a.from..a.to : Packet!Text[i] # "" => i \in packet.shown
               /\ FileGraph[a.function].from <= a.from /\ a.to <= FileGraph[a.function].to
               /\ Packet!FunctionForLocation(a.from, a.function) = a.function
<1> DEFINE from == Packet!Locate(r)
           to == from + Len(r.snippet) - 1
           own == Packet!Owners(from, to)
           f == CHOOSE x \in own : TRUE
<1>1. /\ from > 0 /\ Packet!Shown(from, to) /\ Packet!Cardinality(own) = 1
      /\ Packet!ReviewAnchor(r) = [function |-> f, from |-> from, to |-> to]
  BY DEF Packet!ReviewAnchor
<1>2. own # {}
  <2>1. Cardinality(own) = 1
    BY <1>1 DEF Packet!Cardinality, Cardinality
  <2> HIDE DEF own
  <2>2. Cardinality({}) = 0
    BY FS_EmptySet
  <2> QED
    BY <2>1, <2>2
<1>3. f \in own
  BY <1>2
<1>4. from \in Packet!Spans(Packet!Text, r.snippet)
  BY <1>1, LocateFinds
<1>5. from \in Nat /\ to \in Nat /\ from <= to /\ SubSeq(Packet!Text, from, to) = r.snippet
  BY <1>4, TextTyped DEF Packet!Spans, Reviews
<1>6. f \in Packet!Nodes /\ FileGraph[f].from <= from /\ to <= FileGraph[f].to
  BY <1>3 DEF Packet!Owners
<1>7. \A i \in from..to : Packet!Text[i] # "" => i \in packet.shown
  BY <1>1 DEF Packet!Shown
<1> HIDE DEF from, to, f
<1>8. FileGraph[f].from \in Nat /\ FileGraph[f].to \in Nat /\ f \in DOMAIN FileGraph
  BY <1>6, NodesTyped, PacketAssumption
<1>9. Packet!FunctionForLocation(from, f) = f
  <2> DEFINE containing == {g \in DOMAIN FileGraph : from \in FileGraph[g].from..FileGraph[g].to}
             named == containing \cap {f}
  <2>1. f \in containing
    BY <1>5, <1>6, <1>8
  <2>2. named = {f}
    BY <2>1
  <2>3. Packet!FunctionForLocation(from, f) = CHOOSE g \in named : \A h \in named : FileGraph[h].from <= FileGraph[g].from
    BY <2>2 DEF Packet!FunctionForLocation
  <2> HIDE DEF named
  <2> QED
    BY <1>8, <2>2, <2>3
<1>10. Packet!ReviewAnchor(r).function = f /\ Packet!ReviewAnchor(r).from = from /\ Packet!ReviewAnchor(r).to = to
  BY <1>1
<1> QED
  BY <1>10, <1>5, <1>6, <1>7, <1>9

LEMMA ShownCallsFinite ==
    ASSUME PacketTyped PROVE Packet!ShownCalls \subseteq Nat \X Nat /\ IsFiniteSet(Packet!ShownCalls)
<1> DEFINE D == DOMAIN packet.nodes
           C == {DOMAIN FileGraph[f].calls : f \in Packet!Nodes}
           domains == [n \in D |-> DOMAIN FileGraph[packet.nodes[n]].calls]
<1>1. D = 1..Len(packet.nodes) /\ Len(packet.nodes) \in Nat /\ \A n \in D : packet.nodes[n] \in Packet!Nodes
  BY NodesTyped
<1>2. IsFiniteSet(D)
  BY <1>1, FS_Interval
<1>3. domains \in Surjection(D, C)
  BY <1>1, NodesTyped DEF Surjection
<1>4. IsFiniteSet(C)
  BY <1>2, <1>3, FS_Surjection
<1>5. ASSUME NEW T \in C PROVE IsFiniteSet(T) /\ T \subseteq Nat
  <2>1. PICK f \in Packet!Nodes : T = DOMAIN FileGraph[f].calls
    BY <1>5
  <2>2. T = 1..Len(FileGraph[f].calls) /\ Len(FileGraph[f].calls) \in Nat
    BY <2>1, NodesTyped
  <2>3. T \subseteq Nat
    BY <2>2
  <2>4. IsFiniteSet(1..Len(FileGraph[f].calls))
    BY <2>2, FS_Interval
  <2> QED
    BY <2>2, <2>3, <2>4
<1>6. IsFiniteSet(UNION C) /\ UNION C \subseteq Nat
  BY <1>4, <1>5, FS_UNION
<1>7. IsFiniteSet(D \X UNION C)
  BY <1>2, <1>6, FS_Product
<1>8. Packet!ShownCalls \subseteq D \X UNION C
  BY DEF Packet!ShownCalls
<1>9. D \X UNION C \subseteq Nat \X Nat
  BY <1>1, <1>6
<1> QED
  BY <1>7, <1>8, <1>9, FS_Subset

\* A condition that has a number is about a call the packet shows
LEMMA CallResultsShown ==
    ASSUME PacketTyped, NEW k \in Nat, k < Len(Packet!CallResults)
    PROVE  /\ Packet!CallResults[k + 1].function \in Packet!Nodes
           /\ Packet!CallResults[k + 1].line \in packet.shown
<1> DEFINE S == Packet!ShownCalls
           s == Packet!Sorted(S)
           X == {Packet!CallResult(p) : p \in S}
<1>1. s = Store!Sorted(S)
  BY DEF Packet!Sorted, Store!Sorted, Packet!Before, Store!Before, Packet!Cardinality, Store!Cardinality
<1>2. Listed(s, S)
  BY <1>1, ShownCallsFinite, SortedListed
<1>3. s \in Seq(S) /\ Len(s) \in Nat /\ DOMAIN s = 1..Len(s)
  BY <1>2 DEF Listed
<1>4. Packet!CallResults = [i \in DOMAIN s |-> Packet!CallResult(s[i])]
  BY DEF Packet!CallResults
<1> HIDE DEF s, S
<1>5. Packet!CallResults \in [1..Len(s) -> X]
  BY <1>3, <1>4
<1>6. Len(Packet!CallResults) = Len(s)
  BY <1>3, <1>5
<1>7. k + 1 \in 1..Len(s)
  BY <1>3, <1>6
<1>8. Packet!CallResults[k + 1] = Packet!CallResult(s[k + 1]) /\ s[k + 1] \in S
  BY <1>3, <1>4, <1>7
<1> USE DEF S
<1>9. \A p \in S : Packet!CallResult(p).function \in Packet!Nodes /\ Packet!CallResult(p).line \in packet.shown
  BY NodesTyped DEF Packet!ShownCalls, Packet!CallResult
<1> QED
  BY <1>8, <1>9

\* Where the text and the packet are as they were, so is every anchor
LEMMA SameAnchors ==
    ASSUME UNCHANGED <<packetVersion, packet>>
    PROVE  /\ \A r : (Packet!ReviewAnchor(r))' = Packet!ReviewAnchor(r)
           /\ \A r, a : (Packet!ValidAlternatives(r, a))' = Packet!ValidAlternatives(r, a)
           /\ Packet!Text' = Packet!Text /\ Packet!Nodes' = Packet!Nodes
<1>1. Packet!Text' = Packet!Text /\ Packet!Nodes' = Packet!Nodes
  BY DEF Packet!Text, Packet!Nodes, Packet!Range
<1>2. \A r : (Packet!Locate(r))' = Packet!Locate(r)
  BY <1>1 DEF Packet!Locate
<1>3. \A f, t : (Packet!Shown(f, t))' = Packet!Shown(f, t) /\ (Packet!Owners(f, t))' = Packet!Owners(f, t)
  BY <1>1 DEF Packet!Shown, Packet!Owners
<1>4. \A r : (Packet!ReviewAnchor(r))' = Packet!ReviewAnchor(r)
  BY <1>2, <1>3 DEF Packet!ReviewAnchor
<1>5. Packet!ShownCalls' = Packet!ShownCalls
  BY <1>1 DEF Packet!ShownCalls
<1>6. Packet!CallResults' = Packet!CallResults
  BY <1>5 DEF Packet!CallResults, Packet!CallResult
<1>7. \A r, a : (Packet!ValidAlternatives(r, a))' = Packet!ValidAlternatives(r, a)
  BY <1>6 DEF Packet!ValidAlternatives, Packet!SinkInside
<1> QED
  BY <1>1, <1>4, <1>7

LEMMA PacketInitial == ASSUME Packet!PacketInit PROVE PacketInv
<1>1. /\ packetVersion = 1 /\ packet \in FilePackets /\ checked = 0 /\ packetStage = "built" /\ findings = <<>>
  BY DEF Packet!PacketInit
<1>2. PacketTyped
  BY <1>1, PacketAssumption DEF PacketTyped
<1>3. Packet!FindingsAreGrounded
  BY <1>1 DEF Packet!FindingsAreGrounded
<1> QED
  BY <1>1, <1>2, <1>3 DEF PacketInv

LEMMA ValidateKeeps ==
    ASSUME PacketInv, NEW response \in ModelResponses, Packet!Validate(response) PROVE PacketInv'
<1>1. PacketTyped /\ packetStage = "built" /\ findings = <<>> /\ checked = 0
  BY DEF PacketInv, Packet!Validate
<1>2. UNCHANGED <<packetVersion, packet, findings>>
  BY DEF Packet!Validate
<1>3. CASE ~Packet!Valid(response)
  <2>1. packetStage' = "failed" /\ UNCHANGED <<analysis, checked>>
    BY <1>3 DEF Packet!Validate
  <2>2. PacketTyped'
    BY <1>1, <1>2, <2>1 DEF PacketTyped
  <2>3. Packet!FindingsAreGrounded'
    BY <1>1, <1>2, <2>1 DEF PacketTyped, Packet!FindingsAreGrounded
  <2> QED
    BY <1>1, <1>2, <2>1, <2>2, <2>3 DEF PacketInv
<1>4. CASE Packet!Valid(response)
  <2> DEFINE K == Packet!Kept(response)
  <2>1. packetStage' = "waiting" /\ analysis' = <<K>> /\ checked' = packetVersion
    BY <1>4 DEF Packet!Validate
  <2>2. \A n \in DOMAIN K : /\ Packet!ReviewAnchor(K[n]) # Packet!None
                            /\ Packet!ValidAlternatives(K[n], Packet!ReviewAnchor(K[n]))
    BY <1>4 DEF Packet!Valid
  <2>3. K = [n \in DOMAIN K |-> K[n]] /\ \A n \in DOMAIN K : K[n] \in Reviews
    <3>1. response.reviews \in Seq(Reviews)
      BY PacketAssumption DEF Reviews, Alternatives
    <3> QED
      BY <3>1 DEF Packet!Kept
  <2> HIDE DEF K
  <2>4. analysis'[1] = K
    BY <2>1
  <2>5. PacketTyped'
    BY <1>1, <1>2, <2>1, <2>3, <2>4 DEF PacketTyped
  <2>6. Accepted'
    BY <1>2, <2>2, <2>4, SameAnchors DEF Accepted, Packet!None
  <2>7. Packet!FindingsAreGrounded'
    BY <1>1, <1>2, <2>1 DEF Packet!FindingsAreGrounded
  <2> QED
    BY <1>1, <1>2, <2>1, <2>5, <2>6, <2>7 DEF PacketInv
<1> QED
  BY <1>3, <1>4

LEMMA PacketEditKeeps == ASSUME PacketInv, Packet!EditFile PROVE PacketInv'
<1>1. /\ PacketTyped /\ packetStage \in {"built", "waiting"} /\ findings = <<>>
      /\ packetStage = "built" => checked = 0
  BY DEF PacketInv, Packet!EditFile
<1>2. /\ packetVersion < Len(FileVersions) /\ packetVersion' = packetVersion + 1
      /\ UNCHANGED <<packet, analysis, checked, packetStage, findings>>
  BY DEF Packet!EditFile
<1>3. PacketTyped' /\ packetVersion' # checked'
  BY <1>1, <1>2, PacketAssumption DEF PacketTyped
<1>4. Packet!FindingsAreGrounded'
  BY <1>1, <1>2, <1>3 DEF Packet!FindingsAreGrounded
<1> QED
  BY <1>1, <1>2, <1>3, <1>4 DEF PacketInv

LEMMA AnchorKeeps == ASSUME PacketInv, Packet!AnchorReviews PROVE PacketInv'
<1> DEFINE reviews == analysis[1]
           A(n) == Packet!ReviewAnchor(reviews[n])
           Lost(n) == A(n) = Packet!None \/ Packet!FunctionForLocation(A(n).from, A(n).function) # A(n).function
<1>1. /\ PacketTyped /\ packetStage = "waiting" /\ findings = <<>>
      /\ packetVersion = checked => Accepted
  BY DEF PacketInv, Packet!AnchorReviews
<1>2. UNCHANGED <<packetVersion, packet, analysis, checked>>
  BY DEF Packet!AnchorReviews
<1>3. /\ reviews = [n \in DOMAIN reviews |-> reviews[n]] /\ \A n \in DOMAIN reviews : reviews[n] \in Reviews
  BY <1>1 DEF PacketTyped
<1>4. packetVersion = checked => Accepted'
  BY <1>1, <1>2, SameAnchors DEF Accepted, Packet!None
<1>5. CASE (\E n \in DOMAIN reviews : Lost(n)) /\ packetStage' = "raised" /\ UNCHANGED findings
  <2>1. PICK n \in DOMAIN reviews : Lost(n)
    BY <1>5
  <2>2. packetVersion # checked
    <3> SUFFICES ASSUME packetVersion = checked PROVE FALSE
      OBVIOUS
    <3>1. A(n) # Packet!None
      BY <1>1, <2>1 DEF Accepted
    <3> QED
      BY <1>1, <1>3, <2>1, <3>1, AnchorGrounded
  <2>3. PacketTyped'
    BY <1>1, <1>2, <1>5 DEF PacketTyped
  <2>4. Packet!FindingsAreGrounded'
    BY <1>1, <1>2, <1>5, <2>2 DEF Packet!FindingsAreGrounded
  <2> QED
    BY <1>1, <1>2, <1>5, <2>2, <2>3, <2>4 DEF PacketInv
<1>6. CASE /\ ~(\E n \in DOMAIN reviews : Lost(n)) /\ packetStage' = "anchored"
           /\ findings' = [n \in DOMAIN reviews |-> Packet!FindingOf(reviews[n], A(n))]
  <2>1. DOMAIN findings' = DOMAIN reviews
    BY <1>6
  <2>2. ASSUME NEW n \in DOMAIN reviews
        PROVE  /\ findings'[n].review = reviews[n] /\ findings'[n].function = A(n).function
               /\ findings'[n].from = A(n).from /\ findings'[n].to = A(n).to
               /\ findings'[n].subjects = UNION {{Packet!CallResults[i + 1] : i \in Packet!Range(reviews[n].alternatives[m].all)} :
                                                     m \in DOMAIN reviews[n].alternatives}
    BY <1>6 DEF Packet!FindingOf
  <2>3. ASSUME NEW n \in DOMAIN reviews
        PROVE  /\ findings'[n].function \in Packet!Nodes
               /\ findings'[n].from \in Nat /\ findings'[n].to \in Nat
               /\ SubSeq(Packet!Text, findings'[n].from, findings'[n].to) = findings'[n].review.snippet
               /\ \A i \in findings'[n].from..findings'[n].to : Packet!Text[i] # "" => i \in packet.shown
               /\ FileGraph[findings'[n].function].from <= findings'[n].from
               /\ findings'[n].to <= FileGraph[findings'[n].function].to
    <3>1. A(n) # Packet!None
      BY <1>6
    <3>2. /\ A(n).function \in Packet!Nodes /\ A(n).from \in Nat /\ A(n).to \in Nat
          /\ SubSeq(Packet!Text, A(n).from, A(n).to) = reviews[n].snippet
          /\ \A i \in A(n).from..A(n).to : Packet!Text[i] # "" => i \in packet.shown
          /\ FileGraph[A(n).function].from <= A(n).from /\ A(n).to <= FileGraph[A(n).function].to
      BY <1>1, <1>3, <3>1, AnchorGrounded
    <3> HIDE DEF A, reviews
    <3> QED
      BY <2>2, <3>2
  <2>4. ASSUME packetVersion = checked, NEW n \in DOMAIN reviews
        PROVE  /\ \A m \in DOMAIN reviews[n].alternatives :
                     \E c \in DOMAIN FileGraph[findings'[n].function].calls :
                         /\ c = reviews[n].alternatives[m].sink + 1
                         /\ FileGraph[findings'[n].function].calls[c].line \in findings'[n].from..findings'[n].to
               /\ \A s \in findings'[n].subjects : s.function \in Packet!Nodes /\ s.line \in packet.shown
    <3>1. Packet!ValidAlternatives(reviews[n], A(n)) /\ reviews[n].alternatives \in Seq(Alternatives)
      BY <1>1, <1>3, <2>4 DEF Accepted, Reviews
    <3>2. ASSUME NEW m \in DOMAIN reviews[n].alternatives
          PROVE  /\ reviews[n].alternatives[m] \in Alternatives
                 /\ reviews[n].alternatives[m].sink < Len(FileGraph[findings'[n].function].calls)
                 /\ FileGraph[findings'[n].function].calls[reviews[n].alternatives[m].sink + 1].line
                       \in findings'[n].from..findings'[n].to
                 /\ \A i \in Packet!Range(reviews[n].alternatives[m].all) : i < Len(Packet!CallResults)
      <4>1. reviews[n].alternatives[m] \in Alternatives
        BY <3>1
      <4>2. /\ reviews[n].alternatives[m].sink < Len(FileGraph[A(n).function].calls)
            /\ FileGraph[A(n).function].calls[reviews[n].alternatives[m].sink + 1].line \in A(n).from..A(n).to
            /\ \A i \in Packet!Range(reviews[n].alternatives[m].all) : i < Len(Packet!CallResults)
        BY <3>1 DEF Packet!ValidAlternatives, Packet!SinkInside
      <4> HIDE DEF A, reviews
      <4> QED
        BY <2>2, <4>1, <4>2
    <3>3. FileGraph[findings'[n].function].calls \in Seq([line : Nat, result : BOOLEAN])
      BY <1>1, <2>3, NodesTyped
    <3>4. \A m \in DOMAIN reviews[n].alternatives :
             reviews[n].alternatives[m].sink + 1 \in DOMAIN FileGraph[findings'[n].function].calls
      <4> TAKE m \in DOMAIN reviews[n].alternatives
      <4> DEFINE k == reviews[n].alternatives[m].sink
                 own == FileGraph[findings'[n].function].calls
      <4>1. k \in Nat /\ k < Len(own) /\ own \in Seq([line : Nat, result : BOOLEAN])
        BY <3>2, <3>3 DEF Alternatives
      <4> HIDE DEF k, own
      <4>2. k + 1 \in DOMAIN own
        BY <4>1
      <4> QED
        BY <4>2 DEF k, own
    <3>5. ASSUME NEW s \in findings'[n].subjects PROVE s.function \in Packet!Nodes /\ s.line \in packet.shown
      <4>1. PICK m \in DOMAIN reviews[n].alternatives :
                \E i \in Packet!Range(reviews[n].alternatives[m].all) : s = Packet!CallResults[i + 1]
        BY <2>2, <3>5
      <4>2. PICK i \in Packet!Range(reviews[n].alternatives[m].all) : s = Packet!CallResults[i + 1]
        BY <4>1
      <4>3. i \in Nat /\ i < Len(Packet!CallResults)
        <5>1. reviews[n].alternatives[m].all \in Seq(Nat)
          BY <3>2 DEF Alternatives
        <5>2. i \in Nat
          BY <4>2, <5>1 DEF Packet!Range
        <5> QED
          BY <3>2, <4>2, <5>2
      <4> QED
        BY <1>1, <4>2, <4>3, CallResultsShown
    <3> QED
      BY <3>2, <3>4, <3>5
  <2>5. PacketTyped'
    BY <1>1, <1>2, <1>6 DEF PacketTyped
  <2>6. [n \in DOMAIN findings' |-> findings'[n].review] = analysis'[1]
    BY <1>2, <1>3, <2>1, <2>2
  <2>7. Packet!FindingsAreGrounded'
    <3>1. Packet!Text' = Packet!Text /\ Packet!Nodes' = Packet!Nodes
      BY <1>2, SameAnchors
    <3>2. \A n \in DOMAIN findings' :
             /\ SubSeq(Packet!Text', findings'[n].from, findings'[n].to) = findings'[n].review.snippet
             /\ \A i \in findings'[n].from..findings'[n].to : Packet!Text'[i] # "" => i \in packet'.shown
             /\ findings'[n].function \in Packet!Nodes'
             /\ findings'[n].from >= FileGraph[findings'[n].function].from
             /\ findings'[n].to <= FileGraph[findings'[n].function].to
      <4> TAKE n \in DOMAIN findings'
      <4>1. FileGraph[findings'[n].function].from \in Nat
        BY <1>1, <2>1, <2>3, NodesTyped, PacketAssumption
      <4> QED
        BY <1>2, <2>1, <2>3, <3>1, <4>1
    <3>3. packetVersion' = checked' => \A n \in DOMAIN findings' :
             /\ \A m \in DOMAIN findings'[n].review.alternatives :
                   \E c \in DOMAIN FileGraph[findings'[n].function].calls :
                       /\ c = findings'[n].review.alternatives[m].sink + 1
                       /\ FileGraph[findings'[n].function].calls[c].line \in findings'[n].from..findings'[n].to
             /\ \A s \in findings'[n].subjects : s.function \in Packet!Nodes' /\ s.line \in packet'.shown
      BY <1>2, <2>1, <2>2, <2>4, <3>1
    <3> HIDE DEF reviews, A
    <3> QED
      BY <1>6, <2>6, <3>2, <3>3 DEF Packet!FindingsAreGrounded
  <2> QED
    BY <1>1, <1>2, <1>4, <1>6, <2>5, <2>7 DEF PacketInv
<1> QED
  BY <1>5, <1>6 DEF Packet!AnchorReviews

LEMMA PacketRests == ASSUME PacketInv, UNCHANGED packetVars PROVE PacketInv'
<1>1. UNCHANGED <<packetVersion, packet, analysis, checked, packetStage, findings>>
  BY DEF packetVars
<1>2. PacketTyped'
  BY <1>1 DEF PacketInv, PacketTyped
<1>3. Accepted' = Accepted
  BY <1>1, SameAnchors DEF Accepted, Packet!None
<1>4. Packet!FindingsAreGrounded'
  BY <1>1, SameAnchors DEF PacketInv, Packet!FindingsAreGrounded
<1> QED
  BY <1>1, <1>2, <1>3, <1>4 DEF PacketInv

LEMMA PacketStepKeeps == ASSUME PacketInv, Packet!PacketNext \/ UNCHANGED packetVars PROVE PacketInv'
BY PacketRests, AnchorKeeps, PacketEditKeeps, ValidateKeeps DEF Packet!PacketNext

(* PacketFindings, for any texts, functions, packets, answers and edits: a   *)
(* finding quotes its snippet from lines the model was shown, in a function  *)
(* of the packet; in a file that did not change after validation every       *)
(* confident review becomes a finding, its sinks are calls inside the        *)
(* anchor, and its conditions are about results that were shown.             *)
THEOREM PacketFindingsAreGrounded == Spec => []FindingsGrounded
<1> DEFINE Inv == component = "packet" => PacketInv
<1>1. Init => Inv
  BY PacketInitial DEF Init
<1>2. Inv /\ [Next]_vars => Inv'
  BY ComponentSteps, PacketStepKeeps
<1>3. Inv => FindingsGrounded
  BY DEF PacketInv, FindingsGrounded
<1> QED
  BY <1>1, <1>2, <1>3, PTL DEF Spec
=============================================================================
