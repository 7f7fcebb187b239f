-------------------------------- MODULE Usage --------------------------------
(***************************************************************************)
(* Token accounting (metis/usage): commands open a scope, model and        *)
(* embedding callbacks of any thread record into it, a finished command    *)
(* stores its summary beside the totals of the run, and the run summary    *)
(* is assembled from the two at two moments.                               *)
(***************************************************************************)
EXTENDS Naturals, FiniteSets, Sequences, SequencesExt, FiniteSetsExt, Functions

CONSTANTS Threads,     \* threads that run commands
          Models,      \* model names, without "unknown"
          Reports,     \* what a response says of its tokens: <<input, output, total>>
          MaxEvents    \* bound on recorded responses

VARIABLES
    events,      \* responses seen so far
    sequence,    \* _command_sequence
    totals,      \* UsageCollector._summary
    scopes,      \* UsageCollector._scopes: sequence number of a command -> summary
    embedding,   \* _embedding_models[event], one event per thread
    command,     \* command[t]: the command of the thread and how far it is
    completed,   \* _completed_commands
    saving,      \* build_persisted_payload in progress: the commands it has read
    saved        \* the last payload written

usageVars == <<events, sequence, totals, scopes, embedding, command, completed, saving, saved>>

Names == Models \cup {"unknown"}
Empty == [input |-> 0, output |-> 0, total |-> 0, byModel |-> [n \in Names |-> 0]]
NoCommand == [at |-> "none", scope |-> 0, current |-> Empty]
NoSaving == [at |-> "no", commands |-> <<>>]

UsageInit ==
    /\ events = 0 /\ sequence = 0 /\ totals = Empty /\ scopes = <<>>
    /\ embedding = [t \in Threads |-> "unknown"]
    /\ command = [t \in Threads |-> NoCommand]
    /\ completed = <<>> /\ saving = NoSaving /\ saved = [totals |-> Empty, commands |-> <<>>]

\* extract_response_usage: a missing total is the sum of the parts, and a
\* response without any count is not recorded.
Usage(report) == [input |-> report[1], output |-> report[2],
                  total |-> IF report[3] = 0 THEN report[1] + report[2] ELSE report[3]]

\* _increment
Increment(summary, usage, name) ==
    [input |-> summary.input + usage.input, output |-> summary.output + usage.output,
     total |-> summary.total + usage.total,
     byModel |-> [summary.byModel EXCEPT ![name] = @ + usage.total]]


\* UsageCollector.record: the totals and the scope change under one lock.
Record(t, report, name) ==
    LET u == Usage(report) IN
    /\ IF u.total = 0 THEN UNCHANGED <<totals, scopes>>
       ELSE /\ totals' = Increment(totals, u, name)
            /\ scopes' = [scopes EXCEPT ![command[t].scope] = Increment(@, u, name)]
    /\ events' = events + 1

\* UsageRuntime.command
BeginCommand(t) ==
    /\ command[t].at = "none" /\ sequence < Cardinality(Threads)
    /\ sequence' = sequence + 1
    /\ command' = [command EXCEPT ![t] = [at |-> "running", scope |-> sequence', current |-> Empty]]
    /\ scopes' = Append(scopes, Empty)
    /\ UNCHANGED <<events, totals, embedding, completed, saving, saved>>

\* on_llm_end of a thread that carries the scope of a command.
ModelEnds(t, report, name) ==
    /\ command[t].at = "running" /\ events < MaxEvents
    /\ Record(t, report, name)
    /\ UNCHANGED <<sequence, embedding, command, completed, saving, saved>>

\* on_event_start of an embedding.
EmbeddingStarts(t, name) ==
    /\ command[t].at = "running" /\ embedding[t] = "unknown" /\ events < MaxEvents
    /\ embedding' = [embedding EXCEPT ![t] = name]
    /\ UNCHANGED <<events, sequence, totals, scopes, command, completed, saving, saved>>

\* on_event_end: the payload's model, or else the one the start announced.
EmbeddingEnds(t, report, name) ==
    /\ embedding[t] # "unknown" /\ events < MaxEvents
    /\ Record(t, <<report[1], 0, 0>>, IF name = "unknown" THEN embedding[t] ELSE name)
    /\ embedding' = [embedding EXCEPT ![t] = "unknown"]
    /\ UNCHANGED <<sequence, command, completed, saving, saved>>

\* finalize_command reads the scope, then the totals, then appends.
SnapshotScope(t) ==
    /\ command[t].at = "running" /\ embedding[t] = "unknown"
    /\ command' = [command EXCEPT ![t].at = "scoped", ![t].current = scopes[command[t].scope]]
    /\ UNCHANGED <<events, sequence, totals, scopes, embedding, completed, saving, saved>>

FinalizeCommand(t) ==
    /\ command[t].at = "scoped"
    /\ completed' = Append(completed, [scope |-> command[t].scope, summary |-> command[t].current,
                                       cumulative |-> totals])
    /\ command' = [command EXCEPT ![t].at = "finalized"]
    /\ UNCHANGED <<events, sequence, totals, scopes, embedding, saving, saved>>

\* A command that raises is never finalized.
CommandRaises(t) ==
    /\ command[t].at = "running"
    /\ command' = [command EXCEPT ![t].at = "finalized"]
    /\ embedding' = [embedding EXCEPT ![t] = "unknown"]
    /\ UNCHANGED <<events, sequence, totals, scopes, completed, saving, saved>>

\* Mutant: the totals are read first.
ReadTotalsFirst ==
    /\ saving.at = "no"
    /\ saving' = [at |-> "totals", commands |-> completed] /\ saved' = [saved EXCEPT !.totals = totals]
    /\ UNCHANGED <<events, sequence, totals, scopes, embedding, command, completed>>
WriteCommandsRead ==
    /\ saving.at = "totals"
    /\ saved' = [saved EXCEPT !.commands = completed] /\ saving' = NoSaving
    /\ UNCHANGED <<events, sequence, totals, scopes, embedding, command, completed>>
BuildPayloadTotalsFirst == ReadTotalsFirst \/ WriteCommandsRead

\* build_persisted_payload reads the commands and then the totals, and
\* save_run_summary writes both.
BuildPayload ==
    \/ /\ saving.at = "no" /\ completed # saved.commands
       /\ saving' = [at |-> "commands", commands |-> completed]
       /\ UNCHANGED <<events, sequence, totals, scopes, embedding, command, completed, saved>>
    \/ /\ saving.at = "commands"
       /\ saved' = [totals |-> totals, commands |-> saving.commands] /\ saving' = NoSaving
       /\ UNCHANGED <<events, sequence, totals, scopes, embedding, command, completed>>

UsageDone == /\ \A t \in Threads : command[t].at = "finalized"
             /\ saving.at = "no" /\ completed = saved.commands

UsageNext ==
    \/ \E t \in Threads : \/ BeginCommand(t) \/ SnapshotScope(t) \/ FinalizeCommand(t) \/ CommandRaises(t)
                          \/ \E n \in Models : EmbeddingStarts(t, n)
                          \/ \E r \in Reports, n \in Names : ModelEnds(t, r, n) \/ EmbeddingEnds(t, r, n)
    \/ BuildPayload

UsageSpec == UsageInit /\ [][UsageNext \/ (UsageDone /\ UNCHANGED usageVars)]_usageVars

-----------------------------------------------------------------------------
Spent(commands, Of(_)) == FoldLeft(LAMBDA n, c : n + Of(c.summary), 0, commands)

(***************************************************************************)
(* "Read commands first so concurrently completed work cannot exceed       *)
(* totals": in every payload that save_run_summary writes, the commands    *)
(* together used no more than the totals of the run, for every model, and  *)
(* no command's own summary exceeds its cumulative one, although other     *)
(* threads record and finish commands between the reads.                   *)
(***************************************************************************)
CommandsWithinTotals ==
    /\ \A n \in Names : LET OfModel(s) == s.byModel[n]
                        IN  Spent(saved.commands, OfModel) <= saved.totals.byModel[n]
    /\ \A c \in ToSet(completed) : c.summary.total <= c.cumulative.total
    /\ totals.total = FoldFunction(+, 0, totals.byModel)
=============================================================================
