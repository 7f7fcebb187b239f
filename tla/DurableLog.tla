----------------------------- MODULE DurableLog -----------------------------
(***************************************************************************)
(* What JsonJournal promises to the stages that write through it: a log,   *)
(* a stable prefix of it in the file, calls of append(), flush() and       *)
(* close() that end, and a failure that everybody sees.  It knows of no    *)
(* queue, no thread and no condition variable; JsonJournal implements it   *)
(* (see its last section).                                                 *)
(***************************************************************************)
EXTENDS Integers, Sequences, SequencesExt

CONSTANTS Producers, Flushers, Closers

VARIABLES
    log,     \* the records accepted, in order
    stable,  \* the records in the file
    mark,    \* [Flushers -> length of the log when the flush began]
    call,    \* [calls -> "idle", "pending", "done", "refused" or "failed"]
    closed,  \* nothing is accepted any more
    broken   \* a write has failed

vars == <<log, stable, mark, call, closed, broken>>

Calls == Producers \cup Flushers \cup Closers

Init ==
    /\ log = <<>> /\ stable = <<>>
    /\ mark = [f \in Flushers |-> 0]
    /\ call = [c \in Calls |-> "idle"]
    /\ ~closed /\ ~broken

Becomes(c, outcome) == call' = [call EXCEPT ![c] = outcome]
Unended(c) == call[c] \in {"idle", "pending"}

(* A record is accepted once and at the end, refused by a log that is      *)
(* closed or broken, or held back.                                         *)
Accept(p) ==
    /\ Unended(p) /\ ~closed /\ ~broken
    /\ log' = Append(log, p) /\ Becomes(p, "done")
    /\ UNCHANGED <<stable, mark, closed, broken>>

Hold(p) ==
    /\ call[p] = "idle" /\ ~closed /\ ~broken
    /\ Becomes(p, "pending")
    /\ UNCHANGED <<log, stable, mark, closed, broken>>

Refuse(c) ==
    /\ Unended(c) /\ (closed \/ broken)
    /\ Becomes(c, "refused")
    /\ UNCHANGED <<log, stable, mark, closed, broken>>

(* A flush ends well when all that was accepted before it is stable.       *)
Flush(f) ==
    /\ call[f] = "idle" /\ ~closed /\ ~broken
    /\ mark' = [mark EXCEPT ![f] = Len(log)] /\ Becomes(f, "pending")
    /\ UNCHANGED <<log, stable, closed, broken>>

Flushed(f) ==
    /\ call[f] = "pending" /\ ~broken /\ mark[f] <= Len(stable)
    /\ Becomes(f, "done")
    /\ UNCHANGED <<log, stable, mark, closed, broken>>

(* A close ends well when the whole log is stable.                         *)
Close(c) ==
    /\ call[c] = "idle"
    /\ closed' = TRUE /\ Becomes(c, "pending")
    /\ UNCHANGED <<log, stable, mark, broken>>

Closed(c) ==
    /\ call[c] = "pending" /\ ~broken /\ stable = log
    /\ Becomes(c, "done")
    /\ UNCHANGED <<log, stable, mark, closed, broken>>

Fails(c) ==
    /\ call[c] = "pending" /\ broken
    /\ Becomes(c, "failed")
    /\ UNCHANGED <<log, stable, mark, closed, broken>>

(* The stable part grows along the log until a write fails.                *)
Persist ==
    /\ ~broken
    /\ stable' # stable
    /\ IsPrefix(stable, stable') /\ IsPrefix(stable', log)
    /\ UNCHANGED <<log, mark, call, closed, broken>>

Break ==
    /\ ~broken /\ stable # log
    /\ broken' = TRUE
    /\ UNCHANGED <<log, stable, mark, call, closed>>

Next ==
    \/ \E p \in Producers : Accept(p) \/ Hold(p) \/ Refuse(p)
    \/ \E f \in Flushers : Flush(f) \/ Flushed(f) \/ Refuse(f) \/ Fails(f)
    \/ \E c \in Closers : Close(c) \/ Closed(c) \/ Fails(c)
    \/ Persist
    \/ Break

Safety == Init /\ [][Next]_vars

(* Nobody waits forever. *)
Ends == \A c \in Calls : call[c] = "pending" ~> ~Unended(c)

Spec == Safety /\ Ends
=============================================================================
