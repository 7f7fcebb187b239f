---------------------------- MODULE JsonJournal ----------------------------
(***************************************************************************)
(* The append-only journal of review findings and triage decisions         *)
(* (JsonJournal, json_io.py).  Threads append records to a queue bounded   *)
(* in bytes, one writer thread moves the whole queue to the file, flush()  *)
(* waits until what was accepted before it is on disk, close() stops the   *)
(* writer.  All of them share one condition variable; append() and the     *)
(* writer wait on it without a timeout.                                    *)
(*                                                                         *)
(* Each producer makes one call of append(), each flusher one of flush(),  *)
(* each closer one of close(), so a queue entry is named after its caller. *)
(***************************************************************************)
EXTENDS Integers, Sequences, FiniteSets

CONSTANTS Producers,  \* calls of append()
          Flushers,   \* calls of flush()
          Closers,    \* calls of close()
          Size,       \* [Producers -> positive]: bytes of the record
          Buffer,     \* _JSON_JOURNAL_BUFFER_BYTES
          Writer,     \* the writer thread
          Stop        \* the entry that ends the writer (None in the code)

Callers == Producers \cup Flushers \cup Closers

ASSUME JournalConstants ==
    /\ Size \in [Producers -> Nat \ {0}]
    /\ Buffer \in Nat \ {0}
    /\ Producers \cap Flushers = {}
    /\ Producers \cap Closers = {}
    /\ Flushers \cap Closers = {}
    /\ Writer \notin Callers
    /\ Stop \notin Callers

VARIABLES
    pc,           \* [Callers -> where the call is]
    limit,        \* [Flushers -> records accepted when flush() began]
    queue,        \* self._queue
    queuedBytes,  \* self._queued_bytes
    accepted,     \* history: records accepted, in order (self.size counts them)
    disk,         \* records in the file
    closed,       \* self._closed
    error,        \* self._error is not None
    finished,     \* self._finished
    writer,       \* where the writer is
    batch,        \* the writer's batch
    signalled,    \* flushers whose event is set
    asleep        \* threads blocked in the condition variable

buffer == <<queue, queuedBytes, accepted>>
file   == <<disk, writer, batch, signalled, finished, error>>
vars   == <<pc, limit, buffer, file, closed, asleep>>

(* The records among the entries s, in order: the k-th is the one with k   *)
(* records up to it.                                                       *)
IsRecord(x)  == x \in Producers
RecordsAt(s) == {i \in 1..Len(s) : IsRecord(s[i])}
Ranked(s, k) == {i \in RecordsAt(s) : Cardinality({j \in RecordsAt(s) : j <= i}) = k}
Records(s)   == [k \in 1..Cardinality(RecordsAt(s)) |-> s[CHOOSE i \in Ranked(s, k) : TRUE]]

Init ==
    /\ pc = [c \in Callers |-> "idle"]
    /\ limit = [f \in Flushers |-> 0]
    /\ queue = <<>>
    /\ queuedBytes = 0
    /\ accepted = <<>>
    /\ disk = <<>>
    /\ closed = FALSE
    /\ error = FALSE
    /\ finished = FALSE
    /\ writer = "wait"
    /\ batch = <<>>
    /\ signalled = {}
    /\ asleep = {}

Goto(c, where) == pc' = [pc EXCEPT ![c] = where]

(* self._condition.notify_all() and notify() *)
(* Mutant: nobody is woken. *)
NotifyNobody == UNCHANGED asleep
NotifyAll    == asleep' = {}
Notify ==
    \/ asleep = {} /\ asleep' = {}
    \/ \E t \in asleep : asleep' = asleep \ {t}

-----------------------------------------------------------------------------
(* append() *)

(* Room for the record: an empty queue takes a record of any size.         *)
Room(p) == queuedBytes = 0 \/ queuedBytes + Size[p] <= Buffer

AppendRecord(p) ==
    /\ pc[p] \in {"idle", "blocked"}
    /\ p \notin asleep
    /\ \/ /\ error \/ closed
          /\ Goto(p, "refused")
          /\ UNCHANGED <<buffer, asleep>>
       \/ /\ ~error /\ ~closed
          /\ Room(p)
          /\ Goto(p, "accepted")
          /\ queue' = Append(queue, p)
          /\ queuedBytes' = queuedBytes + Size[p]
          /\ accepted' = Append(accepted, p)
          /\ NotifyAll
       \/ /\ ~error /\ ~closed
          /\ ~Room(p)
          /\ Goto(p, "blocked")
          /\ asleep' = asleep \cup {p}
          /\ UNCHANGED buffer
    /\ UNCHANGED <<limit, file, closed>>

-----------------------------------------------------------------------------
(* flush() *)
FlushBegin(f) ==
    /\ pc[f] = "idle"
    /\ \/ /\ error \/ closed
          /\ Goto(f, "refused")
          /\ UNCHANGED <<limit, queue, asleep>>
       \/ /\ ~error /\ ~closed
          /\ Goto(f, "waiting")
          /\ limit' = [limit EXCEPT ![f] = Len(accepted)]
          /\ queue' = Append(queue, f)
          /\ Notify
    /\ UNCHANGED <<queuedBytes, accepted, file, closed>>

(* The event is polled, the writer's error ends the wait. *)
FlushEnd(f) ==
    /\ pc[f] = "waiting"
    /\ \/ error /\ Goto(f, "failed")
       \/ ~error /\ f \in signalled /\ Goto(f, "flushed")
    /\ UNCHANGED <<limit, buffer, file, closed, asleep>>

-----------------------------------------------------------------------------
(* close() *)
CloseBegin(c) ==
    /\ pc[c] = "idle"
    /\ Goto(c, "joining")
    /\ \/ closed /\ UNCHANGED <<queue, asleep>>
       \/ ~closed /\ queue' = Append(queue, Stop) /\ NotifyAll
    /\ closed' = TRUE
    /\ UNCHANGED <<limit, queuedBytes, accepted, file>>

CloseEnd(c) ==
    /\ pc[c] = "joining"
    /\ finished
    /\ Goto(c, IF error THEN "failed" ELSE "closed")
    /\ UNCHANGED <<limit, buffer, file, closed, asleep>>

-----------------------------------------------------------------------------
(* The writer thread. *)
Take ==
    /\ writer = "wait"
    /\ Writer \notin asleep
    /\ \/ /\ queue = <<>>
          /\ asleep' = asleep \cup {Writer}
          /\ UNCHANGED <<queue, queuedBytes, writer, batch>>
       \/ /\ queue # <<>>
          /\ batch' = queue
          /\ queue' = <<>>
          /\ queuedBytes' = 0
          /\ NotifyAll
          /\ writer' = "write"
    /\ UNCHANGED <<pc, limit, accepted, disk, closed, error, finished, signalled>>

(* Mutant: the waiting flushers are released before the write. *)
WriteAfterSignal ==
    /\ writer = "write"
    /\ signalled' = signalled \cup {f \in Flushers : \E i \in 1..Len(batch) : batch[i] = f}
    /\ \/ /\ disk' = disk \o Records(batch)
          /\ writer' = "signal"
       \/ /\ Records(batch) # <<>>
          /\ \E n \in 0..(Len(Records(batch)) - 1) : disk' = disk \o SubSeq(Records(batch), 1, n)
          /\ writer' = "failing"
    /\ UNCHANGED <<pc, limit, buffer, closed, error, finished, batch, asleep>>

(* All data of the batch in one write, which may fail part of the way. *)
Write ==
    /\ writer = "write"
    /\ \/ /\ disk' = disk \o Records(batch)
          /\ writer' = "signal"
       \/ /\ Records(batch) # <<>>
          /\ \E n \in 0..(Len(Records(batch)) - 1) : disk' = disk \o SubSeq(Records(batch), 1, n)
          /\ writer' = "failing"
    /\ UNCHANGED <<pc, limit, buffer, closed, error, finished, batch, signalled, asleep>>

(* The events of the batch are set; the stop entry, if the batch has one,  *)
(* is its last.                                                            *)
Signal ==
    /\ writer = "signal"
    /\ signalled' = signalled \cup {f \in Flushers : \E i \in 1..Len(batch) : batch[i] = f}
    /\ writer' = IF batch[Len(batch)] = Stop THEN "leaving" ELSE "wait"
    /\ batch' = <<>>
    /\ UNCHANGED <<pc, limit, buffer, disk, closed, error, finished, asleep>>

(* except BaseException *)
Fail ==
    /\ writer = "failing"
    /\ error' = TRUE
    /\ NotifyAll
    /\ writer' = "leaving"
    /\ UNCHANGED <<pc, limit, buffer, disk, closed, finished, batch, signalled>>

(* finally *)
LeaveWriter ==
    /\ writer = "leaving"
    /\ finished' = TRUE
    /\ writer' = "ended"
    /\ UNCHANGED <<pc, limit, buffer, disk, closed, error, batch, signalled, asleep>>

-----------------------------------------------------------------------------
(* Every call has ended, and the writer waits for more or is gone. *)
Quiet ==
    /\ \A c \in Callers : pc[c] \notin {"blocked", "waiting", "joining"}
    /\ writer = "ended" \/ Writer \in asleep
    /\ UNCHANGED vars

WriterStep == Take \/ Write \/ Signal \/ Fail \/ LeaveWriter

Next ==
    \/ \E p \in Producers : AppendRecord(p)
    \/ \E f \in Flushers : FlushBegin(f) \/ FlushEnd(f)
    \/ \E c \in Closers : CloseBegin(c) \/ CloseEnd(c)
    \/ WriterStep
    \/ Quiet

Spec == Init /\ [][Next]_vars

(* Threads run and every call that has begun goes on; nobody has to call   *)
(* append(), flush() or close().                                           *)
FairSpec ==
    /\ Spec
    /\ WF_vars(WriterStep)
    /\ \A p \in Producers : WF_vars(pc[p] = "blocked" /\ AppendRecord(p))
    /\ \A f \in Flushers : WF_vars(FlushEnd(f))
    /\ \A c \in Closers : WF_vars(CloseEnd(c))

-----------------------------------------------------------------------------
(* Nobody sleeps on the condition while what it waits for holds, although  *)
(* flush() wakes only one of the waiting threads, whichever that is.       *)
NoLostWakeup ==
    /\ Writer \in asleep => queue = <<>>
    /\ \A p \in Producers \cap asleep : ~Room(p) /\ ~closed /\ ~error

-----------------------------------------------------------------------------
(* What the journal promises. *)

Outcome(place) ==
    CASE place \in {"blocked", "waiting", "joining"} -> "pending"
      [] place \in {"accepted", "flushed", "closed"} -> "done"
      [] OTHER -> place

Log == INSTANCE DurableLog WITH
    log <- accepted, stable <- disk, mark <- limit, broken <- error,
    call <- [c \in Callers |-> Outcome(pc[c])]

(* JsonJournal, with its queue, its writer thread and its one condition    *)
(* variable, is a DurableLog: the file is always a prefix of what append() *)
(* accepted, a flush() that returns finds there all that was accepted      *)
(* before it, a close() that returns leaves nothing behind, a failed write *)
(* is never reported as success, and every call ends.                      *)
ImplementsDurableLog == Log!Spec
-----------------------------------------------------------------------------
(* Producers to check with: records below, at and above the buffer's size.  *)
MCProducers == {"small", "medium", "large"}
MCSize == [p \in MCProducers |-> CASE p = "small" -> 1 [] p = "medium" -> 2 [] p = "large" -> 3]
=============================================================================
