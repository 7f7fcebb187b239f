------------------------- MODULE JsonJournalProofs -------------------------
(***************************************************************************)
(* For any number of callers, any record sizes and any buffer: no wake-up  *)
(* of the journal is lost, and the journal implements DurableLog, but for  *)
(* its liveness.                                                           *)
(*                                                                         *)
(* flush() wakes one thread only.  That suffices because the writer never  *)
(* sleeps together with a producer: the writer sleeps on an empty queue,   *)
(* which has room for any record.  NoLostWakeup alone does not say that an *)
(* empty queue holds no bytes, nor that nobody else sleeps; BytesQueued    *)
(* and Sleepers do.                                                        *)
(***************************************************************************)
EXTENDS JsonJournal, SequenceTheorems, FiniteSetTheorems, NaturalsInduction,
        WellFoundedInduction, TLAPS

QueueTyped ==
    /\ queue \in Seq(Callers \cup {Stop})
    /\ queuedBytes \in Nat

BytesQueued == queue = <<>> => queuedBytes = 0

Sleepers == asleep \subseteq Producers \cup {Writer}

WakeupInv == QueueTyped /\ BytesQueued /\ Sleepers /\ NoLostWakeup

(* The writer and a producer never sleep at the same time. *)
LEMMA WriterSleepsAlone ==
    ASSUME WakeupInv, Writer \in asleep
    PROVE  asleep = {Writer}
BY DEF WakeupInv, BytesQueued, Sleepers, NoLostWakeup, Room

(* Only the queue's first record is accepted without regard to its size,   *)
(* and only the writer empties the queue.                                  *)
LEMMA QueueStep ==
    ASSUME QueueTyped, BytesQueued, [Next]_vars
    PROVE  QueueTyped' /\ BytesQueued'
<1> USE JournalConstants DEF QueueTyped, BytesQueued, buffer, file
<1>1. ASSUME NEW p \in Producers, AppendRecord(p) PROVE QueueTyped' /\ BytesQueued'
  <2>1. \/ UNCHANGED <<queue, queuedBytes>>
        \/ queue' = Append(queue, p) /\ queuedBytes' = queuedBytes + Size[p]
    BY <1>1 DEF AppendRecord
  <2>2. p \in Callers \cup {Stop}
    BY DEF Callers
  <2>3. Size[p] \in Nat
    OBVIOUS
  <2>4. CASE UNCHANGED <<queue, queuedBytes>>
    BY <2>4
  <2>5. CASE queue' = Append(queue, p) /\ queuedBytes' = queuedBytes + Size[p]
    BY <2>2, <2>3, <2>5, AppendProperties
  <2> QED
    BY <2>1, <2>4, <2>5
<1>2. ASSUME NEW f \in Flushers, FlushBegin(f) \/ FlushEnd(f)
      PROVE  QueueTyped' /\ BytesQueued'
  <2>1. queuedBytes' = queuedBytes /\ (queue' = queue \/ queue' = Append(queue, f))
    BY <1>2 DEF FlushBegin, FlushEnd
  <2>2. f \in Callers \cup {Stop}
    BY DEF Callers
  <2> QED
    BY <2>1, <2>2, AppendProperties
<1>3. ASSUME NEW c \in Closers, CloseBegin(c) \/ CloseEnd(c)
      PROVE  QueueTyped' /\ BytesQueued'
  <2>1. queuedBytes' = queuedBytes /\ (queue' = queue \/ queue' = Append(queue, Stop))
    BY <1>3 DEF CloseBegin, CloseEnd
  <2> QED
    BY <2>1, AppendProperties
<1>4. CASE WriterStep
  <2>1. UNCHANGED <<queue, queuedBytes>> \/ (queue' = <<>> /\ queuedBytes' = 0)
    BY <1>4 DEF WriterStep, Take, Write, Signal, Fail, LeaveWriter
  <2>2. <<>> \in Seq(Callers \cup {Stop})
    BY EmptySeq
  <2>3. CASE UNCHANGED <<queue, queuedBytes>>
    BY <2>3
  <2>4. CASE queue' = <<>> /\ queuedBytes' = 0
    BY <2>2, <2>4
  <2> QED
    BY <2>1, <2>3, <2>4
<1>5. CASE Quiet \/ UNCHANGED vars
  BY <1>5 DEF Quiet, vars
<1> QED
  BY <1>1, <1>2, <1>3, <1>4, <1>5 DEF Next

LEMMA SleepersStep ==
    ASSUME Sleepers, [Next]_vars
    PROVE  Sleepers'
<1> USE DEF Sleepers, buffer, file, NotifyAll
<1>1. CASE \E p \in Producers : AppendRecord(p)
  BY <1>1 DEF AppendRecord
<1>2. CASE \E f \in Flushers : FlushBegin(f) \/ FlushEnd(f)
  BY <1>2 DEF FlushBegin, FlushEnd, Notify
<1>3. CASE \E c \in Closers : CloseBegin(c) \/ CloseEnd(c)
  BY <1>3 DEF CloseBegin, CloseEnd
<1>4. CASE WriterStep
  BY <1>4 DEF WriterStep, Take, Write, Signal, Fail, LeaveWriter
<1>5. CASE Quiet \/ UNCHANGED vars
  BY <1>5 DEF Quiet, vars
<1> QED
  BY <1>1, <1>2, <1>3, <1>4, <1>5 DEF Next

LEMMA WakeupStep ==
    ASSUME WakeupInv, [Next]_vars
    PROVE  NoLostWakeup'
<1> USE JournalConstants DEF WakeupInv, NoLostWakeup, Room, buffer, file, NotifyAll
<1>1. ASSUME NEW p \in Producers, AppendRecord(p) PROVE NoLostWakeup'
  <2>1. Writer # p
    BY DEF Callers
  <2>2. CASE asleep' = {}
    BY <2>2
  <2>3. CASE UNCHANGED <<buffer, asleep, closed, error>>
    BY <2>3
  <2>4. CASE /\ ~error /\ ~closed /\ ~Room(p)
             /\ asleep' = asleep \cup {p}
             /\ UNCHANGED <<buffer, closed, error>>
    BY <2>1, <2>4
  <2> QED
    BY <1>1, <2>2, <2>3, <2>4 DEF AppendRecord
<1>2. ASSUME NEW f \in Flushers, FlushBegin(f) PROVE NoLostWakeup'
  <2>1. CASE UNCHANGED <<queue, asleep>>
    BY <1>2, <2>1 DEF FlushBegin
  <2>2. CASE Notify
    <3>1. Writer \notin asleep' /\ asleep' \subseteq asleep
      BY <2>2, WriterSleepsAlone DEF Notify
    <3> QED
      BY <1>2, <3>1 DEF FlushBegin
  <2> QED
    BY <1>2, <2>1, <2>2 DEF FlushBegin
<1>3. ASSUME NEW c \in Closers, CloseBegin(c) PROVE NoLostWakeup'
  BY <1>3 DEF CloseBegin
<1>4. CASE (\E f \in Flushers : FlushEnd(f)) \/ (\E c \in Closers : CloseEnd(c))
  BY <1>4 DEF FlushEnd, CloseEnd
<1>5. CASE Take
  <2>1. Writer \notin Producers
    BY DEF Callers
  <2> QED
    BY <1>5, <2>1 DEF Take
<1>6. CASE Write \/ Signal \/ Fail \/ LeaveWriter
  BY <1>6 DEF Write, Signal, Fail, LeaveWriter
<1>7. CASE Quiet \/ UNCHANGED vars
  BY <1>7 DEF Quiet, vars
<1> QED
  BY <1>1, <1>2, <1>3, <1>4, <1>5, <1>6, <1>7 DEF Next, WriterStep

(* Nobody sleeps on the journal's condition variable while what it waits   *)
(* for holds: append(), flush(), close() and the writer wake whom they     *)
(* must, whatever order they run in.                                       *)
THEOREM WakeupsNeverLost == Spec => []NoLostWakeup
<1>1. Init => WakeupInv
  BY JournalConstants
     DEF Init, WakeupInv, QueueTyped, BytesQueued, Sleepers, NoLostWakeup
<1>2. WakeupInv /\ [Next]_vars => WakeupInv'
  BY QueueStep, SleepersStep, WakeupStep DEF WakeupInv
<1>3. WakeupInv => NoLostWakeup
  BY DEF WakeupInv
<1> QED
  BY <1>1, <1>2, <1>3, PTL DEF Spec

-----------------------------------------------------------------------------
(* The records among the entries of a queue. *)

(* As many records as are counted can be found: the k-th is the first      *)
(* position up to which there are k.                                       *)
LEMMA RankedExists ==
    ASSUME NEW S, NEW s \in Seq(S), NEW k \in 1..Cardinality(RecordsAt(s))
    PROVE  Ranked(s, k) # {}
<1> DEFINE at == RecordsAt(s)
           Upto(i) == {j \in at : j <= i}
           T == {i \in 1..Len(s) : Cardinality(Upto(i)) >= k}
<1>1. Len(s) \in Nat /\ at \subseteq 1..Len(s)
  BY DEF RecordsAt
<1>2. IsFiniteSet(at) /\ Cardinality(at) \in Nat
  <2>1. IsFiniteSet(1..Len(s))
    BY <1>1, FS_Interval
  <2> QED
    BY <1>1, <2>1, FS_Subset, FS_CardinalityType
<1> HIDE DEF at
<1>3. ASSUME NEW i PROVE IsFiniteSet(Upto(i)) /\ Cardinality(Upto(i)) \in Nat
  <2>1. Upto(i) \subseteq at
    OBVIOUS
  <2> QED
    BY <1>2, <2>1, FS_Subset, FS_CardinalityType
<1>4. k \in Nat /\ 1 <= k /\ k <= Cardinality(at)
  BY <1>2 DEF at
<1>5. Len(s) \in T
  <2>1. Upto(Len(s)) = at
    <3>1. \A j \in at : j <= Len(s)
      BY <1>1
    <3> QED
      BY <3>1
  <2>2. Len(s) # 0
    <3> SUFFICES ASSUME Len(s) = 0 PROVE FALSE
      OBVIOUS
    <3>1. at = {}
      BY <1>1
    <3> QED
      BY <1>2, <1>4, <3>1, FS_EmptySet
  <2> QED
    <3>1. Len(s) \in 1..Len(s)
      BY <1>1, <2>2
    <3>2. Cardinality(Upto(Len(s))) >= k
      BY <1>2, <1>4, <2>1
    <3> QED
      BY <3>1, <3>2
<1> HIDE DEF Upto
<1>6. PICK i \in T : \A m \in T : ~(m < i)
  <2>1. T \subseteq Nat
    BY <1>1
  <2>2. PICK i \in T : \A m \in Nat : <<m, i>> \in OpToRel(<, Nat) => m \notin T
    BY <1>5, <2>1, NatLessThanWellFounded, WFMin
  <2> QED
    BY <2>1, <2>2 DEF OpToRel
<1>7. i \in 1..Len(s) /\ Cardinality(Upto(i)) >= k
  BY <1>6
<1>8. Cardinality(Upto(i - 1)) < k
  <2>1. CASE i = 1
    <3>1. \A j \in at : ~(j <= i - 1)
      BY <1>1, <2>1
    <3>2. Upto(i - 1) = {}
      BY <3>1 DEF Upto
    <3>3. Cardinality(Upto(i - 1)) = 0
      BY <3>2, FS_EmptySet
    <3> QED
      BY <1>4, <3>3
  <2>2. CASE i # 1
    <3>1. i - 1 \in 1..Len(s) /\ i - 1 < i
      BY <1>1, <1>7, <2>2
    <3>2. i - 1 \notin T
      BY <1>6, <3>1
    <3> QED
      BY <1>3, <1>4, <3>1, <3>2
  <2> QED
    BY <2>1, <2>2
<1>9. CASE i \notin at
  <2>1. Upto(i) = Upto(i - 1)
    <3>1. \A j \in at : j <= i <=> j <= i - 1
      BY <1>1, <1>7, <1>9
    <3> QED
      BY <3>1 DEF Upto
  <2> QED
    BY <1>3, <1>4, <1>7, <1>8, <2>1
<1>10. CASE i \in at
  <2>1. Upto(i) = Upto(i - 1) \cup {i} /\ i \notin Upto(i - 1)
    <3>1. \A j \in at : j <= i <=> j <= i - 1 \/ j = i
      BY <1>1, <1>7
    <3>2. ~(i <= i - 1) /\ i <= i
      BY <1>7
    <3> QED
      BY <1>10, <3>1, <3>2 DEF Upto
  <2>2. Cardinality(Upto(i)) = Cardinality(Upto(i - 1)) + 1
    BY <1>3, <2>1, FS_AddElement
  <2>3. Cardinality(Upto(i)) = k
    BY <1>3, <1>4, <1>7, <1>8, <2>2
  <2>4. i \in Ranked(s, k)
    BY <1>10, <2>3 DEF Ranked, Upto, at
  <2> QED
    BY <2>4
<1> QED
  BY <1>9, <1>10

LEMMA RecordsTyped ==
    ASSUME NEW S, NEW s \in Seq(S)
    PROVE  /\ IsFiniteSet(RecordsAt(s)) /\ Cardinality(RecordsAt(s)) \in Nat
           /\ Records(s) \in Seq(Producers) /\ Len(Records(s)) = Cardinality(RecordsAt(s))
<1>1. RecordsAt(s) \subseteq 1..Len(s) /\ Len(s) \in Nat
  BY DEF RecordsAt
<1>2. IsFiniteSet(RecordsAt(s)) /\ Cardinality(RecordsAt(s)) \in Nat
  <2>1. IsFiniteSet(1..Len(s))
    BY <1>1, FS_Interval
  <2> QED
    BY <1>1, <2>1, FS_Subset, FS_CardinalityType
<1>3. ASSUME NEW k \in 1..Cardinality(RecordsAt(s))
      PROVE  s[CHOOSE i \in Ranked(s, k) : TRUE] \in Producers
  <2>1. (CHOOSE i \in Ranked(s, k) : TRUE) \in Ranked(s, k)
    BY RankedExists
  <2> QED
    BY <2>1 DEF Ranked, RecordsAt, IsRecord
<1>4. Records(s) \in [1..Cardinality(RecordsAt(s)) -> Producers]
  BY <1>3 DEF Records
<1> QED
  BY <1>2, <1>4

LEMMA RecordsEmpty == Records(<<>>) = <<>>
<1>1. RecordsAt(<<>>) = {}
  BY DEF RecordsAt
<1>2. Cardinality(RecordsAt(<<>>)) = 0
  BY <1>1, FS_EmptySet
<1>3. <<>> \in Seq({})
  OBVIOUS
<1>4. Records(<<>>) \in Seq(Producers) /\ Len(Records(<<>>)) = 0
  BY <1>2, <1>3, RecordsTyped
<1> QED
  BY <1>4

(* An entry that is not a record adds none, a record adds itself. *)
LEMMA RecordsAppend ==
    ASSUME NEW S, NEW s \in Seq(S), NEW x \in S
    PROVE  Records(Append(s, x)) = IF x \in Producers THEN Append(Records(s), x) ELSE Records(s)
<1> DEFINE t == Append(s, x)
           n == Len(s) + 1
<1>1. /\ t \in Seq(S) /\ Len(t) = n /\ t[n] = x /\ Len(s) \in Nat
      /\ \A i \in 1..Len(s) : t[i] = s[i]
  OBVIOUS
<1> HIDE DEF t
<1>2. RecordsAt(s) \subseteq 1..Len(s)
  BY DEF RecordsAt
<1>3. /\ IsFiniteSet(RecordsAt(s)) /\ Cardinality(RecordsAt(s)) \in Nat
      /\ Records(s) \in Seq(Producers) /\ Len(Records(s)) = Cardinality(RecordsAt(s))
      /\ Records(t) \in Seq(Producers) /\ Len(Records(t)) = Cardinality(RecordsAt(t))
  BY <1>1, RecordsTyped
<1>4. \A k \in 1..Cardinality(RecordsAt(s)) :
         /\ (CHOOSE i \in Ranked(s, k) : TRUE) \in 1..Len(s)
         /\ Records(s)[k] = s[CHOOSE i \in Ranked(s, k) : TRUE]
  BY <1>2, RankedExists DEF Ranked, Records
<1>5. CASE x \notin Producers
  <2>1. RecordsAt(t) = RecordsAt(s)
    BY <1>1, <1>5 DEF RecordsAt, IsRecord
  <2>2. \A k : Ranked(t, k) = Ranked(s, k)
    BY <2>1 DEF Ranked
  <2>3. \A k \in 1..Cardinality(RecordsAt(s)) : Records(t)[k] = Records(s)[k]
    <3> TAKE k \in 1..Cardinality(RecordsAt(s))
    <3>1. Records(t)[k] = t[CHOOSE i \in Ranked(t, k) : TRUE]
      BY <2>1 DEF Records
    <3>2. Records(t)[k] = t[CHOOSE i \in Ranked(s, k) : TRUE]
      BY <2>2, <3>1
    <3> QED
      BY <1>1, <1>4, <3>2
  <2>4. Records(t) = Records(s)
    BY <1>3, <2>1, <2>3
  <2> QED
    BY <1>5, <2>4 DEF t
<1>6. CASE x \in Producers
  <2>1. RecordsAt(t) = RecordsAt(s) \cup {n} /\ n \notin RecordsAt(s)
    BY <1>1, <1>2, <1>6 DEF RecordsAt, IsRecord
  <2>2. Cardinality(RecordsAt(t)) = Cardinality(RecordsAt(s)) + 1
    BY <1>3, <2>1, FS_AddElement
  <2>3. \A i \in RecordsAt(s) : {j \in RecordsAt(t) : j <= i} = {j \in RecordsAt(s) : j <= i}
    BY <1>1, <1>2, <2>1
  <2>4. {j \in RecordsAt(t) : j <= n} = RecordsAt(t)
    BY <1>1, <1>2, <2>1
  <2>5. ASSUME NEW k \in 1..Cardinality(RecordsAt(s)) PROVE Ranked(t, k) = Ranked(s, k)
    <3>1. n \notin Ranked(t, k)
      <4>1. Cardinality({j \in RecordsAt(t) : j <= n}) # k
        <5>1. Cardinality(RecordsAt(t)) # k
          BY <1>3, <2>2
        <5> QED
          BY <2>4, <5>1
      <4> QED
        BY <4>1 DEF Ranked
    <3> QED
      BY <2>1, <2>3, <3>1 DEF Ranked
  <2>6. \A k \in 1..Cardinality(RecordsAt(s)) : Records(t)[k] = Records(s)[k]
    BY <1>1, <1>3, <1>4, <2>2, <2>5 DEF Records
  <2>7. Ranked(t, Cardinality(RecordsAt(t))) = {n}
    <3>1. \A i \in RecordsAt(s) : Cardinality({j \in RecordsAt(s) : j <= i}) <= Cardinality(RecordsAt(s))
      <4> TAKE i \in RecordsAt(s)
      <4>1. {j \in RecordsAt(s) : j <= i} \subseteq RecordsAt(s)
        OBVIOUS
      <4> QED
        BY <1>3, <4>1, FS_Subset
    <3>2. \A i \in RecordsAt(s) : Cardinality({j \in RecordsAt(s) : j <= i}) \in Nat
      <4> TAKE i \in RecordsAt(s)
      <4>1. {j \in RecordsAt(s) : j <= i} \subseteq RecordsAt(s)
        OBVIOUS
      <4> QED
        BY <1>3, <4>1, FS_Subset, FS_CardinalityType
    <3>3. \A i \in RecordsAt(s) : i \notin Ranked(t, Cardinality(RecordsAt(t)))
      BY <1>3, <2>2, <2>3, <3>1, <3>2 DEF Ranked
    <3>4. n \in Ranked(t, Cardinality(RecordsAt(t)))
      BY <2>1, <2>4 DEF Ranked
    <3> QED
      BY <2>1, <3>3, <3>4 DEF Ranked
  <2>8. Records(t)[Cardinality(RecordsAt(s)) + 1] = x
    <3>1. (CHOOSE i \in Ranked(t, Cardinality(RecordsAt(t))) : TRUE) = n
      BY <2>7
    <3>2. Cardinality(RecordsAt(t)) \in 1..Cardinality(RecordsAt(t))
      BY <1>3, <2>2
    <3>3. Records(t)[Cardinality(RecordsAt(t))] = t[n]
      BY <3>1, <3>2 DEF Records
    <3> QED
      BY <1>1, <2>2, <3>3
  <2>9. Records(t) = Append(Records(s), x)
    BY <1>3, <1>6, <2>2, <2>6, <2>8
  <2> QED
    BY <1>6, <2>9 DEF t
<1> QED
  BY <1>5, <1>6
-----------------------------------------------------------------------------
(* The journal implements DurableLog.                                      *)
(*                                                                         *)
(* The refinement needs to know where the accepted records are while they  *)
(* are not in the file: in the batch being written, then in the queue.     *)
(* Only a failed write breaks that, and then the writer never runs again.  *)

(* What the writer has taken and not yet written. *)
InFlight == IF writer = "write" THEN Records(batch) ELSE <<>>

Entries == Callers \cup {Stop}

In(x, s) == \E i \in 1..Len(s) : s[i] = x

JournalTyped ==
    /\ pc \in [Callers -> {"idle", "blocked", "waiting", "joining", "accepted",
                           "flushed", "closed", "refused", "failed"}]
    /\ limit \in [Flushers -> Nat]
    /\ queue \in Seq(Entries) /\ batch \in Seq(Entries)
    /\ accepted \in Seq(Producers) /\ disk \in Seq(Producers)
    /\ writer \in {"wait", "write", "signal", "failing", "leaving", "ended"}
    /\ error \in BOOLEAN /\ finished \in BOOLEAN /\ closed \in BOOLEAN

(* A failed write ends the writer, and nothing else does but the stop      *)
(* entry.                                                                  *)
WriterPhases ==
    /\ error => writer \in {"leaving", "ended"}
    /\ finished => writer = "ended"
    /\ writer \in {"write", "signal"} => batch # <<>>

(* Every accepted record is on its way to the file, in order. *)
RecordsInOrder ==
    /\ ~error /\ writer # "failing" => accepted = (disk \o InFlight) \o Records(queue)
    /\ writer = "failing" => Len(disk) < Len(accepted)

(* The stop entry comes after every other, and only it ends the writer of  *)
(* a journal that has not failed.                                          *)
StopIsLast ==
    /\ queue # <<>> /\ queue[Len(queue)] = Stop => closed
    /\ writer \in {"write", "signal"} /\ batch[Len(batch)] = Stop => closed /\ queue = <<>>
    /\ writer \in {"leaving", "ended"} /\ ~error => closed /\ queue = <<>>

(* A flusher's event is set after all that was accepted before its flush() *)
(* is in the file.                                                         *)
EventAfterData(f) ==
    /\ limit[f] <= Len(accepted)
    /\ pc[f] = "idle" => ~In(f, queue) /\ ~In(f, batch) /\ f \notin signalled
    /\ writer \in {"write", "signal"} /\ In(f, batch) => limit[f] <= Len(disk \o InFlight)
    /\ f \in signalled => limit[f] <= Len(disk)

EventsAfterData == \A f \in Flushers : EventAfterData(f)

JournalInv == JournalTyped /\ WriterPhases /\ RecordsInOrder /\ StopIsLast /\ EventsAfterData

(* Facts about sequences the steps rest on. *)
LEMMA ConcatAppend ==
    ASSUME NEW S, NEW s \in Seq(S), NEW t \in Seq(S), NEW x \in S
    PROVE  s \o Append(t, x) = Append(s \o t, x)
<1>1. Append(t, x) \in Seq(S) /\ s \o t \in Seq(S)
  BY AppendProperties, ConcatProperties
<1>2. s \o Append(t, x) \in Seq(S) /\ Append(s \o t, x) \in Seq(S)
  BY <1>1, AppendProperties, ConcatProperties
<1>3. Len(s \o Append(t, x)) = Len(s) + Len(t) + 1 /\ Len(Append(s \o t, x)) = Len(s) + Len(t) + 1
  OBVIOUS
<1>4. \A i \in 1..(Len(s) + Len(t) + 1) : (s \o Append(t, x))[i] = Append(s \o t, x)[i]
  OBVIOUS
<1> QED
  BY <1>2, <1>3, <1>4

LEMMA PrefixOfConcat ==
    ASSUME NEW S, NEW s \in Seq(S), NEW t \in Seq(S), NEW u \in Seq(S), NEW n \in 0..Len(t)
    PROVE  /\ s \o SubSeq(t, 1, n) \in Seq(S) /\ Len(s \o SubSeq(t, 1, n)) = Len(s) + n
           /\ Log!IsPrefix(s, s \o SubSeq(t, 1, n))
           /\ Log!IsPrefix(s \o SubSeq(t, 1, n), (s \o t) \o u)
<1> DEFINE v == SubSeq(t, 1, n)
<1>1. v \in Seq(S) /\ Len(v) = n /\ \A i \in 1..n : v[i] = t[i]
  OBVIOUS
<1> HIDE DEF v
<1>2. /\ s \o v \in Seq(S) /\ Len(s \o v) = Len(s) + n
      /\ \A i \in 1..Len(s) : (s \o v)[i] = s[i]
      /\ \A i \in 1..(Len(s) + n) : (s \o v)[i] = ((s \o t) \o u)[i]
  <2>1. /\ s \o v \in Seq(S) /\ Len(s \o v) = Len(s) + n
        /\ \A i \in 1..(Len(s) + n) : (s \o v)[i] = IF i <= Len(s) THEN s[i] ELSE v[i - Len(s)]
    BY <1>1, ConcatProperties
  <2>2. /\ s \o t \in Seq(S) /\ Len(s \o t) = Len(s) + Len(t)
        /\ \A i \in 1..(Len(s) + Len(t)) : (s \o t)[i] = IF i <= Len(s) THEN s[i] ELSE t[i - Len(s)]
    BY ConcatProperties
  <2>3. \A i \in 1..(Len(s) + Len(t)) : ((s \o t) \o u)[i] = (s \o t)[i]
    BY <2>2
  <2>4. \A i \in 1..Len(s) : (s \o v)[i] = s[i]
    BY <1>1, <2>1
  <2>5. ASSUME NEW i \in 1..(Len(s) + n) PROVE (s \o v)[i] = ((s \o t) \o u)[i]
    <3>1. i \in 1..(Len(s) + Len(t))
      OBVIOUS
    <3>2. CASE i <= Len(s)
      BY <2>1, <2>2, <2>3, <3>1, <3>2
    <3>3. CASE ~(i <= Len(s))
      <4>1. i - Len(s) \in 1..n
        BY <3>3
      <4> QED
        BY <1>1, <2>1, <2>2, <2>3, <3>1, <3>3, <4>1
    <3> QED
      BY <3>2, <3>3
  <2> QED
    BY <2>1, <2>4, <2>5
<1>3. (s \o t) \o u \in Seq(S) /\ Len((s \o t) \o u) = Len(s) + Len(t) + Len(u)
  OBVIOUS
<1>4. Log!IsPrefix(s, s \o v)
  BY <1>1, <1>2 DEF Log!IsPrefix
<1>5. Log!IsPrefix(s \o v, (s \o t) \o u)
  BY <1>1, <1>2, <1>3 DEF Log!IsPrefix
<1> QED
  BY <1>2, <1>4, <1>5 DEF v

LEMMA JournalInit == Init => JournalInv
<1> SUFFICES ASSUME Init PROVE JournalInv
  OBVIOUS
<1> USE JournalConstants DEF Init
<1>1. JournalTyped
  <2>1. <<>> \in Seq(Entries) /\ <<>> \in Seq(Producers)
    OBVIOUS
  <2> QED
    BY <2>1 DEF JournalTyped
<1>2. WriterPhases
  BY DEF WriterPhases
<1>3. RecordsInOrder
  BY RecordsEmpty DEF RecordsInOrder, InFlight
<1>4. StopIsLast
  BY DEF StopIsLast
<1>5. EventsAfterData
  BY DEF EventsAfterData, EventAfterData, In
<1> QED
  BY <1>1, <1>2, <1>3, <1>4, <1>5 DEF JournalInv

LEMMA JournalTypedStep ==
    ASSUME JournalTyped, [Next]_vars
    PROVE  JournalTyped'
<1> USE DEF JournalTyped, Goto, buffer, file
<1>0. <<>> \in Seq(Entries)
  OBVIOUS
<1>1. ASSUME NEW p \in Producers, AppendRecord(p) PROVE JournalTyped'
  <2>1. p \in Callers /\ p \in Entries
    BY DEF Callers, Entries
  <2>2. \/ UNCHANGED <<queue, accepted>>
        \/ queue' = Append(queue, p) /\ accepted' = Append(accepted, p)
    BY <1>1 DEF AppendRecord
  <2>3. queue' \in Seq(Entries) /\ accepted' \in Seq(Producers)
    <3>1. Append(queue, p) \in Seq(Entries) /\ Append(accepted, p) \in Seq(Producers)
      BY <2>1, AppendProperties
    <3> QED
      BY <2>2, <3>1
  <2> QED
    BY <1>1, <2>1, <2>3 DEF AppendRecord
<1>2. ASSUME NEW f \in Flushers, FlushBegin(f) \/ FlushEnd(f) PROVE JournalTyped'
  <2>1. f \in Callers /\ f \in Entries
    BY DEF Callers, Entries
  <2>2. queue' \in Seq(Entries)
    <3>1. queue' = queue \/ queue' = Append(queue, f)
      BY <1>2 DEF FlushBegin, FlushEnd
    <3>2. Append(queue, f) \in Seq(Entries)
      BY <2>1, AppendProperties
    <3> QED
      BY <3>1, <3>2
  <2>3. limit' \in [Flushers -> Nat]
    <3>1. Len(accepted) \in Nat
      OBVIOUS
    <3> QED
      BY <1>2, <3>1 DEF FlushBegin, FlushEnd
  <2> QED
    BY <1>2, <2>1, <2>2, <2>3 DEF FlushBegin, FlushEnd
<1>3. ASSUME NEW c \in Closers, CloseBegin(c) \/ CloseEnd(c) PROVE JournalTyped'
  <2>1. c \in Callers /\ Stop \in Entries
    BY DEF Callers, Entries
  <2>2. queue' \in Seq(Entries)
    <3>1. queue' = queue \/ queue' = Append(queue, Stop)
      BY <1>3 DEF CloseBegin, CloseEnd
    <3>2. Append(queue, Stop) \in Seq(Entries)
      BY <2>1, AppendProperties
    <3> QED
      BY <3>1, <3>2
  <2> QED
    BY <1>3, <2>1, <2>2 DEF CloseBegin, CloseEnd
<1>4. CASE Take
  BY <1>0, <1>4 DEF Take
<1>5. CASE Write
  <2>1. Records(batch) \in Seq(Producers)
    BY RecordsTyped
  <2>2. disk' \in Seq(Producers)
    <3>1. CASE disk' = disk \o Records(batch)
      BY <2>1, <3>1, ConcatProperties
    <3>2. CASE \E n \in 0..(Len(Records(batch)) - 1) : disk' = disk \o SubSeq(Records(batch), 1, n)
      <4>1. PICK n \in 0..(Len(Records(batch)) - 1) : disk' = disk \o SubSeq(Records(batch), 1, n)
        BY <3>2
      <4>2. n \in 0..Len(Records(batch)) /\ <<>> \in Seq(Producers)
        BY <2>1
      <4> QED
        BY <2>1, <4>1, <4>2, PrefixOfConcat
    <3> QED
      BY <1>5, <3>1, <3>2 DEF Write
  <2> QED
    BY <1>5, <2>2 DEF Write
<1>6. CASE Signal \/ Fail \/ LeaveWriter
  BY <1>0, <1>6 DEF Signal, Fail, LeaveWriter
<1>7. CASE Quiet \/ UNCHANGED vars
  BY <1>7 DEF Quiet, vars
<1> QED
  BY <1>1, <1>2, <1>3, <1>4, <1>5, <1>6, <1>7 DEF Next, WriterStep

LEMMA WriterPhasesStep ==
    ASSUME JournalTyped, WriterPhases, [Next]_vars
    PROVE  WriterPhases'
<1> USE DEF WriterPhases, buffer, file
<1>1. CASE \/ \E p \in Producers : AppendRecord(p)
           \/ \E f \in Flushers : FlushBegin(f) \/ FlushEnd(f)
           \/ \E c \in Closers : CloseBegin(c) \/ CloseEnd(c)
           \/ Quiet \/ UNCHANGED vars
  <2>1. UNCHANGED <<writer, batch, error, finished>>
    BY <1>1 DEF AppendRecord, FlushBegin, FlushEnd, CloseBegin, CloseEnd, Quiet, vars
  <2> QED
    BY <2>1
<1>2. CASE Take \/ Write \/ Signal
  BY <1>2 DEF JournalTyped, Take, Write, Signal
<1>3. CASE Fail \/ LeaveWriter
  BY <1>3 DEF JournalTyped, Fail, LeaveWriter
<1> QED
  BY <1>1, <1>2, <1>3 DEF Next, WriterStep

(* append() puts its record behind all others; taking the queue and        *)
(* writing the batch move records without changing their order.            *)
LEMMA RecordsInOrderStep ==
    ASSUME JournalTyped, WriterPhases, RecordsInOrder, [Next]_vars
    PROVE  RecordsInOrder'
<1> USE DEF buffer, file
<1>0. /\ Records(batch) \in Seq(Producers) /\ Records(queue) \in Seq(Producers)
      /\ InFlight \in Seq(Producers) /\ disk \o InFlight \in Seq(Producers)
      /\ disk \in Seq(Producers) /\ accepted \in Seq(Producers)
      /\ queue \in Seq(Entries) /\ batch \in Seq(Entries)
  <2>1. Records(batch) \in Seq(Producers) /\ Records(queue) \in Seq(Producers)
    BY RecordsTyped DEF JournalTyped
  <2>2. InFlight \in Seq(Producers)
    BY <2>1 DEF InFlight
  <2> QED
    BY <2>1, <2>2, ConcatProperties DEF JournalTyped
<1>1. ASSUME NEW p \in Producers, AppendRecord(p) PROVE RecordsInOrder'
  <2>1. UNCHANGED <<disk, writer, batch, error>> /\ InFlight' = InFlight
    BY <1>1 DEF AppendRecord, InFlight
  <2>2. CASE UNCHANGED <<queue, accepted>>
    BY <2>1, <2>2 DEF RecordsInOrder
  <2>3. CASE ~error /\ queue' = Append(queue, p) /\ accepted' = Append(accepted, p)
    <3>1. p \in Entries
      BY DEF Entries, Callers
    <3>2. Records(Append(queue, p)) = Append(Records(queue), p)
      BY <1>0, <3>1, RecordsAppend
    <3>3. Records(queue') = Append(Records(queue), p)
      BY <2>3, <3>2
    <3>4. (disk \o InFlight) \o Append(Records(queue), p)
             = Append((disk \o InFlight) \o Records(queue), p)
      BY <1>0, ConcatAppend
    <3>5. Len(accepted') = Len(accepted) + 1 /\ Len(disk) \in Nat /\ Len(accepted) \in Nat
      BY <1>0, <2>3
    <3>6. ASSUME writer # "failing" PROVE accepted' = (disk' \o InFlight') \o Records(queue')
      <4>1. accepted = (disk \o InFlight) \o Records(queue)
        BY <2>3, <3>6 DEF RecordsInOrder
      <4>2. (disk' \o InFlight') \o Records(queue') = (disk \o InFlight) \o Append(Records(queue), p)
        BY <2>1, <3>3
      <4> QED
        BY <2>3, <3>4, <4>1, <4>2
    <3>7. ASSUME writer = "failing" PROVE Len(disk') < Len(accepted')
      BY <2>1, <3>5, <3>7 DEF RecordsInOrder
    <3> QED
      BY <2>1, <3>6, <3>7 DEF RecordsInOrder
  <2> QED
    BY <1>1, <2>2, <2>3 DEF AppendRecord
<1>2. ASSUME NEW x \in Entries \ Producers,
             UNCHANGED <<disk, writer, batch, error, accepted>>,
             queue' = queue \/ queue' = Append(queue, x)
      PROVE  RecordsInOrder'
  <2>1. InFlight' = InFlight
    BY <1>2 DEF InFlight
  <2>2. Records(Append(queue, x)) = Records(queue)
    BY <1>0, RecordsAppend
  <2>3. Records(queue') = Records(queue)
    BY <1>2, <2>2
  <2> QED
    BY <1>2, <2>1, <2>3 DEF RecordsInOrder
<1>3. ASSUME NEW f \in Flushers, FlushBegin(f) \/ FlushEnd(f) PROVE RecordsInOrder'
  <2>1. f \in Entries \ Producers
    BY JournalConstants DEF Entries, Callers
  <2>2. /\ UNCHANGED <<disk, writer, batch, error, accepted>>
        /\ queue' = queue \/ queue' = Append(queue, f)
    BY <1>3 DEF FlushBegin, FlushEnd
  <2> QED
    BY <1>2, <2>1, <2>2
<1>4. ASSUME NEW c \in Closers, CloseBegin(c) \/ CloseEnd(c) PROVE RecordsInOrder'
  <2>1. Stop \in Entries \ Producers
    BY JournalConstants DEF Entries, Callers
  <2>2. /\ UNCHANGED <<disk, writer, batch, error, accepted>>
        /\ queue' = queue \/ queue' = Append(queue, Stop)
    BY <1>4 DEF CloseBegin, CloseEnd
  <2> QED
    BY <1>2, <2>1, <2>2
<1>5. CASE Take
  <2>1. CASE queue = <<>>
    <3>1. UNCHANGED <<disk, writer, batch, error, accepted, queue>>
      BY <1>5, <2>1 DEF Take
    <3>2. InFlight' = InFlight
      BY <3>1 DEF InFlight
    <3> QED
      BY <3>1, <3>2 DEF RecordsInOrder
  <2>2. CASE queue # <<>>
    <3>1. writer = "wait" /\ ~error /\ InFlight = <<>>
      BY <1>5 DEF Take, WriterPhases, InFlight
    <3>2. accepted = disk \o Records(queue)
      BY <1>0, <3>1, ConcatEmptySeq DEF RecordsInOrder
    <3>3. writer' = "write" /\ batch' = queue /\ queue' = <<>> /\ UNCHANGED <<accepted, disk, error>>
      BY <1>5, <2>2 DEF Take
    <3>4. InFlight' = Records(queue) /\ Records(queue') = <<>>
      BY <3>3, RecordsEmpty DEF InFlight
    <3>5. disk \o Records(queue) \in Seq(Producers)
      BY <1>0, ConcatProperties
    <3>6. (disk \o Records(queue)) \o <<>> = disk \o Records(queue)
      BY <3>5, ConcatEmptySeq
    <3> QED
      BY <3>2, <3>3, <3>4, <3>6 DEF RecordsInOrder
  <2> QED
    BY <2>1, <2>2
<1>6. CASE Write
  <2>1. writer = "write" /\ ~error /\ InFlight = Records(batch) /\ UNCHANGED <<queue, accepted, error>>
    BY <1>6 DEF Write, WriterPhases, InFlight
  <2>2. accepted = (disk \o Records(batch)) \o Records(queue)
    BY <2>1 DEF RecordsInOrder
  <2>3. CASE disk' = disk \o Records(batch) /\ writer' = "signal"
    <3>1. InFlight' = <<>>
      BY <2>3 DEF InFlight
    <3>2. disk' \in Seq(Producers)
      BY <1>0, <2>3, ConcatProperties
    <3>3. disk' \o <<>> = disk'
      BY <3>2, ConcatEmptySeq
    <3> QED
      BY <2>1, <2>2, <2>3, <3>1, <3>3 DEF RecordsInOrder
  <2>4. CASE /\ \E n \in 0..(Len(Records(batch)) - 1) : disk' = disk \o SubSeq(Records(batch), 1, n)
             /\ writer' = "failing"
    <3>1. PICK n \in 0..(Len(Records(batch)) - 1) : disk' = disk \o SubSeq(Records(batch), 1, n)
      BY <2>4
    <3>2. n \in 0..Len(Records(batch)) /\ n < Len(Records(batch))
      BY <1>0
    <3>3. Len(disk') = Len(disk) + n
      BY <1>0, <3>1, <3>2, PrefixOfConcat
    <3>4. Len(accepted) = Len(disk) + Len(Records(batch)) + Len(Records(queue))
      BY <1>0, <2>2
    <3>5. Len(disk') < Len(accepted')
      BY <1>0, <2>1, <3>2, <3>3, <3>4
    <3> QED
      BY <2>4, <3>5 DEF RecordsInOrder
  <2> QED
    BY <1>6, <2>3, <2>4 DEF Write
<1>7. CASE Signal \/ Fail \/ LeaveWriter
  <2>1. /\ UNCHANGED <<disk, accepted, queue>> /\ writer' # "failing"
        /\ writer # "write" /\ writer' # "write"
        /\ ~error' => ~error /\ writer # "failing"
    BY <1>7 DEF Signal, Fail, LeaveWriter
  <2>2. InFlight = <<>> /\ InFlight' = <<>>
    BY <2>1 DEF InFlight
  <2> QED
    BY <2>1, <2>2 DEF RecordsInOrder
<1>8. CASE Quiet \/ UNCHANGED vars
  BY <1>8 DEF Quiet, vars, RecordsInOrder, InFlight
<1> QED
  BY <1>1, <1>3, <1>4, <1>5, <1>6, <1>7, <1>8 DEF Next, WriterStep

(* A closed journal takes no more entries. *)
LEMMA StopIsLastStep ==
    ASSUME JournalTyped, WriterPhases, StopIsLast, [Next]_vars
    PROVE  StopIsLast'
<1> USE DEF buffer, file
<1>0. queue \in Seq(Entries) /\ batch \in Seq(Entries)
  BY DEF JournalTyped
<1>1. ASSUME NEW x \in Entries, x # Stop, ~closed, ~error,
             UNCHANGED <<closed, writer, batch, error>>,
             queue' = Append(queue, x)
      PROVE  StopIsLast'
  <2>1. queue' # <<>> /\ queue'[Len(queue')] = x
    BY <1>0, <1>1
  <2> QED
    BY <1>1, <2>1 DEF StopIsLast
<1>2. CASE UNCHANGED <<queue, closed, writer, batch, error>>
  BY <1>2 DEF StopIsLast
<1>3. ASSUME NEW p \in Producers, AppendRecord(p) PROVE StopIsLast'
  <2>1. p \in Entries /\ p # Stop
    BY JournalConstants DEF Entries, Callers
  <2>2. \/ UNCHANGED <<queue, closed, writer, batch, error>>
        \/ /\ ~closed /\ ~error /\ queue' = Append(queue, p)
           /\ UNCHANGED <<closed, writer, batch, error>>
    BY <1>3 DEF AppendRecord
  <2> QED
    BY <1>1, <1>2, <2>1, <2>2
<1>4. ASSUME NEW f \in Flushers, FlushBegin(f) \/ FlushEnd(f) PROVE StopIsLast'
  <2>1. f \in Entries /\ f # Stop
    BY JournalConstants DEF Entries, Callers
  <2>2. \/ UNCHANGED <<queue, closed, writer, batch, error>>
        \/ /\ ~closed /\ ~error /\ queue' = Append(queue, f)
           /\ UNCHANGED <<closed, writer, batch, error>>
    BY <1>4 DEF FlushBegin, FlushEnd
  <2> QED
    BY <1>1, <1>2, <2>1, <2>2
<1>5. ASSUME NEW c \in Closers, CloseBegin(c) PROVE StopIsLast'
  BY <1>5 DEF CloseBegin, StopIsLast
<1>6. ASSUME NEW c \in Closers, CloseEnd(c) PROVE StopIsLast'
  BY <1>2, <1>6 DEF CloseEnd
<1>7. CASE Take
  <2>1. UNCHANGED <<closed, error>> /\ writer = "wait"
    BY <1>7 DEF Take
  <2>2. CASE queue = <<>>
    BY <1>2, <1>7, <2>2 DEF Take
  <2>3. CASE queue # <<>>
    BY <1>7, <2>1, <2>3 DEF Take, StopIsLast
  <2> QED
    BY <2>2, <2>3
<1>8. CASE Write
  BY <1>8 DEF Write, StopIsLast
<1>9. CASE Signal
  BY <1>9 DEF Signal, StopIsLast
<1>10. CASE Fail \/ LeaveWriter
  BY <1>10 DEF Fail, LeaveWriter, StopIsLast
<1>11. CASE Quiet \/ UNCHANGED vars
  BY <1>2, <1>11 DEF Quiet, vars
<1> QED
  BY <1>3, <1>4, <1>5, <1>6, <1>7, <1>8, <1>9, <1>10, <1>11 DEF Next, WriterStep

(* A flush() waits for what was accepted before it: all of that was in the *)
(* queue ahead of its entry, and is in the file when the entry's event is  *)
(* set.                                                                    *)
LEMMA EventsAfterDataStep ==
    ASSUME JournalInv, [Next]_vars
    PROVE  \A f \in Flushers : EventAfterData(f)'
<1> USE DEF buffer, file
<1>0. /\ queue \in Seq(Entries) /\ batch \in Seq(Entries)
      /\ disk \in Seq(Producers) /\ accepted \in Seq(Producers)
      /\ Len(disk) \in Nat /\ Len(accepted) \in Nat
      /\ Records(batch) \in Seq(Producers) /\ Records(queue) \in Seq(Producers)
      /\ limit \in [Flushers -> Nat] /\ DOMAIN pc = Callers
  <2>1. /\ queue \in Seq(Entries) /\ batch \in Seq(Entries)
        /\ disk \in Seq(Producers) /\ accepted \in Seq(Producers)
        /\ limit \in [Flushers -> Nat] /\ DOMAIN pc = Callers
    BY DEF JournalInv, JournalTyped
  <2>2. Records(batch) \in Seq(Producers) /\ Records(queue) \in Seq(Producers)
    BY <2>1, RecordsTyped
  <2> QED
    BY <2>1, <2>2
<1> SUFFICES ASSUME NEW g \in Flushers PROVE EventAfterData(g)'
  OBVIOUS
<1>g. limit[g] \in Nat /\ EventAfterData(g) /\ g \in Callers
  BY <1>0 DEF JournalInv, EventsAfterData, Callers
<1>a. ASSUME NEW x \in Entries, x # g PROVE In(g, Append(queue, x)) => In(g, queue)
  BY <1>0, <1>a DEF In
<1>1. ASSUME /\ UNCHANGED <<disk, writer, batch, signalled>> /\ limit'[g] = limit[g]
             /\ accepted' = accepted \/ \E p \in Producers : accepted' = Append(accepted, p)
             /\ pc'[g] = "idle" => pc[g] = "idle"
             /\ queue' = queue \/ \E x \in Entries \ {g} : queue' = Append(queue, x)
      PROVE  EventAfterData(g)'
  <2>1. Len(accepted') >= Len(accepted) /\ Len(accepted') \in Nat
    BY <1>0, <1>1
  <2>2. limit'[g] <= Len(accepted')
    BY <1>0, <1>1, <1>g, <2>1 DEF EventAfterData
  <2>3. InFlight' = InFlight
    BY <1>1 DEF InFlight
  <2>4. In(g, queue') => In(g, queue)
    BY <1>1, <1>a
  <2>5. In(g, batch') <=> In(g, batch)
    BY <1>1 DEF In
  <2> QED
    BY <1>1, <1>g, <2>2, <2>3, <2>4, <2>5 DEF EventAfterData
<1>2. ASSUME NEW p \in Producers, AppendRecord(p) PROVE EventAfterData(g)'
  <2>1. p \in Entries \ {g} /\ p \in Callers /\ p # g
    BY JournalConstants DEF Entries, Callers
  <2>2. pc'[g] = pc[g]
    BY <1>0, <1>2, <1>g, <2>1 DEF AppendRecord, Goto
  <2>3. /\ UNCHANGED <<disk, writer, batch, signalled, limit>>
        /\ accepted' = accepted \/ accepted' = Append(accepted, p)
        /\ queue' = queue \/ queue' = Append(queue, p)
    BY <1>2 DEF AppendRecord
  <2> QED
    BY <1>1, <2>1, <2>2, <2>3
<1>3. ASSUME NEW f \in Flushers, FlushBegin(f) PROVE EventAfterData(g)'
  <2>1. f \in Entries /\ f \in Callers
    BY DEF Entries, Callers
  <2>2. UNCHANGED <<disk, writer, batch, signalled, accepted>>
    BY <1>3 DEF FlushBegin
  <2>3. CASE f # g
    <3>1. pc'[g] = pc[g] /\ limit'[g] = limit[g] /\ (queue' = queue \/ queue' = Append(queue, f))
      BY <1>0, <1>3, <1>g, <2>1, <2>3 DEF FlushBegin, Goto
    <3> QED
      BY <1>1, <2>1, <2>2, <2>3, <3>1
  <2>4. CASE f = g
    <3>1. pc[g] = "idle" /\ pc'[g] # "idle"
      BY <1>0, <1>3, <1>g, <2>4 DEF FlushBegin, Goto
    <3>2. limit'[g] = limit[g] \/ limit'[g] = Len(accepted)
      BY <1>0, <1>3, <2>4 DEF FlushBegin
    <3>3. limit'[g] <= Len(accepted')
      BY <1>0, <1>g, <2>2, <3>2 DEF EventAfterData
    <3>4. ~In(g, batch') /\ g \notin signalled'
      BY <1>g, <2>2, <3>1 DEF EventAfterData, In
    <3> QED
      BY <3>1, <3>3, <3>4 DEF EventAfterData
  <2> QED
    BY <2>3, <2>4
<1>4. ASSUME NEW f \in Flushers, FlushEnd(f) PROVE EventAfterData(g)'
  <2>1. UNCHANGED <<disk, writer, batch, signalled, accepted, queue, limit>>
    BY <1>4 DEF FlushEnd
  <2>2. pc'[g] = "idle" => pc[g] = "idle"
    BY <1>0, <1>4, <1>g DEF FlushEnd, Goto
  <2> QED
    BY <1>1, <2>1, <2>2
<1>5. ASSUME NEW c \in Closers, CloseBegin(c) \/ CloseEnd(c) PROVE EventAfterData(g)'
  <2>1. Stop \in Entries \ {g} /\ c # g
    BY <1>g, JournalConstants DEF Entries, Callers
  <2>2. /\ UNCHANGED <<disk, writer, batch, signalled, accepted, limit>>
        /\ queue' = queue \/ queue' = Append(queue, Stop)
    BY <1>5 DEF CloseBegin, CloseEnd
  <2>3. pc'[g] = pc[g]
    BY <1>0, <1>5, <1>g, <2>1 DEF CloseBegin, CloseEnd, Goto
  <2> QED
    BY <1>1, <2>1, <2>2, <2>3
<1>6. CASE Take
  <2>1. UNCHANGED <<pc, limit, accepted, disk, signalled>> /\ writer = "wait"
    BY <1>6 DEF Take
  <2>2. CASE queue = <<>>
    BY <1>1, <1>6, <2>1, <2>2 DEF Take
  <2>3. CASE queue # <<>>
    <3>1. writer' = "write" /\ batch' = queue /\ queue' = <<>>
      BY <1>6, <2>3 DEF Take
    <3>2. InFlight' = Records(queue) /\ InFlight = <<>>
      BY <2>1, <3>1 DEF InFlight
    <3>3. accepted = disk \o Records(queue)
      BY <1>0, <2>1, <3>2, ConcatEmptySeq DEF JournalInv, WriterPhases, RecordsInOrder
    <3>4. limit'[g] <= Len(disk' \o InFlight') /\ limit'[g] <= Len(accepted')
      BY <1>g, <2>1, <3>2, <3>3 DEF EventAfterData
    <3>5. ~In(g, queue') /\ (In(g, batch') <=> In(g, queue))
      BY <3>1 DEF In
    <3> QED
      BY <1>g, <2>1, <3>4, <3>5 DEF EventAfterData
  <2> QED
    BY <2>2, <2>3
<1>7. CASE Write
  <2>1. UNCHANGED <<pc, limit, queue, accepted, batch, signalled>> /\ writer = "write"
    BY <1>7 DEF Write
  <2>2. InFlight = Records(batch)
    BY <2>1 DEF InFlight
  <2>3. In(g, batch') <=> In(g, batch)
    BY <2>1 DEF In
  <2>4. In(g, queue') <=> In(g, queue)
    BY <2>1 DEF In
  <2>5. CASE disk' = disk \o Records(batch) /\ writer' = "signal"
    <3>1. disk' \in Seq(Producers) /\ Len(disk') \in Nat /\ Len(disk') >= Len(disk)
      BY <1>0, <2>5
    <3>2. disk' \o InFlight' = disk \o InFlight /\ InFlight' = <<>>
      <4>1. InFlight' = <<>>
        BY <2>5 DEF InFlight
      <4>2. disk' \o <<>> = disk'
        BY <3>1, ConcatEmptySeq
      <4> QED
        BY <2>2, <2>5, <4>1, <4>2
    <3>3. g \in signalled' => limit'[g] <= Len(disk')
      BY <1>0, <1>g, <2>1, <3>1 DEF EventAfterData
    <3> QED
      BY <1>g, <2>1, <2>3, <2>4, <3>2, <3>3 DEF EventAfterData
  <2>6. CASE /\ \E n \in 0..(Len(Records(batch)) - 1) : disk' = disk \o SubSeq(Records(batch), 1, n)
             /\ writer' = "failing"
    <3>1. PICK n \in 0..(Len(Records(batch)) - 1) : disk' = disk \o SubSeq(Records(batch), 1, n)
      BY <2>6
    <3>2. n \in 0..Len(Records(batch)) /\ n \in Nat
      BY <1>0
    <3>3. Len(disk') = Len(disk) + n
      <4>1. disk \in Seq(Producers) /\ Records(batch) \in Seq(Producers)
        BY <1>0
      <4>2. Len(disk \o SubSeq(Records(batch), 1, n)) = Len(disk) + n
        BY <3>2, <4>1, PrefixOfConcat
      <4> QED
        BY <3>1, <4>2
    <3>4. g \in signalled' => limit'[g] <= Len(disk')
      BY <1>0, <1>g, <2>1, <3>2, <3>3 DEF EventAfterData
    <3> QED
      BY <1>g, <2>1, <2>3, <2>4, <2>6, <3>4 DEF EventAfterData
  <2> QED
    BY <1>7, <2>5, <2>6 DEF Write
<1>8. CASE Signal
  <2>1. UNCHANGED <<pc, limit, queue, accepted, disk>> /\ writer = "signal" /\ batch' = <<>>
        /\ signalled' = signalled \cup {f \in Flushers : \E i \in 1..Len(batch) : batch[i] = f}
    BY <1>8 DEF Signal
  <2>2. disk \o InFlight = disk
    BY <1>0, <2>1, ConcatEmptySeq DEF InFlight
  <2>3. ~In(g, batch')
    BY <2>1 DEF In
  <2>4. g \in signalled' => g \in signalled \/ In(g, batch)
    BY <2>1 DEF In
  <2>5. In(g, queue') <=> In(g, queue)
    BY <2>1 DEF In
  <2> QED
    BY <1>g, <2>1, <2>2, <2>3, <2>4, <2>5 DEF EventAfterData
<1>9. CASE Fail \/ LeaveWriter
  <2>1. /\ UNCHANGED <<pc, limit, queue, accepted, disk, batch, signalled>>
        /\ writer' \notin {"write", "signal"}
    BY <1>9 DEF Fail, LeaveWriter
  <2>2. (In(g, queue') <=> In(g, queue)) /\ (In(g, batch') <=> In(g, batch))
    BY <2>1 DEF In
  <2> QED
    BY <1>g, <2>1, <2>2 DEF EventAfterData
<1>10. CASE Quiet \/ UNCHANGED vars
  BY <1>1, <1>10 DEF Quiet, vars
<1> QED
  BY <1>2, <1>3, <1>4, <1>5, <1>6, <1>7, <1>8, <1>9, <1>10 DEF Next, WriterStep

LEMMA JournalStep ==
    ASSUME JournalInv, [Next]_vars
    PROVE  JournalInv'
<1>1. EventsAfterData'
  BY EventsAfterDataStep DEF EventsAfterData
<1> QED
  BY <1>1, JournalTypedStep, WriterPhasesStep, RecordsInOrderStep, StopIsLastStep DEF JournalInv

-----------------------------------------------------------------------------
(* A step of a call is a step of the abstract call. *)
LEMMA GotoBecomes ==
    ASSUME JournalTyped, NEW c \in Callers, NEW where, Goto(c, where)
    PROVE  Log!Becomes(c, Outcome(where))
<1>1. pc' = [pc EXCEPT ![c] = where] /\ DOMAIN pc = Callers
  BY DEF Goto, JournalTyped
<1>2. \A d \in Callers : pc'[d] = IF d = c THEN where ELSE pc[d]
  BY <1>1
<1>3. [d \in Callers |-> Outcome(pc'[d])]
         = [[d \in Callers |-> Outcome(pc[d])] EXCEPT ![c] = Outcome(where)]
  BY <1>2
<1> QED
  BY <1>3 DEF Log!Becomes

LEMMA OutcomeOf ==
    /\ Outcome("idle") = "idle" /\ Outcome("blocked") = "pending"
    /\ Outcome("waiting") = "pending" /\ Outcome("joining") = "pending"
    /\ Outcome("accepted") = "done" /\ Outcome("flushed") = "done" /\ Outcome("closed") = "done"
    /\ Outcome("refused") = "refused" /\ Outcome("failed") = "failed"
BY DEF Outcome

LEMMA InitIsLogInit == Init => Log!Init
BY OutcomeOf DEF Init, Log!Init, Log!Calls, Callers

LEMMA AppendIsLogStep ==
    ASSUME JournalInv, NEW p \in Producers, AppendRecord(p)
    PROVE  Log!Accept(p) \/ Log!Hold(p) \/ Log!Refuse(p) \/ UNCHANGED Log!vars
<1> USE DEF buffer, file
<1>0. JournalTyped /\ p \in Callers
  BY DEF JournalInv, Callers
<1>1. UNCHANGED <<limit, disk, closed, error>> /\ pc[p] \in {"idle", "blocked"}
  BY DEF AppendRecord
<1>2. CASE (error \/ closed) /\ Goto(p, "refused") /\ UNCHANGED accepted
  <2>1. Log!Becomes(p, "refused")
    BY <1>0, <1>2, GotoBecomes, OutcomeOf
  <2>2. Log!Unended(p)
    BY <1>0, <1>1, OutcomeOf DEF Log!Unended
  <2> QED
    BY <1>1, <1>2, <2>1, <2>2 DEF Log!Refuse
<1>3. CASE ~error /\ ~closed /\ Goto(p, "accepted") /\ accepted' = Append(accepted, p)
  <2>1. Log!Becomes(p, "done")
    BY <1>0, <1>3, GotoBecomes, OutcomeOf
  <2>2. Log!Unended(p)
    BY <1>0, <1>1, OutcomeOf DEF Log!Unended
  <2> QED
    BY <1>1, <1>3, <2>1, <2>2 DEF Log!Accept
<1>4. CASE ~error /\ ~closed /\ Goto(p, "blocked") /\ UNCHANGED accepted
  <2>1. CASE pc[p] = "idle"
    <3>1. Log!Becomes(p, "pending")
      BY <1>0, <1>4, GotoBecomes, OutcomeOf
    <3> QED
      BY <1>0, <1>1, <1>4, <2>1, <3>1, OutcomeOf DEF Log!Hold
  <2>2. CASE pc[p] = "blocked"
    <3>1. pc' = pc
      BY <1>0, <1>4, <2>2 DEF Goto, JournalTyped
    <3> QED
      BY <1>1, <1>4, <3>1 DEF Log!vars
  <2> QED
    BY <1>1, <2>1, <2>2
<1> QED
  BY <1>2, <1>3, <1>4 DEF AppendRecord

LEMMA FlushIsLogStep ==
    ASSUME JournalInv, NEW f \in Flushers, FlushBegin(f) \/ FlushEnd(f)
    PROVE  Log!Flush(f) \/ Log!Flushed(f) \/ Log!Refuse(f) \/ Log!Fails(f)
<1> USE DEF buffer, file
<1>0. JournalTyped /\ f \in Callers
  BY DEF JournalInv, Callers
<1>1. UNCHANGED <<accepted, disk, closed, error>>
  BY DEF FlushBegin, FlushEnd
<1>2. CASE (error \/ closed) /\ pc[f] = "idle" /\ Goto(f, "refused") /\ UNCHANGED limit
  <2>1. Log!Becomes(f, "refused")
    BY <1>0, <1>2, GotoBecomes, OutcomeOf
  <2>2. Log!Unended(f)
    BY <1>0, <1>2, OutcomeOf DEF Log!Unended
  <2> QED
    BY <1>1, <1>2, <2>1, <2>2 DEF Log!Refuse
<1>3. CASE /\ ~error /\ ~closed /\ pc[f] = "idle" /\ Goto(f, "waiting")
           /\ limit' = [limit EXCEPT ![f] = Len(accepted)]
  <2>1. Log!Becomes(f, "pending")
    BY <1>0, <1>3, GotoBecomes, OutcomeOf
  <2> QED
    BY <1>0, <1>1, <1>3, <2>1, OutcomeOf DEF Log!Flush
<1>4. CASE error /\ pc[f] = "waiting" /\ Goto(f, "failed") /\ UNCHANGED limit
  <2>1. Log!Becomes(f, "failed")
    BY <1>0, <1>4, GotoBecomes, OutcomeOf
  <2> QED
    BY <1>0, <1>1, <1>4, <2>1, OutcomeOf DEF Log!Fails
<1>5. CASE ~error /\ pc[f] = "waiting" /\ f \in signalled /\ Goto(f, "flushed") /\ UNCHANGED limit
  <2>1. Log!Becomes(f, "done")
    BY <1>0, <1>5, GotoBecomes, OutcomeOf
  <2>2. limit[f] <= Len(disk)
    BY <1>5 DEF JournalInv, EventsAfterData, EventAfterData
  <2> QED
    BY <1>0, <1>1, <1>5, <2>1, <2>2, OutcomeOf DEF Log!Flushed
<1> QED
  BY <1>2, <1>3, <1>4, <1>5 DEF FlushBegin, FlushEnd

LEMMA CloseIsLogStep ==
    ASSUME JournalInv, NEW c \in Closers, CloseBegin(c) \/ CloseEnd(c)
    PROVE  Log!Close(c) \/ Log!Closed(c) \/ Log!Fails(c)
<1> USE DEF buffer, file
<1>0. JournalTyped /\ c \in Callers
  BY DEF JournalInv, Callers
<1>1. UNCHANGED <<accepted, disk, error, limit>>
  BY DEF CloseBegin, CloseEnd
<1>2. CASE CloseBegin(c)
  <2>1. Log!Becomes(c, "pending")
    BY <1>0, <1>2, GotoBecomes, OutcomeOf DEF CloseBegin
  <2> QED
    BY <1>0, <1>1, <1>2, <2>1, OutcomeOf DEF CloseBegin, Log!Close
<1>3. CASE CloseEnd(c)
  <2>1. pc[c] = "joining" /\ finished /\ UNCHANGED closed
    BY <1>3 DEF CloseEnd
  <2>2. CASE error
    <3>1. Log!Becomes(c, "failed")
      BY <1>0, <1>3, <2>2, GotoBecomes, OutcomeOf DEF CloseEnd
    <3> QED
      BY <1>0, <1>1, <2>1, <2>2, <3>1, OutcomeOf DEF Log!Fails
  <2>3. CASE ~error
    <3>1. Log!Becomes(c, "done")
      BY <1>0, <1>3, <2>3, GotoBecomes, OutcomeOf DEF CloseEnd
    <3>2. disk = accepted
      <4>1. writer = "ended" /\ queue = <<>> /\ InFlight = <<>>
        BY <2>1, <2>3 DEF JournalInv, WriterPhases, StopIsLast, InFlight
      <4>2. accepted = (disk \o <<>>) \o <<>>
        BY <2>3, <4>1, RecordsEmpty DEF JournalInv, RecordsInOrder
      <4> QED
        BY <1>0, <4>2, ConcatEmptySeq DEF JournalTyped
    <3> QED
      BY <1>0, <1>1, <2>1, <2>3, <3>1, <3>2, OutcomeOf DEF Log!Closed
  <2> QED
    BY <2>2, <2>3
<1> QED
  BY <1>2, <1>3

(* A write, complete or not, extends the file along what was accepted.     *)
LEMMA WriteIsLogStep ==
    ASSUME JournalInv, Write
    PROVE  Log!Persist \/ UNCHANGED Log!vars
<1> USE DEF buffer, file
<1>1. /\ UNCHANGED <<pc, limit, accepted, closed, error>> /\ ~error
      /\ accepted = (disk \o Records(batch)) \o Records(queue)
  BY DEF Write, JournalInv, WriterPhases, RecordsInOrder, InFlight
<1>2. disk \in Seq(Producers) /\ Records(batch) \in Seq(Producers) /\ Records(queue) \in Seq(Producers)
  <2>1. disk \in Seq(Producers) /\ queue \in Seq(Entries) /\ batch \in Seq(Entries)
    BY DEF JournalInv, JournalTyped
  <2> QED
    BY <2>1, RecordsTyped
<1>3. \E n \in 0..Len(Records(batch)) : disk' = disk \o SubSeq(Records(batch), 1, n)
  <2>1. CASE disk' = disk \o Records(batch)
    <3>1. SubSeq(Records(batch), 1, Len(Records(batch))) = Records(batch)
      BY <1>2, SubSeqFull
    <3>2. Len(Records(batch)) \in 0..Len(Records(batch))
      BY <1>2
    <3> QED
      BY <2>1, <3>1, <3>2
  <2>2. CASE \E n \in 0..(Len(Records(batch)) - 1) : disk' = disk \o SubSeq(Records(batch), 1, n)
    <3>1. PICK n \in 0..(Len(Records(batch)) - 1) : disk' = disk \o SubSeq(Records(batch), 1, n)
      BY <2>2
    <3>2. n \in 0..Len(Records(batch))
      BY <1>2
    <3> QED
      BY <3>1, <3>2
  <2> QED
    BY <2>1, <2>2 DEF Write
<1>4. PICK n \in 0..Len(Records(batch)) : disk' = disk \o SubSeq(Records(batch), 1, n)
  BY <1>3
<1>5. /\ Log!IsPrefix(disk, disk \o SubSeq(Records(batch), 1, n))
      /\ Log!IsPrefix(disk \o SubSeq(Records(batch), 1, n), (disk \o Records(batch)) \o Records(queue))
  BY <1>2, PrefixOfConcat
<1>6. Log!IsPrefix(disk, disk') /\ Log!IsPrefix(disk', accepted)
  BY <1>1, <1>4, <1>5
<1>7. CASE disk' = disk
  BY <1>1, <1>7 DEF Log!vars
<1>8. CASE disk' # disk
  BY <1>1, <1>6, <1>8 DEF Log!Persist
<1> QED
  BY <1>7, <1>8

LEMMA WriterIsLogStep ==
    ASSUME JournalInv, Take \/ Signal \/ Fail \/ LeaveWriter
    PROVE  Log!Break \/ UNCHANGED Log!vars
<1> USE DEF buffer, file
<1>1. CASE Take \/ Signal \/ LeaveWriter
  <2>1. UNCHANGED <<pc, limit, accepted, disk, closed, error>>
    BY <1>1 DEF Take, Signal, LeaveWriter
  <2> QED
    BY <2>1 DEF Log!vars
<1>2. CASE Fail
  <2>1. UNCHANGED <<pc, limit, accepted, disk, closed>> /\ error' = TRUE /\ ~error
    BY <1>2 DEF Fail, JournalInv, WriterPhases
  <2>2. disk # accepted
    BY <1>2 DEF Fail, JournalInv, JournalTyped, RecordsInOrder
  <2> QED
    BY <2>1, <2>2 DEF Log!Break
<1> QED
  BY <1>1, <1>2

LEMMA NextIsLogNext ==
    ASSUME JournalInv, [Next]_vars
    PROVE  [Log!Next]_(Log!vars)
<1>1. CASE \E p \in Producers : AppendRecord(p)
  BY <1>1, AppendIsLogStep DEF Log!Next
<1>2. CASE \E f \in Flushers : FlushBegin(f) \/ FlushEnd(f)
  BY <1>2, FlushIsLogStep DEF Log!Next
<1>3. CASE \E c \in Closers : CloseBegin(c) \/ CloseEnd(c)
  BY <1>3, CloseIsLogStep DEF Log!Next
<1>4. CASE Write
  BY <1>4, WriteIsLogStep DEF Log!Next
<1>5. CASE Take \/ Signal \/ Fail \/ LeaveWriter
  BY <1>5, WriterIsLogStep DEF Log!Next
<1>6. CASE Quiet \/ UNCHANGED vars
  <2>1. UNCHANGED <<pc, limit, accepted, disk, closed, error>>
    BY <1>6 DEF Quiet, vars, buffer, file
  <2> QED
    BY <2>1 DEF Log!vars
<1> QED
  BY <1>1, <1>2, <1>3, <1>4, <1>5, <1>6 DEF Next, WriterStep

(* JsonJournal, with its queue, its writer thread and its condition        *)
(* variable, implements the safety part of DurableLog: append(), flush()   *)
(* and close() end only as the abstract calls may, the file is always a    *)
(* prefix of what was accepted, a flush() or close() that returns found on *)
(* disk what it waited for, and after a failed write no call succeeds.     *)
(* That every call ends (DurableLog's Ends) stays with the model checker.  *)
THEOREM JournalRefinesLog == Spec => Log!Safety
<1>1. Init => JournalInv /\ Log!Init
  BY JournalInit, InitIsLogInit
<1>2. JournalInv /\ [Next]_vars => JournalInv' /\ [Log!Next]_(Log!vars)
  BY JournalStep, NextIsLogNext
<1> QED
  BY <1>1, <1>2, PTL DEF Spec, Log!Safety
=============================================================================
