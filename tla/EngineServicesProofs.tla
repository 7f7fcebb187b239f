------------------------ MODULE EngineServicesProofs ------------------------
(***************************************************************************)
(* Proofs about the services the engine shares, for every value of the     *)
(* constants the services are instantiated with.  A behaviour is one of    *)
(* one component, so each theorem is about the steps of its component; the *)
(* others are off.                                                         *)
(***************************************************************************)
EXTENDS MCEngineServices, Integers, FiniteSetTheorems, SequenceTheorems, TLAPS

(* A step of the engine is a step of the component, or changes nothing of  *)
(* it.                                                                     *)
LEMMA ComponentSteps ==
    ASSUME [Next]_vars
    PROVE  /\ component' = component
           /\ component = "handle" => Handle!Next \/ UNCHANGED handleVars
           /\ component = "capability" => Capability!CapNext \/ UNCHANGED capabilityVars
           /\ component = "index" => Index!IndexNext \/ UNCHANGED indexVars
           /\ component = "external" => External!ExternalNext \/ UNCHANGED externalVars
BY DEF Next, vars, HandleStep, CapabilityStep, IndexStep, ExternalStep

-----------------------------------------------------------------------------
(* Job handles.  Every object made has a new number, so an event that is   *)
(* made for a handle or a run is observed by no earlier one.               *)

Scoped == handles \cup handleCalls

EventsMade ==
    /\ made \in Nat
    /\ \A x \in Scoped : \A e \in Handle!Observed(x) : e \in Nat /\ e <= made

LimitsTyped == \A x \in Scoped : x.limit \in Int /\ \A q \in x.quotas : q.limit \in Int

HandlesInv ==
    /\ EventsMade /\ LimitsTyped
    /\ Handle!ScopesAreNested /\ Handle!PlainFailureStaysLocal /\ Handle!LimitIsTightestQuota

(* z is scoped like h, or by an event made for it inside the scope of h. *)
Inherits(z, h) ==
    \/ z.own = h.own /\ Handle!Observed(z) = Handle!Observed(h)
    \/ z.own = made + 1 /\ Handle!Observed(z) = Handle!Observed(h) \cup {made + 1}

Tightest(x) ==
    /\ x.limit \in Int /\ \A q \in x.quotas : q.limit \in Int
    /\ \E q \in x.quotas : q.limit = x.limit
    /\ \A q \in x.quotas : x.limit <= q.limit

(* limit(): a new quota only where it is tighter than all others. *)
LEMMA LimitDerives ==
    ASSUME NEW h, NEW n \in Int, NEW id, Tightest(h)
    PROVE  /\ Inherits(Handle!Limit(h, n, id), h)
           /\ Tightest(Handle!Limit(h, n, id))
<1> DEFINE z == Handle!Limit(h, n, id)
           maximum == Handle!Lesser(n, h.limit)
           extra == IF h.quotas = {} \/ maximum < h.limit
                    THEN {[id |-> id, limit |-> maximum]} ELSE {}
<1>1. /\ z.limit = maximum /\ z.own = h.own /\ z.parents = h.parents
      /\ z.quotas = h.quotas \cup extra
  BY DEF Handle!Limit, Handle!Handle
<1> HIDE DEF z
<1>2. Inherits(z, h)
  BY <1>1 DEF Inherits, Handle!Observed
<1>3. maximum \in Int /\ maximum <= h.limit /\ h.limit \in Int
  BY DEF Handle!Lesser, Tightest
<1> HIDE DEF maximum
<1>4. Tightest(z)
  <2>1. CASE maximum < h.limit
    <3>1. extra = {[id |-> id, limit |-> maximum]}
      BY <2>1
    <3>2. [id |-> id, limit |-> maximum].limit = maximum
      OBVIOUS
    <3>3. \A q \in h.quotas : q.limit \in Int /\ maximum <= q.limit
      BY <1>3 DEF Tightest
    <3>4. \A q \in z.quotas : q.limit \in Int /\ maximum <= q.limit
      BY <1>1, <1>3, <3>1, <3>2, <3>3
    <3>5. \E q \in z.quotas : q.limit = maximum
      BY <1>1, <3>1, <3>2
    <3> QED
      BY <1>1, <1>3, <3>4, <3>5 DEF Tightest
  <2>2. CASE ~(maximum < h.limit)
    <3>1. maximum = h.limit /\ extra = {}
      BY <1>3, <2>2 DEF Tightest
    <3> QED
      BY <1>1, <3>1 DEF Tightest
  <2> QED
    BY <2>1, <2>2
<1> QED
  BY <1>2, <1>4 DEF z

(* with_cancellation(): the event made for the scope, or the handle's own. *)
LEMMA ScopeDerives ==
    ASSUME NEW h, NEW event \in {made + 1, h.own}, Tightest(h)
    PROVE  /\ Inherits(Handle!WithCancellation(h, event), h)
           /\ Tightest(Handle!WithCancellation(h, event))
<1> DEFINE z == Handle!WithCancellation(h, event)
<1>1. /\ z.limit = h.limit /\ z.own = event /\ z.quotas = h.quotas
      /\ z.parents = IF h.own = event THEN h.parents ELSE h.parents \cup {h.own}
  BY DEF Handle!WithCancellation, Handle!Handle
<1> HIDE DEF z
<1>2. Inherits(z, h)
  BY <1>1 DEF Inherits, Handle!Observed
<1>3. Tightest(z)
  BY <1>1 DEF Tightest
<1> QED
  BY <1>2, <1>3 DEF z

LEMMA RunDerives ==
    ASSUME NEW h, Tightest(h)
    PROVE  /\ Inherits(Handle!RunArguments(h, made + 1), h)
           /\ Tightest(Handle!RunArguments(h, made + 1))
           /\ Handle!RunArguments(h, made + 1).own = IF h.explicit THEN h.own ELSE made + 1
<1> DEFINE z == Handle!RunArguments(h, made + 1)
<1>1. /\ z.limit = h.limit /\ z.quotas = h.quotas
      /\ z.own = IF h.explicit THEN h.own ELSE made + 1
      /\ z.parents = IF h.explicit THEN h.parents ELSE h.parents \cup {h.own}
  BY DEF Handle!RunArguments
<1> HIDE DEF z
<1>2. Inherits(z, h)
  BY <1>1 DEF Inherits, Handle!Observed
<1>3. Tightest(z)
  BY <1>1 DEF Tightest
<1> QED
  BY <1>1, <1>2, <1>3 DEF z

(* Whatever is derived from a handle keeps the scopes nested. *)
LEMMA DerivedKeepsScopes ==
    ASSUME EventsMade, Handle!ScopesAreNested, LimitsTyped, Handle!LimitIsTightestQuota,
           NEW h \in handles, NEW z, Inherits(z, h), Tightest(z),
           made' = made + 1, Scoped' = Scoped \cup {z}
    PROVE  (EventsMade /\ LimitsTyped /\ Handle!ScopesAreNested /\ Handle!LimitIsTightestQuota)'
<1>1. h \in Scoped /\ Handle!Scoped = Scoped /\ made + 1 \in Nat /\ made < made + 1
  BY DEF Scoped, Handle!Scoped, EventsMade
<1>2. \A x \in Scoped : made + 1 \notin Handle!Observed(x)
  BY <1>1 DEF EventsMade
<1>3. EventsMade'
  <2>1. \A e \in Handle!Observed(z) : e \in Nat /\ e <= made + 1
    BY <1>1 DEF EventsMade, Inherits
  <2>2. \A x \in Scoped : \A e \in Handle!Observed(x) : e \in Nat /\ e <= made + 1
    BY <1>1 DEF EventsMade
  <2> QED
    BY <1>1, <2>1, <2>2 DEF EventsMade
<1>4. LimitsTyped'
  BY DEF LimitsTyped, Tightest
<1>5. ASSUME NEW x \in Scoped \cup {z}, NEW y \in Scoped \cup {z}, x.own \in Handle!Observed(y)
      PROVE  Handle!Observed(x) \subseteq Handle!Observed(y)
  <2>1. \A a, b \in Scoped : a.own \in Handle!Observed(b)
                                => Handle!Observed(a) \subseteq Handle!Observed(b)
    BY <1>1 DEF Handle!ScopesAreNested
  <2>2. \A a \in Scoped : a.own \in Handle!Observed(a)
    BY DEF Handle!Observed
  <2>3. CASE x \in Scoped /\ y \in Scoped
    BY <1>5, <2>1, <2>3
  <2>4. CASE x \in Scoped /\ y = z
    <3>1. x.own # made + 1
      BY <1>2, <2>2, <2>4
    <3>2. x.own \in Handle!Observed(h) /\ Handle!Observed(h) \subseteq Handle!Observed(z)
      BY <1>5, <2>4, <3>1 DEF Inherits
    <3> QED
      BY <1>1, <2>1, <2>4, <3>2
  <2>5. CASE x = z /\ y \in Scoped
    BY <1>1, <1>2, <1>5, <2>1, <2>5 DEF Inherits
  <2>6. CASE x = z /\ y = z
    BY <2>6
  <2> QED
    BY <1>5, <2>3, <2>4, <2>5, <2>6
<1>6. Handle!ScopesAreNested'
  BY <1>5 DEF Handle!ScopesAreNested, Handle!Scoped, Scoped
<1>7. Handle!LimitIsTightestQuota'
  BY DEF Handle!LimitIsTightestQuota, Handle!Scoped, Scoped, Tightest
<1> QED
  BY <1>3, <1>4, <1>6, <1>7

LEMMA HandlesStep ==
    ASSUME HandlesInv, Handle!Next \/ UNCHANGED handleVars
    PROVE  HandlesInv'
<1>0. \A h \in handles : Tightest(h)
  BY DEF HandlesInv, LimitsTyped, Tightest, Handle!LimitIsTightestQuota, Handle!Scoped, Scoped
<1>1. ASSUME NEW h \in handles, NEW z, Inherits(z, h), Tightest(z), made' = made + 1,
             handles' = handles \cup {z} /\ handleCalls' = handleCalls
      PROVE  HandlesInv'
  <2>1. Scoped' = Scoped \cup {z}
    BY <1>1 DEF Scoped
  <2>2. (EventsMade /\ LimitsTyped /\ Handle!ScopesAreNested /\ Handle!LimitIsTightestQuota)'
    BY <1>1, <2>1, DerivedKeepsScopes DEF HandlesInv
  <2>3. ASSUME NEW c \in handleCalls, NEW g \in handles \cup {z}, c.own \in Handle!Observed(g)
        PROVE  \E f \in handles : f.explicit /\ f.own = c.own
    <3>1. c.own # made + 1
      <4>1. c.own \in Handle!Observed(c) /\ c \in Scoped
        BY DEF Handle!Observed, Scoped
      <4>2. c.own \in Nat /\ c.own <= made /\ made \in Nat
        BY <4>1 DEF HandlesInv, EventsMade
      <4> QED
        BY <4>2
    <3>2. \E f \in handles : c.own \in Handle!Observed(f)
      BY <1>1, <2>3, <3>1 DEF Inherits
    <3> QED
      BY <3>2 DEF HandlesInv, Handle!PlainFailureStaysLocal
  <2>4. Handle!PlainFailureStaysLocal'
    BY <1>1, <2>3 DEF Handle!PlainFailureStaysLocal
  <2> QED
    BY <2>2, <2>4 DEF HandlesInv
<1>2. ASSUME NEW h \in handles, NEW n \in 1..JobWorkers, Handle!MakeLimit(h, n)
      PROVE  HandlesInv'
  <2>1. Inherits(Handle!Limit(h, n, made + 1), h) /\ Tightest(Handle!Limit(h, n, made + 1))
    BY <1>0, LimitDerives
  <2> QED
    BY <1>1, <1>2, <2>1 DEF Handle!MakeLimit
<1>3. ASSUME NEW h \in handles, Handle!MakeScope(h) PROVE HandlesInv'
  <2>1. PICK event \in {made + 1, h.own} :
           handles' = handles \cup {Handle!WithCancellation(h, event)}
    BY <1>3 DEF Handle!MakeScope
  <2>2. /\ Inherits(Handle!WithCancellation(h, event), h)
        /\ Tightest(Handle!WithCancellation(h, event))
    BY <1>0, ScopeDerives
  <2> QED
    BY <1>1, <1>3, <2>1, <2>2 DEF Handle!MakeScope
<1>4. ASSUME NEW h \in handles, Handle!StartRun(h) PROVE HandlesInv'
  <2> DEFINE z == Handle!RunArguments(h, made + 1)
  <2>1. made' = made + 1 /\ handles' = handles /\ handleCalls' = handleCalls \cup {z}
    BY <1>4 DEF Handle!StartRun
  <2>2. Inherits(z, h) /\ Tightest(z) /\ z.own = IF h.explicit THEN h.own ELSE made + 1
    BY <1>0, RunDerives
  <2> HIDE DEF z
  <2>3. Scoped' = Scoped \cup {z}
    BY <2>1 DEF Scoped
  <2>4. (EventsMade /\ LimitsTyped /\ Handle!ScopesAreNested /\ Handle!LimitIsTightestQuota)'
    BY <2>1, <2>2, <2>3, DerivedKeepsScopes DEF HandlesInv
  <2>5. ASSUME NEW g \in handles, z.own \in Handle!Observed(g)
        PROVE  \E f \in handles : f.explicit /\ f.own = z.own
    <3>1. g \in Scoped
      BY DEF Scoped
    <3>2. z.own \in Nat /\ z.own <= made /\ made \in Nat
      BY <2>5, <3>1 DEF HandlesInv, EventsMade
    <3>3. z.own # made + 1
      BY <3>2
    <3> QED
      BY <2>2, <3>3
  <2>6. Handle!PlainFailureStaysLocal'
    BY <2>1, <2>5 DEF HandlesInv, Handle!PlainFailureStaysLocal
  <2> QED
    BY <2>4, <2>6 DEF HandlesInv
<1>5. CASE Handle!Exhausted \/ UNCHANGED handleVars
  BY <1>5 DEF Handle!Exhausted, Handle!hvars, handleVars, HandlesInv, EventsMade, LimitsTyped,
              Scoped, Handle!ScopesAreNested, Handle!PlainFailureStaysLocal,
              Handle!LimitIsTightestQuota, Handle!Scoped
<1> QED
  BY <1>2, <1>3, <1>4, <1>5 DEF Handle!Next

LEMMA HandlesInit == Handle!Init => HandlesInv
<1> SUFFICES ASSUME Handle!Init PROVE HandlesInv
  OBVIOUS
<1>1. PICK n \in 1..JobWorkers : handles = {Handle!SchedulerLimit(JobWorkers, 1, n, 2)}
  BY DEF Handle!Init
<1> DEFINE z == Handle!SchedulerLimit(JobWorkers, 1, n, 2)
<1>2. /\ z.limit = n /\ z.own = 1 /\ z.parents = {}
      /\ z.quotas = {[id |-> 2, limit |-> n]}
  BY DEF Handle!SchedulerLimit, Handle!Limit, Handle!Handle, Handle!Lesser
<1> HIDE DEF z
<1>3. Scoped = {z} /\ Handle!Scoped = {z} /\ handleCalls = {} /\ made = 2 /\ handles = {z}
  BY <1>1 DEF Scoped, Handle!Scoped, Handle!Init, z
<1>4. Handle!Observed(z) = {1}
  BY <1>2 DEF Handle!Observed
<1>5. EventsMade
  BY <1>3, <1>4 DEF EventsMade
<1>6. LimitsTyped /\ Handle!LimitIsTightestQuota
  <2>1. [id |-> 2, limit |-> n].limit = n /\ n \in Int /\ n <= n
    OBVIOUS
  <2>2. z.limit \in Int /\ \A q \in z.quotas : q.limit = n
    BY <1>2, <2>1
  <2>3. \E q \in z.quotas : q.limit = n
    BY <1>2, <2>1
  <2> QED
    BY <1>2, <1>3, <2>1, <2>2, <2>3 DEF LimitsTyped, Handle!LimitIsTightestQuota
<1>7. Handle!ScopesAreNested /\ Handle!PlainFailureStaysLocal
  BY <1>3 DEF Handle!ScopesAreNested, Handle!PlainFailureStaysLocal
<1> QED
  BY <1>5, <1>6, <1>7 DEF HandlesInv

(* _NodeJobs: of all handles and runs a program can derive from one        *)
(* scheduler, with any number of workers, scopes are nested, a plain run's *)
(* failure reaches nobody else, and limits only tighten.                   *)
THEOREM HandlesAreSound == Spec => []HandlesSound
<1> DEFINE Inv == component = "handle" => HandlesInv
<1>1. Init => Inv
  BY HandlesInit DEF Init
<1>2. Inv /\ [Next]_vars => Inv'
  BY ComponentSteps, HandlesStep
<1>3. Inv => HandlesSound
  BY DEF HandlesSound, HandlesInv
<1> QED
  BY <1>1, <1>2, <1>3, PTL DEF Spec

-----------------------------------------------------------------------------
(* Capabilities.  A registered closer is owed until it has been called: it *)
(* is in the engine's list, then in the list of the one close() that took  *)
(* it.                                                                     *)

Elements(s) == {s[i] : i \in 1..Len(s)}
Distinct(s) == \A i, k \in 1..Len(s) : s[i] = s[k] => i = k

CapTyped ==
    /\ built \in Seq(CapNames)
    /\ factories \in [CapUsers -> Seq(CapNames)]
    /\ closers \in Seq(Nat)
    /\ closing \in [CapUsers -> Seq(Nat)]
    /\ closed \in Seq(Nat)
    /\ Len(closed) = Len(built)

(* One close() takes the closers, all of them. *)
ClosersTakenOnce ==
    /\ capClosed => closers = <<>>
    /\ \A u \in CapUsers : closing[u] # <<>> =>
          capClosed /\ \A v \in CapUsers : closing[v] # <<>> => v = u
    /\ Distinct(closers) /\ \A u \in CapUsers : Distinct(closing[u])

Owed(i) == i \in Elements(closers) \/ \E u \in CapUsers : i \in Elements(closing[u])

ClosedOrOwed ==
    /\ \A i \in 1..Len(built) :
          IF built[i] \in CapClosing
          THEN (closed[i] = 0 /\ Owed(i)) \/ (closed[i] = 1 /\ ~Owed(i) /\ capClosed)
          ELSE closed[i] = 0
    /\ \A i : Owed(i) => i \in 1..Len(built) /\ built[i] \in CapClosing

CapInv == CapTyped /\ ClosersTakenOnce /\ ClosedOrOwed

LEMMA DistinctEmpty == Distinct(<<>>) /\ Elements(<<>>) = {}
BY DEF Distinct, Elements

LEMMA DistinctAppend ==
    ASSUME NEW S, NEW s \in Seq(S), NEW x \in S, Distinct(s), x \notin Elements(s)
    PROVE  /\ Distinct(Append(s, x))
           /\ Elements(Append(s, x)) = Elements(s) \cup {x}
<1> DEFINE t == Append(s, x)
<1>1. /\ Len(s) \in Nat /\ Len(t) = Len(s) + 1
      /\ \A i \in 1..Len(s) : t[i] = s[i]
      /\ t[Len(s) + 1] = x
  OBVIOUS
<1> HIDE DEF t
<1>2. Distinct(t)
  <2> SUFFICES ASSUME NEW i \in 1..Len(t), NEW k \in 1..Len(t), t[i] = t[k] PROVE i = k
    BY DEF Distinct
  <2>1. i \in 1..Len(s) \/ i = Len(s) + 1
    BY <1>1
  <2>2. k \in 1..Len(s) \/ k = Len(s) + 1
    BY <1>1
  <2>3. \A n \in 1..Len(s) : s[n] # x
    BY DEF Elements
  <2> QED
    BY <1>1, <2>1, <2>2, <2>3 DEF Distinct
<1>3. Elements(t) = Elements(s) \cup {x}
  <2>1. 1..Len(t) = 1..Len(s) \cup {Len(s) + 1}
    BY <1>1
  <2> QED
    BY <1>1, <2>1 DEF Elements
<1> QED
  BY <1>2, <1>3 DEF t

LEMMA DistinctTail ==
    ASSUME NEW S, NEW s \in Seq(S), s # <<>>, Distinct(s)
    PROVE  /\ Head(s) \in Elements(s)
           /\ Distinct(Tail(s))
           /\ Elements(Tail(s)) = Elements(s) \ {Head(s)}
<1> DEFINE t == Tail(s)
<1>1. /\ Len(s) \in Nat \ {0} /\ Len(t) = Len(s) - 1
      /\ \A i \in 1..Len(t) : t[i] = s[i + 1]
      /\ Head(s) = s[1]
  OBVIOUS
<1> HIDE DEF t
<1>2. Head(s) \in Elements(s)
  BY <1>1 DEF Elements
<1>3. Distinct(t)
  <2> SUFFICES ASSUME NEW i \in 1..Len(t), NEW k \in 1..Len(t), t[i] = t[k] PROVE i = k
    BY DEF Distinct
  <2>1. i + 1 \in 1..Len(s) /\ k + 1 \in 1..Len(s) /\ s[i + 1] = s[k + 1]
    BY <1>1
  <2>2. i + 1 = k + 1
    BY <2>1 DEF Distinct
  <2> QED
    BY <2>2
<1>4. Elements(t) = Elements(s) \ {Head(s)}
  <2>1. ASSUME NEW x \in Elements(t) PROVE x \in Elements(s) /\ x # Head(s)
    <3>1. PICK i \in 1..Len(t) : x = t[i]
      BY DEF Elements
    <3>2. i + 1 \in 1..Len(s) /\ 1 \in 1..Len(s) /\ i + 1 # 1 /\ x = s[i + 1]
      BY <1>1, <3>1
    <3> QED
      BY <1>1, <3>2 DEF Elements, Distinct
  <2>2. ASSUME NEW x \in Elements(s), x # Head(s) PROVE x \in Elements(t)
    <3>1. PICK i \in 1..Len(s) : x = s[i]
      BY DEF Elements
    <3>2. i - 1 \in 1..Len(t) /\ (i - 1) + 1 = i
      BY <1>1, <2>2, <3>1
    <3>3. x = t[i - 1]
      BY <1>1, <3>1, <3>2
    <3> QED
      BY <3>2, <3>3 DEF Elements
  <2> QED
    BY <2>1, <2>2
<1> QED
  BY <1>2, <1>3, <1>4 DEF t

LEMMA DistinctReverse ==
    ASSUME NEW S, NEW s \in Seq(S), Distinct(s)
    PROVE  /\ Capability!Reverse(s) \in Seq(S)
           /\ Distinct(Capability!Reverse(s))
           /\ Elements(Capability!Reverse(s)) = Elements(s)
<1> DEFINE t == Capability!Reverse(s)
           mirror(i) == (Len(s) - i) + 1
<1>1. /\ Len(s) \in Nat /\ t \in [1..Len(s) -> S]
      /\ \A i \in 1..Len(s) : t[i] = s[mirror(i)]
  BY DEF Capability!Reverse
<1>2. /\ \A i \in 1..Len(s) : mirror(i) \in 1..Len(s) /\ mirror(mirror(i)) = i
      /\ \A i, k \in 1..Len(s) : mirror(i) = mirror(k) => i = k
  BY <1>1
<1> HIDE DEF t, mirror
<1>3. t \in Seq(S) /\ Len(t) = Len(s)
  BY <1>1
<1>4. Distinct(t)
  BY <1>1, <1>2, <1>3 DEF Distinct
<1>5. Elements(t) = Elements(s)
  <2>1. ASSUME NEW x \in Elements(t) PROVE x \in Elements(s)
    BY <1>1, <1>2, <1>3, <2>1 DEF Elements
  <2>2. ASSUME NEW i \in 1..Len(s) PROVE s[i] \in Elements(t)
    <3>1. t[mirror(i)] = s[i] /\ mirror(i) \in 1..Len(t)
      BY <1>1, <1>2, <1>3
    <3> QED
      BY <3>1 DEF Elements
  <2> QED
    BY <2>1, <2>2 DEF Elements
<1> QED
  BY <1>3, <1>4, <1>5 DEF t

(* Front and Last of a stack of names. *)
LEMMA StackTop ==
    ASSUME NEW S, NEW s \in Seq(S), s # <<>>
    PROVE  /\ Capability!Last(s) \in S
           /\ Capability!Front(s) \in Seq(S)
<1>1. Len(s) \in 1..Len(s) /\ Len(s) \in Nat \ {0}
  OBVIOUS
<1>2. Capability!Last(s) \in S
  BY <1>1 DEF Capability!Last
<1>3. Capability!Front(s) \in Seq(S)
  BY <1>1 DEF Capability!Front
<1> QED
  BY <1>2, <1>3

LEMMA CapabilityInit == Capability!CapInit => CapInv
<1> SUFFICES ASSUME Capability!CapInit PROVE CapInv
  OBVIOUS
<1>1. CapTyped /\ Len(built) = 0
  BY DEF Capability!CapInit, CapTyped
<1>2. ClosersTakenOnce
  BY DistinctEmpty DEF Capability!CapInit, ClosersTakenOnce
<1>3. \A i : ~Owed(i)
  BY DistinctEmpty DEF Capability!CapInit, Owed
<1>4. ClosedOrOwed
  BY <1>1, <1>3 DEF ClosedOrOwed
<1> QED
  BY <1>1, <1>2, <1>4 DEF CapInv

(* What a step does to the closers decides what is owed after it. *)
LEMMA ConstructKeeps ==
    ASSUME CapInv, NEW u \in CapUsers, Capability!Construct(u)
    PROVE  CapInv'
<1> DEFINE n == Capability!Last(factories[u])
           m == Len(built) + 1
<1>1. /\ built \in Seq(CapNames) /\ factories \in [CapUsers -> Seq(CapNames)]
      /\ closers \in Seq(Nat) /\ closing \in [CapUsers -> Seq(Nat)]
      /\ closed \in Seq(Nat) /\ Len(closed) = Len(built) /\ Len(built) \in Nat
  BY DEF CapInv, CapTyped
<1>2. factories[u] # <<>> /\ n \in CapNames /\ Capability!Front(factories[u]) \in Seq(CapNames)
  BY <1>1, StackTop DEF Capability!Construct
<1>3. /\ built' = Append(built, n) /\ capClosed' = capClosed /\ closing' = closing
      /\ factories' = [factories EXCEPT ![u] = Capability!Front(@)]
  BY DEF Capability!Construct
<1>4. \/ /\ capClosed /\ closers' = closers
         /\ closed' = Append(closed, IF n \in CapClosing THEN 1 ELSE 0)
      \/ /\ ~capClosed /\ closed' = Append(closed, 0)
         /\ closers' = IF n \in CapClosing THEN Append(closers, m) ELSE closers
  <2>1. Len(built') = m
    BY <1>1, <1>2, <1>3
  <2> QED
    BY <2>1 DEF Capability!Construct
<1> HIDE DEF n
<1>5. factories' \in [CapUsers -> Seq(CapNames)]
  BY <1>1, <1>2, <1>3
<1>6. /\ Len(built') = m /\ built' \in Seq(CapNames) /\ built'[m] = n
      /\ \A i \in 1..Len(built) : built'[i] = built[i]
      /\ 1..m = 1..Len(built) \cup {m}
  BY <1>1, <1>2, <1>3
<1>7. /\ Len(closed') = m /\ closed' \in Seq(Nat)
      /\ \A i \in 1..Len(built) : closed'[i] = closed[i]
      /\ closed'[m] = IF capClosed /\ n \in CapClosing THEN 1 ELSE 0
  <2> DEFINE calls == IF capClosed /\ n \in CapClosing THEN 1 ELSE 0
  <2>1. calls \in Nat /\ closed' = Append(closed, calls)
    BY <1>4
  <2> HIDE DEF calls
  <2>2. /\ Len(closed') = m /\ closed' \in Seq(Nat) /\ closed'[m] = calls
        /\ \A i \in 1..Len(built) : closed'[i] = closed[i]
    BY <1>1, <2>1
  <2> QED
    BY <2>2 DEF calls
<1>8. \A i : Owed(i) => i \in 1..Len(built) /\ i # m
  BY <1>1 DEF CapInv, ClosedOrOwed
<1>9. m \notin Elements(closers) /\ m \in Nat
  BY <1>1, <1>8 DEF Owed
<1>10. /\ closers' \in Seq(Nat) /\ Distinct(closers')
       /\ Elements(closers') = Elements(closers)
            \cup (IF n \in CapClosing /\ ~capClosed THEN {m} ELSE {})
  <2>1. CASE closers' = closers /\ ~(n \in CapClosing /\ ~capClosed)
    BY <1>1, <2>1 DEF CapInv, ClosersTakenOnce
  <2>2. CASE closers' = Append(closers, m) /\ n \in CapClosing /\ ~capClosed
    <3>1. Append(closers, m) \in Seq(Nat)
      BY <1>1, <1>9
    <3>2. Distinct(closers)
      BY DEF CapInv, ClosersTakenOnce
    <3> QED
      BY <1>1, <1>9, <2>2, <3>1, <3>2, DistinctAppend
  <2> QED
    BY <1>4, <2>1, <2>2
<1> HIDE DEF m
<1>11. \A i : Owed(i)' <=> Owed(i) \/ (i = m /\ n \in CapClosing /\ ~capClosed)
  BY <1>3, <1>10 DEF Owed, Elements
<1>12. CapTyped'
  BY <1>1, <1>3, <1>5, <1>6, <1>7, <1>10 DEF CapTyped
<1>13. ClosersTakenOnce'
  BY <1>3, <1>4, <1>10 DEF CapInv, ClosersTakenOnce, Distinct
<1>14. ASSUME NEW i \in 1..Len(built)
       PROVE  IF built'[i] \in CapClosing
              THEN (closed'[i] = 0 /\ Owed(i)') \/ (closed'[i] = 1 /\ ~Owed(i)' /\ capClosed')
              ELSE closed'[i] = 0
  <2>1. i # m
    BY <1>1 DEF m
  <2> QED
    BY <1>3, <1>6, <1>7, <1>11, <2>1 DEF CapInv, ClosedOrOwed
<1>15. \A i : i = m =>
         IF built'[i] \in CapClosing
         THEN (closed'[i] = 0 /\ Owed(i)') \/ (closed'[i] = 1 /\ ~Owed(i)' /\ capClosed')
         ELSE closed'[i] = 0
  BY <1>3, <1>6, <1>7, <1>8, <1>11
<1>16. \A i : Owed(i)' => i \in 1..m /\ built'[i] \in CapClosing
  BY <1>6, <1>8, <1>11 DEF CapInv, ClosedOrOwed
<1>17. ClosedOrOwed'
  BY <1>6, <1>14, <1>15, <1>16 DEF ClosedOrOwed
<1> QED
  BY <1>12, <1>13, <1>17 DEF CapInv

LEMMA BeginCloseKeeps ==
    ASSUME CapInv, NEW u \in CapUsers, Capability!BeginClose(u)
    PROVE  CapInv'
<1>1. /\ closers \in Seq(Nat) /\ closing \in [CapUsers -> Seq(Nat)] /\ Distinct(closers)
  BY DEF CapInv, CapTyped, ClosersTakenOnce
<1>2. /\ ~capClosed /\ capClosed' = TRUE /\ closers' = <<>>
      /\ closing' = [closing EXCEPT ![u] = Capability!Reverse(closers)]
      /\ built' = built /\ factories' = factories /\ closed' = closed
  BY DEF Capability!BeginClose
<1>3. \A v \in CapUsers : closing[v] = <<>>
  BY <1>2 DEF CapInv, ClosersTakenOnce
<1>4. /\ Capability!Reverse(closers) \in Seq(Nat) /\ Distinct(Capability!Reverse(closers))
      /\ Elements(Capability!Reverse(closers)) = Elements(closers)
  BY <1>1, DistinctReverse
<1>5. /\ closing' \in [CapUsers -> Seq(Nat)]
      /\ closing'[u] = Capability!Reverse(closers)
      /\ \A v \in CapUsers : v # u => closing'[v] = <<>>
  BY <1>1, <1>2, <1>3, <1>4
<1>6. CapTyped'
  BY <1>2, <1>5 DEF CapInv, CapTyped
<1>7. ClosersTakenOnce'
  <2>1. Distinct(closers') /\ \A v \in CapUsers : Distinct(closing'[v])
    BY <1>2, <1>4, <1>5, DistinctEmpty
  <2> QED
    BY <1>2, <1>5, <2>1 DEF ClosersTakenOnce, Distinct
<1>8. \A i : Owed(i)' <=> Owed(i)
  <2>1. \A i : Owed(i) <=> i \in Elements(closers)
    BY <1>3, DistinctEmpty DEF Owed
  <2>2. Elements(closers') = {} /\ Elements(closing'[u]) = Elements(closers)
    BY <1>2, <1>4, <1>5, DistinctEmpty
  <2>3. \A v \in CapUsers : v # u => Elements(closing'[v]) = {}
    BY <1>5, DistinctEmpty
  <2>4. \A i : Owed(i)' <=> i \in Elements(closers') \/ \E v \in CapUsers : i \in Elements(closing'[v])
    BY DEF Owed, Elements
  <2> QED
    BY <2>1, <2>2, <2>3, <2>4
<1>9. ClosedOrOwed'
  BY <1>2, <1>8 DEF CapInv, ClosedOrOwed
<1> QED
  BY <1>6, <1>7, <1>9 DEF CapInv

LEMMA CloseNextKeeps ==
    ASSUME CapInv, NEW u \in CapUsers, Capability!CloseNext(u)
    PROVE  CapInv'
<1> DEFINE h == Head(closing[u])
<1>1. /\ closing \in [CapUsers -> Seq(Nat)] /\ closed \in Seq(Nat) /\ Len(closed) = Len(built)
      /\ closing[u] # <<>> /\ Distinct(closing[u]) /\ capClosed /\ closers = <<>>
      /\ Len(built) \in Nat
  BY DEF CapInv, CapTyped, ClosersTakenOnce, Capability!CloseNext
<1>2. /\ closed' = [closed EXCEPT ![h] = @ + 1] /\ closing' = [closing EXCEPT ![u] = Tail(@)]
      /\ built' = built /\ factories' = factories /\ closers' = closers /\ capClosed' = capClosed
  BY DEF Capability!CloseNext
<1>3. /\ h \in Elements(closing[u]) /\ Distinct(Tail(closing[u]))
      /\ Elements(Tail(closing[u])) = Elements(closing[u]) \ {h}
  BY <1>1, DistinctTail
<1>4. \A v \in CapUsers : v # u => closing[v] = <<>>
  BY <1>1 DEF CapInv, ClosersTakenOnce
<1> HIDE DEF h
<1>5. \A i : Owed(i) <=> i \in Elements(closing[u])
  BY <1>1, <1>4, DistinctEmpty DEF Owed
<1>6. h \in 1..Len(built) /\ built[h] \in CapClosing /\ closed[h] = 0
  BY <1>3, <1>5 DEF CapInv, ClosedOrOwed
<1>7. /\ closed' \in Seq(Nat) /\ Len(closed') = Len(closed) /\ closed'[h] = 1
      /\ \A i \in 1..Len(built) : i # h => closed'[i] = closed[i]
  <2>1. h \in DOMAIN closed /\ closed[h] + 1 = 1 /\ closed[h] + 1 \in Nat
    BY <1>1, <1>6
  <2> QED
    BY <1>1, <1>2, <2>1
<1>8. /\ closing' \in [CapUsers -> Seq(Nat)] /\ closing'[u] = Tail(closing[u])
      /\ \A v \in CapUsers : v # u => closing'[v] = <<>>
  BY <1>1, <1>2, <1>4
<1>9. CapTyped'
  BY <1>2, <1>7, <1>8 DEF CapInv, CapTyped
<1>10. ClosersTakenOnce'
  <2>1. Distinct(closers') /\ \A v \in CapUsers : Distinct(closing'[v])
    BY <1>1, <1>2, <1>3, <1>8, DistinctEmpty
  <2> QED
    BY <1>1, <1>2, <1>8, <2>1 DEF ClosersTakenOnce, Distinct
<1>11. \A i : Owed(i)' <=> Owed(i) /\ i # h
  <2>1. Elements(closers') = {} /\ Elements(closing'[u]) = Elements(closing[u]) \ {h}
    BY <1>1, <1>2, <1>3, <1>8, DistinctEmpty
  <2>2. \A v \in CapUsers : v # u => Elements(closing'[v]) = {}
    BY <1>8, DistinctEmpty
  <2>3. \A i : Owed(i)' <=> i \in Elements(closers') \/ \E v \in CapUsers : i \in Elements(closing'[v])
    BY DEF Owed, Elements
  <2> QED
    BY <1>5, <2>1, <2>2, <2>3
<1>12. ASSUME NEW i \in 1..Len(built)
       PROVE  IF built[i] \in CapClosing
              THEN (closed'[i] = 0 /\ Owed(i)') \/ (closed'[i] = 1 /\ ~Owed(i)' /\ capClosed')
              ELSE closed'[i] = 0
  BY <1>1, <1>2, <1>6, <1>7, <1>11 DEF CapInv, ClosedOrOwed
<1>13. ClosedOrOwed'
  BY <1>2, <1>11, <1>12 DEF CapInv, ClosedOrOwed
<1> QED
  BY <1>9, <1>10, <1>13 DEF CapInv

LEMMA CapabilityStepKeeps ==
    ASSUME CapInv, Capability!CapNext \/ UNCHANGED capabilityVars
    PROVE  CapInv'
<1>1. ASSUME UNCHANGED <<built, closers, capClosed, closing, closed>>,
             factories' \in [CapUsers -> Seq(CapNames)]
      PROVE  CapInv'
  BY <1>1 DEF CapInv, CapTyped, ClosersTakenOnce, ClosedOrOwed, Owed, Distinct, Elements
<1>2. ASSUME NEW u \in CapUsers, NEW n \in CapNames, Capability!Require(u, n) PROVE CapInv'
  <2>1. factories' \in [CapUsers -> Seq(CapNames)]
    BY <1>2 DEF Capability!Require, CapInv, CapTyped
  <2> QED
    BY <1>1, <1>2, <2>1 DEF Capability!Require
<1>3. ASSUME NEW u \in CapUsers, Capability!FactoryFails(u) PROVE CapInv'
  <2>1. factories[u] # <<>> /\ factories \in [CapUsers -> Seq(CapNames)]
    BY <1>3 DEF Capability!FactoryFails, CapInv, CapTyped
  <2>2. Capability!Front(factories[u]) \in Seq(CapNames)
    BY <2>1, StackTop
  <2>3. factories' \in [CapUsers -> Seq(CapNames)]
    BY <1>3, <2>1, <2>2 DEF Capability!FactoryFails
  <2> QED
    BY <1>1, <1>3, <2>3 DEF Capability!FactoryFails
<1>4. CASE UNCHANGED capabilityVars
  BY <1>1, <1>4 DEF capabilityVars, CapInv, CapTyped
<1> QED
  BY <1>2, <1>3, <1>4, ConstructKeeps, BeginCloseKeeps, CloseNextKeeps DEF Capability!CapNext

LEMMA CapabilitySafe == CapInv => Capability!BuiltIsClosedOnce
<1> SUFFICES ASSUME CapInv PROVE Capability!BuiltIsClosedOnce
  OBVIOUS
<1>1. DOMAIN built = 1..Len(built)
  BY DEF CapInv, CapTyped
<1>2. ASSUME NEW i \in DOMAIN built
      PROVE  closed[i] <= (IF built[i] \in CapClosing /\ capClosed THEN 1 ELSE 0)
  BY <1>1 DEF CapInv, ClosedOrOwed
<1>3. ASSUME Capability!CapDone, NEW i \in DOMAIN built, built[i] \in CapClosing
      PROVE  closed[i] = 1
  <2>1. closers = <<>> /\ \A v \in CapUsers : closing[v] = <<>>
    BY <1>3 DEF Capability!CapDone, Capability!Settled, CapInv, ClosersTakenOnce
  <2>2. ~Owed(i)
    BY <2>1, DistinctEmpty DEF Owed
  <2> QED
    BY <1>1, <1>3, <2>2 DEF CapInv, ClosedOrOwed
<1> QED
  BY <1>2, <1>3 DEF Capability!BuiltIsClosedOnce

-----------------------------------------------------------------------------
(* The index.  Only the top call of one thread moves.  A call that has     *)
(* retrievers of an older index was made before the generation changed:    *)
(* whoever resets the index is above it and has cleared the cache.         *)

Places == {"enter", "embed", "init", "fetched", "resetting", "reset", "inserting"}
FrameSet == [op : {"get", "finalize", "update"}, k : IndexTopKs \cup {0}, at : Places,
             generation : Nat, made : Nat]

IndexTyped ==
    /\ index \in Nat /\ retrieverGeneration \in Nat /\ mutations \in Nat /\ backendCloses \in Nat
    /\ retrievers \in [IndexTopKs -> Nat] /\ indexClosed \in BOOLEAN
    /\ indexCalls \in [IndexClients -> Seq(FrameSet)]

OneThread ==
    \A c, d \in IndexClients : indexCalls[c] # <<>> /\ indexCalls[d] # <<>> => c = d

(* The calls of a thread, for a generation g and an index x.  The          *)
(* retrievers a call has fetched are current or will not be kept, a call   *)
(* that resets the index has cleared the cache after those below it, and   *)
(* only a mutation resets and inserts.                                     *)
IsMutation(f) == f.op \in {"finalize", "update"}

StackOk(s, g, x) ==
    /\ \A i \in 1..Len(s) :
          /\ s[i].generation <= g
          /\ s[i].at = "fetched" => s[i].op = "get"
          /\ s[i].at = "fetched" /\ s[i].generation = g => s[i].made = x + 1
          /\ s[i].at \in {"resetting", "reset", "inserting"} => IsMutation(s[i])
    /\ \A i, j \in 1..Len(s) :
          i < j /\ s[j].at \in {"resetting", "reset"} => s[i].generation < g

Unreset(s) == \A i \in 1..Len(s) : s[i].at # "reset"
CacheOk(r, x) == \A k \in IndexTopKs : r[k] \in {0, x + 1}

Mutating(s) == {i \in 1..Len(s) : IsMutation(s[i])}

(* _active_mutations counts the mutations of the thread that has the lock. *)
MutationsCounted ==
    /\ \A c \in IndexClients : indexCalls[c] # <<>> => mutations = Cardinality(Mutating(indexCalls[c]))
    /\ (\A c \in IndexClients : indexCalls[c] = <<>>) => mutations = 0

ClosedAfterMutations == backendCloses = IF indexClosed /\ mutations = 0 THEN 1 ELSE 0

IndexInv ==
    /\ IndexTyped /\ OneThread /\ MutationsCounted /\ ClosedAfterMutations
    /\ \A c \in IndexClients : StackOk(indexCalls[c], retrieverGeneration, index)
    /\ (\A c \in IndexClients : Unreset(indexCalls[c])) => CacheOk(retrievers, index)

(* The calls of the thread that has the lock, and the state they need. *)
ThreadOk(s, g, x, r, m) ==
    /\ StackOk(s, g, x)
    /\ Unreset(s) => CacheOk(r, x)
    /\ m = Cardinality(Mutating(s))

LEMMA MutatingEmpty == Cardinality(Mutating(<<>>)) = 0
<1>1. Mutating(<<>>) = {}
  BY DEF Mutating
<1> QED
  BY <1>1, FS_EmptySet

LEMMA ThreadHas ==
    ASSUME IndexInv, NEW c \in IndexClients,
           \A d \in IndexClients : d # c => indexCalls[d] = <<>>
    PROVE  ThreadOk(indexCalls[c], retrieverGeneration, index, retrievers, mutations)
<1>1. Unreset(<<>>)
  BY DEF Unreset
<1>2. Unreset(indexCalls[c]) => CacheOk(retrievers, index)
  BY <1>1 DEF IndexInv
<1>3. mutations = Cardinality(Mutating(indexCalls[c]))
  BY MutatingEmpty DEF IndexInv, MutationsCounted
<1> QED
  BY <1>2, <1>3 DEF IndexInv, ThreadOk

LEMMA ThreadGives ==
    ASSUME NEW c \in IndexClients, IndexTyped', ClosedAfterMutations',
           \A d \in IndexClients : d # c => indexCalls'[d] = <<>>,
           ThreadOk(indexCalls'[c], retrieverGeneration', index', retrievers', mutations')
    PROVE  IndexInv'
<1>1. OneThread'
  BY DEF OneThread
<1>2. MutationsCounted'
  BY MutatingEmpty DEF MutationsCounted, ThreadOk, Mutating
<1>3. ASSUME NEW d \in IndexClients PROVE StackOk(indexCalls'[d], retrieverGeneration', index')
  <2>1. StackOk(<<>>, retrieverGeneration', index')
    BY DEF StackOk
  <2> QED
    BY <2>1 DEF ThreadOk
<1>4. (\A d \in IndexClients : Unreset(indexCalls'[d])) => CacheOk(retrievers', index')
  BY DEF ThreadOk
<1> QED
  BY <1>1, <1>2, <1>3, <1>4 DEF IndexInv, StackOk, Unreset, CacheOk

LEMMA MutatingFinite ==
    ASSUME NEW s \in Seq(FrameSet)
    PROVE  IsFiniteSet(Mutating(s)) /\ Cardinality(Mutating(s)) \in Nat
<1>1. IsFiniteSet(1..Len(s)) /\ Mutating(s) \subseteq 1..Len(s)
  BY FS_Interval DEF Mutating
<1>2. IsFiniteSet(Mutating(s))
  BY <1>1, FS_Subset
<1> QED
  BY <1>2, FS_CardinalityType

LEMMA FramesTyped ==
    ASSUME NEW s \in Seq(FrameSet)
    PROVE  \A i \in 1..Len(s) : s[i] \in FrameSet /\ s[i].generation \in Nat
<1>1. \A i \in 1..Len(s) : s[i] \in FrameSet
  OBVIOUS
<1>2. \A f \in FrameSet : f.generation \in Nat
  BY DEF FrameSet
<1> QED
  BY <1>1, <1>2

(* A new call on top. *)
LEMMA PushedOk ==
    ASSUME NEW s \in Seq(FrameSet), NEW f \in FrameSet, NEW g \in Nat, NEW x \in Nat, NEW r,
           NEW m \in Nat, ThreadOk(s, g, x, r, m), f.at = "enter", f.generation = g
    PROVE  ThreadOk(Append(s, f), g, x, r, IF IsMutation(f) THEN m + 1 ELSE m)
<1> DEFINE t == Append(s, f)
           n == Len(s)
<1>1. /\ n \in Nat /\ Len(t) = n + 1 /\ 1..(n + 1) = 1..n \cup {n + 1} /\ n + 1 \notin 1..n
      /\ \A i \in 1..n : t[i] = s[i] /\ s[i] \in FrameSet
      /\ t[n + 1] = f
  OBVIOUS
<1> HIDE DEF t, n
<1>2. StackOk(t, g, x)
  <2>1. \A i \in 1..n : s[i].generation \in Nat
    BY <1>1 DEF FrameSet
  <2>2. ASSUME NEW i \in 1..Len(t)
        PROVE  /\ t[i].generation <= g
               /\ t[i].at = "fetched" => t[i].op = "get"
               /\ t[i].at = "fetched" /\ t[i].generation = g => t[i].made = x + 1
               /\ t[i].at \in {"resetting", "reset", "inserting"} => IsMutation(t[i])
    <3>1. CASE i \in 1..n
      BY <1>1, <3>1 DEF ThreadOk, StackOk, n
    <3>2. CASE i = n + 1
      BY <1>1, <3>2
    <3> QED
      BY <1>1, <3>1, <3>2
  <2>3. ASSUME NEW i \in 1..Len(t), NEW j \in 1..Len(t), i < j, t[j].at \in {"resetting", "reset"}
        PROVE  t[i].generation < g
    <3>1. j \in 1..n
      BY <1>1, <2>3
    <3>2. i \in 1..n
      BY <1>1, <2>3, <3>1
    <3> QED
      BY <1>1, <2>3, <3>1, <3>2 DEF ThreadOk, StackOk, n
  <2> QED
    BY <2>2, <2>3 DEF StackOk
<1>3. Unreset(t) => CacheOk(r, x)
  BY <1>1 DEF ThreadOk, Unreset, n
<1>4. Mutating(t) = Mutating(s) \cup (IF IsMutation(f) THEN {n + 1} ELSE {})
  BY <1>1 DEF Mutating, n
<1>5. n + 1 \notin Mutating(s) /\ IsFiniteSet(Mutating(s))
  BY <1>1, MutatingFinite DEF Mutating, n
<1>6. Cardinality(Mutating(t)) = IF IsMutation(f) THEN m + 1 ELSE m
  BY <1>4, <1>5, FS_AddElement DEF ThreadOk
<1> QED
  BY <1>2, <1>3, <1>6 DEF ThreadOk, t

(* The top call ends. *)
LEMMA PoppedOk ==
    ASSUME NEW s \in Seq(FrameSet), s # <<>>, NEW g \in Nat, NEW x \in Nat, NEW r,
           NEW m \in Nat, ThreadOk(s, g, x, r, m)
    PROVE  /\ Index!Front(s) \in Seq(FrameSet)
           /\ StackOk(Index!Front(s), g, x)
           /\ Index!Last(s).at # "reset" => (Unreset(Index!Front(s)) => CacheOk(r, x))
           /\ IsMutation(Index!Last(s)) => m >= 1
           /\ Cardinality(Mutating(Index!Front(s))) = IF IsMutation(Index!Last(s)) THEN m - 1 ELSE m
<1> DEFINE t == Index!Front(s)
           n == Len(s)
<1>1. /\ n \in Nat \ {0} /\ t \in Seq(FrameSet) /\ Len(t) = n - 1
      /\ 1..n = 1..(n - 1) \cup {n} /\ n \notin 1..(n - 1)
      /\ \A i \in 1..(n - 1) : t[i] = s[i]
      /\ Index!Last(s) = s[n]
  <2>1. n \in Nat \ {0} /\ n - 1 \in Nat
    OBVIOUS
  <2>2. t = SubSeq(s, 1, n - 1) /\ Index!Last(s) = s[n]
    BY DEF Index!Front, Index!Last
  <2>3. 1..n = 1..(n - 1) \cup {n} /\ n \notin 1..(n - 1)
    BY <2>1
  <2> HIDE DEF t
  <2>4. t \in Seq(FrameSet) /\ Len(t) = n - 1 /\ \A i \in 1..(n - 1) : t[i] = s[i]
    <3>1. \A i \in 1..(n - 1) : i \in 1..Len(s)
      BY <2>1
    <3>2. t \in Seq(FrameSet)
      BY <2>1, <2>2, <3>1
    <3>3. Len(t) = n - 1
      <4>1. \A i \in 1..(n - 1) : s[i] \in FrameSet
        BY <3>1
      <4>2. Len(SubSeq(s, 1, n - 1)) = IF 1 <= n - 1 THEN n - 1 - 1 + 1 ELSE 0
        BY <2>1, <4>1, SubSeqProperties
      <4> HIDE DEF n
      <4>3. (IF 1 <= n - 1 THEN n - 1 - 1 + 1 ELSE 0) = n - 1
        BY <2>1
      <4> QED
        BY <2>2, <4>2, <4>3, Zenon
    <3>4. ASSUME NEW i \in 1..(n - 1) PROVE t[i] = s[i]
      BY <2>1, <2>2
    <3> QED
      BY <3>2, <3>3, <3>4
  <2> QED
    BY <2>1, <2>2, <2>3, <2>4
<1> HIDE DEF t, n
<1>2. StackOk(t, g, x)
  BY <1>1 DEF ThreadOk, StackOk, n
<1>3. s[n].at # "reset" => (Unreset(t) => CacheOk(r, x))
  BY <1>1 DEF ThreadOk, Unreset, n
<1>4. Mutating(t) = Mutating(s) \ {n} /\ (IsMutation(s[n]) <=> n \in Mutating(s))
  BY <1>1 DEF Mutating, n
<1>5. IsFiniteSet(Mutating(s)) /\ m = Cardinality(Mutating(s))
  BY MutatingFinite DEF ThreadOk
<1>6. CASE IsMutation(s[n])
  <2>1. Cardinality(Mutating(t)) = m - 1
    BY <1>4, <1>5, <1>6, FS_RemoveElement
  <2>2. Cardinality(Mutating(t)) \in Nat
    BY <1>1, MutatingFinite
  <2> QED
    BY <1>1, <1>2, <1>3, <1>6, <2>1, <2>2 DEF t
<1>7. CASE ~IsMutation(s[n])
  <2>1. Mutating(t) = Mutating(s)
    BY <1>4, <1>7
  <2> QED
    BY <1>1, <1>2, <1>3, <1>5, <1>7, <2>1 DEF t
<1> QED
  BY <1>6, <1>7

(* The top call moves on. *)
Moved(s, t) ==
    /\ Len(t) = Len(s)
    /\ \A i \in 1..Len(s) : i # Len(s) => t[i] = s[i]
    /\ t[Len(s)].op = s[Len(s)].op /\ t[Len(s)].generation = s[Len(s)].generation

LEMMA MovedOk ==
    ASSUME NEW s \in Seq(FrameSet), s # <<>>, NEW t \in Seq(FrameSet), Moved(s, t),
           NEW g \in Nat, NEW x \in Nat, NEW r, NEW m \in Nat, ThreadOk(s, g, x, r, m),
           s[Len(s)].at # "reset",
           t[Len(s)].at = "fetched" => t[Len(s)].op = "get" /\ t[Len(s)].made = x + 1,
           t[Len(s)].at \in {"resetting", "reset", "inserting"} => IsMutation(t[Len(s)]),
           t[Len(s)].at \in {"resetting", "reset"} => \A i \in 1..(Len(s) - 1) : s[i].generation < g
    PROVE  ThreadOk(t, g, x, r, m)
<1> DEFINE n == Len(s)
<1>1. n \in Nat \ {0} /\ n \in 1..n
  OBVIOUS
<1>2. /\ Len(t) = n
      /\ \A i \in 1..n : i # n => t[i] = s[i]
      /\ t[n].op = s[n].op /\ t[n].generation = s[n].generation
  BY DEF Moved
<1>3. \A i \in 1..n : t[i].generation = s[i].generation /\ t[i].op = s[i].op
  BY <1>2
<1> HIDE DEF n
<1>4. StackOk(t, g, x)
  <2>1. ASSUME NEW i \in 1..n
        PROVE  /\ t[i].generation <= g
               /\ t[i].at = "fetched" => t[i].op = "get"
               /\ t[i].at = "fetched" /\ t[i].generation = g => t[i].made = x + 1
               /\ t[i].at \in {"resetting", "reset", "inserting"} => IsMutation(t[i])
    <3>1. CASE i # n
      BY <1>2, <3>1 DEF ThreadOk, StackOk, n
    <3>2. CASE i = n
      BY <1>1, <1>3, <3>2 DEF ThreadOk, StackOk, n
    <3> QED
      BY <3>1, <3>2
  <2>2. ASSUME NEW i \in 1..n, NEW j \in 1..n, i < j, t[j].at \in {"resetting", "reset"}
        PROVE  t[i].generation < g
    <3>1. CASE j # n
      BY <1>2, <1>3, <2>2, <3>1 DEF ThreadOk, StackOk, n
    <3>2. CASE j = n
      <4>1. i \in 1..(n - 1)
        BY <1>1, <2>2, <3>2
      <4> QED
        BY <1>3, <2>2, <3>2, <4>1 DEF n
    <3> QED
      BY <3>1, <3>2
  <2> QED
    BY <1>2, <2>1, <2>2 DEF StackOk
<1>5. Unreset(t) => CacheOk(r, x)
  <2>1. Unreset(t) => Unreset(s)
    BY <1>2 DEF Unreset, n
  <2> QED
    BY <2>1 DEF ThreadOk
<1>6. Mutating(t) = Mutating(s)
  BY <1>2, <1>3 DEF Mutating, IsMutation, n
<1> QED
  BY <1>4, <1>5, <1>6 DEF ThreadOk

(* clear_retriever_cache: whatever the index becomes, no call keeps what it *)
(* has fetched.                                                             *)
LEMMA ClearedOk ==
    ASSUME NEW s \in Seq(FrameSet), NEW g \in Nat, NEW x \in Nat, NEW y \in Nat, StackOk(s, g, x),
           NEW r, \A k \in IndexTopKs : r[k] = 0
    PROVE  /\ StackOk(s, g + 1, y) /\ CacheOk(r, y)
           /\ \A i \in 1..Len(s) : s[i].generation < g + 1
<1>1. \A i \in 1..Len(s) : s[i].generation \in Nat /\ s[i].generation <= g
  BY FramesTyped DEF StackOk
<1>2. \A i \in 1..Len(s) : s[i].generation <= g + 1 /\ s[i].generation < g + 1 /\ s[i].generation # g + 1
  BY <1>1
<1> QED
  BY <1>2 DEF StackOk, CacheOk

(* reset_index: the calls below the one that resets will not keep what they *)
(* have fetched of the old index.                                           *)
LEMMA ResetOk ==
    ASSUME NEW s \in Seq(FrameSet), s # <<>>, NEW t \in Seq(FrameSet), Moved(s, t),
           NEW g \in Nat, NEW x \in Nat, NEW r, NEW m \in Nat, ThreadOk(s, g, x, r, m),
           s[Len(s)].at = "resetting", t[Len(s)].at = "reset"
    PROVE  ThreadOk(t, g, x + 1, r, m)
<1> DEFINE n == Len(s)
<1>1. n \in Nat \ {0} /\ n \in 1..n
  OBVIOUS
<1>2. \A i \in 1..(n - 1) : s[i].generation < g /\ s[i].generation \in Nat
  <2>1. \A i \in 1..(n - 1) : i \in 1..n /\ i < n
    BY <1>1
  <2> QED
    BY <1>1, <2>1, FramesTyped DEF ThreadOk, StackOk
<1>3. /\ Len(t) = n
      /\ \A i \in 1..n : i # n => t[i] = s[i]
      /\ t[n].op = s[n].op /\ t[n].generation = s[n].generation
  BY DEF Moved
<1>4. \A i \in 1..n : t[i].generation = s[i].generation /\ t[i].op = s[i].op
  BY <1>3
<1>5. IsMutation(t[n])
  BY <1>1, <1>3 DEF ThreadOk, StackOk, IsMutation
<1> HIDE DEF n
<1>6. StackOk(t, g, x + 1)
  <2>1. ASSUME NEW i \in 1..n
        PROVE  /\ t[i].generation <= g
               /\ t[i].at = "fetched" => t[i].op = "get"
               /\ t[i].at = "fetched" /\ t[i].generation = g => t[i].made = x + 1 + 1
               /\ t[i].at \in {"resetting", "reset", "inserting"} => IsMutation(t[i])
    <3>1. CASE i # n
      <4>1. i \in 1..(n - 1)
        BY <1>1, <3>1
      <4>2. s[i].generation # g
        BY <1>2, <4>1
      <4> QED
        BY <1>3, <3>1, <4>2 DEF ThreadOk, StackOk, n
    <3>2. CASE i = n
      BY <1>4, <1>5, <3>2 DEF ThreadOk, StackOk, n
    <3> QED
      BY <3>1, <3>2
  <2>2. ASSUME NEW i \in 1..n, NEW j \in 1..n, i < j PROVE t[i].generation < g
    <3>1. i \in 1..(n - 1)
      BY <1>1, <2>2
    <3> QED
      BY <1>2, <1>4, <3>1
  <2> QED
    BY <1>3, <2>1, <2>2 DEF StackOk
<1>7. ~Unreset(t)
  BY <1>1, <1>3 DEF Unreset, n
<1>8. Mutating(t) = Mutating(s)
  BY <1>3, <1>4 DEF Mutating, IsMutation, n
<1> QED
  BY <1>6, <1>7, <1>8 DEF ThreadOk

(* What the steps do to the stack of the thread. *)
LEMMA PushStep ==
    ASSUME IndexTyped, NEW c \in IndexClients, NEW f \in FrameSet, Index!Push(c, f)
    PROVE  /\ indexCalls' \in [IndexClients -> Seq(FrameSet)]
           /\ indexCalls'[c] = Append(indexCalls[c], f)
           /\ \A d \in IndexClients : d # c => indexCalls'[d] = indexCalls[d]
BY DEF IndexTyped, Index!Push

LEMMA PopStep ==
    ASSUME IndexTyped, NEW c \in IndexClients, Index!Pop(c),
           Index!Front(indexCalls[c]) \in Seq(FrameSet)
    PROVE  /\ indexCalls' \in [IndexClients -> Seq(FrameSet)]
           /\ indexCalls'[c] = Index!Front(indexCalls[c])
           /\ \A d \in IndexClients : d # c => indexCalls'[d] = indexCalls[d]
BY DEF IndexTyped, Index!Pop

(* A stack whose top frame is replaced. *)
LEMMA TopReplaced ==
    ASSUME NEW s \in Seq(FrameSet), s # <<>>, NEW f \in FrameSet,
           NEW t, t = [s EXCEPT ![Len(s)] = f],
           f.op = s[Len(s)].op, f.generation = s[Len(s)].generation
    PROVE  t \in Seq(FrameSet) /\ Moved(s, t) /\ t[Len(s)] = f
<1>1. Len(s) \in 1..Len(s)
  OBVIOUS
<1>2. t \in Seq(FrameSet) /\ Len(t) = Len(s) /\ t[Len(s)] = f
  BY <1>1
<1>3. \A i \in 1..Len(s) : i # Len(s) => t[i] = s[i]
  BY <1>1
<1> QED
  BY <1>2, <1>3 DEF Moved

LEMMA AtStep ==
    ASSUME IndexTyped, NEW c \in IndexClients, NEW place \in Places, Index!At(c, place),
           indexCalls[c] # <<>>
    PROVE  /\ indexCalls' \in [IndexClients -> Seq(FrameSet)]
           /\ Moved(indexCalls[c], indexCalls'[c])
           /\ indexCalls'[c][Len(indexCalls[c])].at = place
           /\ \A d \in IndexClients : d # c => indexCalls'[d] = indexCalls[d]
<1> DEFINE s == indexCalls[c]
           f == [s[Len(s)] EXCEPT !.at = place]
           t == [s EXCEPT ![Len(s)] = f]
<1>1. s \in Seq(FrameSet) /\ Len(s) \in 1..Len(s)
  BY DEF IndexTyped
<1>2. s[Len(s)] \in FrameSet
  BY <1>1, FramesTyped
<1>3. /\ f \in FrameSet /\ f.at = place
      /\ f.op = s[Len(s)].op /\ f.generation = s[Len(s)].generation
  BY <1>2 DEF FrameSet
<1>4. indexCalls' = [indexCalls EXCEPT ![c] = t]
  BY DEF Index!At
<1> HIDE DEF f
<1>5. t \in Seq(FrameSet) /\ Moved(s, t) /\ t[Len(s)] = f
  BY <1>1, <1>3, TopReplaced
<1> HIDE DEF t
<1> QED
  BY <1>3, <1>4, <1>5 DEF IndexTyped

LEMMA FetchStep ==
    ASSUME IndexTyped, NEW c \in IndexClients, Index!FetchRetrievers(c)
    PROVE  /\ indexCalls' \in [IndexClients -> Seq(FrameSet)]
           /\ Moved(indexCalls[c], indexCalls'[c])
           /\ indexCalls'[c][Len(indexCalls[c])].at = "fetched"
           /\ indexCalls'[c][Len(indexCalls[c])].made = index + 1
           /\ \A d \in IndexClients : d # c => indexCalls'[d] = indexCalls[d]
<1> DEFINE s == indexCalls[c]
           g == [s[Len(s)] EXCEPT !.at = "fetched"]
           f == [g EXCEPT !.made = index + 1]
           t == [s EXCEPT ![Len(s)] = f]
<1>1. s \in Seq(FrameSet) /\ Len(s) \in 1..Len(s) /\ s # <<>>
  BY DEF IndexTyped, Index!FetchRetrievers, Index!In
<1>2. s[Len(s)] \in FrameSet
  BY <1>1, FramesTyped
<1>3. /\ g \in FrameSet /\ g.at = "fetched"
      /\ g.op = s[Len(s)].op /\ g.generation = s[Len(s)].generation
  BY <1>2 DEF FrameSet, Places
<1>4. /\ f \in FrameSet /\ f.at = "fetched" /\ f.made = index + 1
      /\ f.op = s[Len(s)].op /\ f.generation = s[Len(s)].generation
  <2>1. index + 1 \in Nat
    BY DEF IndexTyped
  <2> HIDE DEF g
  <2> QED
    BY <1>3, <2>1 DEF FrameSet
<1>5. indexCalls' = [indexCalls EXCEPT ![c] = t]
  BY <1>1, <1>2 DEF Index!FetchRetrievers, IndexTyped
<1> HIDE DEF f
<1>6. t \in Seq(FrameSet) /\ Moved(s, t) /\ t[Len(s)] = f
  BY <1>1, <1>4, TopReplaced
<1> HIDE DEF t
<1> QED
  BY <1>4, <1>5, <1>6 DEF IndexTyped

(* The other threads make no call while this one has the lock. *)
Alone(c) == \A d \in IndexClients : d # c => indexCalls[d] = <<>>

LEMMA HasTheLock ==
    ASSUME IndexInv, NEW c \in IndexClients, indexCalls[c] # <<>> \/ Index!MayCall(c)
    PROVE  Alone(c)
BY DEF IndexInv, OneThread, Alone, Index!MayCall, Index!HoldsLock

LEMMA PushKeeps ==
    ASSUME IndexInv, NEW c \in IndexClients, Alone(c), NEW f \in FrameSet, Index!Push(c, f),
           f.at = "enter", f.generation = retrieverGeneration,
           IsMutation(f) => ~indexClosed,
           mutations' = IF IsMutation(f) THEN mutations + 1 ELSE mutations,
           UNCHANGED <<index, backendCloses, retrievers, retrieverGeneration, indexClosed>>
    PROVE  IndexInv'
<1>1. IndexTyped /\ ClosedAfterMutations
  BY DEF IndexInv
<1>2. /\ indexCalls' \in [IndexClients -> Seq(FrameSet)]
      /\ indexCalls'[c] = Append(indexCalls[c], f)
      /\ \A d \in IndexClients : d # c => indexCalls'[d] = <<>>
  BY <1>1, PushStep DEF Alone
<1>3. ThreadOk(indexCalls[c], retrieverGeneration, index, retrievers, mutations)
  BY ThreadHas DEF Alone
<1>4. /\ indexCalls[c] \in Seq(FrameSet) /\ retrieverGeneration \in Nat /\ index \in Nat
      /\ mutations \in Nat
  BY <1>1 DEF IndexTyped
<1>5. ThreadOk(indexCalls'[c], retrieverGeneration', index', retrievers', mutations')
  BY <1>2, <1>3, <1>4, PushedOk
<1>6. IndexTyped'
  BY <1>1, <1>2, <1>4 DEF IndexTyped
<1>7. ClosedAfterMutations'
  BY <1>1, <1>4 DEF ClosedAfterMutations
<1> QED
  BY <1>2, <1>5, <1>6, <1>7, ThreadGives

LEMMA MoveKeeps ==
    ASSUME IndexInv, NEW c \in IndexClients, indexCalls[c] # <<>>,
           indexCalls' \in [IndexClients -> Seq(FrameSet)],
           Moved(indexCalls[c], indexCalls'[c]),
           \A d \in IndexClients : d # c => indexCalls'[d] = indexCalls[d],
           Index!Top(c).at # "reset",
           LET f == indexCalls'[c][Len(indexCalls[c])] IN
              /\ f.at \notin {"resetting", "reset"}
              /\ f.at = "fetched" => f.op = "get" /\ f.made = index + 1
              /\ f.at = "inserting" => IsMutation(f),
           UNCHANGED <<index, backendCloses, retrievers, retrieverGeneration, indexClosed, mutations>>
    PROVE  IndexInv'
<1>1. IndexTyped /\ ClosedAfterMutations /\ Alone(c)
  BY HasTheLock DEF IndexInv
<1>2. ThreadOk(indexCalls[c], retrieverGeneration, index, retrievers, mutations)
  BY <1>1, ThreadHas DEF Alone
<1>3. /\ indexCalls[c] \in Seq(FrameSet) /\ indexCalls'[c] \in Seq(FrameSet)
      /\ retrieverGeneration \in Nat /\ index \in Nat /\ mutations \in Nat
  BY <1>1 DEF IndexTyped
<1>4. indexCalls[c][Len(indexCalls[c])].at # "reset"
  BY DEF Index!Top, Index!Last
<1>5. ThreadOk(indexCalls'[c], retrieverGeneration, index, retrievers, mutations)
  BY <1>2, <1>3, <1>4, MovedOk
<1>6. IndexTyped' /\ ClosedAfterMutations'
  BY <1>1 DEF IndexTyped, ClosedAfterMutations
<1> QED
  BY <1>1, <1>5, <1>6, ThreadGives DEF Alone

(* clear_retriever_cache and a move of the top call. *)
LEMMA ClearKeeps ==
    ASSUME IndexInv, NEW c \in IndexClients, indexCalls[c] # <<>>,
           NEW place \in {"resetting", "inserting"}, Index!At(c, place),
           IsMutation(Index!Top(c)),
           Index!ClearRetrieverCache,
           UNCHANGED <<index, backendCloses, indexClosed, mutations>>
    PROVE  IndexInv'
<1> DEFINE s == indexCalls[c]
           t == indexCalls'[c]
<1>1. IndexTyped /\ ClosedAfterMutations /\ Alone(c)
  BY HasTheLock DEF IndexInv
<1>2. /\ indexCalls' \in [IndexClients -> Seq(FrameSet)] /\ Moved(s, t) /\ t[Len(s)].at = place
      /\ \A d \in IndexClients : d # c => indexCalls'[d] = <<>>
  BY <1>1, AtStep DEF Places, Alone
<1>3. ThreadOk(s, retrieverGeneration, index, retrievers, mutations)
  BY <1>1, ThreadHas DEF Alone
<1>4. /\ s \in Seq(FrameSet) /\ t \in Seq(FrameSet) /\ retrieverGeneration \in Nat /\ index \in Nat
      /\ mutations \in Nat /\ retrieverGeneration + 1 \in Nat
  BY <1>1, <1>2 DEF IndexTyped
<1>5. /\ retrieverGeneration' = retrieverGeneration + 1
      /\ retrievers' = [k \in IndexTopKs |-> 0]
      /\ \A k \in IndexTopKs : retrievers'[k] = 0
  BY DEF Index!ClearRetrieverCache
<1>6. /\ StackOk(s, retrieverGeneration + 1, index) /\ CacheOk(retrievers', index)
      /\ \A i \in 1..Len(s) : s[i].generation < retrieverGeneration + 1
  BY <1>3, <1>4, <1>5, ClearedOk DEF ThreadOk
<1>7. StackOk(t, retrieverGeneration + 1, index)
  <2>1. Len(s) \in Nat \ {0} /\ Len(s) \in 1..Len(s)
    BY <1>4
  <2>2. /\ Len(t) = Len(s) /\ \A i \in 1..Len(s) : i # Len(s) => t[i] = s[i]
        /\ t[Len(s)].generation = s[Len(s)].generation /\ t[Len(s)].op = s[Len(s)].op
    BY <1>2 DEF Moved
  <2>3. IsMutation(t[Len(s)])
    BY <2>2 DEF Index!Top, Index!Last, IsMutation
  <2>4. \A i \in 1..Len(s) : t[i].generation = s[i].generation
    BY <2>2
  <2>5. ASSUME NEW i \in 1..Len(t)
        PROVE  /\ t[i].generation <= retrieverGeneration + 1
               /\ t[i].at = "fetched" => t[i].op = "get"
               /\ t[i].at = "fetched" /\ t[i].generation = retrieverGeneration + 1
                     => t[i].made = index + 1
               /\ t[i].at \in {"resetting", "reset", "inserting"} => IsMutation(t[i])
    <3>1. CASE i # Len(s)
      BY <1>6, <2>2, <3>1 DEF StackOk
    <3>2. CASE i = Len(s)
      BY <1>2, <1>6, <2>1, <2>3, <2>4, <3>2 DEF StackOk
    <3> QED
      BY <3>1, <3>2
  <2> QED
    BY <1>6, <2>2, <2>4, <2>5 DEF StackOk
<1>8. Mutating(t) = Mutating(s)
  BY <1>2 DEF Mutating, Moved, IsMutation
<1>9. ThreadOk(t, retrieverGeneration', index', retrievers', mutations')
  BY <1>3, <1>5, <1>6, <1>7, <1>8 DEF ThreadOk
<1>10. IndexTyped' /\ ClosedAfterMutations'
  BY <1>1, <1>2, <1>4, <1>5 DEF IndexTyped, ClosedAfterMutations
<1> QED
  BY <1>2, <1>9, <1>10, ThreadGives

LEMMA ResetKeeps ==
    ASSUME IndexInv, NEW c \in IndexClients, Index!ResetIndex(c)
    PROVE  IndexInv'
<1> DEFINE s == indexCalls[c]
           t == indexCalls'[c]
<1>1. s # <<>> /\ s[Len(s)].at = "resetting"
  BY DEF Index!ResetIndex, Index!In, Index!Top, Index!Last
<1>2. IndexTyped /\ ClosedAfterMutations /\ Alone(c)
  BY <1>1, HasTheLock DEF IndexInv
<1>3. /\ index' = index + 1 /\ Index!At(c, "reset")
      /\ UNCHANGED <<mutations, indexClosed, backendCloses, retrievers, retrieverGeneration>>
  BY DEF Index!ResetIndex, Index!cache
<1>4. /\ indexCalls' \in [IndexClients -> Seq(FrameSet)] /\ Moved(s, t) /\ t[Len(s)].at = "reset"
      /\ \A d \in IndexClients : d # c => indexCalls'[d] = <<>>
  BY <1>1, <1>2, <1>3, AtStep DEF Places, Alone
<1>5. ThreadOk(s, retrieverGeneration, index, retrievers, mutations)
  BY <1>2, ThreadHas DEF Alone
<1>6. /\ s \in Seq(FrameSet) /\ t \in Seq(FrameSet) /\ retrieverGeneration \in Nat /\ index \in Nat
      /\ mutations \in Nat /\ index + 1 \in Nat
  BY <1>2, <1>4 DEF IndexTyped
<1>7. ThreadOk(t, retrieverGeneration', index', retrievers', mutations')
  BY <1>1, <1>3, <1>4, <1>5, <1>6, ResetOk
<1>8. IndexTyped' /\ ClosedAfterMutations'
  BY <1>2, <1>3, <1>4, <1>6 DEF IndexTyped, ClosedAfterMutations
<1> QED
  BY <1>4, <1>7, <1>8, ThreadGives

(* The top call ends; the cache and the generation are as the call leaves  *)
(* them.                                                                   *)
LEMMA PopKeeps ==
    ASSUME IndexInv, NEW c \in IndexClients, indexCalls[c] # <<>>, Index!Pop(c),
           IF IsMutation(Index!Top(c)) THEN Index!EndMutation ELSE UNCHANGED <<mutations, backendCloses>>,
           retrievers' \in [IndexTopKs -> Nat],
           \/ /\ retrieverGeneration' = retrieverGeneration
              /\ Index!Top(c).at # "reset"
              /\ CacheOk(retrievers, index) => CacheOk(retrievers', index)
           \/ Index!ClearRetrieverCache,
           UNCHANGED <<index, indexClosed>>
    PROVE  IndexInv'
<1> DEFINE s == indexCalls[c]
           t == Index!Front(s)
<1>1. IndexTyped /\ ClosedAfterMutations /\ Alone(c)
  BY HasTheLock DEF IndexInv
<1>2. ThreadOk(s, retrieverGeneration, index, retrievers, mutations)
  BY <1>1, ThreadHas DEF Alone
<1>3. /\ s \in Seq(FrameSet) /\ retrieverGeneration \in Nat /\ index \in Nat /\ mutations \in Nat
      /\ backendCloses \in Nat
  BY <1>1 DEF IndexTyped
<1>4. /\ t \in Seq(FrameSet) /\ StackOk(t, retrieverGeneration, index)
      /\ Index!Top(c).at # "reset" => (Unreset(t) => CacheOk(retrievers, index))
      /\ IsMutation(Index!Top(c)) => mutations >= 1
      /\ Cardinality(Mutating(t)) = IF IsMutation(Index!Top(c)) THEN mutations - 1 ELSE mutations
  BY <1>2, <1>3, PoppedOk DEF Index!Top
<1>5. /\ indexCalls' \in [IndexClients -> Seq(FrameSet)] /\ indexCalls'[c] = t
      /\ \A d \in IndexClients : d # c => indexCalls'[d] = <<>>
  BY <1>1, <1>4, PopStep DEF Alone
<1> HIDE DEF t
<1>6. StackOk(t, retrieverGeneration', index) /\ (Unreset(t) => CacheOk(retrievers', index))
      /\ retrieverGeneration' \in Nat
  <2>1. CASE retrieverGeneration' = retrieverGeneration /\ Index!Top(c).at # "reset"
             /\ (CacheOk(retrievers, index) => CacheOk(retrievers', index))
    BY <1>3, <1>4, <2>1
  <2>2. CASE Index!ClearRetrieverCache
    <3>1. /\ retrieverGeneration' = retrieverGeneration + 1
          /\ \A k \in IndexTopKs : retrievers'[k] = 0
      BY <2>2 DEF Index!ClearRetrieverCache
    <3> QED
      BY <1>3, <1>4, <3>1, ClearedOk
  <2> QED
    BY <2>1, <2>2
<1>7. /\ mutations' = IF IsMutation(Index!Top(c)) THEN mutations - 1 ELSE mutations
      /\ mutations' \in Nat /\ backendCloses' \in Nat /\ ClosedAfterMutations'
  <2>1. CASE IsMutation(Index!Top(c))
    BY <1>1, <1>3, <1>4, <2>1 DEF Index!EndMutation, ClosedAfterMutations, IndexTyped
  <2>2. CASE ~IsMutation(Index!Top(c))
    BY <1>1, <1>3, <2>2 DEF ClosedAfterMutations
  <2> QED
    BY <2>1, <2>2
<1>8. ThreadOk(indexCalls'[c], retrieverGeneration', index', retrievers', mutations')
  BY <1>4, <1>5, <1>6, <1>7 DEF ThreadOk
<1>9. IndexTyped'
  BY <1>1, <1>5, <1>6, <1>7 DEF IndexTyped
<1> QED
  BY <1>5, <1>7, <1>8, <1>9, ThreadGives

(* What no step of a call changes. *)
LEMMA IndexSame ==
    ASSUME IndexInv, UNCHANGED <<index, retrievers, retrieverGeneration, mutations, indexClosed,
                                 backendCloses, indexCalls>>
    PROVE  IndexInv'
<1>1. IndexTyped' /\ OneThread' /\ ClosedAfterMutations'
  BY DEF IndexInv, IndexTyped, OneThread, ClosedAfterMutations
<1>2. MutationsCounted'
  BY DEF IndexInv, MutationsCounted, Mutating
<1> QED
  BY <1>1, <1>2 DEF IndexInv, StackOk, Unreset, CacheOk

LEMMA CloseKeeps ==
    ASSUME IndexInv, NEW c \in IndexClients, Index!CloseIndex(c)
    PROVE  IndexInv'
<1>1. IndexTyped /\ ClosedAfterMutations /\ Alone(c)
  BY HasTheLock DEF IndexInv, Index!CloseIndex
<1>2. /\ ~indexClosed /\ indexClosed' = TRUE /\ indexCalls' = indexCalls
      /\ index' = index /\ mutations' = mutations
      /\ retrievers' = [k \in IndexTopKs |-> 0] /\ retrieverGeneration' = retrieverGeneration + 1
      /\ backendCloses' = IF mutations = 0 THEN backendCloses + 1 ELSE backendCloses
  BY DEF Index!CloseIndex, Index!ClearRetrieverCache
<1>3. ThreadOk(indexCalls[c], retrieverGeneration, index, retrievers, mutations)
  BY <1>1, ThreadHas DEF Alone
<1>4. /\ indexCalls[c] \in Seq(FrameSet) /\ retrieverGeneration \in Nat /\ index \in Nat
      /\ mutations \in Nat /\ backendCloses \in Nat
  BY <1>1 DEF IndexTyped
<1>5. /\ StackOk(indexCalls[c], retrieverGeneration + 1, index) /\ CacheOk(retrievers', index)
  BY <1>2, <1>3, <1>4, ClearedOk DEF ThreadOk
<1>6. ThreadOk(indexCalls'[c], retrieverGeneration', index', retrievers', mutations')
  BY <1>2, <1>3, <1>5 DEF ThreadOk
<1>7. IndexTyped'
  BY <1>1, <1>2, <1>4 DEF IndexTyped
<1>8. ClosedAfterMutations'
  BY <1>1, <1>2, <1>4 DEF ClosedAfterMutations
<1> QED
  BY <1>1, <1>2, <1>6, <1>7, <1>8, ThreadGives DEF Alone

LEMMA FrameTyped ==
    ASSUME IndexTyped, NEW op \in {"get", "finalize", "update"}, NEW k \in IndexTopKs \cup {0}
    PROVE  /\ Index!Frame(op, k) \in FrameSet
           /\ Index!Frame(op, k).at = "enter"
           /\ Index!Frame(op, k).op = op
           /\ Index!Frame(op, k).generation = retrieverGeneration
BY DEF IndexTyped, Index!Frame, FrameSet, Places

LEMMA IndexInitial == Index!IndexInit => IndexInv
<1> SUFFICES ASSUME Index!IndexInit PROVE IndexInv
  OBVIOUS
<1>1. IndexTyped /\ OneThread /\ MutationsCounted /\ ClosedAfterMutations
  <2>1. IndexTyped
    <3>1. <<>> \in Seq(FrameSet)
      OBVIOUS
    <3>2. indexCalls \in [IndexClients -> Seq(FrameSet)]
      BY <3>1 DEF Index!IndexInit
    <3>3. retrievers \in [IndexTopKs -> Nat]
      BY DEF Index!IndexInit
    <3>4. /\ index \in Nat /\ retrieverGeneration \in Nat /\ mutations \in Nat /\ backendCloses \in Nat
          /\ indexClosed \in BOOLEAN
      BY DEF Index!IndexInit
    <3> QED
      BY <3>2, <3>3, <3>4 DEF IndexTyped
  <2>2. \A c \in IndexClients : indexCalls[c] = <<>>
    BY DEF Index!IndexInit
  <2>3. OneThread /\ MutationsCounted
    BY <2>2 DEF Index!IndexInit, OneThread, MutationsCounted
  <2>4. ClosedAfterMutations
    BY DEF Index!IndexInit, ClosedAfterMutations
  <2> QED
    BY <2>1, <2>3, <2>4
<1>2. \A c \in IndexClients : StackOk(indexCalls[c], retrieverGeneration, index)
  BY DEF Index!IndexInit, StackOk
<1>3. CacheOk(retrievers, index)
  BY DEF Index!IndexInit, CacheOk
<1> QED
  BY <1>1, <1>2, <1>3 DEF IndexInv

LEMMA IndexStepKeeps ==
    ASSUME IndexInv, Index!IndexNext \/ UNCHANGED indexVars
    PROVE  IndexInv'
<1>0. IndexTyped
  BY DEF IndexInv
<1>1. ASSUME NEW c \in IndexClients, NEW k \in IndexTopKs, Index!GetRetrievers(c, k)
      PROVE  IndexInv'
  <2> DEFINE f == Index!Frame("get", k)
  <2>1. /\ Index!MayCall(c) /\ Index!Push(c, f)
        /\ UNCHANGED <<index, backendCloses, retrievers, retrieverGeneration, indexClosed, mutations>>
    BY <1>1 DEF Index!GetRetrievers, Index!backend, Index!cache
  <2>2. /\ f \in FrameSet /\ f.at = "enter" /\ f.generation = retrieverGeneration
        /\ ~IsMutation(f)
    BY <1>0, FrameTyped DEF IsMutation
  <2> HIDE DEF f
  <2> QED
    BY <2>1, <2>2, HasTheLock, PushKeeps
<1>2. ASSUME NEW c \in IndexClients, NEW op \in {"finalize", "update"},
             Index!MayCall(c), ~indexClosed, mutations' = mutations + 1,
             Index!Push(c, Index!Frame(op, 0)),
             UNCHANGED <<index, backendCloses, retrievers, retrieverGeneration, indexClosed>>
      PROVE  IndexInv'
  <2> DEFINE f == Index!Frame(op, 0)
  <2>1. /\ f \in FrameSet /\ f.at = "enter" /\ f.generation = retrieverGeneration
        /\ IsMutation(f)
    BY <1>0, FrameTyped DEF IsMutation
  <2>2. Index!Push(c, f)
    BY <1>2
  <2> HIDE DEF f
  <2> QED
    BY <1>2, <2>1, <2>2, HasTheLock, PushKeeps
<1>3. ASSUME NEW c \in IndexClients, Index!FinalizeEmbeddings(c) PROVE IndexInv'
  <2>1. UNCHANGED <<index, backendCloses, retrievers, retrieverGeneration, indexClosed>>
    BY <1>3 DEF Index!FinalizeEmbeddings, Index!backend, Index!cache
  <2>2. CASE indexClosed
    BY <1>3, <2>1, <2>2, IndexSame DEF Index!FinalizeEmbeddings
  <2>3. CASE ~indexClosed
    BY <1>2, <1>3, <2>1, <2>3 DEF Index!FinalizeEmbeddings
  <2> QED
    BY <2>2, <2>3
<1>4. ASSUME NEW c \in IndexClients, Index!UpdateIndex(c) PROVE IndexInv'
  BY <1>2, <1>4 DEF Index!UpdateIndex, Index!backend, Index!cache
<1>5. ASSUME NEW c \in IndexClients, NEW place \in {"init", "embed", "inserting"},
             indexCalls[c] # <<>>, Index!At(c, place), Index!Top(c).at # "reset",
             place = "inserting" => IsMutation(Index!Top(c)),
             UNCHANGED <<index, backendCloses, retrievers, retrieverGeneration, indexClosed, mutations>>
      PROVE  IndexInv'
  <2>1. /\ indexCalls' \in [IndexClients -> Seq(FrameSet)]
        /\ Moved(indexCalls[c], indexCalls'[c])
        /\ indexCalls'[c][Len(indexCalls[c])].at = place
        /\ \A d \in IndexClients : d # c => indexCalls'[d] = indexCalls[d]
    BY <1>0, <1>5, AtStep DEF Places
  <2>2. IsMutation(Index!Top(c)) => IsMutation(indexCalls'[c][Len(indexCalls[c])])
    BY <2>1 DEF Moved, IsMutation, Index!Top, Index!Last
  <2> QED
    BY <1>5, <2>1, <2>2, MoveKeeps
<1>6. ASSUME NEW c \in IndexClients, Index!GetEmbeddingModels(c) PROVE IndexInv'
  <2> DEFINE place == IF embedded THEN "init" ELSE "embed"
  <2>1. place \in {"init", "embed"}
    OBVIOUS
  <2>2. /\ Index!At(c, place) /\ indexCalls[c] # <<>> /\ Index!Top(c).at # "reset"
        /\ UNCHANGED <<index, backendCloses, retrievers, retrieverGeneration, indexClosed, mutations>>
    BY <1>6 DEF Index!GetEmbeddingModels, Index!In, Index!backend, Index!cache
  <2> HIDE DEF place
  <2> QED
    BY <1>5, <2>1, <2>2
<1>7. ASSUME NEW c \in IndexClients, Index!EmbeddingModelsBuilt(c) PROVE IndexInv'
  BY <1>5, <1>7 DEF Index!EmbeddingModelsBuilt, Index!In, Index!backend, Index!cache
<1>8. ASSUME NEW c \in IndexClients, Index!FetchRetrievers(c) PROVE IndexInv'
  <2>1. /\ indexCalls[c] # <<>> /\ Index!Top(c).at # "reset" /\ Index!Top(c).op = "get"
        /\ UNCHANGED <<index, backendCloses, retrievers, retrieverGeneration, indexClosed, mutations>>
    BY <1>8 DEF Index!FetchRetrievers, Index!In, Index!backend, Index!cache
  <2>2. /\ indexCalls' \in [IndexClients -> Seq(FrameSet)]
        /\ Moved(indexCalls[c], indexCalls'[c])
        /\ indexCalls'[c][Len(indexCalls[c])].at = "fetched"
        /\ indexCalls'[c][Len(indexCalls[c])].made = index + 1
        /\ \A d \in IndexClients : d # c => indexCalls'[d] = indexCalls[d]
    BY <1>0, <1>8, FetchStep
  <2>3. indexCalls'[c][Len(indexCalls[c])].op = "get"
    BY <2>1, <2>2 DEF Moved, Index!Top, Index!Last
  <2> QED
    BY <2>1, <2>2, <2>3, MoveKeeps
<1>9. ASSUME NEW c \in IndexClients, Index!PublishRetrievers(c) PROVE IndexInv'
  <2> DEFINE f == Index!Top(c)
  <2>1. /\ indexCalls[c] # <<>> /\ f.at = "fetched" /\ Index!Pop(c)
        /\ UNCHANGED <<index, backendCloses, retrieverGeneration, indexClosed, mutations>>
        /\ retrievers' = IF f.generation = retrieverGeneration
                         THEN [retrievers EXCEPT ![f.k] = f.made] ELSE retrievers
    BY <1>9 DEF Index!PublishRetrievers, Index!In, Index!backend
  <2>2. /\ f \in FrameSet /\ f.op = "get"
        /\ f.generation = retrieverGeneration => f.made = index + 1
    <3> DEFINE s == indexCalls[c]
    <3>1. s \in Seq(FrameSet) /\ Len(s) \in 1..Len(s) /\ f = s[Len(s)]
      BY <1>0, <2>1 DEF IndexTyped, Index!Top, Index!Last
    <3>2. StackOk(s, retrieverGeneration, index)
      BY DEF IndexInv
    <3> HIDE DEF f
    <3> QED
      BY <2>1, <3>1, <3>2, FramesTyped DEF StackOk
  <2>3. f.made \in Nat
    BY <2>2 DEF FrameSet
  <2> HIDE DEF f
  <2>4. retrievers' \in [IndexTopKs -> Nat]
    BY <1>0, <2>1, <2>3 DEF IndexTyped
  <2>5. CacheOk(retrievers, index) => CacheOk(retrievers', index)
    BY <1>0, <2>1, <2>2 DEF CacheOk, IndexTyped
  <2>6. ~IsMutation(f) /\ f.at # "reset"
    BY <2>1, <2>2 DEF IsMutation
  <2> QED
    BY <2>1, <2>4, <2>5, <2>6, PopKeeps DEF f
<1>10. ASSUME NEW c \in IndexClients, Index!BeginReset(c) PROVE IndexInv'
  BY <1>10, ClearKeeps DEF Index!BeginReset, Index!In, Index!backend, IsMutation
<1>11. ASSUME NEW c \in IndexClients, indexCalls[c] # <<>>,
              Index!Top(c).at \in {"resetting", "reset", "inserting"}
       PROVE  IsMutation(Index!Top(c))
  <2>1. Len(indexCalls[c]) \in 1..Len(indexCalls[c])
    BY <1>0, <1>11 DEF IndexTyped
  <2>2. StackOk(indexCalls[c], retrieverGeneration, index)
    BY DEF IndexInv
  <2> QED
    BY <1>11, <2>1, <2>2 DEF StackOk, Index!Top, Index!Last
<1>12. ASSUME NEW c \in IndexClients, Index!EndReset(c) PROVE IndexInv'
  BY <1>11, <1>12, ClearKeeps DEF Index!EndReset, Index!In, Index!backend
<1>13. ASSUME NEW c \in IndexClients, Index!BeginInsert(c) PROVE IndexInv'
  BY <1>5, <1>13 DEF Index!BeginInsert, Index!In, Index!backend, Index!cache,
                     Index!IsMutation, IsMutation
<1>14. ASSUME NEW c \in IndexClients, Index!EndInsert(c) PROVE IndexInv'
  <2>1. /\ indexCalls[c] # <<>> /\ Index!Top(c).at = "inserting" /\ Index!Pop(c) /\ Index!EndMutation
        /\ UNCHANGED <<index, indexClosed, retrievers, retrieverGeneration>>
    BY <1>14 DEF Index!EndInsert, Index!In, Index!cache
  <2>2. IsMutation(Index!Top(c))
    BY <1>11, <2>1
  <2>3. retrievers' \in [IndexTopKs -> Nat]
    BY <1>0, <2>1 DEF IndexTyped
  <2> QED
    BY <2>1, <2>2, <2>3, PopKeeps
<1>15. ASSUME NEW c \in IndexClients, Index!CallRaises(c) PROVE IndexInv'
  <2>1. /\ indexCalls[c] # <<>> /\ Index!Pop(c)
        /\ IF IsMutation(Index!Top(c)) THEN Index!EndMutation ELSE UNCHANGED <<mutations, backendCloses>>
        /\ UNCHANGED <<index, indexClosed>>
    BY <1>15 DEF Index!CallRaises, Index!Leave, Index!IsMutation, IsMutation
  <2>2. \/ /\ retrievers' = retrievers /\ retrieverGeneration' = retrieverGeneration
           /\ Index!Top(c).at # "reset"
        \/ Index!ClearRetrieverCache
    BY <1>15 DEF Index!CallRaises, Index!cache
  <2>3. retrievers' \in [IndexTopKs -> Nat]
    BY <1>0, <2>2 DEF IndexTyped, Index!ClearRetrieverCache
  <2> QED
    BY <2>1, <2>2, <2>3, PopKeeps
<1>16. ASSUME NEW c \in IndexClients, Index!PrepareNodes(c) PROVE IndexInv'
  BY <1>16, IndexSame DEF Index!PrepareNodes, Index!backend, Index!cache
<1>17. CASE UNCHANGED indexVars
  BY <1>17, IndexSame DEF indexVars
<1> QED
  BY <1>1, <1>3, <1>4, <1>6, <1>7, <1>8, <1>9, <1>10, <1>12, <1>13, <1>14, <1>15, <1>16, <1>17,
     ResetKeeps, CloseKeeps DEF Index!IndexNext

LEMMA IndexSafe == IndexInv => Index!RetrieversAreCurrent
<1> SUFFICES ASSUME IndexInv PROVE Index!RetrieversAreCurrent
  OBVIOUS
<1>1. \A c \in IndexClients : DOMAIN indexCalls[c] = 1..Len(indexCalls[c])
  BY DEF IndexInv, IndexTyped
<1>2. (\A c \in IndexClients : \A i \in DOMAIN indexCalls[c] : indexCalls[c][i].at # "reset")
          => \A k \in IndexTopKs : retrievers[k] \in {0, index + 1}
  BY <1>1 DEF IndexInv, Unreset, CacheOk
<1>3. backendCloses <= 1 /\ (backendCloses = 1 => mutations = 0)
  BY DEF IndexInv, ClosedAfterMutations
<1>4. Index!IndexDone => backendCloses = 1
  BY DEF IndexInv, MutationsCounted, ClosedAfterMutations, Index!IndexDone
<1> QED
  BY <1>2, <1>3, <1>4 DEF Index!RetrieversAreCurrent

(* EngineCapabilities and IndexCapability, for any names, threads and      *)
(* depths of callbacks: what was constructed is closed exactly once, also  *)
(* when a factory closes the engine, and a retriever that is served is of  *)
(* the index the backend holds, whatever resets raced its construction.    *)
THEOREM CapabilitiesAreSound == Spec => []CapabilitiesSound
<1> DEFINE Inv == /\ component = "capability" => CapInv
                  /\ component = "index" => IndexInv
<1>1. Init => Inv
  BY CapabilityInit, IndexInitial DEF Init
<1>2. Inv /\ [Next]_vars => Inv'
  BY ComponentSteps, CapabilityStepKeeps, IndexStepKeeps
<1>3. Inv => CapabilitiesSound
  BY CapabilitySafe, IndexSafe DEF CapabilitiesSound
<1> QED
  BY <1>1, <1>2, <1>3, PTL DEF Spec

-----------------------------------------------------------------------------
(* External stages.  The request of a stage is created once, so whoever    *)
(* created it is the only call whose command and whose own writes touch    *)
(* the other files of the stage.                                           *)

Callers == DOMAIN ExternalCalls
StageNames == {"analysis", "validation"}
Content == [by : Callers \cup {0}, ok : BOOLEAN, items : Seq(Nat)]
StageAt(c, i) == ExternalCalls[c].stages[i]
Labels == {"start", "check", "request", "spawn", "wait", "log", "require", "apply",
           "returned", "raised"}

ExternalTyped ==
    /\ files \in [StageNames \X External!Kinds -> Content]
    /\ pc \in [Callers -> Labels]
    /\ at \in [Callers -> Nat]
    /\ \A c \in Callers : at[c] \in 1..Len(ExternalCalls[c].stages)
    /\ child \in [Callers -> {"none", "running", "zero", "nonzero", "killed"}]
    /\ applied \in [Callers -> [payload : SUBSET Nat, decisions : Seq(Nat)]]

Owned(c, q) == files[<<q, "request">>].by = c /\ files[<<q, "request">>].ok
Wrote(c, q, kind) == files[<<q, kind>>].by = c /\ files[<<q, kind>>].ok

(* Where a call has created the request of its stage. *)
Holding == {"spawn", "wait", "log", "require", "apply", "returned"}

OutputsByOwner ==
    \A q \in StageNames :
        /\ files[<<q, "output">>] # External!Missing =>
              /\ files[<<q, "request">>].ok
              /\ files[<<q, "output">>].by = files[<<q, "request">>].by
        /\ files[<<q, "request">>] # External!Missing => files[<<q, "request">>].ok

ValidationItems ==
    files[<<"validation", "output">>].ok =>
        files[<<"validation", "output">>].items \in {<<1>>, <<1, ExternalResults + 1>>}

CallOk(c) ==
    /\ child[c] = "running" => pc[c] = "wait"
    /\ \A i \in 1..(at[c] - 1) :
          Owned(c, StageAt(c, i)) /\ Wrote(c, StageAt(c, i), "output") /\ Wrote(c, StageAt(c, i), "log")
    /\ pc[c] \in Holding => Owned(c, StageAt(c, at[c]))
    /\ pc[c] \in {"require", "apply", "returned"} => Wrote(c, StageAt(c, at[c]), "log")
    /\ pc[c] \in {"apply", "returned"} => Wrote(c, StageAt(c, at[c]), "output")
    /\ pc[c] = "apply" =>
          /\ StageAt(c, at[c]) = "validation"
          /\ applied[c].payload \subseteq 1..ExternalResults
          /\ applied[c].payload \cup External!Range(applied[c].decisions)
                = External!Range(files[<<"validation", "output">>].items)
    /\ pc[c] = "returned" =>
          /\ at[c] = Len(ExternalCalls[c].stages)
          /\ StageAt(c, at[c]) = "validation" =>
                /\ files[<<"validation", "validated">>].by = c
                /\ External!Range(files[<<"validation", "validated">>].items)
                      = External!Range(files[<<"validation", "output">>].items)

ExternalInv ==
    /\ ExternalTyped /\ OutputsByOwner /\ ValidationItems
    /\ \A c \in Callers : CallOk(c)

(* The stages of a call: one or two, each once, a validation last. *)
LEMMA StagesOfCall ==
    ASSUME NEW c \in Callers
    PROVE  /\ Len(ExternalCalls[c].stages) \in Nat
           /\ \A i \in 1..Len(ExternalCalls[c].stages) : StageAt(c, i) \in StageNames
           /\ \A i, j \in 1..Len(ExternalCalls[c].stages) : StageAt(c, i) = StageAt(c, j) => i = j
           /\ \A i \in 1..Len(ExternalCalls[c].stages) :
                 StageAt(c, i) = "validation" => i = Len(ExternalCalls[c].stages)
           /\ External!Range(ExternalCalls[c].stages)
                 = {StageAt(c, i) : i \in 1..Len(ExternalCalls[c].stages)}
<1> DEFINE s == ExternalCalls[c].stages
<1>1. s \in {<<"analysis">>, <<"validation">>, <<"analysis", "validation">>}
  BY ExternalCallsTyped DEF Callers
<1> HIDE DEF s
<1>2. /\ Len(s) \in Nat /\ DOMAIN s = 1..Len(s)
      /\ \A i \in 1..Len(s) : s[i] \in StageNames
      /\ \A i, j \in 1..Len(s) : s[i] = s[j] => i = j
      /\ \A i \in 1..Len(s) : s[i] = "validation" => i = Len(s)
  <2>1. CASE s = <<"analysis">> \/ s = <<"validation">>
    <3>1. Len(s) = 1 /\ DOMAIN s = 1..1 /\ s[1] \in StageNames
      BY <2>1 DEF StageNames
    <3>2. \A i \in 1..1 : i = 1
      OBVIOUS
    <3> QED
      BY <3>1, <3>2
  <2>2. CASE s = <<"analysis", "validation">>
    <3>1. Len(s) = 2 /\ DOMAIN s = 1..2 /\ s[1] = "analysis" /\ s[2] = "validation"
      BY <2>2
    <3>2. \A i \in 1..2 : i = 1 \/ i = 2
      OBVIOUS
    <3> QED
      BY <3>1, <3>2 DEF StageNames
  <2> QED
    BY <1>1, <2>1, <2>2
<1> QED
  BY <1>2 DEF StageAt, External!Range, s

LEMMA CurrentStage ==
    ASSUME ExternalTyped, NEW c \in Callers
    PROVE  /\ External!StageOf(c) = StageAt(c, at[c])
           /\ StageAt(c, at[c]) \in StageNames
           /\ at[c] \in Nat /\ at[c] \in 1..Len(ExternalCalls[c].stages)
           /\ \A i \in 1..(at[c] - 1) :
                 StageAt(c, i) \in StageNames /\ StageAt(c, i) # StageAt(c, at[c])
<1>1. at[c] \in Nat /\ at[c] \in 1..Len(ExternalCalls[c].stages)
  BY DEF ExternalTyped
<1>2. \A i \in 1..(at[c] - 1) : i \in 1..Len(ExternalCalls[c].stages) /\ i # at[c]
  BY <1>1, StagesOfCall
<1> QED
  BY <1>1, <1>2, StagesOfCall DEF External!StageOf, StageAt

LEMMA FilesTyped ==
    ASSUME ExternalTyped, NEW q \in StageNames, NEW kind \in External!Kinds
    PROVE  /\ files[<<q, kind>>] \in Content
           /\ files[<<q, kind>>].ok \in BOOLEAN
           /\ files[<<q, kind>>].items \in Seq(Nat)
           /\ files[<<q, kind>>].ok => files[<<q, kind>>] # External!Missing
<1>1. files[<<q, kind>>] \in Content
  BY DEF ExternalTyped
<1>2. files[<<q, kind>>].ok \in BOOLEAN /\ files[<<q, kind>>].items \in Seq(Nat)
  BY <1>1 DEF Content
<1>3. External!Missing.ok = FALSE
  BY DEF External!Missing
<1> QED
  BY <1>1, <1>2, <1>3

LEMMA MissingTyped == External!Missing \in Content /\ ~External!Missing.ok
BY DEF External!Missing, Content

LEMMA ContentTyped ==
    ASSUME NEW c \in Callers, NEW ok \in BOOLEAN, NEW items \in Seq(Nat)
    PROVE  /\ [by |-> c, ok |-> ok, items |-> items] \in Content
           /\ [by |-> c, ok |-> ok, items |-> items].by = c
           /\ [by |-> c, ok |-> ok, items |-> items].ok = ok
           /\ [by |-> c, ok |-> ok, items |-> items].items = items
BY DEF Content

LEMMA WriteSets ==
    ASSUME ExternalTyped, NEW d \in Callers, NEW kind \in External!Kinds, NEW content \in Content,
           External!Write(d, kind, content)
    PROVE  /\ files' \in [StageNames \X External!Kinds -> Content]
           /\ files'[<<StageAt(d, at[d]), kind>>] = content
           /\ \A q \in StageNames : \A k \in External!Kinds :
                 q # StageAt(d, at[d]) \/ k # kind => files'[<<q, k>>] = files[<<q, k>>]
<1> DEFINE p == <<StageAt(d, at[d]), kind>>
<1>1. files' = [files EXCEPT ![p] = content]
  BY CurrentStage DEF External!Write
<1>2. p \in StageNames \X External!Kinds
  BY CurrentStage
<1>3. \A q \in StageNames : \A k \in External!Kinds :
         q # StageAt(d, at[d]) \/ k # kind => <<q, k>> # p
  OBVIOUS
<1> HIDE DEF p
<1> QED
  BY <1>1, <1>2, <1>3 DEF ExternalTyped, p

(* A call is as sound as before when its own state and the files of the    *)
(* stages it owns stay.                                                    *)
LEMMA OthersKept ==
    ASSUME ExternalInv, NEW c \in Callers,
           pc'[c] = pc[c], at'[c] = at[c], child'[c] = child[c], applied'[c] = applied[c],
           \A q \in StageNames : \A k \in External!Kinds : Owned(c, q) => files'[<<q, k>>] = files[<<q, k>>]
    PROVE  CallOk(c)'
<1>1. CallOk(c) /\ ExternalTyped
  BY DEF ExternalInv
<1>2. {"request", "output", "log", "validated"} \subseteq External!Kinds
  BY DEF External!Kinds
<1>3. ASSUME NEW i \in 1..(at[c] - 1)
      PROVE  /\ Owned(c, StageAt(c, i))' /\ Wrote(c, StageAt(c, i), "output")'
             /\ Wrote(c, StageAt(c, i), "log")'
  <2>1. StageAt(c, i) \in StageNames /\ Owned(c, StageAt(c, i))
    BY <1>1, CurrentStage DEF CallOk
  <2> QED
    BY <1>1, <1>2, <2>1 DEF CallOk, Owned, Wrote
<1>4. ASSUME pc[c] \in Holding
      PROVE  /\ Owned(c, StageAt(c, at[c]))
             /\ \A k \in External!Kinds :
                   files'[<<StageAt(c, at[c]), k>>] = files[<<StageAt(c, at[c]), k>>]
  BY <1>1, <1>4, CurrentStage DEF CallOk
<1>5. (pc[c] \in Holding => Owned(c, StageAt(c, at[c])))'
  BY <1>2, <1>4 DEF Owned
<1>6. (pc[c] \in {"require", "apply", "returned"} => Wrote(c, StageAt(c, at[c]), "log"))'
  BY <1>1, <1>2, <1>4 DEF Wrote, Holding, CallOk
<1>7. (pc[c] \in {"apply", "returned"} => Wrote(c, StageAt(c, at[c]), "output"))'
  BY <1>1, <1>2, <1>4 DEF Wrote, Holding, CallOk
<1>8. (pc[c] = "apply" =>
          /\ StageAt(c, at[c]) = "validation"
          /\ applied[c].payload \subseteq 1..ExternalResults
          /\ applied[c].payload \cup External!Range(applied[c].decisions)
                = External!Range(files[<<"validation", "output">>].items))'
  <2>1. CASE pc[c] = "apply"
    <3>1. files'[<<"validation", "output">>] = files[<<"validation", "output">>]
      BY <1>1, <1>2, <1>4, <2>1 DEF Holding, CallOk
    <3> QED
      BY <1>1, <2>1, <3>1 DEF CallOk
  <2> QED
    BY <2>1
<1>9. (pc[c] = "returned" =>
          /\ at[c] = Len(ExternalCalls[c].stages)
          /\ StageAt(c, at[c]) = "validation" =>
                /\ files[<<"validation", "validated">>].by = c
                /\ External!Range(files[<<"validation", "validated">>].items)
                      = External!Range(files[<<"validation", "output">>].items))'
  <2>1. CASE pc[c] = "returned" /\ StageAt(c, at[c]) = "validation"
    <3>1. /\ files'[<<"validation", "output">>] = files[<<"validation", "output">>]
          /\ files'[<<"validation", "validated">>] = files[<<"validation", "validated">>]
      BY <1>2, <1>4, <2>1 DEF Holding
    <3> QED
      BY <1>1, <2>1, <3>1 DEF CallOk
  <2>2. CASE pc[c] = "returned" /\ StageAt(c, at[c]) # "validation"
    BY <1>1, <2>2 DEF CallOk
  <2> QED
    BY <2>1, <2>2
<1>10. (child[c] = "running" => pc[c] = "wait")'
  BY <1>1 DEF CallOk
<1> QED
  BY <1>3, <1>5, <1>6, <1>7, <1>8, <1>9, <1>10 DEF CallOk

(* A step of one call: it changes its own state and, in a stage nobody     *)
(* else owns, files.                                                       *)
OwnStep(d) ==
    \A c \in Callers : c # d => /\ pc'[c] = pc[c] /\ at'[c] = at[c]
                                /\ child'[c] = child[c] /\ applied'[c] = applied[c]

LEMMA StepKeeps ==
    ASSUME ExternalInv, NEW d \in Callers, OwnStep(d),
           \A q \in StageNames : \A k \in External!Kinds :
              q # StageAt(d, at[d]) => files'[<<q, k>>] = files[<<q, k>>],
           pc[d] \in Holding \/ files[<<StageAt(d, at[d]), "request">>] = External!Missing,
           ExternalTyped', OutputsByOwner', ValidationItems', CallOk(d)'
    PROVE  ExternalInv'
<1>1. ASSUME NEW c \in Callers, c # d PROVE CallOk(c)'
  <2>1. ASSUME NEW q \in StageNames, Owned(c, q) PROVE q # StageAt(d, at[d])
    <3>1. CASE pc[d] \in Holding
      BY <1>1, <2>1, <3>1 DEF ExternalInv, CallOk, Owned
    <3>2. CASE files[<<StageAt(d, at[d]), "request">>] = External!Missing
      BY <2>1, <3>2, MissingTyped DEF Owned
    <3> QED
      BY <3>1, <3>2
  <2> QED
    BY <1>1, <2>1, OthersKept DEF OwnStep
<1> QED
  BY <1>1 DEF ExternalInv

LEMMA QuietKeeps ==
    ASSUME ExternalInv, NEW d \in Callers, OwnStep(d), files' = files, ExternalTyped', CallOk(d)'
    PROVE  ExternalInv'
<1>1. ASSUME NEW c \in Callers, c # d PROVE CallOk(c)'
  BY <1>1, OthersKept DEF OwnStep
<1>2. OutputsByOwner' /\ ValidationItems'
  BY DEF ExternalInv, OutputsByOwner, ValidationItems
<1> QED
  BY <1>1, <1>2 DEF ExternalInv

(* The state of a call after a step: its place, and what is kept. *)
LEMMA GotoTyped ==
    ASSUME ExternalTyped, NEW d \in Callers, NEW label \in Labels,
           pc' = [pc EXCEPT ![d] = label],
           UNCHANGED <<at, applied>>,
           \/ child' = child
           \/ \E how \in {"running", "zero", "nonzero", "killed"} : child' = [child EXCEPT ![d] = how],
           files' \in [StageNames \X External!Kinds -> Content]
    PROVE  /\ ExternalTyped' /\ OwnStep(d) /\ pc'[d] = label /\ at'[d] = at[d]
           /\ applied'[d] = applied[d]
BY DEF ExternalTyped, OwnStep

(* The stages a call has finished stay finished while the files of the     *)
(* others do.                                                              *)
FinishedStages(c) ==
    \A i \in 1..(at[c] - 1) :
        Owned(c, StageAt(c, i)) /\ Wrote(c, StageAt(c, i), "output") /\ Wrote(c, StageAt(c, i), "log")

LEMMA FinishedKept ==
    ASSUME ExternalInv, NEW d \in Callers, at'[d] = at[d],
           \A q \in StageNames : \A k \in External!Kinds :
              q # StageAt(d, at[d]) => files'[<<q, k>>] = files[<<q, k>>]
    PROVE  FinishedStages(d)'
<1>1. CallOk(d) /\ ExternalTyped
  BY DEF ExternalInv
<1>2. {"request", "output", "log", "validated"} \subseteq External!Kinds
  BY DEF External!Kinds
<1> SUFFICES ASSUME NEW i \in 1..(at[d] - 1)
             PROVE  /\ Owned(d, StageAt(d, i))' /\ Wrote(d, StageAt(d, i), "output")'
                    /\ Wrote(d, StageAt(d, i), "log")'
  BY DEF FinishedStages
<1>3. StageAt(d, i) \in StageNames /\ StageAt(d, i) # StageAt(d, at[d])
  BY <1>1, CurrentStage
<1> QED
  BY <1>1, <1>2, <1>3 DEF CallOk, Owned, Wrote

(* A call that raises. *)
LEMMA RaisedOk ==
    ASSUME NEW d \in Callers, FinishedStages(d)', pc'[d] = "raised", child'[d] # "running"
    PROVE  CallOk(d)'
BY DEF CallOk, FinishedStages, Holding

LEMMA NotRunning ==
    ASSUME ExternalInv, NEW d \in Callers, pc[d] # "wait"
    PROVE  child[d] # "running"
BY DEF ExternalInv, CallOk

(* A step that writes nothing and does not change the stage. *)
LEMMA QuietGoto ==
    ASSUME ExternalInv, NEW d \in Callers, NEW label \in Labels,
           pc' = [pc EXCEPT ![d] = label], UNCHANGED <<files, at, applied>>,
           \/ child' = child
           \/ \E how \in {"running", "zero", "nonzero", "killed"} : child' = [child EXCEPT ![d] = how],
           child'[d] = "running" => label = "wait",
           label \in {"start", "check", "request", "spawn", "wait", "log", "raised"},
           label \in Holding => pc[d] \in Holding
    PROVE  ExternalInv'
<1>1. ExternalTyped /\ CallOk(d)
  BY DEF ExternalInv
<1>2. files' \in [StageNames \X External!Kinds -> Content]
  BY <1>1 DEF ExternalTyped
<1>3. ExternalTyped' /\ OwnStep(d) /\ pc'[d] = label /\ at'[d] = at[d]
  BY <1>1, <1>2, GotoTyped
<1>4. FinishedStages(d)'
  BY <1>3, FinishedKept
<1>5. (pc[d] \in Holding => Owned(d, StageAt(d, at[d])))'
  BY <1>1, <1>3 DEF CallOk, Owned
<1>6. CallOk(d)'
  BY <1>3, <1>4, <1>5 DEF CallOk, FinishedStages, Holding
<1> QED
  BY <1>3, <1>6, QuietKeeps

LEMMA WriteRequestKeeps ==
    ASSUME ExternalInv, NEW d \in Callers, External!WriteRequest(d)
    PROVE  ExternalInv'
<1> DEFINE q == StageAt(d, at[d])
           content == [by |-> d, ok |-> TRUE, items |-> <<>>]
<1>1. ExternalTyped /\ CallOk(d) /\ pc[d] = "request" /\ child[d] # "running"
  BY NotRunning DEF ExternalInv, External!WriteRequest
<1>2. q \in StageNames /\ External!StageOf(d) = q
  BY <1>1, CurrentStage
<1>3. CASE External!Refused(d)
  BY <1>1, <1>3, QuietGoto DEF External!WriteRequest, External!Raise, Labels, Holding
<1>4. CASE ~External!Refused(d)
  <2>1. /\ pc' = [pc EXCEPT ![d] = "spawn"] /\ External!Write(d, "request", content)
        /\ UNCHANGED <<at, child, applied>>
    BY <1>4 DEF External!WriteRequest, External!Goto
  <2>2. files[<<q, "request">>] = External!Missing
    BY <1>2, <1>4 DEF External!Refused, External!File
  <2>3. content \in Content /\ content.by = d /\ content.ok = TRUE
    <3>1. <<>> \in Seq(Nat) /\ TRUE \in BOOLEAN
      OBVIOUS
    <3> QED
      BY <3>1, ContentTyped
  <2> HIDE DEF content
  <2>4. /\ files' \in [StageNames \X External!Kinds -> Content]
        /\ files'[<<q, "request">>] = content
        /\ \A p \in StageNames : \A k \in External!Kinds :
              p # q \/ k # "request" => files'[<<p, k>>] = files[<<p, k>>]
    BY <1>1, <2>1, <2>3, WriteSets DEF External!Kinds
  <2>5. ExternalTyped' /\ OwnStep(d) /\ pc'[d] = "spawn" /\ at'[d] = at[d]
    BY <1>1, <2>1, <2>4, GotoTyped DEF Labels
  <2>6. FinishedStages(d)'
    BY <2>4, <2>5, FinishedKept
  <2>7. Owned(d, StageAt(d, at[d]))'
    BY <2>3, <2>4, <2>5 DEF Owned
  <2>8. CallOk(d)'
    BY <1>1, <2>1, <2>5, <2>6, <2>7 DEF CallOk, FinishedStages, Holding
  <2>9. OutputsByOwner'
    <3>1. files[<<q, "output">>] = External!Missing
      BY <1>2, <2>2, MissingTyped DEF ExternalInv, OutputsByOwner
    <3>2. "output" \in External!Kinds /\ "request" \in External!Kinds /\ "output" # "request"
      BY DEF External!Kinds
    <3>3. files'[<<q, "output">>] = External!Missing
      BY <1>2, <2>4, <3>1, <3>2
    <3>4. ASSUME NEW p \in StageNames
          PROVE  /\ files'[<<p, "output">>] # External!Missing =>
                       /\ files'[<<p, "request">>].ok
                       /\ files'[<<p, "output">>].by = files'[<<p, "request">>].by
                 /\ files'[<<p, "request">>] # External!Missing => files'[<<p, "request">>].ok
      <4>1. CASE p = q
        BY <2>3, <2>4, <3>3, <4>1
      <4>2. CASE p # q
        BY <2>4, <3>2, <4>2 DEF ExternalInv, OutputsByOwner
      <4> QED
        BY <4>1, <4>2
    <3> QED
      BY <3>4 DEF OutputsByOwner, External!Missing
  <2>10. ValidationItems'
    <3>1. files'[<<"validation", "output">>] = files[<<"validation", "output">>]
      BY <2>4 DEF External!Kinds, StageNames
    <3> QED
      BY <3>1 DEF ExternalInv, ValidationItems
  <2> QED
    BY <2>2, <2>4, <2>5, <2>8, <2>9, <2>10, StepKeeps
<1> QED
  BY <1>3, <1>4

LEMMA OutputsTyped ==
    ASSUME ExternalTyped, NEW d \in Callers, NEW content \in External!Outputs(d)
    PROVE  /\ content \in Content /\ content.by = d
           /\ StageAt(d, at[d]) = "validation" /\ content.ok =>
                 content.items \in {<<1>>, <<1, ExternalResults + 1>>}
<1>1. <<>> \in Seq(Nat) /\ <<1>> \in Seq(Nat) /\ <<1, ExternalResults + 1>> \in Seq(Nat)
  BY ExternalCallsTyped
<1>2. CASE content = [by |-> d, ok |-> FALSE, items |-> <<>>]
  BY <1>1, <1>2, ContentTyped
<1> DEFINE Lists == IF External!StageOf(d) = "analysis" THEN {<<>>}
                    ELSE {<<1>>, <<1, ExternalResults + 1>>}
<1>3. ASSUME NEW items \in Lists,
             content = [by |-> d, ok |-> TRUE, items |-> items]
      PROVE  /\ content \in Content /\ content.by = d
             /\ StageAt(d, at[d]) = "validation" /\ content.ok =>
                   content.items \in {<<1>>, <<1, ExternalResults + 1>>}
  <2>1. items \in Seq(Nat)
    BY <1>1
  <2>2. content \in Content /\ content.by = d /\ content.items = items
    BY <1>3, <2>1, ContentTyped
  <2>3. StageAt(d, at[d]) = "validation" => items \in {<<1>>, <<1, ExternalResults + 1>>}
    BY CurrentStage
  <2> QED
    BY <2>2, <2>3
<1> QED
  BY <1>2, <1>3 DEF External!Outputs

LEMMA ChildWritesKeeps ==
    ASSUME ExternalInv, NEW d \in Callers, External!ChildWrites(d)
    PROVE  ExternalInv'
<1> DEFINE q == StageAt(d, at[d])
<1>1. ExternalTyped /\ CallOk(d) /\ pc[d] = "wait" /\ UNCHANGED <<pc, at, child, applied>>
  BY DEF ExternalInv, CallOk, External!ChildWrites
<1>2. q \in StageNames /\ External!StageOf(d) = q /\ Owned(d, q)
  BY <1>1, CurrentStage DEF CallOk, Holding
<1>3. PICK content \in External!Outputs(d) : External!Write(d, "output", content)
  BY DEF External!ChildWrites
<1>4. /\ content \in Content /\ content.by = d
      /\ q = "validation" /\ content.ok => content.items \in {<<1>>, <<1, ExternalResults + 1>>}
  BY <1>1, OutputsTyped
<1>5. /\ files' \in [StageNames \X External!Kinds -> Content]
      /\ files'[<<q, "output">>] = content
      /\ \A p \in StageNames : \A k \in External!Kinds :
            p # q \/ k # "output" => files'[<<p, k>>] = files[<<p, k>>]
  BY <1>1, <1>3, <1>4, WriteSets DEF External!Kinds
<1>6. ExternalTyped' /\ OwnStep(d)
  BY <1>1, <1>5 DEF ExternalTyped, OwnStep
<1>7. "output" \in External!Kinds /\ "request" \in External!Kinds /\ "output" # "request"
  BY DEF External!Kinds
<1>8. files'[<<q, "request">>] = files[<<q, "request">>]
  BY <1>2, <1>5, <1>7
<1>9. CallOk(d)'
  <2>1. FinishedStages(d)'
    BY <1>1, <1>5, FinishedKept
  <2>2. Owned(d, StageAt(d, at[d]))'
    BY <1>1, <1>2, <1>8 DEF Owned
  <2> QED
    BY <1>1, <2>1, <2>2 DEF CallOk, FinishedStages
<1>10. OutputsByOwner'
  <2>1. ASSUME NEW p \in StageNames
        PROVE  /\ files'[<<p, "output">>] # External!Missing =>
                     /\ files'[<<p, "request">>].ok
                     /\ files'[<<p, "output">>].by = files'[<<p, "request">>].by
               /\ files'[<<p, "request">>] # External!Missing => files'[<<p, "request">>].ok
    <3>1. CASE p = q
      BY <1>2, <1>4, <1>5, <1>8, <3>1 DEF Owned
    <3>2. CASE p # q
      BY <1>5, <1>7, <3>2 DEF ExternalInv, OutputsByOwner
    <3> QED
      BY <3>1, <3>2
  <2> QED
    BY <2>1 DEF OutputsByOwner, External!Missing
<1>11. ValidationItems'
  <2>1. CASE q = "validation"
    BY <1>4, <1>5, <2>1 DEF ValidationItems
  <2>2. CASE q # "validation"
    <3>1. files'[<<"validation", "output">>] = files[<<"validation", "output">>]
      BY <1>5, <1>7, <2>2 DEF StageNames
    <3> QED
      BY <3>1 DEF ExternalInv, ValidationItems
  <2> QED
    BY <2>1, <2>2
<1> QED
  BY <1>1, <1>5, <1>6, <1>9, <1>10, <1>11, StepKeeps DEF Holding

(* The log and the validated SARIF are no output and no request. *)
LEMMA OtherFileKeeps ==
    ASSUME ExternalInv, NEW d \in Callers, NEW kind \in {"log", "validated"},
           NEW content \in Content, External!Write(d, kind, content)
    PROVE  /\ files' \in [StageNames \X External!Kinds -> Content]
           /\ files'[<<StageAt(d, at[d]), kind>>] = content
           /\ \A q \in StageNames : \A k \in External!Kinds :
                 q # StageAt(d, at[d]) \/ k # kind => files'[<<q, k>>] = files[<<q, k>>]
           /\ OutputsByOwner' /\ ValidationItems'
<1>1. ExternalTyped /\ kind \in External!Kinds
  BY DEF ExternalInv, External!Kinds
<1>2. /\ files' \in [StageNames \X External!Kinds -> Content]
      /\ files'[<<StageAt(d, at[d]), kind>>] = content
      /\ \A q \in StageNames : \A k \in External!Kinds :
            q # StageAt(d, at[d]) \/ k # kind => files'[<<q, k>>] = files[<<q, k>>]
  BY <1>1, WriteSets
<1>3. \A q \in StageNames : /\ files'[<<q, "output">>] = files[<<q, "output">>]
                            /\ files'[<<q, "request">>] = files[<<q, "request">>]
  BY <1>2 DEF External!Kinds
<1>4. OutputsByOwner'
  BY <1>3 DEF ExternalInv, OutputsByOwner, External!Missing
<1>5. ValidationItems'
  BY <1>3 DEF ExternalInv, ValidationItems, StageNames
<1> QED
  BY <1>2, <1>4, <1>5

LEMMA WriteLogKeeps ==
    ASSUME ExternalInv, NEW d \in Callers, External!WriteLog(d)
    PROVE  ExternalInv'
<1> DEFINE q == StageAt(d, at[d])
           ok == child[d] = "zero"
           content == [by |-> d, ok |-> ok, items |-> <<>>]
           label == IF child[d] = "zero" THEN "require" ELSE "raised"
<1>1. ExternalTyped /\ CallOk(d) /\ pc[d] = "log" /\ child[d] # "running"
  BY NotRunning DEF ExternalInv, External!WriteLog
<1>2. q \in StageNames /\ External!StageOf(d) = q /\ Owned(d, q)
  BY <1>1, CurrentStage DEF CallOk, Holding
<1>3. /\ pc' = [pc EXCEPT ![d] = label] /\ External!Write(d, "log", content)
      /\ UNCHANGED <<at, child, applied>>
  BY DEF External!WriteLog, External!Goto, External!Raise
<1>4. content \in Content /\ content.by = d /\ content.ok = ok
  <2>1. <<>> \in Seq(Nat) /\ ok \in BOOLEAN
    OBVIOUS
  <2> HIDE DEF ok
  <2> QED
    BY <2>1, ContentTyped
<1> HIDE DEF content
<1>5. /\ files' \in [StageNames \X External!Kinds -> Content]
      /\ files'[<<q, "log">>] = content
      /\ \A p \in StageNames : \A k \in External!Kinds :
            p # q \/ k # "log" => files'[<<p, k>>] = files[<<p, k>>]
      /\ OutputsByOwner' /\ ValidationItems'
  BY <1>3, <1>4, OtherFileKeeps
<1>6. label \in Labels
  BY DEF Labels
<1>7. ExternalTyped' /\ OwnStep(d) /\ pc'[d] = label /\ at'[d] = at[d]
  BY <1>1, <1>3, <1>5, <1>6, GotoTyped
<1>8. FinishedStages(d)'
  BY <1>5, <1>7, FinishedKept
<1>9. CallOk(d)'
  <2>1. CASE child[d] = "zero"
    <3>1. files'[<<q, "request">>] = files[<<q, "request">>]
      BY <1>2, <1>5 DEF External!Kinds
    <3>2. Owned(d, StageAt(d, at[d]))' /\ Wrote(d, StageAt(d, at[d]), "log")'
      <4>1. content.ok
        BY <1>4, <2>1
      <4>2. files'[<<q, "log">>].by = d /\ files'[<<q, "log">>].ok
        BY <1>4, <1>5, <4>1
      <4>3. StageAt(d, at'[d]) = q
        BY <1>7
      <4> HIDE DEF q
      <4> QED
        BY <1>2, <3>1, <4>2, <4>3 DEF Owned, Wrote
    <3>3. pc'[d] = "require" /\ child'[d] # "running"
      BY <1>1, <1>3, <1>7, <2>1
    <3> QED
      BY <1>8, <3>2, <3>3 DEF CallOk, FinishedStages
  <2>2. CASE child[d] # "zero"
    BY <1>1, <1>3, <1>7, <1>8, <2>2, RaisedOk
  <2> QED
    BY <2>1, <2>2
<1> QED
  BY <1>1, <1>5, <1>7, <1>9, StepKeeps DEF Holding

(* An output that loads is the call's own. *)
LEMMA OutputIsOwn ==
    ASSUME ExternalInv, NEW d \in Callers, pc[d] \in Holding, External!File(d, "output").ok
    PROVE  Wrote(d, StageAt(d, at[d]), "output")
<1> DEFINE q == StageAt(d, at[d])
<1>1. ExternalTyped /\ CallOk(d)
  BY DEF ExternalInv
<1>2. q \in StageNames /\ External!File(d, "output") = files[<<q, "output">>] /\ Owned(d, q)
  BY <1>1, CurrentStage DEF External!File, CallOk
<1>3. files[<<q, "output">>] # External!Missing
  BY <1>2, MissingTyped
<1> QED
  BY <1>2, <1>3 DEF ExternalInv, OutputsByOwner, Owned, Wrote

LEMMA TakeAnalysisKeeps ==
    ASSUME ExternalInv, NEW d \in Callers, External!TakeAnalysis(d)
    PROVE  ExternalInv'
<1> DEFINE q == StageAt(d, at[d])
           n == Len(ExternalCalls[d].stages)
<1>1. /\ ExternalTyped /\ CallOk(d) /\ pc[d] = "require" /\ child[d] # "running" /\ q = "analysis"
      /\ UNCHANGED <<files, applied>>
  BY NotRunning, CurrentStage DEF ExternalInv, External!TakeAnalysis
<1>2. at[d] \in Nat /\ at[d] \in 1..n /\ n \in Nat
  BY <1>1, CurrentStage, StagesOfCall
<1>3. CASE ~External!File(d, "output").ok
  BY <1>1, <1>3, QuietGoto DEF External!TakeAnalysis, External!Raise, Labels, Holding
<1>4. CASE External!File(d, "output").ok
  <2>1. Owned(d, q) /\ Wrote(d, q, "log") /\ Wrote(d, q, "output")
    BY <1>1, <1>4, OutputIsOwn DEF CallOk, Holding
  <2>2. CASE at[d] < n
    <3>1. /\ at' = [at EXCEPT ![d] = @ + 1] /\ child' = [child EXCEPT ![d] = "none"]
          /\ pc' = [pc EXCEPT ![d] = "start"]
      BY <1>4, <2>2 DEF External!TakeAnalysis, External!Advance, External!Goto
    <3>2. /\ at'[d] = at[d] + 1 /\ pc'[d] = "start" /\ child'[d] = "none"
          /\ at[d] + 1 \in 1..n /\ at[d] + 1 \in Nat
      BY <1>1, <1>2, <2>2, <3>1 DEF ExternalTyped
    <3>3. ExternalTyped' /\ OwnStep(d)
      <4>1. pc' \in [Callers -> Labels]
        BY <1>1, <3>1 DEF ExternalTyped, Labels
      <4>2. at' \in [Callers -> Nat] /\ \A c \in Callers : c # d => at'[c] = at[c]
        BY <1>1, <3>1, <3>2 DEF ExternalTyped
      <4>3. child' \in [Callers -> {"none", "running", "zero", "nonzero", "killed"}]
        BY <1>1, <3>1 DEF ExternalTyped
      <4>4. \A c \in Callers : at'[c] \in 1..Len(ExternalCalls[c].stages)
        BY <1>1, <3>2, <4>2 DEF ExternalTyped
      <4>5. OwnStep(d)
        BY <1>1, <3>1 DEF OwnStep, ExternalTyped
      <4> QED
        BY <1>1, <4>1, <4>2, <4>3, <4>4, <4>5 DEF ExternalTyped
    <3>4. ASSUME NEW i \in 1..(at'[d] - 1)
          PROVE  /\ Owned(d, StageAt(d, i))' /\ Wrote(d, StageAt(d, i), "output")'
                 /\ Wrote(d, StageAt(d, i), "log")'
      <4>1. i \in 1..(at[d] - 1) \/ i = at[d]
        BY <1>2, <3>2
      <4>2. Owned(d, StageAt(d, i)) /\ Wrote(d, StageAt(d, i), "output") /\ Wrote(d, StageAt(d, i), "log")
        BY <1>1, <2>1, <4>1 DEF CallOk
      <4> QED
        BY <1>1, <4>2 DEF Owned, Wrote
    <3>5. CallOk(d)'
      BY <3>2, <3>4 DEF CallOk, Holding
    <3> QED
      BY <1>1, <3>3, <3>5, QuietKeeps
  <2>3. CASE ~(at[d] < n)
    <3>1. UNCHANGED <<at, child>> /\ pc' = [pc EXCEPT ![d] = "returned"] /\ at[d] = n
      BY <1>2, <1>4, <2>3 DEF External!TakeAnalysis, External!Advance, External!Goto
    <3>2. files' \in [StageNames \X External!Kinds -> Content]
      BY <1>1 DEF ExternalTyped
    <3>3. ExternalTyped' /\ OwnStep(d) /\ pc'[d] = "returned" /\ at'[d] = at[d]
      BY <1>1, <3>1, <3>2, GotoTyped DEF Labels
    <3>4. FinishedStages(d)'
      BY <1>1, <3>3, FinishedKept
    <3>5. /\ Owned(d, StageAt(d, at[d]))' /\ Wrote(d, StageAt(d, at[d]), "log")'
          /\ Wrote(d, StageAt(d, at[d]), "output")' /\ StageAt(d, at[d])' # "validation"
      BY <1>1, <2>1, <3>1 DEF Owned, Wrote
    <3>6. CallOk(d)'
      BY <1>1, <3>1, <3>3, <3>4, <3>5 DEF CallOk, FinishedStages
    <3> QED
      BY <1>1, <3>3, <3>6, QuietKeeps
  <2> QED
    BY <2>2, <2>3
<1> QED
  BY <1>3, <1>4

LEMMA RangeTyped ==
    ASSUME NEW S, NEW s \in Seq(S)
    PROVE  /\ External!Range(s) \subseteq S
           /\ s # <<>> => /\ Head(s) \in S /\ Tail(s) \in Seq(S)
                          /\ External!Range(s) = {Head(s)} \cup External!Range(Tail(s))
           /\ s = <<>> => External!Range(s) = {}
<1>1. DOMAIN s = 1..Len(s) /\ Len(s) \in Nat
  OBVIOUS
<1>2. External!Range(s) \subseteq S
  BY <1>1 DEF External!Range
<1>3. ASSUME s # <<>>
      PROVE  /\ Head(s) \in S /\ Tail(s) \in Seq(S)
             /\ External!Range(s) = {Head(s)} \cup External!Range(Tail(s))
  <2> DEFINE t == Tail(s)
  <2>1. /\ Len(s) \in Nat \ {0} /\ Head(s) = s[1] /\ Head(s) \in S /\ t \in Seq(S)
        /\ Len(t) = Len(s) - 1 /\ DOMAIN t = 1..(Len(s) - 1)
        /\ \A i \in 1..(Len(s) - 1) : t[i] = s[i + 1]
    BY <1>3
  <2> HIDE DEF t
  <2>2. ASSUME NEW i \in 1..Len(s) PROVE s[i] \in {Head(s)} \cup External!Range(t)
    <3>1. CASE i = 1
      BY <2>1, <3>1
    <3>2. CASE i # 1
      <4>1. i - 1 \in 1..(Len(s) - 1) /\ (i - 1) + 1 = i
        BY <2>1, <3>2
      <4>2. t[i - 1] = s[i]
        BY <2>1, <4>1
      <4> QED
        BY <2>1, <4>1, <4>2 DEF External!Range
    <3> QED
      BY <3>1, <3>2
  <2>3. ASSUME NEW i \in 1..(Len(s) - 1) PROVE t[i] \in External!Range(s)
    <3>1. i + 1 \in 1..Len(s) /\ t[i] = s[i + 1]
      BY <2>1
    <3> QED
      BY <1>1, <3>1 DEF External!Range
  <2>4. Head(s) \in External!Range(s)
    BY <1>1, <2>1 DEF External!Range
  <2>5. External!Range(s) \subseteq {Head(s)} \cup External!Range(t)
    BY <1>1, <2>2 DEF External!Range
  <2>6. External!Range(t) \subseteq External!Range(s)
    BY <2>1, <2>3 DEF External!Range
  <2> QED
    BY <2>1, <2>4, <2>5, <2>6 DEF t
<1>4. s = <<>> => External!Range(s) = {}
  BY DEF External!Range
<1> QED
  BY <1>2, <1>3, <1>4

(* A step of the loop over the decisions, which writes nothing. *)
LEMMA LoopKeeps ==
    ASSUME ExternalInv, NEW d \in Callers, pc[d] \in {"require", "apply"},
           StageAt(d, at[d]) = "validation", Wrote(d, "validation", "output"),
           NEW payload \in SUBSET Nat, NEW decisions \in Seq(Nat),
           payload \subseteq 1..ExternalResults,
           payload \cup External!Range(decisions) = External!Range(files[<<"validation", "output">>].items),
           pc' = [pc EXCEPT ![d] = "apply"],
           applied' = [applied EXCEPT ![d] = [payload |-> payload, decisions |-> decisions]],
           UNCHANGED <<files, at, child>>
    PROVE  ExternalInv'
<1>1. ExternalTyped /\ CallOk(d) /\ child[d] # "running"
  BY NotRunning DEF ExternalInv
<1> DEFINE loop == [payload |-> payload, decisions |-> decisions]
<1>2. /\ loop \in [payload : SUBSET Nat, decisions : Seq(Nat)]
      /\ loop.payload = payload /\ loop.decisions = decisions
  OBVIOUS
<1> HIDE DEF loop
<1>3. /\ pc' \in [Callers -> Labels] /\ pc'[d] = "apply"
      /\ applied' \in [Callers -> [payload : SUBSET Nat, decisions : Seq(Nat)]]
      /\ applied'[d] = loop
      /\ OwnStep(d)
  BY <1>1, <1>2 DEF ExternalTyped, OwnStep, Labels, loop
<1>4. ExternalTyped'
  BY <1>1, <1>3 DEF ExternalTyped
<1>5. FinishedStages(d)'
  BY FinishedKept
<1>6. Owned(d, StageAt(d, at[d])) /\ Wrote(d, StageAt(d, at[d]), "log")
  BY <1>1 DEF CallOk, Holding
<1>7. Owned(d, StageAt(d, at[d]))' /\ Wrote(d, StageAt(d, at[d]), "log")'
      /\ Wrote(d, StageAt(d, at[d]), "output")'
  BY <1>6 DEF Owned, Wrote
<1>8. CallOk(d)'
  BY <1>1, <1>2, <1>3, <1>5, <1>7 DEF CallOk, FinishedStages
<1> QED
  BY <1>3, <1>4, <1>8, QuietKeeps

LEMMA TakeDecisionsKeeps ==
    ASSUME ExternalInv, NEW d \in Callers, External!TakeDecisions(d)
    PROVE  ExternalInv'
<1>1. /\ ExternalTyped /\ pc[d] = "require" /\ StageAt(d, at[d]) = "validation"
      /\ child[d] # "running" /\ UNCHANGED <<files, at, child>>
  BY NotRunning, CurrentStage DEF ExternalInv, External!TakeDecisions
<1>2. CASE ~(External!File(d, "output").ok /\ External!Input(d).ok)
  BY <1>1, <1>2, QuietGoto DEF External!TakeDecisions, External!Raise, Labels, Holding
<1>3. CASE External!File(d, "output").ok /\ External!Input(d).ok
  <2> DEFINE items == files[<<"validation", "output">>].items
  <2>1. /\ pc' = [pc EXCEPT ![d] = "apply"]
        /\ applied' = [applied EXCEPT ![d] = [payload |-> {}, decisions |-> items]]
    BY <1>1, <1>3, CurrentStage DEF External!TakeDecisions, External!Goto, External!File
  <2>2. Wrote(d, "validation", "output")
    BY <1>1, <1>3, OutputIsOwn DEF Holding
  <2>3. items \in Seq(Nat)
    BY <1>1, FilesTyped DEF StageNames, External!Kinds
  <2>4. {} \in SUBSET Nat /\ {} \subseteq 1..ExternalResults /\ {} \cup External!Range(items) = External!Range(items)
    OBVIOUS
  <2> QED
    BY <1>1, <2>1, <2>2, <2>3, <2>4, LoopKeeps
<1> QED
  BY <1>2, <1>3

LEMMA ApplyDecisionKeeps ==
    ASSUME ExternalInv, NEW d \in Callers, External!ApplyDecision(d)
    PROVE  ExternalInv'
<1> DEFINE result == Head(applied[d].decisions)
<1>1. /\ ExternalTyped /\ CallOk(d) /\ pc[d] = "apply" /\ child[d] # "running"
      /\ applied[d].decisions # <<>> /\ UNCHANGED <<files, at, child>>
  BY NotRunning DEF ExternalInv, External!ApplyDecision
<1>2. applied[d].payload \in SUBSET Nat /\ applied[d].decisions \in Seq(Nat)
  <2>1. applied[d] \in [payload : SUBSET Nat, decisions : Seq(Nat)]
    BY <1>1 DEF ExternalTyped
  <2> QED
    BY <2>1
<1>3. CASE result \notin 1..ExternalResults
  BY <1>1, <1>3, QuietGoto DEF External!ApplyDecision, External!Raise, Labels, Holding
<1>4. CASE result \in 1..ExternalResults
  <2> DEFINE payload == applied[d].payload \cup {result}
             decisions == Tail(applied[d].decisions)
  <2>1. /\ pc' = pc
        /\ applied' = [applied EXCEPT ![d] = [payload |-> payload, decisions |-> decisions]]
    BY <1>1, <1>4 DEF External!ApplyDecision, ExternalTyped
  <2>2. pc' = [pc EXCEPT ![d] = "apply"]
    BY <1>1, <2>1 DEF ExternalTyped
  <2>3. /\ StageAt(d, at[d]) = "validation" /\ Wrote(d, "validation", "output")
        /\ applied[d].payload \subseteq 1..ExternalResults
        /\ applied[d].payload \cup External!Range(applied[d].decisions)
              = External!Range(files[<<"validation", "output">>].items)
    BY <1>1 DEF CallOk
  <2>4. /\ decisions \in Seq(Nat)
        /\ External!Range(applied[d].decisions) = {result} \cup External!Range(decisions)
    BY <1>1, <1>2, RangeTyped
  <2>5. payload \in SUBSET Nat /\ payload \subseteq 1..ExternalResults
    BY <1>2, <1>4, <2>3, ExternalCallsTyped
  <2>6. payload \cup External!Range(decisions) = External!Range(files[<<"validation", "output">>].items)
    BY <2>3, <2>4
  <2> HIDE DEF payload, decisions
  <2> QED
    BY <1>1, <2>1, <2>2, <2>3, <2>4, <2>5, <2>6, LoopKeeps
<1> QED
  BY <1>3, <1>4

(* The sequence of the results a validation was given. *)
LEMMA SavedResults ==
    External!SetToSeq({1}) \in Seq(Nat) /\ External!Range(External!SetToSeq({1})) = {1}
<1>1. Cardinality({1}) = 1
  BY FS_Singleton
<1> DEFINE f == [i \in 1..1 |-> 1]
<1>2. f \in [1..1 -> {1}] /\ External!IsInjective(f)
  BY DEF External!IsInjective
<1>3. External!SetToSeq({1}) \in [1..1 -> {1}]
  <2>1. External!SetToSeq({1}) = CHOOSE g \in [1..1 -> {1}] : External!IsInjective(g)
    <3>1. External!Cardinality({1}) = Cardinality({1})
      BY DEF External!Cardinality, Cardinality
    <3> QED
      BY <1>1, <3>1 DEF External!SetToSeq
  <2> HIDE DEF f
  <2> QED
    BY <1>2, <2>1
<1> DEFINE s == External!SetToSeq({1})
<1> HIDE DEF s
<1>4. s \in [1..1 -> Nat] /\ DOMAIN s = 1..1 /\ s[1] = 1
  BY <1>3 DEF s
<1>5. s \in Seq(Nat)
  <2>1. s \in [1..1 -> Nat] /\ 1 \in Nat
    BY <1>4
  <2> QED
    BY <2>1, SeqDef
<1>6. External!Range(s) = {1}
  BY <1>4 DEF External!Range
<1> QED
  BY <1>5, <1>6 DEF s

LEMMA SaveValidatedKeeps ==
    ASSUME ExternalInv, NEW d \in Callers, External!SaveValidated(d)
    PROVE  ExternalInv'
<1> DEFINE items == External!SetToSeq(applied[d].payload)
           content == [by |-> d, ok |-> TRUE, items |-> items]
<1>1. /\ ExternalTyped /\ CallOk(d) /\ pc[d] = "apply" /\ child[d] # "running"
      /\ applied[d].decisions = <<>> /\ UNCHANGED <<at, child, applied>>
      /\ pc' = [pc EXCEPT ![d] = "returned"] /\ External!Write(d, "validated", content)
  BY NotRunning DEF ExternalInv, External!SaveValidated, External!Goto
<1>2. /\ StageAt(d, at[d]) = "validation" /\ Owned(d, "validation")
      /\ Wrote(d, "validation", "log") /\ Wrote(d, "validation", "output")
      /\ applied[d].payload \subseteq 1..ExternalResults
      /\ applied[d].payload \cup External!Range(applied[d].decisions)
            = External!Range(files[<<"validation", "output">>].items)
  BY <1>1 DEF CallOk, Holding
<1>3. at[d] = Len(ExternalCalls[d].stages)
  BY <1>1, <1>2, CurrentStage, StagesOfCall
<1>4. applied[d].payload = {1} /\ External!Range(files[<<"validation", "output">>].items) = {1}
  <2>1. External!Range(applied[d].decisions) = {}
    BY <1>1 DEF External!Range
  <2>2. files[<<"validation", "output">>].items \in {<<1>>, <<1, ExternalResults + 1>>}
    BY <1>2 DEF ExternalInv, ValidationItems, Wrote
  <2>3. External!Range(<<1>>) = {1} /\ External!Range(<<1, ExternalResults + 1>>) = {1, ExternalResults + 1}
    <3>1. DOMAIN <<1>> = 1..1 /\ DOMAIN <<1, ExternalResults + 1>> = 1..2
      OBVIOUS
    <3>2. 1..1 = {1} /\ 1..2 = {1, 2}
      OBVIOUS
    <3> QED
      BY <3>1, <3>2 DEF External!Range
  <2>4. ExternalResults + 1 \notin 1..ExternalResults
    BY ExternalCallsTyped
  <2> QED
    BY <1>2, <2>1, <2>2, <2>3, <2>4
<1>5. items \in Seq(Nat) /\ External!Range(items) = {1}
  BY <1>4, SavedResults
<1> HIDE DEF items
<1>6. content \in Content /\ content.by = d /\ content.items = items
  BY <1>5, ContentTyped
<1> HIDE DEF content
<1>7. /\ files' \in [StageNames \X External!Kinds -> Content]
      /\ files'[<<"validation", "validated">>] = content
      /\ \A p \in StageNames : \A k \in External!Kinds :
            p # StageAt(d, at[d]) \/ k # "validated" => files'[<<p, k>>] = files[<<p, k>>]
      /\ OutputsByOwner' /\ ValidationItems'
  <2>1. /\ files' \in [StageNames \X External!Kinds -> Content]
        /\ files'[<<StageAt(d, at[d]), "validated">>] = content
        /\ \A p \in StageNames : \A k \in External!Kinds :
              p # StageAt(d, at[d]) \/ k # "validated" => files'[<<p, k>>] = files[<<p, k>>]
        /\ OutputsByOwner' /\ ValidationItems'
    BY <1>1, <1>6, OtherFileKeeps
  <2> QED
    BY <1>2, <2>1
<1>8. ExternalTyped' /\ OwnStep(d) /\ pc'[d] = "returned" /\ at'[d] = at[d]
  BY <1>1, <1>7, GotoTyped DEF Labels
<1>9. FinishedStages(d)'
  BY <1>7, <1>8, FinishedKept
<1>10. \A k \in {"request", "log", "output"} : files'[<<"validation", k>>] = files[<<"validation", k>>]
  BY <1>7 DEF StageNames, External!Kinds
<1>11. /\ Owned(d, "validation")' /\ Wrote(d, "validation", "log")'
       /\ Wrote(d, "validation", "output")'
  BY <1>2, <1>10 DEF Owned, Wrote
<1>12. /\ files'[<<"validation", "validated">>].by = d
       /\ External!Range(files'[<<"validation", "validated">>].items)
             = External!Range(files'[<<"validation", "output">>].items)
  BY <1>4, <1>5, <1>6, <1>7, <1>10
<1>13. CallOk(d)'
  BY <1>1, <1>2, <1>3, <1>8, <1>9, <1>11, <1>12 DEF CallOk, FinishedStages
<1> QED
  BY <1>1, <1>7, <1>8, <1>13, StepKeeps DEF Holding

LEMMA ExternalInitial == External!ExternalInit => ExternalInv
<1> SUFFICES ASSUME External!ExternalInit PROVE ExternalInv
  OBVIOUS
<1>1. /\ files = [f \in StageNames \X External!Kinds |-> External!Missing]
      /\ pc = [c \in Callers |-> "start"] /\ at = [c \in Callers |-> 1]
      /\ child = [c \in Callers |-> "none"] /\ applied = [c \in Callers |-> External!Idle]
  BY DEF External!ExternalInit, External!Call, Callers, StageNames
<1>2. External!Idle \in [payload : SUBSET Nat, decisions : Seq(Nat)]
  BY DEF External!Idle
<1>3. \A c \in Callers : Len(ExternalCalls[c].stages) >= 1
  <2> SUFFICES ASSUME NEW c \in Callers PROVE Len(ExternalCalls[c].stages) >= 1
    OBVIOUS
  <2>1. ExternalCalls[c].stages \in {<<"analysis">>, <<"validation">>, <<"analysis", "validation">>}
    BY ExternalCallsTyped DEF Callers
  <2> QED
    BY <2>1
<1>4. \A c \in Callers : at[c] \in 1..Len(ExternalCalls[c].stages)
  BY <1>1, <1>3, StagesOfCall
<1>5. ExternalTyped
  <2>1. files \in [StageNames \X External!Kinds -> Content]
    BY <1>1, MissingTyped
  <2>2. applied \in [Callers -> [payload : SUBSET Nat, decisions : Seq(Nat)]]
    BY <1>1, <1>2
  <2>3. /\ pc \in [Callers -> Labels] /\ at \in [Callers -> Nat]
        /\ child \in [Callers -> {"none", "running", "zero", "nonzero", "killed"}]
    BY <1>1 DEF Labels
  <2> QED
    BY <1>4, <2>1, <2>2, <2>3 DEF ExternalTyped
<1>6. \A q \in StageNames : \A k \in External!Kinds : files[<<q, k>>] = External!Missing
  BY <1>1
<1>7. OutputsByOwner
  BY <1>6 DEF OutputsByOwner, External!Kinds
<1>8. ValidationItems
  <2>1. files[<<"validation", "output">>] = External!Missing
    BY <1>6 DEF StageNames, External!Kinds
  <2> QED
    BY <2>1, MissingTyped DEF ValidationItems
<1>9. \A c \in Callers : CallOk(c)
  BY <1>1 DEF CallOk, Holding
<1> QED
  BY <1>5, <1>7, <1>8, <1>9 DEF ExternalInv

LEMMA ExternalStepKeeps ==
    ASSUME ExternalInv, External!ExternalNext \/ UNCHANGED externalVars
    PROVE  ExternalInv'
<1>0. ExternalTyped
  BY DEF ExternalInv
<1>1. ASSUME NEW d \in Callers, External!Prepare(d) PROVE ExternalInv'
  <2>1. child[d] # "running"
    BY <1>1, NotRunning DEF External!Prepare
  <2> QED
    BY <1>1, <2>1, QuietGoto DEF External!Prepare, External!Goto, External!Raise, Labels, Holding
<1>2. ASSUME NEW d \in Callers, External!CheckOutputs(d) PROVE ExternalInv'
  <2>1. child[d] # "running"
    BY <1>2, NotRunning DEF External!CheckOutputs
  <2> QED
    BY <1>2, <2>1, QuietGoto DEF External!CheckOutputs, External!Goto, External!Raise, Labels, Holding
<1>3. ASSUME NEW d \in Callers, External!SpawnFails(d) PROVE ExternalInv'
  <2>1. child[d] # "running"
    BY <1>3, NotRunning DEF External!SpawnFails
  <2> QED
    BY <1>3, <2>1, QuietGoto DEF External!SpawnFails, External!Raise, Labels, Holding
<1>4. ASSUME NEW d \in Callers, External!Spawn(d) PROVE ExternalInv'
  BY <1>4, QuietGoto DEF External!Spawn, External!Goto, Labels, Holding
<1>5. ASSUME NEW d \in Callers, NEW how \in {"zero", "nonzero"}, External!ChildExits(d, how)
      PROVE  ExternalInv'
  <2>1. pc[d] = "wait"
    BY <1>5 DEF External!ChildExits, ExternalInv, CallOk
  <2>2. /\ pc' = [pc EXCEPT ![d] = "wait"] /\ UNCHANGED <<files, at, applied>>
        /\ child' = [child EXCEPT ![d] = how]
    BY <1>0, <1>5, <2>1 DEF External!ChildExits, ExternalTyped
  <2> QED
    BY <2>1, <2>2, QuietGoto DEF Labels, Holding
<1>6. ASSUME NEW d \in Callers, External!TimesOut(d) \/ External!Interrupted(d) PROVE ExternalInv'
  <2>1. /\ child' = [child EXCEPT ![d] = "killed"] /\ UNCHANGED <<files, at, applied>>
        /\ \E label \in {"log", "raised"} : pc' = [pc EXCEPT ![d] = label]
        /\ pc[d] = "wait"
    BY <1>6 DEF External!TimesOut, External!Interrupted, External!Goto, External!Raise
  <2>2. child'[d] = "killed"
    BY <1>0, <2>1 DEF ExternalTyped
  <2> QED
    BY <2>1, <2>2, QuietGoto DEF Labels, Holding
<1>7. ASSUME NEW d \in Callers, External!Communicated(d) PROVE ExternalInv'
  BY <1>7, QuietGoto DEF External!Communicated, External!Goto, Labels, Holding
<1>8. CASE UNCHANGED externalVars
  <2>1. /\ UNCHANGED <<files, pc, at, child, applied>>
    BY <1>8 DEF externalVars
  <2>2. ExternalTyped' /\ OutputsByOwner' /\ ValidationItems'
    BY <1>0, <2>1 DEF ExternalInv, ExternalTyped, OutputsByOwner, ValidationItems
  <2>3. \A c \in Callers : CallOk(c)'
    BY <2>1, OthersKept
  <2> QED
    BY <2>2, <2>3 DEF ExternalInv
<1>9. External!Call = Callers
  BY DEF External!Call, Callers
<1> QED
  BY <1>1, <1>2, <1>3, <1>4, <1>5, <1>6, <1>7, <1>8, <1>9, WriteRequestKeeps, ChildWritesKeeps,
     WriteLogKeeps, TakeAnalysisKeeps, TakeDecisionsKeeps, ApplyDecisionKeeps, SaveValidatedKeeps
  DEF External!ExternalNext

LEMMA ExternalSafe == ExternalInv => External!ResultIsOwn
<1> SUFFICES ASSUME ExternalInv, NEW c \in Callers
             PROVE  /\ pc[c] \in {"returned", "raised"} => child[c] # "running"
                    /\ pc[c] = "returned" =>
                        \A s \in External!Range(ExternalCalls[c].stages) :
                          /\ files[<<s, "request">>].by = c
                          /\ files[<<s, "output">>].by = c /\ files[<<s, "output">>].ok
                          /\ files[<<s, "log">>].by = c /\ files[<<s, "log">>].ok
                          /\ s = "validation" =>
                                /\ files[<<s, "validated">>].by = c
                                /\ External!Range(files[<<s, "validated">>].items)
                                      = External!Range(files[<<s, "output">>].items)
  BY DEF External!ResultIsOwn, External!Call, Callers
<1>1. CallOk(c) /\ ExternalTyped
  BY DEF ExternalInv
<1>2. pc[c] \in {"returned", "raised"} => child[c] # "running"
  BY <1>1 DEF CallOk
<1>3. ASSUME pc[c] = "returned", NEW s \in External!Range(ExternalCalls[c].stages)
      PROVE  /\ Owned(c, s) /\ Wrote(c, s, "output") /\ Wrote(c, s, "log")
             /\ s = "validation" => s = StageAt(c, at[c])
  <2>1. PICK i \in 1..Len(ExternalCalls[c].stages) : s = StageAt(c, i)
    BY <1>3, StagesOfCall
  <2>2. at[c] = Len(ExternalCalls[c].stages) /\ at[c] \in Nat
    BY <1>1, <1>3, CurrentStage DEF CallOk
  <2>3. i \in 1..(at[c] - 1) \/ i = at[c]
    BY <2>2
  <2>4. s = "validation" => s = StageAt(c, at[c])
    BY <2>1, <2>2, StagesOfCall
  <2> QED
    BY <1>1, <1>3, <2>1, <2>3, <2>4 DEF CallOk, Holding
<1>4. ASSUME pc[c] = "returned", StageAt(c, at[c]) = "validation"
      PROVE  /\ files[<<"validation", "validated">>].by = c
             /\ External!Range(files[<<"validation", "validated">>].items)
                   = External!Range(files[<<"validation", "output">>].items)
  BY <1>1, <1>4 DEF CallOk
<1> QED
  BY <1>2, <1>3, <1>4 DEF Owned, Wrote

(* ExternalStageService, for any number of calls that share a directory    *)
(* and any number of results: a call that returns has the request it       *)
(* wrote, the output and the log of its own command and every decision     *)
(* applied, and no call leaves its command running.                        *)
THEOREM ExternalResultsAreOwn == Spec => []ExternalResultOwn
<1> DEFINE Inv == component = "external" => ExternalInv
<1>1. Init => Inv
  BY ExternalInitial DEF Init
<1>2. Inv /\ [Next]_vars => Inv'
  BY ComponentSteps, ExternalStepKeeps
<1>3. Inv => ExternalResultOwn
  BY ExternalSafe DEF ExternalResultOwn
<1> QED
  BY <1>1, <1>2, <1>3, PTL DEF Spec
=============================================================================
