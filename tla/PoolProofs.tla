----------------------------- MODULE PoolProofs -----------------------------
(***************************************************************************)
(* What the pool guarantees for any number of callers and slots, any       *)
(* capacity and any maxRuns.                                               *)
(***************************************************************************)
EXTENDS Pool, SequenceTheorems, FiniteSetTheorems, TLAPS

(***************************************************************************)
(* What the three changes of a FIFO queue do to its elements: a waiter     *)
(* joins at the end, the head leaves, a waiter in the middle leaves        *)
(* (removeWaiterLocked). The queue has no element twice.                   *)
(***************************************************************************)
Distinct(q) == \A i, j \in DOMAIN q : q[i] = q[j] => i = j
Member(q, x) == \E i \in DOMAIN q : q[i] = x

\* Removing position i shifts what follows it (removeWaiterLocked).
LEMMA RemoveAtShifts ==
  ASSUME NEW S, NEW q \in Seq(S), NEW i \in 1..Len(q)
  PROVE  /\ RemoveAt(q, i) \in Seq(S)
         /\ Len(RemoveAt(q, i)) = Len(q) - 1
         /\ \A k \in 1..Len(q)-1 :
              RemoveAt(q, i)[k] = IF k < i THEN q[k] ELSE q[k+1]
<1> DEFINE a == SubSeq(q, 1, i-1)
           b == SubSeq(q, i+1, Len(q))
<1>0. /\ Len(q) \in Nat /\ i \in Nat /\ i >= 1 /\ i <= Len(q)
      /\ \A k \in 1..Len(q) : q[k] \in S
  BY LenProperties
<1>1. /\ a \in Seq(S) /\ Len(a) = i - 1
      /\ \A k \in 1..i-1 : a[k] = q[k]
  <2>1. \A k \in 1..i-1 : q[k] \in S
    BY <1>0
  <2>2. /\ a \in Seq(S)
        /\ Len(a) = IF 1 <= i-1 THEN (i-1)-1+1 ELSE 0
        /\ \A k \in 1..(i-1)-1+1 : a[k] = q[1+k-1]
    BY <1>0, <2>1, SubSeqProperties
  <2> QED BY <1>0, <2>2
<1>2. /\ b \in Seq(S) /\ Len(b) = Len(q) - i
      /\ \A k \in 1..Len(q)-i : b[k] = q[i+k]
  <2>1. \A k \in i+1..Len(q) : q[k] \in S
    BY <1>0
  <2>2. /\ b \in Seq(S)
        /\ Len(b) = IF i+1 <= Len(q) THEN Len(q)-(i+1)+1 ELSE 0
        /\ \A k \in 1..Len(q)-(i+1)+1 : b[k] = q[(i+1)+k-1]
    BY <1>0, <2>1, SubSeqProperties
  <2> QED BY <1>0, <2>2
<1>3. /\ a \o b \in Seq(S)
      /\ Len(a \o b) = Len(a) + Len(b)
      /\ \A k \in 1..Len(a)+Len(b) :
           (a \o b)[k] = IF k <= Len(a) THEN a[k] ELSE b[k - Len(a)]
  BY <1>1, <1>2, ConcatProperties
<1>4. RemoveAt(q, i) = a \o b
  BY DEF RemoveAt
<1> HIDE DEF a, b
<1>5. ASSUME NEW k \in 1..Len(q)-1, k < i PROVE (a \o b)[k] = q[k]
  BY <1>0, <1>1, <1>2, <1>3, <1>5
<1>6. ASSUME NEW k \in 1..Len(q)-1, ~(k < i) PROVE (a \o b)[k] = q[k+1]
  <2>1. (a \o b)[k] = b[k - (i-1)] /\ k - (i-1) \in 1..Len(q)-i
    BY <1>0, <1>1, <1>2, <1>3, <1>6
  <2>2. b[k - (i-1)] = q[i + (k - (i-1))]
    BY <1>2, <2>1
  <2>3. i + (k - (i-1)) = k + 1
    BY <1>0
  <2> QED BY <2>1, <2>2, <2>3
<1>7. Len(a \o b) = Len(q) - 1
  BY <1>0, <1>1, <1>2, <1>3
<1> QED BY <1>3, <1>4, <1>5, <1>6, <1>7

\* The others stay, in a queue that still has no element twice.
LEMMA RemoveAtMembers ==
  ASSUME NEW S, NEW q \in Seq(S), NEW i \in DOMAIN q, Distinct(q)
  PROVE  /\ RemoveAt(q, i) \in Seq(S)
         /\ Distinct(RemoveAt(q, i))
         /\ \A x : Member(RemoveAt(q, i), x) <=> Member(q, x) /\ x # q[i]
<1> DEFINE r == RemoveAt(q, i)
<1>0. Len(q) \in Nat /\ DOMAIN q = 1..Len(q) /\ i \in 1..Len(q)
  BY LenProperties
<1>1. /\ r \in Seq(S) /\ Len(r) = Len(q) - 1
      /\ \A k \in 1..Len(q)-1 : r[k] = IF k < i THEN q[k] ELSE q[k+1]
  BY <1>0, RemoveAtShifts
<1>2. DOMAIN r = 1..Len(q)-1
  BY <1>1, LenProperties
<1> HIDE DEF r
<1>3. Distinct(r)
  <2> SUFFICES ASSUME NEW j \in 1..Len(q)-1, NEW k \in 1..Len(q)-1, r[j] = r[k]
               PROVE  j = k
    BY <1>2 DEF Distinct
  <2>1. PICK m \in 1..Len(q) : m = (IF j < i THEN j ELSE j+1) /\ r[j] = q[m]
    BY <1>0, <1>1
  <2>2. PICK n \in 1..Len(q) : n = (IF k < i THEN k ELSE k+1) /\ r[k] = q[n]
    BY <1>0, <1>1
  <2>3. m = n
    BY <1>0, <2>1, <2>2 DEF Distinct
  <2> QED BY <1>0, <2>1, <2>2, <2>3
<1>4. ASSUME NEW x PROVE Member(r, x) <=> Member(q, x) /\ x # q[i]
  <2>1. ASSUME Member(r, x) PROVE Member(q, x) /\ x # q[i]
    <3>1. PICK k \in 1..Len(q)-1 : r[k] = x
      BY <1>2, <2>1 DEF Member
    <3>2. CASE k < i
      BY <1>0, <1>1, <3>1, <3>2 DEF Member, Distinct
    <3>3. CASE k >= i
      <4>1. x = q[k+1] /\ k+1 \in DOMAIN q /\ k+1 # i
        BY <1>0, <1>1, <3>1, <3>3
      <4> QED BY <1>0, <4>1 DEF Member, Distinct
    <3> QED BY <1>0, <3>2, <3>3
  <2>2. ASSUME Member(q, x), x # q[i] PROVE Member(r, x)
    <3>1. PICK k \in 1..Len(q) : q[k] = x
      BY <1>0, <2>2 DEF Member
    <3>2. CASE k < i
      <4>1. k \in 1..Len(q)-1 /\ r[k] = x
        BY <1>0, <1>1, <3>1, <3>2
      <4> QED BY <4>1, <1>2 DEF Member
    <3>3. CASE k > i
      <4>1. k-1 \in 1..Len(q)-1 /\ r[k-1] = x
        BY <1>0, <1>1, <3>1, <3>3
      <4> QED BY <4>1, <1>2 DEF Member
    <3> QED BY <1>0, <2>2, <3>1, <3>2, <3>3
  <2> QED BY <2>1, <2>2
<1> QED BY <1>1, <1>3, <1>4 DEF r

\* The head leaves (removeWaiterLocked(0)).
LEMMA TailMembers ==
  ASSUME NEW S, NEW q \in Seq(S), q # <<>>, Distinct(q)
  PROVE  /\ Head(q) \in S /\ Member(q, Head(q))
         /\ Tail(q) \in Seq(S)
         /\ Distinct(Tail(q))
         /\ \A x : Member(Tail(q), x) <=> Member(q, x) /\ x # Head(q)
<1> DEFINE t == Tail(q)
<1>0. Len(q) \in Nat \ {0} /\ DOMAIN q = 1..Len(q)
  BY LenProperties, EmptySeq
<1>1. /\ Head(q) \in S /\ t \in Seq(S) /\ Len(t) = Len(q) - 1
      /\ \A k \in 1..Len(q)-1 : t[k] = q[k+1]
  BY HeadTailProperties
<1>2. DOMAIN t = 1..Len(q)-1
  BY <1>1, LenProperties
<1>3. Head(q) = q[1] /\ 1 \in DOMAIN q
  BY <1>0
<1> HIDE DEF t
<1>4. Distinct(t)
  BY <1>0, <1>1, <1>2 DEF Distinct
<1>5. ASSUME NEW x PROVE Member(t, x) <=> Member(q, x) /\ x # q[1]
  <2>1. ASSUME Member(t, x) PROVE Member(q, x) /\ x # q[1]
    <3>1. PICK k \in 1..Len(q)-1 : t[k] = x
      BY <1>2, <2>1 DEF Member
    <3>2. x = q[k+1] /\ k+1 \in DOMAIN q /\ k+1 # 1
      BY <1>0, <1>1, <3>1
    <3> QED BY <1>0, <1>3, <3>2 DEF Member, Distinct
  <2>2. ASSUME Member(q, x), x # q[1] PROVE Member(t, x)
    <3>1. PICK k \in 1..Len(q) : q[k] = x
      BY <1>0, <2>2 DEF Member
    <3>2. k-1 \in 1..Len(q)-1 /\ t[k-1] = x
      BY <1>0, <1>1, <2>2, <3>1
    <3> QED BY <3>2, <1>2 DEF Member
  <2> QED BY <2>1, <2>2
<1> QED BY <1>1, <1>3, <1>4, <1>5 DEF t, Member

\* A newcomer joins at the end.
LEMMA AppendMembers ==
  ASSUME NEW S, NEW q \in Seq(S), NEW y \in S, Distinct(q), ~Member(q, y)
  PROVE  /\ Append(q, y) \in Seq(S)
         /\ Distinct(Append(q, y))
         /\ \A x : Member(Append(q, y), x) <=> Member(q, x) \/ x = y
<1> DEFINE r == Append(q, y)
<1>0. Len(q) \in Nat /\ DOMAIN q = 1..Len(q)
  BY LenProperties
<1>1. /\ r \in Seq(S) /\ Len(r) = Len(q) + 1
      /\ \A k \in 1..Len(q) : r[k] = q[k]
      /\ r[Len(q)+1] = y
  BY AppendProperties
<1>2. DOMAIN r = 1..Len(q)+1
  BY <1>1, LenProperties
<1> HIDE DEF r
<1>3. Distinct(r)
  <2> SUFFICES ASSUME NEW j \in DOMAIN r, NEW k \in DOMAIN r, r[j] = r[k]
               PROVE  j = k
    BY DEF Distinct
  <2>1. \A m \in 1..Len(q) : r[m] # y
    BY <1>0, <1>1 DEF Member
  <2> QED BY <1>0, <1>1, <1>2, <2>1 DEF Distinct
<1>4. ASSUME NEW x PROVE Member(r, x) <=> Member(q, x) \/ x = y
  <2>1. ASSUME Member(r, x) PROVE Member(q, x) \/ x = y
    BY <1>0, <1>1, <1>2, <2>1 DEF Member
  <2>2. ASSUME Member(q, x) PROVE Member(r, x)
    <3>1. PICK k \in 1..Len(q) : q[k] = x
      BY <1>0, <2>2 DEF Member
    <3>2. k \in DOMAIN r /\ r[k] = x
      BY <1>0, <1>1, <1>2, <3>1
    <3> QED BY <3>2 DEF Member
  <2>3. ASSUME x = y PROVE Member(r, x)
    <3>1. Len(q)+1 \in DOMAIN r /\ r[Len(q)+1] = x
      BY <1>0, <1>1, <1>2, <2>3
    <3> QED BY <3>1 DEF Member
  <2> QED BY <2>1, <2>2, <2>3
<1> QED BY <1>1, <1>3, <1>4 DEF r

-----------------------------------------------------------------------------
(***************************************************************************)
(* The inductive invariant: the leases (a busy slot has exactly one        *)
(* borrower, and a pooled slot with a borrower is busy), the queue, and    *)
(* what reconcile knows of the slots it has yet to visit.                  *)
(***************************************************************************)
CallersConsistent ==
  \A c \in Callers : /\ at[c] \in {"holding", "returning"} => answer[c] \in Entries
                     /\ at[c] \in {"idle", "signalling"} => answer[c] = None

QueueConsistent ==
  /\ \A c \in Callers : Member(queue, c) <=> at[c] = "waiting" /\ answer[c] = None
  /\ Distinct(queue)

SlotsConsistent ==
  \A e \in Entries :
    busy[e] => /\ HasClient(e) /\ ~retiring[e] /\ runs[e] < MaxRuns
               /\ \E c \in Callers : answer[c] = e

LeasesConsistent ==
  \A c \in Callers : answer[c] \in Entries =>
    /\ InPool(answer[c]) => busy[answer[c]]
    /\ \A d \in Callers : answer[d] = answer[c] => d = c

ScanConsistent == loop = "place" => \A e \in scan : Idle(e)

IInv == /\ TypeOK /\ CallersConsistent /\ QueueConsistent /\ SlotsConsistent
        /\ LeasesConsistent /\ ScanConsistent

LEMMA InitIInv == Init => IInv
<1> SUFFICES ASSUME Init PROVE IInv
  OBVIOUS
<1>1. TypeOK
  <2>1. queue \in Seq(Callers)
    BY EmptySeq DEF Init
  <2>2. runs \in [Entries -> 0..MaxRuns]
    BY SizeAssumption DEF Init
  <2>3. /\ busy \in [Entries -> BOOLEAN] /\ retiring \in [Entries -> BOOLEAN]
        /\ cancelled \in [Callers -> BOOLEAN]
    BY DEF Init
  <2>4. /\ phase \in [Entries -> {"none", "starting", "started", "watching",
                                  "failed", "exited"}]
        /\ version \in [Entries -> Versions \cup {NoVersion}]
        /\ proc \in [Entries -> {"none", "healthy", "stopping", "done"}]
    BY DEF Init
  <2>5. /\ at \in [Callers -> {"idle", "waiting", "returning", "holding",
                               "signalling"}]
        /\ answer \in [Callers -> Entries \cup {None, Failed}]
    BY DEF Init
  <2>6. /\ scan \in SUBSET Entries
        /\ cursor \in Nat \ {0}
        /\ loop \in {"select", "woken", "purge", "place", "grow", "exited"}
        /\ specVersion \in Versions \cup {NoVersion}
    BY DEF Init
  <2>7. /\ closed \in BOOLEAN /\ backoff \in BOOLEAN
        /\ wake \in BOOLEAN /\ finished \in BOOLEAN
    BY DEF Init
  <2> QED BY <2>1, <2>2, <2>3, <2>4, <2>5, <2>6, <2>7 DEF TypeOK
<1>2. CallersConsistent
  BY DEF Init, CallersConsistent
<1>3. QueueConsistent
  BY DEF Init, QueueConsistent, Member, Distinct
<1>4. SlotsConsistent
  BY DEF Init, SlotsConsistent
<1>5. LeasesConsistent
  BY ValuesAssumption DEF Init, LeasesConsistent
<1>6. ScanConsistent
  BY DEF Init, ScanConsistent
<1> QED BY <1>1, <1>2, <1>3, <1>4, <1>5, <1>6 DEF IInv

-----------------------------------------------------------------------------
(* Steps that leave the queue, the leases and the slots alone *)

LEMMA Untouched ==
  ASSUME IInv, TypeOK',
         UNCHANGED <<queue, phase, busy, retiring, runs, at, answer>>,
         loop' = "place" => \A e \in scan' : Idle(e)
  PROVE  IInv'
<1>1. /\ CallersConsistent' /\ QueueConsistent' /\ SlotsConsistent'
      /\ LeasesConsistent'
  BY DEF IInv, CallersConsistent, QueueConsistent, SlotsConsistent,
         LeasesConsistent, HasClient, InPool
<1>2. ScanConsistent'
  BY DEF ScanConsistent, Idle, HasClient
<1> QED BY <1>1, <1>2 DEF IInv

LEMMA UpdateSpecInv ==
  ASSUME IInv, NEW v \in Versions, UpdateSpec(v) PROVE IInv'
<1>1. TypeOK'
  BY DEF IInv, TypeOK, UpdateSpec, AdoptSpec, LockFree, specVars, slotVars, callerVars, loopVars
<1> QED BY <1>1, Untouched
     DEF IInv, ScanConsistent, UpdateSpec, AdoptSpec, LockFree, specVars, slotVars, callerVars, loopVars

LEMMA CancelContextInv ==
  ASSUME IInv, NEW c \in Callers, CancelContext(c) PROVE IInv'
<1>1. TypeOK'
  BY DEF IInv, TypeOK, CancelContext, specVars, slotVars, callerVars, loopVars
<1> QED BY <1>1, Untouched
     DEF IInv, ScanConsistent, CancelContext, specVars, slotVars, callerVars, loopVars

LEMMA LoopWakesInv ==
  ASSUME IInv, LoopWakes PROVE IInv'
<1>1. TypeOK'
  BY DEF IInv, TypeOK, LoopWakes, specVars, slotVars, callerVars, loopVars
<1> QED BY <1>1, Untouched
     DEF IInv, ScanConsistent, LoopWakes, specVars, slotVars, callerVars, loopVars

LEMMA LoopTicksInv ==
  ASSUME IInv, LoopTicks PROVE IInv'
<1>1. TypeOK'
  BY DEF IInv, TypeOK, LoopTicks, specVars, slotVars, callerVars, loopVars
<1> QED BY <1>1, Untouched
     DEF IInv, ScanConsistent, LoopTicks, specVars, slotVars, callerVars, loopVars

LEMMA LoopExitsInv ==
  ASSUME IInv, LoopExits PROVE IInv'
<1>1. TypeOK'
  BY DEF IInv, TypeOK, LoopExits, specVars, slotVars, callerVars, loopVars
<1> QED BY <1>1, Untouched
     DEF IInv, ScanConsistent, LoopExits, specVars, slotVars, callerVars, loopVars

LEMMA ReconcileBeginsInv ==
  ASSUME IInv, ReconcileBegins PROVE IInv'
<1>1. TypeOK'
  BY DEF IInv, TypeOK, ReconcileBegins, specVars, slotVars, callerVars, loopVars
<1> QED BY <1>1, Untouched
     DEF IInv, ScanConsistent, ReconcileBegins, specVars, slotVars, callerVars, loopVars

LEMMA PurgeEndsInv ==
  ASSUME IInv, PurgeEnds PROVE IInv'
<1>1. TypeOK'
  BY DEF IInv, TypeOK, PurgeEnds, specVars, slotVars, callerVars, loopVars
<1> QED BY <1>1, Untouched
     DEF IInv, ScanConsistent, PurgeEnds, specVars, slotVars, callerVars, loopVars

LEMMA SpareEntryInv ==
  ASSUME IInv, NEW e \in Entries, SpareEntry(e) PROVE IInv'
<1>1. TypeOK'
  BY DEF IInv, TypeOK, SpareEntry, specVars, slotVars, callerVars, loopVars
<1> QED BY <1>1, Untouched
     DEF IInv, ScanConsistent, SpareEntry, specVars, slotVars, callerVars, loopVars

LEMMA PlaceEndsInv ==
  ASSUME IInv, PlaceEnds PROVE IInv'
<1>1. TypeOK'
  BY DEF IInv, TypeOK, PlaceEnds, specVars, slotVars, callerVars, loopVars
<1> QED BY <1>1, Untouched
     DEF IInv, ScanConsistent, PlaceEnds, specVars, slotVars, callerVars, loopVars

LEMMA GrowEndsInv ==
  ASSUME IInv, GrowEnds PROVE IInv'
<1>1. TypeOK'
  BY DEF IInv, TypeOK, GrowEnds, specVars, slotVars, callerVars, loopVars
<1> QED BY <1>1, Untouched
     DEF IInv, ScanConsistent, GrowEnds, specVars, slotVars, callerVars, loopVars

LEMMA CrashInv ==
  ASSUME IInv, NEW e \in Entries, Crash(e) PROVE IInv'
<1>1. TypeOK'
  BY DEF IInv, TypeOK, Crash, specVars, slotVars, callerVars, loopVars
<1> QED BY <1>1, Untouched
     DEF IInv, ScanConsistent, Crash, specVars, slotVars, callerVars, loopVars

LEMMA ReapInv ==
  ASSUME IInv, NEW e \in Entries, Reap(e) PROVE IInv'
<1>1. TypeOK'
  BY DEF IInv, TypeOK, Reap, specVars, slotVars, callerVars, loopVars
<1> QED BY <1>1, Untouched
     DEF IInv, ScanConsistent, Reap, specVars, slotVars, callerVars, loopVars

LEMMA RetryElapsesInv ==
  ASSUME IInv, RetryElapses PROVE IInv'
<1>1. TypeOK'
  BY DEF IInv, TypeOK, RetryElapses, specVars, slotVars, callerVars, loopVars
<1> QED BY <1>1, Untouched
     DEF IInv, ScanConsistent, RetryElapses, specVars, slotVars, callerVars, loopVars

LEMMA CloseReturnsInv ==
  ASSUME IInv, CloseReturns PROVE IInv'
<1>1. TypeOK'
  BY DEF IInv, TypeOK, CloseReturns, specVars, slotVars, callerVars, loopVars
<1> QED BY <1>1, Untouched
     DEF IInv, ScanConsistent, CloseReturns, specVars, slotVars, callerVars, loopVars

LEMMA TerminatedInv ==
  ASSUME IInv, Terminated PROVE IInv'
<1>1. TypeOK'
  BY DEF IInv, TypeOK, Terminated, vars, specVars, slotVars, callerVars, loopVars
<1> QED BY <1>1, Untouched
     DEF IInv, ScanConsistent, Terminated, vars, specVars, slotVars, callerVars, loopVars

-----------------------------------------------------------------------------
(* What the steps do to the queue *)

LEMMA EnqueueQueue ==
  ASSUME IInv, NEW c \in Callers, Enqueue(c)
  PROVE  QueueConsistent' /\ queue' \in Seq(Callers)
<1>1. Distinct(queue) /\ ~Member(queue, c) /\ queue \in Seq(Callers)
  BY DEF IInv, TypeOK, QueueConsistent, Enqueue
<1>2. /\ queue' \in Seq(Callers) /\ Distinct(queue')
      /\ \A d : Member(queue', d) <=> Member(queue, d) \/ d = c
  BY <1>1, AppendMembers DEF Enqueue, Joined
<1> QED BY <1>2 DEF IInv, TypeOK, CallersConsistent, QueueConsistent, Enqueue

\* The head of the queue is a waiter with no answer; it gets one and leaves.
LEMMA HeadAnswered ==
  ASSUME IInv, queue # <<>>, NEW r, r # None, at' = at,
         answer' = [answer EXCEPT ![Head(queue)] = r],
         queue' = Tail(queue)
  PROVE  /\ Head(queue) \in Callers
         /\ at[Head(queue)] = "waiting" /\ answer[Head(queue)] = None
         /\ QueueConsistent' /\ queue' \in Seq(Callers)
<1>1. queue \in Seq(Callers) /\ Distinct(queue)
  BY DEF IInv, TypeOK, QueueConsistent
<1>2. /\ Head(queue) \in Callers /\ Member(queue, Head(queue))
      /\ queue' \in Seq(Callers) /\ Distinct(queue')
      /\ \A d : Member(queue', d) <=> Member(queue, d) /\ d # Head(queue)
  BY <1>1, TailMembers
<1> QED BY <1>2 DEF IInv, TypeOK, QueueConsistent

\* The same for a waiter in the middle, whatever becomes of it.
LEMMA MiddleRemoved ==
  ASSUME IInv, NEW i \in DOMAIN queue, queue' = RemoveAt(queue, i)
  PROVE  /\ queue[i] \in Callers
         /\ at[queue[i]] = "waiting" /\ answer[queue[i]] = None
         /\ queue' \in Seq(Callers) /\ Distinct(queue')
         /\ \A d : Member(queue', d) <=> Member(queue, d) /\ d # queue[i]
<1>1. queue \in Seq(Callers) /\ Distinct(queue) /\ queue[i] \in Callers
  BY LenProperties DEF IInv, TypeOK, QueueConsistent
<1>2. Member(queue, queue[i])
  BY DEF Member
<1>3. /\ queue' \in Seq(Callers) /\ Distinct(queue')
      /\ \A d : Member(queue', d) <=> Member(queue, d) /\ d # queue[i]
  BY <1>1, RemoveAtMembers
<1> QED BY <1>1, <1>2, <1>3 DEF IInv, QueueConsistent

\* A failure is charged to the head of the queue, if there is one.
LEMMA FailHeadEffect ==
  ASSUME IInv, FailHead, at' = at
  PROVE  /\ QueueConsistent' /\ queue' \in Seq(Callers)
         /\ answer' \in [Callers -> Entries \cup {None, Failed}]
         /\ \A c \in Callers :
              \/ answer'[c] = answer[c]
              \/ at[c] = "waiting" /\ answer[c] = None /\ answer'[c] = Failed
<1>1. CASE queue = <<>>
  BY <1>1 DEF FailHead, IInv, TypeOK, QueueConsistent
<1>2. CASE queue # <<>>
  <2>1. /\ queue' = Tail(queue)
        /\ answer' = [answer EXCEPT ![Head(queue)] = Failed]
    BY <1>2 DEF FailHead
  <2>2. /\ Head(queue) \in Callers
        /\ at[Head(queue)] = "waiting" /\ answer[Head(queue)] = None
        /\ QueueConsistent' /\ queue' \in Seq(Callers)
    BY <1>2, <2>1, HeadAnswered, ValuesAssumption
  <2> QED BY <2>1, <2>2 DEF IInv, TypeOK
<1> QED BY <1>1, <1>2

-----------------------------------------------------------------------------
(* Callers *)

LEMMA AcquireInv ==
  ASSUME IInv, NEW c \in Callers, NEW v \in Versions, Acquire(c, v) PROVE IInv'
<1> USE DEF specVars, slotVars, callerVars, loopVars
<1>0. QueueConsistent' /\ queue' \in Seq(Callers)
  BY EnqueueQueue DEF Acquire
<1>1. TypeOK'
  BY <1>0 DEF IInv, TypeOK, Acquire, AdoptSpec, Enqueue, LockFree
<1>2. CallersConsistent'
  BY ValuesAssumption DEF IInv, TypeOK, CallersConsistent, Acquire, AdoptSpec, Enqueue, LockFree
<1>3. QueueConsistent'
  BY <1>0
<1>4. SlotsConsistent'
  BY DEF IInv, TypeOK, CallersConsistent, SlotsConsistent,
         LeasesConsistent, HasClient, InPool, Acquire, AdoptSpec, Enqueue, LockFree
<1>5. LeasesConsistent'
  BY ValuesAssumption
     DEF IInv, TypeOK, CallersConsistent, SlotsConsistent, LeasesConsistent,
         HasClient, InPool, Acquire, AdoptSpec, Enqueue, LockFree
<1>6. ScanConsistent'
  BY DEF IInv, TypeOK, ScanConsistent, Idle, HasClient, Acquire, AdoptSpec, Enqueue, LockFree
<1> QED BY <1>1, <1>2, <1>3, <1>4, <1>5, <1>6 DEF IInv

LEMMA AcquireLatestInv ==
  ASSUME IInv, NEW c \in Callers, AcquireLatest(c) PROVE IInv'
<1> USE DEF specVars, slotVars, callerVars, loopVars
<1>0. QueueConsistent' /\ queue' \in Seq(Callers)
  BY EnqueueQueue DEF AcquireLatest
<1>1. TypeOK'
  BY <1>0 DEF IInv, TypeOK, AcquireLatest, Enqueue, LockFree
<1>2. CallersConsistent'
  BY ValuesAssumption DEF IInv, TypeOK, CallersConsistent, AcquireLatest, Enqueue, LockFree
<1>3. QueueConsistent'
  BY <1>0
<1>4. SlotsConsistent'
  BY DEF IInv, TypeOK, CallersConsistent, SlotsConsistent,
         LeasesConsistent, HasClient, InPool, AcquireLatest, Enqueue, LockFree
<1>5. LeasesConsistent'
  BY ValuesAssumption
     DEF IInv, TypeOK, CallersConsistent, SlotsConsistent, LeasesConsistent,
         HasClient, InPool, AcquireLatest, Enqueue, LockFree
<1>6. ScanConsistent'
  BY DEF IInv, TypeOK, ScanConsistent, Idle, HasClient, AcquireLatest, Enqueue, LockFree
<1> QED BY <1>1, <1>2, <1>3, <1>4, <1>5, <1>6 DEF IInv

LEMMA ReceiveInv ==
  ASSUME IInv, NEW c \in Callers, Receive(c) PROVE IInv'
<1> USE DEF specVars, slotVars, callerVars, loopVars
<1>1. TypeOK'
  BY DEF IInv, TypeOK, Receive, TakeAnswer
<1>2. CallersConsistent'
  BY ValuesAssumption DEF IInv, TypeOK, CallersConsistent, Receive, TakeAnswer
<1>3. QueueConsistent'
  BY ValuesAssumption DEF IInv, TypeOK, QueueConsistent, Receive, TakeAnswer
<1>4. SlotsConsistent'
  BY DEF IInv, TypeOK, CallersConsistent, SlotsConsistent,
         LeasesConsistent, HasClient, InPool, Receive, TakeAnswer
<1>5. LeasesConsistent'
  BY ValuesAssumption
     DEF IInv, TypeOK, CallersConsistent, SlotsConsistent, LeasesConsistent,
         HasClient, InPool, Receive, TakeAnswer
<1>6. ScanConsistent'
  BY DEF IInv, TypeOK, ScanConsistent, Idle, HasClient, Receive, TakeAnswer
<1> QED BY <1>1, <1>2, <1>3, <1>4, <1>5, <1>6 DEF IInv

LEMMA GiveUpQueuedInv ==
  ASSUME IInv, NEW c \in Callers, GiveUpQueued(c) PROVE IInv'
<1> USE DEF specVars, slotVars, callerVars, loopVars
<1> PICK i \in DOMAIN queue : queue[i] = c /\ queue' = RemoveAt(queue, i)
  BY DEF GiveUpQueued
<1>0. /\ at[c] = "waiting" /\ answer[c] = None
      /\ queue' \in Seq(Callers) /\ Distinct(queue')
      /\ \A d : Member(queue', d) <=> Member(queue, d) /\ d # c
  BY MiddleRemoved
<1>1. TypeOK'
  BY <1>0 DEF IInv, TypeOK, GiveUpQueued, LockFree
<1>2. CallersConsistent'
  BY <1>0 DEF IInv, TypeOK, CallersConsistent, GiveUpQueued, LockFree
<1>3. QueueConsistent'
  BY <1>0 DEF IInv, TypeOK, QueueConsistent, GiveUpQueued, LockFree
<1>4. SlotsConsistent'
  BY DEF IInv, TypeOK, CallersConsistent, SlotsConsistent,
         LeasesConsistent, HasClient, InPool, GiveUpQueued, LockFree
<1>5. LeasesConsistent'
  BY ValuesAssumption
     DEF IInv, TypeOK, CallersConsistent, SlotsConsistent, LeasesConsistent,
         HasClient, InPool, GiveUpQueued, LockFree
<1>6. ScanConsistent'
  BY DEF IInv, TypeOK, ScanConsistent, Idle, HasClient, GiveUpQueued, LockFree
<1> QED BY <1>1, <1>2, <1>3, <1>4, <1>5, <1>6 DEF IInv

LEMMA GiveUpAnsweredInv ==
  ASSUME IInv, NEW c \in Callers, GiveUpAnswered(c) PROVE IInv'
<1> USE DEF specVars, slotVars, callerVars, loopVars
<1>1. TypeOK'
  BY DEF IInv, TypeOK, GiveUpAnswered, TakeAnswer, LockFree
<1>2. CallersConsistent'
  BY ValuesAssumption DEF IInv, TypeOK, CallersConsistent, GiveUpAnswered, TakeAnswer, LockFree
<1>3. QueueConsistent'
  BY ValuesAssumption
     DEF IInv, TypeOK, QueueConsistent, Member, Queued, GiveUpAnswered, TakeAnswer, LockFree
<1>4. SlotsConsistent'
  BY DEF IInv, TypeOK, CallersConsistent, SlotsConsistent,
         LeasesConsistent, HasClient, InPool, GiveUpAnswered, TakeAnswer, LockFree
<1>5. LeasesConsistent'
  BY ValuesAssumption
     DEF IInv, TypeOK, CallersConsistent, SlotsConsistent, LeasesConsistent,
         HasClient, InPool, GiveUpAnswered, TakeAnswer, LockFree
<1>6. ScanConsistent'
  BY DEF IInv, TypeOK, ScanConsistent, Idle, HasClient, GiveUpAnswered, TakeAnswer, LockFree
<1> QED BY <1>1, <1>2, <1>3, <1>4, <1>5, <1>6 DEF IInv

LEMMA SignalCancelledInv ==
  ASSUME IInv, NEW c \in Callers, SignalCancelled(c) PROVE IInv'
<1> USE DEF specVars, slotVars, callerVars, loopVars
<1>1. TypeOK'
  BY DEF IInv, TypeOK, SignalCancelled
<1>2. CallersConsistent'
  BY ValuesAssumption DEF IInv, TypeOK, CallersConsistent, SignalCancelled
<1>3. QueueConsistent'
  BY ValuesAssumption DEF IInv, TypeOK, QueueConsistent, SignalCancelled
<1>4. SlotsConsistent'
  BY DEF IInv, TypeOK, CallersConsistent, SlotsConsistent,
         LeasesConsistent, HasClient, InPool, SignalCancelled
<1>5. LeasesConsistent'
  BY ValuesAssumption
     DEF IInv, TypeOK, CallersConsistent, SlotsConsistent, LeasesConsistent,
         HasClient, InPool, SignalCancelled
<1>6. ScanConsistent'
  BY DEF IInv, TypeOK, ScanConsistent, Idle, HasClient, SignalCancelled
<1> QED BY <1>1, <1>2, <1>3, <1>4, <1>5, <1>6 DEF IInv

LEMMA ReleaseInv ==
  ASSUME IInv, NEW c \in Callers, Release(c) PROVE IInv'
<1> USE DEF specVars, slotVars, callerVars, loopVars
<1>0. answer[c] \in Entries
  BY DEF IInv, CallersConsistent, Release
<1>1. TypeOK'
  <2>1. /\ runs' \in [Entries -> 0..MaxRuns]
        /\ busy' \in [Entries -> BOOLEAN] /\ wake' \in BOOLEAN
    <3> DEFINE e == answer[c]
    <3>1. CASE HasClient(e) /\ busy[e] /\ ~retiring[e]
      <4>1. /\ busy' = [busy EXCEPT ![e] = FALSE]
            /\ runs' = [runs EXCEPT ![e] = @ + 1] /\ wake' = TRUE
        BY <3>1 DEF Release, ReleaseLocked
      <4>2. runs[e] + 1 \in 0..MaxRuns
        BY <1>0, <3>1, SizeAssumption DEF IInv, TypeOK, SlotsConsistent
      <4> QED BY <1>0, <4>1, <4>2 DEF IInv, TypeOK
    <3>2. CASE ~(HasClient(e) /\ busy[e] /\ ~retiring[e])
      BY <3>2 DEF Release, ReleaseLocked, IInv, TypeOK
    <3> QED BY <3>1, <3>2
  <2>3. /\ at' \in [Callers -> {"idle", "waiting", "returning", "holding",
                                "signalling"}]
        /\ answer' \in [Callers -> Entries \cup {None, Failed}]
    BY DEF IInv, TypeOK, Release, ReleaseLocked, LockFree
  <2> QED BY <2>1, <2>3 DEF IInv, TypeOK, Release
<1>2. CallersConsistent'
  BY ValuesAssumption DEF IInv, TypeOK, CallersConsistent, Release, ReleaseLocked, LockFree
<1>3. QueueConsistent'
  BY ValuesAssumption DEF IInv, TypeOK, QueueConsistent, Release, ReleaseLocked, LockFree
<1>4. SlotsConsistent'
  <2>1. ~busy'[answer[c]]
    BY <1>0 DEF IInv, TypeOK, SlotsConsistent, LeasesConsistent, HasClient, InPool, Release, ReleaseLocked
  <2>2. \A x \in Entries : busy'[x] => busy[x] /\ runs'[x] = runs[x] /\ x # answer[c]
    BY <1>0, <2>1 DEF IInv, TypeOK, Release, ReleaseLocked
  <2>3. \A d \in Callers : d # c => answer'[d] = answer[d]
    BY DEF IInv, TypeOK, Release
  <2>4. phase' = phase /\ retiring' = retiring
    BY DEF Release
  <2> QED BY <2>2, <2>3, <2>4 DEF SlotsConsistent, IInv, HasClient
<1>5. LeasesConsistent'
  BY ValuesAssumption
     DEF IInv, TypeOK, CallersConsistent, SlotsConsistent, LeasesConsistent,
         HasClient, InPool, Release, ReleaseLocked, LockFree
<1>6. ScanConsistent'
  BY DEF IInv, TypeOK, ScanConsistent, Idle, HasClient, Release, ReleaseLocked, LockFree
<1> QED BY <1>1, <1>2, <1>3, <1>4, <1>5, <1>6 DEF IInv

-----------------------------------------------------------------------------
(* The scheduling loop *)

LEMMA PurgeWaiterInv ==
  ASSUME IInv, PurgeWaiter PROVE IInv'
<1> USE DEF specVars, slotVars, callerVars, loopVars
<1>0. cursor \in DOMAIN queue /\ loop = "purge"
  BY DEF PurgeWaiter
<1>1. CASE cancelled[queue[cursor]]
  <2> DEFINE w == queue[cursor]
  <2>0. /\ answer' = [answer EXCEPT ![w] = Failed]
        /\ queue' = RemoveAt(queue, cursor)
        /\ cursor' = cursor
    BY <1>1 DEF PurgeWaiter
  <2>1. /\ w \in Callers /\ at[w] = "waiting" /\ answer[w] = None
        /\ queue' \in Seq(Callers) /\ Distinct(queue')
        /\ \A d : Member(queue', d) <=> Member(queue, d) /\ d # w
    BY <1>0, <2>0, MiddleRemoved
  <2> HIDE DEF w
  <2>2. TypeOK'
    BY <2>0, <2>1 DEF IInv, TypeOK, PurgeWaiter
  <2>3. CallersConsistent'
    BY <2>0, <2>1 DEF IInv, TypeOK, CallersConsistent, PurgeWaiter
  <2>4. QueueConsistent'
    BY <2>0, <2>1, ValuesAssumption DEF IInv, TypeOK, QueueConsistent, PurgeWaiter
  <2>5. SlotsConsistent' /\ LeasesConsistent'
    BY <2>0, <2>1, ValuesAssumption
       DEF IInv, TypeOK, SlotsConsistent, LeasesConsistent, HasClient, InPool,
           PurgeWaiter
  <2>6. ScanConsistent'
    BY <1>0 DEF PurgeWaiter, ScanConsistent
  <2> QED BY <2>2, <2>3, <2>4, <2>5, <2>6 DEF IInv
<1>2. CASE ~cancelled[queue[cursor]]
  <2>1. TypeOK'
    BY <1>2 DEF IInv, TypeOK, PurgeWaiter
  <2> QED BY <1>0, <1>2, <2>1, Untouched DEF PurgeWaiter
<1> QED BY <1>1, <1>2

LEMMA RetireEntryInv ==
  ASSUME IInv, NEW e \in Entries, RetireEntry(e) PROVE IInv'
<1> USE DEF specVars, slotVars, callerVars, loopVars
<1>1. TypeOK'
  BY DEF IInv, TypeOK, RetireEntry
<1>2. CallersConsistent'
  BY ValuesAssumption DEF IInv, TypeOK, CallersConsistent, RetireEntry
<1>3. QueueConsistent'
  BY ValuesAssumption DEF IInv, TypeOK, QueueConsistent, RetireEntry
<1>4. SlotsConsistent'
  BY DEF IInv, TypeOK, SlotsConsistent, ScanConsistent, Idle, HasClient, RetireEntry
<1>5. LeasesConsistent'
  BY ValuesAssumption
     DEF IInv, TypeOK, CallersConsistent, SlotsConsistent, LeasesConsistent,
         HasClient, InPool, RetireEntry
<1>6. ScanConsistent'
  BY DEF IInv, TypeOK, ScanConsistent, Idle, HasClient, RetireEntry
<1> QED BY <1>1, <1>2, <1>3, <1>4, <1>5, <1>6 DEF IInv

LEMMA DispatchEntryInv ==
  ASSUME IInv, NEW e \in Entries, DispatchEntry(e) PROVE IInv'
<1> USE DEF specVars, slotVars, callerVars, loopVars
<1>0. /\ Head(queue) \in Callers
      /\ at[Head(queue)] = "waiting" /\ answer[Head(queue)] = None
      /\ QueueConsistent' /\ queue' \in Seq(Callers)
  BY HeadAnswered, ValuesAssumption DEF DispatchEntry
<1>a. Idle(e) /\ ~WornOut(e)
  BY DEF DispatchEntry, IInv, ScanConsistent
<1>b. \A d \in Callers : answer[d] # e
  BY <1>a DEF IInv, LeasesConsistent, Idle, HasClient, InPool
<1>1. TypeOK'
  BY <1>0 DEF IInv, TypeOK, DispatchEntry, WornOut
<1>2. CallersConsistent'
  BY <1>0 DEF IInv, TypeOK, CallersConsistent, DispatchEntry, WornOut
<1>3. QueueConsistent'
  BY <1>0
<1>4. SlotsConsistent'
  <2>1. answer'[Head(queue)] = e
    BY <1>0 DEF IInv, TypeOK, DispatchEntry
  <2>2. \A c \in Callers : answer[c] \in Entries => answer'[c] = answer[c]
    BY <1>0, ValuesAssumption DEF IInv, TypeOK, DispatchEntry
  <2>3. HasClient(e) /\ ~retiring[e] /\ runs[e] < MaxRuns
    BY <1>a, SizeAssumption DEF IInv, TypeOK, Idle, WornOut
  <2> QED BY <1>0, <2>1, <2>2, <2>3 DEF IInv, TypeOK, SlotsConsistent, HasClient, DispatchEntry
<1>5. LeasesConsistent'
  BY <1>0, <1>b DEF IInv, TypeOK, LeasesConsistent, InPool, DispatchEntry, WornOut
<1>6. ScanConsistent'
  BY DEF IInv, TypeOK, ScanConsistent, Idle, HasClient, DispatchEntry, WornOut
<1> QED BY <1>1, <1>2, <1>3, <1>4, <1>5, <1>6 DEF IInv

LEMMA AddEntryInv ==
  ASSUME IInv, NEW e \in Entries, AddEntry(e) PROVE IInv'
<1> USE DEF specVars, slotVars, callerVars, loopVars
<1>1. TypeOK'
  BY DEF IInv, TypeOK, AddEntry, Fresh
<1>2. CallersConsistent'
  BY ValuesAssumption DEF IInv, TypeOK, CallersConsistent, AddEntry, Fresh
<1>3. QueueConsistent'
  BY ValuesAssumption DEF IInv, TypeOK, QueueConsistent, AddEntry, Fresh
<1>4. SlotsConsistent'
  BY DEF IInv, TypeOK, CallersConsistent, SlotsConsistent,
         LeasesConsistent, HasClient, InPool, AddEntry, Fresh
<1>5. LeasesConsistent'
  BY ValuesAssumption
     DEF IInv, TypeOK, CallersConsistent, SlotsConsistent, LeasesConsistent,
         HasClient, InPool, AddEntry, Fresh
<1>6. ScanConsistent'
  BY DEF IInv, TypeOK, ScanConsistent, Idle, HasClient, AddEntry, Fresh
<1> QED BY <1>1, <1>2, <1>3, <1>4, <1>5, <1>6 DEF IInv

-----------------------------------------------------------------------------
(* Slots *)

LEMMA StartFailsInv ==
  ASSUME IInv, NEW e \in Entries, StartFails(e) PROVE IInv'
<1> USE DEF specVars, slotVars, callerVars, loopVars
<1>0. /\ QueueConsistent' /\ queue' \in Seq(Callers)
      /\ answer' \in [Callers -> Entries \cup {None, Failed}]
      /\ \A c \in Callers :
           \/ answer'[c] = answer[c]
           \/ at[c] = "waiting" /\ answer[c] = None /\ answer'[c] = Failed
  <2>1. CASE ~closed /\ Current(e)
    BY <2>1, FailHeadEffect DEF StartFails
  <2>2. CASE ~(~closed /\ Current(e))
    BY <2>2 DEF StartFails, IInv, TypeOK, QueueConsistent
  <2> QED BY <2>1, <2>2
<1>1. TypeOK'
  <2>1. backoff' \in BOOLEAN
    BY DEF IInv, TypeOK, StartFails
  <2>2. runs' \in [Entries -> 0..MaxRuns]
    BY SizeAssumption DEF IInv, TypeOK, StartFails, DropEntry
  <2> QED BY <1>0, <2>1, <2>2 DEF IInv, TypeOK, StartFails, DropEntry, LockFree
<1>2. CallersConsistent'
  BY <1>0, ValuesAssumption DEF IInv, TypeOK, CallersConsistent, StartFails, DropEntry, LockFree
<1>3. QueueConsistent'
  BY <1>0
<1>4. SlotsConsistent'
  BY <1>0, ValuesAssumption
     DEF IInv, TypeOK, SlotsConsistent, HasClient, StartFails, DropEntry, LockFree
<1>5. LeasesConsistent'
  <2>1. \A c \in Callers : answer'[c] \in Entries => answer'[c] = answer[c]
    BY <1>0, ValuesAssumption
  <2>2. \A x \in Entries : InPool(x)' => InPool(x) /\ busy'[x] = busy[x]
    BY DEF IInv, TypeOK, InPool, StartFails, DropEntry
  <2> QED BY <2>1, <2>2 DEF IInv, LeasesConsistent
<1>6. ScanConsistent'
  BY DEF IInv, TypeOK, ScanConsistent, Idle, HasClient, StartFails, DropEntry, LockFree
<1> QED BY <1>1, <1>2, <1>3, <1>4, <1>5, <1>6 DEF IInv

LEMMA EntryExitsInv ==
  ASSUME IInv, NEW e \in Entries, EntryExits(e) PROVE IInv'
<1> USE DEF specVars, slotVars, callerVars, loopVars
<1>0. /\ QueueConsistent' /\ queue' \in Seq(Callers)
      /\ answer' \in [Callers -> Entries \cup {None, Failed}]
      /\ \A c \in Callers :
           \/ answer'[c] = answer[c]
           \/ at[c] = "waiting" /\ answer[c] = None /\ answer'[c] = Failed
  <2>1. CASE DiedUnused(e)
    BY <2>1, FailHeadEffect DEF EntryExits
  <2>2. CASE ~(DiedUnused(e))
    BY <2>2 DEF EntryExits, IInv, TypeOK, QueueConsistent
  <2> QED BY <2>1, <2>2
<1>1. TypeOK'
  <2>1. backoff' \in BOOLEAN
    BY DEF IInv, TypeOK, EntryExits
  <2>2. runs' \in [Entries -> 0..MaxRuns]
    BY SizeAssumption DEF IInv, TypeOK, EntryExits, DropEntry
  <2> QED BY <1>0, <2>1, <2>2 DEF IInv, TypeOK, EntryExits, DropEntry, LockFree
<1>2. CallersConsistent'
  BY <1>0, ValuesAssumption DEF IInv, TypeOK, CallersConsistent, EntryExits, DropEntry, LockFree
<1>3. QueueConsistent'
  BY <1>0
<1>4. SlotsConsistent'
  BY <1>0, ValuesAssumption
     DEF IInv, TypeOK, SlotsConsistent, HasClient, EntryExits, DropEntry, LockFree
<1>5. LeasesConsistent'
  <2>1. \A c \in Callers : answer'[c] \in Entries => answer'[c] = answer[c]
    BY <1>0, ValuesAssumption
  <2>2. \A x \in Entries : InPool(x)' => InPool(x) /\ busy'[x] = busy[x]
    BY DEF IInv, TypeOK, InPool, EntryExits, DropEntry
  <2> QED BY <2>1, <2>2 DEF IInv, LeasesConsistent
<1>6. ScanConsistent'
  BY DEF IInv, TypeOK, ScanConsistent, Idle, HasClient, EntryExits, DropEntry, LockFree
<1> QED BY <1>1, <1>2, <1>3, <1>4, <1>5, <1>6 DEF IInv

LEMMA StartSucceedsInv ==
  ASSUME IInv, NEW e \in Entries, StartSucceeds(e) PROVE IInv'
<1> USE DEF specVars, slotVars, callerVars, loopVars
<1>1. TypeOK'
  <2>1. Late(e) \in BOOLEAN
    BY DEF IInv, TypeOK, Late
  <2> QED BY <2>1 DEF IInv, TypeOK, StartSucceeds, LockFree
<1>2. CallersConsistent'
  BY ValuesAssumption DEF IInv, TypeOK, CallersConsistent, StartSucceeds, LockFree
<1>3. QueueConsistent'
  BY ValuesAssumption DEF IInv, TypeOK, QueueConsistent, StartSucceeds, LockFree
<1>4. SlotsConsistent'
  BY DEF IInv, TypeOK, CallersConsistent, SlotsConsistent,
         LeasesConsistent, HasClient, InPool, StartSucceeds, LockFree
<1>5. LeasesConsistent'
  BY ValuesAssumption
     DEF IInv, TypeOK, CallersConsistent, SlotsConsistent, LeasesConsistent,
         HasClient, InPool, StartSucceeds, LockFree
<1>6. ScanConsistent'
  BY DEF IInv, TypeOK, ScanConsistent, Idle, HasClient, StartSucceeds, LockFree
<1> QED BY <1>1, <1>2, <1>3, <1>4, <1>5, <1>6 DEF IInv

LEMMA SignalEntryInv ==
  ASSUME IInv, NEW e \in Entries, SignalEntry(e) PROVE IInv'
<1> USE DEF specVars, slotVars, callerVars, loopVars
<1>1. TypeOK'
  BY DEF IInv, TypeOK, SignalEntry
<1>2. CallersConsistent'
  BY ValuesAssumption DEF IInv, TypeOK, CallersConsistent, SignalEntry
<1>3. QueueConsistent'
  BY ValuesAssumption DEF IInv, TypeOK, QueueConsistent, SignalEntry
<1>4. SlotsConsistent'
  BY DEF IInv, TypeOK, CallersConsistent, SlotsConsistent,
         LeasesConsistent, HasClient, InPool, SignalEntry
<1>5. LeasesConsistent'
  BY ValuesAssumption
     DEF IInv, TypeOK, CallersConsistent, SlotsConsistent, LeasesConsistent,
         HasClient, InPool, SignalEntry
<1>6. ScanConsistent'
  BY DEF IInv, TypeOK, ScanConsistent, Idle, HasClient, SignalEntry
<1> QED BY <1>1, <1>2, <1>3, <1>4, <1>5, <1>6 DEF IInv

LEMMA CloseInv ==
  ASSUME IInv, Close PROVE IInv'
<1> USE DEF specVars, slotVars, callerVars, loopVars
<1>0. /\ queue' = <<>> /\ queue' \in Seq(Callers)
      /\ \A c \in Callers : ~Member(queue', c)
      /\ Distinct(queue')
  BY EmptySeq DEF Close, Member, Distinct
<1>a. \A c \in Callers : answer'[c] =
        IF at[c] = "waiting" /\ answer[c] = None THEN Failed ELSE answer[c]
  BY DEF Close, Queued, IInv, QueueConsistent, Member
<1>1. TypeOK'
  BY <1>0 DEF IInv, TypeOK, Close, LockFree
<1>2. CallersConsistent'
  BY <1>a DEF IInv, TypeOK, CallersConsistent, Close
<1>3. QueueConsistent'
  BY <1>0, <1>a, ValuesAssumption DEF IInv, TypeOK, QueueConsistent, Close
<1>4. SlotsConsistent'
  BY <1>a, ValuesAssumption DEF IInv, TypeOK, SlotsConsistent, HasClient, Close
<1>5. LeasesConsistent'
  BY <1>a, ValuesAssumption DEF IInv, TypeOK, LeasesConsistent, InPool, Close
<1>6. ScanConsistent'
  BY DEF IInv, TypeOK, ScanConsistent, Idle, HasClient, Close, LockFree
<1> QED BY <1>1, <1>2, <1>3, <1>4, <1>5, <1>6 DEF IInv

-----------------------------------------------------------------------------
(* The invariant of the specification, and what follows from it *)

LEMMA NextIInv == IInv /\ [Next]_vars => IInv'
<1> SUFFICES ASSUME IInv, [Next]_vars PROVE IInv'
  OBVIOUS
<1>1. ASSUME NEW c \in Callers, CallerStep(c) PROVE IInv'
  BY <1>1, AcquireInv, AcquireLatestInv, CancelContextInv, ReceiveInv,
     GiveUpQueuedInv, GiveUpAnsweredInv, SignalCancelledInv, ReleaseInv
     DEF CallerStep
<1>2. ASSUME LoopStep PROVE IInv'
  BY <1>2, LoopWakesInv, LoopTicksInv, LoopExitsInv, ReconcileBeginsInv,
     PurgeWaiterInv, PurgeEndsInv, RetireEntryInv, DispatchEntryInv,
     SpareEntryInv, AddEntryInv, PlaceEndsInv, GrowEndsInv
     DEF LoopStep
<1>3. ASSUME NEW e \in Entries, SlotStep(e) PROVE IInv'
  BY <1>3, StartFailsInv, StartSucceedsInv, SignalEntryInv, EntryExitsInv,
     CrashInv, ReapInv
     DEF SlotStep
<1>4. CASE UNCHANGED vars
  <2>1. TypeOK'
    BY <1>4 DEF IInv, TypeOK, vars
  <2> QED BY <1>4, <2>1, Untouched DEF vars, IInv, ScanConsistent
<1> QED BY <1>1, <1>2, <1>3, <1>4, UpdateSpecInv, RetryElapsesInv, CloseInv,
           CloseReturnsInv, TerminatedInv
        DEF Next

LEMMA SpecIInv == Spec => []IInv
<1> QED BY InitIInv, NextIInv, PTL DEF Spec

(***************************************************************************)
(* Every variable keeps its type; in particular no process exceeds its     *)
(* number of runs.                                                         *)
(***************************************************************************)
THEOREM TypeCorrect == Spec => []TypeOK
<1>1. IInv => TypeOK
  BY DEF IInv
<1> QED BY <1>1, SpecIInv, PTL

(***************************************************************************)
(* One process serves one caller.                                          *)
(***************************************************************************)
THEOREM LeasesAreExclusive == Spec => []ExclusiveLease
<1>1. IInv => ExclusiveLease
  BY DEF IInv, LeasesConsistent, ExclusiveLease
<1> QED BY <1>1, SpecIInv, PTL

(***************************************************************************)
(* No lease leaks, whichever way a caller leaves acquire.                  *)
(***************************************************************************)
THEOREM LeasesDoNotLeak == Spec => []NoLeakedLease
<1>1. IInv => NoLeakedLease
  BY DEF IInv, LeasesConsistent, SlotsConsistent, NoLeakedLease
<1> QED BY <1>1, SpecIInv, PTL

(***************************************************************************)
(* A waiter stands in the queue or has its one answer.                     *)
(***************************************************************************)
THEOREM WaitersAreKept == Spec => []QueuedOrAnswered
<1>1. IInv => QueuedOrAnswered
  BY DEF IInv, QueueConsistent, QueuedOrAnswered, Member, Distinct, Queued
<1> QED BY <1>1, SpecIInv, PTL

-----------------------------------------------------------------------------
(* Capacity *)

LEMMA TargetBound ==
  ASSUME IInv PROVE Target \in Nat /\ Target <= Size
<1>1. Cardinality(Busy) \in Nat
  <2>1. Busy \in SUBSET Entries
    BY DEF Busy
  <2>2. IsFiniteSet(Busy)
    BY <2>1, EntriesAssumption, FS_Subset
  <2> QED BY <2>2, FS_CardinalityType
<1>2. Len(queue) \in Nat
  BY LenProperties DEF IInv, TypeOK
<1> QED BY <1>1, <1>2, SizeAssumption DEF Target

\* Only AddEntry puts a slot into the pool.
LEMMA PoolGrowth ==
  ASSUME IInv, [Next]_vars
  PROVE  \/ Pool' \in SUBSET Pool
         \/ \E e \in Entries : AddEntry(e) /\ Pool' = Pool \cup {e}
<1> USE DEF specVars, slotVars, callerVars, loopVars
<1>1. ASSUME phase' = phase PROVE Pool' \in SUBSET Pool
  BY <1>1 DEF Pool, InPool
<1>2. ASSUME NEW e \in Entries, AddEntry(e)
      PROVE  Pool' = Pool \cup {e}
  BY <1>2 DEF AddEntry, Pool, InPool, IInv, TypeOK
<1>3. ASSUME NEW e \in Entries, StartFails(e) \/ StartSucceeds(e)
               \/ SignalEntry(e) \/ EntryExits(e)
      PROVE  Pool' \in SUBSET Pool
  BY <1>3 DEF StartFails, StartSucceeds, SignalEntry, EntryExits, DropEntry,
              Pool, InPool, IInv, TypeOK
<1>4. ASSUME NEW c \in Callers, CallerStep(c) PROVE phase' = phase
  BY <1>4 DEF CallerStep, AcquireLatest, Acquire, Enqueue, CancelContext,
              Receive, GiveUpQueued, GiveUpAnswered, SignalCancelled, Release
<1>5. ASSUME LoopStep, ~ \E e \in Entries : AddEntry(e) PROVE phase' = phase
  BY <1>5 DEF LoopStep, LoopWakes, LoopTicks, LoopExits, ReconcileBegins,
              PurgeWaiter, PurgeEnds, RetireEntry, DispatchEntry, SpareEntry,
              PlaceEnds, GrowEnds
<1>6. ASSUME \/ \E v \in Versions : UpdateSpec(v)
             \/ \E e \in Entries : Crash(e) \/ Reap(e)
             \/ RetryElapses \/ Close \/ CloseReturns \/ Terminated
             \/ UNCHANGED vars
      PROVE  phase' = phase
  BY <1>6 DEF UpdateSpec, Crash, Reap, RetryElapses, Close, CloseReturns,
              Terminated, vars
<1> QED BY <1>1, <1>2, <1>3, <1>4, <1>5, <1>6 DEF Next, SlotStep

(***************************************************************************)
(* The slots in use, starting and exiting ones included, never exceed the  *)
(* capacity.                                                               *)
(***************************************************************************)
THEOREM CapacityIsRespected == Spec => []CapacityRespected
<1>1. Init => CapacityRespected
  <2> SUFFICES ASSUME Init PROVE CapacityRespected
    OBVIOUS
  <2>1. Pool = {}
    BY DEF Init, Pool, InPool
  <2> QED BY <2>1, FS_EmptySet, SizeAssumption DEF CapacityRespected
<1>2. IInv /\ CapacityRespected /\ [Next]_vars => CapacityRespected'
  <2> SUFFICES ASSUME IInv, CapacityRespected, [Next]_vars
               PROVE  CapacityRespected'
    OBVIOUS
  <2>1. Pool \in SUBSET Entries
    BY DEF Pool
  <2>2. IsFiniteSet(Pool) /\ Cardinality(Pool) \in Nat
    BY <2>1, EntriesAssumption, FS_Subset, FS_CardinalityType
  <2>3. CASE Pool' \in SUBSET Pool
    <3>1. Cardinality(Pool') <= Cardinality(Pool) /\ Cardinality(Pool') \in Nat
      BY <2>2, <2>3, FS_Subset, FS_CardinalityType
    <3> QED BY <2>2, <3>1, SizeAssumption DEF CapacityRespected
  <2>4. CASE \E e \in Entries : AddEntry(e) /\ Pool' = Pool \cup {e}
    <3>1. PICK e \in Entries : AddEntry(e) /\ Pool' = Pool \cup {e}
      BY <2>4
    <3>2. Cardinality(Pool) < Target
      BY <3>1 DEF AddEntry, SlotsUsed
    <3>3. /\ IsFiniteSet(Pool \cup {e})
          /\ Cardinality(Pool \cup {e}) =
               IF e \in Pool THEN Cardinality(Pool) ELSE Cardinality(Pool) + 1
      BY <2>2, FS_AddElement
    <3>4. Cardinality(Pool') <= Cardinality(Pool) + 1 /\ Cardinality(Pool') \in Nat
      BY <2>2, <3>1, <3>3
    <3> QED BY <2>2, <3>2, <3>4, TargetBound, SizeAssumption DEF CapacityRespected
  <2> QED BY <2>3, <2>4, PoolGrowth
<1> QED BY <1>1, <1>2, SpecIInv, PTL DEF Spec

-----------------------------------------------------------------------------
(* Wake-ups *)

Wakeable(e) ==
  /\ ~closed /\ Idle(e)
  /\ queue # <<>> \/ version[e] # specVersion \/ runs[e] >= MaxRuns
Attended(e) ==
  \/ wake \/ SignalOwed
  \/ loop \in {"woken", "purge"}
  \/ loop = "place" /\ e \in scan

\* Before the first configuration there is nothing to wake up for.
Configured ==
  specVersion = NoVersion =>
    /\ \A e \in Entries : phase[e] = "none"
    /\ loop \notin {"purge", "place", "grow"}

WakeInv == Configured /\ \A e \in Entries : Wakeable(e) => Attended(e)

\* A step that neither gives a reason to wake nor takes attention away.
LEMMA NoReason ==
  ASSUME WakeInv, Configured',
         \A e \in Entries : Wakeable(e)' =>
           Attended(e)' \/ (Wakeable(e) /\ (Attended(e) => Attended(e)'))
  PROVE  WakeInv'
BY DEF WakeInv

LEMMA CallerWakes ==
  ASSUME IInv, WakeInv, NEW c \in Callers, CallerStep(c)
  PROVE  WakeInv'
<1> USE DEF specVars, slotVars, callerVars, loopVars
<1>1. UNCHANGED <<phase, version, retiring, closed, loop, scan>>
  BY DEF CallerStep, AcquireLatest, Acquire, Enqueue, CancelContext, Receive,
         GiveUpQueued, GiveUpAnswered, SignalCancelled, Release
<1>2. Configured'
  <2>1. specVersion' = specVersion \/ specVersion' \in Versions
    BY DEF CallerStep, AcquireLatest, Acquire, AdoptSpec, Enqueue, CancelContext,
           Receive, GiveUpQueued, GiveUpAnswered, SignalCancelled, Release
  <2> QED BY <1>1, <2>1, ValuesAssumption DEF WakeInv, Configured
<1>3. CASE wake' = TRUE
  BY <1>2, <1>3 DEF WakeInv, Attended
<1>4. CASE GiveUpQueued(c)
  <2>1. at'[c] = "signalling"
    BY <1>4 DEF GiveUpQueued, IInv, TypeOK
  <2> QED BY <1>2, <2>1 DEF WakeInv, Attended, SignalOwed
<1>5. CASE \/ CancelContext(c) \/ Receive(c) \/ GiveUpAnswered(c)
           \/ Release(c) /\ UNCHANGED <<busy, runs, wake>>
  <2>1. UNCHANGED <<specVersion, queue, busy, runs, wake>>
    BY <1>5 DEF CancelContext, Receive, GiveUpAnswered, Release
  <2>2. \A d \in Callers : at[d] = "signalling" => at'[d] = "signalling"
    BY <1>5 DEF CancelContext, Receive, GiveUpAnswered, TakeAnswer, Release, IInv, TypeOK
  <2>3. \A e \in Entries : Wakeable(e)' => Wakeable(e)
    BY <1>1, <2>1 DEF Wakeable, Idle, HasClient
  <2>4. \A e \in Entries : Attended(e) => Attended(e)'
    BY <1>1, <2>1, <2>2 DEF Attended, SignalOwed
  <2> QED BY <1>2, <2>3, <2>4, NoReason
<1> QED BY <1>3, <1>4, <1>5 DEF CallerStep, AcquireLatest, Acquire, Enqueue,
        SignalCancelled, Release, ReleaseLocked

LEMMA LoopWakesUp ==
  ASSUME IInv, WakeInv, LoopStep
  PROVE  WakeInv'
<1> USE DEF specVars, slotVars, callerVars, loopVars
<1>1. UNCHANGED <<specVersion, closed, at>>
  BY DEF LoopStep, LoopWakes, LoopTicks, LoopExits, ReconcileBegins, PurgeWaiter,
         PurgeEnds, RetireEntry, DispatchEntry, SpareEntry, PlaceEnds, AddEntry, GrowEnds
<1>2. CASE LoopWakes \/ LoopTicks
  <2>1. loop' = "woken" /\ phase' = phase
    BY <1>2 DEF LoopWakes, LoopTicks
  <2> QED BY <1>1, <2>1 DEF WakeInv, Configured, Attended
<1>3. CASE LoopExits \/ (ReconcileBegins /\ closed)
  <2>1. closed /\ phase' = phase /\ loop' \in {"exited", "select"}
    BY <1>3 DEF LoopExits, ReconcileBegins
  <2> QED BY <1>1, <2>1 DEF WakeInv, Configured, Wakeable
<1>4. CASE ReconcileBegins /\ specVersion = NoVersion
  <2>1. phase' = phase /\ loop' = "select"
    BY <1>4 DEF ReconcileBegins
  <2>2. \A e \in Entries : ~Idle(e)'
    BY <1>4, <2>1 DEF WakeInv, Configured, Idle, HasClient
  <2> QED BY <1>1, <2>1, <2>2 DEF WakeInv, Configured, Wakeable
<1>5. CASE ReconcileBegins /\ ~closed /\ specVersion # NoVersion
  <2>1. loop' = "purge"
    BY <1>5 DEF ReconcileBegins
  <2> QED BY <1>1, <1>5, <2>1 DEF WakeInv, Configured, Attended
<1>6. CASE PurgeWaiter
  <2>1. loop' = "purge" /\ loop = "purge"
    BY <1>6 DEF PurgeWaiter
  <2> QED BY <1>1, <2>1 DEF WakeInv, Configured, Attended
<1>7. CASE PurgeEnds
  <2>1. /\ loop = "purge" /\ loop' = "place" /\ scan' = {e \in Entries : Idle(e)}
        /\ UNCHANGED <<phase, busy, retiring>>
    BY <1>7 DEF PurgeEnds
  <2>2. \A e \in Entries : Idle(e)' => e \in scan'
    BY <2>1 DEF Idle, HasClient
  <2> QED BY <1>1, <2>1, <2>2 DEF WakeInv, Configured, Wakeable, Attended
<1>8. ASSUME NEW e \in Entries, RetireEntry(e) \/ DispatchEntry(e) \/ SpareEntry(e)
      PROVE  WakeInv'
  <2>1. /\ loop = "place" /\ scan' = scan \ {e}
        /\ UNCHANGED <<phase, version, runs, wake, loop>>
        /\ \A f \in Entries : f # e => busy'[f] = busy[f] /\ retiring'[f] = retiring[f]
        /\ queue' # <<>> => queue # <<>>
    BY <1>8 DEF RetireEntry, DispatchEntry, SpareEntry, IInv, TypeOK
  <2>2. ~Wakeable(e)'
    <3>1. CASE RetireEntry(e)
      BY <3>1 DEF RetireEntry, Wakeable, Idle, IInv, TypeOK
    <3>2. CASE DispatchEntry(e)
      BY <3>2 DEF DispatchEntry, Wakeable, Idle, IInv, TypeOK
    <3>3. CASE SpareEntry(e)
      <4>1. queue' = <<>> /\ version[e] = specVersion /\ ~(runs[e] >= MaxRuns)
        BY <3>3 DEF SpareEntry, WornOut
      <4> QED BY <1>1, <2>1, <4>1 DEF Wakeable
    <3> QED BY <1>8, <3>1, <3>2, <3>3
  <2>3. \A f \in Entries : f # e /\ Wakeable(f)' => Wakeable(f)
    BY <1>1, <2>1 DEF Wakeable, Idle, HasClient
  <2>4. \A f \in Entries : f # e /\ Attended(f) => Attended(f)'
    BY <1>1, <2>1 DEF Attended, SignalOwed
  <2>5. Configured'
    BY <1>1, <2>1 DEF WakeInv, Configured
  <2> QED BY <2>2, <2>3, <2>4, <2>5, NoReason
<1>9. CASE PlaceEnds \/ GrowEnds
  <2>1. /\ loop = "place" => scan = {}
        /\ loop \in {"place", "grow"} /\ loop' \in {"select", "grow"}
        /\ UNCHANGED <<queue, slotVars, wake>>
    BY <1>9 DEF PlaceEnds, GrowEnds
  <2>2. \A e \in Entries : Wakeable(e)' => Wakeable(e)
    BY <1>1, <2>1 DEF Wakeable, Idle, HasClient
  <2>3. \A e \in Entries : Attended(e) => Attended(e)'
    BY <1>1, <2>1 DEF Attended, SignalOwed
  <2>4. Configured'
    BY <1>1, <2>1 DEF WakeInv, Configured
  <2> QED BY <2>2, <2>3, <2>4, NoReason
<1>10. ASSUME NEW e \in Entries, AddEntry(e) PROVE WakeInv'
  <2>1. /\ loop = "grow" /\ phase[e] = "none" /\ phase'[e] = "starting"
        /\ \A f \in Entries : f # e => phase'[f] = phase[f] /\ version'[f] = version[f]
        /\ UNCHANGED <<queue, busy, retiring, runs, wake, loop, scan>>
    BY <1>10 DEF AddEntry, Fresh, IInv, TypeOK
  <2>2. ~Wakeable(e)'
    BY <2>1 DEF Wakeable, Idle, HasClient
  <2>3. \A f \in Entries : f # e /\ Wakeable(f)' => Wakeable(f)
    BY <1>1, <2>1 DEF Wakeable, Idle, HasClient
  <2>4. \A f \in Entries : Attended(f) => Attended(f)'
    BY <1>1, <2>1 DEF Attended, SignalOwed
  <2>5. Configured'
    BY <1>1, <2>1 DEF WakeInv, Configured
  <2> QED BY <2>2, <2>3, <2>4, <2>5, NoReason
<1> QED BY <1>2, <1>3, <1>4, <1>5, <1>6, <1>7, <1>8, <1>9, <1>10 DEF LoopStep

LEMMA SlotWakes ==
  ASSUME IInv, WakeInv, NEW e \in Entries, SlotStep(e)
  PROVE  WakeInv'
<1> USE DEF specVars, slotVars, callerVars, loopVars
<1>1. UNCHANGED <<specVersion, closed, at, loop, scan>>
  BY DEF SlotStep, StartFails, StartSucceeds, SignalEntry, EntryExits, Crash, Reap
<1>2. CASE StartFails(e) \/ StartSucceeds(e) \/ EntryExits(e)
  <2>1. phase[e] # "none" /\ phase'[e] \in {"failed", "started", "exited"}
    BY <1>2 DEF StartFails, StartSucceeds, EntryExits, DropEntry, IInv, TypeOK
  <2> QED BY <1>1, <2>1 DEF WakeInv, Configured, Attended, SignalOwed
<1>3. CASE SignalEntry(e)
  <2>1. phase[e] # "none" /\ wake' = TRUE
    BY <1>3 DEF SignalEntry
  <2> QED BY <1>1, <2>1 DEF WakeInv, Configured, Attended
<1>4. CASE Crash(e) \/ Reap(e)
  <2>1. UNCHANGED <<queue, phase, version, busy, retiring, runs, wake>>
    BY <1>4 DEF Crash, Reap
  <2>2. \A f \in Entries : Wakeable(f)' => Wakeable(f)
    BY <1>1, <2>1 DEF Wakeable, Idle, HasClient
  <2>3. \A f \in Entries : Attended(f) => Attended(f)'
    BY <1>1, <2>1 DEF Attended, SignalOwed
  <2>4. Configured'
    BY <1>1, <2>1 DEF WakeInv, Configured
  <2> QED BY <2>2, <2>3, <2>4, NoReason
<1> QED BY <1>2, <1>3, <1>4 DEF SlotStep

LEMMA OthersWake ==
  ASSUME IInv, WakeInv,
         \/ \E v \in Versions : UpdateSpec(v)
         \/ RetryElapses \/ Close \/ CloseReturns \/ UNCHANGED vars
  PROVE  WakeInv'
<1> USE DEF specVars, slotVars, callerVars, loopVars
<1>1. ASSUME NEW v \in Versions, UpdateSpec(v) PROVE WakeInv'
  <2>1. specVersion' # NoVersion /\ wake' = TRUE
    BY <1>1, ValuesAssumption DEF UpdateSpec, AdoptSpec
  <2> QED BY <2>1 DEF WakeInv, Configured, Attended
<1>2. CASE Close
  <2>1. closed' /\ UNCHANGED <<specVersion, phase, loop>>
    BY <1>2 DEF Close
  <2> QED BY <2>1 DEF WakeInv, Configured, Wakeable
<1>3. CASE RetryElapses \/ CloseReturns \/ UNCHANGED vars
  <2>1. UNCHANGED <<specVersion, closed, queue, slotVars, at, wake, loop, scan>>
    BY <1>3 DEF RetryElapses, CloseReturns, vars
  <2>2. \A f \in Entries : Wakeable(f)' => Wakeable(f)
    BY <2>1 DEF Wakeable, Idle, HasClient
  <2>3. \A f \in Entries : Attended(f) => Attended(f)'
    BY <2>1 DEF Attended, SignalOwed
  <2>4. Configured'
    BY <2>1 DEF WakeInv, Configured
  <2> QED BY <2>2, <2>3, <2>4, NoReason
<1> QED BY <1>1, <1>2, <1>3

(***************************************************************************)
(* No wake-up is lost: whoever gives an idle slot something to do has set  *)
(* the token, is about to, or is seen by the pass of reconcile under way,  *)
(* wherever the unlocking and the signal of another goroutine fall.        *)
(***************************************************************************)
THEOREM WakeupsAreKept == Spec => []NoLostWakeup
<1>1. Init => WakeInv
  BY DEF Init, WakeInv, Configured, Wakeable, Idle, HasClient
<1>2. IInv /\ WakeInv /\ [Next]_vars => WakeInv'
  <2> SUFFICES ASSUME IInv, WakeInv, [Next]_vars PROVE WakeInv'
    OBVIOUS
  <2> QED BY CallerWakes, LoopWakesUp, SlotWakes, OthersWake DEF Next, Terminated
<1>3. WakeInv => NoLostWakeup
  BY DEF WakeInv, Wakeable, Attended, NoLostWakeup
<1> QED BY <1>1, <1>2, <1>3, SpecIInv, PTL DEF Spec

-----------------------------------------------------------------------------
(***************************************************************************)
(* The pool implements the dispenser of exclusive leases: every step of    *)
(* Pool is a step of ProcessLease or leaves its three variables alone.     *)
(***************************************************************************)

LEMMA InitRefines == Init => Lease!Init
<1> SUFFICES ASSUME Init PROVE Lease!Init
  OBVIOUS
<1>1. Pool = {} /\ LeaseOf = [c \in Callers |-> None]
  BY ValuesAssumption DEF Init, Pool, InPool, LeaseOf
<1> QED BY <1>1 DEF Init, Lease!Init

LEMMA SamePool == ASSUME phase' = phase PROVE Pool' = Pool
BY DEF Pool, InPool

LEMMA SameLeases ==
  ASSUME IInv,
         \A c \in Callers : \/ answer'[c] = answer[c]
                            \/ /\ answer[c] \notin Entries
                               /\ answer'[c] \notin Entries
  PROVE  LeaseOf' = LeaseOf
BY DEF LeaseOf

LEMMA Stutters ==
  ASSUME IInv, queue' = queue, phase' = phase, answer' = answer
  PROVE  UNCHANGED Lease!vars
BY SamePool, SameLeases DEF Lease!vars

-----------------------------------------------------------------------------
(* Callers *)

LEMMA EnqueueRefines ==
  ASSUME IInv, NEW c \in Callers, Enqueue(c) PROVE Lease!Request(c)
<1> USE DEF slotVars
<1>1. ~Lease!Waiting(c)
  BY DEF IInv, QueueConsistent, Member, Lease!Waiting, Enqueue
<1>2. LeaseOf[c] = None
  BY ValuesAssumption DEF IInv, CallersConsistent, LeaseOf, Enqueue
<1>3. queue' = Append(queue, c)
  BY DEF Enqueue, Joined
<1>4. LeaseOf' = LeaseOf /\ Pool' = Pool
  BY SamePool, SameLeases DEF Enqueue
<1> QED BY <1>1, <1>2, <1>3, <1>4 DEF Lease!Request

LEMMA CallerRefines ==
  ASSUME IInv, NEW c \in Callers, CallerStep(c)
  PROVE  \/ Lease!Request(c) \/ Lease!GiveBack(c)
         \/ \E i \in DOMAIN queue : Lease!Leave(i)
         \/ UNCHANGED Lease!vars
<1> USE DEF specVars, slotVars, callerVars, loopVars
<1>1. ASSUME NEW v \in Versions, Acquire(c, v) PROVE Lease!Request(c)
  BY <1>1, EnqueueRefines DEF Acquire
<1>2. CASE AcquireLatest(c)
  BY <1>2, EnqueueRefines DEF AcquireLatest
<1>3. CASE CancelContext(c) \/ SignalCancelled(c)
  BY <1>3, Stutters DEF CancelContext, SignalCancelled
<1>4. CASE Receive(c) \/ GiveUpAnswered(c)
  <2>1. queue' = queue /\ phase' = phase
    BY <1>4 DEF Receive, GiveUpAnswered
  <2>2. LeaseOf' = LeaseOf
    BY <1>4, ValuesAssumption, SameLeases
       DEF Receive, GiveUpAnswered, TakeAnswer, IInv, TypeOK
  <2> QED BY <2>1, <2>2, SamePool DEF Lease!vars
<1>5. CASE GiveUpQueued(c)
  <2>1. PICK i \in DOMAIN queue : queue' = RemoveAt(queue, i)
    BY <1>5 DEF GiveUpQueued
  <2>2. LeaseOf' = LeaseOf /\ Pool' = Pool
    BY <1>5, SamePool, SameLeases DEF GiveUpQueued
  <2> QED BY <2>1, <2>2 DEF Lease!Leave, Lease!RemoveAt, RemoveAt
<1>6. CASE Release(c)
  <2>1. answer[c] \in Entries
    BY <1>6 DEF Release, IInv, CallersConsistent
  <2>2. LeaseOf[c] # None
    BY <2>1, ValuesAssumption DEF LeaseOf
  <2>3. LeaseOf' = [LeaseOf EXCEPT ![c] = None]
    BY <1>6, ValuesAssumption DEF LeaseOf, Release, IInv, TypeOK
  <2>4. queue' = queue /\ Pool' = Pool
    BY <1>6, SamePool DEF Release
  <2> QED BY <2>2, <2>3, <2>4 DEF Lease!GiveBack
<1> QED BY <1>1, <1>2, <1>3, <1>4, <1>5, <1>6 DEF CallerStep

-----------------------------------------------------------------------------
(* The scheduling loop *)

LEMMA LoopRefines ==
  ASSUME IInv, LoopStep
  PROVE  \/ \E i \in DOMAIN queue : Lease!Leave(i)
         \/ \E e \in Entries : Lease!Grant(e) \/ Lease!Spawn(e)
         \/ UNCHANGED Lease!vars
<1> USE DEF specVars, slotVars, callerVars, loopVars
<1>1. CASE \/ LoopWakes \/ LoopTicks \/ LoopExits \/ ReconcileBegins
           \/ PurgeEnds \/ PlaceEnds \/ GrowEnds
           \/ \E e \in Entries : RetireEntry(e) \/ SpareEntry(e)
  BY <1>1, Stutters
     DEF LoopWakes, LoopTicks, LoopExits, ReconcileBegins, PurgeEnds,
         PlaceEnds, GrowEnds, RetireEntry, SpareEntry
<1>2. CASE PurgeWaiter
  <2>1. CASE cancelled[queue[cursor]]
    <3>0. /\ cursor \in DOMAIN queue /\ queue' = RemoveAt(queue, cursor)
          /\ answer' = [answer EXCEPT ![queue[cursor]] = Failed]
          /\ phase' = phase
      BY <1>2, <2>1 DEF PurgeWaiter
    <3>1. queue[cursor] \in Callers /\ answer[queue[cursor]] = None
      BY <3>0, MiddleRemoved
    <3>2. LeaseOf' = LeaseOf /\ Pool' = Pool
      BY <3>0, <3>1, ValuesAssumption, SamePool, SameLeases DEF IInv, TypeOK
    <3> QED BY <3>0, <3>2 DEF Lease!Leave, Lease!RemoveAt, RemoveAt
  <2>2. CASE ~cancelled[queue[cursor]]
    BY <1>2, <2>2, Stutters DEF PurgeWaiter
  <2> QED BY <2>1, <2>2
<1>3. ASSUME NEW e \in Entries, DispatchEntry(e) PROVE Lease!Grant(e)
  <2>1. /\ queue # <<>> /\ queue' = Tail(queue) /\ phase' = phase
        /\ answer' = [answer EXCEPT ![Head(queue)] = e] /\ at' = at
        /\ Idle(e)
    BY <1>3 DEF DispatchEntry, IInv, ScanConsistent
  <2>2. Head(queue) \in Callers
    BY <2>1, HeadAnswered, ValuesAssumption
  <2>3. e \in Pool
    BY <2>1 DEF Pool, InPool, Idle, HasClient
  <2>4. Lease!Free(e)
    BY <2>1, ValuesAssumption
       DEF Lease!Free, LeaseOf, IInv, LeasesConsistent, Idle, HasClient, InPool
  <2>5. LeaseOf' = [LeaseOf EXCEPT ![Head(queue)] = e] /\ Pool' = Pool
    BY <2>1, <2>2, SamePool DEF LeaseOf, IInv, TypeOK
  <2> QED BY <2>1, <2>3, <2>4, <2>5 DEF Lease!Grant
<1>4. ASSUME NEW e \in Entries, AddEntry(e) PROVE Lease!Spawn(e)
  <2>1. Fresh(e) /\ Cardinality(Pool) < Target
    BY <1>4 DEF AddEntry, SlotsUsed
  <2>2. Cardinality(Pool) \in Nat
    <3>1. Pool \in SUBSET Entries
      BY DEF Pool
    <3> QED BY <3>1, EntriesAssumption, FS_Subset, FS_CardinalityType
  <2>3. Cardinality(Pool) < Size
    BY <2>1, <2>2, TargetBound, SizeAssumption
  <2>4. e \notin Pool /\ Lease!Free(e)
    BY <2>1, ValuesAssumption DEF Fresh, Pool, InPool, Lease!Free, LeaseOf
  <2>5. Pool' = Pool \cup {e}
    BY <1>4 DEF AddEntry, Pool, InPool, IInv, TypeOK
  <2>6. queue' = queue /\ LeaseOf' = LeaseOf
    BY <1>4, SameLeases DEF AddEntry
  <2>7. Lease!Cardinality(Pool) = Cardinality(Pool)
    BY DEF Lease!Cardinality, Cardinality
  <2> QED BY <2>3, <2>4, <2>5, <2>6, <2>7 DEF Lease!Spawn
<1> QED BY <1>1, <1>2, <1>3, <1>4 DEF LoopStep

-----------------------------------------------------------------------------
(* Slots *)

\* A slot leaves the pool, and the head of the queue may hear of it.
LEMMA DropRefines ==
  ASSUME IInv, NEW e \in Entries, InPool(e), at' = at,
         FailHead \/ UNCHANGED <<queue, answer>>,
         \E p \in {"failed", "exited"} : phase' = [phase EXCEPT ![e] = p]
  PROVE  Lease!Exit(e)
<1>1. e \in Pool /\ Pool' = Pool \ {e}
  BY DEF Pool, InPool, IInv, TypeOK
<1>2. LeaseOf' = LeaseOf
  BY FailHeadEffect, SameLeases, ValuesAssumption
<1>3. queue' \in {queue} \cup (IF queue = <<>> THEN {} ELSE {Tail(queue)})
  BY DEF FailHead
<1> QED BY <1>1, <1>2, <1>3 DEF Lease!Exit

LEMMA SlotRefines ==
  ASSUME IInv, NEW e \in Entries, SlotStep(e)
  PROVE  Lease!Exit(e) \/ UNCHANGED Lease!vars
<1> USE DEF specVars, slotVars, callerVars, loopVars
<1>1. CASE StartFails(e)
  BY <1>1, DropRefines DEF StartFails, DropEntry, InPool
<1>2. CASE EntryExits(e)
  BY <1>2, DropRefines DEF EntryExits, DropEntry, InPool
<1>3. CASE StartSucceeds(e) \/ SignalEntry(e)
  <2>1. Pool' = Pool
    BY <1>3 DEF StartSucceeds, SignalEntry, Pool, InPool, IInv, TypeOK
  <2>2. queue' = queue /\ answer' = answer
    BY <1>3 DEF StartSucceeds, SignalEntry
  <2> QED BY <2>1, <2>2, SameLeases DEF Lease!vars
<1>4. CASE Crash(e) \/ Reap(e)
  BY <1>4, Stutters DEF Crash, Reap
<1> QED BY <1>1, <1>2, <1>3, <1>4 DEF SlotStep

LEMMA CloseRefines ==
  ASSUME IInv, Close PROVE Lease!Disband \/ UNCHANGED Lease!vars
<1> USE DEF specVars, slotVars, callerVars, loopVars
<1>1. \A c \in Callers : \/ answer'[c] = answer[c]
                         \/ /\ answer[c] \notin Entries
                            /\ answer'[c] \notin Entries
  BY ValuesAssumption DEF Close, Queued, IInv, QueueConsistent, Member
<1>2. LeaseOf' = LeaseOf /\ Pool' = Pool /\ queue' = <<>>
  BY <1>1, SameLeases, SamePool DEF Close
<1> QED BY <1>2 DEF Lease!Disband, Lease!vars

LEMMA NextRefines == IInv /\ [Next]_vars => [Lease!Next]_(Lease!vars)
<1> SUFFICES ASSUME IInv, [Next]_vars PROVE [Lease!Next]_(Lease!vars)
  OBVIOUS
<1> USE DEF specVars, slotVars, callerVars, loopVars
<1>1. ASSUME NEW c \in Callers, CallerStep(c) PROVE [Lease!Next]_(Lease!vars)
  BY <1>1, CallerRefines DEF Lease!Next
<1>2. CASE LoopStep
  BY <1>2, LoopRefines DEF Lease!Next
<1>3. ASSUME NEW e \in Entries, SlotStep(e) PROVE [Lease!Next]_(Lease!vars)
  BY <1>3, SlotRefines DEF Lease!Next
<1>4. CASE Close
  BY <1>4, CloseRefines DEF Lease!Next
<1>5. CASE \/ \E v \in Versions : UpdateSpec(v)
           \/ RetryElapses \/ CloseReturns \/ Terminated \/ UNCHANGED vars
  BY <1>5, Stutters DEF UpdateSpec, RetryElapses, CloseReturns, Terminated, vars
<1> QED BY <1>1, <1>2, <1>3, <1>4, <1>5 DEF Next

(***************************************************************************)
(* FIFO dispatch, exclusive leases and capacity at once: the pool's        *)
(* behaviours are behaviours of the abstract dispenser.                    *)
(***************************************************************************)
THEOREM PoolImplementsLease == Spec => LeaseSpec
<1> QED BY InitRefines, NextRefines, SpecIInv, PTL DEF Spec, LeaseSpec, Lease!Spec
=============================================================================
