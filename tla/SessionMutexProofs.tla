-------------------------- MODULE SessionMutexProofs --------------------------
(***************************************************************************)
(* Safety of SessionMutex for any set of invocations: its inductive        *)
(* invariant, mutual exclusion, the account of its waiters, and that it    *)
(* implements the promise of KeyedLock.                                    *)
(***************************************************************************)
EXTENDS SessionMutex, TLAPS, SequenceTheorems

(* The strengthening.  held names the invocation that owns the lock from   *)
(* the hand-over on, and not only once it has woken up.                    *)
OwnerIsHeld == \A c \in Callers : pc[c] = "holding" \/ c \in resolved => held = c

(* Only an invocation that got as far as the select is promised the lock.  *)
PromisedInside ==
  \A c \in resolved : pc[c] \in {"waiting", "leaving", "refused"}

(* A lock object's releaseOnce is set exactly when its owner is done.      *)
ReleasedIsDone == \A c \in Callers : c \in released <=> pc[c] = "done"

(* The queue never names an invocation already promised the lock.          *)
QueueUnpromised == \A i \in DOMAIN waiters : waiters[i] \notin resolved

(* Only a done context makes a waiter leave; it stays done.                *)
LeavingIsCancelled == \A c \in Callers : pc[c] = "leaving" => c \in cancelled

Inv == /\ TypeOK
       /\ OwnerIsHeld
       /\ PromisedInside
       /\ ReleasedIsDone
       /\ QueueUnpromised
       /\ WaiterAccounted
       /\ LeavingIsCancelled

-------------------------------------------------------------------------------
(* Taking one element out of a queue without repetitions leaves the others *)
(* in it, once each.                                                       *)
LEMMA RemoveAtProperties ==
  ASSUME NEW S, NEW s \in Seq(S), NEW k \in DOMAIN s,
         \A i, j \in DOMAIN s : s[i] = s[j] => i = j
  PROVE  /\ RemoveAt(s, k) \in Seq(S)
         /\ Len(RemoveAt(s, k)) = Len(s) - 1
         /\ \A i \in DOMAIN RemoveAt(s, k) :
              RemoveAt(s, k)[i] = s[IF i < k THEN i ELSE i + 1]
<1>1. /\ k \in Int /\ 1 <= k /\ k <= Len(s) /\ Len(s) \in Nat
      /\ DOMAIN s = 1..Len(s)
      /\ \A i \in 1..Len(s) : s[i] \in S
  BY LenProperties, ElementOfSeq
<1> DEFINE a == SubSeq(s, 1, k - 1)
           b == SubSeq(s, k + 1, Len(s))
<1>2. /\ a \in Seq(S) /\ Len(a) = k - 1
      /\ \A i \in 1..(k - 1) : a[i] = s[i]
  <2>1. \A i \in 1..(k - 1) : s[i] \in S
    BY <1>1
  <2> QED BY <1>1, <2>1, SubSeqProperties
<1>3. /\ b \in Seq(S) /\ Len(b) = Len(s) - k
      /\ \A i \in 1..(Len(s) - k) : b[i] = s[k + i]
  <2>1. \A i \in (k + 1)..Len(s) : s[i] \in S
    BY <1>1
  <2> QED BY <1>1, <2>1, SubSeqProperties
<1> HIDE DEF a, b
<1>4. RemoveAt(s, k) = a \o b
  BY DEF RemoveAt, a, b
<1>5. /\ a \o b \in Seq(S) /\ Len(a \o b) = Len(s) - 1
      /\ DOMAIN (a \o b) = 1..(Len(s) - 1)
      /\ \A i \in 1..(Len(s) - 1) :
            (a \o b)[i] = IF i <= k - 1 THEN a[i] ELSE b[i - (k - 1)]
  <2>1. /\ a \o b \in Seq(S) /\ Len(a \o b) = Len(a) + Len(b)
        /\ \A i \in 1..(Len(a) + Len(b)) :
             (a \o b)[i] = IF i <= Len(a) THEN a[i] ELSE b[i - Len(a)]
    BY <1>2, <1>3, ConcatProperties
  <2>2. Len(a) + Len(b) = Len(s) - 1
    BY <1>1, <1>2, <1>3
  <2>3. DOMAIN (a \o b) = 1..Len(a \o b)
    BY <2>1, LenProperties
  <2> QED BY <1>2, <2>1, <2>2, <2>3
<1>6. ASSUME NEW i \in 1..(Len(s) - 1)
      PROVE  (a \o b)[i] = s[IF i < k THEN i ELSE i + 1]
  <2>1. CASE i < k
    <3>1. i \in 1..(k - 1) /\ i <= k - 1
      BY <1>1, <2>1
    <3> QED BY <1>2, <1>5, <2>1, <3>1
  <2>2. CASE ~(i < k)
    <3>1. /\ i - (k - 1) \in 1..(Len(s) - k)
          /\ k + (i - (k - 1)) = i + 1
          /\ ~(i <= k - 1)
      BY <1>1, <2>2
    <3>2. (a \o b)[i] = b[i - (k - 1)]
      BY <1>5, <3>1
    <3>3. b[i - (k - 1)] = s[k + (i - (k - 1))]
      BY <1>3, <3>1
    <3> QED BY <2>2, <3>1, <3>2, <3>3
  <2> QED BY <2>1, <2>2
<1> QED BY <1>4, <1>5, <1>6

-------------------------------------------------------------------------------
LEMMA InitInv == Init => Inv
BY NoneAssumption DEF Init, Inv, TypeOK, PC, OwnerIsHeld, PromisedInside,
   ReleasedIsDone, QueueUnpromised, WaiterAccounted, LeavingIsCancelled, Range


(* Steps that leave the queue, the hand-over and the lock objects alone    *)
(* only move one invocation, and the parts of Inv follow from where to.    *)
LEMMA MoveInv ==
  ASSUME Inv, NEW c \in Callers, NEW to \in PC,
         pc' = [pc EXCEPT ![c] = to],
         pc[c] # "done", to \notin {"done", "waiting"},
         pc[c] = "waiting" => to = "leaving",
         to # "holding",
         c \in resolved => to \in {"leaving", "refused"},
         \A i \in DOMAIN waiters : waiters[i] = c => to = "leaving",
         UNCHANGED <<held, waiters, resolved, released>>,
         cancelled' = cancelled,
         to = "leaving" => c \in cancelled
  PROVE  Inv'
<1> USE DEF Inv, TypeOK, PC
<1>1. TypeOK'
  OBVIOUS
<1>2. OwnerIsHeld'
  BY DEF OwnerIsHeld
<1>3. PromisedInside'
  BY DEF PromisedInside
<1>4. ReleasedIsDone'
  BY DEF ReleasedIsDone
<1>5. QueueUnpromised'
  BY DEF QueueUnpromised
<1>6. WaiterAccounted'
  BY DEF WaiterAccounted, Range
<1>7. LeavingIsCancelled'
  BY DEF LeavingIsCancelled
<1> QED BY <1>1, <1>2, <1>3, <1>4, <1>5, <1>6, <1>7

LEMMA NextInv == Inv /\ [Next]_vars => Inv'
<1> SUFFICES ASSUME Inv, [Next]_vars PROVE Inv'
  OBVIOUS
<1> USE DEF Inv, TypeOK, PC, Goto
<1>1. ASSUME NEW c \in Callers, Cancel(c) PROVE Inv'
  BY <1>1 DEF Cancel, OwnerIsHeld, PromisedInside, ReleasedIsDone,
     QueueUnpromised, WaiterAccounted, LeavingIsCancelled, Range
<1>2. ASSUME NEW c \in Callers, AcquireRefused(c) PROVE Inv'
  <2>1. c \notin resolved /\ \A i \in DOMAIN waiters : waiters[i] # c
    BY <1>2 DEF AcquireRefused, PromisedInside, WaiterAccounted
  <2>2. /\ pc' = [pc EXCEPT ![c] = "refused"] /\ pc[c] = "idle"
        /\ UNCHANGED <<held, waiters, resolved, released, cancelled>>
    BY <1>2 DEF AcquireRefused
  <2> QED BY <2>1, <2>2, MoveInv
<1>3. ASSUME NEW c \in Callers, AcquireFree(c) PROVE Inv'
  <2>1. c \notin resolved /\ resolved = {}
    BY <1>3, NoneAssumption DEF AcquireFree, OwnerIsHeld
  <2>2. \A d \in Callers : pc[d] # "holding"
    BY <1>3, NoneAssumption DEF AcquireFree, OwnerIsHeld
  <2> QED
    BY <1>3, <2>1, <2>2 DEF AcquireFree, OwnerIsHeld, PromisedInside,
       ReleasedIsDone, QueueUnpromised, WaiterAccounted, LeavingIsCancelled, Range
<1>4. ASSUME NEW c \in Callers, AcquireContended(c) PROVE Inv'
  <2>1. c \notin resolved /\ \A i \in DOMAIN waiters : waiters[i] # c
    BY <1>4 DEF AcquireContended, PromisedInside, WaiterAccounted
  <2>2. /\ pc' = [pc EXCEPT ![c] = "contended"] /\ pc[c] = "idle"
        /\ UNCHANGED <<held, waiters, resolved, released, cancelled>>
    BY <1>4 DEF AcquireContended
  <2> QED BY <2>1, <2>2, MoveInv
<1>5. ASSUME NEW c \in Callers, Enqueue(c) PROVE Inv'
  <2>1. /\ waiters' \in Seq(Callers)
        /\ DOMAIN waiters = 1..Len(waiters) /\ Len(waiters) \in Nat
        /\ DOMAIN waiters' = 1..(Len(waiters) + 1)
        /\ \A i \in 1..Len(waiters) : waiters'[i] = waiters[i]
        /\ waiters'[Len(waiters) + 1] = c
    BY <1>5, AppendProperties, LenProperties DEF Enqueue
  <2>2. c \notin resolved /\ \A i \in DOMAIN waiters : waiters[i] # c
    BY <1>5 DEF Enqueue, PromisedInside, WaiterAccounted
  <2>3. TypeOK' /\ OwnerIsHeld' /\ PromisedInside' /\ ReleasedIsDone' /\ LeavingIsCancelled'
    BY <1>5, <2>1, <2>2 DEF Enqueue, OwnerIsHeld, PromisedInside, ReleasedIsDone,
         LeavingIsCancelled
  <2>4. QueueUnpromised'
    BY <1>5, <2>1, <2>2 DEF Enqueue, QueueUnpromised
  <2>5. WaiterAccounted'
    <3>1. \A d \in Callers : d # c => (d \in Range(waiters') <=> d \in Range(waiters))
      BY <2>1 DEF Range
    <3>2. c \in Range(waiters')
      BY <2>1 DEF Range
    <3>3. \A d \in Callers : pc'[d] = "waiting" =>
             (d \in Range(waiters')) # (d \in resolved')
      BY <1>5, <2>2, <3>1, <3>2 DEF Enqueue, WaiterAccounted
    <3>4. \A i, j \in DOMAIN waiters' : waiters'[i] = waiters'[j] => i = j
      BY <2>1, <2>2 DEF WaiterAccounted
    <3>5. \A i \in DOMAIN waiters' : pc'[waiters'[i]] \in {"waiting", "leaving"}
      BY <1>5, <2>1, <2>2 DEF Enqueue, WaiterAccounted
    <3> QED BY <3>3, <3>4, <3>5 DEF WaiterAccounted
  <2> QED BY <2>3, <2>4, <2>5
<1>6. ASSUME NEW c \in Callers, Wake(c) PROVE Inv'
  <2>1. held = c /\ c \in resolved /\ \A i \in DOMAIN waiters : waiters[i] # c
    BY <1>6 DEF Wake, OwnerIsHeld, QueueUnpromised
  <2>2. c \notin released
    BY <1>6 DEF Wake, ReleasedIsDone
  <2> QED
    BY <1>6, <2>1, <2>2 DEF Wake, OwnerIsHeld, PromisedInside,
       ReleasedIsDone, QueueUnpromised, WaiterAccounted, LeavingIsCancelled, Range
<1>7. ASSUME NEW c \in Callers, GiveUp(c) PROVE Inv'
  BY <1>7, MoveInv DEF GiveUp
<1>8. ASSUME NEW c \in Callers, Leave(c) PROVE Inv'
  <2>1. CASE c \notin Range(waiters) /\ UNCHANGED waiters
    <3>1. \A i \in DOMAIN waiters : waiters[i] # c
      BY <2>1 DEF Range
    <3>2. /\ pc' = [pc EXCEPT ![c] = "refused"] /\ pc[c] = "leaving"
          /\ UNCHANGED <<held, waiters, resolved, released, cancelled>>
      BY <1>8, <2>1 DEF Leave
    <3> QED BY <3>1, <3>2, MoveInv
  <2>2. ASSUME NEW k \in DOMAIN waiters, waiters[k] = c,
               waiters' = RemoveAt(waiters, k)
        PROVE  Inv'
    <3>1. /\ DOMAIN waiters = 1..Len(waiters) /\ Len(waiters) \in Nat
          /\ k \in 1..Len(waiters)
          /\ waiters' \in Seq(Callers)
          /\ DOMAIN waiters' = 1..(Len(waiters) - 1)
          /\ \A i \in DOMAIN waiters' :
               waiters'[i] = waiters[IF i < k THEN i ELSE i + 1]
      BY <2>2, RemoveAtProperties, LenProperties DEF WaiterAccounted
    <3>2. /\ pc[c] = "leaving" /\ pc' = [pc EXCEPT ![c] = "refused"]
          /\ UNCHANGED <<held, resolved, released, cancelled>>
      BY <1>8 DEF Leave
    <3>3. \A i \in DOMAIN waiters' : \E j \in DOMAIN waiters :
            j # k /\ j = (IF i < k THEN i ELSE i + 1) /\ waiters'[i] = waiters[j]
      BY <3>1
    <3>4. \A j \in DOMAIN waiters \ {k} : \E i \in DOMAIN waiters' :
            waiters'[i] = waiters[j]
      <4> SUFFICES ASSUME NEW j \in DOMAIN waiters \ {k}
                   PROVE  \E i \in DOMAIN waiters' : waiters'[i] = waiters[j]
        OBVIOUS
      <4>1. CASE j < k
        BY <3>1, <4>1
      <4>2. CASE j > k
        <5>1. /\ j - 1 \in DOMAIN waiters' /\ ~(j - 1 < k)
              /\ (j - 1) + 1 = j
          BY <3>1, <4>2
        <5>2. waiters'[j - 1] = waiters[(j - 1) + 1]
          BY <3>1, <5>1
        <5> QED BY <5>1, <5>2
      <4> QED BY <3>1, <4>1, <4>2
    <3>5. \A i \in DOMAIN waiters' : waiters'[i] # c
      BY <2>2, <3>3 DEF WaiterAccounted
    <3>6. TypeOK' /\ OwnerIsHeld' /\ PromisedInside' /\ ReleasedIsDone' /\ LeavingIsCancelled'
      BY <3>1, <3>2 DEF OwnerIsHeld, PromisedInside, ReleasedIsDone,
         LeavingIsCancelled
    <3>7. QueueUnpromised'
      BY <3>2, <3>3 DEF QueueUnpromised
    <3>8. WaiterAccounted'
      <4>1. \A d \in Callers \ {c} : d \in Range(waiters') <=> d \in Range(waiters)
        BY <2>2, <3>3, <3>4 DEF Range
      <4>2. \A d \in Callers : pc'[d] = "waiting" =>
               (d \in Range(waiters')) # (d \in resolved')
        BY <3>2, <4>1 DEF WaiterAccounted
      <4>3. ASSUME NEW i \in DOMAIN waiters', NEW j \in DOMAIN waiters',
                   waiters'[i] = waiters'[j]
            PROVE  i = j
        <5> DEFINE up(n) == IF n < k THEN n ELSE n + 1
        <5>1. /\ up(i) \in DOMAIN waiters /\ up(j) \in DOMAIN waiters
              /\ waiters[up(i)] = waiters[up(j)]
          BY <3>1, <4>3
        <5>2. up(i) = up(j)
          BY <5>1 DEF WaiterAccounted
        <5> QED BY <3>1, <5>2
      <4>4. \A i \in DOMAIN waiters' : pc'[waiters'[i]] \in {"waiting", "leaving"}
        BY <3>2, <3>3, <3>5 DEF WaiterAccounted
      <4> QED BY <4>2, <4>3, <4>4 DEF WaiterAccounted
    <3> QED BY <3>6, <3>7, <3>8
  <2> QED BY <1>8, <2>1, <2>2 DEF Leave
<1>9. ASSUME NEW c \in Callers, Release(c) PROVE Inv'
  <2>1. /\ pc[c] = "holding" /\ c \notin released /\ held = c
        /\ resolved = {} /\ \A d \in Callers : pc[d] = "holding" => d = c
    BY <1>9 DEF Release, OwnerIsHeld, PromisedInside, ReleasedIsDone
  <2>2. /\ pc' = [pc EXCEPT ![c] = "done"] /\ released' = released \cup {c}
        /\ cancelled' = cancelled
    BY <1>9 DEF Release
  <2>3. CASE waiters = <<>>
    <3>1. held' = None /\ waiters' = waiters /\ resolved' = {} /\ DOMAIN waiters = {}
      BY <1>9, <2>1, <2>3 DEF Release, HandOver
    <3> QED BY <2>1, <2>2, <3>1 DEF OwnerIsHeld, PromisedInside, ReleasedIsDone,
               QueueUnpromised, WaiterAccounted, LeavingIsCancelled, Range
  <2>4. CASE waiters # <<>>
    <3> DEFINE w == Head(waiters)
    <3>1. /\ held' = w /\ waiters' = Tail(waiters) /\ resolved' = {w}
      BY <1>9, <2>1, <2>4 DEF Release, HandOver
    <3>2. /\ DOMAIN waiters = 1..Len(waiters) /\ Len(waiters) \in Nat \ {0}
          /\ w = waiters[1] /\ w \in Callers
          /\ waiters' \in Seq(Callers) /\ DOMAIN waiters' = 1..(Len(waiters) - 1)
          /\ \A i \in DOMAIN waiters' : waiters'[i] = waiters[i + 1]
      BY <2>4, <3>1, HeadTailProperties, LenProperties, EmptySeq
    <3> HIDE DEF w
    <3>3. pc[w] \in {"waiting", "leaving"} /\ w # c
      BY <2>1, <3>2 DEF WaiterAccounted
    <3>4. \A i \in DOMAIN waiters' :
             /\ i + 1 \in DOMAIN waiters /\ waiters'[i] = waiters[i + 1]
             /\ waiters'[i] # w /\ waiters'[i] # c
      BY <2>1, <3>2 DEF WaiterAccounted
    <3>5. TypeOK' /\ OwnerIsHeld' /\ PromisedInside' /\ ReleasedIsDone' /\ LeavingIsCancelled'
      BY <2>1, <2>2, <3>1, <3>2, <3>3 DEF OwnerIsHeld, PromisedInside, ReleasedIsDone,
         LeavingIsCancelled
    <3>6. QueueUnpromised'
      BY <3>1, <3>4 DEF QueueUnpromised
    <3>7. WaiterAccounted'
      <4>1. \A d \in Callers \ {w} : d \in Range(waiters) => d \in Range(waiters')
        <5> SUFFICES ASSUME NEW d \in Callers \ {w}, NEW j \in DOMAIN waiters,
                            waiters[j] = d
                     PROVE  \E i \in DOMAIN waiters' : waiters'[i] = d
          BY DEF Range
        <5>1. j - 1 \in DOMAIN waiters' /\ (j - 1) + 1 = j
          BY <3>2
        <5> QED BY <3>2, <5>1
      <4>2. \A d \in Range(waiters') : d \in Range(waiters) /\ d # w
        BY <3>4 DEF Range
      <4>3. \A d \in Callers : pc'[d] = "waiting" =>
               (d \in Range(waiters')) # (d \in resolved')
        BY <2>1, <2>2, <3>1, <4>1, <4>2 DEF WaiterAccounted
      <4>4. \A i, j \in DOMAIN waiters' : waiters'[i] = waiters'[j] => i = j
        BY <3>2, <3>4 DEF WaiterAccounted
      <4>5. \A i \in DOMAIN waiters' : pc'[waiters'[i]] \in {"waiting", "leaving"}
        BY <2>2, <3>4 DEF WaiterAccounted
      <4> QED BY <4>3, <4>4, <4>5 DEF WaiterAccounted
    <3> QED BY <3>5, <3>6, <3>7
  <2> QED BY <2>3, <2>4
<1>10. CASE UNCHANGED vars
  BY <1>10 DEF vars, OwnerIsHeld, PromisedInside, ReleasedIsDone,
     QueueUnpromised, WaiterAccounted, LeavingIsCancelled, Range
<1> QED
  BY <1>1, <1>2, <1>3, <1>4, <1>5, <1>6, <1>7, <1>8, <1>9, <1>10 DEF Next, Step

LEMMA InvInvariant == Spec => []Inv
<1> QED BY InitInv, NextInv, PTL DEF Spec

-------------------------------------------------------------------------------
(* The variables of the mutex keep their shape in every reachable state.   *)
THEOREM TypeCorrect == Spec => []TypeOK
<1>1. Inv => TypeOK
  BY DEF Inv
<1> QED BY <1>1, InvInvariant, PTL

(* No two invocations of one (thread, agent) pair are ever past Acquire    *)
(* and before their release: the owner is the one held names.              *)
THEOREM MutexExcludes == Spec => []MutualExclusion
<1>1. Inv => MutualExclusion
  BY DEF Inv, OwnerIsHeld, MutualExclusion, Holders
<1> QED BY <1>1, InvInvariant, PTL

(* A waiter blocked in Acquire is never lost by the queue and never served *)
(* twice, however hand-over and cancellation interleave.                   *)
THEOREM WaitersAccountedFor == Spec => []WaiterAccounted
<1>1. Inv => WaiterAccounted
  BY DEF Inv
<1> QED BY <1>1, InvInvariant, PTL

(* The mutex implements what KeyedLock promises, step by step.             *)
THEOREM MutexImplementsKeyedLock == Spec => ImplementsKeyedLock
<1> DEFINE st == [c \in Callers |->
               CASE pc[c] \in {"contended", "waiting", "leaving"} -> "waiting"
                 [] OTHER -> pc[c]]
<1>1. Init => Promise!Init
  BY DEF Init, Promise!Init
<1>2. Inv /\ [Next]_vars => [Promise!Next]_(Promise!vars)
  <2> SUFFICES ASSUME Inv, [Next]_vars PROVE [Promise!Next]_(Promise!vars)
    OBVIOUS
  <2> USE DEF Inv, TypeOK, PC, Goto, Promise!Next, Promise!vars, Promise!Move
  <2>1. ASSUME NEW c \in Callers, Cancel(c) PROVE Promise!Cancel(c)
    BY <2>1 DEF Cancel, Promise!Cancel
  <2>2. ASSUME NEW c \in Callers, AcquireRefused(c) PROVE Promise!Refuse(c)
    BY <2>2 DEF AcquireRefused, Promise!Refuse
  <2>3. ASSUME NEW c \in Callers, AcquireFree(c) PROVE Promise!Grant(c)
    <3>1. \A d \in Callers : pc[d] # "holding"
      BY <2>3, NoneAssumption DEF AcquireFree, OwnerIsHeld
    <3> QED BY <2>3, <3>1 DEF AcquireFree, Promise!Grant, Promise!Holders
  <2>4. ASSUME NEW c \in Callers, AcquireContended(c) PROVE Promise!Ask(c)
    BY <2>4 DEF AcquireContended, Promise!Ask
  <2>5. ASSUME NEW c \in Callers, Enqueue(c) \/ GiveUp(c)
        PROVE  UNCHANGED Promise!vars
    BY <2>5 DEF Enqueue, GiveUp
  <2>6. ASSUME NEW c \in Callers, Wake(c) PROVE Promise!Grant(c)
    <3>1. \A d \in Callers : pc[d] # "holding"
      BY <2>6 DEF Wake, OwnerIsHeld
    <3> QED BY <2>6, <3>1 DEF Wake, Promise!Grant, Promise!Holders
  <2>7. ASSUME NEW c \in Callers, Leave(c) PROVE Promise!Refuse(c)
    BY <2>7 DEF Leave, LeavingIsCancelled, Promise!Refuse
  <2>8. ASSUME NEW c \in Callers, Release(c) PROVE Promise!Return(c)
    BY <2>8 DEF Release, ReleasedIsDone, Promise!Return
  <2>9. CASE UNCHANGED vars
    BY <2>9 DEF vars
  <2> QED
    BY <2>1, <2>2, <2>3, <2>4, <2>5, <2>6, <2>7, <2>8, <2>9 DEF Next, Step
<1> QED BY <1>1, <1>2, InvInvariant, PTL DEF Spec, Promise!Spec, ImplementsKeyedLock
===============================================================================
