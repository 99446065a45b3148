-------------------------- MODULE ExecutionProofs --------------------------
(***************************************************************************)
(* What is proved about the two parts an execution runs on: the pool of    *)
(* warm processes (ProcessPool), and one turn over the Agent Client        *)
(* Protocol (AcpExecution).  They share no state.                          *)
(***************************************************************************)
EXTENDS ProcessPool, AcpExecution, FiniteSetTheorems, SequenceTheorems, TLAPS

-----------------------------------------------------------------------------
(* The pool.                                                               *)

(* Where a call of Acquire and its lease can be; in all but the first      *)
(* three there is an entry in hand.                                        *)
InHand == {"found", "writeoff", "count", "create", "evict", "leased", "remembered"}
CallPoints == InHand \cup {"idle", "slow", "lookup"}

Entries == [key : Keys, client : BOOLEAN, count : Nat, generation : Nat,
            state : {"initializing", "ready", "closing"}, timer : BOOLEAN]
ExecCalls == [pc : CallPoints, key : Keys \cup {NoCall.key}, session : Sessions \cup {None},
              entry : Nat, generation : Nat, client : BOOLEAN]

PoolTypeOK ==
  /\ entry \in Seq(Entries)
  /\ listed \subseteq DOMAIN entry /\ IsFiniteSet(listed)
  /\ warming \subseteq DOMAIN entry
  /\ owners \in [Keys -> [Sessions -> Nat]]
  /\ live \in Int
  /\ exec \in [Executions -> ExecCalls]

CallsKnow ==
  \A p \in Executions :
    /\ exec[p].pc # "idle" => exec[p].key \in Keys
    /\ exec[p].pc = "lookup" => exec[p].session # None
    /\ exec[p].pc \in InHand => exec[p].entry \in DOMAIN entry

(* A lease is of the first generation or a later one; what is being warmed *)
(* up has none yet, so that no session is remembered for it.               *)
Generations ==
  /\ \A p \in Executions :
       /\ exec[p].pc \in {"count", "create"} => entry[exec[p].entry].generation > 0
       /\ Holds(p) => exec[p].generation > 0
  /\ \A e \in warming : entry[e].generation = 0 /\ entry[e].state # "ready"

(* Who waits to write a lease off has the entry's mutex, so the lease it   *)
(* has seen is still there.                                                *)
WrittenOffInUse ==
  \A p \in Executions : exec[p].pc = "writeoff" =>
    /\ entry[exec[p].entry].key \notin Multiplexing
    /\ entry[exec[p].entry].count = 1

(* Between choosing a victim and closing it, the pool's mutex is kept; it  *)
(* blocks only on account of somebody who waits to write a lease off.      *)
PoolKept ==
  /\ \A p \in Executions : exec[p].pc = "evict" =>
       pool = p \/ (pool = "blocked" /\ Locked(exec[p].entry))
  /\ pool = "blocked" => \E p \in Executions : exec[p].pc = "writeoff"

PoolInv == PoolTypeOK /\ CallsKnow /\ Generations /\ WrittenOffInUse /\ PoolKept
             /\ PoolAgrees /\ LeasesBacked

LEMMA MinIsMember ==
  ASSUME NEW T \in SUBSET Nat, T # {} PROVE Min(T) \in T
<1> DEFINE Less == {ss \in Nat \X Nat : ss[1] < ss[2]}
<1>1. IsWellFoundedOn(Less, Nat)
  BY NatLessThanWellFounded DEF OpToRel
<1>2. PICK x \in T : \A y \in T : ~(<<y, x>> \in Less)
  BY <1>1, WFMin
<1>3. ASSUME NEW y \in T PROVE x <= y
  <2>1. /\ <<y, x>> \in Nat \X Nat
        /\ <<y, x>>[1] = y /\ <<y, x>>[2] = x
    OBVIOUS
  <2>2. ~(<<y, x>>[1] < <<y, x>>[2])
    BY <1>2, <2>1, Zenon
  <2> QED BY <2>1, <2>2
<1> QED BY <1>3 DEF Min

LEMMA OneMore ==
  ASSUME NEW S, NEW s \in Seq(S), NEW r \in S
  PROVE  /\ Append(s, r) \in Seq(S)
         /\ DOMAIN Append(s, r) = DOMAIN s \cup {Len(s) + 1}
         /\ Len(s) + 1 \notin DOMAIN s /\ Len(s) + 1 \in Nat
         /\ Append(s, r)[Len(s) + 1] = r
         /\ \A i \in DOMAIN s : Append(s, r)[i] = s[i] /\ i \in Nat /\ i # 0
OBVIOUS

LEMMA PoolInitInv == PoolInit => PoolInv
<1> SUFFICES ASSUME PoolInit PROVE PoolInv
  OBVIOUS
<1>0. /\ entry = <<>> /\ listed = {} /\ warming = {} /\ live = 0 /\ pool = "free"
      /\ owners = [k \in Keys |-> [s \in Sessions |-> None]]
      /\ exec = [p \in Executions |-> NoCall]
  BY DEF PoolInit
<1>1. NoCall \in ExecCalls /\ NoCall.pc = "idle"
  BY DEF NoCall, ExecCalls, CallPoints, None
<1>2. PoolTypeOK
  <2>1. entry \in Seq(Entries)
    BY <1>0
  <2> QED BY <1>0, <1>1, <2>1, FS_EmptySet DEF PoolTypeOK, None
<1>3. PoolAgrees
  BY <1>0, FS_EmptySet DEF PoolAgrees, None
<1>4. LeasesBacked
  BY <1>0 DEF LeasesBacked
<1>5. CallsKnow /\ Generations /\ WrittenOffInUse /\ PoolKept
  BY <1>0, <1>1 DEF CallsKnow, Generations, WrittenOffInUse, PoolKept, InHand, Holds
<1> QED BY <1>2, <1>3, <1>4, <1>5 DEF PoolInv

(* A step of one execution that leaves the entries alone.                  *)
LEMMA CallStep ==
  ASSUME PoolInv, NEW p \in Executions, NEW c \in ExecCalls,
         exec' = [exec EXCEPT ![p] = c],
         UNCHANGED <<entry, listed, owners, live, warming>>,
         c.pc # "idle" => c.key \in Keys,
         c.pc = "lookup" => c.session # None,
         c.pc \in InHand => c.entry \in DOMAIN entry,
         c.pc \in {"count", "create"} => entry[c.entry].generation > 0,
         c.pc \in {"leased", "remembered"} => c.generation > 0,
         c.pc = "writeoff" => /\ entry[c.entry].key \notin Multiplexing
                              /\ entry[c.entry].count = 1,
         \A e \in DOMAIN entry : Backs(p, e) => Backs(p, e)',
         PoolKept'
  PROVE  PoolInv'
<1> USE DEF PoolInv, PoolTypeOK
<1>1. exec'[p] = c /\ \A q \in Executions \ {p} : exec'[q] = exec[q]
  OBVIOUS
<1>2. PoolTypeOK'
  OBVIOUS
<1>3. CallsKnow'
  BY <1>1 DEF CallsKnow
<1>4. Generations'
  BY <1>1 DEF Generations, Holds
<1>5. WrittenOffInUse'
  BY <1>1 DEF WrittenOffInUse
<1>6. PoolAgrees'
  BY DEF PoolAgrees, Ids
<1>7. LeasesBacked'
  <2>1. ASSUME NEW e \in DOMAIN entry, entry[e].key \notin Multiplexing PROVE
          entry[e].count <= 1 /\ (entry[e].count = 1 => \E q \in Executions : Backs(q, e)')
    <3>1. entry[e].count <= 1 /\ (entry[e].count = 1 => \E q \in Executions : Backs(q, e))
      BY <2>1 DEF LeasesBacked
    <3>2. \A q \in Executions \ {p} : Backs(q, e) => Backs(q, e)'
      BY <1>1 DEF Backs, Holds
    <3> QED BY <3>1, <3>2
  <2> QED BY <2>1 DEF LeasesBacked
<1> QED BY <1>2, <1>3, <1>4, <1>5, <1>6, <1>7

(* ... and one that rewrites an entry as well, but for its key.            *)
LEMMA EntryStep ==
  ASSUME PoolInv, NEW p \in Executions, NEW c \in ExecCalls,
         NEW e \in DOMAIN entry, NEW r \in Entries, r.key = entry[e].key,
         exec' = [exec EXCEPT ![p] = c], entry' = [entry EXCEPT ![e] = r],
         UNCHANGED <<listed, live, warming>>,
         owners' \in [Keys -> [Sessions -> Nat]],
         c.pc # "idle" => c.key \in Keys,
         c.pc = "lookup" => c.session # None,
         c.pc \in InHand => c.entry \in DOMAIN entry,
         c.pc \in {"count", "create"} => entry'[c.entry].generation > 0,
         c.pc \in {"leased", "remembered"} => c.generation > 0,
         c.pc # "writeoff",
         entry[e].generation <= r.generation,
         r.count # entry[e].count => \A q \in Executions \ {p} :
                                       ~(exec[q].pc = "writeoff" /\ exec[q].entry = e),
         entry[e].state = "ready" => r.state = "ready",
         e \in warming => r = entry[e],
         \A k \in Keys, s \in Sessions : owners'[k][s] # owners[k][s] =>
           owners'[k][s] = e /\ r.state = "ready" /\ e \in Ids(k),
         \A d \in DOMAIN entry \ {e} : Backs(p, d) => Backs(p, d)',
         r.key \notin Multiplexing =>
           r.count <= 1 /\ (r.count = 1 => \E q \in Executions : Backs(q, e)'),
         PoolKept'
  PROVE  PoolInv'
<1> USE DEF PoolInv, PoolTypeOK
<1>1. exec'[p] = c /\ \A q \in Executions \ {p} : exec'[q] = exec[q]
  OBVIOUS
<1>2. /\ DOMAIN entry' = DOMAIN entry /\ entry'[e] = r
      /\ \A d \in DOMAIN entry \ {e} : entry'[d] = entry[d]
  OBVIOUS
<1>0. \A d \in DOMAIN entry : entry[d] \in Entries /\ entry'[d] \in Entries
  BY <1>2
<1>3. PoolTypeOK'
  OBVIOUS
<1>4. CallsKnow'
  BY <1>1, <1>2 DEF CallsKnow
<1>5. Generations'
  <2>1. \A d \in DOMAIN entry : entry[d].generation <= entry'[d].generation
                                   /\ entry[d].generation \in Nat /\ entry'[d].generation \in Nat
    BY <1>0, <1>2 DEF Entries
  <2>2. \A q \in Executions : /\ exec'[q].pc \in {"count", "create"} => entry'[exec'[q].entry].generation > 0
                              /\ Holds(q)' => exec'[q].generation > 0
    BY <1>1, <2>1 DEF Generations, Holds, CallsKnow, InHand
  <2>3. \A d \in warming : entry'[d] = entry[d]
    BY <1>2
  <2> QED BY <2>2, <2>3 DEF Generations
<1>6. WrittenOffInUse'
  <2>1. ASSUME NEW q \in Executions, exec'[q].pc = "writeoff"
        PROVE  /\ entry'[exec'[q].entry].key \notin Multiplexing
               /\ entry'[exec'[q].entry].count = 1
    <3>1. q # p /\ exec'[q] = exec[q] /\ exec[q].entry \in DOMAIN entry
      BY <1>1, <2>1 DEF CallsKnow, InHand
    <3>2. entry[exec[q].entry].key \notin Multiplexing /\ entry[exec[q].entry].count = 1
      BY <2>1, <3>1 DEF WrittenOffInUse
    <3> QED BY <2>1, <3>1, <3>2, <1>2
  <2> QED BY <2>1 DEF WrittenOffInUse
<1>7. PoolAgrees'
  <2>1. ASSUME NEW k \in Keys, NEW s \in Sessions, owners'[k][s] # None
        PROVE  owners'[k][s] \in Ids(k)' /\ entry'[owners'[k][s]].state = "ready"
    <3>1. \A d \in Ids(k) : d \in Ids(k)'
      BY <1>2 DEF Ids
    <3>2. CASE owners'[k][s] = owners[k][s]
      <4>1. owners[k][s] \in Ids(k) /\ entry[owners[k][s]].state = "ready"
        BY <2>1, <3>2 DEF PoolAgrees
      <4> QED BY <1>2, <3>1, <3>2, <4>1 DEF Ids
    <3>3. CASE owners'[k][s] # owners[k][s]
      BY <1>2, <3>1, <3>3
    <3> QED BY <3>2, <3>3
  <2> QED BY <2>1 DEF PoolAgrees
<1>8. LeasesBacked'
  <2>1. ASSUME NEW d \in DOMAIN entry, entry'[d].key \notin Multiplexing PROVE
          entry'[d].count <= 1 /\ (entry'[d].count = 1 => \E q \in Executions : Backs(q, d)')
    <3>1. CASE d = e
      BY <1>2, <2>1, <3>1
    <3>2. CASE d # e
      <4>1. entry[d].count <= 1 /\ (entry[d].count = 1 => \E q \in Executions : Backs(q, d))
        BY <1>2, <2>1, <3>2 DEF LeasesBacked
      <4>2. \A q \in Executions \ {p} : Backs(q, d) => Backs(q, d)'
        BY <1>1, <1>2, <3>2 DEF Backs, Holds
      <4> QED BY <1>2, <3>2, <4>1, <4>2
    <3> QED BY <3>1, <3>2
  <2> QED BY <1>2, <2>1 DEF LeasesBacked
<1> QED BY <1>3, <1>4, <1>5, <1>6, <1>7, <1>8

(* The mutexes as they are after a step of p that is not about them.       *)
LEMMA KeptStep ==
  ASSUME PoolInv, NEW p \in Executions, NEW c \in ExecCalls,
         exec' = [exec EXCEPT ![p] = c], pool' = pool,
         exec[p].pc # "writeoff", c.pc # "evict"
  PROVE  PoolKept'
<1>1. exec'[p] = c /\ \A q \in Executions \ {p} : exec'[q] = exec[q]
  BY DEF PoolInv, PoolTypeOK
<1> QED BY <1>1 DEF PoolInv, PoolKept, Locked

LEMMA AcquireInv ==
  ASSUME PoolInv, NEW p \in Executions, NEW k \in Keys, NEW s \in Sessions \cup {None},
         Acquire(p, k, s)
  PROVE  PoolInv'
<1> DEFINE c == [NoCall EXCEPT !.key = k, !.session = s,
                              !.pc = IF s = None THEN "slow" ELSE "lookup"]
<1>1. /\ c \in ExecCalls /\ c.key = k /\ c.session = s
      /\ c.pc = IF s = None THEN "slow" ELSE "lookup"
  BY DEF NoCall, ExecCalls, CallPoints, InHand, None
<1>2. /\ exec' = [exec EXCEPT ![p] = c] /\ exec[p].pc = "idle"
      /\ UNCHANGED <<entry, listed, owners, live, pool, warming>>
  BY DEF Acquire
<1> HIDE DEF c
<1>3. PoolKept'
  BY <1>1, <1>2, KeptStep
<1>4. \A e \in DOMAIN entry : ~Backs(p, e)
  BY <1>2 DEF Backs, Holds
<1> QED BY <1>1, <1>2, <1>3, <1>4, CallStep DEF InHand

LEMMA LookUpInv == ASSUME PoolInv, NEW p \in Executions, LookUp(p) PROVE PoolInv'
<1> DEFINE owner == owners[exec[p].key][exec[p].session]
           c == [exec[p] EXCEPT !.pc = IF owner = None THEN "slow" ELSE "found",
                                !.entry = owner]
<1>0. /\ exec[p] \in ExecCalls /\ exec[p].key \in Keys /\ exec[p].pc = "lookup"
      /\ exec[p].session \in Sessions
      /\ exec' = [exec EXCEPT ![p] = c]
      /\ UNCHANGED <<entry, listed, owners, live, pool, warming>>
  BY DEF LookUp, PoolInv, PoolTypeOK, CallsKnow, ExecCalls
<1>1. owner \in Nat /\ (owner # None => owner \in DOMAIN entry)
  BY <1>0 DEF PoolInv, PoolTypeOK, PoolAgrees, Ids
<1>2. /\ c \in ExecCalls /\ c.key = exec[p].key /\ c.entry = owner
      /\ c.pc = IF owner = None THEN "slow" ELSE "found"
  BY <1>0, <1>1 DEF ExecCalls, CallPoints, InHand
<1> HIDE DEF c, owner
<1>3. PoolKept'
  BY <1>0, <1>2, KeptStep
<1>4. \A e \in DOMAIN entry : ~Backs(p, e)
  BY <1>0 DEF Backs, Holds
<1> QED BY <1>0, <1>1, <1>2, <1>3, <1>4, CallStep DEF InHand

(* To another point, with the same entry in hand.                          *)
LEMMA Moved ==
  ASSUME PoolInv, NEW p \in Executions, NEW point \in CallPoints, To(p, point)
  PROVE  LET c == [exec[p] EXCEPT !.pc = point]
         IN  /\ exec' = [exec EXCEPT ![p] = c] /\ exec[p] \in ExecCalls /\ c \in ExecCalls
             /\ c.pc = point /\ c.key = exec[p].key /\ c.session = exec[p].session
             /\ c.entry = exec[p].entry /\ c.generation = exec[p].generation
             /\ c.client = exec[p].client
BY DEF To, PoolInv, PoolTypeOK, ExecCalls

LEMMA CountHitInv == ASSUME PoolInv, NEW p \in Executions, CountHit(p) PROVE PoolInv'
<1> DEFINE c == [exec[p] EXCEPT !.pc = "create"]
<1>1. /\ exec[p].pc = "count" /\ To(p, "create")
      /\ UNCHANGED <<entry, listed, owners, live, pool, warming>>
  BY DEF CountHit
<1>2. /\ exec' = [exec EXCEPT ![p] = c] /\ c \in ExecCalls
      /\ c.pc = "create" /\ c.key = exec[p].key /\ c.entry = exec[p].entry
  BY <1>1, Moved DEF CallPoints, InHand
<1>3. exec'[p] = c
  BY <1>2 DEF PoolInv, PoolTypeOK
<1> HIDE DEF c
<1>4. PoolKept'
  BY <1>1, <1>2, KeptStep
<1>5. \A e \in DOMAIN entry : Backs(p, e) => Backs(p, e)'
  BY <1>1, <1>2, <1>3 DEF Backs
<1>6. /\ exec[p].key \in Keys /\ exec[p].entry \in DOMAIN entry
      /\ entry[exec[p].entry].generation > 0
  BY <1>1 DEF PoolInv, CallsKnow, InHand, Generations
<1> QED BY <1>1, <1>2, <1>4, <1>5, <1>6, CallStep

LEMMA LeasedEntry ==
  ASSUME NEW r \in Entries, NEW zombie \in BOOLEAN
  PROVE  /\ Leased(r, zombie) \in Entries
         /\ Leased(r, zombie).key = r.key /\ Leased(r, zombie).state = r.state
         /\ Leased(r, zombie).generation > r.generation
         /\ Leased(r, zombie).count = IF zombie THEN 1 ELSE r.count + 1
         /\ r.generation \in Nat /\ r.count \in Nat
<1> DEFINE n == IF zombie THEN 1 ELSE r.count + 1
           g == IF zombie THEN r.generation + 2 ELSE r.generation + 1
<1>1. r.generation \in Nat /\ r.count \in Nat
  BY DEF Entries
<1>2. n \in Nat /\ g \in Nat /\ g > r.generation
  BY <1>1
<1>3. Leased(r, zombie) = [r EXCEPT !.count = n, !.generation = g]
  BY DEF Leased
<1> HIDE DEF n, g
<1>4. /\ [r EXCEPT !.count = n, !.generation = g] \in Entries
      /\ [r EXCEPT !.count = n, !.generation = g].key = r.key
      /\ [r EXCEPT !.count = n, !.generation = g].state = r.state
      /\ [r EXCEPT !.count = n, !.generation = g].generation = g
      /\ [r EXCEPT !.count = n, !.generation = g].count = n
  BY <1>2 DEF Entries
<1> QED BY <1>1, <1>2, <1>3, <1>4 DEF n

LEMMA TryOwnerInv == ASSUME PoolInv, NEW p \in Executions, TryOwner(p) PROVE PoolInv'
<1>0. PICK e : e = exec[p].entry
  OBVIOUS
<1>1. /\ exec[p].pc = "found" /\ ~Locked(e)
      /\ UNCHANGED <<listed, owners, live, pool, warming>>
      /\ owners \in [Keys -> [Sessions -> Nat]]
      /\ exec[p].key \in Keys /\ e \in DOMAIN entry /\ entry[e] \in Entries
  BY <1>0 DEF TryOwner, PoolInv, PoolTypeOK, CallsKnow, InHand
<1>2. \A d \in DOMAIN entry : ~Backs(p, d)
  BY <1>1 DEF Backs, Holds
<1>3. CASE Reusable(e)
  <2> DEFINE c == [exec[p] EXCEPT !.pc = "count"]
             r == Leased(entry[e], FALSE)
  <2>1. entry' = [entry EXCEPT ![e] = r] /\ To(p, "count")
    BY <1>0, <1>3 DEF TryOwner, Zombie
  <2>2. /\ exec' = [exec EXCEPT ![p] = c] /\ c \in ExecCalls
        /\ c.pc = "count" /\ c.key = exec[p].key /\ c.entry = e
    BY <1>0, <2>1, Moved DEF CallPoints, InHand
  <2>3. /\ r \in Entries /\ r.key = entry[e].key /\ r.state = entry[e].state
        /\ r.generation > entry[e].generation /\ r.count = entry[e].count + 1
        /\ entry[e].generation \in Nat /\ r.generation \in Nat
    BY <1>1, LeasedEntry DEF Entries
  <2>4. exec'[p] = c /\ entry'[e] = r
    BY <1>1, <2>1, <2>2 DEF PoolInv, PoolTypeOK
  <2> HIDE DEF c, r
  <2>5. PoolKept'
    BY <1>1, <2>2, KeptStep
  <2>6. Backs(p, e)'
    BY <2>2, <2>4 DEF Backs
  <2>7. e \notin warming /\ (entry[e].key \notin Multiplexing => entry[e].count = 0)
    BY <1>3 DEF Reusable, Ready, PoolInv, Generations
  <2>8. \A q \in Executions : ~(exec[q].pc = "writeoff" /\ exec[q].entry = e)
    BY <1>1 DEF Locked
  <2>9. /\ entry[e].generation <= r.generation /\ entry'[c.entry].generation > 0
        /\ r.key \notin Multiplexing =>
             r.count <= 1 /\ (r.count = 1 => \E q \in Executions : Backs(q, e)')
    BY <2>2, <2>3, <2>4, <2>6, <2>7
  <2>10. /\ c.pc # "writeoff" /\ c.pc # "lookup" /\ c.key \in Keys /\ c.entry \in DOMAIN entry
         /\ c.pc \notin {"leased", "remembered"}
    BY <1>1, <2>2
  <2> QED BY <1>1, <1>2, <2>1, <2>2, <2>3, <2>5, <2>7, <2>8, <2>9, <2>10, EntryStep
<1>4. CASE ~Reusable(e)
  <2> DEFINE point == IF Zombie(e) THEN "writeoff" ELSE "slow"
             c == [exec[p] EXCEPT !.pc = point]
  <2>1. entry' = entry /\ To(p, point) /\ point \in CallPoints
    BY <1>0, <1>4 DEF TryOwner, CallPoints, InHand
  <2>2. /\ exec' = [exec EXCEPT ![p] = c] /\ c \in ExecCalls
        /\ c.pc = point /\ c.key = exec[p].key /\ c.entry = e
    BY <1>0, <2>1, Moved
  <2> HIDE DEF c
  <2>3. PoolKept'
    BY <1>1, <2>2, KeptStep
  <2>4. Zombie(e) => entry[e].key \notin Multiplexing /\ entry[e].count = 1
    <3>1. Zombie(e) => entry[e].key \notin Multiplexing /\ entry[e].count # 0
      BY DEF Zombie, Reusable
    <3>2. entry[e].count \in Nat
      BY <1>1 DEF Entries
    <3> QED BY <1>1, <3>1, <3>2 DEF PoolInv, LeasesBacked
  <2> QED BY <1>1, <1>2, <2>1, <2>2, <2>3, <2>4, CallStep
<1> QED BY <1>3, <1>4

LEMMA WriteOffInv == ASSUME PoolInv, NEW p \in Executions, WriteOff(p) PROVE PoolInv'
<1>0. PICK e : e = exec[p].entry
  OBVIOUS
<1> DEFINE c == [exec[p] EXCEPT !.pc = "count"]
           r == Leased(entry[e], TRUE)
<1>1. /\ exec[p].pc = "writeoff" /\ pool = "free"
      /\ entry' = [entry EXCEPT ![e] = r] /\ To(p, "count")
      /\ UNCHANGED <<listed, owners, live, pool, warming>>
      /\ owners \in [Keys -> [Sessions -> Nat]]
      /\ exec[p].key \in Keys /\ e \in DOMAIN entry /\ entry[e] \in Entries
      /\ entry[e].key \notin Multiplexing /\ entry[e].count = 1
  BY <1>0 DEF WriteOff, PoolInv, PoolTypeOK, CallsKnow, InHand, WrittenOffInUse
<1>2. \A d \in DOMAIN entry : ~Backs(p, d)
  BY <1>1 DEF Backs, Holds
<1>3. /\ exec' = [exec EXCEPT ![p] = c] /\ c \in ExecCalls
      /\ c.pc = "count" /\ c.key = exec[p].key /\ c.entry = e
  BY <1>0, <1>1, Moved DEF CallPoints, InHand
<1>4. /\ r \in Entries /\ r.key = entry[e].key /\ r.state = entry[e].state
      /\ r.generation > entry[e].generation /\ r.count = 1
      /\ entry[e].generation \in Nat /\ r.generation \in Nat
  BY <1>1, LeasedEntry DEF Entries
<1>5. exec'[p] = c /\ entry'[e] = r /\ \A q \in Executions \ {p} : exec'[q] = exec[q]
  BY <1>1, <1>3 DEF PoolInv, PoolTypeOK
<1> HIDE DEF c, r
<1>6. PoolKept'
  BY <1>1, <1>3, <1>5 DEF PoolInv, PoolKept, PoolAssumption
<1>7. Backs(p, e)'
  BY <1>3, <1>5 DEF Backs
<1>8. e \notin warming
  <2>1. \E q \in Executions : Backs(q, e)
    BY <1>1 DEF PoolInv, LeasesBacked
  <2> QED BY <2>1 DEF Backs, PoolInv, Generations
<1>9. /\ entry[e].generation <= r.generation /\ entry'[c.entry].generation > 0
      /\ r.key \notin Multiplexing =>
           r.count <= 1 /\ (r.count = 1 => \E q \in Executions : Backs(q, e)')
      /\ r.count # entry[e].count => \A q \in Executions \ {p} :
                                       ~(exec[q].pc = "writeoff" /\ exec[q].entry = e)
  BY <1>1, <1>3, <1>4, <1>5, <1>7
<1>10. /\ c.pc # "writeoff" /\ c.pc # "lookup" /\ c.key \in Keys /\ c.entry \in DOMAIN entry
       /\ c.pc \notin {"leased", "remembered"}
  BY <1>1, <1>3
<1> QED BY <1>1, <1>2, <1>3, <1>4, <1>6, <1>8, <1>9, <1>10, EntryStep

LEMMA CreateLeaseInv == ASSUME PoolInv, NEW p \in Executions, CreateLease(p) PROVE PoolInv'
<1>0. PICK e : e = exec[p].entry
  OBVIOUS
<1> DEFINE c == [exec[p] EXCEPT !.pc = "leased", !.session = None, !.entry = e,
                                !.generation = entry[e].generation, !.client = entry[e].client]
<1>1. /\ exec[p].pc = "create" /\ exec' = [exec EXCEPT ![p] = c]
      /\ UNCHANGED <<entry, listed, owners, live, warming>>
      /\ pool' = IF pool = p THEN "free" ELSE pool
      /\ exec[p] \in ExecCalls
      /\ exec[p].key \in Keys /\ e \in DOMAIN entry /\ entry[e] \in Entries
      /\ entry[e].generation > 0
  BY <1>0 DEF CreateLease, Give, PoolInv, PoolTypeOK, CallsKnow, InHand, Generations
<1>2. /\ c \in ExecCalls /\ c.pc = "leased" /\ c.key = exec[p].key /\ c.entry = e
      /\ c.generation = entry[e].generation
  <2>1. e \in Nat /\ entry[e].generation \in Nat /\ entry[e].client \in BOOLEAN
    BY <1>0, <1>1 DEF ExecCalls, Entries
  <2> QED BY <1>1, <2>1 DEF ExecCalls, CallPoints, InHand
<1> HIDE DEF c
<1>3. exec'[p] = c /\ \A q \in Executions \ {p} : exec'[q] = exec[q]
  BY <1>1 DEF PoolInv, PoolTypeOK
<1>4. \A d \in DOMAIN entry : Backs(p, d) => Backs(p, d)'
  BY <1>0, <1>1, <1>2, <1>3 DEF Backs, Holds
<1>5. PoolKept'
  BY <1>1, <1>2, <1>3, PoolAssumption DEF PoolInv, PoolKept, Locked
<1> QED BY <1>1, <1>2, <1>4, <1>5, CallStep

LEMMA InitializeInv == ASSUME PoolInv, NEW p \in Executions, Initialize(p) PROVE PoolInv'
<1> DEFINE c == [exec[p] EXCEPT !.client = TRUE]
<1>1. /\ exec[p].pc = "leased" /\ exec' = [exec EXCEPT ![p] = c]
      /\ UNCHANGED <<entry, listed, owners, live, pool, warming>>
      /\ exec[p] \in ExecCalls
      /\ exec[p].key \in Keys /\ exec[p].entry \in DOMAIN entry /\ exec[p].generation > 0
  BY DEF Initialize, PoolInv, PoolTypeOK, CallsKnow, InHand, Generations, Holds
<1>2. /\ c \in ExecCalls /\ c.pc = "leased" /\ c.key = exec[p].key /\ c.entry = exec[p].entry
      /\ c.generation = exec[p].generation
  BY <1>1 DEF ExecCalls
<1> HIDE DEF c
<1>3. exec'[p] = c /\ \A q \in Executions \ {p} : exec'[q] = exec[q]
  BY <1>1 DEF PoolInv, PoolTypeOK
<1>4. \A d \in DOMAIN entry : Backs(p, d) => Backs(p, d)'
  BY <1>1, <1>2, <1>3 DEF Backs, Holds
<1>5. PoolKept'
  BY <1>1, <1>2, KeptStep
<1> QED BY <1>1, <1>2, <1>4, <1>5, CallStep

(* Who meets an entry that is waited with keeps the pool's mutex.          *)
LEMMA BlockInv ==
  ASSUME PoolInv, NEW e, Locked(e), Block,
         pool = "free" \/ \E p \in Executions : exec[p].pc = "evict" /\ exec[p].entry = e
  PROVE  PoolInv'
<1>1. /\ pool' = "blocked" /\ UNCHANGED <<entry, listed, owners, live, exec, warming>>
  BY DEF Block
<1>2. PoolTypeOK' /\ CallsKnow'
  BY <1>1 DEF PoolInv, PoolTypeOK, CallsKnow
<1>3. Generations' /\ WrittenOffInUse'
  BY <1>1 DEF PoolInv, Generations, WrittenOffInUse, Holds
<1>4. PoolAgrees' /\ LeasesBacked'
  BY <1>1 DEF PoolInv, PoolAgrees, LeasesBacked, Ids, Backs, Holds
<1>5. PoolKept'
  <2>1. ASSUME NEW q \in Executions, exec[q].pc = "evict" PROVE Locked(exec[q].entry)
    BY <2>1, PoolAssumption DEF PoolInv, PoolKept
  <2> QED BY <1>1, <2>1 DEF PoolKept, Locked
<1> QED BY <1>2, <1>3, <1>4, <1>5 DEF PoolInv

LEMMA ReuseInv ==
  ASSUME PoolInv, NEW p \in Executions, NEW e \in DOMAIN entry,
         exec[p].pc = "slow", pool = "free", Locked(e) \/ Ready(e), Reuse(p, e)
  PROVE  PoolInv'
<1>1. CASE Locked(e)
  BY <1>1, BlockInv DEF Reuse
<1>2. CASE ~Locked(e)
  <2> DEFINE c == [exec[p] EXCEPT !.pc = "create", !.entry = e]
             r == Leased(entry[e], Zombie(e))
  <2>1. /\ pool' = p /\ entry' = [entry EXCEPT ![e] = r] /\ exec' = [exec EXCEPT ![p] = c]
        /\ UNCHANGED <<listed, owners, live, warming>>
    BY <1>2 DEF Reuse
  <2>2. /\ owners \in [Keys -> [Sessions -> Nat]] /\ exec[p] \in ExecCalls
        /\ exec[p].key \in Keys /\ entry[e] \in Entries /\ e \in Nat
    BY DEF PoolInv, PoolTypeOK, CallsKnow
  <2>3. /\ c \in ExecCalls /\ c.pc = "create" /\ c.key = exec[p].key /\ c.entry = e
    BY <2>2 DEF ExecCalls, CallPoints, InHand
  <2>4. Zombie(e) \in BOOLEAN
    BY DEF Zombie
  <2>5. /\ r \in Entries /\ r.key = entry[e].key /\ r.state = entry[e].state
        /\ r.generation > entry[e].generation
        /\ r.count = IF Zombie(e) THEN 1 ELSE entry[e].count + 1
        /\ entry[e].generation \in Nat /\ r.generation \in Nat
    BY <2>2, <2>4, LeasedEntry DEF Entries
  <2>6. /\ exec'[p] = c /\ entry'[e] = r
        /\ \A q \in Executions \ {p} : exec'[q] = exec[q]
    BY <2>1 DEF PoolInv, PoolTypeOK
  <2> HIDE DEF c, r
  <2>7. PoolKept'
    BY <1>2, <2>1, <2>3, <2>6, PoolAssumption DEF PoolInv, PoolKept
  <2>8. Backs(p, e)'
    BY <2>3, <2>6 DEF Backs
  <2>9. e \notin warming /\ (entry[e].key \notin Multiplexing /\ ~Zombie(e) => entry[e].count = 0)
    BY <1>2 DEF Reusable, Ready, Zombie, PoolInv, Generations
  <2>10. \A q \in Executions : ~(exec[q].pc = "writeoff" /\ exec[q].entry = e)
    BY <1>2 DEF Locked
  <2>11. /\ entry[e].generation <= r.generation /\ entry'[c.entry].generation > 0
         /\ r.key \notin Multiplexing =>
              r.count <= 1 /\ (r.count = 1 => \E q \in Executions : Backs(q, e)')
    BY <2>3, <2>5, <2>6, <2>8, <2>9
  <2>12. /\ c.pc # "writeoff" /\ c.pc # "lookup" /\ c.key \in Keys /\ c.entry \in DOMAIN entry
         /\ c.pc \notin {"leased", "remembered"}
    BY <2>2, <2>3
  <2>13. \A d \in DOMAIN entry : ~Backs(p, d)
    BY DEF Backs, Holds
  <2> QED BY <2>1, <2>2, <2>3, <2>5, <2>7, <2>9, <2>10, <2>11, <2>12, <2>13, EntryStep
<1> QED BY <1>1, <1>2

(* What is removed takes its sessions with it; what is new is not leased,  *)
(* or by who asked for it.                                                 *)
PoolChanges(gone) ==
  /\ entry' \in Seq(Entries) /\ DOMAIN entry \subseteq DOMAIN entry'
  /\ \A d \in DOMAIN entry :
       /\ entry'[d].key = entry[d].key
       /\ entry'[d].count = entry[d].count
       /\ entry'[d].generation = entry[d].generation
       /\ d \notin gone /\ entry[d].state = "ready" => entry'[d].state = "ready"
  /\ \A d \in DOMAIN entry' \ DOMAIN entry :
       entry'[d].count = 0 \/ (entry'[d].count = 1 /\ \E q \in Executions : Backs(q, d)')
  /\ listed' \subseteq DOMAIN entry' /\ IsFiniteSet(listed') /\ listed \ gone \subseteq listed'
  /\ live' \in Int /\ live' <= Cardinality(listed')
  /\ owners' = [k \in Keys |-> [s \in Sessions |->
                  IF owners[k][s] \in gone THEN None ELSE owners[k][s]]]
  /\ warming' \subseteq DOMAIN entry'
  /\ \A d \in warming' : entry'[d].generation = 0 /\ entry'[d].state # "ready"

NewLeaseOnly ==
  /\ exec' \in [Executions -> ExecCalls]
  /\ \A q \in Executions :
       \/ exec'[q] = exec[q]
       \/ /\ exec[q].pc \in {"slow", "evict"}
          /\ exec'[q].pc = "leased" /\ exec'[q].key \in Keys
          /\ exec'[q].entry \in DOMAIN entry' /\ exec'[q].generation > 0

LEMMA PoolChange ==
  ASSUME PoolInv, NEW gone, PoolChanges(gone), NewLeaseOnly, PoolKept'
  PROVE  PoolInv'
<1> USE DEF PoolInv, PoolTypeOK, PoolChanges, NewLeaseOnly
<1>1. owners' \in [Keys -> [Sessions -> Nat]]
  BY DEF None
<1>2. PoolTypeOK'
  BY <1>1
<1>3. CallsKnow'
  BY DEF CallsKnow, InHand
<1>4. Generations'
  <2>1. ASSUME NEW q \in Executions
        PROVE  /\ exec'[q].pc \in {"count", "create"} => entry'[exec'[q].entry].generation > 0
               /\ Holds(q)' => exec'[q].generation > 0
    BY <2>1 DEF Generations, CallsKnow, InHand, Holds
  <2> QED BY <2>1 DEF Generations
<1>5. WrittenOffInUse'
  <2>1. ASSUME NEW q \in Executions, exec'[q].pc = "writeoff"
        PROVE  /\ entry'[exec'[q].entry].key \notin Multiplexing
               /\ entry'[exec'[q].entry].count = 1
    <3>1. exec'[q] = exec[q] /\ exec[q].entry \in DOMAIN entry
      BY <2>1 DEF CallsKnow, InHand
    <3>2. entry[exec[q].entry].key \notin Multiplexing /\ entry[exec[q].entry].count = 1
      BY <2>1, <3>1 DEF WrittenOffInUse
    <3> QED BY <3>1, <3>2
  <2> QED BY <2>1 DEF WrittenOffInUse
<1>6. PoolAgrees'
  <2>1. ASSUME NEW k \in Keys, NEW s \in Sessions, owners'[k][s] # None
        PROVE  owners'[k][s] \in Ids(k)' /\ entry'[owners'[k][s]].state = "ready"
    <3>1. owners'[k][s] = owners[k][s] /\ owners[k][s] \notin gone
      BY <2>1
    <3>2. owners[k][s] \in listed /\ entry[owners[k][s]].key = k /\ entry[owners[k][s]].state = "ready"
      BY <2>1, <3>1 DEF PoolAgrees, Ids
    <3> QED BY <3>1, <3>2 DEF Ids
  <2> QED BY <2>1 DEF PoolAgrees
<1>7. LeasesBacked'
  <2>1. ASSUME NEW d \in DOMAIN entry, entry'[d].key \notin Multiplexing PROVE
          entry'[d].count <= 1 /\ (entry'[d].count = 1 => \E q \in Executions : Backs(q, d)')
    <3>1. entry[d].count <= 1 /\ (entry[d].count = 1 => \E q \in Executions : Backs(q, d))
      BY <2>1 DEF LeasesBacked
    <3>2. \A q \in Executions : Backs(q, d) => Backs(q, d)'
      BY DEF Backs, Holds
    <3> QED BY <3>1, <3>2
  <2>2. ASSUME NEW d \in DOMAIN entry' \ DOMAIN entry PROVE
          entry'[d].count <= 1 /\ (entry'[d].count = 1 => \E q \in Executions : Backs(q, d)')
    OBVIOUS
  <2> QED BY <2>1, <2>2 DEF LeasesBacked
<1> QED BY <1>2, <1>3, <1>4, <1>5, <1>6, <1>7

LEMMA NewEntry ==
  ASSUME NEW k \in Keys, NEW n \in Nat
  PROVE  /\ New(k, n) \in Entries /\ New(k, n).count = n /\ New(k, n).generation = n
         /\ New(k, n).state = "initializing"
BY DEF New, Entries

LEMMA NothingForgotten ==
  ASSUME PoolInv, NEW gone,
         \A k \in Keys, s \in Sessions : owners[k][s] \notin gone \/ owners[k][s] = None
  PROVE  owners = [k \in Keys |-> [s \in Sessions |->
                    IF owners[k][s] \in gone THEN None ELSE owners[k][s]]]
<1>1. owners \in [Keys -> [Sessions -> Nat]]
  BY DEF PoolInv, PoolTypeOK
<1>2. \A k \in Keys : owners[k] = [s \in Sessions |->
                                  IF owners[k][s] \in gone THEN None ELSE owners[k][s]]
  BY <1>1
<1> QED BY <1>1, <1>2

(* A lease of a new entry.                                                 *)
LEMMA GiveNew ==
  ASSUME PoolInv, NEW p \in Executions, exec[p].pc \in {"slow", "evict"},
         NEW n \in Nat, Give(p, n, 1, FALSE)
  PROVE  LET c == [exec[p] EXCEPT !.pc = "leased", !.session = None, !.entry = n,
                                  !.generation = 1, !.client = FALSE]
         IN  /\ exec' = [exec EXCEPT ![p] = c] /\ c \in ExecCalls
             /\ c.pc = "leased" /\ c.key \in Keys /\ c.entry = n /\ c.generation = 1
             /\ exec' \in [Executions -> ExecCalls]
             /\ exec'[p] = c /\ \A q \in Executions \ {p} : exec'[q] = exec[q]
<1> DEFINE c == [exec[p] EXCEPT !.pc = "leased", !.session = None, !.entry = n,
                                !.generation = 1, !.client = FALSE]
<1>1. exec' = [exec EXCEPT ![p] = c] /\ exec \in [Executions -> ExecCalls]
      /\ exec[p].key \in Keys
  BY DEF Give, PoolInv, PoolTypeOK, CallsKnow
<1>2. /\ c \in ExecCalls /\ c.pc = "leased" /\ c.key \in Keys /\ c.entry = n
      /\ c.generation = 1
  BY <1>1 DEF ExecCalls, CallPoints, InHand
<1> HIDE DEF c
<1> QED BY <1>1, <1>2 DEF c

LEMMA ColdStartInv ==
  ASSUME PoolInv, NEW p \in Executions, exec[p].pc = "slow", ColdStart(p) PROVE PoolInv'
<1>0. PICK n, gone : n = Len(entry) + 1 /\ gone = {}
  OBVIOUS
<1> DEFINE r == New(exec[p].key, 1)
<1>1. /\ entry \in Seq(Entries) /\ exec[p].key \in Keys /\ live \in Int
      /\ listed \subseteq DOMAIN entry /\ IsFiniteSet(listed) /\ warming \subseteq DOMAIN entry
      /\ live <= Cardinality(listed)
  BY DEF PoolInv, PoolTypeOK, CallsKnow, PoolAgrees
<1>2. /\ entry' = Append(entry, r) /\ listed' = listed \cup {n} /\ live' = live + 1
      /\ Give(p, n, 1, FALSE) /\ UNCHANGED <<owners, pool, warming>>
  BY <1>0 DEF ColdStart
<1>3. r \in Entries /\ r.count = 1 /\ r.generation = 1
  BY <1>1, NewEntry
<1> HIDE DEF r
<1>4. /\ entry' \in Seq(Entries) /\ DOMAIN entry' = DOMAIN entry \cup {n}
      /\ n \notin DOMAIN entry /\ n \in Nat /\ entry'[n] = r
      /\ \A i \in DOMAIN entry : entry'[i] = entry[i]
  BY <1>0, <1>1, <1>2, <1>3, OneMore
<1>5. /\ IsFiniteSet(listed') /\ Cardinality(listed') = Cardinality(listed) + 1
      /\ Cardinality(listed) \in Nat
  BY <1>1, <1>2, <1>4, FS_AddElement, FS_CardinalityType
<1> DEFINE c == [exec[p] EXCEPT !.pc = "leased", !.session = None, !.entry = n,
                                !.generation = 1, !.client = FALSE]
<1>6. /\ exec' = [exec EXCEPT ![p] = c] /\ c \in ExecCalls
      /\ c.pc = "leased" /\ c.key \in Keys /\ c.entry = n /\ c.generation = 1
      /\ exec' \in [Executions -> ExecCalls]
      /\ exec'[p] = c /\ \A q \in Executions \ {p} : exec'[q] = exec[q]
  BY <1>2, <1>4, GiveNew
<1> HIDE DEF c
<1>7. Backs(p, n)'
  BY <1>3, <1>4, <1>6 DEF Backs, Holds
<1>8. PoolKept'
  BY <1>2, <1>6, KeptStep
<1>9. owners' = [k \in Keys |-> [s \in Sessions |->
                   IF owners[k][s] \in gone THEN None ELSE owners[k][s]]]
  BY <1>0, <1>2, NothingForgotten
<1>10. \A d \in warming' : entry'[d].generation = 0 /\ entry'[d].state # "ready"
  BY <1>1, <1>2, <1>4 DEF PoolInv, Generations
<1>11. NewLeaseOnly
  BY <1>4, <1>6 DEF NewLeaseOnly
<1>12. \A d \in DOMAIN entry' \ DOMAIN entry :
         entry'[d].count = 0 \/ (entry'[d].count = 1 /\ \E q \in Executions : Backs(q, d)')
  BY <1>3, <1>4, <1>7
<1>13. live' \in Int /\ live' <= Cardinality(listed')
  BY <1>1, <1>2, <1>5
<1>14. /\ listed' \subseteq DOMAIN entry' /\ listed \ gone \subseteq listed'
       /\ warming' \subseteq DOMAIN entry'
  BY <1>1, <1>2, <1>4
<1>15. \A d \in DOMAIN entry : /\ entry'[d].key = entry[d].key
                               /\ entry'[d].count = entry[d].count
                               /\ entry'[d].generation = entry[d].generation
                               /\ d \notin gone /\ entry[d].state = "ready" =>
                                    entry'[d].state = "ready"
  BY <1>4
<1>16. entry' \in Seq(Entries) /\ DOMAIN entry \subseteq DOMAIN entry'
  BY <1>4
<1>17. PoolChanges(gone)
  BY <1>5, <1>9, <1>10, <1>12, <1>13, <1>14, <1>15, <1>16 DEF PoolChanges
<1> QED BY <1>8, <1>11, <1>17, PoolChange

LEMMA ChooseVictimInv ==
  ASSUME PoolInv, NEW p \in Executions, exec[p].pc = "slow", pool = "free", ChooseVictim(p)
  PROVE  PoolInv'
<1>1. CASE \E e \in listed : Locked(e)
  BY <1>1, BlockInv DEF ChooseVictim
<1>2. CASE ~ \E e \in listed : Locked(e)
  <2> USE DEF PoolInv, PoolTypeOK
  <2>0. \A d \in DOMAIN entry : ~Backs(p, d)
    BY DEF Backs, Holds
  <2>1. CASE pool' = pool /\ exec' = [exec EXCEPT ![p] = NoCall]
    <3>1. NoCall \in ExecCalls /\ NoCall.pc = "idle"
      BY DEF NoCall, ExecCalls, CallPoints, None
    <3>2. PoolKept'
      BY <2>1, <3>1, KeptStep
    <3>3. UNCHANGED <<entry, listed, owners, live, warming>>
      BY <1>2 DEF ChooseVictim
    <3> HIDE DEF PoolInv, PoolTypeOK
    <3> QED BY <2>0, <2>1, <3>1, <3>2, <3>3, CallStep DEF InHand
  <2>2. ASSUME NEW e \in listed, pool' = p, exec' = [exec EXCEPT ![p].pc = "evict", ![p].entry = e]
        PROVE  PoolInv'
    <3> DEFINE c == [exec[p] EXCEPT !.pc = "evict", !.entry = e]
    <3>1. /\ exec' = [exec EXCEPT ![p] = c] /\ exec[p] \in ExecCalls /\ exec[p].key \in Keys
          /\ e \in DOMAIN entry /\ e \in Nat
          /\ UNCHANGED <<entry, listed, owners, live, warming>>
      <4>1. exec' = [exec EXCEPT ![p] = c]
        BY <2>2
      <4>2. UNCHANGED <<entry, listed, owners, live, warming>>
        BY <1>2 DEF ChooseVictim
      <4>3. exec[p] \in ExecCalls /\ exec[p].key \in Keys /\ e \in DOMAIN entry /\ e \in Nat
        BY <2>2 DEF CallsKnow
      <4> QED BY <4>1, <4>2, <4>3
    <3>2. c \in ExecCalls /\ c.pc = "evict" /\ c.key = exec[p].key /\ c.entry = e
      BY <3>1 DEF ExecCalls, CallPoints, InHand
    <3> HIDE DEF c
    <3>3. exec'[p] = c /\ \A q \in Executions \ {p} : exec'[q] = exec[q]
      BY <3>1
    <3>4. PoolKept'
      BY <2>2, <3>2, <3>3, PoolAssumption DEF PoolKept
    <3> HIDE DEF PoolInv, PoolTypeOK
    <3> QED BY <2>0, <3>1, <3>2, <3>4, CallStep
  <2> QED BY <1>2, <2>1, <2>2 DEF ChooseVictim
<1> QED BY <1>1, <1>2

LEMMA SlowPathInv == ASSUME PoolInv, NEW p \in Executions, SlowPath(p) PROVE PoolInv'
<1>1. /\ exec[p].pc = "slow" /\ pool = "free" /\ exec[p].key \in Keys
      /\ exec[p].session \in Sessions \cup {None}
      /\ listed \subseteq DOMAIN entry /\ DOMAIN entry \subseteq Nat
  BY DEF SlowPath, PoolInv, PoolTypeOK, CallsKnow, ExecCalls
<1> DEFINE owner == IF exec[p].session = None THEN None ELSE owners[exec[p].key][exec[p].session]
           tries == {e \in Ids(exec[p].key) : Locked(e) \/ Reusable(e)}
<1>2. CASE owner # None /\ (Locked(owner) \/ Ready(owner)) /\ Reuse(p, owner)
  <2>1. owner \in DOMAIN entry
    BY <1>1, <1>2 DEF PoolInv, PoolAgrees, Ids
  <2> HIDE DEF owner
  <2> QED BY <1>1, <1>2, <2>1, ReuseInv
<1>3. CASE tries # {} /\ Reuse(p, Min(tries))
  <2>1. tries \subseteq DOMAIN entry
    BY <1>1 DEF Ids
  <2>2. Min(tries) \in tries
    BY <1>1, <1>3, <2>1, MinIsMember
  <2>3. Locked(Min(tries)) \/ Ready(Min(tries))
    BY <2>2 DEF Reusable
  <2> HIDE DEF tries
  <2> QED BY <1>1, <1>3, <2>1, <2>2, <2>3, ReuseInv
<1>4. CASE ColdStart(p)
  BY <1>1, <1>4, ColdStartInv
<1>5. CASE ChooseVictim(p)
  BY <1>1, <1>5, ChooseVictimInv
<1> QED BY <1>2, <1>3, <1>4, <1>5 DEF SlowPath

LEMMA ClosedEntries ==
  ASSUME NEW gone, entry \in Seq(Entries)
  PROVE  /\ Closed(gone) \in Seq(Entries) /\ DOMAIN Closed(gone) = DOMAIN entry
         /\ Len(Closed(gone)) = Len(entry)
         /\ \A d \in DOMAIN entry :
              /\ Closed(gone)[d].key = entry[d].key
              /\ Closed(gone)[d].count = entry[d].count
              /\ Closed(gone)[d].generation = entry[d].generation
              /\ d \notin gone => Closed(gone)[d] = entry[d]
              /\ d \in gone => Closed(gone)[d].state = "closing"
<1> DEFINE shut(r) == [r EXCEPT !.state = "closing", !.timer = FALSE]
           all == [d \in 1..Len(entry) |-> IF d \in gone THEN shut(entry[d]) ELSE entry[d]]
<1>1. ASSUME NEW r \in Entries
      PROVE  /\ shut(r) \in Entries /\ shut(r).key = r.key /\ shut(r).count = r.count
             /\ shut(r).generation = r.generation /\ shut(r).state = "closing"
  BY DEF Entries
<1>2. DOMAIN entry = 1..Len(entry) /\ Len(entry) \in Nat
  OBVIOUS
<1>3. Closed(gone) = all
  BY <1>2 DEF Closed
<1> HIDE DEF shut
<1>4. /\ DOMAIN all = 1..Len(entry)
      /\ \A d \in 1..Len(entry) : all[d] = IF d \in gone THEN shut(entry[d]) ELSE entry[d]
  OBVIOUS
<1>5. \A d \in 1..Len(entry) : entry[d] \in Entries /\ all[d] \in Entries
  BY <1>1, <1>4
<1>6. all \in Seq(Entries) /\ Len(all) = Len(entry)
  BY <1>2, <1>5
<1> HIDE DEF all
<1> QED BY <1>1, <1>2, <1>3, <1>4, <1>5, <1>6

LEMMA EvictInv == ASSUME PoolInv, NEW p \in Executions, Evict(p) PROVE PoolInv'
<1>0. PICK e, n, gone, base :
        e = exec[p].entry /\ n = Len(entry) + 1 /\ gone = {e} /\ base = Closed({e})
  OBVIOUS
<1>1. CASE Locked(e)
  BY <1>0, <1>1, BlockInv DEF Evict
<1>2. CASE ~Locked(e)
  <2> DEFINE r == New(exec[p].key, 1)
  <2>1. /\ entry \in Seq(Entries) /\ exec[p].key \in Keys /\ exec[p].pc = "evict" /\ live \in Int
        /\ listed \subseteq DOMAIN entry /\ IsFiniteSet(listed) /\ warming \subseteq DOMAIN entry
        /\ live <= Cardinality(listed)
    BY DEF Evict, PoolInv, PoolTypeOK, CallsKnow, PoolAgrees
  <2>2. /\ entry' = Append(base, r) /\ listed' = (listed \ {e}) \cup {n}
        /\ owners' = [k \in Keys |-> [s \in Sessions |->
                         IF owners[k][s] = e THEN None ELSE owners[k][s]]]
        /\ pool' = "free" /\ Give(p, n, 1, FALSE) /\ UNCHANGED <<live, warming>>
    BY <1>0, <1>2 DEF Evict
  <2>3. r \in Entries /\ r.count = 1 /\ r.generation = 1
    BY <2>1, NewEntry
  <2> HIDE DEF r
  <2>4. /\ base \in Seq(Entries) /\ DOMAIN base = DOMAIN entry
        /\ Len(base) = Len(entry)
        /\ \A d \in DOMAIN entry :
             /\ base[d].key = entry[d].key
             /\ base[d].count = entry[d].count
             /\ base[d].generation = entry[d].generation
             /\ d # e => base[d] = entry[d]
             /\ d = e => base[d].state = "closing"
    BY <1>0, <2>1, ClosedEntries
  <2>5. /\ entry' \in Seq(Entries) /\ DOMAIN entry' = DOMAIN entry \cup {n}
        /\ n \notin DOMAIN entry /\ n \in Nat /\ entry'[n] = r
        /\ \A i \in DOMAIN entry : entry'[i] = base[i]
    <3>1. /\ base \in Seq(Entries) /\ r \in Entries /\ n = Len(base) + 1
          /\ entry' = Append(base, r) /\ DOMAIN base = DOMAIN entry
      BY <1>0, <2>2, <2>3, <2>4
    <3> QED BY <3>1, OneMore
  <2>6. /\ IsFiniteSet(listed') /\ Cardinality(listed') \in Nat /\ Cardinality(listed) \in Nat
        /\ Cardinality(listed) <= Cardinality(listed')
    <3>1. /\ IsFiniteSet(listed \ {e}) /\ Cardinality(listed) \in Nat
          /\ Cardinality(listed \ {e}) \in Nat
          /\ Cardinality(listed \ {e}) >= Cardinality(listed) - 1
      <4>1. /\ IsFiniteSet(listed \ {e})
            /\ Cardinality(listed \ {e}) =
                 IF e \in listed THEN Cardinality(listed) - 1 ELSE Cardinality(listed)
        BY <2>1, FS_RemoveElement
      <4>2. Cardinality(listed) \in Nat /\ Cardinality(listed \ {e}) \in Nat
        BY <2>1, <4>1, FS_CardinalityType
      <4> QED BY <4>1, <4>2
    <3>2. /\ IsFiniteSet(listed') /\ Cardinality(listed') = Cardinality(listed \ {e}) + 1
      BY <2>1, <2>2, <2>5, <3>1, FS_AddElement
    <3> QED BY <3>1, <3>2
  <2> DEFINE c == [exec[p] EXCEPT !.pc = "leased", !.session = None, !.entry = n,
                                  !.generation = 1, !.client = FALSE]
  <2>7. /\ exec' = [exec EXCEPT ![p] = c] /\ c \in ExecCalls
        /\ c.pc = "leased" /\ c.key \in Keys /\ c.entry = n /\ c.generation = 1
        /\ exec' \in [Executions -> ExecCalls]
        /\ exec'[p] = c /\ \A q \in Executions \ {p} : exec'[q] = exec[q]
    BY <2>1, <2>2, <2>5, GiveNew
  <2> HIDE DEF c
  <2>8. Backs(p, n)'
    BY <2>3, <2>5, <2>7 DEF Backs, Holds
  <2>9. PoolKept'
    <3>1. ASSUME NEW q \in Executions, q # p PROVE exec[q].pc # "evict"
      BY <1>0, <1>2, <2>1, <3>1, PoolAssumption DEF PoolInv, PoolKept
    <3> QED BY <2>2, <2>7, <3>1 DEF PoolKept
  <2>10. owners' = [k \in Keys |-> [s \in Sessions |->
                      IF owners[k][s] \in gone THEN None ELSE owners[k][s]]]
    BY <1>0, <2>2
  <2>11. \A d \in warming' : entry'[d].generation = 0 /\ entry'[d].state # "ready"
    <3>1. ASSUME NEW d \in warming PROVE entry'[d].generation = 0 /\ entry'[d].state # "ready"
      <4>1. d \in DOMAIN entry /\ entry[d].generation = 0 /\ entry[d].state # "ready"
        BY <2>1, <3>1 DEF PoolInv, Generations
      <4>2. base[d].generation = 0 /\ base[d].state # "ready"
        BY <2>4, <4>1
      <4> QED BY <2>5, <4>1, <4>2
    <3> QED BY <2>2, <3>1
  <2>12. NewLeaseOnly
    BY <2>1, <2>5, <2>7 DEF NewLeaseOnly
  <2>13. \A d \in DOMAIN entry' \ DOMAIN entry :
           entry'[d].count = 0 \/ (entry'[d].count = 1 /\ \E q \in Executions : Backs(q, d)')
    BY <2>3, <2>5, <2>8
  <2>14. live' \in Int /\ live' <= Cardinality(listed')
    BY <2>1, <2>2, <2>6
  <2>15. /\ listed' \subseteq DOMAIN entry' /\ listed \ gone \subseteq listed'
         /\ warming' \subseteq DOMAIN entry'
    BY <1>0, <2>1, <2>2, <2>5
  <2>16. \A d \in DOMAIN entry : /\ entry'[d].key = entry[d].key
                                 /\ entry'[d].count = entry[d].count
                                 /\ entry'[d].generation = entry[d].generation
                                 /\ d \notin gone /\ entry[d].state = "ready" =>
                                      entry'[d].state = "ready"
    BY <1>0, <2>4, <2>5
  <2>17. entry' \in Seq(Entries) /\ DOMAIN entry \subseteq DOMAIN entry'
    BY <2>5
  <2>18. PoolChanges(gone)
    BY <2>6, <2>10, <2>11, <2>13, <2>14, <2>15, <2>16, <2>17 DEF PoolChanges
  <2> QED BY <2>9, <2>12, <2>18, PoolChange
<1> QED BY <1>1, <1>2

(* The executions look on.                                                 *)
LEMMA PoolOnly == ASSUME PoolInv, UNCHANGED <<exec, pool>> PROVE NewLeaseOnly /\ PoolKept'
BY DEF PoolInv, PoolTypeOK, PoolKept, Locked, NewLeaseOnly

LEMMA FewerListed ==
  ASSUME PoolInv, NEW gone, IsFiniteSet(gone)
  PROVE  /\ IsFiniteSet(listed \ gone) /\ Cardinality(gone) \in Nat
         /\ live - Cardinality(gone) \in Int
         /\ live - Cardinality(gone) <= Cardinality(listed \ gone)
<1>1. IsFiniteSet(listed) /\ live \in Int /\ live <= Cardinality(listed)
  BY DEF PoolInv, PoolTypeOK, PoolAgrees
<1>2. /\ IsFiniteSet(listed \ gone)
      /\ Cardinality(listed \ gone) = Cardinality(listed) - Cardinality(listed \cap gone)
  BY <1>1, FS_Difference
<1>3. Cardinality(listed \cap gone) <= Cardinality(gone) /\ IsFiniteSet(listed \cap gone)
  BY FS_Intersection
<1>4. /\ Cardinality(listed) \in Nat /\ Cardinality(gone) \in Nat
      /\ Cardinality(listed \cap gone) \in Nat
  BY <1>1, <1>3, FS_CardinalityType
<1> QED BY <1>1, <1>2, <1>3, <1>4

LEMMA RemovedInv ==
  ASSUME PoolInv, NEW gone, IsFiniteSet(gone), entry' = Closed(gone), Removed(gone),
         UNCHANGED <<pool, exec, warming>>
  PROVE  PoolInv'
<1>1. /\ entry \in Seq(Entries) /\ listed \subseteq DOMAIN entry /\ warming \subseteq DOMAIN entry
  BY DEF PoolInv, PoolTypeOK
<1>2. /\ listed' = listed \ gone /\ live' = live - Cardinality(gone)
      /\ owners' = [k \in Keys |-> [s \in Sessions |->
                       IF owners[k][s] \in gone THEN None ELSE owners[k][s]]]
  BY DEF Removed
<1>3. /\ entry' \in Seq(Entries) /\ DOMAIN entry' = DOMAIN entry
      /\ \A d \in DOMAIN entry :
           /\ entry'[d].key = entry[d].key
           /\ entry'[d].count = entry[d].count
           /\ entry'[d].generation = entry[d].generation
           /\ d \notin gone => entry'[d] = entry[d]
           /\ d \in gone => entry'[d].state = "closing"
  BY <1>1, ClosedEntries
<1>4. \A d \in DOMAIN entry : /\ entry'[d].key = entry[d].key
                              /\ entry'[d].count = entry[d].count
                              /\ entry'[d].generation = entry[d].generation
                              /\ d \notin gone /\ entry[d].state = "ready" =>
                                    entry'[d].state = "ready"
  BY <1>3
<1>5. ASSUME NEW d \in warming PROVE entry'[d].generation = 0 /\ entry'[d].state # "ready"
  <2>1. d \in DOMAIN entry /\ entry[d].generation = 0 /\ entry[d].state # "ready"
    BY <1>1, <1>5 DEF PoolInv, Generations
  <2> QED BY <1>3, <2>1
<1>6. /\ listed' \subseteq DOMAIN entry' /\ IsFiniteSet(listed') /\ listed \ gone \subseteq listed'
      /\ live' \in Int /\ live' <= Cardinality(listed')
      /\ warming' \subseteq DOMAIN entry'
  BY <1>1, <1>2, <1>3, FewerListed
<1>7. \A d \in warming' : entry'[d].generation = 0 /\ entry'[d].state # "ready"
  BY <1>5
<1>8. entry' \in Seq(Entries) /\ DOMAIN entry \subseteq DOMAIN entry'
  BY <1>3
<1>9. \A d \in DOMAIN entry' \ DOMAIN entry :
        entry'[d].count = 0 \/ (entry'[d].count = 1 /\ \E q \in Executions : Backs(q, d)')
  BY <1>3
<1>10. owners' = [k \in Keys |-> [s \in Sessions |->
                    IF owners[k][s] \in gone THEN None ELSE owners[k][s]]]
  BY <1>2
<1>11. NewLeaseOnly /\ PoolKept'
  BY PoolOnly
<1>12. PoolChanges(gone)
  BY <1>4, <1>6, <1>7, <1>8, <1>9, <1>10 DEF PoolChanges
<1> QED BY <1>11, <1>12, PoolChange

LEMMA IdleTimeoutInv ==
  ASSUME PoolInv, NEW e \in DOMAIN entry, IdleTimeout(e) PROVE PoolInv'
<1>1. CASE Locked(e)
  BY <1>1, BlockInv DEF IdleTimeout
<1>2. CASE ~Locked(e)
  <2>0. /\ entry \in Seq(Entries) /\ entry[e] \in Entries /\ live \in Int
        /\ listed \subseteq DOMAIN entry /\ IsFiniteSet(listed) /\ warming \subseteq DOMAIN entry
        /\ live <= Cardinality(listed) /\ UNCHANGED <<pool, exec, warming>>
    BY <1>2 DEF IdleTimeout, PoolInv, PoolTypeOK, PoolAgrees
  <2>1. CASE entry' = [entry EXCEPT ![e].timer = FALSE] /\ UNCHANGED <<listed, owners, live>>
    <3>0. PICK gone : gone = {}
      OBVIOUS
    <3> DEFINE r == [entry[e] EXCEPT !.timer = FALSE]
    <3>1. /\ r \in Entries /\ r.key = entry[e].key /\ r.count = entry[e].count
          /\ r.generation = entry[e].generation /\ r.state = entry[e].state
      BY <2>0 DEF Entries
    <3>2. entry' = [entry EXCEPT ![e] = r]
      BY <2>1
    <3> HIDE DEF r
    <3>3. /\ entry' \in Seq(Entries) /\ DOMAIN entry' = DOMAIN entry /\ entry'[e] = r
          /\ \A d \in DOMAIN entry \ {e} : entry'[d] = entry[d]
      BY <2>0, <3>1, <3>2
    <3>4. owners' = [k \in Keys |-> [s \in Sessions |->
                      IF owners[k][s] \in gone THEN None ELSE owners[k][s]]]
      BY <2>1, <3>0, NothingForgotten
    <3>5. \A d \in DOMAIN entry : /\ entry'[d].key = entry[d].key
                                  /\ entry'[d].count = entry[d].count
                                  /\ entry'[d].generation = entry[d].generation
                                  /\ entry'[d].state = entry[d].state
      BY <3>1, <3>3
    <3>6. \A d \in warming' : entry'[d].generation = 0 /\ entry'[d].state # "ready"
      BY <2>0, <3>5 DEF PoolInv, Generations
    <3>7. \A d \in DOMAIN entry : /\ entry'[d].key = entry[d].key
                                  /\ entry'[d].count = entry[d].count
                                  /\ entry'[d].generation = entry[d].generation
                                  /\ d \notin gone /\ entry[d].state = "ready" =>
                                      entry'[d].state = "ready"
      BY <3>5
    <3>8. /\ listed' \subseteq DOMAIN entry' /\ IsFiniteSet(listed')
          /\ listed \ gone \subseteq listed'
          /\ live' \in Int /\ live' <= Cardinality(listed') /\ warming' \subseteq DOMAIN entry'
          /\ entry' \in Seq(Entries) /\ DOMAIN entry \subseteq DOMAIN entry'
      BY <2>0, <2>1, <3>3
    <3>9. \A d \in DOMAIN entry' \ DOMAIN entry :
            entry'[d].count = 0 \/ (entry'[d].count = 1 /\ \E q \in Executions : Backs(q, d)')
      BY <3>3
    <3>10. NewLeaseOnly /\ PoolKept'
      BY <2>0, PoolOnly
    <3>11. PoolChanges(gone)
      BY <3>4, <3>6, <3>7, <3>8, <3>9 DEF PoolChanges
    <3> QED BY <3>10, <3>11, PoolChange
  <2>2. CASE entry' = Closed({e}) /\ Removed({e})
    BY <2>0, <2>2, FS_Singleton, RemovedInv
  <2> QED BY <1>2, <2>1, <2>2 DEF IdleTimeout
<1> QED BY <1>1, <1>2

LEMMA HealthCheckInv == ASSUME PoolInv, HealthCheck PROVE PoolInv'
<1>1. CASE \E e \in listed : Locked(e)
  BY <1>1, BlockInv DEF HealthCheck
<1>2. CASE ~ \E e \in listed : Locked(e)
  <2>1. PICK dead \in SUBSET listed : entry' = Closed(dead) /\ Removed(dead)
    BY <1>2 DEF HealthCheck
  <2>2. IsFiniteSet(dead)
    BY <2>1, FS_Subset DEF PoolInv, PoolTypeOK
  <2>3. UNCHANGED <<pool, exec, warming>>
    BY <1>2 DEF HealthCheck
  <2> QED BY <2>1, <2>2, <2>3, RemovedInv
<1> QED BY <1>1, <1>2

LEMMA StartWarmupInv == ASSUME PoolInv, NEW key \in Keys, StartWarmup(key) PROVE PoolInv'
<1>0. PICK n, gone : n = Len(entry) + 1 /\ gone = {}
  OBVIOUS
<1> DEFINE r == New(key, 0)
<1>1. /\ entry \in Seq(Entries) /\ live \in Int
      /\ listed \subseteq DOMAIN entry /\ IsFiniteSet(listed) /\ warming \subseteq DOMAIN entry
      /\ live <= Cardinality(listed)
  BY DEF PoolInv, PoolTypeOK, PoolAgrees
<1>2. /\ entry' = Append(entry, r) /\ listed' = listed \cup {n} /\ live' = live + 1
      /\ warming' = warming \cup {n} /\ UNCHANGED <<owners, pool, exec>>
  BY <1>0 DEF StartWarmup
<1>3. r \in Entries /\ r.count = 0 /\ r.generation = 0 /\ r.state = "initializing"
  BY NewEntry
<1> HIDE DEF r
<1>4. /\ entry' \in Seq(Entries) /\ DOMAIN entry' = DOMAIN entry \cup {n}
      /\ n \notin DOMAIN entry /\ n \in Nat /\ entry'[n] = r
      /\ \A i \in DOMAIN entry : entry'[i] = entry[i]
  BY <1>0, <1>1, <1>2, <1>3, OneMore
<1>5. /\ IsFiniteSet(listed') /\ Cardinality(listed') = Cardinality(listed) + 1
      /\ Cardinality(listed) \in Nat
  BY <1>1, <1>2, <1>4, FS_AddElement, FS_CardinalityType
<1>6. NewLeaseOnly /\ PoolKept'
  BY <1>2, PoolOnly
<1>7. owners' = [k \in Keys |-> [s \in Sessions |->
                   IF owners[k][s] \in gone THEN None ELSE owners[k][s]]]
  <2>1. \A k \in Keys, s \in Sessions : owners[k][s] \notin gone \/ owners[k][s] = None
    BY <1>0
  <2>2. owners' = owners
    BY <1>2
  <2> QED BY <2>1, <2>2, NothingForgotten
<1>8. \A d \in warming' : entry'[d].generation = 0 /\ entry'[d].state # "ready"
  <2>1. ASSUME NEW d \in warming PROVE entry'[d].generation = 0 /\ entry'[d].state # "ready"
    BY <1>1, <1>4, <2>1 DEF PoolInv, Generations
  <2>2. r.generation = 0 /\ r.state # "ready"
    BY <1>3
  <2> QED BY <1>2, <1>4, <2>1, <2>2
<1>9. /\ live' \in Int /\ live' <= Cardinality(listed')
      /\ listed' \subseteq DOMAIN entry' /\ listed \ gone \subseteq listed'
      /\ warming' \subseteq DOMAIN entry'
  BY <1>1, <1>2, <1>4, <1>5
<1>10. \A d \in DOMAIN entry :
         /\ entry'[d].key = entry[d].key
         /\ entry'[d].count = entry[d].count
         /\ entry'[d].generation = entry[d].generation
         /\ d \notin gone /\ entry[d].state = "ready" => entry'[d].state = "ready"
  BY <1>4
<1>11. \A d \in DOMAIN entry' \ DOMAIN entry :
         entry'[d].count = 0 \/ (entry'[d].count = 1 /\ \E q \in Executions : Backs(q, d)')
  BY <1>3, <1>4
<1>12. entry' \in Seq(Entries) /\ DOMAIN entry \subseteq DOMAIN entry' /\ IsFiniteSet(listed')
  BY <1>4, <1>5
<1>13. PoolChanges(gone)
  BY <1>7, <1>8, <1>9, <1>10, <1>11, <1>12 DEF PoolChanges
<1> QED BY <1>6, <1>13, PoolChange

LEMMA WarmedUpInv == ASSUME PoolInv, NEW e \in warming, WarmedUp(e) PROVE PoolInv'
<1>0. PICK gone : gone = {}
  OBVIOUS
<1> DEFINE r == [entry[e] EXCEPT !.client = TRUE, !.state = "ready"]
<1>1. /\ entry \in Seq(Entries) /\ entry[e] \in Entries /\ e \in DOMAIN entry /\ live \in Int
      /\ listed \subseteq DOMAIN entry /\ IsFiniteSet(listed) /\ warming \subseteq DOMAIN entry
      /\ live <= Cardinality(listed)
  BY DEF PoolInv, PoolTypeOK, PoolAgrees
<1>2. /\ entry' = [entry EXCEPT ![e] = r] /\ warming' = warming \ {e}
      /\ UNCHANGED <<listed, owners, live, pool, exec>>
  BY DEF WarmedUp
<1>3. /\ r \in Entries /\ r.key = entry[e].key /\ r.count = entry[e].count
      /\ r.generation = entry[e].generation /\ r.state = "ready"
  BY <1>1 DEF Entries
<1> HIDE DEF r
<1>4. /\ entry' \in Seq(Entries) /\ DOMAIN entry' = DOMAIN entry /\ entry'[e] = r
      /\ \A d \in DOMAIN entry \ {e} : entry'[d] = entry[d]
  BY <1>1, <1>2, <1>3
<1>5. NewLeaseOnly /\ PoolKept'
  BY <1>2, PoolOnly
<1>6. owners' = [k \in Keys |-> [s \in Sessions |->
                   IF owners[k][s] \in gone THEN None ELSE owners[k][s]]]
  BY <1>0, <1>2, NothingForgotten
<1>7. \A d \in warming' : entry'[d].generation = 0 /\ entry'[d].state # "ready"
  BY <1>1, <1>2, <1>4 DEF PoolInv, Generations
<1>8. /\ live' \in Int /\ live' <= Cardinality(listed')
      /\ listed' \subseteq DOMAIN entry' /\ IsFiniteSet(listed') /\ listed \ gone \subseteq listed'
      /\ warming' \subseteq DOMAIN entry'
  BY <1>1, <1>2, <1>4
<1>9. \A d \in DOMAIN entry :
        /\ entry'[d].key = entry[d].key
        /\ entry'[d].count = entry[d].count
        /\ entry'[d].generation = entry[d].generation
        /\ d \notin gone /\ entry[d].state = "ready" => entry'[d].state = "ready"
  BY <1>3, <1>4
<1>10. PoolChanges(gone)
  BY <1>4, <1>6, <1>7, <1>8, <1>9 DEF PoolChanges
<1> QED BY <1>5, <1>10, PoolChange

(* What is being warmed up is not ready, so no session is lost with it.    *)
LEMMA WarmupFailedInv == ASSUME PoolInv, NEW e \in warming, WarmupFailed(e) PROVE PoolInv'
<1>0. PICK gone : gone = {e}
  OBVIOUS
<1>1. /\ entry \in Seq(Entries) /\ live \in Int
      /\ listed \subseteq DOMAIN entry /\ IsFiniteSet(listed) /\ warming \subseteq DOMAIN entry
      /\ live <= Cardinality(listed)
  BY DEF PoolInv, PoolTypeOK, PoolAgrees
<1>2. /\ listed' = listed \ {e} /\ live' = live - 1 /\ warming' = warming \ {e}
      /\ UNCHANGED <<entry, owners, pool, exec>>
  BY DEF WarmupFailed
<1>3. NewLeaseOnly /\ PoolKept'
  BY <1>2, PoolOnly
<1>4. entry[e].state # "ready"
  BY DEF PoolInv, Generations
<1>5. owners' = [k \in Keys |-> [s \in Sessions |->
                   IF owners[k][s] \in gone THEN None ELSE owners[k][s]]]
  <2>1. \A k \in Keys, s \in Sessions : owners[k][s] \notin gone \/ owners[k][s] = None
    BY <1>0, <1>4 DEF PoolInv, PoolAgrees
  <2> QED BY <1>2, <2>1, NothingForgotten
<1>6. live' \in Int /\ live' <= Cardinality(listed') /\ IsFiniteSet(listed')
  <2>1. IsFiniteSet({e}) /\ Cardinality({e}) = 1
    BY FS_Singleton
  <2> QED BY <1>2, <2>1, FewerListed
<1>7. \A d \in warming' : entry'[d].generation = 0 /\ entry'[d].state # "ready"
  BY <1>2 DEF PoolInv, Generations
<1>8. /\ listed' \subseteq DOMAIN entry' /\ listed \ gone \subseteq listed'
      /\ warming' \subseteq DOMAIN entry'
  BY <1>0, <1>1, <1>2
<1>9. PoolChanges(gone)
  BY <1>1, <1>2, <1>5, <1>6, <1>7, <1>8 DEF PoolChanges
<1> QED BY <1>3, <1>9, PoolChange

LEMMA RememberSessionInv ==
  ASSUME PoolInv, NEW p \in Executions, NEW s \in Sessions, RememberSession(p, s)
  PROVE  PoolInv'
<1>0. PICK tries, e :
        /\ tries = {d \in Ids(exec[p].key) : Locked(d) \/ entry[d].generation = exec[p].generation}
        /\ e = Min(tries)
  OBVIOUS
<1>1. /\ exec[p].pc = "leased" /\ pool = "free" /\ exec[p] \in ExecCalls
      /\ exec[p].key \in Keys /\ exec[p].entry \in DOMAIN entry /\ exec[p].generation > 0
      /\ listed \subseteq DOMAIN entry /\ DOMAIN entry \subseteq Nat
      /\ owners \in [Keys -> [Sessions -> Nat]]
  BY DEF RememberSession, PoolInv, PoolTypeOK, CallsKnow, Generations, Holds, InHand
<1>2. tries # {} => e \in tries /\ e \in DOMAIN entry
  <2>1. tries \subseteq Nat /\ tries \subseteq DOMAIN entry
    BY <1>0, <1>1 DEF Ids
  <2> QED BY <1>0, <2>1, MinIsMember
<1>3. CASE tries # {} /\ Locked(e)
  BY <1>0, <1>1, <1>3, BlockInv DEF RememberSession
<1>4. CASE ~(tries # {} /\ Locked(e))
  <2> DEFINE c == [exec[p] EXCEPT !.pc = "remembered"]
  <2>1. /\ To(p, "remembered") /\ UNCHANGED <<listed, live, pool, warming>>
        /\ tries = {} => UNCHANGED <<entry, owners>>
        /\ tries # {} =>
             /\ entry' = [entry EXCEPT ![e].client = exec[p].client, ![e].state = "ready"]
             /\ owners' = [owners EXCEPT ![exec[p].key][s] = e]
    BY <1>0, <1>4 DEF RememberSession
  <2>2. /\ exec' = [exec EXCEPT ![p] = c] /\ c \in ExecCalls
        /\ c.pc = "remembered" /\ c.key = exec[p].key /\ c.entry = exec[p].entry
        /\ c.generation = exec[p].generation
    BY <2>1, Moved DEF CallPoints, InHand
  <2>3. exec'[p] = c /\ \A q \in Executions \ {p} : exec'[q] = exec[q]
    BY <2>2 DEF PoolInv, PoolTypeOK
  <2> HIDE DEF c
  <2>4. PoolKept'
    BY <1>1, <2>1, <2>2, KeptStep
  <2>5. /\ c.pc # "writeoff" /\ c.pc # "lookup" /\ c.pc \notin {"count", "create"}
        /\ c.key \in Keys /\ c.entry \in DOMAIN entry /\ c.generation > 0
    BY <1>1, <2>2
  <2>6. CASE tries = {}
    <3>1. \A d \in DOMAIN entry : Backs(p, d) => Backs(p, d)'
      BY <1>1, <2>1, <2>2, <2>3, <2>6 DEF Backs, Holds
    <3> QED BY <2>1, <2>2, <2>4, <2>5, <2>6, <3>1, CallStep
  <2>7. CASE tries # {}
    <3> DEFINE r == [entry[e] EXCEPT !.client = exec[p].client, !.state = "ready"]
    <3>1. /\ e \in DOMAIN entry /\ entry[e] \in Entries /\ e \in Ids(exec[p].key)
          /\ entry[e].generation = exec[p].generation /\ ~Locked(e)
          /\ exec[p].client \in BOOLEAN
      BY <1>0, <1>1, <1>2, <1>4, <2>7 DEF PoolInv, PoolTypeOK, ExecCalls
    <3>2. entry' = [entry EXCEPT ![e] = r] /\ owners' = [owners EXCEPT ![exec[p].key][s] = e]
      BY <2>1, <2>7
    <3>3. /\ r \in Entries /\ r.key = entry[e].key /\ r.count = entry[e].count
          /\ r.generation = entry[e].generation /\ r.state = "ready"
          /\ r.generation \in Nat
      BY <3>1 DEF Entries
    <3> HIDE DEF r
    <3>4. /\ DOMAIN entry' = DOMAIN entry /\ entry'[e] = r
          /\ \A d \in DOMAIN entry \ {e} : entry'[d] = entry[d]
      BY <3>1, <3>2 DEF PoolInv, PoolTypeOK
    <3>5. owners' \in [Keys -> [Sessions -> Nat]]
      BY <1>1, <3>1, <3>2
    <3>6. \A k \in Keys, t \in Sessions : owners'[k][t] # owners[k][t] =>
            owners'[k][t] = e /\ r.state = "ready" /\ e \in Ids(k)
      BY <1>1, <3>1, <3>2, <3>3
    <3>7. e \notin warming
      BY <1>1, <3>1 DEF PoolInv, Generations
    <3>8. \A q \in Executions, d \in DOMAIN entry : Backs(q, d) => Backs(q, d)'
      <4>1. \A d \in DOMAIN entry : entry'[d].generation = entry[d].generation
        BY <3>3, <3>4
      <4> QED BY <1>1, <2>2, <2>3, <4>1 DEF Backs, Holds
    <3>9. r.key \notin Multiplexing =>
            r.count <= 1 /\ (r.count = 1 => \E q \in Executions : Backs(q, e)')
      BY <3>1, <3>3, <3>8 DEF PoolInv, LeasesBacked
    <3>10. /\ entry[e].generation <= r.generation
           /\ \A d \in DOMAIN entry \ {e} : Backs(p, d) => Backs(p, d)'
      BY <3>3, <3>8
    <3> QED BY <2>1, <2>2, <2>4, <2>5, <3>1, <3>2, <3>3, <3>5, <3>6, <3>7, <3>9, <3>10, EntryStep
  <2> QED BY <2>6, <2>7
<1> QED BY <1>3, <1>4

(* A lease of an earlier generation is none, so it is nobody's count that  *)
(* goes with it.                                                           *)
LEMMA ReleaseInv == ASSUME PoolInv, NEW p \in Executions, Release(p) PROVE PoolInv'
<1>0. PICK e : e = exec[p].entry
  OBVIOUS
<1>1. /\ Holds(p) /\ pool = "free" /\ exec[p].generation > 0 /\ e \in DOMAIN entry
      /\ exec[p].pc # "writeoff" /\ entry[e] \in Entries
      /\ owners \in [Keys -> [Sessions -> Nat]]
  BY <1>0 DEF Release, Holds, PoolInv, PoolTypeOK, CallsKnow, Generations, InHand
<1>2. CASE Locked(e)
  BY <1>0, <1>1, <1>2, BlockInv DEF Release
<1>3. CASE ~Locked(e)
  <2>1. exec' = [exec EXCEPT ![p] = NoCall] /\ UNCHANGED <<listed, owners, live, pool, warming>>
    BY <1>0, <1>3 DEF Release
  <2>2. NoCall \in ExecCalls /\ NoCall.pc = "idle"
    BY DEF NoCall, ExecCalls, CallPoints, None
  <2>3. PoolKept'
    BY <1>1, <2>1, <2>2, KeptStep
  <2>4. CASE entry[e].generation # exec[p].generation
    <3>1. entry' = entry
      BY <1>0, <1>3, <2>4 DEF Release
    <3>2. \A d \in DOMAIN entry : ~Backs(p, d)
      BY <1>0, <1>1, <2>4 DEF Backs, Holds
    <3> QED BY <2>1, <2>2, <2>3, <3>1, <3>2, CallStep DEF InHand
  <2>5. CASE entry[e].generation = exec[p].generation
    <3>1. PICK n : n = IF entry[e].count - 1 < 0 THEN 0 ELSE entry[e].count - 1
      OBVIOUS
    <3>2. PICK timer : timer = (entry[e].timer \/ entry[e].count - 1 <= 0)
      OBVIOUS
    <3> DEFINE r == [entry[e] EXCEPT !.count = n, !.timer = timer]
    <3>3. entry' = [entry EXCEPT ![e] = r]
      <4>1. entry' = [entry EXCEPT ![e].count = IF entry[e].count - 1 < 0 THEN 0
                                                ELSE entry[e].count - 1,
                                   ![e].timer = @ \/ entry[e].count - 1 <= 0]
        BY <1>0, <1>3, <2>5 DEF Release
      <4> QED BY <1>1, <3>1, <3>2, <4>1 DEF PoolInv, PoolTypeOK
    <3>4. n \in Nat /\ timer \in BOOLEAN /\ (entry[e].count <= 1 => n = 0)
          /\ entry[e].generation \in Nat
      <4>1. entry[e].count \in Nat /\ entry[e].generation \in Nat
        BY <1>1 DEF Entries
      <4>2. n \in Nat /\ (entry[e].count <= 1 => n = 0)
        BY <3>1, <4>1
      <4>3. timer \in BOOLEAN
        BY <3>2, Zenon
      <4> QED BY <4>1, <4>2, <4>3
    <3>5. /\ r \in Entries /\ r.key = entry[e].key /\ r.count = n
          /\ r.generation = entry[e].generation /\ r.state = entry[e].state
      BY <1>1, <3>4 DEF Entries
    <3> HIDE DEF r
    <3>6. e \notin warming
      BY <1>1, <2>5 DEF PoolInv, Generations
    <3>7. r.key \notin Multiplexing =>
            r.count <= 1 /\ (r.count = 1 => \E q \in Executions : Backs(q, e)')
      BY <1>1, <3>4, <3>5 DEF PoolInv, LeasesBacked
    <3>8. /\ entry[e].generation <= r.generation
          /\ \A d \in DOMAIN entry \ {e} : ~Backs(p, d)
          /\ \A q \in Executions \ {p} : ~(exec[q].pc = "writeoff" /\ exec[q].entry = e)
      BY <1>0, <1>3, <3>4, <3>5 DEF Backs, Locked
    <3>9. /\ NoCall.pc # "writeoff" /\ NoCall.pc # "lookup" /\ NoCall.pc \notin InHand
          /\ NoCall.pc \notin {"count", "create"} /\ NoCall.pc \notin {"leased", "remembered"}
      BY <2>2 DEF InHand
    <3> QED BY <1>1, <2>1, <2>2, <2>3, <3>3, <3>5, <3>6, <3>7, <3>8, <3>9, EntryStep
  <2> QED BY <2>4, <2>5
<1> QED BY <1>2, <1>3

LEMMA PoolNextInv == PoolInv /\ [PoolNext]_poolVars => PoolInv'
<1> SUFFICES ASSUME PoolInv, [PoolNext]_poolVars PROVE PoolInv'
  OBVIOUS
<1>1. ASSUME NEW p \in Executions, Call(p) PROVE PoolInv'
  BY <1>1, LookUpInv, TryOwnerInv, WriteOffInv, CountHitInv, CreateLeaseInv, SlowPathInv,
     EvictInv DEF Call
<1>2. ASSUME NEW p \in Executions, Initialize(p) \/ Release(p) PROVE PoolInv'
  BY <1>2, InitializeInv, ReleaseInv
<1>3. ASSUME NEW p \in Executions, NEW k \in Keys, NEW s \in Sessions \cup {None},
             Acquire(p, k, s)
      PROVE  PoolInv'
  BY <1>3, AcquireInv
<1>4. ASSUME NEW p \in Executions, NEW s \in Sessions, RememberSession(p, s) PROVE PoolInv'
  BY <1>4, RememberSessionInv
<1>5. ASSUME NEW e \in DOMAIN entry, IdleTimeout(e) PROVE PoolInv'
  BY <1>5, IdleTimeoutInv
<1>6. CASE HealthCheck
  BY <1>6, HealthCheckInv
<1>7. ASSUME NEW k \in Keys, StartWarmup(k) PROVE PoolInv'
  BY <1>7, StartWarmupInv
<1>8. ASSUME NEW e \in warming, WarmedUp(e) \/ WarmupFailed(e) PROVE PoolInv'
  BY <1>8, WarmedUpInv, WarmupFailedInv
<1>9. CASE UNCHANGED poolVars
  BY <1>9 DEF poolVars, PoolInv, PoolTypeOK, CallsKnow, Generations, WrittenOffInUse, PoolKept,
              PoolAgrees, LeasesBacked, Ids, Backs, Holds, Locked
<1> QED BY <1>1, <1>2, <1>3, <1>4, <1>5, <1>6, <1>7, <1>8, <1>9 DEF PoolNext

(* The invariant the facts about the pool rest on holds in every state a   *)
(* pool of any size, with any keys and executions, can be in.              *)
THEOREM PoolInvAlways == PoolSpec => []PoolInv
BY PoolInitInv, PoolNextInv, PTL DEF PoolSpec

(* Every remembered session leads to a ready, listed process of its own    *)
(* key, and the capacity check counts no process that is not in the pool   *)
(* (p.sessionOwners, p.entries and p.metrics.LiveProcessCount).            *)
THEOREM PoolAlwaysAgrees == PoolSpec => []PoolAgrees
<1>1. PoolInv => PoolAgrees
  BY DEF PoolInv
<1> QED BY <1>1, PoolInvAlways, PTL

(* No single-lease process is leased while nobody will give it back, so    *)
(* what is written off as a zombie lease is in use.                        *)
THEOREM LeasesAlwaysBacked == PoolSpec => []LeasesBacked
<1>1. PoolInv => LeasesBacked
  BY DEF PoolInv
<1> QED BY <1>1, PoolInvAlways, PTL

(* The pool's mutex is lost for good only to somebody who waits to write   *)
(* off a lease another execution has.                                      *)
THEOREM OnlyWriteOffsBlock == PoolSpec => [](pool = "blocked" => PoolDeadlocked)
<1>1. PoolInv => (pool = "blocked" => PoolDeadlocked)
  <2> SUFFICES ASSUME PoolInv, pool = "blocked" PROVE PoolDeadlocked
    OBVIOUS
  <2>1. PICK p \in Executions : exec[p].pc = "writeoff"
    BY DEF PoolInv, PoolKept
  <2>2. /\ exec[p].entry \in DOMAIN entry /\ entry[exec[p].entry].key \notin Multiplexing
        /\ entry[exec[p].entry].count = 1
    BY <2>1 DEF PoolInv, CallsKnow, InHand, WrittenOffInUse
  <2>3. PICK q \in Executions : Backs(q, exec[p].entry)
    BY <2>2 DEF PoolInv, LeasesBacked
  <2> QED BY <2>1, <2>3 DEF PoolDeadlocked
<1> QED BY <1>1, PoolInvAlways, PTL

(* What is lost is lost for good, and with it nothing enters or leaves the *)
(* pool any more, nor is any session remembered.                           *)
THEOREM BlockedForGood ==
  PoolSpec => [][pool = "blocked" => UNCHANGED <<pool, listed, owners>>]_poolVars
<1> DEFINE Stuck == pool = "blocked" => UNCHANGED <<pool, listed, owners>>
<1>1. ASSUME PoolInv, PoolNext, pool = "blocked" PROVE UNCHANGED <<pool, listed, owners>>
  <2>1. ASSUME NEW p \in Executions, Evict(p) PROVE UNCHANGED <<pool, listed, owners>>
    <3>1. Locked(exec[p].entry)
      BY <1>1, <2>1, PoolAssumption DEF Evict, PoolInv, PoolKept
    <3> QED BY <1>1, <2>1, <3>1 DEF Evict, Block
  <2>2. ASSUME NEW p \in Executions, Call(p), ~Evict(p)
        PROVE  UNCHANGED <<pool, listed, owners>>
    BY <1>1, <2>2, PoolAssumption
       DEF Call, LookUp, TryOwner, WriteOff, CountHit, CreateLease, SlowPath
  <2>3. ASSUME NEW p \in Executions,
               \/ Initialize(p) \/ Release(p)
               \/ \E k \in Keys, s \in Sessions \cup {None} : Acquire(p, k, s)
               \/ \E s \in Sessions : RememberSession(p, s)
        PROVE  UNCHANGED <<pool, listed, owners>>
    BY <1>1, <2>3 DEF Initialize, Release, Acquire, RememberSession
  <2>4. CASE \/ \E e \in DOMAIN entry : IdleTimeout(e)
             \/ HealthCheck
             \/ \E k \in Keys : StartWarmup(k)
             \/ \E e \in warming : WarmedUp(e) \/ WarmupFailed(e)
    BY <1>1, <2>4 DEF IdleTimeout, HealthCheck, StartWarmup, WarmedUp, WarmupFailed
  <2> QED BY <1>1, <2>1, <2>2, <2>3, <2>4 DEF PoolNext
<1>2. PoolInv /\ [PoolNext]_poolVars => [Stuck]_poolVars
  BY <1>1
<1> QED BY <1>2, PoolInvAlways, PTL DEF PoolSpec

-----------------------------------------------------------------------------
(* One execution over ACP.                                                 *)

Requests == {"initialize", "authenticate", "session", "configure", "prompt"}

Inward  == [kind : {"request", "answer", "notice"}, by : Requests \cup Submitters, q : Nat]
Replies == [kind : {"response"}, by : Requests \cup Submitters, ok : BOOLEAN]
Said    == [kind : {"update", "question"}, by : {"cli"}, q : Nat]

Readings == [at : {"idle", "update", "chunk", "question", "ended"}, of : Nat]
SubmitPoints == {"idle", "refused", "read", "respond", "clear", "resolve", "resolving", "done"}
Submissions  == [at : SubmitPoints, q : Nat, id : Nat]

AcpTypeOK ==
  /\ pc \in {"send", "wait", "cleanup", "drain", "reap", "collect", "leave", "done"}
  /\ call \in 1..5 /\ failed \in BOOLEAN /\ result \in Seq(Nat)
  /\ mode \in [kind : {"elicitation", "notification"}, resume : BOOLEAN]
  /\ replayPhase \in BOOLEAN /\ output \in Seq(Nat)
  /\ pendingElicitation \in Nat /\ registered \in BOOLEAN
  /\ delivered \subseteq Replies /\ closed \in BOOLEAN
  /\ stdin \in Seq(Inward) /\ stdout \in Seq(Said \cup Replies)
  /\ reader \in Readings
  /\ running \in BOOLEAN /\ awaiting \in Nat
  /\ sub \in [Submitters -> Submissions]
  /\ alive \in BOOLEAN /\ serving \in Requests \cup {"none"}
  /\ emitted \in Nat /\ asked \in Nat

IsReply(m)  == m.kind = "response" /\ m.by \in Requests
IsUpdate(m) == m.kind = "update"

(* Where the request the executor waits for can be: on its way to the CLI, *)
(* being worked on, or answered, the answer on its way or delivered.       *)
AskAt   == {i \in DOMAIN stdin : stdin[i].by \in Requests}
ReplyAt == {i \in DOMAIN stdout : IsReply(stdout[i])}
Got     == {r \in delivered : r.by \in Requests}

OneCall ==
  /\ \A i \in AskAt : pc = "wait" /\ stdin[i].by = Here
  /\ serving # "none" => pc = "wait" /\ serving = Here
  /\ \A i \in ReplyAt : pc = "wait" /\ stdout[i].by = Here
  /\ \A r \in Got : pc = "wait" /\ r.by = Here
  /\ \A i, j \in AskAt : i = j
  /\ \A i, j \in ReplyAt : i = j
  /\ \A r, s \in Got : r = s
  /\ AskAt # {} => serving = "none" /\ ReplyAt = {} /\ Got = {}
  /\ serving # "none" => ReplyAt = {} /\ Got = {}
  /\ ReplyAt # {} => Got = {}

(* What is said while a request is worked on has been taken when its       *)
(* answer has.                                                             *)
SaidBeforeReply ==
  /\ \A i \in DOMAIN stdout : IsUpdate(stdout[i]) =>
       serving # "none" \/ \E j \in ReplyAt : j > i
  /\ reader.at = "update" => serving # "none" \/ ReplyAt # {}

(* The replay window is open until session/load has been answered.         *)
ReplayWindow ==
  /\ mode.resume /\ call < 5 => replayPhase
  /\ replayPhase /\ call = 5 => pc = "send"
  /\ \A i \in DOMAIN stdout : IsUpdate(stdout[i]) =>
       \/ stdout[i].q = 0 /\ Here = "session" /\ mode.resume
       \/ stdout[i].q > 0 /\ Here = "prompt"

(* What is on its way continues what has been taken.                       *)
Taken == Len(output) + (IF reader.at = "update" THEN 1 ELSE 0)

Continues ==
  /\ Taken <= emitted
  /\ reader.at = "update" => reader.of = Len(output) + 1
  /\ \A i \in DOMAIN stdout : IsUpdate(stdout[i]) /\ stdout[i].q > 0 =>
       /\ Taken < stdout[i].q /\ stdout[i].q <= emitted
       /\ \A j \in DOMAIN stdout : j > i /\ IsUpdate(stdout[j]) => stdout[j].q > stdout[i].q
  /\ \A n \in Taken+1 .. emitted :
       \E i \in DOMAIN stdout : IsUpdate(stdout[i]) /\ stdout[i].q = n

ResultTaken == pc \in {"leave", "done"} /\ ~failed => result = output

TurnInv == AcpTypeOK /\ OneCall /\ SaidBeforeReply /\ ReplayWindow /\ Continues /\ ResultTaken
             /\ OutputInOrder

-----------------------------------------------------------------------------
(* A submitter whose answer was taken, and one that has sent it.           *)
Matched(s) == sub[s].at \notin {"idle", "refused"}
Sent(s) == sub[s].at \in {"clear", "resolving", "done"}

OfExecutor(m) == m.kind = "request" /\ m.by \in Requests

QuestionAt == {i \in DOMAIN stdout : stdout[i].kind = "question"}
FromUsers  == {stdin[i] : i \in {j \in DOMAIN stdin : ~OfExecutor(stdin[j])}}

(* One question at a time, the next after an answer to the last.           *)
AskedOnce ==
  /\ asked = 0 => open = {}
  /\ asked > 0 => open = {asked} \/ (open = {} /\ \E a \in answers : a.q = asked)

NotMatched == \A s \in Submitters : Matched(s) => sub[s].q # asked

(* A question that has not been shown is the last one, and nobody has      *)
(* answered it.                                                            *)
ShownOnce ==
  /\ \A i \in QuestionAt : stdout[i].q = asked /\ asked > 0 /\ reader.at # "question"
  /\ \A i, j \in QuestionAt : i = j
  /\ reader.at = "question" => reader.of = asked /\ asked > 0
  /\ reader.at = "question" \/ QuestionAt # {} => awaiting = 0 /\ NotMatched

MatchedOnce ==
  /\ awaiting # 0 => awaiting = asked /\ NotMatched
  /\ \A s, t \in Submitters : Matched(s) /\ Matched(t) /\ sub[s].q = sub[t].q => s = t
  /\ \A s \in Submitters : Matched(s) => sub[s].q > 0 /\ sub[s].q <= asked

(* The request an answer is sent to is that of its question, because the   *)
(* next one is not asked before the answer has been sent.                  *)
RequestOfQuestion ==
  /\ mode.kind = "notification" => pendingElicitation = 0
  /\ \/ reader.at = "question" \/ awaiting # 0
     \/ \E s \in Submitters : sub[s].at = "read"
     => pendingElicitation \in {0, asked}
  /\ \A s \in Submitters : sub[s].at \in {"read", "respond", "resolve"} => sub[s].q = asked
  /\ \A s \in Submitters : sub[s].at \in {"respond", "clear"} => sub[s].id = sub[s].q

Genuine(m) == m.by \in Submitters /\ Sent(m.by) /\ m.q = sub[m.by].q

AnswersUnderWay ==
  /\ answers \subseteq [by : Submitters, q : Nat]
  /\ \A m \in FromUsers \cup answers : Genuine(m)

AnswersInv == /\ AcpTypeOK /\ AskedOnce /\ ShownOnce /\ MatchedOnce
              /\ RequestOfQuestion /\ AnswersUnderWay

-----------------------------------------------------------------------------
LEMMA OneTaken ==
  ASSUME NEW S, NEW s \in Seq(S), s # <<>>
  PROVE  /\ Tail(s) \in Seq(S) /\ Head(s) \in S
         /\ 1 \in DOMAIN s /\ Head(s) = s[1]
         /\ \A i \in DOMAIN Tail(s) : i \in Nat \ {0} /\ i + 1 \in DOMAIN s /\ Tail(s)[i] = s[i + 1]
         /\ \A j \in DOMAIN s : /\ j \in Nat \ {0}
                                /\ j # 1 => j - 1 \in DOMAIN Tail(s) /\ Tail(s)[j - 1] = s[j]
OBVIOUS

LEMMA HereIs ==
  ASSUME call \in 1..5
  PROVE  /\ Here \in Requests
         /\ Here = "prompt" <=> call = 5
         /\ Here = "session" <=> call = 3
         /\ Here \in Optional => call \in {2, 4}
BY DEF Here, Calls, Requests, Optional

LEMMA RequestTyped ==
  ASSUME NEW q \in Nat, NEW by \in Requests \cup Submitters
  PROVE  /\ Message("request", by, q) \in Inward /\ Message("answer", by, q) \in Inward
         /\ Message("notice", by, q) \in Inward
BY DEF Message, Inward

LEMMA SentTyped ==
  ASSUME stdin \in Seq(Inward), NEW m \in Inward, stdin' = stdin \/ stdin' = Append(stdin, m)
  PROVE  stdin' \in Seq(Inward)
BY OneMore

LEMMA SaidTyped ==
  ASSUME stdout \in Seq(Said \cup Replies), NEW m \in Said \cup Replies,
         stdout' = stdout \/ stdout' = Append(stdout, m)
  PROVE  stdout' \in Seq(Said \cup Replies)
BY OneMore

LEMMA MovedOn ==
  ASSUME AcpTypeOK, NEW s \in Submitters, NEW at \in SubmitPoints, Goto(s, at)
  PROVE  /\ sub' \in [Submitters -> Submissions]
         /\ sub'[s].at = at /\ sub'[s].q = sub[s].q /\ sub'[s].id = sub[s].id
         /\ \A t \in Submitters \ {s} : sub'[t] = sub[t]
BY DEF AcpTypeOK, Goto, Submissions

LEMMA ProceedTyped ==
  ASSUME AcpTypeOK, NEW ok \in BOOLEAN, Proceed(ok)
  PROVE  /\ pc' \in {"send", "cleanup"} /\ call' \in 1..5
         /\ failed' \in BOOLEAN /\ registered' \in BOOLEAN
<1>1. call \in 1..5 /\ failed \in BOOLEAN /\ registered \in BOOLEAN
  BY DEF AcpTypeOK
<1>2. CASE pc' = "send" /\ call' = call + 1 /\ Here # "prompt" /\ UNCHANGED <<failed, registered>>
  BY <1>1, <1>2, HereIs
<1>3. CASE pc' = "cleanup" /\ failed' = ~ok /\ UNCHANGED call
           /\ registered' = (registered /\ ~ok /\ ~mode.resume)
  <2>1. failed' \in BOOLEAN /\ registered' \in BOOLEAN
    BY <1>3, Zenon
  <2> QED BY <1>1, <1>3, <2>1
<1> QED BY <1>2, <1>3 DEF Proceed

LEMMA AcpInitTyped == Init => AcpTypeOK
<1> SUFFICES ASSUME Init PROVE AcpTypeOK
  OBVIOUS
<1>1. mode \in [kind : {"elicitation", "notification"}, resume : BOOLEAN]
  BY KindsAssumption DEF Init
<1>2. replayPhase \in BOOLEAN
  BY <1>1 DEF Init
<1>3. output \in Seq(Nat) /\ result \in Seq(Nat) /\ stdin \in Seq(Inward)
      /\ stdout \in Seq(Said \cup Replies)
  BY DEF Init
<1>4. reader \in Readings
  BY DEF Init, Idle, Readings
<1>5. sub \in [Submitters -> Submissions]
  BY DEF Init, Submissions, SubmitPoints
<1>6. /\ pc = "send" /\ call = 1 /\ failed = FALSE /\ pendingElicitation = 0 /\ registered = TRUE
      /\ delivered = {} /\ closed = FALSE /\ running = TRUE /\ awaiting = 0 /\ alive = TRUE
      /\ serving = "none" /\ emitted = 0 /\ asked = 0
  BY DEF Init
<1>7. /\ pc \in {"send", "wait", "cleanup", "drain", "reap", "collect", "leave", "done"}
      /\ call \in 1..5 /\ pendingElicitation \in Nat /\ awaiting \in Nat /\ delivered \subseteq Replies
      /\ serving \in Requests \cup {"none"} /\ emitted \in Nat /\ asked \in Nat
  BY <1>6
<1>8. /\ failed \in BOOLEAN /\ registered \in BOOLEAN /\ closed \in BOOLEAN
      /\ running \in BOOLEAN /\ alive \in BOOLEAN
  BY <1>6, Zenon
<1> QED BY <1>1, <1>2, <1>3, <1>4, <1>5, <1>7, <1>8, Zenon DEF AcpTypeOK

LEMMA ExecutorTyped == ASSUME AcpTypeOK, Executor PROVE AcpTypeOK'
<1> USE DEF AcpTypeOK
<1>1. CASE Skip
  BY <1>1, HereIs DEF Skip, session, transport, service, cli
<1>2. CASE EndReplay
  BY <1>2 DEF EndReplay, executor, transport, service, cli
<1>3. CASE Send
  <2>1. /\ UNCHANGED <<result, replayPhase, output, pendingElicitation, delivered, closed, stdout,
                       reader, service, cli, mode>>
        /\ stdin' = stdin \/ stdin' = Append(stdin, Message("request", Here, 0))
    BY <1>3 DEF Send
  <2>2. stdin' \in Seq(Inward)
    <3>1. Message("request", Here, 0) \in Inward
      BY HereIs DEF Message, Inward
    <3> QED BY <2>1, <3>1, SentTyped
  <2>3. /\ pc' \in {"send", "wait", "cleanup"} /\ call' \in 1..5
        /\ failed' \in BOOLEAN /\ registered' \in BOOLEAN
    <3>1. CASE Writable
      BY <1>3, <3>1 DEF Send
    <3>2. CASE ~Writable
      BY <1>3, <3>2, ProceedTyped DEF Send
    <3> QED BY <3>1, <3>2
  <2> QED BY <2>1, <2>2, <2>3 DEF service, cli
<1>4. CASE Return
  <2>1. /\ UNCHANGED <<result, replayPhase, output, pendingElicitation, closed, stdin, stdout,
                       reader, service, cli, mode>>
        /\ delivered' \subseteq delivered
    BY <1>4 DEF Return
  <2>2. PICK r \in delivered : Proceed(r.ok)
    BY <1>4 DEF Return
  <2>3. r.ok \in BOOLEAN
    BY DEF Replies
  <2>4. /\ pc' \in {"send", "cleanup"} /\ call' \in 1..5
        /\ failed' \in BOOLEAN /\ registered' \in BOOLEAN
    BY <2>2, <2>3, ProceedTyped
  <2> QED BY <2>1, <2>4 DEF service, cli
<1>5. CASE CloseTransport
  BY <1>5 DEF CloseTransport, session, service, cli
<1>6. CASE Drain \/ Reap
  BY <1>6 DEF Drain, Reap, session, transport, service, cli
<1>7. CASE Collect
  <2>1. result' \in Seq(Nat)
    BY <1>7 DEF Collect
  <2> QED BY <1>7, <2>1 DEF Collect, session, transport, service, cli
<1>8. CASE Leave
  BY <1>8 DEF Leave, session, transport, cli
<1> QED BY <1>1, <1>2, <1>3, <1>4, <1>5, <1>6, <1>7, <1>8 DEF Executor

LEMMA NextLineTyped ==
  ASSUME AcpTypeOK, NEW kind \in {"update", "question", "response"}, NextLine(kind)
  PROVE  /\ stdout' \in Seq(Said \cup Replies) /\ stdout # <<>>
         /\ 1 \in DOMAIN stdout /\ Head(stdout) = stdout[1] /\ stdout[1].kind = kind
         /\ kind # "response" => Head(stdout) \in Said /\ Head(stdout).q \in Nat
         /\ kind = "response" => Head(stdout) \in Replies
<1>1. stdout \in Seq(Said \cup Replies) /\ stdout # <<>> /\ stdout' = Tail(stdout)
      /\ Head(stdout).kind = kind
  BY DEF AcpTypeOK, NextLine
<1>2. Head(stdout) \in Said \cup Replies /\ stdout' \in Seq(Said \cup Replies)
      /\ 1 \in DOMAIN stdout /\ Head(stdout) = stdout[1]
  BY <1>1, OneTaken
<1> QED BY <1>1, <1>2 DEF Said, Replies

LEMMA ReadLoopTyped == ASSUME AcpTypeOK, ReadLoop PROVE AcpTypeOK'
<1> USE DEF AcpTypeOK
<1>1. CASE TakeUpdate
  <2>1. stdout' \in Seq(Said \cup Replies) /\ Head(stdout).q \in Nat
    BY <1>1, NextLineTyped DEF TakeUpdate
  <2>2. reader' \in Readings
    BY <1>1, <2>1 DEF TakeUpdate, Idle, Readings
  <2> QED BY <1>1, <2>1, <2>2 DEF TakeUpdate, executor, session, service, cli
<1>2. CASE AppendText
  <2>1. reader' \in Readings /\ reader.of \in Nat
    BY <1>2 DEF AppendText, Readings
  <2>2. output' = Append(output, reader.of)
    BY <1>2 DEF AppendText
  <2>3. output' \in Seq(Nat)
    BY <2>1, <2>2
  <2> QED BY <1>2, <2>1, <2>3 DEF AppendText, executor, service, cli
<1>3. CASE BroadcastText
  <2>1. reader' \in Readings
    BY <1>3 DEF BroadcastText, Idle, Readings
  <2> QED BY <1>3, <2>1 DEF BroadcastText, executor, session, service, cli
<1>4. CASE TakeQuestion
  <2>1. stdout' \in Seq(Said \cup Replies) /\ Head(stdout).q \in Nat
    BY <1>4, NextLineTyped DEF TakeQuestion
  <2>2. reader' \in Readings /\ pendingElicitation' \in Nat
    BY <1>4, <2>1 DEF TakeQuestion, Readings
  <2> QED BY <1>4, <2>1, <2>2 DEF TakeQuestion, executor, service, cli
<1>5. CASE BroadcastQuestion
  <2>1. reader' \in Readings /\ awaiting' \in Nat
    BY <1>5 DEF BroadcastQuestion, Idle, Readings
  <2> QED BY <1>5, <2>1 DEF BroadcastQuestion, executor, session, cli
<1>6. CASE TakeResponse
  <2>1. stdout' \in Seq(Said \cup Replies) /\ Head(stdout) \in Replies
    BY <1>6, NextLineTyped DEF TakeResponse
  <2>2. delivered' \subseteq Replies
    BY <1>6, <2>1 DEF TakeResponse
  <2> QED BY <1>6, <2>1, <2>2 DEF TakeResponse, executor, session, service, cli
<1>7. CASE EndOfOutput
  <2>1. reader' \in Readings
    BY <1>7 DEF EndOfOutput, Readings
  <2> QED BY <1>7, <2>1 DEF EndOfOutput, executor, session, service, cli
<1>8. CASE SkipLine
  <2>1. stdout' \in Seq(Said \cup Replies)
    BY <1>8, NextLineTyped DEF SkipLine
  <2> QED BY <1>8, <2>1 DEF SkipLine, executor, session, service, cli
<1> QED BY <1>1, <1>2, <1>3, <1>4, <1>5, <1>6, <1>7, <1>8 DEF ReadLoop

LEMMA SubmitterTyped ==
  ASSUME AcpTypeOK, NEW s \in Submitters, SendToolResult(s) \/ \E q \in Questions : Submit(s, q)
  PROVE  AcpTypeOK'
<1> USE DEF AcpTypeOK
<1>0. sub[s].q \in Nat /\ sub[s].id \in Nat
  BY DEF Submissions
<1>1. CASE ReadPending(s)
  <2>0. PICK at \in SubmitPoints :
          sub' = [sub EXCEPT ![s].id = pendingElicitation, ![s].at = at]
    BY <1>1 DEF ReadPending, SubmitPoints
  <2>1. sub' \in [Submitters -> Submissions]
    BY <2>0 DEF Submissions
  <2> QED BY <1>1, <2>1 DEF ReadPending, executor, session, transport, cli
<1>2. CASE Respond(s)
  <2>1. Message("answer", s, sub[s].id) \in Inward
    BY <1>0, RequestTyped
  <2>2. stdin' \in Seq(Inward)
    BY <1>2, <2>1, SentTyped DEF Respond
  <2>3. sub' \in [Submitters -> Submissions]
    BY <1>2, MovedOn DEF Respond, SubmitPoints
  <2> QED BY <1>2, <2>2, <2>3 DEF Respond, executor, session, cli
<1>3. CASE Clear(s)
  <2>1. sub' \in [Submitters -> Submissions]
    BY <1>3, MovedOn DEF Clear, SubmitPoints
  <2> QED BY <1>3, <2>1 DEF Clear, executor, transport, cli
<1>4. CASE ReplyOverHttp(s)
  <2>1. sub' \in [Submitters -> Submissions]
    BY <1>4, MovedOn DEF ReplyOverHttp, SubmitPoints
  <2> QED BY <1>4, <2>1 DEF ReplyOverHttp, executor, session, transport
<1>5. CASE SendResolve(s)
  <2>1. Message("request", s, sub[s].q) \in Inward
    BY <1>0, RequestTyped
  <2>2. stdin' \in Seq(Inward)
    BY <1>5, <2>1, SentTyped DEF SendResolve
  <2>3. sub' \in [Submitters -> Submissions]
    BY <1>5, MovedOn DEF SendResolve, SubmitPoints
  <2> QED BY <1>5, <2>2, <2>3 DEF SendResolve, executor, session, cli
<1>6. CASE Resolved(s)
  <2>1. Message("notice", s, sub[s].q) \in Inward
    BY <1>0, RequestTyped
  <2>2. stdin' = stdin \/ stdin' = Append(stdin, Message("notice", s, sub[s].q))
    BY <1>6 DEF Resolved
  <2>3. stdin' \in Seq(Inward)
    BY <2>1, <2>2, SentTyped
  <2>4. delivered' \subseteq delivered
    BY <1>6 DEF Resolved
  <2>5. sub' \in [Submitters -> Submissions]
    BY <1>6, MovedOn DEF Resolved, SubmitPoints
  <2> QED BY <1>6, <2>3, <2>4, <2>5 DEF Resolved, executor, session, cli
<1>7. CASE \E q \in Questions : Submit(s, q)
  <2>1. PICK q \in Nat : Submit(s, q)
    BY <1>7 DEF Questions
  <2>2. sub' \in [Submitters -> Submissions] /\ awaiting' \in Nat
    BY <2>1 DEF Submit, Submissions, SubmitPoints
  <2> QED BY <2>1, <2>2 DEF Submit, executor, session, transport, cli
<1> QED BY <1>1, <1>2, <1>3, <1>4, <1>5, <1>6, <1>7 DEF SendToolResult

LEMMA NextMessageTyped ==
  ASSUME AcpTypeOK, NEW kind, NextMessage(kind)
  PROVE  /\ stdin' \in Seq(Inward) /\ Head(stdin) \in Inward /\ stdin # <<>>
         /\ stdin' = Tail(stdin) /\ Head(stdin).kind = kind
         /\ 1 \in DOMAIN stdin /\ Head(stdin) = stdin[1]
BY OneTaken DEF AcpTypeOK, NextMessage

LEMMA CliTyped == ASSUME AcpTypeOK, Cli PROVE AcpTypeOK'
<1> USE DEF AcpTypeOK
<1>1. CASE CliServe
  <2>1. stdin' \in Seq(Inward) /\ Head(stdin).by \in Requests
    BY <1>1, NextMessageTyped DEF CliServe, Inward
  <2> QED BY <1>1, <2>1 DEF CliServe, executor, session, service
<1>2. ASSUME stdout' = Append(stdout, Message("update", "cli", 0))
             \/ stdout' = Append(stdout, Message("update", "cli", emitted + 1))
             \/ stdout' = Append(stdout, Message("question", "cli", asked + 1))
      PROVE  stdout' \in Seq(Said \cup Replies)
  <2>1. Message("update", "cli", 0) \in Said /\ Message("update", "cli", emitted + 1) \in Said
        /\ Message("question", "cli", asked + 1) \in Said
    BY DEF Message, Said
  <2> QED BY <1>2, <2>1, SaidTyped
<1>3. CASE CliReplay
  BY <1>2, <1>3 DEF CliReplay, Say, executor, session, service
<1>4. CASE CliUpdate
  BY <1>2, <1>4 DEF CliUpdate, Say, executor, session, service
<1>5. CASE CliAsk
  BY <1>2, <1>5 DEF CliAsk, Say, executor, session, service
<1>6. CASE CliReply
  <2>1. PICK ok \in BOOLEAN : stdout' = Append(stdout, Response(serving, ok))
    BY <1>6 DEF CliReply, Say
  <2>2. Response(serving, ok) \in Replies
    BY <1>6 DEF CliReply, Response, Replies
  <2>3. stdout' \in Seq(Said \cup Replies)
    BY <2>1, <2>2
  <2> QED BY <1>6, <2>3 DEF CliReply, executor, session, service
<1>7. CASE CliTakeAnswer
  BY <1>7, NextMessageTyped DEF CliTakeAnswer, executor, session, service
<1>8. CASE CliResolve
  <2>1. stdin' \in Seq(Inward) /\ Head(stdin).by \in Submitters
    BY <1>8, NextMessageTyped DEF CliResolve
  <2>2. \/ stdout' = stdout \/ stdout' = Append(stdout, Response(Head(stdin).by, TRUE))
        \/ stdout' = Append(stdout, Response(Head(stdin).by, FALSE))
    BY <1>8 DEF CliResolve, Say
  <2>3. \A ok \in BOOLEAN : Response(Head(stdin).by, ok) \in Replies
    BY <2>1 DEF Response, Replies
  <2>4. stdout' \in Seq(Said \cup Replies)
    BY <2>2, <2>3, SaidTyped
  <2> QED BY <1>8, <2>1, <2>4 DEF CliResolve, executor, session, service
<1>9. CASE CliNotice
  BY <1>9, NextMessageTyped DEF CliNotice, executor, session, service
<1> QED BY <1>1, <1>3, <1>4, <1>5, <1>6, <1>7, <1>8, <1>9 DEF Cli

LEMMA AcpNextTyped == AcpTypeOK /\ [Next]_vars => AcpTypeOK'
<1> SUFFICES ASSUME AcpTypeOK, [Next]_vars PROVE AcpTypeOK'
  OBVIOUS
<1>1. CASE CliAskUnknown
  BY <1>1 DEF AcpTypeOK, CliAskUnknown, executor, session, transport, service
<1>3. CASE CliDies
  BY <1>3 DEF AcpTypeOK, CliDies, executor, session, transport, service
<1>4. CASE CancelAgent
  <2>1. alive' \in BOOLEAN /\ running' \in BOOLEAN
    BY <1>4 DEF AcpTypeOK, CancelAgent
  <2> QED BY <1>4, <2>1 DEF AcpTypeOK, CancelAgent, executor, session, transport
<1>2. CASE UNCHANGED vars
  BY <1>2 DEF AcpTypeOK, vars, executor, session, transport, service, cli
<1> QED BY <1>1, <1>2, <1>3, <1>4, ExecutorTyped, ReadLoopTyped, CliTyped, SubmitterTyped DEF Next

-----------------------------------------------------------------------------
LEMMA TurnInit == Init => TurnInv
<1> SUFFICES ASSUME Init PROVE TurnInv
  OBVIOUS
<1>1. /\ AcpTypeOK /\ stdin = <<>> /\ stdout = <<>> /\ delivered = {} /\ serving = "none"
      /\ output = <<>> /\ emitted = 0 /\ reader.at = "idle" /\ pc = "send" /\ call = 1
      /\ mode.resume => replayPhase
  BY AcpInitTyped DEF Init, Idle
<1>2. AskAt = {} /\ ReplyAt = {} /\ Got = {}
  BY <1>1 DEF AskAt, ReplyAt, Got
<1>3. OneCall
  BY <1>1, <1>2 DEF OneCall
<1>4. SaidBeforeReply /\ ReplayWindow /\ ResultTaken /\ OutputInOrder
  BY <1>1 DEF SaidBeforeReply, ReplayWindow, ResultTaken, OutputInOrder
<1>5. Continues
  BY <1>1 DEF Continues, Taken
<1> QED BY <1>1, <1>3, <1>4, <1>5 DEF TurnInv

(* Between two requests nothing is under way.                              *)
LEMMA Quiet ==
  ASSUME TurnInv, serving = "none", ReplyAt = {}
  PROVE  /\ \A i \in DOMAIN stdout : ~IsUpdate(stdout[i])
         /\ reader.at # "update" /\ Len(output) = emitted
<1>1. (\A i \in DOMAIN stdout : ~IsUpdate(stdout[i])) /\ reader.at # "update"
  BY DEF TurnInv, SaidBeforeReply
<1>2. emitted \in Nat /\ Len(output) \in Nat
  BY DEF TurnInv, AcpTypeOK
<1>3. Taken = Len(output) /\ Len(output) <= emitted
  BY <1>1 DEF TurnInv, Continues, Taken
<1>4. ~(Len(output) < emitted)
  BY <1>1, <1>2, <1>3 DEF TurnInv, Continues
<1> QED BY <1>1, <1>2, <1>3, <1>4

LEMMA NotWaiting ==
  ASSUME TurnInv, pc # "wait" PROVE AskAt = {} /\ ReplyAt = {} /\ Got = {} /\ serving = "none"
BY DEF TurnInv, OneCall

LEMMA QuietStep ==
  ASSUME TurnInv, pc # "wait", AcpTypeOK',
         UNCHANGED <<stdin, stdout, delivered, serving, output, emitted, reader, mode>>,
         mode.resume /\ call' < 5 => replayPhase', replayPhase' /\ call' = 5 => pc' = "send",
         ResultTaken'
  PROVE  TurnInv'
<1>1. AskAt = {} /\ ReplyAt = {} /\ Got = {} /\ serving = "none"
  BY NotWaiting
<1>2. (\A i \in DOMAIN stdout : ~IsUpdate(stdout[i])) /\ reader.at # "update"
  BY <1>1, Quiet
<1>3. AskAt' = {} /\ ReplyAt' = {} /\ Got' = {}
  BY <1>1 DEF AskAt, ReplyAt, Got
<1>4. OneCall'
  BY <1>1, <1>3 DEF OneCall
<1>5. SaidBeforeReply' /\ ReplayWindow'
  BY <1>2 DEF SaidBeforeReply, ReplayWindow
<1>6. Continues' /\ OutputInOrder'
  BY DEF TurnInv, Continues, Taken, OutputInOrder
<1> QED BY <1>4, <1>5, <1>6 DEF TurnInv

LEMMA ExecutorTurn == ASSUME TurnInv, Executor, AcpTypeOK' PROVE TurnInv'
<1>0. AcpTypeOK /\ call \in 1..5
  BY DEF TurnInv, AcpTypeOK
<1>1. CASE Skip
  <2>1. call \in {2, 4} /\ call' = call + 1 /\ pc = "send" /\ pc' = pc
    BY <1>0, <1>1, HereIs DEF Skip
  <2>2. UNCHANGED <<stdin, stdout, delivered, serving, output, emitted, reader, mode, replayPhase>>
    BY <1>1 DEF Skip, session, transport, cli
  <2> QED BY <2>1, <2>2, QuietStep DEF TurnInv, ReplayWindow, ResultTaken
<1>2. CASE EndReplay
  <2>1. call = 5 /\ call' = 5 /\ pc = "send" /\ pc' = pc /\ replayPhase' = FALSE
    BY <1>0, <1>2, HereIs DEF EndReplay, executor
  <2>2. UNCHANGED <<stdin, stdout, delivered, serving, output, emitted, reader, mode>>
    BY <1>2 DEF EndReplay, transport, cli
  <2> QED BY <2>1, <2>2, QuietStep DEF ResultTaken
<1>3. CASE Send
  <2>1. /\ pc = "send" /\ (call = 5 => ~replayPhase)
        /\ UNCHANGED <<replayPhase, output, delivered, stdout, reader, serving, emitted, mode>>
    BY <1>0, <1>3, HereIs DEF Send, cli
  <2>2. CASE ~Writable
    <3>1. Proceed(FALSE) /\ stdin' = stdin
      BY <1>3, <2>2 DEF Send
    <3>2. pc' \in {"send", "cleanup"} /\ ((call' = call + 1 /\ pc' = "send") \/ call' = call)
      BY <3>1 DEF Proceed
    <3> QED BY <1>0, <2>1, <3>1, <3>2, QuietStep DEF TurnInv, ReplayWindow, ResultTaken
  <2>3. CASE Writable
    <3> DEFINE m == Message("request", Here, 0)
    <3>1. stdin' = Append(stdin, m) /\ pc' = "wait" /\ call' = call /\ failed' = failed
      BY <1>3, <2>3 DEF Send
    <3>2. m.by = Here /\ Here \in Requests /\ m \in Inward /\ Here' = Here
      BY <1>0, <3>1, HereIs DEF Message, Inward, Here
    <3> HIDE DEF m
    <3>3. AskAt = {} /\ ReplyAt = {} /\ Got = {} /\ serving = "none"
      BY <2>1, NotWaiting
    <3>4. /\ DOMAIN stdin' = DOMAIN stdin \cup {Len(stdin) + 1}
          /\ stdin'[Len(stdin) + 1] = m /\ \A i \in DOMAIN stdin : stdin'[i] = stdin[i]
      BY <1>0, <3>1, <3>2, OneMore DEF AcpTypeOK
    <3>5. AskAt' = {Len(stdin) + 1} /\ ReplyAt' = {} /\ Got' = {}
      BY <2>1, <3>2, <3>3, <3>4 DEF AskAt, ReplyAt, Got
    <3>6. OneCall'
      BY <2>1, <3>1, <3>2, <3>3, <3>4, <3>5 DEF OneCall
    <3>7. (\A i \in DOMAIN stdout : ~IsUpdate(stdout[i])) /\ reader.at # "update"
      BY <3>3, Quiet
    <3>8. SaidBeforeReply' /\ ReplayWindow'
      BY <2>1, <3>1, <3>7 DEF TurnInv, SaidBeforeReply, ReplayWindow
    <3>9. Continues' /\ OutputInOrder' /\ ResultTaken'
      BY <2>1, <3>1 DEF TurnInv, Continues, Taken, OutputInOrder, ResultTaken
    <3> QED BY <3>6, <3>8, <3>9 DEF TurnInv
  <2> QED BY <2>2, <2>3
<1>4. CASE Return
  <2>1. PICK r \in delivered : r.by = Here /\ delivered' = delivered \ {r} /\ Proceed(r.ok)
    BY <1>4 DEF Return
  <2>2. /\ pc = "wait"
        /\ UNCHANGED <<replayPhase, output, stdin, stdout, reader, serving, emitted, mode>>
    BY <1>4 DEF Return, cli
  <2>3. /\ pc' \in {"send", "cleanup"}
        /\ (call' = call + 1 /\ call # 5 /\ pc' = "send") \/ call' = call
    BY <1>0, <2>1, HereIs DEF Proceed
  <2>4. r \in Got
    BY <1>0, <2>1, HereIs DEF Got
  <2>5. AskAt = {} /\ ReplyAt = {} /\ serving = "none" /\ \A s \in Got : s = r
    BY <2>4 DEF TurnInv, OneCall
  <2>6. AskAt' = {} /\ ReplyAt' = {} /\ Got' = {}
    BY <2>1, <2>2, <2>5 DEF AskAt, ReplyAt, Got
  <2>7. OneCall'
    BY <2>2, <2>5, <2>6 DEF OneCall
  <2>8. (\A i \in DOMAIN stdout : ~IsUpdate(stdout[i])) /\ reader.at # "update"
    BY <2>5, Quiet
  <2>9. SaidBeforeReply'
    BY <2>2, <2>8 DEF SaidBeforeReply
  <2>10. ReplayWindow'
    <3>1. /\ mode.resume /\ call < 5 => replayPhase
          /\ replayPhase => call # 5
      BY <2>2 DEF TurnInv, ReplayWindow
    <3> QED BY <1>0, <2>2, <2>3, <2>8, <3>1 DEF ReplayWindow
  <2>11. Continues' /\ OutputInOrder' /\ ResultTaken'
    BY <2>2, <2>3 DEF TurnInv, Continues, Taken, OutputInOrder, ResultTaken
  <2> QED BY <2>7, <2>9, <2>10, <2>11 DEF TurnInv
<1>5. CASE CloseTransport \/ Drain \/ Reap \/ Collect \/ Leave
  <2>1. /\ pc \in {"cleanup", "drain", "reap", "collect", "leave"}
        /\ pc' \in {"drain", "reap", "collect", "leave", "done"}
        /\ UNCHANGED <<stdin, stdout, delivered, serving, output, emitted, reader, mode, replayPhase,
                       call, failed>>
    BY <1>5 DEF CloseTransport, Drain, Reap, Collect, Leave, session, transport, cli
  <2>2. ResultTaken'
    BY <1>5 DEF CloseTransport, Drain, Reap, Collect, Leave, TurnInv, ResultTaken, session
  <2> QED BY <2>1, <2>2, QuietStep DEF TurnInv, ReplayWindow
<1> QED BY <1>1, <1>2, <1>3, <1>4, <1>5 DEF Executor

(* A step that has nothing to do with the requests of the executor or with *)
(* the text: of those, the pipes hold what they held, c and d places on.   *)
CallsKept(c) ==
  \A i \in AskAt' : i + c \in AskAt /\ stdin'[i] = stdin[i + c]

SaidKept(d) ==
  /\ \A i \in DOMAIN stdout' : IsReply(stdout'[i]) \/ IsUpdate(stdout'[i]) =>
       i + d \in DOMAIN stdout /\ stdout'[i] = stdout[i + d]
  /\ \A i \in DOMAIN stdout : IsReply(stdout[i]) \/ IsUpdate(stdout[i]) =>
       i - d \in DOMAIN stdout' /\ stdout'[i - d] = stdout[i]

LEMMA NeutralStep ==
  ASSUME TurnInv, AcpTypeOK', NEW c \in Nat, NEW d \in Nat, CallsKept(c), SaidKept(d),
         UNCHANGED <<pc, call, failed, result, mode, replayPhase, output, serving, emitted>>,
         Got' \subseteq Got,
         reader' = reader \/ (reader'.at # "update" /\ reader.at # "update")
  PROVE  TurnInv'
<1>0. AcpTypeOK /\ DOMAIN stdin \subseteq Int /\ DOMAIN stdin' \subseteq Int
      /\ DOMAIN stdout \subseteq Int /\ DOMAIN stdout' \subseteq Int
  BY DEF TurnInv, AcpTypeOK
<1>1. Here' = Here
  BY DEF Here
<1>2. \A i \in ReplyAt' : i + d \in ReplyAt /\ stdout'[i] = stdout[i + d]
  BY DEF SaidKept, ReplyAt
<1>3. \A i \in ReplyAt : i - d \in ReplyAt'
  BY DEF SaidKept, ReplyAt
<1>4. OneCall'
  <2>1. \A i, j \in AskAt' : i = j
    <3>1. ASSUME NEW i \in AskAt', NEW j \in AskAt' PROVE i = j
      <4>1. i + c = j + c
        BY DEF CallsKept, TurnInv, OneCall
      <4>2. i \in Int /\ j \in Int
        BY <1>0 DEF AskAt
      <4> QED BY <4>1, <4>2
    <3> QED BY <3>1
  <2>2. \A i, j \in ReplyAt' : i = j
    <3>1. ASSUME NEW i \in ReplyAt', NEW j \in ReplyAt' PROVE i = j
      <4>1. i + d = j + d
        BY <1>2 DEF TurnInv, OneCall
      <4>2. i \in Int /\ j \in Int
        BY <1>0 DEF ReplyAt
      <4> QED BY <4>1, <4>2
    <3> QED BY <3>1
  <2>3. /\ \A i \in AskAt' : pc' = "wait" /\ stdin'[i].by = Here'
        /\ \A i \in ReplyAt' : pc' = "wait" /\ stdout'[i].by = Here'
        /\ \A r \in Got' : pc' = "wait" /\ r.by = Here'
        /\ \A r, s \in Got' : r = s
    BY <1>1, <1>2 DEF CallsKept, TurnInv, OneCall
  <2>4. (AskAt = {} => AskAt' = {}) /\ (ReplyAt = {} => ReplyAt' = {}) /\ (Got = {} => Got' = {})
    BY <1>2 DEF CallsKept
  <2> QED BY <1>1, <2>1, <2>2, <2>3, <2>4 DEF TurnInv, OneCall
<1>5. SaidBeforeReply'
  <2>1. ASSUME NEW i \in DOMAIN stdout', IsUpdate(stdout'[i]), serving = "none"
        PROVE  \E j \in ReplyAt' : j > i
    <3>1. i + d \in DOMAIN stdout /\ IsUpdate(stdout[i + d])
      BY <2>1 DEF SaidKept
    <3>2. PICK j \in ReplyAt : j > i + d
      BY <2>1, <3>1 DEF TurnInv, SaidBeforeReply
    <3>3. j - d \in ReplyAt' /\ j \in Int /\ i \in Int
      BY <1>0, <1>3, <2>1 DEF ReplyAt
    <3> QED BY <3>2, <3>3
  <2>2. reader'.at = "update" => serving # "none" \/ ReplyAt' # {}
    BY <1>3 DEF TurnInv, SaidBeforeReply
  <2> QED BY <2>1, <2>2 DEF SaidBeforeReply
<1>6. ReplayWindow'
  <2>1. ASSUME NEW i \in DOMAIN stdout', IsUpdate(stdout'[i])
        PROVE  \/ stdout'[i].q = 0 /\ Here' = "session" /\ mode'.resume
               \/ stdout'[i].q > 0 /\ Here' = "prompt"
    BY <1>1, <2>1 DEF SaidKept, TurnInv, ReplayWindow
  <2> QED BY <2>1 DEF TurnInv, ReplayWindow
<1>7. Continues'
  <2>1. Taken' = Taken /\ Taken \in Nat /\ emitted \in Nat
    BY <1>0 DEF Taken, AcpTypeOK
  <2>2. ASSUME NEW i \in DOMAIN stdout', IsUpdate(stdout'[i]), stdout'[i].q > 0
        PROVE  /\ Taken < stdout'[i].q /\ stdout'[i].q <= emitted
               /\ \A j \in DOMAIN stdout' : j > i /\ IsUpdate(stdout'[j]) => stdout'[j].q > stdout'[i].q
    <3>1. i + d \in DOMAIN stdout /\ stdout'[i] = stdout[i + d] /\ i \in Int
      BY <1>0, <2>2 DEF SaidKept
    <3>2. ASSUME NEW j \in DOMAIN stdout', j > i, IsUpdate(stdout'[j])
          PROVE  stdout'[j].q > stdout'[i].q
      <4>1. j + d \in DOMAIN stdout /\ stdout'[j] = stdout[j + d] /\ j \in Int
        BY <1>0, <3>2 DEF SaidKept
      <4>2. j + d > i + d
        BY <3>1, <3>2, <4>1
      <4> QED BY <2>2, <3>1, <3>2, <4>1, <4>2 DEF TurnInv, Continues
    <3> QED BY <2>2, <3>1, <3>2 DEF TurnInv, Continues
  <2>3. ASSUME NEW n \in Taken + 1 .. emitted
        PROVE  \E i \in DOMAIN stdout' : IsUpdate(stdout'[i]) /\ stdout'[i].q = n
    <3>1. PICK i \in DOMAIN stdout : IsUpdate(stdout[i]) /\ stdout[i].q = n
      BY <2>3 DEF TurnInv, Continues
    <3> QED BY <3>1 DEF SaidKept
  <2>4. Taken <= emitted /\ (reader'.at = "update" => reader'.of = Len(output) + 1)
    BY DEF TurnInv, Continues
  <2> QED BY <2>1, <2>2, <2>3, <2>4 DEF Continues
<1>8. ResultTaken' /\ OutputInOrder'
  BY DEF TurnInv, ResultTaken, OutputInOrder
<1> QED BY <1>4, <1>5, <1>6, <1>7, <1>8 DEF TurnInv

LEMMA CallsUnsent ==
  ASSUME AcpTypeOK,
         \/ stdin' = stdin \/ (stdin # <<>> /\ stdin' = Tail(stdin))
         \/ \E m \in Inward : m.by \notin Requests /\ stdin' = Append(stdin, m)
  PROVE  \E c \in Nat : CallsKept(c)
<1>0. stdin \in Seq(Inward) /\ DOMAIN stdin \subseteq Nat
  BY DEF AcpTypeOK
<1>1. CASE stdin' = stdin
  <2>1. CallsKept(0)
    BY <1>0, <1>1 DEF CallsKept, AskAt
  <2> QED BY <2>1
<1>2. CASE stdin # <<>> /\ stdin' = Tail(stdin)
  <2>1. \A i \in DOMAIN stdin' : i + 1 \in DOMAIN stdin /\ stdin'[i] = stdin[i + 1]
    BY <1>0, <1>2, OneTaken
  <2>2. CallsKept(1)
    BY <2>1 DEF CallsKept, AskAt
  <2> QED BY <2>2
<1>3. ASSUME NEW m \in Inward, m.by \notin Requests, stdin' = Append(stdin, m)
      PROVE  \E c \in Nat : CallsKept(c)
  <2>1. /\ DOMAIN stdin' = DOMAIN stdin \cup {Len(stdin) + 1} /\ stdin'[Len(stdin) + 1] = m
        /\ \A i \in DOMAIN stdin : stdin'[i] = stdin[i]
    BY <1>0, <1>3, OneMore
  <2>2. CallsKept(0)
    BY <1>0, <1>3, <2>1 DEF CallsKept, AskAt
  <2> QED BY <2>2
<1> QED BY <1>1, <1>2, <1>3

LEMMA TextUnsaid ==
  ASSUME AcpTypeOK,
         \/ stdout' = stdout
         \/ stdout # <<>> /\ stdout' = Tail(stdout) /\ ~IsReply(stdout[1]) /\ ~IsUpdate(stdout[1])
         \/ \E m \in Said \cup Replies :
              ~IsReply(m) /\ ~IsUpdate(m) /\ stdout' = Append(stdout, m)
  PROVE  \E d \in Nat : SaidKept(d)
<1>0. stdout \in Seq(Said \cup Replies) /\ DOMAIN stdout \subseteq Nat
  BY DEF AcpTypeOK
<1>1. CASE stdout' = stdout
  <2>1. SaidKept(0)
    BY <1>0, <1>1 DEF SaidKept
  <2> QED BY <2>1
<1>2. CASE stdout # <<>> /\ stdout' = Tail(stdout) /\ ~IsReply(stdout[1]) /\ ~IsUpdate(stdout[1])
  <2>1. /\ \A i \in DOMAIN stdout' : i + 1 \in DOMAIN stdout /\ stdout'[i] = stdout[i + 1]
        /\ \A j \in DOMAIN stdout : j # 1 => j - 1 \in DOMAIN stdout' /\ stdout'[j - 1] = stdout[j]
    BY <1>0, <1>2, OneTaken
  <2>2. SaidKept(1)
    BY <1>2, <2>1 DEF SaidKept
  <2> QED BY <2>2
<1>3. ASSUME NEW m \in Said \cup Replies, ~IsReply(m), ~IsUpdate(m), stdout' = Append(stdout, m)
      PROVE  \E d \in Nat : SaidKept(d)
  <2>1. /\ DOMAIN stdout' = DOMAIN stdout \cup {Len(stdout) + 1} /\ stdout'[Len(stdout) + 1] = m
        /\ \A i \in DOMAIN stdout : stdout'[i] = stdout[i]
    BY <1>0, <1>3, OneMore
  <2>2. SaidKept(0)
    BY <1>0, <1>3, <2>1 DEF SaidKept
  <2> QED BY <2>2
<1> QED BY <1>1, <1>2, <1>3

LEMMA SubmittersApart == \A s \in Submitters : s \notin Requests /\ s # "none"
BY SubmittersAssumption DEF Requests

LEMMA SubmitterTurn ==
  ASSUME TurnInv, AcpTypeOK', NEW s \in Submitters,
         SendToolResult(s) \/ \E q \in Questions : Submit(s, q)
  PROVE  TurnInv'
<1>1. AcpTypeOK /\ sub[s].q \in Nat /\ sub[s].id \in Nat
  BY DEF TurnInv, AcpTypeOK, Submissions
<1>2. UNCHANGED <<pc, call, failed, result, mode, replayPhase, output, serving, emitted, stdout, reader>>
  BY DEF SendToolResult, ReadPending, Respond, Clear, ReplyOverHttp, SendResolve, Resolved, Submit,
         executor, session, transport, cli
<1>3. delivered' \subseteq delivered
  BY DEF SendToolResult, ReadPending, Respond, Clear, ReplyOverHttp, SendResolve, Resolved, Submit,
         executor, session, transport, cli
<1>4. \/ stdin' = stdin \/ stdin' = Append(stdin, Message("answer", s, sub[s].id))
      \/ stdin' = Append(stdin, Message("request", s, sub[s].q))
      \/ stdin' = Append(stdin, Message("notice", s, sub[s].q))
  BY DEF SendToolResult, ReadPending, Respond, Clear, ReplyOverHttp, SendResolve, Resolved, Submit,
         executor, session, transport, cli
<1>5. \A kind, q : Message(kind, s, q).by \notin Requests
  BY SubmittersApart DEF Message
<1>6. \E c \in Nat : CallsKept(c)
  BY <1>1, <1>4, <1>5, RequestTyped, CallsUnsent
<1>7. \E d \in Nat : SaidKept(d)
  BY <1>1, <1>2, TextUnsaid
<1>8. Got' \subseteq Got
  BY <1>3 DEF Got
<1> QED BY <1>2, <1>6, <1>7, <1>8, NeutralStep

LEMMA TakeUpdateTurn == ASSUME TurnInv, TakeUpdate, AcpTypeOK' PROVE TurnInv'
<1> DEFINE m == stdout[1]
<1>1. /\ AcpTypeOK /\ stdout \in Seq(Said \cup Replies) /\ stdout # <<>> /\ stdout' = Tail(stdout)
      /\ m = Head(stdout) /\ m.kind = "update" /\ m \in Said /\ m.q \in Nat /\ 1 \in DOMAIN stdout
      /\ reader = Idle /\ output \in Seq(Nat) /\ emitted \in Nat
  BY NextLineTyped DEF TurnInv, AcpTypeOK, TakeUpdate, NextLine
<1>2. /\ UNCHANGED <<pc, call, failed, result, replayPhase, output, delivered, stdin, serving, emitted, mode>>
      /\ reader' = IF replayPhase THEN Idle ELSE [at |-> "update", of |-> m.q]
  BY <1>1 DEF TakeUpdate, executor, session, service, cli
<1>3. /\ \A i \in DOMAIN stdout' : i \in Nat \ {0} /\ i + 1 \in DOMAIN stdout /\ stdout'[i] = stdout[i + 1]
      /\ \A j \in DOMAIN stdout : /\ j \in Nat \ {0}
                                  /\ j # 1 => j - 1 \in DOMAIN stdout' /\ stdout'[j - 1] = stdout[j]
  BY <1>1, OneTaken
<1>4. IsUpdate(m) /\ ~IsReply(m) /\ Here' = Here
  BY <1>1, <1>2 DEF IsUpdate, IsReply, Here
<1> HIDE DEF m
<1>5. /\ \A i \in ReplyAt' : i + 1 \in ReplyAt /\ stdout'[i] = stdout[i + 1] /\ i \in Nat
      /\ \A i \in ReplyAt : i - 1 \in ReplyAt' /\ i \in Nat
  <2>1. 1 \notin ReplyAt
    BY <1>4 DEF ReplyAt, m
  <2>2. ASSUME NEW i \in ReplyAt PROVE i - 1 \in ReplyAt' /\ i \in Nat
    BY <1>3, <2>1 DEF ReplyAt
  <2>3. ASSUME NEW i \in ReplyAt' PROVE i + 1 \in ReplyAt /\ stdout'[i] = stdout[i + 1] /\ i \in Nat
    BY <1>3 DEF ReplyAt
  <2> QED BY <2>2, <2>3
<1>6. AskAt' = AskAt /\ Got' = Got
  BY <1>2 DEF AskAt, Got
<1>7. serving # "none" \/ ReplyAt # {}
  BY <1>1, <1>4 DEF TurnInv, SaidBeforeReply, m
<1>8. OneCall'
  <2>1. ASSUME NEW i \in ReplyAt', NEW j \in ReplyAt' PROVE i = j
    <3>1. i + 1 = j + 1
      BY <1>5 DEF TurnInv, OneCall
    <3> QED BY <1>5, <3>1
  <2>2. \A i \in ReplyAt' : pc' = "wait" /\ stdout'[i].by = Here'
    BY <1>2, <1>4, <1>5 DEF TurnInv, OneCall
  <2>3. ReplyAt = {} => ReplyAt' = {}
    BY <1>5
  <2> QED BY <1>2, <1>4, <1>6, <2>1, <2>2, <2>3 DEF TurnInv, OneCall
<1>9. SaidBeforeReply'
  <2>1. ASSUME NEW i \in DOMAIN stdout', IsUpdate(stdout'[i]), serving = "none"
        PROVE  \E j \in ReplyAt' : j > i
    <3>1. PICK j \in ReplyAt : j > i + 1
      BY <1>3, <2>1 DEF TurnInv, SaidBeforeReply
    <3> QED BY <1>3, <1>5, <3>1
  <2>2. serving # "none" \/ ReplyAt' # {}
    BY <1>5, <1>7
  <2> QED BY <1>2, <2>1, <2>2 DEF SaidBeforeReply
<1>10. ReplayWindow'
  BY <1>2, <1>3, <1>4 DEF TurnInv, ReplayWindow
(* What is dropped is of an earlier turn; what is not is the next.         *)
<1>11. \/ replayPhase /\ m.q = 0
       \/ ~replayPhase /\ m.q = Len(output) + 1
  <2>1. \/ m.q = 0 /\ Here = "session" /\ mode.resume
        \/ m.q > 0 /\ Here = "prompt"
    <3>1. 1 \in DOMAIN stdout /\ IsUpdate(stdout[1])
      BY <1>1, <1>4 DEF m
    <3> QED BY <3>1 DEF TurnInv, ReplayWindow, m
  <2>2. call \in 1..5 /\ pc = "wait"
    <3>1. AskAt # {} \/ serving # "none" \/ ReplyAt # {}
      BY <1>7
    <3> QED BY <1>1, <3>1 DEF AcpTypeOK, TurnInv, OneCall
  <2>3. CASE m.q = 0 /\ Here = "session" /\ mode.resume
    BY <2>2, <2>3, HereIs DEF TurnInv, ReplayWindow
  <2>4. CASE m.q > 0 /\ Here = "prompt"
    <3>1. ~replayPhase
      BY <2>2, <2>4, HereIs DEF TurnInv, ReplayWindow
    <3>2. Taken = Len(output) /\ Len(output) \in Nat
      BY <1>1 DEF Taken, Idle
    <3>3. Taken < m.q /\ m.q <= emitted
          /\ \A j \in DOMAIN stdout : j > 1 /\ IsUpdate(stdout[j]) => stdout[j].q > m.q
      BY <1>1, <1>4, <2>4 DEF TurnInv, Continues, m
    <3>4. Len(output) + 1 \in Taken + 1 .. emitted
      BY <1>1, <3>2, <3>3
    <3>5. PICK i \in DOMAIN stdout : IsUpdate(stdout[i]) /\ stdout[i].q = Len(output) + 1
      BY <3>4 DEF TurnInv, Continues
    <3>6. i = 1
      <4>1. m.q >= Len(output) + 1
        BY <1>1, <3>2, <3>3
      <4>2. ~(i > 1)
        <5>1. i > 1 => stdout[i].q > m.q
          BY <3>3, <3>5
        <5> QED BY <1>1, <3>2, <3>5, <4>1, <5>1
      <4>3. i \in Nat \ {0}
        BY <1>3, <3>5
      <4> QED BY <4>2, <4>3
    <3> QED BY <3>1, <3>5, <3>6 DEF m
  <2> QED BY <2>1, <2>3, <2>4
<1>12. Continues'
  <2> DEFINE taken == IF replayPhase THEN Len(output) ELSE Len(output) + 1
  <2>1. /\ Taken' = taken /\ Taken = Len(output) /\ Len(output) \in Nat
        /\ reader'.at = "update" => reader'.of = Len(output) + 1
    BY <1>1, <1>2, <1>11 DEF Taken, Idle
  <2>2. /\ \A j \in DOMAIN stdout : j # 1 /\ IsUpdate(stdout[j]) /\ stdout[j].q > 0 =>
             taken < stdout[j].q /\ stdout[j].q <= emitted
        /\ ~replayPhase => Len(output) + 1 <= emitted
    <3>1. \A j \in DOMAIN stdout : IsUpdate(stdout[j]) /\ stdout[j].q > 0 =>
            Len(output) < stdout[j].q /\ stdout[j].q <= emitted
      BY <2>1 DEF TurnInv, Continues
    <3>2. CASE replayPhase
      BY <3>1, <3>2
    <3>3. CASE ~replayPhase
      <4>1. m.q > 0 /\ m.q = Len(output) + 1
        BY <1>11, <2>1, <3>3
      <4>2. \A j \in DOMAIN stdout : j > 1 /\ IsUpdate(stdout[j]) => stdout[j].q > m.q
        BY <1>1, <1>4, <4>1 DEF TurnInv, Continues, m
      <4>3. Len(output) + 1 <= emitted
        BY <1>1, <1>4, <3>1, <4>1 DEF m
      <4>4. ASSUME NEW j \in DOMAIN stdout, j # 1, IsUpdate(stdout[j]), stdout[j].q > 0
            PROVE  Len(output) + 1 < stdout[j].q /\ stdout[j].q <= emitted
        <5>1. j > 1
          BY <1>3, <4>4
        <5> QED BY <3>1, <4>1, <4>2, <4>4, <5>1
      <4> QED BY <3>3, <4>3, <4>4
    <3> QED BY <3>2, <3>3
  <2>3. taken <= emitted
    BY <1>1, <2>1, <2>2 DEF TurnInv, Continues
  <2> HIDE DEF taken
  <2>4. ASSUME NEW i \in DOMAIN stdout', IsUpdate(stdout'[i]), stdout'[i].q > 0
        PROVE  /\ taken < stdout'[i].q /\ stdout'[i].q <= emitted
               /\ \A j \in DOMAIN stdout' : j > i /\ IsUpdate(stdout'[j]) => stdout'[j].q > stdout'[i].q
    <3>1. i + 1 \in DOMAIN stdout /\ stdout'[i] = stdout[i + 1] /\ i \in Nat /\ i + 1 # 1
      BY <1>3
    <3>2. \A j \in DOMAIN stdout : j > i + 1 /\ IsUpdate(stdout[j]) => stdout[j].q > stdout[i + 1].q
      BY <2>4, <3>1 DEF TurnInv, Continues
    <3>3. \A j \in DOMAIN stdout' : j > i /\ IsUpdate(stdout'[j]) => stdout'[j].q > stdout'[i].q
      BY <1>3, <3>1, <3>2
    <3> QED BY <2>2, <2>4, <3>1, <3>3
  <2>5. ASSUME NEW n \in taken + 1 .. emitted
        PROVE  \E i \in DOMAIN stdout' : IsUpdate(stdout'[i]) /\ stdout'[i].q = n
    <3>1. n \in Taken + 1 .. emitted /\ n # m.q
      BY <1>1, <1>11, <2>1, <2>5 DEF taken
    <3>2. PICK i \in DOMAIN stdout : IsUpdate(stdout[i]) /\ stdout[i].q = n
      BY <3>1 DEF TurnInv, Continues
    <3>3. i # 1
      BY <3>1, <3>2 DEF m
    <3>4. i - 1 \in DOMAIN stdout' /\ stdout'[i - 1] = stdout[i]
      BY <1>3, <3>3
    <3> QED BY <3>2, <3>4
  <2> QED BY <1>2, <2>1, <2>3, <2>4, <2>5 DEF Continues
<1>13. ResultTaken' /\ OutputInOrder'
  BY <1>2 DEF TurnInv, ResultTaken, OutputInOrder
<1> QED BY <1>8, <1>9, <1>10, <1>12, <1>13 DEF TurnInv

LEMMA AppendTextTurn == ASSUME TurnInv, AppendText, AcpTypeOK' PROVE TurnInv'
<1>1. /\ UNCHANGED <<pc, call, failed, result, replayPhase, delivered, stdin, stdout, serving, emitted, mode>>
      /\ output' = Append(output, reader.of) /\ reader.at = "update" /\ reader'.at = "chunk"
      /\ output \in Seq(Nat) /\ reader.of \in Nat
  BY DEF AppendText, executor, service, cli, TurnInv, AcpTypeOK, Readings
<1>2. reader.of = Len(output) + 1
  BY <1>1 DEF TurnInv, Continues
<1>3. /\ DOMAIN output' = DOMAIN output \cup {Len(output) + 1} /\ Len(output') = Len(output) + 1
      /\ output'[Len(output) + 1] = reader.of /\ Len(output) \in Nat
      /\ \A i \in DOMAIN output : output'[i] = output[i]
  BY <1>1
<1>4. OutputInOrder'
  BY <1>2, <1>3 DEF TurnInv, OutputInOrder
<1>5. Taken' = Taken
  BY <1>1, <1>3 DEF Taken
<1>6. Continues'
  BY <1>1, <1>5 DEF TurnInv, Continues
<1>7. Here' = Here /\ AskAt' = AskAt /\ ReplyAt' = ReplyAt /\ Got' = Got
  BY <1>1 DEF Here, AskAt, ReplyAt, Got
<1>8. OneCall' /\ SaidBeforeReply' /\ ReplayWindow'
  BY <1>1, <1>7 DEF TurnInv, OneCall, SaidBeforeReply, ReplayWindow
<1>9. ResultTaken'
  <2>1. pc = "wait"
    BY <1>1 DEF TurnInv, SaidBeforeReply, OneCall
  <2> QED BY <1>1, <2>1 DEF ResultTaken
<1> QED BY <1>4, <1>6, <1>8, <1>9 DEF TurnInv

(* A response taken, or passed over.                                       *)
LEMMA ResponseTurn ==
  ASSUME TurnInv, NextLine("response"), TakeResponse \/ SkipLine, AcpTypeOK'
  PROVE  TurnInv'
<1> DEFINE r == stdout[1]
<1>1. /\ AcpTypeOK /\ stdout \in Seq(Said \cup Replies) /\ stdout # <<>> /\ stdout' = Tail(stdout)
      /\ r = Head(stdout) /\ r.kind = "response" /\ r \in Replies /\ 1 \in DOMAIN stdout
      /\ reader = Idle
  BY NextLineTyped DEF TurnInv, AcpTypeOK, NextLine
<1>2. /\ UNCHANGED <<pc, call, failed, result, replayPhase, output, stdin, serving, emitted, mode, reader>>
      /\ delivered' = delivered \/ delivered' = delivered \cup {r}
  BY <1>1 DEF TakeResponse, SkipLine, executor, session, service, cli
<1>3. ~IsUpdate(r)
  BY <1>1 DEF IsUpdate
<1>4. CASE r.by \notin Requests
  <2>1. ~IsReply(r)
    BY <1>4 DEF IsReply
  <2>2. \E c \in Nat : CallsKept(c)
    BY <1>1, <1>2, CallsUnsent
  <2>3. \E d \in Nat : SaidKept(d)
    BY <1>1, <1>3, <2>1, TextUnsaid
  <2>4. Got' \subseteq Got
    BY <1>2, <1>4 DEF Got
  <2> QED BY <1>2, <2>2, <2>3, <2>4, NeutralStep
<1>5. CASE r.by \in Requests
  <2>1. 1 \in ReplyAt
    BY <1>1, <1>5 DEF ReplyAt, IsReply
  <2>2. AskAt = {} /\ Got = {} /\ serving = "none" /\ pc = "wait" /\ r.by = Here
        /\ \A i \in ReplyAt : i = 1
    BY <2>1 DEF TurnInv, OneCall
  <2> HIDE DEF r
  <2>3. \A i \in DOMAIN stdout' : i \in Nat \ {0} /\ i + 1 \in DOMAIN stdout /\ stdout'[i] = stdout[i + 1]
    BY <1>1, OneTaken
  <2>4. \A i \in DOMAIN stdout : ~IsUpdate(stdout[i])
    <3>1. \A i \in DOMAIN stdout : i \in Nat \ {0}
      BY <1>1
    <3> QED BY <2>2, <3>1 DEF TurnInv, SaidBeforeReply
  <2>5. \A i \in DOMAIN stdout' : ~IsUpdate(stdout'[i])
    BY <2>3, <2>4
  <2>6. ReplyAt' = {}
    <3>1. ASSUME NEW i \in ReplyAt' PROVE FALSE
      <4>1. i \in Nat \ {0} /\ i + 1 \in ReplyAt
        BY <2>3 DEF ReplyAt
      <4> QED BY <2>2, <4>1
    <3> QED BY <3>1
  <2>7. AskAt' = {} /\ \A x \in Got' : x = r
    BY <1>2, <2>2 DEF AskAt, Got
  <2>8. Here' = Here
    BY <1>2 DEF Here
  <2>9. OneCall'
    BY <1>2, <2>2, <2>6, <2>7, <2>8 DEF OneCall
  <2>10. reader'.at # "update"
    BY <1>1, <1>2 DEF Idle
  <2>11. SaidBeforeReply' /\ ReplayWindow'
    BY <1>2, <2>5, <2>10 DEF TurnInv, SaidBeforeReply, ReplayWindow
  <2>12. Continues'
    <3>1. Taken' = Taken
      BY <1>2 DEF Taken
    <3>2. \A n \in Taken + 1 .. emitted : FALSE
      BY <2>4 DEF TurnInv, Continues
    <3> QED BY <1>2, <2>5, <2>10, <3>1, <3>2 DEF TurnInv, Continues
  <2>13. ResultTaken' /\ OutputInOrder'
    BY <1>2 DEF TurnInv, ResultTaken, OutputInOrder
  <2> QED BY <2>9, <2>11, <2>12, <2>13 DEF TurnInv
<1> QED BY <1>4, <1>5

LEMMA ReadLoopTurn == ASSUME TurnInv, ReadLoop, AcpTypeOK' PROVE TurnInv'
<1>0. AcpTypeOK
  BY DEF TurnInv
<1>1. ASSUME \/ BroadcastText \/ BroadcastQuestion \/ EndOfOutput
             \/ TakeQuestion \/ (SkipLine /\ NextLine("question"))
      PROVE  TurnInv'
  <2>0. UNCHANGED <<pc, call, failed, result, replayPhase, output, stdin, serving, emitted, mode, delivered>>
    BY <1>1 DEF BroadcastText, TakeQuestion, BroadcastQuestion, EndOfOutput, SkipLine,
                executor, session, service, cli
  <2>1. reader'.at # "update" /\ reader.at # "update"
    <3>1. CASE BroadcastText \/ BroadcastQuestion
      BY <3>1 DEF BroadcastText, BroadcastQuestion, Idle
    <3>2. CASE TakeQuestion \/ (SkipLine /\ NextLine("question"))
      BY <3>2 DEF TakeQuestion, SkipLine, NextLine, Idle
    <3>3. CASE EndOfOutput
      BY <1>0, <3>3 DEF EndOfOutput, Idle, AcpTypeOK, Readings
    <3> QED BY <1>1, <3>1, <3>2, <3>3
  <2>2. \/ stdout' = stdout
        \/ stdout # <<>> /\ stdout' = Tail(stdout) /\ ~IsReply(stdout[1]) /\ ~IsUpdate(stdout[1])
    <3>1. CASE NextLine("question")
      <4>1. stdout # <<>> /\ stdout' = Tail(stdout) /\ stdout[1].kind = "question"
        BY <1>0, <3>1, NextLineTyped DEF NextLine
      <4> QED BY <4>1 DEF IsReply, IsUpdate
    <3>2. CASE BroadcastText \/ BroadcastQuestion \/ EndOfOutput
      BY <3>2 DEF BroadcastText, BroadcastQuestion, EndOfOutput
    <3> QED BY <1>1, <3>1, <3>2 DEF TakeQuestion
  <2>3. \E c \in Nat : CallsKept(c)
    BY <1>0, <2>0, CallsUnsent
  <2>4. \E d \in Nat : SaidKept(d)
    BY <1>0, <2>2, TextUnsaid
  <2>5. Got' \subseteq Got
    BY <2>0 DEF Got
  <2> QED BY <2>0, <2>1, <2>3, <2>4, <2>5, NeutralStep
<1>2. SkipLine => NextLine("response") \/ NextLine("question")
  BY DEF SkipLine
<1>3. TakeResponse => NextLine("response")
  BY DEF TakeResponse
<1> QED BY <1>1, <1>2, <1>3, TakeUpdateTurn, AppendTextTurn, ResponseTurn DEF ReadLoop

LEMMA CliServeTurn == ASSUME TurnInv, CliServe, AcpTypeOK' PROVE TurnInv'
<1>1. /\ UNCHANGED <<pc, call, failed, result, replayPhase, output, delivered, stdout, reader, emitted, mode>>
      /\ serving = "none" /\ serving' = stdin[1].by /\ stdin[1].by \in Requests
      /\ stdin \in Seq(Inward) /\ stdin # <<>> /\ stdin' = Tail(stdin) /\ 1 \in DOMAIN stdin
  BY NextMessageTyped DEF CliServe, Inward, executor, session, service, TurnInv, AcpTypeOK
<1>2. \A i \in DOMAIN stdin' : i \in Nat \ {0} /\ i + 1 \in DOMAIN stdin /\ stdin'[i] = stdin[i + 1]
  BY <1>1, OneTaken
<1>3. 1 \in AskAt /\ Here' = Here
  BY <1>1 DEF AskAt, Here
<1>4. /\ pc = "wait" /\ stdin[1].by = Here /\ (\A i \in AskAt : i = 1)
      /\ ReplyAt = {} /\ Got = {}
  BY <1>3 DEF TurnInv, OneCall
<1>5. AskAt' = {}
  <2>1. ASSUME NEW i \in AskAt' PROVE FALSE
    <3>1. i \in Nat \ {0} /\ i + 1 \in AskAt
      BY <1>2 DEF AskAt
    <3> QED BY <1>4, <3>1
  <2> QED BY <2>1
<1>6. ReplyAt' = {} /\ Got' = {}
  BY <1>1, <1>4 DEF ReplyAt, Got
<1>7. OneCall'
  BY <1>1, <1>3, <1>4, <1>5, <1>6 DEF OneCall
<1>8. serving' # "none"
  BY <1>1 DEF Requests
<1>9. SaidBeforeReply' /\ ReplayWindow'
  BY <1>1, <1>3, <1>8 DEF TurnInv, SaidBeforeReply, ReplayWindow
<1>10. Continues' /\ ResultTaken' /\ OutputInOrder'
  BY <1>1 DEF TurnInv, Continues, Taken, ResultTaken, OutputInOrder
<1> QED BY <1>7, <1>9, <1>10 DEF TurnInv

(* One more update, of an earlier turn or the next of this one.            *)
LEMMA UpdateTurn ==
  ASSUME TurnInv, AcpTypeOK', NEW q \in Nat, stdout' = Append(stdout, Message("update", "cli", q)),
         serving # "none", emitted' \in {emitted, emitted + 1},
         \/ emitted' = emitted /\ q = 0 /\ Here = "session" /\ mode.resume
         \/ emitted' = emitted + 1 /\ q = emitted + 1 /\ Here = "prompt",
         UNCHANGED <<pc, call, failed, result, replayPhase, output, delivered, stdin, reader, serving, mode>>
  PROVE  TurnInv'
<1>0. PICK m, n : m = Message("update", "cli", q) /\ n = Len(stdout) + 1
  OBVIOUS
<1>1. stdout \in Seq(Said \cup Replies) /\ m \in Said \cup Replies /\ emitted \in Nat /\ Taken \in Nat
  BY <1>0 DEF TurnInv, AcpTypeOK, Message, Said, Taken
<1>2. m.q = q /\ IsUpdate(m) /\ ~IsReply(m)
  BY <1>0 DEF Message, IsUpdate, IsReply
<1>3. /\ DOMAIN stdout' = DOMAIN stdout \cup {n} /\ stdout'[n] = m /\ n \notin DOMAIN stdout
      /\ n \in Nat
      /\ \A i \in DOMAIN stdout : stdout'[i] = stdout[i] /\ i \in Nat /\ i < n
  <2>1. \A i \in DOMAIN stdout : i < n
    BY <1>0, <1>1
  <2> QED BY <1>0, <1>1, <2>1, OneMore
<1>4. ReplyAt' = ReplyAt /\ AskAt' = AskAt /\ Got' = Got /\ Here' = Here /\ Taken' = Taken
  BY <1>2, <1>3 DEF ReplyAt, AskAt, Got, Here, Taken
<1>5. OneCall'
  <2>1. \A i \in ReplyAt : stdout'[i] = stdout[i]
    BY <1>3 DEF ReplyAt
  <2> QED BY <1>4, <2>1 DEF TurnInv, OneCall
<1>6. SaidBeforeReply'
  BY <1>4 DEF SaidBeforeReply, TurnInv
<1>7. ReplayWindow'
  <2>1. ASSUME NEW i \in DOMAIN stdout', IsUpdate(stdout'[i])
        PROVE  \/ stdout'[i].q = 0 /\ Here = "session" /\ mode.resume
               \/ stdout'[i].q > 0 /\ Here = "prompt"
    <3>1. CASE i = n
      BY <1>1, <1>2, <1>3, <3>1
    <3>2. CASE i \in DOMAIN stdout
      BY <1>3, <2>1, <3>2 DEF TurnInv, ReplayWindow
    <3> QED BY <1>3, <3>1, <3>2
  <2> QED BY <1>4, <2>1 DEF TurnInv, ReplayWindow
<1>8. Continues'
  <2>1. /\ Taken <= emitted' /\ emitted <= emitted'
        /\ reader'.at = "update" => reader'.of = Len(output') + 1
    BY <1>1 DEF TurnInv, Continues
  <2>2. q > 0 => Taken < q /\ q <= emitted' /\ q > emitted
    BY <1>1 DEF TurnInv, Continues
  <2>3. ASSUME NEW i \in DOMAIN stdout', IsUpdate(stdout'[i]), stdout'[i].q > 0
        PROVE  /\ Taken < stdout'[i].q /\ stdout'[i].q <= emitted'
               /\ \A j \in DOMAIN stdout' : j > i /\ IsUpdate(stdout'[j]) => stdout'[j].q > stdout'[i].q
    <3>1. CASE i = n
      <4>1. \A j \in DOMAIN stdout' : ~(j > n)
        BY <1>3
      <4> QED BY <1>2, <1>3, <2>2, <2>3, <3>1, <4>1
    <3>2. CASE i \in DOMAIN stdout
      <4>1. /\ Taken < stdout[i].q /\ stdout[i].q <= emitted /\ stdout[i].q \in Nat
            /\ \A j \in DOMAIN stdout : j > i /\ IsUpdate(stdout[j]) => stdout[j].q > stdout[i].q
        <5>1. stdout[i] \in Said
          BY <1>1, <1>3, <2>3, <3>2 DEF IsUpdate, Said, Replies
        <5> QED BY <1>3, <2>3, <3>2, <5>1 DEF TurnInv, Continues, Said
      (* An update of an earlier turn cannot follow one of this.           *)
      <4>2. q > 0
        <5>1. IsUpdate(stdout[i]) /\ stdout[i].q > 0
          BY <1>3, <2>3, <3>2
        <5>2. Here = "prompt"
          BY <3>2, <5>1 DEF TurnInv, ReplayWindow
        <5> QED BY <1>1, <5>2
      <4>3. q > stdout[i].q
        BY <1>1, <2>2, <4>1, <4>2
      <4>4. \A j \in DOMAIN stdout' : j > i /\ IsUpdate(stdout'[j]) => stdout'[j].q > stdout'[i].q
        BY <1>2, <1>3, <3>2, <4>1, <4>3
      <4> QED BY <1>1, <1>3, <2>1, <3>2, <4>1, <4>4
    <3> QED BY <1>3, <3>1, <3>2
  <2>4. ASSUME NEW k \in Taken + 1 .. emitted'
        PROVE  \E i \in DOMAIN stdout' : IsUpdate(stdout'[i]) /\ stdout'[i].q = k
    <3>1. CASE k \in Taken + 1 .. emitted
      <4>1. PICK i \in DOMAIN stdout : IsUpdate(stdout[i]) /\ stdout[i].q = k
        BY <3>1 DEF TurnInv, Continues
      <4> QED BY <1>3, <4>1
    <3>2. CASE k = q
      BY <1>2, <1>3, <3>2
    <3> QED BY <1>1, <3>1, <3>2
  <2> QED BY <1>4, <2>1, <2>3, <2>4 DEF Continues
<1>9. ResultTaken' /\ OutputInOrder'
  BY DEF TurnInv, ResultTaken, OutputInOrder
<1> QED BY <1>5, <1>6, <1>7, <1>8, <1>9 DEF TurnInv

LEMMA CliReplyTurn == ASSUME TurnInv, CliReply, AcpTypeOK' PROVE TurnInv'
<1>1. PICK m, n : /\ n = Len(stdout) + 1 /\ stdout' = Append(stdout, m)
                  /\ m.kind = "response" /\ m.by = serving /\ m \in Replies
  <2>1. PICK ok \in BOOLEAN : stdout' = Append(stdout, Response(serving, ok))
    BY DEF CliReply, Say
  <2>2. serving \in Requests
    BY DEF CliReply, TurnInv, AcpTypeOK
  <2> QED BY <2>1, <2>2 DEF Response, Replies
<1>2. /\ UNCHANGED <<pc, call, failed, result, replayPhase, output, delivered, stdin, reader, emitted, mode>>
      /\ serving \in Requests /\ serving # "none" /\ serving' = "none"
      /\ stdout \in Seq(Said \cup Replies)
  BY DEF CliReply, executor, session, service, TurnInv, AcpTypeOK
<1>3. /\ DOMAIN stdout' = DOMAIN stdout \cup {n} /\ stdout'[n] = m /\ n \in Nat
      /\ \A i \in DOMAIN stdout : stdout'[i] = stdout[i] /\ i < n
  <2>1. \A i \in DOMAIN stdout : i < n
    BY <1>1, <1>2
  <2> QED BY <1>1, <1>2, <2>1, OneMore
<1>4. IsReply(m) /\ ~IsUpdate(m)
  BY <1>1, <1>2 DEF IsReply, IsUpdate
<1>5. AskAt = {} /\ ReplyAt = {} /\ Got = {} /\ pc = "wait" /\ serving = Here
  BY <1>2 DEF TurnInv, OneCall
<1>6. AskAt' = {} /\ ReplyAt' = {n} /\ Got' = {} /\ Here' = Here
  BY <1>2, <1>3, <1>4, <1>5 DEF AskAt, ReplyAt, Got, Here
<1>7. OneCall'
  BY <1>1, <1>2, <1>3, <1>5, <1>6 DEF OneCall
<1>8. SaidBeforeReply' /\ ReplayWindow'
  <2>1. \A i \in DOMAIN stdout' : IsUpdate(stdout'[i]) => i \in DOMAIN stdout /\ stdout'[i] = stdout[i] /\ n > i
    BY <1>3, <1>4
  <2>2. SaidBeforeReply'
    BY <1>6, <2>1 DEF SaidBeforeReply
  <2>3. ReplayWindow'
    BY <1>2, <1>6, <2>1 DEF TurnInv, ReplayWindow
  <2> QED BY <2>2, <2>3
<1>9. Continues'
  <2>1. \A i \in DOMAIN stdout' : IsUpdate(stdout'[i]) => i \in DOMAIN stdout /\ stdout'[i] = stdout[i]
    BY <1>3, <1>4
  <2>2. Taken' = Taken
    BY <1>2 DEF Taken
  <2>3. \A k \in Taken + 1 .. emitted : \E i \in DOMAIN stdout' : IsUpdate(stdout'[i]) /\ stdout'[i].q = k
    <3>1. ASSUME NEW k \in Taken + 1 .. emitted
          PROVE  \E i \in DOMAIN stdout' : IsUpdate(stdout'[i]) /\ stdout'[i].q = k
      <4>1. PICK i \in DOMAIN stdout : IsUpdate(stdout[i]) /\ stdout[i].q = k
        BY DEF TurnInv, Continues
      <4> QED BY <1>3, <4>1
    <3> QED BY <3>1
  <2> QED BY <1>2, <2>1, <2>2, <2>3 DEF TurnInv, Continues
<1>10. ResultTaken' /\ OutputInOrder'
  BY <1>2 DEF TurnInv, ResultTaken, OutputInOrder
<1> QED BY <1>7, <1>8, <1>9, <1>10 DEF TurnInv

LEMMA CliTurn == ASSUME TurnInv, Cli, AcpTypeOK' PROVE TurnInv'
<1>0. AcpTypeOK /\ stdin \in Seq(Inward) /\ emitted \in Nat /\ asked \in Nat
  BY DEF TurnInv, AcpTypeOK
<1>1. CASE CliReplay
  <2>1. /\ serving = Here /\ serving = "session" /\ mode.resume
        /\ stdout' = Append(stdout, Message("update", "cli", 0)) /\ emitted' = emitted
        /\ UNCHANGED <<pc, call, failed, result, replayPhase, output, delivered, stdin, reader, serving, mode>>
    BY <1>1 DEF CliReplay, Say, executor, session, service, TurnInv, OneCall
  <2> QED BY <1>0, <2>1, UpdateTurn
<1>2. CASE CliUpdate
  <2>1. /\ serving = Here /\ serving = "prompt"
        /\ stdout' = Append(stdout, Message("update", "cli", emitted + 1)) /\ emitted' = emitted + 1
        /\ UNCHANGED <<pc, call, failed, result, replayPhase, output, delivered, stdin, reader, serving, mode>>
    BY <1>2 DEF CliUpdate, Say, executor, session, service, TurnInv, OneCall
  <2> QED BY <1>0, <2>1, UpdateTurn
<1>3. CASE CliAsk \/ CliTakeAnswer \/ CliResolve \/ CliNotice
  <2>1. /\ UNCHANGED <<pc, call, failed, result, mode, replayPhase, output, serving, emitted, delivered, reader>>
        /\ stdin' = stdin \/ (stdin # <<>> /\ stdin' = Tail(stdin))
    BY <1>3 DEF CliAsk, CliTakeAnswer, CliResolve, CliNotice, NextMessage, executor, session, service
  <2>2. \/ stdout' = stdout
        \/ \E m \in Said \cup Replies :
             ~IsReply(m) /\ ~IsUpdate(m) /\ stdout' = Append(stdout, m)
    <3>1. CASE CliAsk
      <4> DEFINE m == Message("question", "cli", asked + 1)
      <4>1. m \in Said /\ ~IsReply(m) /\ ~IsUpdate(m)
        BY <1>0 DEF Message, Said, IsReply, IsUpdate
      <4>2. stdout' = Append(stdout, m)
        BY <3>1 DEF CliAsk, Say
      <4> QED BY <4>1, <4>2
    <3>2. CASE CliResolve
      <4>1. Head(stdin).by \in Submitters
        BY <3>2 DEF CliResolve
      <4>2. ASSUME NEW ok \in BOOLEAN
            PROVE  LET m == Response(Head(stdin).by, ok)
                   IN  m \in Said \cup Replies /\ ~IsReply(m) /\ ~IsUpdate(m)
        BY <4>1, SubmittersApart DEF Response, Replies, IsReply, IsUpdate
      <4>3. \/ stdout' = stdout
            \/ \E ok \in BOOLEAN : stdout' = Append(stdout, Response(Head(stdin).by, ok))
        BY <3>2 DEF CliResolve, Say
      <4> QED BY <4>2, <4>3
    <3>3. CASE CliTakeAnswer \/ CliNotice
      BY <3>3 DEF CliTakeAnswer, CliNotice
    <3> QED BY <1>3, <3>1, <3>2, <3>3
  <2>3. \E c \in Nat : CallsKept(c)
    BY <1>0, <2>1, CallsUnsent
  <2>4. \E d \in Nat : SaidKept(d)
    BY <1>0, <2>2, TextUnsaid
  <2>5. Got' \subseteq Got
    BY <2>1 DEF Got
  <2> QED BY <2>1, <2>3, <2>4, <2>5, NeutralStep
<1> QED BY <1>1, <1>2, <1>3, CliServeTurn, CliReplyTurn DEF Cli

LEMMA TurnNext == TurnInv /\ [Next]_vars => TurnInv'
<1> SUFFICES ASSUME TurnInv, [Next]_vars PROVE TurnInv'
  OBVIOUS
<1>0. AcpTypeOK /\ AcpTypeOK'
  BY AcpNextTyped DEF TurnInv
<1>1. CASE CliAskUnknown \/ CliDies \/ CancelAgent \/ UNCHANGED vars
  <2>1. UNCHANGED <<pc, call, failed, result, mode, replayPhase, output, serving, emitted, delivered, reader,
                    stdin, stdout>>
    BY <1>1 DEF CliAskUnknown, CliDies, CancelAgent, vars, executor, session, transport, service, cli
  <2>2. \E c \in Nat : CallsKept(c)
    BY <1>0, <2>1, CallsUnsent
  <2>3. \E d \in Nat : SaidKept(d)
    BY <1>0, <2>1, TextUnsaid
  <2>4. Got' \subseteq Got
    BY <2>1 DEF Got
  <2> QED BY <1>0, <2>1, <2>2, <2>3, <2>4, NeutralStep
<1> QED BY <1>0, <1>1, ExecutorTurn, ReadLoopTurn, CliTurn, SubmitterTurn DEF Next

(* The invariant the facts about the output rest on: there is one request  *)
(* at a time, the text of a turn is taken before its answer, and what is   *)
(* on its way continues what has been taken.                               *)
THEOREM TurnInvAlways == Spec => []TurnInv
BY TurnInit, TurnNext, PTL DEF Spec

(* The text an execution collects holds what the CLI says in this turn,    *)
(* each piece once and in order, and nothing it replays of an earlier one  *)
(* (handleSessionUpdate, replayPhase).                                     *)
THEOREM OutputAlwaysInOrder == Spec => []OutputInOrder
<1>1. TurnInv => OutputInOrder
  BY DEF TurnInv
<1> QED BY <1>1, TurnInvAlways, PTL

(* When SendRequest has returned, readLoop has handled all the CLI said    *)
(* before its answer, so no execution that ends well returns less.         *)
THEOREM OutputAlwaysComplete == Spec => []OutputComplete
<1>1. TurnInv => OutputComplete
  <2> SUFFICES ASSUME TurnInv, pc \in {"leave", "done"}, ~failed PROVE Len(result) = emitted
    BY DEF OutputComplete
  <2>1. serving = "none" /\ ReplyAt = {}
    BY NotWaiting
  <2> QED BY <2>1, Quiet DEF TurnInv, ResultTaken
<1> QED BY <1>1, TurnInvAlways, PTL

-----------------------------------------------------------------------------
LEMMA AnswersInit == Init => AnswersInv
<1> SUFFICES ASSUME Init PROVE AnswersInv
  OBVIOUS
<1>1. /\ AcpTypeOK /\ stdin = <<>> /\ stdout = <<>> /\ reader.at = "idle" /\ awaiting = 0
      /\ pendingElicitation = 0 /\ asked = 0 /\ open = {} /\ answers = {}
  BY AcpInitTyped DEF Init, Idle
<1>2. \A s \in Submitters : sub[s].at = "idle"
  BY DEF Init
<1>3. QuestionAt = {} /\ FromUsers = {}
  BY <1>1 DEF QuestionAt, FromUsers
<1>4. \A s \in Submitters : ~Matched(s)
  BY <1>2 DEF Matched
<1>5. AskedOnce /\ ShownOnce
  BY <1>1, <1>3 DEF AskedOnce, ShownOnce
<1>6. MatchedOnce /\ RequestOfQuestion
  BY <1>1, <1>2, <1>4 DEF MatchedOnce, RequestOfQuestion
<1>7. AnswersUnderWay
  BY <1>1, <1>3 DEF AnswersUnderWay
<1> QED BY <1>1, <1>5, <1>6, <1>7 DEF AnswersInv

(* When no question is open, none is on its way or waits for its answer.   *)
LEMMA NothingAsked ==
  ASSUME AnswersInv, open = {}
  PROVE  /\ QuestionAt = {} /\ reader.at # "question" /\ awaiting = 0
         /\ \A s \in Submitters : sub[s].at \notin {"read", "respond", "resolve"}
<1>1. asked \in Nat
  BY DEF AnswersInv, AcpTypeOK
<1>2. CASE asked = 0
  <2>1. \A s \in Submitters : sub[s].at \in {"read", "respond", "resolve"} => Matched(s) /\ sub[s].q = asked
    BY DEF Matched, AnswersInv, RequestOfQuestion
  <2>2. \A s \in Submitters : Matched(s) => sub[s].q > 0
    BY DEF AnswersInv, MatchedOnce
  <2>3. \A s \in Submitters : sub[s].at \notin {"read", "respond", "resolve"}
    BY <1>2, <2>1, <2>2
  <2>4. QuestionAt = {} /\ reader.at # "question" /\ awaiting = 0
    BY <1>2 DEF AnswersInv, ShownOnce, MatchedOnce
  <2> QED BY <2>3, <2>4
<1>3. CASE asked > 0
  <2>1. PICK a \in answers : a.q = asked
    BY <1>3 DEF AnswersInv, AskedOnce
  <2>2. a.by \in Submitters /\ Sent(a.by) /\ sub[a.by].q = asked
    BY <2>1 DEF AnswersInv, AnswersUnderWay, Genuine
  <2>3. Matched(a.by) /\ sub[a.by].at \notin {"read", "respond", "resolve"}
    BY <2>2 DEF Matched, Sent
  <2>4. QuestionAt = {} /\ reader.at # "question" /\ awaiting = 0
    BY <2>2, <2>3 DEF AnswersInv, ShownOnce, MatchedOnce, NotMatched
  <2>5. ASSUME NEW s \in Submitters, sub[s].at \in {"read", "respond", "resolve"}
        PROVE  FALSE
    <3>1. Matched(s) /\ sub[s].q = asked
      BY <2>5 DEF Matched, AnswersInv, RequestOfQuestion
    <3>2. s = a.by
      BY <2>2, <2>3, <3>1 DEF AnswersInv, MatchedOnce
    <3> QED BY <2>3, <2>5, <3>2
  <2> QED BY <2>4, <2>5
<1> QED BY <1>1, <1>2, <1>3

(* A step that has nothing to do with the questions: stdout holds those it *)
(* held, d places on.                                                      *)
QuestionKept(d) == \A i \in QuestionAt' : i + d \in QuestionAt /\ stdout'[i] = stdout[i + d]

LEMMA QuestionUnasked ==
  ASSUME AcpTypeOK,
         \/ stdout' = stdout \/ (stdout # <<>> /\ stdout' = Tail(stdout))
         \/ \E m \in Said \cup Replies : m.kind # "question" /\ stdout' = Append(stdout, m)
  PROVE  \E d \in Nat : QuestionKept(d)
<1>0. stdout \in Seq(Said \cup Replies) /\ DOMAIN stdout \subseteq Nat
  BY DEF AcpTypeOK
<1>1. CASE stdout' = stdout
  <2>1. QuestionKept(0)
    BY <1>0, <1>1 DEF QuestionKept, QuestionAt
  <2> QED BY <2>1
<1>2. CASE stdout # <<>> /\ stdout' = Tail(stdout)
  <2>1. \A i \in DOMAIN stdout' : i + 1 \in DOMAIN stdout /\ stdout'[i] = stdout[i + 1]
    BY <1>0, <1>2, OneTaken
  <2>2. QuestionKept(1)
    BY <2>1 DEF QuestionKept, QuestionAt
  <2> QED BY <2>2
<1>3. ASSUME NEW m \in Said \cup Replies, m.kind # "question", stdout' = Append(stdout, m)
      PROVE  \E d \in Nat : QuestionKept(d)
  <2>1. /\ DOMAIN stdout' = DOMAIN stdout \cup {Len(stdout) + 1} /\ stdout'[Len(stdout) + 1] = m
        /\ \A i \in DOMAIN stdout : stdout'[i] = stdout[i]
    BY <1>0, <1>3, OneMore
  <2>2. QuestionKept(0)
    BY <1>0, <1>3, <2>1 DEF QuestionKept, QuestionAt
  <2> QED BY <2>2
<1> QED BY <1>1, <1>2, <1>3

LEMMA QuestionsStand ==
  ASSUME AnswersInv, AcpTypeOK', NEW d \in Nat, QuestionKept(d), UNCHANGED <<awaiting, asked, mode>>,
         reader' = reader \/ (reader'.at # "question" /\ reader.at # "question"),
         pendingElicitation' \in {pendingElicitation, 0},
         \A t \in Submitters :
           /\ sub'[t].q = sub[t].q /\ (Matched(t)' <=> Matched(t))
           /\ sub'[t].at = "read" => sub[t].at = "read"
           /\ sub'[t].at \in {"read", "respond", "resolve"} => sub[t].at \in {"read", "respond", "resolve"}
           /\ sub'[t].at \in {"respond", "clear"} => sub'[t].id = sub[t].q
  PROVE  ShownOnce' /\ MatchedOnce' /\ RequestOfQuestion'
<1>1. DOMAIN stdout' \subseteq Int
  BY DEF AcpTypeOK
<1>2. NotMatched => NotMatched'
  BY DEF NotMatched
<1>3. ShownOnce'
  <2>1. \A i, j \in QuestionAt' : i = j
    <3>1. ASSUME NEW i \in QuestionAt', NEW j \in QuestionAt' PROVE i = j
      <4>1. i + d = j + d
        BY DEF QuestionKept, AnswersInv, ShownOnce
      <4>2. i \in Int /\ j \in Int
        BY <1>1 DEF QuestionAt
      <4> QED BY <4>1, <4>2
    <3> QED BY <3>1
  <2>2. \A i \in QuestionAt' : stdout'[i].q = asked /\ asked > 0 /\ reader'.at # "question"
    BY DEF QuestionKept, AnswersInv, ShownOnce
  <2>3. QuestionAt' # {} => QuestionAt # {}
    BY DEF QuestionKept
  <2> QED BY <1>2, <2>1, <2>2, <2>3 DEF AnswersInv, ShownOnce
<1>4. MatchedOnce'
  BY <1>2 DEF AnswersInv, MatchedOnce
<1>5. RequestOfQuestion'
  BY DEF AnswersInv, RequestOfQuestion
<1> QED BY <1>3, <1>4, <1>5

LEMMA FewerFromUsers ==
  ASSUME AcpTypeOK,
         \/ stdin' = stdin \/ (stdin # <<>> /\ stdin' = Tail(stdin))
         \/ \E m \in Inward : OfExecutor(m) /\ stdin' = Append(stdin, m)
  PROVE  FromUsers' \subseteq FromUsers
<1>0. stdin \in Seq(Inward)
  BY DEF AcpTypeOK
<1>1. CASE stdin # <<>> /\ stdin' = Tail(stdin)
  <2>1. \A i \in DOMAIN stdin' : i + 1 \in DOMAIN stdin /\ stdin'[i] = stdin[i + 1]
    BY <1>0, <1>1, OneTaken
  <2> QED BY <2>1 DEF FromUsers
<1>2. ASSUME NEW m \in Inward, OfExecutor(m), stdin' = Append(stdin, m)
      PROVE  FromUsers' \subseteq FromUsers
  <2>1. /\ DOMAIN stdin' = DOMAIN stdin \cup {Len(stdin) + 1} /\ stdin'[Len(stdin) + 1] = m
        /\ \A i \in DOMAIN stdin : stdin'[i] = stdin[i]
    BY <1>0, <1>2, OneMore
  <2> QED BY <1>2, <2>1 DEF FromUsers
<1> QED BY <1>1, <1>2 DEF FromUsers

LEMMA OneFromUser ==
  ASSUME AcpTypeOK, NEW m \in Inward, stdin' = Append(stdin, m)
  PROVE  FromUsers' \subseteq FromUsers \cup {m}
<1>1. /\ DOMAIN stdin' = DOMAIN stdin \cup {Len(stdin) + 1} /\ stdin'[Len(stdin) + 1] = m
      /\ \A i \in DOMAIN stdin : stdin'[i] = stdin[i]
  BY OneMore DEF AcpTypeOK
<1> QED BY <1>1 DEF FromUsers

LEMMA SubmittersStand ==
  ASSUME AnswersInv, AcpTypeOK', NEW d \in Nat, QuestionKept(d),
         UNCHANGED <<awaiting, asked, mode, sub, pendingElicitation>>,
         reader' = reader \/ (reader'.at # "question" /\ reader.at # "question")
  PROVE  ShownOnce' /\ MatchedOnce' /\ RequestOfQuestion'
<1>1. \A t \in Submitters :
        /\ sub'[t].q = sub[t].q /\ (Matched(t)' <=> Matched(t))
        /\ sub'[t].at = "read" => sub[t].at = "read"
        /\ sub'[t].at \in {"read", "respond", "resolve"} => sub[t].at \in {"read", "respond", "resolve"}
        /\ sub'[t].at \in {"respond", "clear"} => sub'[t].id = sub[t].q
  BY DEF AnswersInv, RequestOfQuestion, Matched
<1> QED BY <1>1, QuestionsStand

LEMMA NoQuestionStep ==
  ASSUME AnswersInv, AcpTypeOK', NEW d \in Nat, QuestionKept(d), FromUsers' \subseteq FromUsers,
         UNCHANGED <<awaiting, sub, pendingElicitation, asked, open, answers, mode>>,
         reader' = reader \/ (reader'.at # "question" /\ reader.at # "question")
  PROVE  AnswersInv'
<1>1. ShownOnce' /\ MatchedOnce' /\ RequestOfQuestion'
  BY SubmittersStand
<1>2. AskedOnce'
  BY DEF AnswersInv, AskedOnce
<1>3. AnswersUnderWay'
  BY DEF AnswersInv, AnswersUnderWay, Genuine, Sent
<1> QED BY <1>1, <1>2, <1>3 DEF AnswersInv

LEMMA ExecutorAnswers == ASSUME AnswersInv, Executor, AcpTypeOK' PROVE AnswersInv'
<1>0. AcpTypeOK /\ call \in 1..5
  BY DEF AnswersInv, AcpTypeOK
<1>1. UNCHANGED <<awaiting, sub, pendingElicitation, asked, open, answers, mode, reader, stdout>>
  BY DEF Executor, Skip, EndReplay, Send, Return, CloseTransport, Drain, Reap, Collect, Leave,
         session, transport, service, cli
<1>2. stdin' = stdin \/ stdin' = Append(stdin, Message("request", Here, 0))
  BY DEF Executor, Skip, EndReplay, Send, Return, CloseTransport, Drain, Reap, Collect, Leave,
         session, transport, service, cli
<1>3. Message("request", Here, 0) \in Inward /\ OfExecutor(Message("request", Here, 0))
  <2>1. Here \in Requests
    BY <1>0, HereIs
  <2> QED BY <2>1, RequestTyped DEF Message, OfExecutor
<1>4. FromUsers' \subseteq FromUsers
  BY <1>0, <1>2, <1>3, FewerFromUsers
<1>5. \E d \in Nat : QuestionKept(d)
  BY <1>0, <1>1, QuestionUnasked
<1> QED BY <1>1, <1>4, <1>5, NoQuestionStep

LEMMA TakeQuestionAnswers == ASSUME AnswersInv, TakeQuestion, AcpTypeOK' PROVE AnswersInv'
<1>1. /\ AcpTypeOK /\ stdout \in Seq(Said \cup Replies) /\ stdout # <<>> /\ stdout' = Tail(stdout)
      /\ Head(stdout) = stdout[1] /\ stdout[1].kind = "question" /\ 1 \in DOMAIN stdout
  BY NextLineTyped DEF AnswersInv, AcpTypeOK, TakeQuestion, NextLine
<1>2. /\ UNCHANGED <<stdin, awaiting, sub, asked, open, answers, mode>>
      /\ reader' = [at |-> "question", of |-> stdout[1].q]
      /\ pendingElicitation' = IF mode.kind = "elicitation" THEN stdout[1].q ELSE pendingElicitation
  BY <1>1 DEF TakeQuestion, executor, service, cli
<1>3. 1 \in QuestionAt
  BY <1>1 DEF QuestionAt
<1>4. stdout[1].q = asked /\ asked > 0 /\ awaiting = 0 /\ NotMatched /\ \A i \in QuestionAt : i = 1
  BY <1>3 DEF AnswersInv, ShownOnce
<1>5. QuestionAt' = {}
  <2>1. ASSUME NEW i \in QuestionAt' PROVE FALSE
    <3>1. i \in Nat \ {0} /\ i + 1 \in QuestionAt
      BY <1>1, OneTaken DEF QuestionAt
    <3> QED BY <1>4, <3>1
  <2> QED BY <2>1
<1>6. NotMatched' /\ \A s \in Submitters : Matched(s)' <=> Matched(s)
  BY <1>2, <1>4 DEF NotMatched, Matched
<1>7. ShownOnce' /\ MatchedOnce'
  BY <1>2, <1>4, <1>5, <1>6 DEF AnswersInv, ShownOnce, MatchedOnce
<1>8. RequestOfQuestion'
  <2>1. mode.kind \in {"elicitation", "notification"}
    BY <1>1 DEF AcpTypeOK
  <2>2. /\ pendingElicitation' \in {0, asked}
        /\ mode.kind = "notification" => pendingElicitation' = 0
    BY <1>2, <1>4, <2>1 DEF AnswersInv, RequestOfQuestion
  <2> QED BY <1>2, <2>2 DEF AnswersInv, RequestOfQuestion
<1>9. AskedOnce' /\ AnswersUnderWay'
  BY <1>2 DEF AnswersInv, AskedOnce, AnswersUnderWay, FromUsers, Genuine, Sent
<1> QED BY <1>7, <1>8, <1>9 DEF AnswersInv

LEMMA BroadcastQuestionAnswers == ASSUME AnswersInv, BroadcastQuestion, AcpTypeOK' PROVE AnswersInv'
<1>1. /\ UNCHANGED <<stdin, stdout, sub, asked, open, answers, mode, pendingElicitation>>
      /\ awaiting' = IF running THEN reader.of ELSE awaiting
      /\ reader.at = "question" /\ reader'.at = "idle" /\ asked \in Nat
  BY DEF BroadcastQuestion, Idle, executor, session, service, cli, AnswersInv, AcpTypeOK
<1>2. reader.of = asked /\ asked > 0 /\ awaiting = 0 /\ NotMatched /\ QuestionAt = {}
      /\ pendingElicitation \in {0, asked}
  BY <1>1 DEF AnswersInv, ShownOnce, RequestOfQuestion
<1>3. QuestionAt' = {} /\ awaiting' \in {0, asked}
  BY <1>1, <1>2 DEF QuestionAt
<1>4. NotMatched' /\ \A s \in Submitters : Matched(s)' <=> Matched(s)
  BY <1>1, <1>2 DEF NotMatched, Matched
<1>5. ShownOnce' /\ MatchedOnce' /\ RequestOfQuestion'
  BY <1>1, <1>2, <1>3, <1>4 DEF AnswersInv, ShownOnce, MatchedOnce, RequestOfQuestion
<1>6. AskedOnce' /\ AnswersUnderWay'
  BY <1>1 DEF AnswersInv, AskedOnce, AnswersUnderWay, FromUsers, Genuine, Sent
<1> QED BY <1>5, <1>6 DEF AnswersInv

LEMMA ReadLoopAnswers == ASSUME AnswersInv, ReadLoop, AcpTypeOK' PROVE AnswersInv'
<1>0. AcpTypeOK
  BY DEF AnswersInv
<1>1. ASSUME \/ TakeUpdate \/ AppendText \/ BroadcastText
             \/ TakeResponse \/ SkipLine \/ EndOfOutput
      PROVE  AnswersInv'
  <2>1. /\ UNCHANGED <<stdin, awaiting, sub, pendingElicitation, asked, open, answers, mode>>
        /\ stdout' = stdout \/ (stdout # <<>> /\ stdout' = Tail(stdout))
    BY <1>1 DEF TakeUpdate, AppendText, BroadcastText, TakeResponse, SkipLine, EndOfOutput, NextLine,
                executor, session, service, cli
  <2>4. reader' = reader \/ (reader'.at # "question" /\ reader.at # "question")
    <3>1. reader.at # "question"
      BY <1>1 DEF TakeUpdate, AppendText, BroadcastText, TakeResponse, SkipLine, EndOfOutput, NextLine, Idle
    <3>2. CASE AppendText \/ EndOfOutput
      BY <1>0, <3>1, <3>2 DEF AppendText, EndOfOutput, AcpTypeOK, Readings
    <3>3. CASE TakeUpdate \/ BroadcastText \/ TakeResponse \/ SkipLine
      BY <3>1, <3>3 DEF TakeUpdate, BroadcastText, TakeResponse, SkipLine, Idle
    <3> QED BY <1>1, <3>2, <3>3
  <2>2. FromUsers' \subseteq FromUsers
    BY <2>1 DEF FromUsers
  <2>3. \E d \in Nat : QuestionKept(d)
    BY <1>0, <2>1, QuestionUnasked
  <2> QED BY <2>1, <2>2, <2>3, <2>4, NoQuestionStep
<1> QED BY <1>1, TakeQuestionAnswers, BroadcastQuestionAnswers DEF ReadLoop

(* An answer reaches the CLI.                                              *)
LEMMA AnsweredOnce ==
  ASSUME AnswersInv, NEW s \in Submitters, NEW q \in Nat, asked' = asked,
         answers' = answers \cup {[by |-> s, q |-> q]}, open' = open \ {q}
  PROVE  \E a \in [by : Submitters, q : Nat] :
           a.by = s /\ a.q = q /\ answers' = answers \cup {a} /\ AskedOnce'
<1>1. PICK a : a = [by |-> s, q |-> q]
  OBVIOUS
<1>2. answers' = answers \cup {a} /\ a.q = q /\ a.by = s /\ a \in [by : Submitters, q : Nat]
  BY <1>1
<1>3. AskedOnce'
  BY <1>2 DEF AnswersInv, AskedOnce
<1> QED BY <1>2, <1>3

LEMMA CliAskAnswers == ASSUME AnswersInv, CliAsk, AcpTypeOK' PROVE AnswersInv'
<1>0. PICK m, n : m = Message("question", "cli", asked + 1) /\ n = Len(stdout) + 1
  OBVIOUS
<1>1. /\ UNCHANGED <<stdin, sub, reader, awaiting, pendingElicitation, answers, mode>>
      /\ asked' = asked + 1 /\ open' = {asked + 1} /\ open = {} /\ asked \in Nat
      /\ stdout' = Append(stdout, m) /\ m \in Said /\ m.kind = "question" /\ m.q = asked + 1
      /\ stdout \in Seq(Said \cup Replies)
  BY <1>0 DEF CliAsk, Say, Message, Said, executor, session, service, AnswersInv, AcpTypeOK
<1>2. /\ QuestionAt = {} /\ reader.at # "question" /\ awaiting = 0
      /\ \A s \in Submitters : sub[s].at \notin {"read", "respond", "resolve"}
  BY <1>1, NothingAsked
<1>3. QuestionAt' = {n} /\ stdout'[n] = m
  <2>1. /\ DOMAIN stdout' = DOMAIN stdout \cup {n} /\ stdout'[n] = m
        /\ \A i \in DOMAIN stdout : stdout'[i] = stdout[i]
    BY <1>0, <1>1, OneMore
  <2> QED BY <1>1, <1>2, <2>1 DEF QuestionAt
<1>4. \A s \in Submitters : /\ Matched(s)' <=> Matched(s)
                            /\ Matched(s) => sub[s].q > 0 /\ sub[s].q <= asked /\ sub[s].q \in Nat
  BY <1>1 DEF Matched, AnswersInv, MatchedOnce, AcpTypeOK, Submissions
<1>5. NotMatched'
  BY <1>1, <1>4 DEF NotMatched
<1>6. ShownOnce'
  <2>1. \A i \in QuestionAt' : i = n /\ stdout'[i].q = asked' /\ asked' > 0 /\ reader'.at # "question"
    <3>1. m.q = asked' /\ asked' > 0 /\ reader' = reader
      BY <1>1
    <3> QED BY <1>2, <1>3, <3>1
  <2> QED BY <1>1, <1>2, <1>5, <2>1 DEF ShownOnce
<1>7. MatchedOnce'
  <2>1. \A s \in Submitters : Matched(s)' => sub'[s].q > 0 /\ sub'[s].q <= asked'
    BY <1>1, <1>4
  <2> QED BY <1>1, <1>2, <1>4, <2>1 DEF AnswersInv, MatchedOnce
<1>8. RequestOfQuestion'
  BY <1>1, <1>2 DEF AnswersInv, RequestOfQuestion
<1>9. AskedOnce' /\ AnswersUnderWay'
  BY <1>1 DEF AnswersInv, AskedOnce, AnswersUnderWay, FromUsers, Genuine, Sent
<1> QED BY <1>6, <1>7, <1>8, <1>9 DEF AnswersInv

LEMMA CliAnswers == ASSUME AnswersInv, Cli, AcpTypeOK' PROVE AnswersInv'
<1>0. AcpTypeOK
  BY DEF AnswersInv
<1>1. CASE CliServe \/ CliReplay \/ CliUpdate \/ CliReply
  <2>1. /\ UNCHANGED <<awaiting, sub, pendingElicitation, asked, open, answers, mode, reader>>
        /\ stdin' = stdin \/ (stdin # <<>> /\ stdin' = Tail(stdin))
    BY <1>1 DEF CliServe, CliReplay, CliUpdate, CliReply, NextMessage, executor, session, service
  <2>2. \/ stdout' = stdout
        \/ \E m \in Said \cup Replies : m.kind # "question" /\ stdout' = Append(stdout, m)
    <3>1. emitted \in Nat /\ \A n \in Nat : Message("update", "cli", n) \in Said
          /\ Message("update", "cli", n).kind # "question"
      BY <1>0 DEF AcpTypeOK, Message, Said
    <3>2. CASE CliServe \/ CliReplay \/ CliUpdate
      BY <3>1, <3>2 DEF CliServe, CliReplay, CliUpdate, Say
    <3>3. CASE CliReply
      <4>1. PICK ok \in BOOLEAN : stdout' = Append(stdout, Response(serving, ok))
        BY <3>3 DEF CliReply, Say
      <4>2. Response(serving, ok) \in Replies /\ Response(serving, ok).kind # "question"
        BY <1>0, <3>3 DEF AcpTypeOK, CliReply, Response, Replies
      <4> QED BY <4>1, <4>2
    <3> QED BY <1>1, <3>2, <3>3
  <2>3. FromUsers' \subseteq FromUsers
    BY <1>0, <2>1, FewerFromUsers
  <2>4. \E d \in Nat : QuestionKept(d)
    BY <1>0, <2>2, QuestionUnasked
  <2> QED BY <2>1, <2>3, <2>4, NoQuestionStep
<1>2. CASE CliTakeAnswer \/ CliResolve \/ CliNotice
  <2>0. PICK m : m = Head(stdin)
    OBVIOUS
  <2>1. /\ UNCHANGED <<awaiting, sub, pendingElicitation, asked, mode, reader>>
        /\ stdin # <<>> /\ stdin' = Tail(stdin) /\ m = stdin[1] /\ 1 \in DOMAIN stdin /\ m \in Inward
    BY <1>0, <1>2, <2>0, NextMessageTyped DEF CliTakeAnswer, CliResolve, CliNotice, executor, session, service
  <2>2. m.kind # "request" \/ m.by \in Submitters
    BY <1>2, <2>0 DEF CliTakeAnswer, CliResolve, CliNotice, NextMessage
  <2>3. Genuine(m)
    <3>1. ~OfExecutor(m)
      BY <2>2, SubmittersApart DEF OfExecutor
    <3>2. m \in FromUsers
      BY <2>1, <3>1 DEF FromUsers
    <3> QED BY <3>2 DEF AnswersInv, AnswersUnderWay
  <2>4. FromUsers' \subseteq FromUsers
    BY <1>0, <2>1, FewerFromUsers
  <2>5. Answered(m) \/ UNCHANGED <<answers, open>>
    BY <1>2, <2>0 DEF CliTakeAnswer, CliResolve, CliNotice
  <2>6. \/ stdout' = stdout
        \/ \E r \in Said \cup Replies : r.kind # "question" /\ stdout' = Append(stdout, r)
    <3>1. \A ok \in BOOLEAN : Response(m.by, ok) \in Replies /\ Response(m.by, ok).kind # "question"
      BY <2>3 DEF Genuine, Response, Replies
    <3>2. stdout' = stdout \/ \E ok \in BOOLEAN : stdout' = Append(stdout, Response(m.by, ok))
      BY <1>2, <2>0 DEF CliTakeAnswer, CliResolve, CliNotice, Say
    <3> QED BY <3>1, <3>2
  <2>7. PICK d \in Nat : QuestionKept(d)
    BY <1>0, <2>6, QuestionUnasked
  <2>8. CASE UNCHANGED <<answers, open>>
    BY <2>1, <2>4, <2>7, <2>8, NoQuestionStep
  <2>9. CASE Answered(m)
    <3>1. m.by \in Submitters /\ m.q \in Nat
      BY <2>1, <2>3 DEF Genuine, Inward
    <3>2. PICK a \in [by : Submitters, q : Nat] :
            a.by = m.by /\ a.q = m.q /\ answers' = answers \cup {a} /\ AskedOnce'
      BY <2>1, <2>9, <3>1, AnsweredOnce DEF Answered
    <3>3. AnswersUnderWay'
      <4>1. Genuine(a)
        BY <2>3, <3>2 DEF Genuine
      <4>2. \A x \in FromUsers' \cup answers' : Genuine(x)
        BY <2>4, <3>2, <4>1 DEF AnswersInv, AnswersUnderWay
      <4> QED BY <2>1, <3>2, <4>2 DEF AnswersInv, AnswersUnderWay, Genuine, Sent
    <3>4. ShownOnce' /\ MatchedOnce' /\ RequestOfQuestion'
      BY <2>1, <2>7, SubmittersStand
    <3> QED BY <3>2, <3>3, <3>4 DEF AnswersInv
  <2> QED BY <2>5, <2>8, <2>9
<1> QED BY <1>1, <1>2, CliAskAnswers DEF Cli

(* A submitter goes on: it has had its question and the request to answer. *)
LEMMA SendToolResultAnswers ==
  ASSUME AnswersInv, NEW s \in Submitters, SendToolResult(s), AcpTypeOK'
  PROVE  AnswersInv'
<1>0. AcpTypeOK /\ sub[s].q \in Nat /\ sub[s].id \in Nat /\ sub \in [Submitters -> Submissions]
  BY DEF AnswersInv, AcpTypeOK, Submissions
<1>1. /\ UNCHANGED <<stdout, reader, awaiting, asked, mode>>
      /\ pendingElicitation' \in {pendingElicitation, 0}
  BY DEF SendToolResult, ReadPending, Respond, Clear, ReplyOverHttp, SendResolve, Resolved,
         executor, session, transport, cli
<1>2. PICK at, id :
        /\ at \in SubmitPoints /\ sub' = [sub EXCEPT ![s].id = id, ![s].at = at]
        /\ \/ sub[s].at = "read" /\ at \in {"done", "resolve"}
           \/ sub[s].at = "read" /\ at = "respond" /\ id = pendingElicitation /\ id # 0
           \/ sub[s].at = "respond" /\ at \in {"clear", "done"} /\ id = sub[s].id
           \/ sub[s].at = "clear" /\ at = "done"
           \/ sub[s].at = "resolve" /\ at \in {"done", "resolving"}
           \/ sub[s].at = "resolving" /\ at = "done"
  <2>1. CASE ReadPending(s)
    <3>1. PICK at : at = CASE ~registered -> "done"
                           [] registered /\ pendingElicitation = 0 -> "resolve"
                           [] OTHER -> "respond"
      OBVIOUS
    <3> QED BY <2>1, <3>1 DEF ReadPending, SubmitPoints
  <2>2. ASSUME NEW at \in SubmitPoints, Goto(s, at)
        PROVE  sub' = [sub EXCEPT ![s].id = sub[s].id, ![s].at = at]
    BY <1>0, <2>2 DEF Goto, Submissions
  <2>3. CASE Respond(s)
    BY <2>2, <2>3 DEF Respond, SubmitPoints
  <2>4. CASE Clear(s) \/ ReplyOverHttp(s) \/ Resolved(s)
    BY <2>2, <2>4 DEF Clear, ReplyOverHttp, Resolved, SubmitPoints
  <2>5. CASE SendResolve(s)
    BY <2>2, <2>5 DEF SendResolve, SubmitPoints
  <2> QED BY <2>1, <2>3, <2>4, <2>5 DEF SendToolResult
<1>3. /\ sub'[s].at = at /\ sub'[s].id = id /\ sub'[s].q = sub[s].q
      /\ \A t \in Submitters \ {s} : sub'[t] = sub[t]
  BY <1>0, <1>2 DEF Submissions
<1>4. sub[s].at = "read" => sub[s].q = asked /\ pendingElicitation \in {0, asked}
  BY DEF AnswersInv, RequestOfQuestion
<1>5. sub[s].at = "respond" => sub[s].id = sub[s].q
  BY DEF AnswersInv, RequestOfQuestion
<1>6. at \in {"respond", "clear"} => id = sub[s].q
  BY <1>2, <1>4, <1>5
<1>7. /\ Matched(s) /\ Matched(s)' /\ at # "read"
      /\ at \in {"respond", "resolve"} => sub[s].at = "read"
      /\ Sent(s) => Sent(s)'
  BY <1>2, <1>3 DEF Matched, Sent
<1>8. \A t \in Submitters :
        /\ sub'[t].q = sub[t].q /\ (Matched(t)' <=> Matched(t)) /\ (Sent(t) => Sent(t)')
        /\ sub'[t].at = "read" => sub[t].at = "read"
        /\ sub'[t].at \in {"read", "respond", "resolve"} => sub[t].at \in {"read", "respond", "resolve"}
        /\ sub'[t].at \in {"respond", "clear"} => sub'[t].id = sub[t].q
  <2>1. ASSUME NEW t \in Submitters \ {s}
        PROVE  /\ sub'[t].q = sub[t].q /\ (Matched(t)' <=> Matched(t)) /\ (Sent(t) => Sent(t)')
               /\ sub'[t].at = "read" => sub[t].at = "read"
               /\ sub'[t].at \in {"read", "respond", "resolve"} =>
                    sub[t].at \in {"read", "respond", "resolve"}
               /\ sub'[t].at \in {"respond", "clear"} => sub'[t].id = sub[t].q
    BY <1>3 DEF Matched, Sent, AnswersInv, RequestOfQuestion
  <2> QED BY <1>3, <1>6, <1>7, <2>1
<1>9. ShownOnce' /\ MatchedOnce' /\ RequestOfQuestion'
  <2>1. \E d \in Nat : QuestionKept(d)
    BY <1>0, <1>1, QuestionUnasked
  <2> QED BY <1>1, <1>8, <2>1, QuestionsStand
<1>10. AskedOnce' /\ AnswersUnderWay'
  <2>1. \A m : Genuine(m) => Genuine(m)'
    BY <1>8 DEF Genuine
  <2>2. \/ UNCHANGED <<answers, open>> /\ FromUsers' \subseteq FromUsers
        \/ /\ UNCHANGED <<answers, open>>
           /\ \E m \in Inward : m.by = s /\ m.q = sub[s].q /\ Sent(s)' /\ FromUsers' \subseteq FromUsers \cup {m}
        \/ /\ answers' = answers \cup {[by |-> s, q |-> sub[s].q]} /\ open' = open \ {sub[s].q}
           /\ FromUsers' = FromUsers /\ Sent(s)'
    <3>1. CASE ReadPending(s) \/ Clear(s)
      <4>1. UNCHANGED <<answers, open, stdin>>
        BY <3>1 DEF ReadPending, Clear, transport, cli
      <4> QED BY <4>1 DEF FromUsers
    <3>2. CASE ReplyOverHttp(s)
      <4>1. /\ answers' = answers \cup {[by |-> s, q |-> sub[s].q]} /\ open' = open \ {sub[s].q}
            /\ stdin' = stdin
        BY <3>2 DEF ReplyOverHttp, transport
      <4>2. Sent(s)'
        BY <1>0, <3>2 DEF ReplyOverHttp, Goto, Sent, Submissions
      <4> QED BY <4>1, <4>2 DEF FromUsers
    <3>3. CASE Respond(s) \/ SendResolve(s) \/ Resolved(s)
      <4>1. UNCHANGED <<answers, open>>
        BY <3>3 DEF Respond, SendResolve, Resolved, cli
      <4>2. \/ stdin' = stdin
            \/ stdin' = Append(stdin, Message("answer", s, sub[s].q))
            \/ stdin' = Append(stdin, Message("request", s, sub[s].q))
            \/ stdin' = Append(stdin, Message("notice", s, sub[s].q))
        BY <1>5, <3>3 DEF Respond, SendResolve, Resolved
      <4>3. CASE stdin' = stdin
        BY <4>1, <4>3 DEF FromUsers
      <4>4. ASSUME NEW kind \in {"answer", "request", "notice"}, stdin' = Append(stdin, Message(kind, s, sub[s].q))
            PROVE  \E m \in Inward : m.by = s /\ m.q = sub[s].q /\ FromUsers' \subseteq FromUsers \cup {m}
        <5>1. PICK m : m = Message(kind, s, sub[s].q)
          OBVIOUS
        <5>2. m \in Inward /\ m.by = s /\ m.q = sub[s].q
          BY <1>0, <5>1 DEF Message, Inward
        <5> QED BY <1>0, <4>4, <5>1, <5>2, OneFromUser
      <4>5. stdin' # stdin => Sent(s)'
        BY <1>0, <3>3 DEF Respond, SendResolve, Resolved, Goto, Sent, Submissions
      <4> QED BY <4>1, <4>2, <4>3, <4>4, <4>5
    <3> QED BY <3>1, <3>2, <3>3 DEF SendToolResult
  <2>3. CASE UNCHANGED <<answers, open>> /\ FromUsers' \subseteq FromUsers
    BY <1>1, <2>1, <2>3 DEF AnswersInv, AskedOnce, AnswersUnderWay
  <2>4. ASSUME UNCHANGED <<answers, open>>, NEW m \in Inward, m.by = s, m.q = sub[s].q, Sent(s)',
               FromUsers' \subseteq FromUsers \cup {m}
        PROVE  AskedOnce' /\ AnswersUnderWay'
    <3>1. Genuine(m)'
      BY <1>3, <2>4 DEF Genuine
    <3> QED BY <1>1, <2>1, <2>4, <3>1 DEF AnswersInv, AskedOnce, AnswersUnderWay
  <2>5. ASSUME answers' = answers \cup {[by |-> s, q |-> sub[s].q]}, open' = open \ {sub[s].q},
               FromUsers' = FromUsers, Sent(s)'
        PROVE  AskedOnce' /\ AnswersUnderWay'
    <3>1. PICK a \in [by : Submitters, q : Nat] :
            a.by = s /\ a.q = sub[s].q /\ answers' = answers \cup {a} /\ AskedOnce'
      BY <1>0, <1>1, <2>5, AnsweredOnce
    <3>2. Genuine(a)'
      BY <1>3, <2>5, <3>1 DEF Genuine
    <3>3. \A x \in FromUsers' \cup answers' : Genuine(x)'
      BY <2>1, <2>5, <3>1, <3>2 DEF AnswersInv, AnswersUnderWay
    <3> QED BY <3>1, <3>3 DEF AnswersInv, AnswersUnderWay
  <2> QED BY <2>2, <2>3, <2>4, <2>5
<1> QED BY <1>9, <1>10 DEF AnswersInv

(* An answer is taken for the question the agent waits with, or refused.   *)
LEMMA SubmitAnswers ==
  ASSUME AnswersInv, NEW s \in Submitters, NEW q \in Questions, Submit(s, q), AcpTypeOK'
  PROVE  AnswersInv'
<1>0. /\ AcpTypeOK /\ sub \in [Submitters -> Submissions] /\ q \in Nat /\ q > 0
      /\ UNCHANGED <<stdin, stdout, reader, asked, open, answers, mode, pendingElicitation>>
  BY DEF AnswersInv, AcpTypeOK, Questions, Submit, executor, session, transport, cli
<1>1. /\ ~Matched(s) /\ ~Sent(s) /\ sub[s].at = "idle"
      /\ \A t \in Submitters \ {s} : sub'[t] = sub[t]
      /\ sub'[s].q = q /\ sub'[s].id = 0
      /\ \/ running /\ awaiting = q /\ awaiting' = 0 /\ sub'[s].at = "read"
         \/ awaiting' = awaiting /\ sub'[s].at = "refused"
  BY <1>0 DEF Submit, Matched, Sent
<1>2. \A t \in Submitters \ {s} : (Matched(t)' <=> Matched(t)) /\ (Sent(t)' <=> Sent(t))
  BY <1>1 DEF Matched, Sent
<1>3. \A m : Genuine(m) => Genuine(m)'
  BY <1>1, <1>2 DEF Genuine
<1>4. FromUsers' = FromUsers /\ QuestionAt' = QuestionAt
  BY <1>0 DEF FromUsers, QuestionAt
<1>5. AskedOnce' /\ AnswersUnderWay'
  BY <1>0, <1>3, <1>4 DEF AnswersInv, AskedOnce, AnswersUnderWay
<1>6. CASE awaiting' = awaiting /\ sub'[s].at = "refused"
  <2>1. ~Matched(s)'
    BY <1>6 DEF Matched
  <2>2. NotMatched => NotMatched'
    BY <1>0, <1>1, <1>2, <2>1 DEF NotMatched
  <2>3. ShownOnce' /\ MatchedOnce'
    BY <1>0, <1>1, <1>2, <1>4, <1>6, <2>1, <2>2 DEF AnswersInv, ShownOnce, MatchedOnce
  <2>4. RequestOfQuestion'
    <3>1. \A t \in Submitters : sub'[t] = sub[t] \/ sub'[t].at = "refused"
      BY <1>1, <1>6
    <3> QED BY <1>0, <1>6, <3>1 DEF AnswersInv, RequestOfQuestion
  <2> QED BY <1>0, <1>5, <2>3, <2>4 DEF AnswersInv
<1>7. CASE awaiting = q /\ awaiting' = 0 /\ sub'[s].at = "read"
  <2>1. q = asked /\ NotMatched /\ pendingElicitation \in {0, asked} /\ asked > 0
    BY <1>0, <1>7 DEF AnswersInv, MatchedOnce, RequestOfQuestion
  <2>2. QuestionAt = {} /\ reader.at # "question"
    BY <1>0, <1>7 DEF AnswersInv, ShownOnce
  <2>3. ShownOnce'
    BY <1>0, <1>4, <2>2 DEF ShownOnce
  <2>4. MatchedOnce'
    <3>1. asked \in Nat
      BY <1>0 DEF AcpTypeOK
    <3>2. \A t \in Submitters \ {s} : Matched(t)' => sub'[t].q # asked /\ sub'[t].q > 0 /\ sub'[t].q <= asked
      BY <1>1, <1>2, <2>1 DEF NotMatched, AnswersInv, MatchedOnce
    <3>3. \A t, u \in Submitters \ {s} : Matched(t)' /\ Matched(u)' /\ sub'[t].q = sub'[u].q => t = u
      BY <1>1, <1>2 DEF AnswersInv, MatchedOnce
    <3> QED BY <1>0, <1>1, <1>7, <2>1, <3>1, <3>2, <3>3 DEF MatchedOnce
  <2>5. RequestOfQuestion'
    <3>1. sub'[s].at = "read" /\ sub'[s].q = asked
      BY <1>1, <1>7, <2>1
    <3> QED BY <1>0, <1>1, <2>1, <3>1 DEF AnswersInv, RequestOfQuestion
  <2> QED BY <1>0, <1>5, <2>3, <2>4, <2>5 DEF AnswersInv
<1> QED BY <1>1, <1>6, <1>7

LEMMA AnswersNext == AnswersInv /\ [Next]_vars => AnswersInv'
<1> SUFFICES ASSUME AnswersInv, [Next]_vars PROVE AnswersInv'
  OBVIOUS
<1>0. AcpTypeOK /\ AcpTypeOK'
  BY AcpNextTyped DEF AnswersInv
<1>1. CASE CliAskUnknown \/ CliDies \/ CancelAgent \/ UNCHANGED vars
  <2>1. UNCHANGED <<awaiting, sub, pendingElicitation, asked, open, answers, mode, reader, stdin, stdout>>
    BY <1>1 DEF CliAskUnknown, CliDies, CancelAgent, vars, executor, session, transport, service, cli
  <2>2. \E d \in Nat : QuestionKept(d)
    BY <1>0, <2>1, QuestionUnasked
  <2>3. FromUsers' \subseteq FromUsers
    BY <2>1 DEF FromUsers
  <2> QED BY <1>0, <2>1, <2>2, <2>3, NoQuestionStep
<1> QED BY <1>0, <1>1, ExecutorAnswers, ReadLoopAnswers, CliAnswers, SendToolResultAnswers, SubmitAnswers DEF Next

(* The invariant the facts about the answers rest on: one question at a    *)
(* time, matched once, and pendingElicitation is its request as long as    *)
(* somebody may read it.                                                   *)
THEOREM AnswersInvAlways == Spec => []AnswersInv
BY AnswersInit, AnswersNext, PTL DEF Spec

(* Every answer the CLI takes is the one its submitter gave to that        *)
(* question, and no question is answered twice (SubmitQuestionAnswer,      *)
(* SendToolResult), however many users submit and however they interleave. *)
THEOREM AnswersAlwaysMatch == Spec => []AnswersMatch
<1>1. AnswersInv => AnswersMatch
  <2> SUFFICES ASSUME AnswersInv PROVE AnswersMatch
    OBVIOUS
  <2>1. \A a \in answers : /\ a \in [by : Submitters, q : Nat]
                           /\ a.by \in Submitters /\ Matched(a.by) /\ a.q = sub[a.by].q
    BY DEF AnswersInv, AnswersUnderWay, Genuine, Sent, Matched
  <2>2. ASSUME NEW a \in answers, NEW b \in answers, a.q = b.q PROVE a = b
    <3>1. a.by = b.by
      BY <2>1, <2>2 DEF AnswersInv, MatchedOnce
    <3> QED BY <2>1, <2>2, <3>1
  <2> QED BY <2>1, <2>2 DEF AnswersMatch
<1> QED BY <1>1, AnswersInvAlways, PTL
=============================================================================
