---------------------------- MODULE ProcessPool ----------------------------
(***************************************************************************)
(* The pool of warm CLI processes: internal/service/agent/process_pool.go, *)
(* as executeAgent and the warm-up at start-up drive it.  The pool has a   *)
(* mutex, and so has every entry; a region under the pool's is one step,   *)
(* except where a lookup on the fast path, which takes an entry's mutex    *)
(* without the pool's, can come in between.                                *)
(*                                                                         *)
(* The fast path holds an entry's mutex across steps in one place, where   *)
(* it waits for the pool's; an operation that has the pool's mutex and     *)
(* meets such an entry never lets go of it.                                *)
(***************************************************************************)
EXTENDS Integers, Sequences, FiniteSets, FiniteSetsExt

CONSTANTS Keys,              \* work directory and agent role
          Multiplexing,      \* the keys whose base agent may share a process
          Recent,            \* the keys warmed up: those of the last day
          Sessions,          \* CLI session ids
          Executions,        \* executeAgent goroutines
          MaxLiveProcesses,  \* 10 in the code
          MaxAcquires        \* bound of the model: calls of Acquire

ASSUME PoolAssumption == /\ Multiplexing \subseteq Keys /\ Recent \subseteq Keys
                         /\ MaxLiveProcesses \in Nat \ {0}
                         /\ MaxAcquires \in Nat
                         /\ Executions \cap {"free", "blocked"} = {}

VARIABLES entry,     \* the PoolEntry objects ever made, in order
          listed,    \* those in p.entries
          owners,    \* sessionOwners: key -> session -> entry, None when absent
          live,      \* metrics.LiveProcessCount
          pool,      \* who has the pool's mutex: "free", an execution, or "blocked"
          exec,      \* each execution's call, and then its lease
          toWarm,    \* keys whose warm-up goroutine has not begun
          warming,   \* entries whose warm-up goroutine starts a client
          acquires   \* calls of Acquire so far

poolVars == <<entry, listed, owners, live, pool, exec, toWarm, warming, acquires>>

None == 0
NoCall == [pc |-> "idle", key |-> CHOOSE k \in Keys : TRUE, session |-> None,
           entry |-> None, generation |-> 0, client |-> FALSE]

PoolInit == /\ entry = <<>> /\ listed = {} /\ live = 0 /\ pool = "free"
            /\ owners = [k \in Keys |-> [s \in Sessions |-> None]]
            /\ exec = [p \in Executions |-> NoCall]
            /\ toWarm = Recent /\ warming = {} /\ acquires = 0

-----------------------------------------------------------------------------
(* An entry's mutex is taken across steps only by who waits to write its   *)
(* lease off.                                                              *)
Locked(e) == \E p \in Executions : exec[p].pc = "writeoff" /\ exec[p].entry = e

Ready(e)    == entry[e].state = "ready" /\ entry[e].client
Reusable(e) == Ready(e) /\ (entry[e].key \in Multiplexing \/ entry[e].count = 0)
(* A single-lease process that is leased: taken for a zombie lease.        *)
Zombie(e)   == Ready(e) /\ ~Reusable(e)

Ids(k) == {e \in listed : entry[e].key = k}

New(k, n) == [key |-> k, client |-> FALSE, count |-> n, generation |-> n,
              state |-> "initializing", timer |-> FALSE]

(* One more lease; of a zombie, the only one, two generations on.  The     *)
(* timer is stopped, but may have gone off already and wait for the pool.  *)
Leased(r, zombie) ==
  [r EXCEPT !.count = IF zombie THEN 1 ELSE @ + 1,
            !.generation = IF zombie THEN @ + 2 ELSE @ + 1]

(* Mutant: the sessions of what is removed are kept.                       *)
RemovedButOwners(gone) ==
  /\ listed' = listed \ gone
  /\ live' = live - Cardinality(gone)
  /\ UNCHANGED owners

(* What is removed from the pool takes its sessions with it                *)
(* (forgetSessionsForEntry).                                               *)
Removed(gone) ==
  /\ listed' = listed \ gone
  /\ live' = live - Cardinality(gone)
  /\ owners' = [k \in Keys |-> [s \in Sessions |->
                  IF owners[k][s] \in gone THEN None ELSE owners[k][s]]]

Closed(gone) == [e \in DOMAIN entry |->
  IF e \in gone THEN [entry[e] EXCEPT !.state = "closing", !.timer = FALSE] ELSE entry[e]]

(* Whoever has the pool's mutex waits for an entry whose holder waits for  *)
(* the pool's.                                                             *)
Block == pool' = "blocked" /\ UNCHANGED <<entry, listed, owners, live, exec,
                                          toWarm, warming, acquires>>

(* An execution gets a lease of e.                                         *)
Give(p, e, generation, client) ==
  exec' = [exec EXCEPT ![p] = [@ EXCEPT !.pc = "leased", !.session = None, !.entry = e,
                                        !.generation = generation, !.client = client]]

To(p, pc) == exec' = [exec EXCEPT ![p].pc = pc]

-----------------------------------------------------------------------------
(* Acquire, for a key and the session to resume, if there is one: first    *)
(* the fast path, ...                                                      *)
Acquire(p, k, s) ==
  /\ exec[p].pc = "idle" /\ acquires < MaxAcquires
  /\ acquires' = acquires + 1
  /\ exec' = [exec EXCEPT ![p] = [NoCall EXCEPT !.key = k, !.session = s,
                                    !.pc = IF s = None THEN "slow" ELSE "lookup"]]
  /\ UNCHANGED <<entry, listed, owners, live, pool, toWarm, warming>>

(* ... under the pool's read lock, ...                                     *)
LookUp(p) ==
  LET owner == owners[exec[p].key][exec[p].session]
  IN /\ exec[p].pc = "lookup" /\ pool = "free"
     /\ exec' = [exec EXCEPT ![p].pc = IF owner = None THEN "slow" ELSE "found",
                             ![p].entry = owner]
     /\ UNCHANGED <<entry, listed, owners, live, pool, toWarm, warming, acquires>>

(* ... then under the entry's mutex alone, ...                             *)
TryOwner(p) ==
  LET e == exec[p].entry
  IN /\ exec[p].pc = "found" /\ ~Locked(e)
     /\ entry' = IF Reusable(e) THEN [entry EXCEPT ![e] = Leased(@, FALSE)] ELSE entry
     /\ To(p, IF Zombie(e) THEN "writeoff" ELSE IF Reusable(e) THEN "count" ELSE "slow")
     /\ UNCHANGED <<listed, owners, live, pool, toWarm, warming, acquires>>

(* ... with the pool's as well to write a zombie lease off, ...            *)
WriteOff(p) ==
  /\ exec[p].pc = "writeoff" /\ pool = "free"
  /\ entry' = [entry EXCEPT ![exec[p].entry] = Leased(@, TRUE)]
  /\ To(p, "count")
  /\ UNCHANGED <<listed, owners, live, pool, toWarm, warming, acquires>>

(* ... and the pool's again to count the hit.                              *)
CountHit(p) ==
  /\ exec[p].pc = "count" /\ pool = "free"
  /\ To(p, "create")
  /\ UNCHANGED <<entry, listed, owners, live, pool, toWarm, warming, acquires>>

(* createLease reads the generation without the entry's mutex: at the end  *)
(* of the fast path with no mutex at all.                                  *)
CreateLease(p) ==
  LET r == entry[exec[p].entry]
  IN /\ exec[p].pc = "create"
     /\ Give(p, exec[p].entry, r.generation, r.client)
     /\ pool' = IF pool = p THEN "free" ELSE pool
     /\ UNCHANGED <<entry, listed, owners, live, toWarm, warming, acquires>>

(* The slow path, all of it under the pool's mutex: the session's own      *)
(* process, leased or not, else the first process of the key that can be   *)
(* reused, ...                                                             *)
Reuse(p, e) ==
  IF Locked(e) THEN Block ELSE
  /\ pool' = p
  /\ entry' = [entry EXCEPT ![e] = Leased(@, Zombie(e))]
  /\ exec' = [exec EXCEPT ![p].pc = "create", ![p].entry = e]
  /\ UNCHANGED <<listed, owners, live, toWarm, warming, acquires>>

(* ... else a new one, ...                                                 *)
ColdStart(p) ==
  /\ entry' = Append(entry, New(exec[p].key, 1))
  /\ listed' = listed \cup {Len(entry) + 1}
  /\ live' = live + 1
  /\ Give(p, Len(entry) + 1, 1, FALSE)
  /\ UNCHANGED <<owners, pool, toWarm, warming, acquires>>

(* Mutant: the mutex is kept when there is none.                           *)
ChooseVictimOrHold(p) ==
  LET idle == {e \in listed : entry[e].count = 0 /\ entry[e].state = "ready"}
  IN IF \E e \in listed : Locked(e) THEN Block ELSE
     /\ pool' = p
     /\ \/ /\ idle = {}
           /\ exec' = [exec EXCEPT ![p] = NoCall]
        \/ \E e \in idle : exec' = [exec EXCEPT ![p].pc = "evict", ![p].entry = e]
     /\ UNCHANGED <<entry, listed, owners, live, toWarm, warming, acquires>>

(* ... in place of an idle one at capacity.  Which is the oldest is left   *)
(* open; when there is none, executeAgent goes on without a lease.         *)
ChooseVictim(p) ==
  LET idle == {e \in listed : entry[e].count = 0 /\ entry[e].state = "ready"}
  IN IF \E e \in listed : Locked(e) THEN Block ELSE
     /\ \/ /\ idle = {} /\ pool' = pool
           /\ exec' = [exec EXCEPT ![p] = NoCall]
        \/ \E e \in idle : /\ pool' = p
                           /\ exec' = [exec EXCEPT ![p].pc = "evict", ![p].entry = e]
     /\ UNCHANGED <<entry, listed, owners, live, toWarm, warming, acquires>>

SlowPath(p) ==
  LET c     == exec[p]
      owner == IF c.session = None THEN None ELSE owners[c.key][c.session]
      tries == {e \in Ids(c.key) : Locked(e) \/ Reusable(e)}
      own   == owner # None /\ (Locked(owner) \/ Ready(owner))
  IN /\ c.pc = "slow" /\ pool = "free"
     /\ \/ own /\ Reuse(p, owner)
        \/ ~own /\ tries # {} /\ Reuse(p, Min(tries))
        \/ ~own /\ tries = {} /\ live < MaxLiveProcesses /\ ColdStart(p)
        \/ ~own /\ tries = {} /\ live >= MaxLiveProcesses /\ ChooseVictim(p)

(* evictOne takes the entry's mutex again to close it, whatever the fast   *)
(* path has done to it meanwhile.                                          *)
Evict(p) ==
  LET e == exec[p].entry
      n == Len(entry) + 1
  IN /\ exec[p].pc = "evict"
     /\ IF Locked(e) THEN Block ELSE
        /\ entry' = Append(Closed({e}), New(exec[p].key, 1))
        /\ listed' = (listed \ {e}) \cup {n}
        /\ owners' = [k \in Keys |-> [s \in Sessions |->
                        IF owners[k][s] = e THEN None ELSE owners[k][s]]]
        /\ Give(p, n, 1, FALSE)
        /\ pool' = "free"
        /\ UNCHANGED <<live, toWarm, warming, acquires>>

-----------------------------------------------------------------------------
(* What is done with a lease.  ACP adapters say when they have a process   *)
(* (OnProcessInitialized), Claude Code's does not.                         *)
Holds(p) == exec[p].pc \in {"leased", "remembered"}

Initialize(p) ==
  /\ exec[p].pc = "leased" /\ ~exec[p].client
  /\ exec' = [exec EXCEPT ![p].client = TRUE]
  /\ UNCHANGED <<entry, listed, owners, live, pool, toWarm, warming, acquires>>

(* RememberSession, after a success: the first process of the key that is  *)
(* of the lease's generation, which need not be the lease's.               *)
RememberSession(p, s) ==
  LET c     == exec[p]
      tries == {e \in Ids(c.key) : Locked(e) \/ entry[e].generation = c.generation}
      e     == Min(tries)
  IN /\ c.pc = "leased" /\ pool = "free"
     /\ IF tries # {} /\ Locked(e) THEN Block ELSE
        /\ To(p, "remembered")
        /\ IF tries = {} THEN UNCHANGED <<entry, owners>> ELSE
           /\ entry' = [entry EXCEPT ![e].client = c.client, ![e].state = "ready"]
           /\ owners' = [owners EXCEPT ![c.key][s] = e]
        /\ UNCHANGED <<listed, live, pool, toWarm, warming, acquires>>

(* Mutant: a process that never got ready is not given back.               *)
ReleaseReady(p) ==
  LET c == exec[p]
      r == entry[c.entry]
      n == r.count - 1
  IN /\ Holds(p) /\ pool = "free"
     /\ IF Locked(c.entry) THEN Block ELSE
        /\ entry' = IF r.generation # c.generation \/ r.state # "ready" THEN entry
                    ELSE [entry EXCEPT ![c.entry].count = IF n < 0 THEN 0 ELSE n,
                                       ![c.entry].timer = @ \/ n <= 0]
        /\ exec' = [exec EXCEPT ![p] = NoCall]
        /\ UNCHANGED <<listed, owners, live, pool, toWarm, warming, acquires>>

(* releaseLease, deferred: a lease of an earlier generation is none.       *)
Release(p) ==
  LET c == exec[p]
      r == entry[c.entry]
      n == r.count - 1
  IN /\ Holds(p) /\ pool = "free"
     /\ IF Locked(c.entry) THEN Block ELSE
        /\ entry' = IF r.generation # c.generation THEN entry
                    ELSE [entry EXCEPT ![c.entry].count = IF n < 0 THEN 0 ELSE n,
                                       ![c.entry].timer = @ \/ n <= 0]
        /\ exec' = [exec EXCEPT ![p] = NoCall]
        /\ UNCHANGED <<listed, owners, live, pool, toWarm, warming, acquires>>

-----------------------------------------------------------------------------
(* The idle timer of an entry, armed by its last release: timer says that  *)
(* its callback has still to run.                                          *)
IdleTimeout(e) ==
  /\ entry[e].timer /\ pool = "free"
  /\ IF Locked(e) THEN Block ELSE
     /\ IF entry[e].count > 0 \/ entry[e].state # "ready"
        THEN /\ entry' = [entry EXCEPT ![e].timer = FALSE]
             /\ UNCHANGED <<listed, owners, live>>
        ELSE /\ entry' = Closed({e})
             /\ Removed({e})
     /\ UNCHANGED <<pool, exec, toWarm, warming, acquires>>

(* The health check: whatever has no client is taken for dead, leased or   *)
(* not.                                                                    *)
HealthCheck ==
  LET dead == {e \in listed : ~entry[e].client}
  IN /\ pool = "free"
     /\ IF \E e \in listed : Locked(e) THEN Block ELSE
        /\ dead # {}
        /\ entry' = Closed(dead)
        /\ Removed(dead)
        /\ UNCHANGED <<pool, exec, toWarm, warming, acquires>>

(* Warmup: the entry is listed, whatever the capacity, a client is started *)
(* without a mutex, and the entry becomes ready or is taken out again, in  *)
(* the pool or not.                                                        *)
StartWarmup(k) ==
  /\ k \in toWarm /\ pool = "free"
  /\ toWarm' = toWarm \ {k}
  /\ entry' = Append(entry, New(k, 0))
  /\ listed' = listed \cup {Len(entry) + 1} /\ live' = live + 1
  /\ warming' = warming \cup {Len(entry) + 1}
  /\ UNCHANGED <<owners, pool, exec, acquires>>

WarmedUp(e) ==
  /\ e \in warming /\ pool = "free"
  /\ warming' = warming \ {e}
  /\ entry' = [entry EXCEPT ![e].client = TRUE, ![e].state = "ready"]
  /\ UNCHANGED <<listed, owners, live, pool, exec, toWarm, acquires>>

WarmupFailed(e) ==
  /\ e \in warming /\ pool = "free"
  /\ warming' = warming \ {e}
  /\ listed' = listed \ {e} /\ live' = live - 1
  /\ UNCHANGED <<entry, owners, pool, exec, toWarm, acquires>>

-----------------------------------------------------------------------------
Call(p) == LookUp(p) \/ TryOwner(p) \/ WriteOff(p) \/ CountHit(p) \/ CreateLease(p)
           \/ SlowPath(p) \/ Evict(p)

PoolNext == \/ \E p \in Executions :
                 \/ Call(p) \/ Initialize(p) \/ Release(p)
                 \/ \E k \in Keys, s \in Sessions \cup {None} : Acquire(p, k, s)
                 \/ \E s \in Sessions : RememberSession(p, s)
            \/ \E e \in DOMAIN entry : IdleTimeout(e)
            \/ HealthCheck
            \/ \E k \in Keys : StartWarmup(k)
            \/ \E e \in warming : WarmedUp(e) \/ WarmupFailed(e)

PoolSpec == PoolInit /\ [][PoolNext]_poolVars

(* The goroutine inside Acquire runs, and gets the mutexes it waits for    *)
(* when they are free.                                                     *)
FairPoolSpec == PoolSpec /\ \A p \in Executions : SF_poolVars(Call(p))

-----------------------------------------------------------------------------
(* Through eviction, idle timeout, health check and failed warm-ups, a     *)
(* remembered session leads to a ready process of its own key that is      *)
(* still in the pool, and the capacity check never counts a process that   *)
(* is not: it may count too few, after a warm-up that failed when the      *)
(* health check had already removed it.                                    *)
PoolAgrees ==
  /\ \A k \in Keys, s \in Sessions : owners[k][s] # None =>
       /\ owners[k][s] \in Ids(k)
       /\ entry[owners[k][s]].state = "ready"
  /\ live <= Cardinality(listed)

(* The execution that has, or is about to be given, the counted lease of e.*)
Backs(p, e) ==
  /\ exec[p].entry = e
  /\ \/ exec[p].pc \in {"count", "create"}
     \/ Holds(p) /\ exec[p].generation = entry[e].generation

(* "Should not exist": a process that is leased while nobody will give it  *)
(* back.  No single-lease process gets that way, through stale releases,   *)
(* takeovers and races for its generation; what is written off as a zombie *)
(* is always a lease in use.                                               *)
LeasesBacked ==
  \A e \in DOMAIN entry : entry[e].key \notin Multiplexing =>
    /\ entry[e].count <= 1
    /\ entry[e].count = 1 => \E p \in Executions : Backs(p, e)

(* Every call of Acquire returns, with a lease or without, unless the pool *)
(* has been blocked for good: by somebody who wants to write off a lease   *)
(* another execution has.                                                  *)
PoolDeadlocked ==
  /\ pool = "blocked"
  /\ \E p, q \in Executions : exec[p].pc = "writeoff" /\ Backs(q, exec[p].entry)

AcquireReturnsOrBlocked ==
  \A p \in Executions :
    exec[p].pc \notin {"idle", "leased", "remembered"}
      ~> exec[p].pc \in {"idle", "leased", "remembered"} \/ PoolDeadlocked
=============================================================================
