------------------------------ MODULE SessionChain ------------------------------
(***************************************************************************)
(* The chain of CLI sessions an agent has had in a thread, and the circuit *)
(* breaker built on it: internal/service/a2a/session_chain_store.go (the   *)
(* in-memory store), session_sealer.go (active -> sealing -> sealed) and   *)
(* session_recorder.go, as executeAgent calls them.                        *)
(*                                                                         *)
(* A key is one (agent, thread) pair.  Each region under the store's mutex *)
(* is one step; the sealer and the breaker are check-then-act over two of  *)
(* them.  Record ids are never used twice: they are counted.               *)
(***************************************************************************)
EXTENDS Naturals, Sequences, FiniteSets, SequencesExt

CONSTANTS Keys,                    \* agent:thread pairs
          Sessions,                \* CLI session ids
          Owner,                   \* Owner[s]: the key session s belongs to
          Executions,              \* executeAgent goroutines
          Resumable,               \* bound of the model: sessions run under the mutex
          maxRecords,              \* 1000 in the code
          MaxConsecutiveFailures,  \* 3 in the code
          MaxCreated               \* bound of the model: records ever created

ASSUME OwnerAssumption == Owner \in [Sessions -> Keys]
ASSUME BoundAssumption == /\ maxRecords \in Nat \ {0}
                          /\ MaxConsecutiveFailures \in Nat \ {0}
                          /\ MaxCreated \in Nat
                          /\ Resumable \subseteq Sessions

VARIABLES
  records,      \* id -> record
  chains,       \* key -> ids, in order of creation
  activeIndex,  \* key -> id of its active record, None when absent
  cliIndex,     \* CLI session id -> record id, None when absent
  created,      \* ids handed out so far: 1 .. created
  exec,         \* what each execution is doing with the store
  finalizing,   \* ids handed to a Finalize goroutine
  held          \* keys whose session mutex is held

vars == <<records, chains, activeIndex, cliIndex, created, exec, finalizing, held>>
store == <<records, chains, activeIndex, cliIndex, created>>

None == 0
Record == [key : Keys, cli : Sessions, seq : Nat,
           status : {"active", "sealing", "sealed"}, failures : Nat]
Stage == {"idle", "contended", "waiting", "handed", "checking", "tripped", "running", "recorded", "sealable",
          "counting", "resetting"}
Idle == [stage |-> "idle", cli |-> None, resumed |-> FALSE, id |-> None, overflow |-> FALSE]

Init == /\ records = <<>>
        /\ chains = [k \in Keys |-> <<>>]
        /\ activeIndex = [k \in Keys |-> None]
        /\ cliIndex = [s \in Sessions |-> None]
        /\ created = 0
        /\ exec = [e \in Executions |-> Idle]
        /\ finalizing = {}
        /\ held = {}

-------------------------------------------------------------------------------
(* The store as a value, so that Create can be given in its own steps.     *)
Store == [records |-> records, chains |-> chains,
          activeIndex |-> activeIndex, cliIndex |-> cliIndex]

Becomes(st) == /\ records' = st.records
               /\ chains' = st.chains
               /\ activeIndex' = st.activeIndex
               /\ cliIndex' = st.cliIndex

(* Mutant: the CLI index is forgotten.                                     *)
RemoveButCli(st, id) ==
  LET r == st.records[id] IN
  [records     |-> [i \in DOMAIN st.records \ {id} |-> st.records[i]],
   chains      |-> [st.chains EXCEPT ![r.key] = RemoveFirst(@, id)],
   activeIndex |-> [st.activeIndex EXCEPT ![r.key] = IF @ = id THEN None ELSE @],
   cliIndex    |-> st.cliIndex]

(* removeRecord: the CLI index entry goes, even if it names another record;*)
(* the id is in its chain once.                                            *)
removeRecord(st, id) ==
  LET r == st.records[id] IN
  [records     |-> [i \in DOMAIN st.records \ {id} |-> st.records[i]],
   chains      |-> [st.chains EXCEPT ![r.key] = RemoveFirst(@, id)],
   activeIndex |-> [st.activeIndex EXCEPT ![r.key] = IF @ = id THEN None ELSE @],
   cliIndex    |-> [st.cliIndex EXCEPT ![r.cli] = None]]

insert(st, id, s) ==
  LET k == Owner[s] IN
  [records     |-> [i \in DOMAIN st.records \cup {id} |->
                      IF i = id THEN [key |-> k, cli |-> s, seq |-> Len(st.chains[k]),
                                      status |-> "active", failures |-> 0]
                                ELSE st.records[i]],
   chains      |-> [st.chains EXCEPT ![k] = Append(@, id)],
   activeIndex |-> [st.activeIndex EXCEPT ![k] = id],
   cliIndex    |-> [st.cliIndex EXCEPT ![s] = id]]

(* Mutant: the last resort is any record at all.                           *)
AnyVictim(st) ==
  LET sealed == {i \in DOMAIN st.records : st.records[i].status = "sealed"}
  IN IF sealed # {} THEN sealed ELSE DOMAIN st.records

(* evictOne: any sealed record, else any sealing one, else any active one  *)
(* that its key no longer points to.  Map order makes the choice.          *)
victims(st) ==
  LET ids    == DOMAIN st.records
      sealed == {i \in ids : st.records[i].status = "sealed"}
      closed == {i \in ids : st.records[i].status # "active"}
      stale  == ids \ {st.activeIndex[k] : k \in Keys}
  IN CASE sealed # {} -> sealed [] sealed = {} /\ closed # {} -> closed [] OTHER -> stale

(* Mutant: one record too many before it evicts.                           *)
CreatedLate(s, id) ==
  LET new == created + 1
      st  == insert(Store, new, s)
  IN /\ created < MaxCreated
     /\ created' = new
     /\ \/ /\ Cardinality(DOMAIN st.records) <= maxRecords + 1
           /\ Becomes(st) /\ id = new
        \/ /\ Cardinality(DOMAIN st.records) > maxRecords + 1
           /\ \E v \in victims(st) : Becomes(removeRecord(st, v)) /\ id = new

(* Create(s), handing the record's id, or None when it was rolled back.    *)
Created(s, id) ==
  LET new == created + 1
      st  == insert(Store, new, s)
  IN /\ created < MaxCreated
     /\ created' = new
     /\ \/ /\ Cardinality(DOMAIN st.records) <= maxRecords
           /\ Becomes(st) /\ id = new
        \/ /\ Cardinality(DOMAIN st.records) > maxRecords
           /\ \/ \E v \in victims(st) : Becomes(removeRecord(st, v)) /\ id = new
              \/ victims(st) = {} /\ Becomes(removeRecord(st, new)) /\ id = None

(* Update of the status, of a record that may be gone: one that is no      *)
(* longer active loses its key.                                            *)
Update(id, status) ==
  IF id \notin DOMAIN records THEN UNCHANGED store ELSE
  /\ records' = [records EXCEPT ![id].status = status]
  /\ activeIndex' = [k \in Keys |-> IF activeIndex[k] = id THEN None ELSE activeIndex[k]]
  /\ UNCHANGED <<chains, cliIndex, created>>

(* The failure count of the record the CLI index names for s, if any.      *)
failures(s) == IF cliIndex[s] = None THEN 0 ELSE records[cliIndex[s]].failures

SetFailures(s, n) ==
  /\ records' = IF cliIndex[s] = None THEN records
                ELSE [records EXCEPT ![cliIndex[s]].failures = n]
  /\ UNCHANGED <<chains, activeIndex, cliIndex, created>>

getActive(k) == activeIndex[k]

-------------------------------------------------------------------------------
(* executeAgent with the resume strategy runs one execution of a key at a  *)
(* time, under the session mutex, and asks the breaker first.  A mutex     *)
(* that is held is waited for; a context that is done already is refused   *)
(* there and then, which changes nothing here.                             *)
BeginResume(e, s) ==
  LET free == Owner[s] \notin held IN
  /\ exec[e] = Idle /\ s \in Resumable
  /\ held' = held \cup {Owner[s]}
  /\ exec' = [exec EXCEPT ![e] = [Idle EXCEPT !.stage = IF free THEN "checking" ELSE "contended",
                                              !.cli = s, !.resumed = TRUE]]
  /\ UNCHANGED <<store, finalizing>>

(* Acquire's second locked region: the waiter is queued, whoever holds now *)
(* (their order in the queue is SessionMutex's).                           *)
Enqueue(e) == /\ exec[e].stage = "contended"
              /\ exec' = [exec EXCEPT ![e].stage = "waiting"]
              /\ UNCHANGED <<store, finalizing, held>>

(* The waiter finds the lock it was handed and goes on to the breaker, ... *)
Acquired(e) == /\ exec[e].stage = "handed"
               /\ exec' = [exec EXCEPT ![e].stage = "checking"]
               /\ UNCHANGED <<store, finalizing, held>>

(* ... or its context is done, and Acquire fails: it leaves the queue, but *)
(* a lock that was handed to it is given to nobody.                        *)
AcquireFailed(e) == /\ exec[e].stage \in {"waiting", "handed"}
                    /\ exec' = [exec EXCEPT ![e] = Idle]
                    /\ UNCHANGED <<store, finalizing, held>>

(* With any other strategy there is no mutex and no check, though it may   *)
(* be an old session that runs: the session manager's.                     *)
BeginUnlocked(e, s) ==
  /\ exec[e] = Idle
  /\ exec' = [exec EXCEPT ![e] = [Idle EXCEPT !.stage = "running", !.cli = s]]
  /\ UNCHANGED <<store, finalizing, held>>

Waiting(k) == {e \in Executions : exec[e].stage = "waiting" /\ Owner[exec[e].cli] = k}

(* executeAgent returns, its deferred release with it: the mutex is handed *)
(* to a queued waiter, or is free.                                         *)
Return(e) ==
  LET k == Owner[exec[e].cli] IN
  \/ /\ ~exec[e].resumed
     /\ exec' = [exec EXCEPT ![e] = Idle]
     /\ UNCHANGED held
  \/ /\ exec[e].resumed /\ Waiting(k) = {}
     /\ exec' = [exec EXCEPT ![e] = Idle]
     /\ held' = held \ {k}
  \/ \E w \in Waiting(k) :
       /\ exec[e].resumed
       /\ exec' = [exec EXCEPT ![e] = Idle, ![w].stage = "handed"]
       /\ UNCHANGED held

(* CheckAndSealOnOverflow: the active record of the key is looked up, ...  *)
CheckBreaker(e) ==
  LET id == getActive(Owner[exec[e].cli])
      tripped == id # None /\ records[id].failures >= MaxConsecutiveFailures
  IN /\ exec[e].stage = "checking"
     /\ exec' = [exec EXCEPT ![e].stage = IF tripped THEN "tripped" ELSE "running",
                             ![e].id = IF tripped THEN id ELSE None]
     /\ UNCHANGED <<store, finalizing, held>>

(* ... and sealed.  executeAgent returns before it has deferred the        *)
(* release; if the record has vanished meanwhile it goes on.               *)
TripBreaker(e) ==
  /\ exec[e].stage = "tripped"
  /\ Update(exec[e].id, "sealed")
  /\ exec' = [exec EXCEPT ![e] = IF exec[e].id \in DOMAIN records THEN Idle
                                 ELSE [@ EXCEPT !.stage = "running", !.id = None]]
  /\ UNCHANGED <<finalizing, held>>

(* Mutant: only what has recorded its session gives the mutex back.        *)
AbandonHeld(e) == /\ exec[e].stage = "running"
                  /\ exec' = [exec EXCEPT ![e] = Idle]
                  /\ UNCHANGED <<store, finalizing, held>>

(* Cancelled, or ended without a session id: nothing is recorded.          *)
Abandon(e) == /\ exec[e].stage = "running"
              /\ Return(e)
              /\ UNCHANGED <<store, finalizing>>

(* RecordSuccessfulSession, then ResetConsecutiveFailures.                 *)
RecordSuccessful(e) ==
  /\ exec[e].stage = "running"
  /\ \E id \in 0..MaxCreated : Created(exec[e].cli, id)
  /\ exec' = [exec EXCEPT ![e].stage = "resetting"]
  /\ UNCHANGED <<finalizing, held>>

(* Mutant: one failure is taken off.                                       *)
ResetByOne(e) ==
  /\ exec[e].stage = "resetting"
  /\ SetFailures(exec[e].cli, failures(exec[e].cli) - 1)
  /\ Return(e)
  /\ UNCHANGED finalizing

ResetConsecutiveFailures(e) ==
  /\ exec[e].stage = "resetting"
  /\ SetFailures(exec[e].cli, 0)
  /\ Return(e)
  /\ UNCHANGED finalizing

(* RecordFailedSession: a record of its own, to be sealed at once.  Most   *)
(* errors are no context overflow, the one the breaker counts.             *)
RecordFailed(e, overflow) ==
  /\ exec[e].stage = "running"
  /\ \E id \in 0..MaxCreated :
       /\ Created(exec[e].cli, id)
       /\ exec' = [exec EXCEPT ![e].stage = IF id = None THEN "counting" ELSE "recorded",
                               ![e].id = id, ![e].overflow = overflow]
  /\ UNCHANGED <<finalizing, held>>

(* RequestSeal: only an active record, by what Get said, ...               *)
RequestSeal(e) ==
  LET id == exec[e].id
      sealable == id \in DOMAIN records /\ records[id].status = "active"
  IN /\ exec[e].stage = "recorded"
     /\ exec' = [exec EXCEPT ![e].stage = IF sealable THEN "sealable" ELSE "counting",
                             ![e].id = IF sealable THEN id ELSE None]
     /\ UNCHANGED <<store, finalizing, held>>

(* Mutant: nobody finalizes.                                               *)
SealOnly(e) ==
  /\ exec[e].stage = "sealable"
  /\ Update(exec[e].id, "sealing")
  /\ exec' = [exec EXCEPT ![e].stage = "counting", ![e].id = None]
  /\ UNCHANGED <<finalizing, held>>

(* ... is set sealing, and handed to a goroutine that will finalize it.    *)
Seal(e) ==
  LET id == exec[e].id IN
  /\ exec[e].stage = "sealable"
  /\ Update(id, "sealing")
  /\ finalizing' = finalizing \cup ({id} \cap DOMAIN records)
  /\ exec' = [exec EXCEPT ![e].stage = "counting", ![e].id = None]
  /\ UNCHANGED held

(* IncrementConsecutiveFailures, on the record the CLI index names.        *)
CountFailure(e) ==
  /\ exec[e].stage = "counting"
  /\ IF exec[e].overflow THEN SetFailures(exec[e].cli, failures(exec[e].cli) + 1)
                         ELSE UNCHANGED store
  /\ Return(e)
  /\ UNCHANGED finalizing

(* Finalize: nothing but a sealing record is sealed.                       *)
Finalize(id) ==
  /\ id \in finalizing
  /\ finalizing' = finalizing \ {id}
  /\ IF id \in DOMAIN records /\ records[id].status = "sealing"
     THEN Update(id, "sealed") ELSE UNCHANGED store
  /\ UNCHANGED <<exec, held>>

Step(e) == \/ \E s \in Sessions : BeginResume(e, s) \/ BeginUnlocked(e, s)
           \/ Enqueue(e) \/ Acquired(e) \/ AcquireFailed(e)
           \/ CheckBreaker(e) \/ TripBreaker(e) \/ Abandon(e)
           \/ RecordSuccessful(e) \/ ResetConsecutiveFailures(e)
           \/ \E overflow \in BOOLEAN : RecordFailed(e, overflow)
           \/ RequestSeal(e) \/ Seal(e) \/ CountFailure(e)

Next == \/ \E e \in Executions : Step(e)
        \/ \E id \in finalizing : Finalize(id)

Spec == Init /\ [][Next]_vars

(* The goroutines RecordFailedSession starts do run.                       *)
FairSpec == Spec /\ \A id \in 1..MaxCreated : WF_vars(Finalize(id))

-------------------------------------------------------------------------------
TypeOK == /\ created \in 0..MaxCreated
          /\ DOMAIN records \subseteq 1..created
          /\ \A id \in DOMAIN records : records[id] \in Record
          /\ chains \in [Keys -> Seq(1..created)]
          /\ activeIndex \in [Keys -> 0..created]
          /\ cliIndex \in [Sessions -> 0..created]
          /\ finalizing \in SUBSET (1..created)
          /\ held \in SUBSET Keys
          /\ exec \in [Executions -> [stage : Stage, cli : Sessions \cup {None},
                                      resumed : BOOLEAN, id : 0..created,
                                      overflow : BOOLEAN]]

(* The three indexes never go stale, through supersession, sealing by two  *)
(* parties, eviction and roll-back: a session's entry names the newest of  *)
(* its records, the session a key would resume is active and its own, and  *)
(* a chain lists all records of its key, oldest first.                     *)
IndexesAgree ==
  /\ \A s \in Sessions : cliIndex[s] # None =>
       /\ cliIndex[s] \in DOMAIN records
       /\ cliIndex[s] = Max({id \in DOMAIN records : records[id].cli = s})
  /\ \A k \in Keys :
       /\ ToSet(chains[k]) = {id \in DOMAIN records : records[id].key = k}
       /\ \A i, j \in DOMAIN chains[k] : i < j => chains[k][i] < chains[k][j]
       /\ activeIndex[k] # None =>
            /\ activeIndex[k] \in DOMAIN records
            /\ records[activeIndex[k]].status = "active"
            /\ records[activeIndex[k]].key = k

(* The store never outgrows its capacity once Create has returned.         *)
CapacityKept == Cardinality(DOMAIN records) <= maxRecords

(* "Refuse to evict a truly active session": the record a key points to    *)
(* leaves the store only when the key has got a newer one.                 *)
CurrentSurvives ==
  [][\A k \in Keys :
       activeIndex[k] # None /\ activeIndex[k] \notin DOMAIN records' =>
         activeIndex'[k] \notin {None, activeIndex[k]}]_vars

(* "A session stuck in sealing cannot be recovered": every record that     *)
(* enters sealing leaves it again, whatever was evicted or sealed meanwhile*)
SealingEnds ==
  \A id \in 1..MaxCreated :
    (id \in DOMAIN records /\ records[id].status = "sealing")
      ~> ~(id \in DOMAIN records /\ records[id].status = "sealing")

Holders(k) == {e \in Executions : /\ exec[e].resumed /\ Owner[exec[e].cli] = k
                                  /\ exec[e].stage \notin {"contended", "waiting"}}
Orphaned(k) == k \in held /\ Holders(k) = {}

(* The holder sealed what it had found, or gave up when it had been handed *)
(* the mutex already.                                                      *)
LostBy(k) == \E e \in Holders(k) :
               \/ exec[e].stage = "tripped" /\ records'[exec[e].id].status = "sealed"
               \/ exec[e].stage = "handed" /\ exec'[e] = Idle

(* A session mutex whose holder has gone without giving it back is lost    *)
(* for good, and there are two ways to lose it: a breaker that sealed the  *)
(* record it had found, and a waiter whose context ended when the mutex    *)
(* had been handed to it.  No other return does it, whoever waits then.    *)
OrphanedTwoWays ==
  [][\A k \in Keys : /\ Orphaned(k) => Orphaned(k)'
                     /\ Orphaned(k)' /\ ~Orphaned(k) => LostBy(k)]_vars
===============================================================================
