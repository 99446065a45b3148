----------------------------- MODULE SessionMutex -----------------------------
(***************************************************************************)
(* internal/service/agent/session_mutex.go for one sessionKey              *)
(* (threadID:agentID): the lock executeAgent takes before it resumes a CLI *)
(* session, so that two invocations never resume the same one.             *)
(*                                                                         *)
(* Keys are independent (every map access is by sessionKey), so one key is *)
(* the whole component.  An invocation acquires at most once, so a lock    *)
(* object is named by the invocation it was created for.  Each region      *)
(* under sm.mu is one step; Acquire has two of them, with the waiter built *)
(* in between, outside the mutex.                                          *)
(***************************************************************************)
EXTENDS Sequences, Naturals, SequencesExt

CONSTANTS Callers,      \* invocations of one (thread, agent) pair
          None          \* no lock object
ASSUME NoneAssumption == None \notin Callers

VARIABLES pc,           \* pc[c]: where invocation c is in Acquire .. release
          held,         \* held[sessionKey]: the lock's owner, None when absent
          waiters,      \* waiters[sessionKey]: queue of waiting invocations
          resolved,     \* invocations whose resolve channel (capacity 1) is full
          released,     \* lock objects whose releaseOnce is set
          cancelled     \* invocations whose ctx is done

vars == <<pc, held, waiters, resolved, released, cancelled>>

PC == {"idle", "contended", "waiting", "leaving", "holding", "done", "refused"}

Goto(c, from, to) == pc[c] = from /\ pc' = [pc EXCEPT ![c] = to]

Init == /\ pc = [c \in Callers |-> "idle"]
        /\ held = None
        /\ waiters = <<>>
        /\ resolved = {}
        /\ released = {}
        /\ cancelled = {}

-------------------------------------------------------------------------------
(* CancelAgent, the stale-agent sweep or a request deadline ends c's ctx.  *)
Cancel(c) == /\ c \notin cancelled
             /\ cancelled' = cancelled \cup {c}
             /\ UNCHANGED <<pc, held, waiters, resolved, released>>

(* The select on ctx.Done() before anything else.                          *)
AcquireRefused(c) == /\ c \in cancelled
                     /\ Goto(c, "idle", "refused")
                     /\ UNCHANGED <<held, waiters, resolved, released, cancelled>>

(* No contention: the lock object is created and stored.                   *)
AcquireFree(c) == /\ c \notin cancelled
                  /\ held = None
                  /\ Goto(c, "idle", "holding")
                  /\ held' = c
                  /\ UNCHANGED <<waiters, resolved, released, cancelled>>

(* Contention: sm.mu is unlocked with nothing recorded yet.                *)
AcquireContended(c) == /\ c \notin cancelled
                       /\ held # None
                       /\ Goto(c, "idle", "contended")
                       /\ UNCHANGED <<held, waiters, resolved, released, cancelled>>

(* sm.mu is taken again and the waiter appended; held is not looked at.    *)
Enqueue(c) == /\ Goto(c, "contended", "waiting")
              /\ waiters' = Append(waiters, c)
              /\ UNCHANGED <<held, resolved, released, cancelled>>

(* select: the resolve channel delivers the release function.              *)
Wake(c) == /\ c \in resolved
           /\ Goto(c, "waiting", "holding")
           /\ resolved' = resolved \ {c}
           /\ UNCHANGED <<held, waiters, released, cancelled>>

(* Mutant: a waiter gives up by itself, after a time.                      *)
GiveUpAnyTime(c) == /\ Goto(c, "waiting", "leaving")
                    /\ UNCHANGED <<held, waiters, resolved, released, cancelled>>

(* select: ctx.Done() is chosen, also when resolve is ready as well.       *)
GiveUp(c) == /\ c \in cancelled
             /\ Goto(c, "waiting", "leaving")
             /\ UNCHANGED <<held, waiters, resolved, released, cancelled>>

(* Mutant: it takes out the head of the queue, whoever that is.            *)
LeaveHead(c) == /\ Goto(c, "leaving", "refused")
                /\ waiters' = IF waiters = <<>> THEN waiters ELSE Tail(waiters)
                /\ UNCHANGED <<held, resolved, released, cancelled>>

(* The cancelled waiter takes itself out of the queue, if still in it.     *)
Leave(c) == /\ Goto(c, "leaving", "refused")
            /\ \/ \E i \in DOMAIN waiters : /\ waiters[i] = c
                                            /\ waiters' = RemoveAt(waiters, i)
               \/ c \notin Range(waiters) /\ UNCHANGED waiters
            /\ UNCHANGED <<held, resolved, released, cancelled>>

(* Mutant: with nobody waiting it returns before it has deleted the lock.  *)
HandOverKeepsLock == IF waiters = <<>>
                       THEN UNCHANGED <<held, waiters, resolved>>
                       ELSE /\ held' = Head(waiters)
                            /\ waiters' = Tail(waiters)
                            /\ resolved' = resolved \cup {Head(waiters)}

(* sm.release: forget the lock and hand a new one to the first waiter.     *)
HandOver == IF waiters = <<>>
              THEN held' = None /\ UNCHANGED <<waiters, resolved>>
              ELSE /\ held' = Head(waiters)
                   /\ waiters' = Tail(waiters)
                   /\ resolved' = resolved \cup {Head(waiters)}

(* Mutant: no releaseOnce, so a second call hands the lock over again.     *)
ReleaseAgain(c) == /\ pc[c] \in {"holding", "done"}
                   /\ released' = released \cup {c}
                   /\ pc' = [pc EXCEPT ![c] = "done"]
                   /\ HandOver
                   /\ UNCHANGED cancelled

(* The release function of c's lock, called when c's execution ends.  A   *)
(* second call finds releaseOnce set and returns: a stutter.               *)
Release(c) == /\ pc[c] \in {"holding", "done"}
              /\ c \notin released
              /\ released' = released \cup {c}
              /\ pc' = [pc EXCEPT ![c] = "done"]
              /\ HandOver
              /\ UNCHANGED cancelled

Step(c) == \/ AcquireRefused(c) \/ AcquireFree(c) \/ AcquireContended(c)
           \/ Enqueue(c) \/ Wake(c) \/ GiveUp(c) \/ Leave(c) \/ Release(c)

Next == \E c \in Callers : Step(c) \/ Cancel(c)

Spec == Init /\ [][Next]_vars

(* Goroutines are scheduled, and an execution that holds the lock ends.    *)
(* Nobody is obliged to cancel.                                            *)
FairSpec == Spec /\ \A c \in Callers : WF_vars(Step(c))

-------------------------------------------------------------------------------
(* The shape of the state.  The lock stored for the key is never one that  *)
(* its owner has already released.                                         *)
TypeOK == /\ pc \in [Callers -> PC]
          /\ held \in (Callers \ released) \cup {None}
          /\ waiters \in Seq(Callers)
          /\ resolved \in SUBSET Callers
          /\ released \in SUBSET Callers
          /\ cancelled \in SUBSET Callers

Holders == {c \in Callers : pc[c] = "holding"}

(* "Prevents concurrent resume of the same sessionKey": no two invocations *)
(* are between Acquire's return and their release, whatever the order of   *)
(* contention, hand-over, cancellation and repeated release.               *)
MutualExclusion == \A c, d \in Holders : c = d

(* No waiter is forgotten and none is promised twice: an invocation        *)
(* blocked in the select is either in the queue, once, or already has the  *)
(* lock in its resolve channel, never both; and the queue names only       *)
(* invocations that are still inside Acquire.                              *)
WaiterAccounted ==
  /\ \A c \in Callers : pc[c] = "waiting" =>
        (c \in Range(waiters)) # (c \in resolved)
  /\ \A i, j \in DOMAIN waiters : waiters[i] = waiters[j] => i = j
  /\ \A i \in DOMAIN waiters : pc[waiters[i]] \in {"waiting", "leaving"}

(* The mutex implements the promise of KeyedLock: contention is invisible, *)
(* and the grant happens when the caller leaves the select with the lock.  *)
Promise == INSTANCE KeyedLock WITH
  status <- [c \in Callers |->
               CASE pc[c] \in {"contended", "waiting", "leaving"} -> "waiting"
                 [] OTHER -> pc[c]]
ImplementsKeyedLock == Promise!Spec

(* What the contention test expects of an uncancelled second Acquire: that *)
(* it completes once the lock is released (session_mutex_test.go).         *)
AcquireCompletes ==
  \A c \in Callers : pc[c] = "waiting" ~> pc[c] # "waiting" \/ c \in cancelled
===============================================================================
