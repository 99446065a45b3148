------------------------------ MODULE SessionLock ------------------------------
(***************************************************************************)
(* internal/service/im/session_lock.go, for one chat: HandleInboundMessage *)
(* handles a chat's messages one at a time.  There is no queue: whoever    *)
(* comes leaves its own done channel in the map and waits for the channel  *)
(* it found there, so the callers form a chain.                            *)
(*                                                                         *)
(* A region under sl.mu is one step.  The release function deletes the map *)
(* entry under the mutex and closes the channel after it.                  *)
(***************************************************************************)
EXTENDS Naturals, Sequences, SequencesExt

CONSTANTS Callers,   \* goroutines that handle a message of the chat
          None

ASSUME NoneAssumption == None \notin Callers

VARIABLES
  pc,        \* where each caller is
  chains,    \* whose done channel the map holds, None when absent
  oldDone,   \* oldDone[c]: whose channel c waits for, None when it found none
  closed,    \* callers whose done channel is closed
  arrivals   \* callers in the order they took sl.mu (history)

vars == <<pc, chains, oldDone, closed, arrivals>>

PC == {"idle", "waiting", "holding", "unlinked", "done"}

Init == /\ pc = [c \in Callers |-> "idle"]
        /\ chains = None
        /\ oldDone = [c \in Callers |-> None]
        /\ closed = {}
        /\ arrivals = <<>>

Goto(c, from, to) == pc[c] = from /\ pc' = [pc EXCEPT ![c] = to]

(* Mutant: the entry stays the first caller's.                             *)
AcquireBehind(c) == /\ Goto(c, "idle", IF chains = None THEN "holding" ELSE "waiting")
                    /\ oldDone' = [oldDone EXCEPT ![c] = chains]
                    /\ chains' = IF chains = None THEN c ELSE chains
                    /\ arrivals' = Append(arrivals, c)
                    /\ UNCHANGED closed

(* Acquire, under sl.mu: look up the chain and replace it.                 *)
Acquire(c) == /\ Goto(c, "idle", IF chains = None THEN "holding" ELSE "waiting")
              /\ oldDone' = [oldDone EXCEPT ![c] = chains]
              /\ chains' = c
              /\ arrivals' = Append(arrivals, c)
              /\ UNCHANGED closed

(* Mutant: a waiter is woken before the channel it waits for is closed, as *)
(* soon as its predecessor has left the map.                               *)
ProceedEarly(c) == /\ \/ oldDone[c] \in closed
                      \/ oldDone[c] # None /\ chains # oldDone[c]
                   /\ Goto(c, "waiting", "holding")
                   /\ UNCHANGED <<chains, oldDone, closed, arrivals>>

(* <-oldDone                                                               *)
Proceed(c) == /\ oldDone[c] \in closed
              /\ Goto(c, "waiting", "holding")
              /\ UNCHANGED <<chains, oldDone, closed, arrivals>>

(* Mutant: the entry is deleted whoever it belongs to.                     *)
UnlinkAny(c) == /\ Goto(c, "holding", "unlinked")
                /\ chains' = None
                /\ UNCHANGED <<oldDone, closed, arrivals>>

(* Mutant: nothing is left to do once another caller has taken its place.  *)
UnlinkOrReturn(c) == /\ Goto(c, "holding", IF chains = c THEN "unlinked" ELSE "done")
                     /\ chains' = IF chains = c THEN None ELSE chains
                     /\ UNCHANGED <<oldDone, closed, arrivals>>

(* The release function, under sl.mu: the entry is deleted unless another  *)
(* caller has taken its place, ...                                         *)
Unlink(c) == /\ Goto(c, "holding", "unlinked")
             /\ chains' = IF chains = c THEN None ELSE chains
             /\ UNCHANGED <<oldDone, closed, arrivals>>

(* Mutant: it closes the channel it has waited for.                        *)
CloseOld(c) == /\ Goto(c, "unlinked", "done")
               /\ closed' = closed \cup {oldDone[c]}
               /\ UNCHANGED <<chains, oldDone, arrivals>>

(* ... and its channel is closed.                                          *)
Close(c) == /\ Goto(c, "unlinked", "done")
            /\ closed' = closed \cup {c}
            /\ UNCHANGED <<chains, oldDone, arrivals>>

Step(c) == Proceed(c) \/ Unlink(c) \/ Close(c)

Next == \E c \in Callers : Acquire(c) \/ Step(c)

Spec == Init /\ [][Next]_vars

(* Goroutines run; HandleInboundMessage returns, its lookups and its spawn *)
(* being bounded calls, and its deferred release with it.                  *)
FairSpec == Spec /\ \A c \in Callers : WF_vars(Step(c))

-------------------------------------------------------------------------------
TypeOK == /\ pc \in [Callers -> PC]
          /\ chains \in Callers \cup {None}
          /\ oldDone \in [Callers -> Callers \cup {None}]
          /\ closed \in SUBSET Callers
          /\ arrivals \in Seq(Callers)

Arrived(c) == pc[c] # "idle"

(* Nothing but the callers' channels links one message to the next: no two *)
(* callers wait for the same channel, and the map never names a caller     *)
(* that has let go of the chat.                                            *)
ChainUnbranched ==
  /\ \A c, d \in Callers : oldDone[c] # None /\ oldDone[c] = oldDone[d] => c = d
  /\ chains # None => pc[chains] \in {"waiting", "holding"}

(* "They will be serialized per sessionID", and a chat's messages are      *)
(* handled in the order in which they came in: nobody enters while one     *)
(* that came earlier has not let go.                                       *)
InOrder ==
  \A i, j \in DOMAIN arrivals :
    i < j /\ pc[arrivals[j]] \in {"holding", "unlinked", "done"} =>
      pc[arrivals[i]] \in {"unlinked", "done"}

(* The lock implements the promise of KeyedLock, and nobody is refused: it *)
(* takes no context.                                                       *)
Promise == INSTANCE KeyedLock WITH
  status <- [c \in Callers |-> IF pc[c] = "unlinked" THEN "done" ELSE pc[c]],
  cancelled <- {}
ImplementsKeyedLock == Promise!Spec

(* "The release function must be called to unblock the next waiter": once  *)
(* every holder releases, every caller that came gets through.             *)
EveryoneServed == \A c \in Callers : pc[c] = "waiting" ~> pc[c] = "holding"
===============================================================================
