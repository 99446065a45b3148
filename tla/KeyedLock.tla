------------------------------ MODULE KeyedLock ------------------------------
(***************************************************************************)
(* What a per-key lock of this program promises its callers, whatever      *)
(* queues and channels it is built from.  A caller asks at most once (one  *)
(* goroutine, one acquisition), holds the lock alone, and gives it back or *)
(* is refused because its context was cancelled.                           *)
(*                                                                         *)
(* Implemented by SessionMutex (internal/service/agent/session_mutex.go)   *)
(* and by SessionLock (internal/service/im/session_lock.go).               *)
(***************************************************************************)
CONSTANT Callers        \* the goroutines that contend for one key

VARIABLES status,       \* status[c]: where c stands with the lock
          cancelled     \* callers whose context is done

vars == <<status, cancelled>>

Status == {"idle", "waiting", "holding", "done", "refused"}

Holders == {c \in Callers : status[c] = "holding"}

Init == /\ status = [c \in Callers |-> "idle"]
        /\ cancelled = {}

Cancel(c) == /\ cancelled' = cancelled \cup {c}
             /\ UNCHANGED status

Move(c, from, to) == /\ status[c] \in from
                     /\ status' = [status EXCEPT ![c] = to]
                     /\ UNCHANGED cancelled

Ask(c)    == Move(c, {"idle"}, "waiting")
Grant(c)  == Holders = {} /\ Move(c, {"idle", "waiting"}, "holding")
Refuse(c) == c \in cancelled /\ Move(c, {"idle", "waiting"}, "refused")
Return(c) == Move(c, {"holding"}, "done")

Next == \E c \in Callers : Cancel(c) \/ Ask(c) \/ Grant(c) \/ Refuse(c) \/ Return(c)

Spec == Init /\ [][Next]_vars

TypeOK == /\ status \in [Callers -> Status]
          /\ cancelled \in SUBSET Callers

(* At most one caller is inside the section the lock protects.             *)
MutualExclusion == \A c, d \in Holders : c = d
==============================================================================
