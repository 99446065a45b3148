---------------------- MODULE InvocationLifecycleProofs ----------------------
(***************************************************************************)
(* Safety of InvocationLifecycle for any set of invocations.               *)
(***************************************************************************)
EXTENDS InvocationLifecycle, TLAPS

(* The strengthening of UndisturbedFinishes: its row is finished as soon   *)
(* as a goroutine has nothing left to do but its outermost defer.          *)
LeavingFinished ==
  \A i \in Invocations : pc[i] = "leaving" /\ i \notin ctxDone => row[i] \in Finished

(* Where a row says cancelled while its goroutine is past the write that   *)
(* ignores it, the goroutine has been stopped, is about to be, or was      *)
(* evicted before CancelAgent came.                                        *)
CancelReaches ==
  \A i \in Invocations :
    Live(i) /\ pc[i] # "started" /\ row[i] = "cancelled" =>
      i \in ctxDone \/ canceller[i] = "written" \/ marker[i] # "none"

Inv == /\ TypeOK
       /\ EntryHasGoroutine
       /\ UnreachableIsCondemned
       /\ CancelReaches
       /\ LeavingFinished
       /\ UndisturbedFinishes
       /\ OrphansInterrupted

-------------------------------------------------------------------------------
LEMMA InitInv == Init => Inv
<1> QED BY DEF Init, Inv, TypeOK, Status, PC, Finished, Executing, Live,
           EntryHasGoroutine, UnreachableIsCondemned, CancelReaches, LeavingFinished,
           UndisturbedFinishes, OrphansInterrupted

LEMMA NextInv == Inv /\ [Next]_vars => Inv'
<1> SUFFICES ASSUME Inv, [Next]_vars PROVE Inv'
  OBVIOUS
<1> USE DEF Inv, TypeOK, Status, PC, Finished, Executing, Live, Goto, Write,
        WriteUnlessDone, Drop, helpers, EntryHasGoroutine,
        UnreachableIsCondemned, CancelReaches, LeavingFinished, UndisturbedFinishes,
        OrphansInterrupted
<1>1. ASSUME NEW i \in Invocations, Admit(i) PROVE Inv'
  BY <1>1 DEF Admit
<1>2. ASSUME NEW i \in Invocations, Create(i) PROVE Inv'
  BY <1>2 DEF Create
<1>3. ASSUME NEW i \in Invocations, Register(i) PROVE Inv'
  BY <1>3 DEF Register
<1>4. ASSUME NEW i \in Invocations, MarkRunning(i) PROVE Inv'
  BY <1>4 DEF MarkRunning
<1>5. ASSUME NEW i \in Invocations, StorePrompt(i) PROVE Inv'
  BY <1>5 DEF StorePrompt
<1>6. ASSUME NEW i \in Invocations, Launch(i) PROVE Inv'
  BY <1>6 DEF Launch
<1>7. ASSUME NEW i \in Invocations, Fail(i) PROVE Inv'
  BY <1>7 DEF Fail
<1>8. ASSUME NEW i \in Invocations, SaveSessionIDEarly(i) PROVE Inv'
  BY <1>8 DEF SaveSessionIDEarly
<1>9. ASSUME NEW i \in Invocations, AskUser(i) PROVE Inv'
  BY <1>9 DEF AskUser
<1>10. ASSUME NEW i \in Invocations, AnswerUser(i) PROVE Inv'
  BY <1>10 DEF AnswerUser
<1>11. ASSUME NEW i \in Invocations, ReturnError(i) PROVE Inv'
  BY <1>11 DEF ReturnError
<1>12. ASSUME NEW i \in Invocations, ReturnResult(i) PROVE Inv'
  BY <1>12 DEF ReturnResult
<1>13. ASSUME NEW i \in Invocations, Interrupt(i) PROVE Inv'
  BY <1>13 DEF Interrupt
<1>14. ASSUME NEW i \in Invocations, Settle(i) PROVE Inv'
  BY <1>14 DEF Settle
<1>15. ASSUME NEW i \in Invocations, SaveSessionID(i) PROVE Inv'
  BY <1>15 DEF SaveSessionID
<1>16. ASSUME NEW i \in Invocations, CheckCancelled(i) PROVE Inv'
  BY <1>16 DEF CheckCancelled
<1>17. ASSUME NEW i \in Invocations, StoreFailed(i) PROVE Inv'
  BY <1>17 DEF StoreFailed
<1>18. ASSUME NEW i \in Invocations, StoreCompleted(i) PROVE Inv'
  BY <1>18 DEF StoreCompleted
<1>19. ASSUME NEW i \in Invocations, Leave(i) PROVE Inv'
  BY <1>19 DEF Leave
<1>20. ASSUME NEW i \in Invocations, CancelRead(i) PROVE Inv'
  BY <1>20 DEF CancelRead
<1>21. ASSUME NEW i \in Invocations, CancelWrite(i) PROVE Inv'
  BY <1>21 DEF CancelWrite
<1>22. ASSUME NEW i \in Invocations, CancelStop(i) PROVE Inv'
  BY <1>22 DEF CancelStop
<1>23. ASSUME NEW i \in Invocations, Sweep(i) PROVE Inv'
  BY <1>23 DEF Sweep
<1>24. ASSUME NEW i \in Invocations, MarkFailed(i) PROVE Inv'
  BY <1>24 DEF MarkFailed
<1>25. ASSUME NEW i \in Invocations, NEW j \in Invocations, AdmitInPlaceOf(i, j) PROVE Inv'
  BY <1>25 DEF AdmitInPlaceOf
<1>26. CASE Crash
  BY <1>26 DEF Crash
<1>27. CASE Restart
  BY <1>27 DEF Restart
<1>28. ASSUME NEW i \in Invocations, Chunk(i) PROVE Inv'
  BY <1>28 DEF Chunk
<1>29. ASSUME NEW i \in Invocations, Age(i) PROVE Inv'
  BY <1>29 DEF Age
<1>30. CASE UNCHANGED vars
  BY <1>30 DEF vars
<1> HIDE DEF Inv
<1> QED
  BY <1>1, <1>2, <1>3, <1>4, <1>5, <1>6, <1>7, <1>8, <1>9, <1>10, <1>11, <1>12, <1>13, <1>14, <1>15, <1>16, <1>17, <1>18, <1>19, <1>20, <1>21, <1>22, <1>23, <1>24, <1>25, <1>26, <1>27, <1>28, <1>29, <1>30
  DEF Next, Spawn, Advance, Return, Stream, Stop

LEMMA InvInvariant == Spec => []Inv
<1> QED BY InitInv, NextInv, PTL DEF Spec

-------------------------------------------------------------------------------
(* The three records of an invocation keep their shape, and only a running *)
(* agent waits for input.                                                  *)
THEOREM TypeCorrect == Spec => []TypeOK
<1>1. Inv => TypeOK
  BY DEF Inv
<1> QED BY <1>1, InvInvariant, PTL

(* An entry of runningAgents always has a goroutine that will delete it.   *)
THEOREM EntriesHaveGoroutines == Spec => []EntryHasGoroutine
<1>1. Inv => EntryHasGoroutine
  BY DEF Inv
<1> QED BY <1>1, InvInvariant, PTL

(* A goroutine that CancelAgent cannot find has been stopped or condemned. *)
THEOREM UnreachableAreCondemned == Spec => []UnreachableIsCondemned
<1>1. Inv => UnreachableIsCondemned
  BY DEF Inv
<1> QED BY <1>1, InvInvariant, PTL

(* executeAgent leaves a finished row behind unless somebody stopped it.   *)
THEOREM UndisturbedFinish == Spec => []UndisturbedFinishes
<1>1. Inv => UndisturbedFinishes
  BY DEF Inv
<1> QED BY <1>1, InvInvariant, PTL

(* Reconcile leaves no running row of a previous life, and nothing that is *)
(* left of that life can make one again.                                   *)
THEOREM OrphansAreInterrupted == Spec => []OrphansInterrupted
<1>1. Inv => OrphansInterrupted
  BY DEF Inv
<1> QED BY <1>1, InvInvariant, PTL

(* The agent's context is the second line of defence: an invocation is not *)
(* reported completed once it is done, however early the check was.  Before*)
(* that a stored cancellation is completed over only between CancelAgent's *)
(* write and its stop, or out of reach of its stop.  And whatever still    *)
(* writes a row when its goroutine is gone, it only makes it failed,       *)
(* cancelled or interrupted.                                               *)
THEOREM OneWindowToComplete == Spec => CompletedOnlyInWindow
<1> DEFINE Kept(k) ==
      /\ row[k] # "completed" /\ row'[k] = "completed" =>
           /\ k \notin ctxDone
           /\ row[k] = "cancelled" => canceller[k] = "written" \/ marker[k] # "none"
      /\ pc[k] \in {"ended", "lost"} /\ row'[k] # row[k] =>
           row'[k] \in {"failed", "cancelled", "interrupted"}
<1>1. Inv /\ [Next]_vars => [\A i \in Invocations : Kept(i)]_vars
  <2> SUFFICES ASSUME Inv, Next, NEW k \in Invocations PROVE Kept(k)
    OBVIOUS
  <2> USE DEF Inv, TypeOK, Goto, Write, WriteUnlessDone, Drop
  <2>1. ASSUME NEW i \in Invocations,
               \/ Spawn(i) \/ Return(i) \/ Stream(i) \/ CancelRead(i) \/ Stop(i)
               \/ Age(i) \/ Sweep(i)
        PROVE  Kept(k)
    BY <2>1 DEF Spawn, Admit, AdmitInPlaceOf, Create, Return, ReturnError,
       ReturnResult, Stream, SaveSessionIDEarly, Chunk, AskUser, AnswerUser,
       CancelRead, Stop, CancelWrite, CancelStop, MarkFailed, Age, Sweep
  <2>2. ASSUME NEW i \in Invocations, Advance(i), ~StoreCompleted(i)
        PROVE  Kept(k)
    BY <2>2 DEF Advance, Register, MarkRunning, StorePrompt, Launch, Fail, Interrupt,
       Settle, SaveSessionID, CheckCancelled, StoreFailed, Leave
  <2>3. ASSUME NEW i \in Invocations, StoreCompleted(i)
        PROVE  Kept(k)
    BY <2>3 DEF StoreCompleted, CancelReaches, Live, Executing
  <2>4. CASE Crash \/ Restart
    BY <2>4 DEF Crash, Restart
  <2> QED BY <2>1, <2>2, <2>3, <2>4 DEF Next
<1> QED BY <1>1, InvInvariant, PTL DEF Spec, CompletedOnlyInWindow

(* The map of running agents is what CancelAgent, the sweep and the check  *)
(* for a running agent go by.                                              *)
THEOREM EntriesMatchGoroutines == Spec => []EntriesMatch
<1> QED BY EntriesHaveGoroutines, UnreachableAreCondemned, PTL DEF EntriesMatch
===============================================================================
