-------------------------- MODULE InvocationLifecycle --------------------------
(***************************************************************************)
(* The life of agent invocations in one thread:                            *)
(* internal/service/agent/execution_service.go (SpawnAgent, executeAgent,  *)
(* CancelAgent, the stale-agent sweep, the timeout check of a new user     *)
(* message) with the row in agent_invocations (internal/repo) and the      *)
(* StartupReconciler that runs after a crash.                              *)
(*                                                                         *)
(* An invocation has three records that nothing updates together: its row  *)
(* in the database, the goroutine's own copy of the row, which every       *)
(* Update writes back whole, and its entry in the runningAgents map, which *)
(* is what CancelAgent and the sweep can reach.  A step is one database    *)
(* call or one region under es.mu.                                         *)
(*                                                                         *)
(* Assumed of the database: a call fails only because its context is done. *)
(*                                                                         *)
(* Time is the age of an entry (LastActiveAt): without a chunk it becomes  *)
(* stale, older than agentExecutionTimeout, unless a tool is active.       *)
(***************************************************************************)
EXTENDS Naturals

CONSTANT Invocations

VARIABLES
  up,             \* the server has finished starting
  row,            \* row[i]: the status column, "none" before Create
  pc,             \* pc[i]: where i's SpawnAgent / executeAgent goroutine is
  running,        \* keys of es.runningAgents
  ctxDone,        \* invocations whose agent context has been cancelled
  waitingInput,   \* RunningAgent.WaitingForUserInput
  activity,       \* activity[i]: age of LastActiveAt, "tool" while ActiveToolCount > 0
  canceller,      \* canceller[i]: where a CancelAgent(i) call is
  marker          \* marker[i]: the markInvocationFailed goroutine for i

vars == <<up, row, pc, running, ctxDone, waitingInput, activity, canceller, marker>>
helpers == <<activity, canceller, marker>>

Finished == {"completed", "failed", "cancelled", "interrupted"}
Status   == {"none", "pending", "running"} \cup Finished

Executing == {"started", "preparing", "prepared", "executing", "settling",
              "interrupting", "saving", "erring", "failing", "completing",
              "leaving"}
PC == {"absent", "admitted", "created", "ended", "lost"} \cup Executing

Init == /\ up = TRUE
        /\ row = [i \in Invocations |-> "none"]
        /\ pc = [i \in Invocations |-> "absent"]
        /\ running = {}
        /\ ctxDone = {}
        /\ waitingInput = {}
        /\ activity = [i \in Invocations |-> "fresh"]
        /\ canceller = [i \in Invocations |-> "idle"]
        /\ marker = [i \in Invocations |-> "none"]

Goto(i, from, to) == pc[i] = from /\ pc' = [pc EXCEPT ![i] = to]

(* invocationRepo.Update with a context of its own: always writes.         *)
Write(i, status) == row' = [row EXCEPT ![i] = status]

(* invocationRepo.Update with the agent's context: once that is done the   *)
(* statement is refused, the error logged, and the goroutine goes on.      *)
WriteUnlessDone(i, status) ==
  row' = IF i \in ctxDone THEN row ELSE [row EXCEPT ![i] = status]

(* Mutant: the entry goes, its waiting flag is kept elsewhere and stays.   *)
DropEntryOnly(i) == /\ running' = running \ {i}
                    /\ activity' = [activity EXCEPT ![i] = "fresh"]
                    /\ UNCHANGED waitingInput

(* delete(es.runningAgents, i), and with the entry all that it says of i.  *)
Drop(i) == /\ running' = running \ {i}
           /\ waitingInput' = waitingInput \ {i}
           /\ activity' = [activity EXCEPT ![i] = "fresh"]

-------------------------------------------------------------------------------
(* SpawnAgentForUserMessage.  A message starts an agent when the map has   *)
(* none for the thread.                                                    *)
Admit(i) == /\ up
            /\ running = {}
            /\ Goto(i, "absent", "admitted")
            /\ UNCHANGED <<up, row, running, ctxDone, waitingInput, helpers>>

(* The running agent j timed out: its entry is deleted and its row failed  *)
(* in the background, but its context is left alone.                       *)
AdmitInPlaceOf(i, j) ==
  /\ up
  /\ j \in running /\ activity[j] = "stale"
  /\ Goto(i, "absent", "admitted")
  /\ Drop(j)
  /\ marker' = [marker EXCEPT ![j] = "launched"]
  /\ UNCHANGED <<up, row, ctxDone, canceller>>

(* SpawnAgent, from a message already admitted or straight from a handler  *)
(* or another agent: the row is created, pending.                          *)
Create(i) == /\ up
             /\ pc[i] \in {"absent", "admitted"}
             /\ pc' = [pc EXCEPT ![i] = "created"]
             /\ Write(i, "pending")
             /\ UNCHANGED <<up, running, ctxDone, waitingInput, helpers>>

(* ... then the map entry, and the goroutine is started.                   *)
Register(i) == /\ Goto(i, "created", "started")
               /\ running' = running \cup {i}
               /\ UNCHANGED <<up, row, ctxDone, waitingInput, helpers>>

-------------------------------------------------------------------------------
(* executeAgent: the row is set running whatever it says.                  *)
MarkRunning(i) == /\ Goto(i, "started", "preparing")
                  /\ WriteUnlessDone(i, "running")
                  /\ UNCHANGED <<up, running, ctxDone, waitingInput, helpers>>

(* The whole row again, for the full prompt.                               *)
StorePrompt(i) == /\ Goto(i, "preparing", "prepared")
                  /\ WriteUnlessDone(i, "running")
                  /\ UNCHANGED <<up, running, ctxDone, waitingInput, helpers>>

(* Adapter found, session mutex acquired when resuming, process leased:    *)
(* the CLI runs.                                                           *)
Launch(i) == /\ Goto(i, "prepared", "executing")
             /\ UNCHANGED <<up, row, running, ctxDone, waitingInput, helpers>>

(* Mutant: an early return that forgets handleAgentError.                  *)
FailSilently(i) == /\ \/ Goto(i, "preparing", "leaving")
                      \/ Goto(i, "prepared", "leaving")
                   /\ UNCHANGED <<up, row, running, ctxDone, waitingInput, helpers>>

(* Context layers, adapter, session mutex or circuit breaker fail, or the  *)
(* goroutine panics and recovers: handleAgentError.                        *)
Fail(i) == /\ \/ Goto(i, "preparing", "erring")
              \/ Goto(i, "prepared", "erring")
              \/ Goto(i, "executing", "erring")
           /\ UNCHANGED <<up, row, running, ctxDone, waitingInput, helpers>>

(* Mutant: saveSessionIDEarly runs in a goroutine of its own.              *)
SaveSessionIDAsync(i) ==
  /\ pc[i] \in {"executing", "ended"}
  /\ Write(i, "running")
  /\ UNCHANGED <<up, pc, running, ctxDone, waitingInput, helpers>>

(* OnSessionIDAcquired: saveSessionIDEarly writes the goroutine's copy of  *)
(* the row, status included, under a context of its own.                   *)
SaveSessionIDEarly(i) ==
  /\ pc[i] = "executing"
  /\ Write(i, "running")
  /\ UNCHANGED <<up, pc, running, ctxDone, waitingInput, helpers>>

(* broadcastChunk, while the entry is there: a chunk refreshes it, whatever*)
(* it is; tool_use starts the heartbeat, the last tool_result stops it.    *)
Chunk(i) == /\ pc[i] = "executing"
            /\ i \in running
            /\ \E a \in {"fresh", "tool"} : activity' = [activity EXCEPT ![i] = a]
            /\ UNCHANGED <<up, row, pc, running, ctxDone, waitingInput, canceller, marker>>

(* broadcastChunk sees AskUserQuestion, or the refusal that is its result; *)
(* then the CLI may be cancelled for it.                                   *)
AskUser(i) == /\ pc[i] = "executing"
              /\ i \in running
              /\ waitingInput' = waitingInput \cup {i}
              /\ ctxDone' \in {ctxDone, ctxDone \cup {i}}
              /\ \E a \in {"fresh", activity[i]} \ {"stale"} :
                   activity' = [activity EXCEPT ![i] = a]
              /\ UNCHANGED <<up, row, pc, running, canceller, marker>>

(* SubmitQuestionAnswer.                                                   *)
AnswerUser(i) == /\ i \in waitingInput
                 /\ waitingInput' = waitingInput \ {i}
                 /\ UNCHANGED <<up, row, pc, running, ctxDone, helpers>>

(* The CLI returns an error.  Under es.mu: was it stopped for a question?  *)
ReturnError(i) ==
  /\ pc[i] = "executing"
  /\ pc' \in IF i \in waitingInput
               THEN {[pc EXCEPT ![i] = "interrupting"]}
               ELSE {[pc EXCEPT ![i] = to] : to \in {"settling", "erring"}}
  /\ UNCHANGED <<up, row, running, ctxDone, waitingInput, helpers>>

(* The CLI returns a result; cancelled or not, that is read just below.    *)
ReturnResult(i) ==
  /\ Goto(i, "executing", IF row[i] = "cancelled" THEN "leaving" ELSE "completing")
  /\ UNCHANGED <<up, row, running, ctxDone, waitingInput, helpers>>

Interrupt(i) == /\ Goto(i, "interrupting", "leaving")
                /\ Write(i, "interrupted")
                /\ UNCHANGED <<up, running, ctxDone, waitingInput, helpers>>

(* A failed CLI that had a session id: the row is read first, ...          *)
Settle(i) == /\ Goto(i, "settling", IF row[i] = "cancelled" THEN "erring" ELSE "saving")
             /\ UNCHANGED <<up, row, running, ctxDone, waitingInput, helpers>>

(* ... then the goroutine's copy, still running, is saved over it.         *)
SaveSessionID(i) == /\ Goto(i, "saving", "erring")
                    /\ Write(i, "running")
                    /\ UNCHANGED <<up, running, ctxDone, waitingInput, helpers>>

(* handleAgentError(WithContext): the row is read, ...                     *)
CheckCancelled(i) ==
  /\ Goto(i, "erring", IF row[i] = "cancelled" THEN "leaving" ELSE "failing")
  /\ UNCHANGED <<up, row, running, ctxDone, waitingInput, helpers>>

(* ... and written, with the agent's context.                              *)
StoreFailed(i) == /\ Goto(i, "failing", "leaving")
                  /\ WriteUnlessDone(i, "failed")
                  /\ UNCHANGED <<up, running, ctxDone, waitingInput, helpers>>

(* The status check is not repeated: the row is written over whatever has  *)
(* been stored since, unless the context is done by now.                   *)
StoreCompleted(i) == /\ Goto(i, "completing", "leaving")
                     /\ WriteUnlessDone(i, "completed")
                     /\ UNCHANGED <<up, running, ctxDone, waitingInput, helpers>>

(* Mutant: the map is cleaned on the normal path only.                     *)
LeaveEntryBehind(i) == /\ Goto(i, "leaving", "ended")
                       /\ UNCHANGED <<up, row, running, waitingInput, ctxDone, helpers>>

(* The outermost defer.                                                    *)
Leave(i) == /\ Goto(i, "leaving", "ended")
            /\ Drop(i)
            /\ UNCHANGED <<up, row, ctxDone, canceller, marker>>

-------------------------------------------------------------------------------
(* CancelAgent: read the row; a finished invocation is left alone.         *)
CancelRead(i) == /\ up
                 /\ canceller[i] = "idle"
                 /\ row[i] \notin Finished \cup {"none"}
                 /\ canceller' = [canceller EXCEPT ![i] = "read"]
                 /\ UNCHANGED <<up, row, pc, running, ctxDone, waitingInput, activity, marker>>

(* The row first, "before the process is killed", ...                      *)
CancelWrite(i) == /\ canceller[i] = "read"
                  /\ canceller' = [canceller EXCEPT ![i] = "written"]
                  /\ Write(i, "cancelled")
                  /\ UNCHANGED <<up, pc, running, ctxDone, waitingInput, activity, marker>>

(* Mutant: only the process is killed.                                     *)
CancelForget(i) == /\ canceller[i] = "written"
                   /\ canceller' = [canceller EXCEPT ![i] = "idle"]
                   /\ Drop(i)
                   /\ UNCHANGED <<up, row, pc, ctxDone, marker>>

(* ... then, under es.mu: kill the CLI, cancel the context, delete the     *)
(* entry.  Without an entry nothing is stopped.                            *)
CancelStop(i) == /\ canceller[i] = "written"
                 /\ canceller' = [canceller EXCEPT ![i] = "idle"]
                 /\ ctxDone' = IF i \in running THEN ctxDone \cup {i} ELSE ctxDone
                 /\ Drop(i)
                 /\ UNCHANGED <<up, row, pc, marker>>

(* Nothing comes from the agent.  While a tool is active toolHeartbeat     *)
(* refreshes the entry every thirty seconds, so that it does not age.      *)
Age(i) == /\ i \in running
          /\ activity[i] = "fresh"
          /\ activity' = [activity EXCEPT ![i] = "stale"]
          /\ UNCHANGED <<up, row, pc, running, ctxDone, waitingInput, canceller, marker>>

(* Mutant: an agent that waits for the user is never stale.                *)
SweepUnlessWaiting(i) == /\ i \in running \ waitingInput /\ activity[i] = "stale"
                         /\ ctxDone' = ctxDone \cup {i}
                         /\ Drop(i)
                         /\ marker' = [marker EXCEPT ![i] = "launched"]
                         /\ UNCHANGED <<up, row, pc, canceller>>

(* cleanupStaleAgents, for an entry with no activity for too long.  Its    *)
(* longer timeout for an active tool is never reached.                     *)
Sweep(i) == /\ i \in running /\ activity[i] = "stale"
            /\ ctxDone' = ctxDone \cup {i}
            /\ Drop(i)
            /\ marker' = [marker EXCEPT ![i] = "launched"]
            /\ UNCHANGED <<up, row, pc, canceller>>

(* markInvocationFailed: reads the row, then writes failed regardless.     *)
MarkFailed(i) == /\ marker[i] = "launched"
                 /\ marker' = [marker EXCEPT ![i] = "done"]
                 /\ Write(i, "failed")
                 /\ UNCHANGED <<up, pc, running, ctxDone, waitingInput, activity, canceller>>

-------------------------------------------------------------------------------
(* The process dies: every goroutine and every map with it.                *)
Crash == /\ up
         /\ up' = FALSE
         /\ pc' = [i \in Invocations |->
                     IF pc[i] \in {"absent", "ended"} THEN pc[i] ELSE "lost"]
         /\ running' = {}
         /\ waitingInput' = {}
         /\ activity' = [i \in Invocations |-> "fresh"]
         /\ canceller' = [i \in Invocations |-> "idle"]
         /\ marker' = [i \in Invocations |-> "none"]
         /\ UNCHANGED <<row, ctxDone>>

(* Mutant: the server starts without reconciling.                          *)
RestartOnly == /\ ~up
               /\ up' = TRUE
               /\ UNCHANGED <<row, pc, running, ctxDone, waitingInput, helpers>>

(* StartupReconciler.Reconcile, before anything is served.  No invocation  *)
(* has a process id, so every running row is an orphan.                    *)
Restart == /\ ~up
           /\ up' = TRUE
           /\ row' = [i \in Invocations |->
                        IF row[i] = "running" THEN "interrupted" ELSE row[i]]
           /\ UNCHANGED <<pc, running, ctxDone, waitingInput, helpers>>

-------------------------------------------------------------------------------
Spawn(i) == Admit(i) \/ Create(i) \/ \E j \in Invocations : AdmitInPlaceOf(i, j)

(* What a goroutine does by itself once it runs.                           *)
Advance(i) == \/ Register(i) \/ MarkRunning(i) \/ StorePrompt(i) \/ Launch(i)
              \/ Fail(i) \/ Interrupt(i) \/ Settle(i) \/ SaveSessionID(i)
              \/ CheckCancelled(i) \/ StoreFailed(i) \/ StoreCompleted(i)
              \/ Leave(i)

(* What the CLI decides.                                                   *)
Return(i) == ReturnError(i) \/ ReturnResult(i)
Stream(i) == SaveSessionIDEarly(i) \/ Chunk(i) \/ AskUser(i) \/ AnswerUser(i)

Stop(i) == CancelWrite(i) \/ CancelStop(i) \/ MarkFailed(i)

Next == \/ \E i \in Invocations : \/ Spawn(i) \/ Advance(i) \/ Return(i) \/ Stream(i)
                                  \/ CancelRead(i) \/ Stop(i)
                                  \/ Age(i) \/ Sweep(i)
        \/ Crash \/ Restart

Spec == Init /\ [][Next]_vars

(* In the hands of somebody else: of the adapter, which starts or runs the *)
(* CLI, or of Acquire of the session mutex.                                *)
Outside(i) == pc[i] \in {"prepared", "executing"}

(* Goroutines run, but from outside nobody has to return, not even when the*)
(* context is done (AcpExecution and SessionMutex have such cases).  Time  *)
(* passes, and the sweep comes round every thirty seconds; it need not find*)
(* an entry that a chunk makes fresh again, or one with an active tool.    *)
FairSpec ==
  /\ Spec
  /\ WF_vars(Restart)
  /\ \A i \in Invocations :
       /\ WF_vars(~Outside(i) /\ Advance(i))
       /\ WF_vars(Age(i))
       /\ WF_vars(Sweep(i))
       /\ WF_vars(Stop(i))

-------------------------------------------------------------------------------
TypeOK == /\ up \in BOOLEAN
          /\ row \in [Invocations -> Status]
          /\ pc \in [Invocations -> PC]
          /\ running \in SUBSET Invocations
          /\ ctxDone \in SUBSET Invocations
          /\ waitingInput \in SUBSET running
          /\ activity \in [Invocations -> {"fresh", "stale", "tool"}]
          /\ canceller \in [Invocations -> {"idle", "read", "written"}]
          /\ marker \in [Invocations -> {"none", "launched", "done"}]

Live(i) == pc[i] \in Executing

(* runningAgents never outlives what it describes: an entry is deleted no  *)
(* later than its goroutine ends, on every early return and after a panic. *)
(* A leaked entry would make the thread refuse every later message.        *)
EntryHasGoroutine == \A i \in running : Live(i)

(* CancelAgent reaches a goroutine through its entry only.  One that runs  *)
(* on without an entry has been told to stop, or its row is being failed.  *)
UnreachableIsCondemned ==
  \A i \in Invocations :
    Live(i) /\ i \notin running => i \in ctxDone \/ marker[i] # "none"

(* So runningAgents and the goroutines may differ in one way only.         *)
EntriesMatch == EntryHasGoroutine /\ UnreachableIsCondemned

(* Whichever way executeAgent returns, an invocation that nobody stopped   *)
(* leaves a finished row behind.                                           *)
UndisturbedFinishes ==
  \A i \in Invocations : pc[i] = "ended" /\ i \notin ctxDone => row[i] \in Finished

(* After a restart no invocation of the previous life still says running.  *)
OrphansInterrupted ==
  \A i \in Invocations : up /\ pc[i] = "lost" => row[i] # "running"

(* The check for cancellation and the write of the result are two calls,   *)
(* and CancelAgent stores the cancellation before it stops the goroutine.  *)
(* A cancelled row may therefore be made completed, but in one window only:*)
(* while the CancelAgent that stored it has yet to stop the goroutine, or  *)
(* when the entry by which it would do so has been evicted; never once the *)
(* context is done.  And with its goroutine gone, a row only moves towards *)
(* an abnormal end: late cancels, markers and the reconciler never revive  *)
(* or complete it.                                                         *)
CompletedOnlyInWindow ==
  [][\A i \in Invocations :
       /\ row[i] # "completed" /\ row'[i] = "completed" =>
            /\ i \notin ctxDone
            /\ row[i] = "cancelled" => canceller[i] = "written" \/ marker[i] # "none"
       /\ pc[i] \in {"ended", "lost"} /\ row'[i] # row[i] =>
            row'[i] \in {"failed", "cancelled", "interrupted"}]_vars

(* Every execution comes to an end, but for one that somebody outside keeps*)
(* for good: with its entry gone, so that the thread is free again whether *)
(* it was swept, cancelled or evicted, or with chunks coming or a tool     *)
(* active again and again.  So no entry stays whose agent gives no sign of *)
(* life and has no tool open, also when it waits for the user.             *)
ExecutionEnds ==
  \A i \in Invocations :
    \/ <>[]~Live(i)
    \/ <>[](Outside(i) /\ i \notin running)
    \/ <>[]Outside(i) /\ []<>(activity[i] \in {"fresh", "tool"})
===============================================================================
