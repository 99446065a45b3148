------------------------------- MODULE A2ARouting -------------------------------
(***************************************************************************)
(* How agents of one thread hand over to each other: the A2AContext that   *)
(* execution_service.go keeps for the thread, and what executeAgent does   *)
(* with it once its CLI has succeeded.  An agent's output may mention      *)
(* others; checkSignalRouting spawns them, unless they are marked as       *)
(* invoked, and gives each the chain of responses so far.                  *)
(*                                                                         *)
(* Regions under a2aMu are one step.  The look-up of a mark and the reads  *)
(* of FromAgent are outside it.  CompletedAgents, ChainIndex and Depth are *)
(* left out: nothing but the wording of a prompt depends on them.  So are  *)
(* the cliSessions entry that a handover deletes, and the agents of a human*)
(* role, whom the loop over the targets passes over.                       *)
(***************************************************************************)
EXTENDS Naturals, Sequences, FiniteSets, SequencesExt

CONSTANTS Agents,
          MaxPreviousResponses,    \* 20 in the code
          MaxA2AMentionTargets,    \* 2 in the code
          MaxWork                  \* bound of the model: invocations, and again
                                   \* those that the user starts

ASSUME LimitAssumption == /\ MaxPreviousResponses \in Nat \ {0}
                          /\ MaxA2AMentionTargets \in Nat
                          /\ MaxWork \in Nat

VARIABLES
  agent,         \* the agent of each invocation that runs
  pc,            \* where its executeAgent is
  mentions,      \* agents mentioned in its output, still to be looked up
  targets,       \* agentsToTrigger
  target,        \* the target of the loop's present turn
  strategy,      \* the session strategy chosen for it
  invoked,       \* a2aCtx.InvokedAgents
  responses,     \* a2aCtx.PreviousResponses: invocations, and User
  fromAgent,     \* a2aCtx.FromAgent
  request,       \* the SpawnRequest of a handover just made
  starts,        \* how often the user has started an agent
  later,         \* responses since that of an invocation, up to the window (history)
  failed,        \* agents whose last handover came to nothing (history)
  serial         \* no two passes overlapped so far (history)

pass == <<mentions, targets, target, strategy>>
context == <<invoked, responses, fromAgent>>
vars == <<agent, pc, pass, context, request, starts, later, failed, serial>>

Invocations == 1..MaxWork
User == 0
None == "none"
NoRequest == [by |-> User, caller |-> None, history |-> <<>>, from |-> None, strategy |-> "new"]

Init == /\ agent = [i \in Invocations |-> None]
        /\ pc = [i \in Invocations |-> "unborn"]
        /\ mentions = [i \in Invocations |-> {}]
        /\ targets = [i \in Invocations |-> {}]
        /\ target = [i \in Invocations |-> None]
        /\ strategy = [i \in Invocations |-> "new"]
        /\ invoked = {} /\ responses = <<>> /\ fromAgent = None
        /\ request = NoRequest /\ starts = 0
        /\ later = [i \in Invocations |-> 0] /\ failed = {} /\ serial = TRUE

-------------------------------------------------------------------------------
Live == {i \in Invocations : pc[i] \notin {"unborn", "ended"}}
Passing == Live \ {i \in Invocations : pc[i] = "running"}

(* Mutants: the window is one too wide, and it keeps the wrong end.        *)
WiderWindow(s) == IF Len(s) > MaxPreviousResponses + 1 THEN Tail(s) ELSE s
OldestWindow(s) == IF Len(s) > MaxPreviousResponses THEN Front(s) ELSE s

(* The safeguard on PreviousResponses, after one was appended.             *)
Window(s) == IF Len(s) > MaxPreviousResponses THEN Tail(s) ELSE s

Respond(r) == /\ responses' = Window(Append(responses, r))
              /\ later' = [i \in Invocations |->
                             IF i \notin Passing THEN 0
                             ELSE IF later[i] < MaxPreviousResponses THEN later[i] + 1
                             ELSE later[i]]

(* SpawnAgent: the next invocation is x's.                                 *)
Spawn(x, i, point) ==
  \E j \in Invocations :
    /\ pc[j] = "unborn" /\ \A k \in 1..j-1 : pc[k] # "unborn"
    /\ j + starts' <= MaxWork
    /\ agent' = [agent EXCEPT ![j] = x]
    /\ pc' = [k \in Invocations |-> IF k = j THEN "running" ELSE IF k = i THEN point ELSE pc[k]]

(* Orchestrator.SpawnAgent, the user starting x by hand: the context is    *)
(* made anew but for its responses.                                        *)
StartByHand(x) ==
  /\ starts' = starts + 1
  /\ Spawn(x, User, None)
  /\ Respond(User)
  /\ invoked' = {}
  /\ serial' = (serial /\ Live = {})
  /\ UNCHANGED <<pass, fromAgent, failed>>

(* SpawnAgentForUserMessage, which leaves the context alone.  Its check    *)
(* that no agent runs is InvocationLifecycle's subject.                    *)
StartByMessage(x) ==
  /\ Live = {}
  /\ starts' = starts + 1
  /\ Spawn(x, User, None)
  /\ UNCHANGED <<pass, context, later, failed, serial>>

End(i) == /\ pc' = [pc EXCEPT ![i] = "ended"]
          /\ agent' = [agent EXCEPT ![i] = None]

(* The CLI has failed, or the invocation was cancelled.                    *)
Fail(i) ==
  /\ pc[i] = "running"
  /\ End(i)
  /\ failed' = failed \cup {agent[i]}
  /\ UNCHANGED <<pass, context, starts, later, serial>>

(* The CLI has succeeded: its output is appended, and then searched for    *)
(* mentions, the agent's own not among them.                               *)
Complete(i) ==
  /\ pc[i] = "running"
  /\ pc' = [pc EXCEPT ![i] = "routing"]
  /\ Respond(i)
  /\ \E m \in SUBSET (Agents \ {agent[i]}) :
       Cardinality(m) <= MaxA2AMentionTargets /\ mentions' = [mentions EXCEPT ![i] = m]
  /\ serial' = (serial /\ Passing = {})
  /\ UNCHANGED <<agent, targets, target, strategy, invoked, fromAgent, starts, failed>>

(* Mutant: whoever is mentioned is triggered.                              *)
LookUpNothing(i, x) ==
  /\ x \in mentions[i]
  /\ mentions' = [mentions EXCEPT ![i] = @ \ {x}]
  /\ targets' = [targets EXCEPT ![i] = @ \cup {x}]
  /\ UNCHANGED <<agent, pc, target, strategy, context, starts, later, failed, serial>>

(* An agent that is marked is not triggered again.                         *)
LookUp(i, x) ==
  /\ x \in mentions[i]
  /\ mentions' = [mentions EXCEPT ![i] = @ \ {x}]
  /\ targets' = [targets EXCEPT ![i] = @ \cup ({x} \ invoked)]
  /\ UNCHANGED <<agent, pc, target, strategy, context, starts, later, failed, serial>>

(* A turn of the loop over the targets, in map order: mark x.              *)
Mark(i, x) ==
  /\ pc[i] = "routing" /\ mentions[i] = {} /\ x \in targets[i]
  /\ targets' = [targets EXCEPT ![i] = @ \ {x}]
  /\ pc' = [pc EXCEPT ![i] = "marked"]
  /\ target' = [target EXCEPT ![i] = x]
  /\ invoked' = invoked \cup {x}
  /\ fromAgent' = agent[i]
  /\ failed' = failed \ {x}
  /\ UNCHANGED <<agent, mentions, strategy, responses, starts, later, serial>>

(* The strategy: resume when an agent calls itself.                        *)
Decide(i) ==
  /\ pc[i] = "marked"
  /\ pc' = [pc EXCEPT ![i] = "decided"]
  /\ strategy' = [strategy EXCEPT ![i] = IF fromAgent = target[i] THEN "resume" ELSE "new"]
  /\ UNCHANGED <<agent, mentions, targets, target, context, starts, later, failed, serial>>

(* BuildA2AChainContext, under a2aMu again, and SpawnAgent, whose error is *)
(* not looked at.                                                          *)
Handover(i) ==
  /\ pc[i] = "decided"
  /\ request' = [by |-> i, caller |-> agent[i], history |-> responses, from |-> fromAgent,
                 strategy |-> strategy[i]]
  /\ UNCHANGED starts
  /\ \/ Spawn(target[i], i, "routing") /\ UNCHANGED failed
     \/ /\ pc' = [pc EXCEPT ![i] = "routing"]
        /\ failed' = failed \cup {target[i]}
        /\ UNCHANGED agent
  /\ target' = [target EXCEPT ![i] = None]
  /\ strategy' = [strategy EXCEPT ![i] = "new"]
  /\ UNCHANGED <<mentions, targets, context, later, serial>>

(* Mutant: the mark stays.                                                 *)
LeaveMarked(i) ==
  /\ pc[i] = "routing" /\ mentions[i] = {} /\ targets[i] = {}
  /\ End(i)
  /\ later' = [later EXCEPT ![i] = 0]
  /\ UNCHANGED <<pass, context, starts, failed, serial>>

(* With nothing left to trigger the agent's own mark is taken away, which  *)
(* lets others call it back.                                               *)
Leave(i) ==
  /\ pc[i] = "routing" /\ mentions[i] = {} /\ targets[i] = {}
  /\ End(i)
  /\ invoked' = invoked \ {agent[i]}
  /\ later' = [later EXCEPT ![i] = 0]
  /\ UNCHANGED <<pass, responses, fromAgent, starts, failed, serial>>

Route(i) == \/ \E x \in Agents : LookUp(i, x) \/ Mark(i, x)
            \/ Decide(i) \/ Leave(i)

Next == \/ \E i \in Invocations : Handover(i)
        \/ /\ \/ \E x \in Agents : StartByHand(x) \/ StartByMessage(x)
              \/ \E i \in Invocations : Complete(i) \/ Fail(i) \/ Route(i)
           /\ request' = NoRequest

Spec == Init /\ [][Next]_vars

-------------------------------------------------------------------------------
TypeOK ==
  /\ agent \in [Invocations -> Agents \cup {None}]
  /\ pc \in [Invocations -> {"unborn", "running", "routing", "marked", "decided", "ended"}]
  /\ mentions \in [Invocations -> SUBSET Agents]
  /\ targets \in [Invocations -> SUBSET Agents]
  /\ target \in [Invocations -> Agents \cup {None}]
  /\ strategy \in [Invocations -> {"new", "resume"}]
  /\ invoked \subseteq Agents /\ failed \subseteq Agents
  /\ responses \in Seq(Invocations \cup {User}) /\ Len(responses) <= MaxPreviousResponses
  /\ starts \in 0..MaxWork /\ later \in [Invocations -> 0..MaxPreviousResponses]
  /\ fromAgent \in Agents \cup {None}
  /\ serial \in BOOLEAN

(* "PreviousResponses already contains the output of the upstream agent":  *)
(* who is triggered is told what the one that called it has said, although *)
(* others may answer between the append and the handover, unless they were *)
(* so many that the window has passed it.                                  *)
UpstreamHeard ==
  LET by == request.by IN
  by # User => \/ by \in ToSet(request.history)
               \/ later[by] = MaxPreviousResponses

(* A mark makes every later mention of the agent be ignored.  No mark is   *)
(* left without a reason: the agent is running, or about to be spawned, or *)
(* its last handover came to nothing - only in this case will no step of   *)
(* the chain take the mark away again.                                     *)
MarksAccounted ==
  \A x \in invoked :
    \/ \E i \in Live : agent[i] = x
    \/ \E i \in Invocations : pc[i] \in {"marked", "decided"} /\ target[i] = x
    \/ x \in failed

(* What the marks and FromAgent are for, which are looked at outside the   *)
(* mutex: as long as no two passes overlap and nobody starts an agent by   *)
(* hand besides, an agent runs once at a time, and one that is called by   *)
(* another is told by whom and gets a new session.                         *)
SerialRouting ==
  serial => /\ \A i, j \in Live : agent[i] = agent[j] => i = j
            /\ request.by # User =>
                 request.from = request.caller /\ request.strategy = "new"
===============================================================================
