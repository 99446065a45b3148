------------------------------- MODULE IMBridge -------------------------------
(***************************************************************************)
(* internal/service/im, inbound: HandleInboundMessage, one goroutine for   *)
(* each message of a chat, over the chat's SessionLock.  With the lock held*)
(* it finds or makes the session that ties the chat to a thread, and spawns*)
(* an agent in that thread.                                                *)
(*                                                                         *)
(* The thread made for a message is named by the message.                  *)
(***************************************************************************)
EXTENDS SessionLock

VARIABLES
  step,       \* how far each message is with the lock held
  session,    \* the thread of the chat's im_sessions row, or None
  threads,    \* the threads made for the chat
  target,     \* the thread each message's agent was spawned in, or None
  faulted     \* messages with a failed database call (history)

inbound == <<step, session, threads, target, faulted>>
bridgeVars == <<vars, inbound>>

BridgeInit ==
  /\ Init
  /\ step = [c \in Callers |-> "find"]
  /\ session = None /\ threads = {} /\ faulted = {}
  /\ target = [c \in Callers |-> None]

At(c, from, to) == step[c] = from /\ step' = [step EXCEPT ![c] = to]
Fault(c) == faulted' = faulted \cup {c}

(* Mutant: the session is looked up before it is this message's turn.      *)
FindAtOnce(c) ==
  /\ pc[c] \in {"waiting", "holding"}
  /\ \/ At(c, "find", IF session # None THEN "spawn" ELSE "thread") /\ UNCHANGED faulted
     \/ At(c, "find", "thread") /\ Fault(c)
  /\ UNCHANGED <<vars, session, threads, target>>

(* getOrCreateSession: FindByChatID; an error is taken for an absent row.  *)
Find(c) ==
  /\ pc[c] = "holding"
  /\ \/ At(c, "find", IF session # None THEN "spawn" ELSE "thread") /\ UNCHANGED faulted
     \/ At(c, "find", "thread") /\ Fault(c)
  /\ UNCHANGED <<vars, session, threads, target>>

CreateThread(c) ==
  /\ pc[c] = "holding"
  /\ \/ At(c, "thread", "session") /\ threads' = threads \cup {c} /\ UNCHANGED faulted
     \/ At(c, "thread", "return") /\ Fault(c) /\ UNCHANGED threads
  /\ UNCHANGED <<vars, session, target>>

(* Mutant: the insert replaces the row of the chat.                        *)
UpsertSession(c) ==
  /\ pc[c] = "holding"
  /\ \/ At(c, "session", "spawn") /\ session' = c /\ UNCHANGED faulted
     \/ At(c, "session", "return") /\ Fault(c) /\ UNCHANGED session
  /\ UNCHANGED <<vars, threads, target>>

(* The insert; (platform, chat_id) is unique.                              *)
CreateSession(c) ==
  /\ pc[c] = "holding"
  /\ \/ session = None /\ At(c, "session", "spawn") /\ session' = c /\ UNCHANGED faulted
     \/ session # None /\ At(c, "session", "return") /\ UNCHANGED <<session, faulted>>
     \/ At(c, "session", "return") /\ Fault(c) /\ UNCHANGED session
  /\ UNCHANGED <<vars, threads, target>>

(* SpawnAgentForUserMessage in the session's thread, which may refuse.     *)
Spawn(c) ==
  /\ pc[c] = "holding"
  /\ At(c, "spawn", "return")
  /\ target' \in {target, [target EXCEPT ![c] = session]}
  /\ UNCHANGED <<vars, session, threads, faulted>>

Handle(c) == Find(c) \/ CreateThread(c) \/ CreateSession(c) \/ Spawn(c)

Enter(c) == Acquire(c) /\ UNCHANGED inbound
Awake(c) == Proceed(c) /\ UNCHANGED inbound

(* The deferred release.                                                   *)
Release(c) == /\ step[c] = "return"
              /\ Unlink(c) \/ Close(c)
              /\ UNCHANGED inbound

BridgeNext == \E c \in Callers : Enter(c) \/ Awake(c) \/ Handle(c) \/ Release(c)

BridgeSpec == BridgeInit /\ [][BridgeNext]_bridgeVars

(* Goroutines run, and the calls to the database and the spawn return.     *)
FairBridgeSpec ==
  BridgeSpec /\ \A c \in Callers : WF_bridgeVars(Awake(c) \/ Handle(c) \/ Release(c))

-------------------------------------------------------------------------------
BridgeTypeOK ==
  /\ TypeOK
  /\ step \in [Callers -> {"find", "thread", "session", "spawn", "return"}]
  /\ session \in Callers \cup {None}
  /\ threads \subseteq Callers /\ faulted \subseteq Callers
  /\ target \in [Callers -> Callers \cup {None}]

(* The lock is there so that a chat has one thread, although the session is*)
(* looked up and made in two statements: all agents of the chat were       *)
(* spawned in the session's thread, and any other thread is about to get   *)
(* its session, or the database failed the message it was made for.        *)
OneThread ==
  /\ \A c \in Callers : target[c] \in {None, session}
  /\ \A t \in threads : t = session \/ step[t] = "session" \/ t \in faulted
===============================================================================
