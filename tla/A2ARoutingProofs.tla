---------------------------- MODULE A2ARoutingProofs ----------------------------
(***************************************************************************)
(* Safety of A2ARouting for any number of agents and any window.           *)
(***************************************************************************)
EXTENDS A2ARouting, TLAPS

(* The response of a pass is as far back as later says, or has left.       *)
AnswerInWindow ==
  \A i \in Passing :
    \/ later[i] = MaxPreviousResponses
    \/ \E p \in 1..Len(responses) : responses[p] = i /\ Len(responses) - p = later[i]

(* What runs has an agent, and only a pass has any to look up or trigger.  *)
WorkKnown ==
  \A i \in Invocations :
    /\ i \in Live => agent[i] \in Agents
    /\ pc[i] \in {"marked", "decided"} => target[i] \in Agents
    /\ pc[i] \in {"unborn", "running"} => mentions[i] = {} /\ targets[i] = {}

(* An agent that runs is marked, unless it passes on or is the only one.   *)
RunnersMarked ==
  /\ \A i, j \in Live : agent[i] = agent[j] => i = j
  /\ \A i, j \in Passing : i = j
  /\ \A k \in Live : agent[k] \in invoked \/ k \in Passing \/ Live = {k}

(* None of those to be triggered runs.                                     *)
TargetsAtRest ==
  \A i \in Passing : /\ agent[i] \notin mentions[i] \cup targets[i]
                     /\ \A k \in Live : agent[k] \notin targets[i]

(* Nor does the one that is being triggered; it is marked, by i.           *)
TargetMarked ==
  \A i \in Passing :
    pc[i] \in {"marked", "decided"} =>
      /\ target[i] \in invoked /\ target[i] \notin targets[i] /\ mentions[i] = {}
      /\ \A k \in Live : agent[k] # target[i]
      /\ fromAgent = agent[i]
      /\ pc[i] = "decided" => strategy[i] = "new"

SerialInv == serial => RunnersMarked /\ TargetsAtRest /\ TargetMarked

Inv == TypeOK /\ AnswerInWindow /\ WorkKnown /\ SerialInv

-------------------------------------------------------------------------------
(* The window: what is appended is the last of it, and what was in it is   *)
(* as far from the front as before, or one nearer.                         *)
Sources == Invocations \cup {User}
IsWindow(w, s, r) ==
  /\ w \in Seq(Sources) /\ Len(w) <= MaxPreviousResponses
  /\ w # <<>> /\ w[Len(w)] = r
  /\ \A p \in 1..Len(s) :
       Len(s) - p + 1 < MaxPreviousResponses =>
         \E q \in 1..Len(w) : w[q] = s[p] /\ Len(w) - q = Len(s) - p + 1

LEMMA WindowShape ==
  \A s \in Seq(Sources), r \in Sources :
    Len(s) <= MaxPreviousResponses => IsWindow(Window(Append(s, r)), s, r)
<1> SUFFICES ASSUME NEW s \in Seq(Sources), NEW r \in Sources,
                    Len(s) <= MaxPreviousResponses,
                    NEW w, w = Window(Append(s, r))
             PROVE  IsWindow(w, s, r)
  OBVIOUS
<1> USE LimitAssumption DEF IsWindow
<1>1. CASE Len(s) < MaxPreviousResponses
  <2>1. w = Append(s, r) /\ Len(w) = Len(s) + 1
    BY <1>1 DEF Window
  <2>2. \A p \in 1..Len(s) : w[p] = s[p] /\ p \in 1..Len(w)
    BY <2>1
  <2> QED BY <1>1, <2>1, <2>2
<1>2. CASE Len(s) = MaxPreviousResponses
  <2>1. w = Tail(Append(s, r)) /\ Len(w) = Len(s)
    BY <1>2 DEF Window
  <2>2. \A q \in 1..Len(w) : w[q] = Append(s, r)[q + 1]
    BY <2>1
  <2>3. w[Len(w)] = r
    BY <2>1, <2>2, <1>2
  <2>4. \A p \in 2..Len(s) : w[p - 1] = s[p] /\ p - 1 \in 1..Len(w)
    BY <2>1, <2>2
  <2>5. ASSUME NEW p \in 1..Len(s), Len(s) - p + 1 < MaxPreviousResponses
        PROVE  \E q \in 1..Len(w) : w[q] = s[p] /\ Len(w) - q = Len(s) - p + 1
    <3>1. p \in 2..Len(s)
      BY <1>2, <2>5
    <3>2. w[p - 1] = s[p] /\ p - 1 \in 1..Len(w)
      BY <2>4, <3>1
    <3>3. Len(w) - (p - 1) = Len(s) - p + 1
      BY <2>1, <3>1
    <3> QED BY <3>2, <3>3
  <2>6. w \in Seq(Sources) /\ w # <<>>
    BY <1>2, <2>1
  <2> QED BY <1>2, <2>1, <2>3, <2>5, <2>6
<1> QED BY <1>1, <1>2

(* So an answer is found where later says.                                 *)
LEMMA RespondKeeps ==
  ASSUME TypeOK, AnswerInWindow, NEW r \in Invocations \cup {User}, Respond(r)
  PROVE  /\ responses' \in Seq(Invocations \cup {User})
         /\ Len(responses') <= MaxPreviousResponses
         /\ responses' # <<>> /\ responses'[Len(responses')] = r
         /\ later' \in [Invocations -> 0..MaxPreviousResponses]
         /\ \A i \in Invocations : i \notin Passing => later'[i] = 0
         /\ \A i \in Passing :
              \/ later'[i] = MaxPreviousResponses
              \/ \E p \in 1..Len(responses') :
                   responses'[p] = i /\ Len(responses') - p = later'[i]
<1> USE LimitAssumption DEF TypeOK
<1> DEFINE w == responses'
<1>1. w = Window(Append(responses, r))
  BY DEF Respond
<1>0. responses \in Seq(Invocations \cup {User}) /\ Len(responses) <= MaxPreviousResponses
  OBVIOUS
<1> HIDE DEF w
<1>2. IsWindow(w, responses, r)
  BY <1>0, <1>1, WindowShape DEF Sources
<1>3. /\ later' \in [Invocations -> 0..MaxPreviousResponses]
      /\ \A i \in Invocations : i \notin Passing => later'[i] = 0
  BY DEF Respond
<1>4. ASSUME NEW i \in Passing, later'[i] # MaxPreviousResponses
      PROVE  \E p \in 1..Len(w) : w[p] = i /\ Len(w) - p = later'[i]
  <2>1. i \in Invocations
    BY DEF Passing, Live
  <2>2. later[i] < MaxPreviousResponses /\ later'[i] = later[i] + 1
    BY <1>4, <2>1 DEF Respond
  <2>3. PICK p \in 1..Len(responses) : responses[p] = i /\ Len(responses) - p = later[i]
    BY <2>2 DEF AnswerInWindow
  <2>4. Len(responses) - p + 1 < MaxPreviousResponses
    BY <1>3, <1>4, <2>1, <2>2, <2>3
  <2>5. PICK q \in 1..Len(w) : w[q] = responses[p] /\ Len(w) - q = Len(responses) - p + 1
    BY <1>2, <2>4 DEF IsWindow
  <2>6. w[q] = i /\ Len(w) - q = later'[i]
    BY <2>2, <2>3, <2>5
  <2> QED BY <2>6
<1> QED BY <1>2, <1>3, <1>4 DEF w, IsWindow, Sources

-------------------------------------------------------------------------------
LEMMA InitInv == Init => Inv
<1> SUFFICES ASSUME Init PROVE Inv
  OBVIOUS
<1>1. Live = {} /\ Passing = {}
  BY DEF Init, Live, Passing
<1>2. TypeOK
  BY LimitAssumption DEF Init, TypeOK
<1>3. AnswerInWindow /\ WorkKnown /\ SerialInv
  BY <1>1 DEF Init, AnswerInWindow, WorkKnown, SerialInv, RunnersMarked, TargetsAtRest,
              TargetMarked
<1> QED BY <1>2, <1>3 DEF Inv

-------------------------------------------------------------------------------
(* The shape of the state.                                                 *)
LEMMA SpawnType ==
  ASSUME TypeOK, NEW x \in Agents, NEW i \in Invocations \cup {User},
         NEW point, i \in Invocations => point = "routing", Spawn(x, i, point)
  PROVE  /\ agent' \in [Invocations -> Agents \cup {None}]
         /\ pc' \in [Invocations -> {"unborn", "running", "routing", "marked", "decided", "ended"}]
         /\ starts' \in Nat => starts' \in 0..MaxWork
<1> USE LimitAssumption DEF TypeOK, Spawn, Invocations, User
<1> QED OBVIOUS

LEMMA NextType == Inv /\ [Next]_vars => TypeOK'
<1> SUFFICES ASSUME Inv, [Next]_vars PROVE TypeOK'
  OBVIOUS
<1> USE LimitAssumption DEF TypeOK, Inv, pass, context
<1>1. ASSUME NEW x \in Agents, StartByHand(x) PROVE TypeOK'
  <2>1. starts' \in Nat
    BY <1>1 DEF StartByHand
  <2>2. /\ agent' \in [Invocations -> Agents \cup {None}]
        /\ pc' \in [Invocations -> {"unborn", "running", "routing", "marked", "decided", "ended"}]
        /\ starts' \in 0..MaxWork
    BY <1>1, <2>1, SpawnType DEF StartByHand, User, Invocations
  <2>3. /\ responses' \in Seq(Invocations \cup {User}) /\ Len(responses') <= MaxPreviousResponses
        /\ later' \in [Invocations -> 0..MaxPreviousResponses]
    BY <1>1, RespondKeeps DEF StartByHand
  <2> QED BY <1>1, <2>2, <2>3 DEF StartByHand
<1>2. ASSUME NEW x \in Agents, StartByMessage(x) PROVE TypeOK'
  <2>1. starts' \in Nat
    BY <1>2 DEF StartByMessage
  <2>2. /\ agent' \in [Invocations -> Agents \cup {None}]
        /\ pc' \in [Invocations -> {"unborn", "running", "routing", "marked", "decided", "ended"}]
        /\ starts' \in 0..MaxWork
    BY <1>2, <2>1, SpawnType DEF StartByMessage, User, Invocations
  <2> QED BY <1>2, <2>2 DEF StartByMessage
<1>3. ASSUME NEW i \in Invocations, Complete(i) PROVE TypeOK'
  <2>1. /\ responses' \in Seq(Invocations \cup {User}) /\ Len(responses') <= MaxPreviousResponses
        /\ later' \in [Invocations -> 0..MaxPreviousResponses]
    BY <1>3, RespondKeeps DEF Complete
  <2> QED BY <1>3, <2>1 DEF Complete
<1>4. ASSUME NEW i \in Invocations, Fail(i) PROVE TypeOK'
  <2>1. failed' \subseteq Agents
    BY <1>4 DEF Fail, WorkKnown, Live
  <2> QED BY <1>4, <2>1 DEF Fail, End
<1>5. ASSUME NEW i \in Invocations, NEW x \in Agents, LookUp(i, x) PROVE TypeOK'
  BY <1>5 DEF LookUp
<1>6. ASSUME NEW i \in Invocations, NEW x \in Agents, Mark(i, x) PROVE TypeOK'
  BY <1>6 DEF Mark
<1>7. ASSUME NEW i \in Invocations, Decide(i) PROVE TypeOK'
  BY <1>7 DEF Decide
<1>8. ASSUME NEW i \in Invocations, Handover(i) PROVE TypeOK'
  <2>0. target[i] \in Agents
    BY <1>8 DEF Handover, WorkKnown
  <2>1. /\ agent' \in [Invocations -> Agents \cup {None}]
        /\ pc' \in [Invocations -> {"unborn", "running", "routing", "marked", "decided", "ended"}]
    BY <1>8, <2>0, SpawnType DEF Handover
  <2> QED BY <1>8, <2>0, <2>1 DEF Handover
<1>9. ASSUME NEW i \in Invocations, Leave(i) PROVE TypeOK'
  BY <1>9 DEF Leave, End
<1>10. CASE UNCHANGED vars
  BY <1>10 DEF vars
<1> QED BY <1>1, <1>2, <1>3, <1>4, <1>5, <1>6, <1>7, <1>8, <1>9, <1>10 DEF Next, Route

-------------------------------------------------------------------------------
(* What SpawnAgent makes of who is live: j is x's, called by i.            *)
Spawned(j, x, i) ==
  /\ pc[j] = "unborn" /\ pc'[j] = "running" /\ agent'[j] = x
  /\ \A k \in Invocations \ {j} : agent'[k] = agent[k]
  /\ \A k \in Invocations \ {i, j} : pc'[k] = pc[k]
  /\ i \in Invocations => pc'[i] = "routing"
  /\ Live' = Live \cup {j} /\ Passing' = Passing /\ j \notin Live

LEMMA SpawnMoves ==
  ASSUME TypeOK, NEW x, NEW i, NEW point,
         i \in Invocations => point = "routing" /\ pc[i] = "decided",
         Spawn(x, i, point)
  PROVE  \E j \in Invocations : Spawned(j, x, i)
<1>1. PICK j \in Invocations :
        /\ pc[j] = "unborn"
        /\ agent' = [agent EXCEPT ![j] = x]
        /\ pc' = [k \in Invocations |-> IF k = j THEN "running" ELSE IF k = i THEN point ELSE pc[k]]
  BY DEF Spawn
<1>2. /\ pc'[j] = "running" /\ agent'[j] = x
      /\ \A k \in Invocations \ {j} : agent'[k] = agent[k]
      /\ \A k \in Invocations \ {i, j} : pc'[k] = pc[k]
      /\ i \in Invocations => pc'[i] = "routing"
  BY <1>1 DEF TypeOK
<1>3. Live' = Live \cup {j} /\ Passing' = Passing /\ j \notin Live
  BY <1>1, <1>2 DEF Live, Passing
<1> QED BY <1>1, <1>2, <1>3 DEF Spawned

(* No step but Mark and the end of a pass takes a mark's reason away.      *)
LEMMA NextMarks == Inv /\ MarksAccounted /\ [Next]_vars => MarksAccounted'
<1> SUFFICES ASSUME Inv, MarksAccounted, [Next]_vars PROVE MarksAccounted'
  OBVIOUS
<1> USE DEF Inv, TypeOK, MarksAccounted
<1>1. ASSUME NEW x \in Agents, StartByHand(x) PROVE MarksAccounted'
  BY <1>1 DEF StartByHand
<1>2. ASSUME NEW x \in Agents, StartByMessage(x) PROVE MarksAccounted'
  <2>1. PICK j \in Invocations : Spawned(j, x, User)
    BY <1>2, SpawnMoves DEF StartByMessage, User, Invocations
  <2> QED BY <1>2, <2>1 DEF StartByMessage, Spawned, context, pass, Live
<1>3. ASSUME NEW i \in Invocations, Complete(i) PROVE MarksAccounted'
  BY <1>3 DEF Complete, Live
<1>4. ASSUME NEW i \in Invocations, Fail(i) PROVE MarksAccounted'
  BY <1>4 DEF Fail, End, Live, context, pass
<1>5. ASSUME NEW i \in Invocations, NEW x \in Agents, LookUp(i, x) PROVE MarksAccounted'
  BY <1>5 DEF LookUp, Live, context
<1>6. ASSUME NEW i \in Invocations, NEW x \in Agents, Mark(i, x) PROVE MarksAccounted'
  BY <1>6 DEF Mark, Live
<1>7. ASSUME NEW i \in Invocations, Decide(i) PROVE MarksAccounted'
  BY <1>7 DEF Decide, Live, context
<1>8. ASSUME NEW i \in Invocations, Handover(i) PROVE MarksAccounted'
  <2>1. target[i] \in Agents /\ pc[i] = "decided"
    BY <1>8 DEF Handover, WorkKnown
  <2>2. CASE Spawn(target[i], i, "routing") /\ UNCHANGED failed
    <3>1. PICK j \in Invocations : Spawned(j, target[i], i)
      BY <2>1, <2>2, SpawnMoves
    <3>2. \A k \in Live : k \in Live' /\ agent'[k] = agent[k]
      BY <3>1 DEF Live, Spawned
    <3>3. \A k \in Invocations \ {i} : pc[k] \in {"marked", "decided"} =>
            pc'[k] = pc[k] /\ target'[k] = target[k]
      BY <1>8, <3>1 DEF Handover, Spawned
    <3>4. j \in Live' /\ agent'[j] = target[i] /\ UNCHANGED <<invoked, failed>>
      BY <1>8, <2>2, <3>1 DEF Handover, Spawned, context
    <3> QED BY <3>2, <3>3, <3>4
  <2>3. CASE failed' = failed \cup {target[i]} /\ pc' = [pc EXCEPT ![i] = "routing"] /\ UNCHANGED agent
    <3>1. Live' = Live
      BY <2>1, <2>3 DEF Live
    <3>2. \A k \in Invocations \ {i} : pc'[k] = pc[k] /\ target'[k] = target[k]
      BY <1>8, <2>3 DEF Handover
    <3>3. UNCHANGED <<invoked, agent>>
      BY <1>8, <2>3 DEF Handover, context
    <3> QED BY <2>3, <3>1, <3>2, <3>3
  <2> QED BY <1>8, <2>2, <2>3 DEF Handover
<1>9. ASSUME NEW i \in Invocations, Leave(i) PROVE MarksAccounted'
  BY <1>9 DEF Leave, End, Live, pass
<1>10. CASE UNCHANGED vars
  BY <1>10 DEF vars, context, pass, Live
<1> QED BY <1>1, <1>2, <1>3, <1>4, <1>5, <1>6, <1>7, <1>8, <1>9, <1>10 DEF Next, Route

(* Answers only move away, one at a time; and work is done by agents.      *)
LEMMA NextWindow == Inv /\ [Next]_vars => AnswerInWindow' /\ WorkKnown'
<1> SUFFICES ASSUME Inv, [Next]_vars PROVE AnswerInWindow' /\ WorkKnown'
  OBVIOUS
<1>0. TypeOK /\ TypeOK' /\ AnswerInWindow /\ WorkKnown
  BY NextType DEF Inv
<1>1. ASSUME NEW x \in Agents, StartByHand(x) PROVE AnswerInWindow' /\ WorkKnown'
  <2>1. PICK j \in Invocations : Spawned(j, x, User)
    BY <1>0, <1>1, SpawnMoves DEF StartByHand, User, Invocations
  <2>2. AnswerInWindow'
    BY <1>0, <1>1, <2>1, RespondKeeps DEF StartByHand, Spawned, AnswerInWindow
  <2>3. UNCHANGED <<mentions, targets, target>>
    BY <1>1 DEF StartByHand, pass
  <2> QED BY <1>0, <2>1, <2>2, <2>3 DEF Spawned, WorkKnown, TypeOK, User, Invocations
<1>2. ASSUME NEW x \in Agents, StartByMessage(x) PROVE AnswerInWindow' /\ WorkKnown'
  <2>1. PICK j \in Invocations : Spawned(j, x, User)
    BY <1>0, <1>2, SpawnMoves DEF StartByMessage, User, Invocations
  <2>2. AnswerInWindow'
    BY <1>0, <1>2, <2>1 DEF StartByMessage, Spawned, AnswerInWindow, context
  <2>3. UNCHANGED <<mentions, targets, target>>
    BY <1>2 DEF StartByMessage, pass
  <2> QED BY <1>0, <2>1, <2>2, <2>3 DEF Spawned, WorkKnown, TypeOK, User, Invocations
<1>3. ASSUME NEW i \in Invocations, Complete(i) PROVE AnswerInWindow' /\ WorkKnown'
  <2>1. Passing' = Passing \cup {i} /\ i \notin Passing /\ Live' = Live /\ i \in Live
    BY <1>0, <1>3 DEF Complete, Passing, Live, TypeOK
  <2>2. ASSUME NEW k \in Passing
        PROVE  \/ later'[k] = MaxPreviousResponses
               \/ \E p \in 1..Len(responses') :
                    responses'[p] = k /\ Len(responses') - p = later'[k]
    BY <1>0, <1>3, RespondKeeps DEF Complete
  <2>3. \E p \in 1..Len(responses') : responses'[p] = i /\ Len(responses') - p = later'[i]
    <3>1. /\ responses' \in Seq(Invocations \cup {User}) /\ responses' # <<>>
          /\ responses'[Len(responses')] = i /\ later'[i] = 0
      BY <1>0, <1>3, <2>1, RespondKeeps DEF Complete
    <3>2. Len(responses') \in 1..Len(responses') /\ Len(responses') - Len(responses') = 0
      BY <3>1
    <3> QED BY <3>1, <3>2
  <2>4. AnswerInWindow'
    BY <2>1, <2>2, <2>3 DEF AnswerInWindow
  <2> QED BY <1>0, <1>3, <2>1, <2>4 DEF Complete, WorkKnown, TypeOK
<1>4. ASSUME NEW i \in Invocations, Fail(i) PROVE AnswerInWindow' /\ WorkKnown'
  BY <1>0, <1>4 DEF Fail, End, AnswerInWindow, WorkKnown, Live, Passing, TypeOK, context, pass
<1>5. ASSUME NEW i \in Invocations, NEW x \in Agents, LookUp(i, x)
      PROVE  AnswerInWindow' /\ WorkKnown'
  BY <1>0, <1>5 DEF LookUp, AnswerInWindow, WorkKnown, Live, Passing, TypeOK, context
<1>6. ASSUME NEW i \in Invocations, NEW x \in Agents, Mark(i, x)
      PROVE  AnswerInWindow' /\ WorkKnown'
  <2>1. Passing' = Passing /\ Live' = Live
    BY <1>0, <1>6 DEF Mark, Passing, Live, TypeOK
  <2> QED BY <1>0, <1>6, <2>1 DEF Mark, AnswerInWindow, WorkKnown, TypeOK
<1>7. ASSUME NEW i \in Invocations, Decide(i) PROVE AnswerInWindow' /\ WorkKnown'
  <2>1. Passing' = Passing /\ Live' = Live
    BY <1>0, <1>7 DEF Decide, Passing, Live, TypeOK
  <2> QED BY <1>0, <1>7, <2>1 DEF Decide, AnswerInWindow, WorkKnown, TypeOK, context
<1>8. ASSUME NEW i \in Invocations, Handover(i) PROVE AnswerInWindow' /\ WorkKnown'
  <2>1. target[i] \in Agents /\ pc[i] = "decided"
    BY <1>0, <1>8 DEF Handover, WorkKnown
  <2>2. /\ UNCHANGED <<mentions, targets, responses, later>>
        /\ \A k \in Invocations \ {i} : target'[k] = target[k]
    BY <1>0, <1>8 DEF Handover, TypeOK, context
  <2>3. CASE Spawn(target[i], i, "routing")
    <3>1. PICK j \in Invocations : Spawned(j, target[i], i)
      BY <1>0, <2>1, <2>3, SpawnMoves
    <3>2. AnswerInWindow'
      BY <1>0, <2>2, <3>1 DEF Spawned, AnswerInWindow
    <3> QED BY <1>0, <2>1, <2>2, <3>1, <3>2 DEF Spawned, WorkKnown, TypeOK
  <2>4. CASE pc' = [pc EXCEPT ![i] = "routing"] /\ UNCHANGED agent
    <3>1. Passing' = Passing /\ Live' = Live
      BY <1>0, <2>1, <2>4 DEF Passing, Live, TypeOK
    <3> QED BY <1>0, <2>2, <2>4, <3>1 DEF AnswerInWindow, WorkKnown, TypeOK
  <2> QED BY <1>8, <2>3, <2>4 DEF Handover
<1>9. ASSUME NEW i \in Invocations, Leave(i) PROVE AnswerInWindow' /\ WorkKnown'
  BY <1>0, <1>9 DEF Leave, End, AnswerInWindow, WorkKnown, Live, Passing, TypeOK, pass
<1>10. CASE UNCHANGED vars
  BY <1>0, <1>10 DEF vars, context, pass, AnswerInWindow, WorkKnown, Live, Passing
<1> QED BY <1>1, <1>2, <1>3, <1>4, <1>5, <1>6, <1>7, <1>8, <1>9, <1>10 DEF Next, Route

-------------------------------------------------------------------------------
(* One pass at a time finds the marks as it left them.                     *)
LEMMA NextSerial == Inv /\ [Next]_vars => SerialInv'
<1> SUFFICES ASSUME Inv, [Next]_vars, serial'
             PROVE  RunnersMarked' /\ TargetsAtRest' /\ TargetMarked'
  BY DEF SerialInv
<1> DEFINE Goal == RunnersMarked' /\ TargetsAtRest' /\ TargetMarked'
<1>0. TypeOK /\ TypeOK' /\ WorkKnown
  BY NextType DEF Inv
<1>a. ASSUME serial PROVE RunnersMarked /\ TargetsAtRest /\ TargetMarked
  BY <1>a DEF Inv, SerialInv
<1> USE DEF RunnersMarked, TargetsAtRest, TargetMarked
<1>1. ASSUME NEW x \in Agents, StartByHand(x) PROVE Goal
  <2>1. PICK j \in Invocations : Spawned(j, x, User)
    BY <1>0, <1>1, SpawnMoves DEF StartByHand, User, Invocations
  <2>2. Live = {} /\ Passing = {}
    BY <1>0, <1>1 DEF StartByHand, Passing, TypeOK
  <2> QED BY <2>1, <2>2 DEF Spawned
<1>2. ASSUME NEW x \in Agents, StartByMessage(x) PROVE Goal
  <2>1. PICK j \in Invocations : Spawned(j, x, User)
    BY <1>0, <1>2, SpawnMoves DEF StartByMessage, User, Invocations
  <2>2. Live = {} /\ Passing = {}
    BY <1>2 DEF StartByMessage, Passing
  <2> QED BY <2>1, <2>2 DEF Spawned
<1>3. ASSUME NEW i \in Invocations, Complete(i) PROVE Goal
  <2>0. serial /\ Passing = {}
    BY <1>0, <1>3 DEF Complete, TypeOK
  <2>1. Passing' = Passing \cup {i} /\ Live' = Live /\ i \in Live
    BY <1>0, <1>3 DEF Complete, Passing, Live, TypeOK
  <2>2. agent[i] \notin mentions'[i] /\ targets'[i] = {} /\ pc'[i] = "routing"
    BY <1>0, <1>3 DEF Complete, WorkKnown, TypeOK
  <2>3. UNCHANGED <<agent, invoked>>
    BY <1>3 DEF Complete
  <2> QED BY <1>a, <2>0, <2>1, <2>2, <2>3
<1>4. ASSUME NEW i \in Invocations, Fail(i) PROVE Goal
  <2>1. Live' = Live \ {i} /\ Passing' = Passing /\ i \notin Passing /\ serial
    BY <1>0, <1>4 DEF Fail, End, Passing, Live, TypeOK
  <2>2. /\ UNCHANGED <<mentions, targets, target, strategy, invoked, fromAgent>>
        /\ \A k \in Live' : agent'[k] = agent[k] /\ pc'[k] = pc[k]
    BY <1>0, <1>4, <2>1 DEF Fail, End, context, pass, Live, TypeOK
  <2>3. Passing' \subseteq Live'
    BY DEF Passing
  <2> QED BY <1>a, <2>1, <2>2, <2>3
<1>5. ASSUME NEW i \in Invocations, NEW x \in Agents, LookUp(i, x) PROVE Goal
  <2>1. Live' = Live /\ Passing' = Passing /\ serial
    BY <1>5 DEF LookUp, Live, Passing
  <2>2. /\ UNCHANGED <<agent, pc, target, strategy, invoked, fromAgent>>
        /\ \A k \in Invocations \ {i} : mentions'[k] = mentions[k] /\ targets'[k] = targets[k]
        /\ mentions'[i] \subseteq mentions[i] /\ x \in mentions[i]
        /\ targets'[i] = targets[i] \cup ({x} \ invoked)
    BY <1>0, <1>5 DEF LookUp, context, TypeOK
  <2>3. Passing \subseteq Live /\ Live \subseteq Invocations
    BY DEF Passing, Live
  <2>4. i \in Passing => x = agent[i] \/ x \in invoked \/ \A k \in Live : agent[k] # x
    BY <1>a, <2>1, <2>3
  <2>5. RunnersMarked'
    BY <1>a, <2>1, <2>2
  <2>6. TargetsAtRest'
    BY <1>a, <2>1, <2>2, <2>3, <2>4
  <2>7. TargetMarked'
    BY <1>a, <2>1, <2>2, <2>3
  <2> QED BY <2>5, <2>6, <2>7
<1>6. ASSUME NEW i \in Invocations, NEW x \in Agents, Mark(i, x) PROVE Goal
  <2>1. Live' = Live /\ Passing' = Passing /\ i \in Passing /\ serial
    BY <1>0, <1>6 DEF Mark, Live, Passing, TypeOK
  <2>2. /\ UNCHANGED <<agent, mentions, strategy>> /\ invoked' = invoked \cup {x}
        /\ fromAgent' = agent[i] /\ target'[i] = x /\ pc'[i] = "marked"
        /\ targets'[i] = targets[i] \ {x} /\ x \in targets[i] /\ mentions[i] = {}
    BY <1>0, <1>6 DEF Mark, TypeOK
  <2>3. \A k \in Passing' : k = i
    BY <1>a, <2>1
  <2> QED BY <1>a, <2>1, <2>2, <2>3
<1>7. ASSUME NEW i \in Invocations, Decide(i) PROVE Goal
  <2>1. Live' = Live /\ Passing' = Passing /\ i \in Passing /\ i \in Live /\ serial
    BY <1>0, <1>7 DEF Decide, Live, Passing, TypeOK
  <2>2. /\ UNCHANGED <<agent, mentions, targets, target, invoked, fromAgent>>
        /\ pc[i] = "marked" /\ pc'[i] = "decided"
        /\ strategy'[i] = IF fromAgent = target[i] THEN "resume" ELSE "new"
    BY <1>0, <1>7 DEF Decide, context, TypeOK
  <2>3. \A k \in Passing' : k = i
    BY <1>a, <2>1
  <2> QED BY <1>a, <2>1, <2>2, <2>3
<1>8. ASSUME NEW i \in Invocations, Handover(i) PROVE Goal
  <2>1. /\ UNCHANGED <<mentions, targets, invoked, fromAgent>> /\ pc[i] = "decided" /\ serial
        /\ i \in Passing /\ i \in Live /\ target[i] \in Agents
    BY <1>0, <1>8 DEF Handover, context, Live, Passing, TypeOK, WorkKnown
  <2>2. /\ target[i] \in invoked /\ target[i] \notin targets[i] /\ mentions[i] = {}
        /\ \A k \in Live : agent[k] # target[i]
    BY <1>a, <2>1
  <2>3. CASE Spawn(target[i], i, "routing")
    <3>1. PICK j \in Invocations : Spawned(j, target[i], i)
      BY <1>0, <2>1, <2>3, SpawnMoves
    <3>2. /\ Live' = Live \cup {j} /\ Passing' = Passing /\ agent'[j] = target[i]
          /\ pc'[i] = "routing" /\ \A k \in Live : agent'[k] = agent[k]
      BY <3>1 DEF Spawned, Live
    <3>3. \A k \in Passing' : k = i
      BY <1>a, <2>1, <3>2
    <3>4. RunnersMarked'
      <4>1. \A k \in Live : agent'[k] \in invoked' \/ k \in Passing'
        BY <1>a, <2>1, <3>2
      <4> QED BY <1>a, <2>1, <2>2, <3>2, <4>1
    <3>5. TargetsAtRest'
      BY <1>a, <2>1, <2>2, <3>2, <3>3
    <3>6. TargetMarked'
      BY <3>2, <3>3
    <3> QED BY <3>4, <3>5, <3>6
  <2>4. CASE pc' = [pc EXCEPT ![i] = "routing"] /\ UNCHANGED agent
    <3>1. Live' = Live /\ Passing' = Passing /\ pc'[i] = "routing"
      BY <1>0, <2>1, <2>4 DEF Live, Passing, TypeOK
    <3>2. \A k \in Passing' : k = i
      BY <1>a, <2>1, <3>1
    <3> QED BY <1>a, <2>1, <2>4, <3>1, <3>2
  <2> QED BY <1>8, <2>3, <2>4 DEF Handover
<1>9. ASSUME NEW i \in Invocations, Leave(i) PROVE Goal
  <2>1. /\ Live' = Live \ {i} /\ Passing' = Passing \ {i} /\ i \in Passing /\ i \in Live
        /\ serial
    BY <1>0, <1>9 DEF Leave, End, Passing, Live, TypeOK
  <2>2. /\ invoked' = invoked \ {agent[i]}
        /\ \A k \in Live' : agent'[k] = agent[k]
    BY <1>0, <1>9, <2>1 DEF Leave, End, Live, TypeOK
  <2>3. Passing' = {}
    BY <1>a, <2>1
  <2> QED BY <1>a, <2>1, <2>2, <2>3
<1>10. CASE UNCHANGED vars
  BY <1>a, <1>10 DEF vars, context, pass, Live, Passing
<1> QED BY <1>1, <1>2, <1>3, <1>4, <1>5, <1>6, <1>7, <1>8, <1>9, <1>10 DEF Next, Route

(* What a handover says of its caller, and what it leaves for the others.  *)
LEMMA NextRequest ==
  Inv /\ UpstreamHeard /\ SerialRouting /\ [Next]_vars => UpstreamHeard' /\ SerialRouting'
<1> SUFFICES ASSUME Inv, UpstreamHeard, SerialRouting, [Next]_vars
             PROVE  UpstreamHeard' /\ SerialRouting'
  OBVIOUS
<1>1. SerialInv'
  BY NextSerial
<1>2. serial' => \A i, j \in Live' : agent'[i] = agent'[j] => i = j
  BY <1>1 DEF SerialInv, RunnersMarked
<1>3. CASE UNCHANGED vars
  BY <1>2, <1>3 DEF vars, UpstreamHeard, SerialRouting
<1>4. CASE request' = NoRequest
  BY <1>2, <1>4 DEF NoRequest, UpstreamHeard, SerialRouting
<1>5. ASSUME NEW i \in Invocations, Handover(i) PROVE UpstreamHeard' /\ SerialRouting'
  <2>1. /\ request'.by = i /\ request'.caller = agent[i] /\ request'.history = responses
        /\ request'.from = fromAgent /\ request'.strategy = strategy[i]
        /\ UNCHANGED <<later, serial>> /\ pc[i] = "decided" /\ i \in Passing
    BY <1>5 DEF Handover, Passing, Live
  <2>2. later[i] = MaxPreviousResponses \/ i \in ToSet(responses)
    BY <2>1 DEF Inv, AnswerInWindow, ToSet, TypeOK
  <2>3. UpstreamHeard'
    BY <2>1, <2>2 DEF UpstreamHeard
  <2>4. serial => fromAgent = agent[i] /\ strategy[i] = "new"
    BY <2>1 DEF Inv, SerialInv, TargetMarked
  <2>5. SerialRouting'
    BY <1>2, <2>1, <2>4 DEF SerialRouting
  <2> QED BY <2>3, <2>5
<1> QED BY <1>3, <1>4, <1>5 DEF Next

Safe == MarksAccounted /\ UpstreamHeard /\ SerialRouting

LEMMA SafeInvariant == Spec => [](Inv /\ Safe)
<1>1. Init => Inv /\ Safe
  <2>1. Init => Live = {}
    BY DEF Init, Live
  <2> QED BY <2>1, InitInv
          DEF Init, Safe, MarksAccounted, UpstreamHeard, SerialRouting, NoRequest
<1>2. Inv /\ Safe /\ [Next]_vars => Inv' /\ Safe'
  BY NextType, NextWindow, NextSerial, NextMarks, NextRequest DEF Inv, Safe
<1> QED BY <1>1, <1>2, PTL DEF Spec

-------------------------------------------------------------------------------
(* A2AContext and the state of the routing goroutines keep their shape;    *)
(* PreviousResponses never exceeds its window.                             *)
THEOREM TypeCorrect == Spec => []TypeOK
<1>1. Inv => TypeOK
  BY DEF Inv
<1> QED BY <1>1, SafeInvariant, PTL

(* checkSignalRouting ignores no mention for a mark that nothing stands    *)
(* behind, except after a failure.                                         *)
THEOREM MarksHaveReasons == Spec => []MarksAccounted
<1>1. Safe => MarksAccounted
  BY DEF Safe
<1> QED BY <1>1, SafeInvariant, PTL

(* An agent that is triggered is given the response of the one that called *)
(* it, whatever else answers meanwhile, as far as the window reaches.      *)
THEOREM UpstreamIsHeard == Spec => []UpstreamHeard
<1>1. Safe => UpstreamHeard
  BY DEF Safe
<1> QED BY <1>1, SafeInvariant, PTL

(* With one pass at a time the marks keep an agent from running twice, and *)
(* every handover is told by whom and starts a new session.                *)
THEOREM SerialRoutingHolds == Spec => []SerialRouting
<1>1. Safe => SerialRouting
  BY DEF Safe
<1> QED BY <1>1, SafeInvariant, PTL
===============================================================================
