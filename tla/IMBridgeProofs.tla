---------------------------- MODULE IMBridgeProofs ----------------------------
(***************************************************************************)
(* Safety of the IM bridge, for any number of messages of a chat and of    *)
(* chunks of an invocation.                                                *)
(*                                                                         *)
(* SessionLock: messages are handled one at a time, in the order in which  *)
(* they came.  Neither is inductive, as the code keeps no queue.  The      *)
(* strengthening says that the channels spell one out: each caller waits   *)
(* for the one that came just before it, and the map names the last.       *)
(*                                                                         *)
(* IMBridge takes and releases the lock as SessionLock's callers do, so    *)
(* all that is proved of the lock holds of it; that the chat has one       *)
(* thread follows from the exclusion, as session is read and written by    *)
(* the holder only.                                                        *)
(*                                                                         *)
(* StreamingCard: that there is one card follows from createOnce, which    *)
(* one goroutine goes through while the others wait; that the card never   *)
(* takes text back, from one loop reading the text and sending it in turn. *)
(***************************************************************************)
EXTENDS IMBridge, StreamingCard, SequenceTheorems, TLAPS

-------------------------------------------------------------------------------
(* The lock.                                                               *)
LetGo == {"unlinked", "done"}

(* The callers that came, once each.                                       *)
ArrivedOnce ==
  /\ \A c \in Callers : pc[c] # "idle" <=> \E k \in DOMAIN arrivals : arrivals[k] = c
  /\ \A i, j \in DOMAIN arrivals : arrivals[i] = arrivals[j] => i = j

(* Who waits, waits for its predecessor.                                   *)
WaitsForPrevious ==
  /\ \A j \in DOMAIN arrivals : oldDone[arrivals[j]] # None =>
       j > 1 /\ oldDone[arrivals[j]] = arrivals[j - 1]
  /\ \A c \in Callers : pc[c] = "idle" => oldDone[c] = None

(* An absent entry means that nobody is left.                              *)
EntryIsLast ==
  IF chains = None
  THEN \A c \in Callers : pc[c] \in LetGo \cup {"idle"}
  ELSE Len(arrivals) > 0 /\ chains = arrivals[Len(arrivals)]

ClosedIsDone == \A c \in Callers : c \in closed <=> pc[c] = "done"

Inv == /\ TypeOK /\ ArrivedOnce /\ WaitsForPrevious /\ EntryIsLast /\ ClosedIsDone
       /\ InOrder /\ ChainUnbranched

-------------------------------------------------------------------------------
LEMMA InitInv == Init => Inv
<1> QED BY NoneAssumption
        DEF Init, Inv, TypeOK, PC, ArrivedOnce, WaitsForPrevious, EntryIsLast, ClosedIsDone,
            InOrder, ChainUnbranched, LetGo

LEMMA NextInv == Inv /\ [Next]_vars => Inv'
<1> SUFFICES ASSUME Inv, [Next]_vars PROVE Inv'
  OBVIOUS
<1> USE NoneAssumption
    DEF Inv, TypeOK, PC, ArrivedOnce, WaitsForPrevious, EntryIsLast, ClosedIsDone,
        InOrder, ChainUnbranched, LetGo, Goto
<1>1. ASSUME NEW c \in Callers, Acquire(c) PROVE Inv'
  <2> DEFINE n == Len(arrivals)
  <2>1. /\ n \in Nat /\ DOMAIN arrivals = 1..n
        /\ arrivals' \in Seq(Callers) /\ DOMAIN arrivals' = 1..(n + 1)
        /\ Len(arrivals') = n + 1 /\ arrivals'[n + 1] = c
        /\ \A k \in 1..n : arrivals'[k] = arrivals[k] /\ arrivals[k] \in Callers
    BY <1>1 DEF Acquire
  <2>2. \A k \in 1..n : arrivals[k] # c
    BY <1>1, <2>1 DEF Acquire
  <2>3. pc[c] = "idle" /\ oldDone' = [oldDone EXCEPT ![c] = chains] /\ chains' = c
    BY <1>1 DEF Acquire
  <2>4. pc' = [pc EXCEPT ![c] = IF chains = None THEN "holding" ELSE "waiting"]
    BY <1>1 DEF Acquire
  <2>5. closed' = closed
    BY <1>1 DEF Acquire
  <2> HIDE DEF n
  <2>6. TypeOK'
    BY <2>1, <2>3, <2>4, <2>5
  <2>7. ArrivedOnce'
    BY <2>1, <2>2, <2>3, <2>4
  <2>8. WaitsForPrevious'
    BY <2>1, <2>2, <2>3, <2>4 DEF n
  <2>9. (EntryIsLast /\ ClosedIsDone)'
    BY <2>1, <2>3, <2>4, <2>5
  <2>10. InOrder'
    BY <2>1, <2>2, <2>3, <2>4
  <2>11. ChainUnbranched'
    <3>1. ASSUME NEW d \in Callers, d # c, oldDone[d] # None PROVE oldDone[d] # chains
      BY <3>1, <2>1 DEF n
    <3> QED BY <2>3, <2>4, <3>1
  <2> QED BY <2>6, <2>7, <2>8, <2>9, <2>10, <2>11
<1>2. ASSUME NEW c \in Callers, Proceed(c) PROVE Inv'
  <2>1. PICK j \in DOMAIN arrivals : arrivals[j] = c
    BY <1>2 DEF Proceed
  <2>2. /\ j > 1 /\ j - 1 \in DOMAIN arrivals /\ j \in Nat
        /\ pc[arrivals[j - 1]] = "done"
    BY <1>2, <2>1 DEF Proceed
  <2>3. \A i \in DOMAIN arrivals : i < j => pc[arrivals[i]] \in LetGo
    BY <2>2
  <2> QED BY <1>2, <2>1, <2>3 DEF Proceed
<1>3. ASSUME NEW c \in Callers, Unlink(c) PROVE Inv'
  <2>1. PICK j \in DOMAIN arrivals : arrivals[j] = c
    BY <1>3 DEF Unlink
  <2>2. \A i \in DOMAIN arrivals : i < j => pc[arrivals[i]] \in LetGo
    BY <1>3, <2>1 DEF Unlink
  <2>3. chains = c => j = Len(arrivals)
    BY <2>1
  <2>4. chains = c => \A d \in Callers \ {c} : pc[d] \in LetGo \cup {"idle"}
    BY <2>1, <2>2, <2>3
  <2> QED BY <1>3, <2>4 DEF Unlink
<1>4. ASSUME NEW c \in Callers, Close(c) PROVE Inv'
  BY <1>4 DEF Close
<1>5. CASE UNCHANGED vars
  BY <1>5 DEF vars
<1> QED BY <1>1, <1>2, <1>3, <1>4, <1>5 DEF Next, Step

LEMMA InvInvariant == Spec => []Inv
<1> QED BY InitInv, NextInv, PTL DEF Spec

-------------------------------------------------------------------------------
(* The map, the channels and the list of arrivals keep their shape.        *)
THEOREM TypeCorrect == Spec => []TypeOK
<1>1. Inv => TypeOK
  BY DEF Inv
<1> QED BY <1>1, InvInvariant, PTL

(* A chat's messages are handled in the order in which they came in.       *)
THEOREM HandledInOrder == Spec => []InOrder
<1>1. Inv => InOrder
  BY DEF Inv
<1> QED BY <1>1, InvInvariant, PTL

(* The callers' channels never fork, and the map names nobody who has let  *)
(* go.                                                                     *)
THEOREM ChainNeverForks == Spec => []ChainUnbranched
<1>1. Inv => ChainUnbranched
  BY DEF Inv
<1> QED BY <1>1, InvInvariant, PTL

-------------------------------------------------------------------------------
(* Nobody holds the chat when a caller enters.                             *)
LEMMA EnteredAlone ==
  ASSUME Inv, NEW c \in Callers,
         \/ Acquire(c) /\ chains = None
         \/ Proceed(c)
  PROVE  \A d \in Callers : pc[d] # "holding"
<1> USE NoneAssumption
    DEF Inv, TypeOK, ArrivedOnce, WaitsForPrevious, EntryIsLast, ClosedIsDone, InOrder, LetGo, Goto
<1>1. CASE Acquire(c) /\ chains = None
  BY <1>1
<1>2. CASE Proceed(c)
  <2>1. PICK j \in DOMAIN arrivals : arrivals[j] = c
    BY <1>2 DEF Proceed
  <2>2. /\ j > 1 /\ j - 1 \in DOMAIN arrivals /\ j \in Nat
        /\ pc[arrivals[j - 1]] = "done" /\ pc[arrivals[j]] = "waiting"
    BY <1>2, <2>1 DEF Proceed
  <2>3. ASSUME NEW i \in DOMAIN arrivals PROVE pc[arrivals[i]] # "holding"
    <3>1. i \in Nat
      OBVIOUS
    <3>2. CASE i < j - 1
      BY <2>2, <3>2
    <3>3. CASE i = j - 1 \/ i = j
      BY <2>2, <3>3
    <3>4. CASE j < i
      BY <2>2, <3>4
    <3> QED BY <2>2, <3>1, <3>2, <3>3, <3>4
  <2> QED BY <2>3
<1> QED BY <1>1, <1>2

(* The session lock is a keyed lock: its callers hold the chat one at a    *)
(* time, and none gives up.                                                *)
THEOREM LockImplementsKeyedLock == Spec => ImplementsKeyedLock
<1>1. Init => Promise!Init
  BY DEF Init, Promise!Init
<1>2. Inv /\ [Next]_vars => [Promise!Next]_(Promise!vars)
  <2> SUFFICES ASSUME Inv, [Next]_vars PROVE [Promise!Next]_(Promise!vars)
    OBVIOUS
  <2> USE DEF Inv, TypeOK, PC, Goto, Promise!vars, Promise!Move, Promise!Holders
  <2>1. ASSUME NEW c \in Callers, Acquire(c) PROVE Promise!Next
    <3>1. CASE chains = None
      <4>1. Promise!Grant(c)
        BY <2>1, <3>1, EnteredAlone DEF Acquire, Promise!Grant
      <4> QED BY <4>1 DEF Promise!Next
    <3>2. CASE chains # None
      <4>1. Promise!Ask(c)
        BY <2>1, <3>2 DEF Acquire, Promise!Ask
      <4> QED BY <4>1 DEF Promise!Next
    <3> QED BY <3>1, <3>2
  <2>2. ASSUME NEW c \in Callers, Proceed(c) PROVE Promise!Next
    <3>1. Promise!Grant(c)
      BY <2>2, EnteredAlone DEF Proceed, Promise!Grant
    <3> QED BY <3>1 DEF Promise!Next
  <2>3. ASSUME NEW c \in Callers, Unlink(c) PROVE Promise!Next
    <3>1. Promise!Return(c)
      BY <2>3 DEF Unlink, Promise!Return
    <3> QED BY <3>1 DEF Promise!Next
  <2>4. ASSUME NEW c \in Callers, Close(c) PROVE UNCHANGED Promise!vars
    BY <2>4 DEF Close
  <2>5. CASE UNCHANGED vars
    BY <2>5 DEF vars
  <2> QED BY <2>1, <2>2, <2>3, <2>4, <2>5 DEF Next, Step
<1> QED BY <1>1, <1>2, InvInvariant, PTL DEF Spec, ImplementsKeyedLock, Promise!Spec

-------------------------------------------------------------------------------
(* The bridge.                                                             *)

(* A message is on its way through the handler just when it has the lock.  *)
StepsWithLock ==
  \A c \in Callers : /\ pc[c] \in {"idle", "waiting"} => step[c] = "find"
                     /\ pc[c] \in LetGo => step[c] = "return"

(* What the holder has found out still holds: a thread is made where there *)
(* was no session, or the look-up failed.                                  *)
FoundStands ==
  \A c \in Callers :
    /\ step[c] \in {"thread", "session"} => session = None \/ c \in faulted
    /\ step[c] = "spawn" => session # None

BridgeInv == BridgeTypeOK /\ StepsWithLock /\ FoundStands /\ OneThread

-------------------------------------------------------------------------------
(* What the lock's order says of two holders.                              *)
LEMMA OneHolder ==
  ASSUME Inv, NEW c \in Callers, NEW d \in Callers, pc[c] = "holding", pc[d] = "holding"
  PROVE  c = d
<1> USE DEF Inv, TypeOK, ArrivedOnce, InOrder
<1>1. PICK i \in DOMAIN arrivals : arrivals[i] = c
  OBVIOUS
<1>2. PICK j \in DOMAIN arrivals : arrivals[j] = d
  OBVIOUS
<1>3. ~(i < j) /\ ~(j < i)
  BY <1>1, <1>2
<1> QED BY <1>1, <1>2, <1>3

(* The bridge's steps are steps of the lock, or leave it alone.            *)
LEMMA StepsOfLock == [BridgeNext]_bridgeVars => [Next]_vars
<1> SUFFICES ASSUME [BridgeNext]_bridgeVars PROVE [Next]_vars
  OBVIOUS
<1>1. ASSUME NEW c \in Callers, Handle(c) PROVE UNCHANGED vars
  BY <1>1 DEF Handle, Find, CreateThread, CreateSession, Spawn
<1>2. ASSUME NEW c \in Callers, Enter(c) \/ Awake(c) \/ Release(c) PROVE Next
  BY <1>2 DEF Enter, Awake, Release, Next, Step
<1>3. CASE UNCHANGED bridgeVars
  BY <1>3 DEF bridgeVars
<1> QED BY <1>1, <1>2, <1>3 DEF BridgeNext

(* The bridge is a client of the lock that keeps to its use.               *)
THEOREM BridgeUsesLock == BridgeSpec => Spec
<1>1. BridgeInit => Init
  BY DEF BridgeInit
<1> QED BY <1>1, StepsOfLock, PTL DEF BridgeSpec, Spec

-------------------------------------------------------------------------------
LEMMA BridgeInitInv == BridgeInit => BridgeInv
<1> QED BY NoneAssumption
        DEF BridgeInit, Init, BridgeInv, BridgeTypeOK, TypeOK, PC, StepsWithLock,
            FoundStands, OneThread, LetGo

LEMMA BridgeNextInv == Inv /\ Inv' /\ BridgeInv /\ [BridgeNext]_bridgeVars => BridgeInv'
<1> SUFFICES ASSUME Inv, Inv', BridgeInv, [BridgeNext]_bridgeVars PROVE BridgeInv'
  OBVIOUS
<1>0. TypeOK /\ TypeOK'
  BY DEF Inv
<1> USE NoneAssumption, <1>0
    DEF BridgeInv, BridgeTypeOK, StepsWithLock, FoundStands, OneThread, LetGo, At, Fault, inbound
<1>1. ASSUME NEW c \in Callers, Enter(c) PROVE BridgeInv'
  BY <1>1 DEF Enter, Acquire, Goto, TypeOK
<1>2. ASSUME NEW c \in Callers, Awake(c) PROVE BridgeInv'
  BY <1>2 DEF Awake, Proceed, Goto, TypeOK
<1>3. ASSUME NEW c \in Callers, Release(c) PROVE BridgeInv'
  BY <1>3 DEF Release, Unlink, Close, Goto, TypeOK
<1>4. ASSUME NEW c \in Callers, Find(c) PROVE BridgeInv'
  BY <1>4 DEF Find, vars
<1>5. ASSUME NEW c \in Callers, CreateThread(c) PROVE BridgeInv'
  BY <1>5 DEF CreateThread, vars
<1>6. ASSUME NEW c \in Callers, CreateSession(c) PROVE BridgeInv'
  <2>1. \A d \in Callers \ {c} : step[d] \in {"find", "return"}
    BY <1>6, OneHolder DEF CreateSession, TypeOK, PC
  <2> QED BY <1>6, <2>1 DEF CreateSession, vars
<1>7. ASSUME NEW c \in Callers, Spawn(c) PROVE BridgeInv'
  BY <1>7 DEF Spawn, vars
<1>8. CASE UNCHANGED bridgeVars
  BY <1>8 DEF bridgeVars, vars
<1> QED BY <1>1, <1>2, <1>3, <1>4, <1>5, <1>6, <1>7, <1>8 DEF BridgeNext, Handle

LEMMA BridgeInvInvariant == BridgeSpec => [](Inv /\ BridgeInv)
<1> QED BY BridgeUsesLock, InvInvariant, BridgeInitInv, BridgeNextInv, PTL DEF BridgeSpec

(* The handlers' state and the lock's keep their shape.                    *)
THEOREM BridgeTypeCorrect == BridgeSpec => []BridgeTypeOK
<1>1. BridgeInv => BridgeTypeOK
  BY DEF BridgeInv
<1> QED BY <1>1, BridgeInvInvariant, PTL

(* However many messages of a chat come at once, their agents are spawned  *)
(* in one thread, and only a failed database call leaves another behind.   *)
THEOREM ChatHasOneThread == BridgeSpec => []OneThread
<1>1. BridgeInv => OneThread
  BY DEF BridgeInv
<1> QED BY <1>1, BridgeInvInvariant, PTL

(* The bridge's messages take their turns as the abstract keyed lock gives *)
(* them, in the order in which they came.                                  *)
THEOREM BridgeKeepsOrder == BridgeSpec => []InOrder /\ ImplementsKeyedLock
<1> QED BY BridgeUsesLock, HandledInOrder, LockImplementsKeyedLock, PTL

-------------------------------------------------------------------------------
(* The card.                                                               *)

(* Where the goroutine of a chunk can be, and what the variables hold.     *)
Points == {"unsent", "started", "routed", "dropped", "creating", "append",
           "signal", "added", "buffered"}

CardTypeOK ==
  /\ at \in [Chunks -> Points]
  /\ once \in {"no", "running", "done"} /\ failed \in BOOLEAN /\ dirty \in BOOLEAN
  /\ cards \in Nat
  /\ flush \in {"wait", "read", "send"}
  /\ fallback \in Seq(Chunks) /\ accumulated \in Seq(Chunks)
  /\ text \in Seq(Chunks) /\ lastSent \in Seq(Chunks) /\ shown \in Seq(Chunks)

(* createOnce: the card is being made by one goroutine at most, and those  *)
(* that go on do so when it has been tried.                                *)
CreatedOnce ==
  \A k \in Chunks :
    /\ at[k] = "creating" => /\ once = "running"
                             /\ \A j \in Chunks : at[j] = "creating" => j = k
    /\ at[k] \in {"append", "signal", "added", "buffered"} => once = "done"

(* What the loop has read is a beginning of the text, and an update that   *)
(* is under way takes nothing back.                                        *)
ReadIsPrefix ==
  /\ IsPrefix(text, accumulated)
  /\ IsPrefix(shown, accumulated)
  /\ flush = "send" => IsPrefix(shown, text)

CardInv == CardTypeOK /\ CreatedOnce /\ OneCard /\ ReadIsPrefix

LEMMA PrefixPointwise ==
  ASSUME NEW S, NEW s \in Seq(S), NEW t \in Seq(S)
  PROVE  IsPrefix(s, t) <=> Len(s) <= Len(t) /\ \A i \in 1..Len(s) : s[i] = t[i]
<1>1. Len(s) <= Len(t) => /\ SubSeq(s, 1, Len(s)) = [i \in 1..Len(s) |-> s[i]]
                          /\ SubSeq(t, 1, Len(s)) = [i \in 1..Len(s) |-> t[i]]
  OBVIOUS
<1> QED BY <1>1 DEF IsPrefix

LEMMA PrefixReflexive ==
  ASSUME NEW S, NEW s \in Seq(S) PROVE IsPrefix(s, s)
BY PrefixPointwise

LEMMA PrefixAppend ==
  ASSUME NEW S, NEW s \in Seq(S), NEW t \in Seq(S), NEW x \in S, IsPrefix(s, t)
  PROVE  IsPrefix(s, Append(t, x))
<1>1. /\ Append(t, x) \in Seq(S) /\ Len(Append(t, x)) = Len(t) + 1
      /\ \A i \in 1..Len(t) : Append(t, x)[i] = t[i]
  OBVIOUS
<1>2. Len(s) <= Len(t) /\ \A i \in 1..Len(s) : s[i] = t[i]
  BY PrefixPointwise
<1>3. Len(s) <= Len(Append(t, x)) /\ \A i \in 1..Len(s) : s[i] = Append(t, x)[i]
  BY <1>1, <1>2
<1> QED BY <1>1, <1>3, PrefixPointwise

LEMMA AppendedRange ==
  ASSUME NEW S, NEW s \in Seq(S), NEW x \in S
  PROVE  Range(Append(s, x)) = Range(s) \cup {x}
<1>1. /\ DOMAIN Append(s, x) = 1..Len(s) + 1
      /\ \A i \in 1..Len(s) : Append(s, x)[i] = s[i]
      /\ Append(s, x)[Len(s) + 1] = x
      /\ DOMAIN s = 1..Len(s) /\ Len(s) \in Nat
  OBVIOUS
<1> QED BY <1>1 DEF Range

LEMMA CardInitInv == CardInit => CardInv
<1> SUFFICES ASSUME CardInit PROVE CardInv
  OBVIOUS
<1> USE DEF CardInit
<1>1. CardTypeOK
  <2>1. at \in [Chunks -> Points]
    BY DEF Points
  <2>2. <<>> \in Seq(Chunks)
    OBVIOUS
  <2> QED BY <2>1, <2>2 DEF CardTypeOK
<1>2. CreatedOnce
  BY DEF CreatedOnce
<1>3. OneCard
  BY DEF OneCard, IsInjective, Range
<1>4. ReadIsPrefix
  BY PrefixReflexive, <1>1 DEF ReadIsPrefix, CardTypeOK
<1> QED BY <1>1, <1>2, <1>3, <1>4 DEF CardInv

(* The prefixes live on while the loop is not about.                       *)
LEMMA LoopRests ==
  ASSUME CardTypeOK, ReadIsPrefix, UNCHANGED loop, NEW k \in Chunks,
         accumulated' \in {accumulated, Append(accumulated, k)}
  PROVE  ReadIsPrefix'
BY PrefixAppend DEF ReadIsPrefix, CardTypeOK, loop

LEMMA CardNextInv == CardInv /\ [CardNext]_cardVars => CardInv'
<1> SUFFICES ASSUME CardInv, [CardNext]_cardVars PROVE CardInv'
  OBVIOUS
<1> USE DEF CardInv
<1>1. ASSUME NEW k \in Chunks, Notify(k) PROVE CardInv'
  <2>1. CardTypeOK'
    BY <1>1 DEF Notify, Move, CardTypeOK, Points, card, loop
  <2>2. CreatedOnce'
    BY <1>1 DEF Notify, Move, CardTypeOK, card, CreatedOnce
  <2>3. OneCard'
    BY <1>1 DEF Notify, Move, CardTypeOK, card, OneCard
  <2>4. ReadIsPrefix'
    BY <1>1, LoopRests DEF Notify
  <2> QED BY <2>1, <2>2, <2>3, <2>4
<1>2. ASSUME NEW k \in Chunks, Route(k) PROVE CardInv'
  <2>1. CardTypeOK'
    BY <1>2 DEF Route, Move, CardTypeOK, Points, card, loop
  <2>2. CreatedOnce'
    BY <1>2 DEF Route, Move, CardTypeOK, card, CreatedOnce
  <2>3. OneCard'
    BY <1>2 DEF Route, Move, CardTypeOK, card, OneCard
  <2>4. ReadIsPrefix'
    BY <1>2, LoopRests DEF Route
  <2> QED BY <2>1, <2>2, <2>3, <2>4
<1>3. ASSUME NEW k \in Chunks, TryOnce(k) PROVE CardInv'
  <2>1. CardTypeOK'
    BY <1>3 DEF TryOnce, Move, CardTypeOK, Points, card, loop
  <2>2. CreatedOnce'
    BY <1>3 DEF TryOnce, Move, CardTypeOK, CreatedOnce
  <2>3. OneCard'
    BY <1>3 DEF TryOnce, Move, CardTypeOK, OneCard
  <2>4. ReadIsPrefix'
    BY <1>3, LoopRests DEF TryOnce
  <2> QED BY <2>1, <2>2, <2>3, <2>4
<1>4. ASSUME NEW k \in Chunks, CreateCard(k) PROVE CardInv'
  <2>1. CardTypeOK'
    <3>0. k \in Chunks /\ fallback \in Seq(Chunks) /\ cards \in Nat
      BY DEF CardTypeOK
    <3>1. fallback' \in Seq(Chunks)
      <4>1. CASE UNCHANGED fallback
        BY <3>0, <4>1
      <4>2. CASE fallback' = Append(fallback, k)
        BY <3>0, <4>2
      <4> QED BY <1>4, <4>1, <4>2 DEF CreateCard
    <3>9. cards' \in Nat
      BY <1>4, <3>0 DEF CreateCard
    <3>2. failed' \in BOOLEAN
      BY <1>4, Zenon DEF CreateCard, CardTypeOK
    <3> QED BY <1>4, <3>1, <3>2, <3>9 DEF CreateCard, Move, CardTypeOK, Points, loop
  <2>2. CreatedOnce'
    BY <1>4 DEF CreateCard, Move, CardTypeOK, CreatedOnce
  <2>3. OneCard'
    <3>1. once = "running" /\ ~failed /\ cards = 0
      BY <1>4 DEF CreateCard, Move, CreatedOnce, OneCard, CardTypeOK
    <3>2. cards' + (IF failed' THEN 1 ELSE 0) = 1 /\ once' = "done"
      BY <1>4, <3>1 DEF CreateCard, CardTypeOK
    <3>3. \A j \in Chunks : at[j] # "buffered"
      BY <3>1 DEF OneCard
    <3> QED BY <1>4, <3>2, <3>3 DEF CreateCard, Move, CardTypeOK, OneCard
  <2>4. ReadIsPrefix'
    BY <1>4, LoopRests DEF CreateCard
  <2> QED BY <2>1, <2>2, <2>3, <2>4
<1>5. ASSUME NEW k \in Chunks, Buffer(k) PROVE CardInv'
  <2>1. CardTypeOK'
    BY <1>5 DEF Buffer, Move, CardTypeOK, Points, loop
  <2>2. CreatedOnce'
    BY <1>5 DEF Buffer, Move, CardTypeOK, CreatedOnce
  <2>3. OneCard'
    <3>1. Range(fallback') = Range(fallback) \cup {k}
      BY <1>5, AppendedRange DEF Buffer, CardTypeOK
    <3> QED BY <1>5, <3>1 DEF Buffer, Move, CardTypeOK, OneCard
  <2>4. ReadIsPrefix'
    BY <1>5, LoopRests DEF Buffer
  <2> QED BY <2>1, <2>2, <2>3, <2>4
<1>6. ASSUME NEW k \in Chunks, AddText(k) PROVE CardInv'
  <2>1. CardTypeOK'
    BY <1>6 DEF AddText, Move, CardTypeOK, Points, card, loop
  <2>2. CreatedOnce'
    BY <1>6 DEF AddText, Move, CardTypeOK, card, CreatedOnce
  <2>3. OneCard'
    <3>1. /\ Range(accumulated') = Range(accumulated) \cup {k}
          /\ k \notin Range(accumulated)
      BY <1>6, AppendedRange DEF AddText, Move, CardTypeOK, OneCard
    <3>2. IsInjective(accumulated')
      BY <1>6, <3>1 DEF AddText, CardTypeOK, OneCard, IsInjective, Range
    <3> QED BY <1>6, <3>1, <3>2 DEF AddText, Move, card, CardTypeOK, OneCard
  <2>4. ReadIsPrefix'
    BY <1>6, LoopRests DEF AddText
  <2> QED BY <2>1, <2>2, <2>3, <2>4
<1>7. ASSUME NEW k \in Chunks, Signal(k) PROVE CardInv'
  <2>1. CardTypeOK'
    BY <1>7 DEF Signal, Move, CardTypeOK, Points, card, loop
  <2>2. CreatedOnce'
    BY <1>7 DEF Signal, Move, CardTypeOK, card, CreatedOnce
  <2>3. OneCard'
    BY <1>7 DEF Signal, Move, CardTypeOK, card, OneCard
  <2>4. ReadIsPrefix'
    BY <1>7, LoopRests DEF Signal
  <2> QED BY <2>1, <2>2, <2>3, <2>4
<1>8. CASE FlushLoop
  <2>1. CardTypeOK' /\ UNCHANGED <<at, card, accumulated>>
    BY <1>8 DEF FlushLoop, Wakeup, ReadText, SendUpdate, CardTypeOK, card
  <2>2. CreatedOnce' /\ OneCard'
    BY <2>1 DEF CreatedOnce, OneCard, card
  <2>3. CASE Wakeup
    BY <2>1, <2>2, <2>3 DEF Wakeup, ReadIsPrefix
  <2>4. CASE ReadText
    BY <2>1, <2>2, <2>4, PrefixReflexive DEF ReadText, ReadIsPrefix, CardTypeOK
  <2>5. CASE SendUpdate
    BY <2>1, <2>2, <2>5 DEF SendUpdate, ReadIsPrefix
  <2> QED BY <1>8, <2>1, <2>2, <2>3, <2>4, <2>5 DEF FlushLoop
<1>9. CASE UNCHANGED cardVars
  BY <1>9 DEF cardVars, card, loop, CardTypeOK, CreatedOnce, OneCard, ReadIsPrefix
<1> QED BY <1>1, <1>2, <1>3, <1>4, <1>5, <1>6, <1>7, <1>8, <1>9 DEF CardNext, HandleChunk

(* However the goroutines of the chunks overlap, an invocation gets one    *)
(* card or none, and each chunk is on it once or in the buffer.            *)
THEOREM InvocationHasOneCard == CardSpec => []OneCard
<1>1. CardInv => OneCard
  BY DEF CardInv
<1> QED BY <1>1, CardInitInv, CardNextInv, PTL DEF CardSpec

(* Whatever updates fail, the card never takes text back.                  *)
THEOREM CardOnlyGrows == CardSpec => Typewriter
<1> DEFINE Grows == IsPrefix(shown, shown') /\ IsPrefix(shown', accumulated')
<1>1. ASSUME CardInv, CardInv', [CardNext]_cardVars PROVE [Grows]_cardVars
  <2>1. shown' \in {shown, text} /\ (shown' # shown => flush = "send")
    BY <1>1 DEF CardNext, FlushLoop, Wakeup, ReadText, SendUpdate, HandleChunk, Notify, Route,
                TryOnce, CreateCard, Buffer, AddText, Signal, loop, cardVars
  <2>2. IsPrefix(shown, shown')
    BY <1>1, <2>1, PrefixReflexive DEF CardInv, CardTypeOK, ReadIsPrefix
  <2> QED BY <1>1, <2>2 DEF CardInv, ReadIsPrefix
<1> QED BY <1>1, CardInitInv, CardNextInv, PTL DEF CardSpec, Typewriter
===============================================================================
