-------------------------- MODULE DeliveryCursorProofs --------------------------
(***************************************************************************)
(* DeliveryCursor keeps its promises for any number of overlapping         *)
(* invocations, any limit and any number of messages.                      *)
(*                                                                         *)
(* Every cursor and boundary anywhere in the system is the id of a pulled  *)
(* message (or empty), and what has been pulled has no gaps but for late   *)
(* messages.  Neither NothingSkipped nor the rest is inductive without     *)
(* both; what has been reported stored is below the row for good.          *)
(***************************************************************************)
EXTENDS DeliveryCursor, FiniteSetTheorems, TLAPS

Pulled == pulled \cup {0}

CursorsPulled ==
  /\ dbCursor \in Pulled /\ memCursor \in Pulled
  /\ \A i \in Invocations : /\ boundaries[i] \in Pulled
                            /\ cur[i] \in Pulled
                            /\ seen[i] \in Pulled

NoGaps == \A p \in pulled, m \in stored : m < p => m \in pulled \cup late

BufferHeld == \A i \in Invocations : pc[i] \in {"upserting", "snapping"} => buf[i] # None

SettledStored ==
  /\ settled <= dbCursor
  /\ \A i \in Invocations :
       /\ since[i] <= settled
       /\ pc[i] \in {"syncing", "checking", "rereading", "caching"} => cur[i] <= dbCursor
       /\ pc[i] \in {"syncing", "pulling"} => cur[i] >= since[i]

Inv == TypeOK /\ CursorsPulled /\ NoGaps /\ BufferHeld /\ SettledStored /\ MemoryBacked

-------------------------------------------------------------------------------
LEMMA InitInv == Init => Inv
<1> SUFFICES ASSUME Init PROVE Inv
  OBVIOUS
<1> USE DEF Init
<1>1. TypeOK
  <2>1. stamped \in 0..MaxStamped /\ 0 \in Ids
    BY BoundAssumption DEF Ids
  <2>2. pc \in [Invocations -> PC]
    BY DEF PC
  <2>3. /\ boundaries \in [Invocations -> Ids] /\ seen \in [Invocations -> Ids]
        /\ cur \in [Invocations -> Ids] /\ since \in [Invocations -> Ids]
    BY <2>1
  <2>4. buf \in [Invocations -> Invocations \cup {None}]
    OBVIOUS
  <2> QED BY <2>1, <2>2, <2>3, <2>4 DEF TypeOK
<1>2. CursorsPulled /\ NoGaps
  BY DEF CursorsPulled, Pulled, NoGaps
<1>3. BufferHeld /\ SettledStored /\ MemoryBacked
  BY DEF BufferHeld, SettledStored, MemoryBacked
<1> QED BY <1>1, <1>2, <1>3 DEF Inv

(* A pull is an initial segment of what is stored beyond the cursor.       *)
LEMMA UnreadIsPrefix ==
  ASSUME TypeOK, NEW cursor \in Nat, NEW p \in Unread(cursor),
         NEW m \in stored, cursor < m, m < p
  PROVE  m \in Unread(cursor)
<1> DEFINE Upto(x) == {n \in stored : cursor < n /\ n <= x}
<1>1. stored \subseteq 1..stamped /\ stamped \in Nat /\ p \in stored
  BY DEF TypeOK, Unread
<1>2. IsFiniteSet(stored)
  <2>1. IsFiniteSet(1..stamped)
    BY <1>1, FS_Interval
  <2> QED BY <1>1, <2>1, FS_Subset
<1>3. IsFiniteSet(Upto(p)) /\ Upto(m) \subseteq Upto(p)
  <2>1. Upto(p) \subseteq stored
    OBVIOUS
  <2>2. stored \subseteq Int
    BY <1>1
  <2>3. ASSUME NEW n \in Upto(m) PROVE n \in Upto(p)
    <3>1. n \in Int /\ m \in Int /\ p \in Int /\ n <= m
      BY <2>2, <1>1
    <3> QED BY <3>1
  <2>4. Upto(m) \subseteq Upto(p)
    BY <2>3
  <2> QED BY <1>2, <2>1, <2>4, FS_Subset
<1>4. /\ Cardinality(Upto(m)) <= Cardinality(Upto(p))
      /\ Cardinality(Upto(m)) \in Nat /\ Cardinality(Upto(p)) \in Nat
  <2>1. IsFiniteSet(Upto(m))
    BY <1>3, FS_Subset
  <2> QED BY <1>3, <2>1, FS_Subset, FS_CardinalityType
<1>5. Cardinality(Upto(p)) <= maxMessages
  BY DEF Unread
<1> QED BY <1>4, <1>5, BoundAssumption DEF Unread

-------------------------------------------------------------------------------
LEMMA NextInv == Inv /\ [Next]_vars => Inv'
<1> SUFFICES ASSUME Inv, [Next]_vars PROVE Inv'
  OBVIOUS
<1> USE NoneAssumption, BoundAssumption
    DEF Inv, TypeOK, Ids, PC, Pulled, CursorsPulled, NoGaps, BufferHeld, SettledStored,
        MemoryBacked, Goto, Work, Larger, messages, cursors, buffers, locals, history
<1>1. CASE Stamp
  BY <1>1 DEF Stamp
<1>2. ASSUME NEW m \in inFlight, Store(m) PROVE Inv'
  BY <1>2 DEF Store
<1>3. ASSUME NEW i \in Invocations, GetFromCache(i) PROVE Inv'
  BY <1>3 DEF GetFromCache
<1>4. ASSUME NEW i \in Invocations, GetFromDB(i) PROVE Inv'
  BY <1>4 DEF GetFromDB
<1>5. ASSUME NEW i \in Invocations, GetFromDBFails(i) PROVE Inv'
  BY <1>5 DEF GetFromDBFails
<1>6. ASSUME NEW i \in Invocations, SyncMemory(i) PROVE Inv'
  BY <1>6 DEF SyncMemory, UpsertCache
<1>7. ASSUME NEW i \in Invocations, Pull(i) PROVE Inv'
  <2> PICK last \in Unread(cur[i]) : Work(i, last)
    BY <1>7 DEF Pull
  <2>1. Unread(cur[i]) \subseteq stored
    BY DEF Unread
  <2>2. ASSUME NEW p \in Unread(cur[i]), NEW m \in stored, m < p
        PROVE  m \in pulled \cup late \cup Unread(cur[i])
    <3>1. CASE cur[i] < m
      BY <2>2, <3>1, UnreadIsPrefix
    <3>2. CASE ~(cur[i] < m)
      BY <2>2, <3>2
    <3> QED BY <3>1, <3>2
  <2>3. NoGaps'
    BY <1>7, <2>2 DEF Pull
  <2>4. last \in Unread(cur[i])
    BY <1>7 DEF Pull, Work
  <2> HIDE DEF NoGaps
  <2>5. TypeOK'
    <3>1. last \in Ids
      <4> HIDE DEF CursorsPulled, BufferHeld, SettledStored, MemoryBacked, PC
      <4>1. stamped \in Nat
        OBVIOUS
      <4>2. last \in 1..stamped
        BY <2>1, <2>4
      <4> QED BY <4>1, <4>2
    <3>2. cur' \in [Invocations -> Ids]
      BY <3>1, <2>4
    <3>3. pc' \in [Invocations -> PC]
      BY <1>7 DEF Pull
    <3>4. pulled' \subseteq stored
      BY <1>7, <2>1 DEF Pull
    <3> HIDE DEF CursorsPulled, BufferHeld, SettledStored, MemoryBacked, PC
    <3> QED BY <1>7, <3>2, <3>3, <3>4 DEF Pull
  <2>6. CursorsPulled'
    BY <1>7, <2>1 DEF Pull
  <2>7. (BufferHeld /\ SettledStored /\ MemoryBacked)'
    BY <1>7 DEF Pull
  <2> QED BY <2>3, <2>5, <2>6, <2>7
<1>8. ASSUME NEW i \in Invocations, PullNothing(i) PROVE Inv'
  BY <1>8 DEF PullNothing
<1>9. ASSUME NEW i \in Invocations, GetBuffer(i) PROVE Inv'
  BY <1>9 DEF GetBuffer
<1>10. ASSUME NEW i \in Invocations, UpsertMax(i) PROVE Inv'
  BY <1>10 DEF UpsertMax
<1>11. ASSUME NEW i \in Invocations, RunOther(i) PROVE Inv'
  BY <1>11 DEF RunOther
<1>12. ASSUME NEW i \in Invocations, TakeBuffer(i) PROVE Inv'
  BY <1>12 DEF TakeBuffer
<1>13. ASSUME NEW i \in Invocations, Snapshot(i) PROVE Inv'
  BY <1>13 DEF Snapshot
<1>14. ASSUME NEW i \in Invocations, AckEffective(i) PROVE Inv'
  BY <1>14 DEF AckEffective
<1>15. ASSUME NEW i \in Invocations, CompareAndSet(i) PROVE Inv'
  BY <1>15 DEF CompareAndSet
<1>16. ASSUME NEW i \in Invocations, ReadBack(i) PROVE Inv'
  BY <1>16 DEF ReadBack
<1>17. ASSUME NEW i \in Invocations, AckFails(i) PROVE Inv'
  BY <1>17 DEF AckFails, UpsertCache
<1>18. ASSUME NEW i \in Invocations, Reread(i) PROVE Inv'
  BY <1>18 DEF Reread
<1>19. ASSUME NEW i \in Invocations, RereadFails(i) PROVE Inv'
  BY <1>19 DEF RereadFails
<1>20. ASSUME NEW i \in Invocations, UpdateMemory(i) PROVE Inv'
  BY <1>20 DEF UpdateMemory, UpsertCache
<1>21. CASE Evict
  BY <1>21 DEF Evict
<1>22. CASE Crash
  <2>1. TypeOK'
    <3>1. pc' \in [Invocations -> PC]
      BY <1>22 DEF Crash
    <3> HIDE DEF CursorsPulled, NoGaps, BufferHeld, SettledStored, MemoryBacked, PC
    <3>2. /\ stamped' \in 0..MaxStamped
          /\ inFlight' \subseteq (1..stamped)' /\ stored' \subseteq (1..stamped)'
          /\ dbCursor' \in Ids' /\ memCursor' \in Ids'
          /\ pairBoundaries' \in Invocations \cup {None}
      BY <1>22 DEF Crash
    <3>3. /\ boundaries' \in [Invocations -> Ids'] /\ since' \in [Invocations -> Ids']
          /\ seen' \in [Invocations -> Ids'] /\ cur' \in [Invocations -> Ids']
          /\ buf' \in [Invocations -> Invocations \cup {None}]
      BY <1>22 DEF Crash
    <3>4. /\ pulled' \subseteq stored' /\ late' \subseteq stored'
          /\ settled' \in Ids' /\ failedWrite' \in BOOLEAN
      BY <1>22 DEF Crash
    <3> QED BY <3>1, <3>2, <3>3, <3>4
  <2>2. (CursorsPulled /\ NoGaps)'
    BY <1>22 DEF Crash
  <2>3. (BufferHeld /\ SettledStored /\ MemoryBacked)'
    BY <1>22 DEF Crash
  <2> QED BY <2>1, <2>2, <2>3
<1>23. CASE UNCHANGED vars
  BY <1>23 DEF vars
<1> QED BY <1>1, <1>2, <1>3, <1>4, <1>5, <1>6, <1>7, <1>8, <1>9, <1>10, <1>11, <1>12, <1>13,
           <1>14, <1>15, <1>16, <1>17, <1>18, <1>19, <1>20, <1>21, <1>22, <1>23
        DEF Next, Assemble, Flush

LEMMA InvInvariant == Spec => []Inv
<1> QED BY InitInv, NextInv, PTL DEF Spec

-------------------------------------------------------------------------------
(* Cursors and ids keep their range, and only stored messages are pulled.  *)
THEOREM TypeCorrect == Spec => []TypeOK
<1>1. Inv => TypeOK
  BY DEF Inv
<1> QED BY <1>1, InvInvariant, PTL

(* The cursor passes no message that was there to be pulled.               *)
THEOREM SkipsNothing == Spec => []NothingSkipped
<1>1. Inv => NothingSkipped
  BY DEF Inv, TypeOK, Ids, CursorsPulled, Pulled, NoGaps, NothingSkipped, Larger
<1> QED BY <1>1, InvInvariant, PTL

(* What was reported acknowledged is not delivered again, whichever of the *)
(* memory and the database answers.                                        *)
THEOREM AcknowledgedForGood == Spec => []NotShownAgain
<1>1. Inv => NotShownAgain
  BY DEF Inv, SettledStored, NotShownAgain
<1> QED BY <1>1, InvInvariant, PTL

(* A crash forgets no acknowledgement whose write has not failed.          *)
THEOREM MemoryIsBacked == Spec => []MemoryBacked
<1>1. Inv => MemoryBacked
  BY DEF Inv
<1> QED BY <1>1, InvInvariant, PTL

(* Neither the row nor its copy ever moves back.                           *)
THEOREM CursorsOnlyAdvance == Spec => OnlyForward
<1>1. Inv /\ [Next]_vars =>
        [dbCursor' >= dbCursor /\ (memCursor' >= memCursor \/ memCursor' = 0)]_vars
  BY DEF Inv, TypeOK, Ids, Next, Assemble, Flush, Stamp, Store, GetFromCache, GetFromDB,
         GetFromDBFails, SyncMemory, UpsertCache, Pull, PullNothing, GetBuffer, UpsertMax,
         RunOther, TakeBuffer, Snapshot, AckEffective, CompareAndSet, ReadBack, AckFails,
         Reread, RereadFails, UpdateMemory, Evict, Crash, Larger, cursors, vars
<1> QED BY <1>1, InvInvariant, PTL DEF Spec, OnlyForward
===============================================================================
