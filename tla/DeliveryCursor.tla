----------------------------- MODULE DeliveryCursor -----------------------------
(***************************************************************************)
(* What one agent has been shown of one thread, in incremental mode:       *)
(* internal/service/agent/delivery_cursor_store.go over                    *)
(* internal/repo/delivery_cursor_repo.go, the pull and the boundary buffer *)
(* of incremental_context.go as executeAgent uses them, and the sortable   *)
(* ids that message.go hands out.                                          *)
(*                                                                         *)
(* Invocations of one (thread, agent) pair overlap: they pull before they  *)
(* would take the session mutex, and a new session takes none.  They share *)
(* the buffer that is registered for the pair.  A step is one database     *)
(* call or one critical section; any database call may fail.               *)
(*                                                                         *)
(* Ids are numbers in their lexicographic order, 0 the empty string.  What *)
(* is filtered or trimmed from a pull is acknowledged with it all the same,*)
(* so the prompt text is left out.                                         *)
(***************************************************************************)
EXTENDS Naturals, FiniteSets

CONSTANTS Invocations,   \* of the pair, each executed once
          None,          \* no buffer
          maxMessages,   \* LIMIT of a pull, 200 in the code
          MaxStamped     \* bound of the model: messages of the thread

ASSUME NoneAssumption == None \notin Invocations
ASSUME BoundAssumption == maxMessages \in Nat \ {0} /\ MaxStamped \in Nat

VARIABLES
  stamped,         \* sortable ids handed out: 1 .. stamped
  inFlight,        \* ids whose INSERT is still to come
  stored,          \* rows of messages
  dbCursor,        \* row of delivery_cursors
  memCursor,       \* its entry in the LRU
  pairBoundaries,  \* the pair's buffer: who created it, None when absent
  boundaries,      \* boundaries[i]: the maximum in the buffer i created
  pc,              \* where each invocation is
  seen,            \* seen[i]: memCursor as i last read it
  cur,             \* cur[i]: the cursor or boundary i is working with
  buf,             \* buf[i]: the buffer i holds
  pulled,          \* ids some invocation has pulled (history)
  late,            \* ids stored after a later one was pulled (history)
  settled,         \* highest cursor AckCursor reported stored (history)
  since,           \* since[i]: settled as i began; 0 if its read failed
  failedWrite      \* an AckCursor of this life has failed (history)

messages == <<stamped, inFlight, stored>>
cursors  == <<dbCursor, memCursor>>
buffers  == <<pairBoundaries, boundaries>>
locals   == <<pc, seen, cur, buf>>
history  == <<pulled, late, settled, since, failedWrite>>
vars     == <<messages, cursors, buffers, locals, history>>

PC == {"idle", "looking", "syncing", "pulling", "buffering", "upserting",
       "running", "snapping", "acking", "storing", "checking", "rereading",
       "caching", "ended"}

Larger(a, b) == IF a > b THEN a ELSE b

Init == /\ stamped = 0 /\ inFlight = {} /\ stored = {}
        /\ dbCursor = 0 /\ memCursor = 0
        /\ pairBoundaries = None
        /\ boundaries = [i \in Invocations |-> 0]
        /\ pc = [i \in Invocations |-> "idle"]
        /\ seen = [i \in Invocations |-> 0]
        /\ cur = [i \in Invocations |-> 0]
        /\ buf = [i \in Invocations |-> None]
        /\ pulled = {} /\ late = {} /\ settled = 0
        /\ since = [i \in Invocations |-> 0]
        /\ failedWrite = FALSE

Goto(i, from, to) == pc[i] = from /\ pc' = [pc EXCEPT ![i] = to]
Work(i, value) == cur' = [cur EXCEPT ![i] = value]

-------------------------------------------------------------------------------
(* MessageRepository.Create: the id is made, ...                           *)
Stamp == /\ stamped < MaxStamped
         /\ stamped' = stamped + 1
         /\ inFlight' = inFlight \cup {stamped + 1}
         /\ UNCHANGED <<stored, cursors, buffers, locals, history>>

(* ... and then the row, when its turn for the connection comes.           *)
Store(m) == /\ m \in inFlight
            /\ inFlight' = inFlight \ {m}
            /\ stored' = stored \cup {m}
            /\ late' = IF \E p \in pulled : p > m THEN late \cup {m} ELSE late
            /\ UNCHANGED <<stamped, cursors, buffers, locals, pulled, settled, since, failedWrite>>

-------------------------------------------------------------------------------
(* GetCursor: the memory first, ...                                        *)
GetFromCache(i) == /\ Goto(i, "idle", "looking")
                   /\ seen' = [seen EXCEPT ![i] = memCursor]
                   /\ since' = [since EXCEPT ![i] = settled]
                   /\ UNCHANGED <<messages, cursors, buffers, cur, buf, pulled, late, settled, failedWrite>>

(* Mutant: memory is trusted when it has a cursor at all.                  *)
GetFromDBUnlessCached(i) ==
  /\ Goto(i, "looking", IF seen[i] = 0 /\ dbCursor > 0 THEN "syncing" ELSE "pulling")
  /\ Work(i, IF seen[i] = 0 THEN dbCursor ELSE seen[i])
  /\ UNCHANGED <<messages, cursors, buffers, seen, buf, history>>

(* ... then the database; the larger of the two counts, ...                *)
GetFromDB(i) == /\ Goto(i, "looking", IF dbCursor > seen[i] THEN "syncing" ELSE "pulling")
                /\ Work(i, Larger(seen[i], dbCursor))
                /\ UNCHANGED <<messages, cursors, buffers, seen, buf, history>>

(* ... or the memory alone when the read fails.                            *)
GetFromDBFails(i) == /\ Goto(i, "looking", "pulling")
                     /\ Work(i, seen[i])
                     /\ since' = [since EXCEPT ![i] = 0]
                     /\ UNCHANGED <<messages, cursors, buffers, seen, buf, pulled, late, settled, failedWrite>>

(* Mutant: the cache takes whatever it is given.                           *)
OverwriteCache(cursor) == memCursor' = cursor

(* upsertCache: a value only ever replaces a smaller one.                  *)
UpsertCache(cursor) == memCursor' = Larger(memCursor, cursor)

(* A database cursor that is ahead is copied to memory.                    *)
SyncMemory(i) == /\ Goto(i, "syncing", "pulling")
                 /\ UpsertCache(cur[i])
                 /\ UNCHANGED <<messages, dbCursor, buffers, seen, cur, buf, history>>

(* Mutant: the query returns the newest unread messages.                   *)
NewestUnread(cursor) ==
  {m \in stored : m > cursor /\ Cardinality({n \in stored : m <= n}) <= maxMessages}

(* GetByThreadAfter: the first maxMessages rows after the cursor.          *)
Unread(cursor) ==
  {m \in stored : m > cursor /\ Cardinality({n \in stored : cursor < n /\ n <= m}) <= maxMessages}

(* Mutant: the boundary is where the next pull should start.               *)
PullPast(i) == /\ Goto(i, "pulling", "buffering")
               /\ \E last \in Unread(cur[i]) :
                    /\ \A m \in Unread(cur[i]) : m <= last
                    /\ Work(i, last + 1)
               /\ pulled' = pulled \cup Unread(cur[i])
               /\ UNCHANGED <<messages, cursors, buffers, seen, buf, late, settled, since, failedWrite>>

(* The boundary is the last of them.                                       *)
Pull(i) == /\ Goto(i, "pulling", "buffering")
           /\ \E last \in Unread(cur[i]) :
                /\ \A m \in Unread(cur[i]) : m <= last
                /\ Work(i, last)
           /\ pulled' = pulled \cup Unread(cur[i])
           /\ UNCHANGED <<messages, cursors, buffers, seen, buf, late, settled, since, failedWrite>>

(* Nothing unread, or the query fails and the legacy history is used.      *)
PullNothing(i) == /\ Goto(i, "pulling", "running")
                  /\ UNCHANGED <<messages, cursors, buffers, seen, cur, buf, history>>

(* getOrCreateBoundaryBufferByPair, ...                                    *)
GetBuffer(i) == LET b == IF pairBoundaries = None THEN i ELSE pairBoundaries
                IN /\ Goto(i, "buffering", "upserting")
                   /\ pairBoundaries' = b
                   /\ buf' = [buf EXCEPT ![i] = b]
                   /\ UNCHANGED <<messages, cursors, boundaries, seen, cur, history>>

(* ... then UpsertMax under the buffer's own mutex.                        *)
UpsertMax(i) == /\ Goto(i, "upserting", "running")
                /\ boundaries' = [boundaries EXCEPT ![buf[i]] = Larger(@, cur[i])]
                /\ UNCHANGED <<messages, cursors, pairBoundaries, seen, cur, buf, history>>

(* An invocation that no agent triggered pulls nothing, but flushes.       *)
RunOther(i) == /\ Goto(i, "idle", "running")
               /\ UNCHANGED <<messages, cursors, buffers, seen, cur, buf, history>>

-------------------------------------------------------------------------------
(* flushBoundaryBufferByPair, deferred by executeAgent: whoever ends first *)
(* takes the pair's buffer.                                                *)
TakeBuffer(i) == /\ Goto(i, "running", IF pairBoundaries = None THEN "ended" ELSE "snapping")
                 /\ buf' = [buf EXCEPT ![i] = pairBoundaries]
                 /\ pairBoundaries' = None
                 /\ UNCHANGED <<messages, cursors, boundaries, seen, cur, history>>

(* AckAll over a snapshot, which may still be empty.                       *)
Snapshot(i) == /\ Goto(i, "snapping", IF boundaries[buf[i]] = 0 THEN "ended" ELSE "acking")
               /\ Work(i, boundaries[buf[i]])
               /\ UNCHANGED <<messages, cursors, buffers, seen, buf, history>>

(* Mutant: memory is written before the database.                          *)
AckMemoryFirst(i) == /\ Goto(i, "acking", "storing")
                     /\ seen' = [seen EXCEPT ![i] = memCursor]
                     /\ Work(i, Larger(memCursor, cur[i]))
                     /\ UpsertCache(Larger(memCursor, cur[i]))
                     /\ UNCHANGED <<messages, dbCursor, buffers, buf, history>>

(* AckCursor: never less than the memory holds, ...                        *)
AckEffective(i) == /\ Goto(i, "acking", "storing")
                   /\ seen' = [seen EXCEPT ![i] = memCursor]
                   /\ Work(i, Larger(memCursor, cur[i]))
                   /\ UNCHANGED <<messages, cursors, buffers, buf, history>>

(* ... CompareAndSet: the upsert that keeps the larger cursor, ...         *)
CompareAndSet(i) == /\ Goto(i, "storing", "checking")
                    /\ dbCursor' = Larger(dbCursor, cur[i])
                    /\ UNCHANGED <<messages, memCursor, buffers, seen, cur, buf, history>>

(* ... and the row read back: does it hold our cursor?                     *)
ReadBack(i) == /\ Goto(i, "checking", IF dbCursor = cur[i] THEN "caching" ELSE "rereading")
               /\ UNCHANGED <<messages, cursors, buffers, seen, cur, buf, history>>

(* Either of the two fails: the cursor is kept in memory.                  *)
AckFails(i) == /\ \/ Goto(i, "storing", "ended")
                  \/ Goto(i, "checking", "ended")
               /\ IF cur[i] > seen[i] THEN UpsertCache(cur[i]) ELSE UNCHANGED memCursor
               /\ failedWrite' = TRUE
               /\ UNCHANGED <<messages, dbCursor, buffers, seen, cur, buf, pulled, late, settled, since>>

(* Somebody else's is larger: it is read once more, for the memory; ...    *)
Reread(i) == /\ Goto(i, "rereading", "caching")
             /\ Work(i, dbCursor)
             /\ UNCHANGED <<messages, cursors, buffers, seen, buf, history>>

(* ... if that fails the memory stays behind, and nothing is reported.     *)
RereadFails(i) == /\ Goto(i, "rereading", "ended")
                  /\ settled' = Larger(settled, cur[i])
                  /\ UNCHANGED <<messages, cursors, buffers, seen, cur, buf, pulled, late, since, failedWrite>>

UpdateMemory(i) == /\ Goto(i, "caching", "ended")
                   /\ UpsertCache(cur[i])
                   /\ settled' = Larger(settled, cur[i])
                   /\ UNCHANGED <<messages, dbCursor, buffers, seen, cur, buf, pulled, late, since, failedWrite>>

-------------------------------------------------------------------------------
(* Other pairs push the entry out of the LRU.                              *)
Evict == /\ memCursor # 0
         /\ memCursor' = 0
         /\ UNCHANGED <<messages, dbCursor, buffers, locals, history>>

(* The process dies: rows are left, memory and goroutines are not.         *)
Crash == /\ inFlight' = {}
         /\ memCursor' = 0
         /\ pairBoundaries' = None
         /\ pc' = [i \in Invocations |-> IF pc[i] = "idle" THEN "idle" ELSE "ended"]
         /\ failedWrite' = FALSE
         /\ UNCHANGED <<stamped, stored, dbCursor, boundaries, seen, cur, buf, pulled, late, settled, since>>

Assemble(i) == \/ GetFromCache(i) \/ GetFromDB(i) \/ GetFromDBFails(i) \/ SyncMemory(i)
               \/ Pull(i) \/ PullNothing(i) \/ GetBuffer(i) \/ UpsertMax(i) \/ RunOther(i)

Flush(i) == \/ TakeBuffer(i) \/ Snapshot(i) \/ AckEffective(i) \/ CompareAndSet(i)
            \/ ReadBack(i) \/ AckFails(i) \/ Reread(i) \/ RereadFails(i) \/ UpdateMemory(i)

Next == \/ \E i \in Invocations : Assemble(i) \/ Flush(i)
        \/ Stamp \/ \E m \in inFlight : Store(m)
        \/ Evict \/ Crash

Spec == Init /\ [][Next]_vars

-------------------------------------------------------------------------------
Ids == 0..stamped

TypeOK == /\ stamped \in 0..MaxStamped
          /\ inFlight \subseteq 1..stamped /\ stored \subseteq 1..stamped
          /\ dbCursor \in Ids /\ memCursor \in Ids
          /\ pairBoundaries \in Invocations \cup {None}
          /\ boundaries \in [Invocations -> Ids]
          /\ pc \in [Invocations -> PC]
          /\ seen \in [Invocations -> Ids] /\ cur \in [Invocations -> Ids]
          /\ buf \in [Invocations -> Invocations \cup {None}]
          /\ pulled \subseteq stored /\ late \subseteq stored
          /\ settled \in Ids /\ since \in [Invocations -> Ids]
          /\ failedWrite \in BOOLEAN

(* The cursor never passes a message that nobody has pulled, however pulls,*)
(* shared buffers, acknowledgements and failures overlap; unless the       *)
(* message was stored behind a later one that had been pulled already.     *)
NothingSkipped ==
  \A m \in stored : m <= Larger(dbCursor, memCursor) => m \in pulled \cup late

(* "Keep a message from being delivered again and again": an invocation    *)
(* that begins after an acknowledgement was reported stored starts from no *)
(* earlier cursor, though memory was evicted or lost; only a database that *)
(* cannot be read sends it back.                                           *)
NotShownAgain == \A i \in Invocations : pc[i] = "pulling" => cur[i] >= since[i]

(* Memory is ahead of the database only after an acknowledgement that      *)
(* could not be stored: nothing else would be forgotten in a crash.        *)
MemoryBacked == memCursor > dbCursor => failedWrite

(* "The cursor only moves forward": the row never goes back, and neither   *)
(* does the copy, unless it goes altogether, although both are written     *)
(* with values read several steps earlier.                                 *)
OnlyForward ==
  [][dbCursor' >= dbCursor /\ (memCursor' >= memCursor \/ memCursor' = 0)]_vars
===============================================================================
