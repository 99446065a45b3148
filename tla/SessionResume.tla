--------------------------- MODULE SessionResume ---------------------------
(***************************************************************************)
(* How one agent of one thread gets back to the conversation of its CLI:   *)
(* the session id goes from the CLI into the invocation's row, into        *)
(* session_records and into the in-memory cache cliSessions, and from      *)
(* there into the next execution.  executeAgent of execution_service.go    *)
(* reads the id before it acquires the session mutex, the SessionManager   *)
(* finds, deletes and writes records in separate statements, and a session *)
(* the CLI no longer has is replaced by a fresh one.                       *)
(*                                                                         *)
(* An agent's base is an ACP CLI, whose adapter loads the session of the   *)
(* record, or Claude Code, which resumes the id of the request; sessions   *)
(* are numbered in the order of their creation.  A CLI is assumed to       *)
(* answer for a session it does not have with one of the error texts       *)
(* isResumeFallbackError knows.  Times are left out: an execution may      *)
(* resume while a finished invocation is recent, and a record expires only *)
(* while nothing has run for a week.                                       *)
(***************************************************************************)
EXTENDS Integers, SequencesExt

CONSTANTS Kinds,      \* the kinds of base agents: "acp", "claude"
          Exec,       \* executions that may be under way at once
          MaxTurns,   \* bound: executions started
          MaxFaults   \* bound: database calls that fail

ASSUME SessionResumeAssumption == /\ Kinds \subseteq {"acp", "claude"}
                                  /\ MaxTurns \in Nat /\ MaxFaults \in Nat
                                  /\ Exec \cap Nat = {}

VARIABLES base,      \* the kind of the agent's base agent
          cache,     \* the pair's entry of cliSessions
          recent,    \* the session id of the last invocation finished in the last minutes
          rows,      \* the pair's session_records, latest updated_at first
          holder,    \* who holds the session mutex
          t,         \* the execution in each slot
          made,      \* session ids handed out
          maker,     \* the kind of CLI that has each session, "none" when no CLI has it
          rowCount,  \* records created
          turns,     \* executions started
          faults,    \* database calls that failed
          told,      \* the session that got the base agent's latest prompt
          misses,    \* its turns in a row that failed for want of their session
          overlap    \* which executions have run side by side

vars == <<base, cache, recent, rows, holder, t, made, maker, rowCount, turns,
          faults, told, misses, overlap>>

None     == 0
Free     == 0
Leaked   == 1            \* acquired by an execution that returned without a release
Sessions == 1 .. 2 * MaxTurns

Idle == [pc |-> "idle", resume |-> FALSE, kind |-> "acp", id |-> None,
         native |-> None, using |-> None, sid |-> None, own |-> None, row |-> 0,
         back |-> "idle", out |-> "ok", fell |-> FALSE, cancelled |-> FALSE]

Init == /\ base \in Kinds /\ cache = None /\ recent = None
        /\ rows = <<>> /\ holder = Free
        /\ t = [e \in Exec |-> Idle]
        /\ made = 0 /\ maker = [s \in Sessions |-> "none"]
        /\ rowCount = 0 /\ turns = 0 /\ faults = 0
        /\ told = None /\ misses = 0 /\ overlap = "none"

At(e, label) == t[e].pc = label
Active       == {e \in Exec : t[e].pc # "idle"}
Goto(e, label) == t' = [t EXCEPT ![e].pc = label]

\* A database call fails.
Fault == faults < MaxFaults /\ faults' = faults + 1

store   == <<rows, rowCount>>
clis    == <<made, maker>>
history == <<turns, told, misses, overlap>>

----------------------------------------------------------------------------
(* Starting an execution and reading what it may resume.                   *)

\* The ids a request may resume: the cached one, else the one the request carries,
\* which is the recent invocation's unless the agent called itself.
Resumable == IF cache # None THEN {cache} ELSE {recent, None}

\* SpawnAgent, and executeAgent up to the id to resume.  Resume needs a recent
\* invocation of the agent; an agent called by another one loses its cache entry.
Start(e) ==
  /\ At(e, "idle") /\ turns < MaxTurns
  /\ \E resume \in BOOLEAN :
       /\ resume => recent # None
       /\ \E id \in IF resume THEN Resumable ELSE {None} :
            t' = [t EXCEPT ![e] = [Idle EXCEPT !.pc = "lookup", !.resume = resume,
                                               !.kind = base, !.id = id]]
       /\ cache' \in IF resume THEN {cache} ELSE {cache, None}
       /\ overlap' = IF Active = {} THEN overlap
                     ELSE IF overlap # "any" /\ resume /\ \A a \in Active : t[a].resume
                          THEN "resumes" ELSE "any"
  /\ turns' = turns + 1
  /\ told' = IF Active = {} THEN told ELSE None
  /\ misses' = IF Active = {} THEN misses ELSE 0
  /\ UNCHANGED <<base, recent, store, holder, clis, faults>>

\* GetOrCreateSession, for either strategy: the latest record's session, if the
\* record is of the agent's kind and has not expired; otherwise it is deleted.
\* A failed query, and one of a cancelled execution, finds nothing.
LookUp(e) ==
  /\ At(e, "lookup")
  /\ \/ /\ ~t[e].cancelled
        /\ IF rows = <<>> THEN Goto(e, "acquire")
           ELSE IF Head(rows).kind = t[e].kind /\ ~Head(rows).expired
           THEN t' = [t EXCEPT ![e].native = Head(rows).session, ![e].pc = "acquire"]
           ELSE t' = [t EXCEPT ![e].row = Head(rows).id, ![e].pc = "delete"]
        /\ faults' = faults
     \/ /\ IF t[e].cancelled THEN faults' = faults ELSE Fault
        /\ Goto(e, "acquire")
  /\ UNCHANGED <<base, cache, recent, store, holder, clis, history>>

\* What is left of the records, in their order, when some are deleted.
Only(keep) ==
  {[i \in 1 .. Cardinality(keep) |-> rows[f[i]]] :
     f \in {g \in [1 .. Cardinality(keep) -> keep] :
              \A i, j \in DOMAIN g : i < j => g[i] < g[j]}}

Without(id) == Only({i \in DOMAIN rows : rows[i].id # id})

\* The deletion's error is ignored.
Delete(e) ==
  /\ At(e, "delete")
  /\ \/ rows' \in Without(t[e].row) /\ faults' = faults
     \/ Fault /\ rows' = rows
  /\ t' = [t EXCEPT ![e].row = 0, ![e].pc = "acquire"]
  /\ UNCHANGED <<base, cache, recent, rowCount, holder, clis, history>>

\* Mutant: only an execution that has a record to load takes the mutex.
AcquireKnown(e) ==
  /\ At(e, "acquire")
  /\ IF ~t[e].resume \/ t[e].native = None THEN holder' = holder /\ Goto(e, "open")
     ELSE /\ holder = Free /\ ~t[e].cancelled
          /\ \/ holder' = e /\ Goto(e, "open")
             \/ /\ holder' = Leaked
                /\ t' = [t EXCEPT ![e].out = "error", ![e].pc = "finish"]
  /\ UNCHANGED <<base, cache, recent, store, clis, faults, history>>

\* Only a resuming execution takes the session mutex; the circuit breaker's
\* return comes before the deferred release.
Acquire(e) ==
  /\ At(e, "acquire")
  /\ IF ~t[e].resume THEN holder' = holder /\ Goto(e, "open")
     ELSE /\ holder = Free /\ ~t[e].cancelled
          /\ \/ holder' = e /\ Goto(e, "open")
             \/ /\ holder' = Leaked
                /\ t' = [t EXCEPT ![e].out = "error", ![e].pc = "finish"]
  /\ UNCHANGED <<base, cache, recent, store, clis, faults, history>>

\* A waiter whose context is cancelled gives up.
GiveUp(e) ==
  /\ At(e, "acquire") /\ t[e].resume /\ t[e].cancelled
  /\ t' = [t EXCEPT ![e].out = "error", ![e].pc = "finish"]
  /\ UNCHANGED <<base, cache, recent, store, holder, clis, faults, history>>

----------------------------------------------------------------------------
(* Running the CLI.                                                        *)

\* told and misses are about the present base agent, and executions on their own.
Counts(e) == t[e].kind = base /\ overlap = "none"

\* A session gets its prompt.
Prompted(e, s) == IF Counts(e) THEN told' = s /\ misses' = 0
                               ELSE UNCHANGED <<told, misses>>

Early(e) == IF t[e].kind = "acp" THEN "prompt" ELSE "start"

\* The CLI is gone.  The session of a run is saved whether or not it failed, that of
\* the fallback only when it succeeded; with a cancelled context the save fails.
Ended(e, sid, out) ==
  LET saves == sid # None /\ ~t[e].cancelled /\ (t[e].fell => out = "ok")
  IN  [t[e] EXCEPT !.using = None, !.sid = sid, !.out = out,
                   !.pc = IF saves THEN "find" ELSE "cache",
                   !.back = IF saves THEN "cache" ELSE "idle"]

\* ExecuteWithResume: session/load of the record's session, then
\* OnSessionIDAcquired.
Load(e) ==
  /\ At(e, "open") /\ t[e].kind = "acp" /\ t[e].native # None /\ ~t[e].fell
  /\ LET s == t[e].native
     IN  IF maker[s] = "acp"
         THEN t' = [t EXCEPT ![e].using = s, ![e].sid = s, ![e].pc = "find",
                             ![e].back = Early(e)]
         ELSE t' = [t EXCEPT ![e] = Ended(e, None, "gone")]
  /\ UNCHANGED <<base, cache, recent, store, holder, clis, faults, history>>

\* ExecuteWithStream of the ACP adapter: session/new.  OnSessionIDAcquired is
\* called only when the request carries no id.
NewSession(e) ==
  /\ At(e, "open") /\ t[e].kind = "acp" /\ (t[e].native = None \/ t[e].fell)
  /\ made' = made + 1 /\ maker' = [maker EXCEPT ![made + 1] = "acp"]
  /\ t' = [t EXCEPT ![e].using = made + 1, ![e].sid = made + 1,
                    ![e].pc = IF t[e].id = None THEN "find" ELSE "prompt",
                    ![e].back = IF t[e].id = None THEN Early(e) ELSE "idle"]
  /\ UNCHANGED <<base, cache, recent, store, holder, faults, history>>

\* ExecuteWithStream of the Claude adapter: the request's id, or a new one; saved
\* before the CLI is started.
PickSession(e) ==
  /\ At(e, "open") /\ t[e].kind = "claude"
  /\ made' = IF t[e].id = None THEN made + 1 ELSE made
  /\ t' = [t EXCEPT ![e].sid = IF t[e].id = None THEN made + 1 ELSE t[e].id,
                    ![e].pc = "find", ![e].back = Early(e)]
  /\ UNCHANGED <<base, cache, recent, store, holder, maker, faults, history>>

\* Claude Code starts on the id, and gets its prompt, unless it does not have it.
StartClaude(e) ==
  /\ At(e, "start") /\ ~t[e].cancelled
  /\ LET s == t[e].sid
     IN  IF t[e].id # None /\ maker[s] # "claude"
         THEN /\ t' = [t EXCEPT ![e] = Ended(e, s, "gone")]
              /\ UNCHANGED <<maker, told, misses>>
         ELSE /\ maker' = [maker EXCEPT ![s] = "claude"]
              /\ t' = [t EXCEPT ![e].using = s, ![e].pc = "running"]
              /\ Prompted(e, s)
  /\ UNCHANGED <<base, cache, recent, store, holder, made, faults, turns, overlap>>

\* session/prompt.
Prompt(e) ==
  /\ At(e, "prompt")
  /\ Prompted(e, t[e].using)
  /\ Goto(e, "running")
  /\ UNCHANGED <<base, cache, recent, store, holder, clis, faults, turns, overlap>>

\* The CLI cannot be started or breaks down before the prompt: no result.
Breaks(e) ==
  /\ t[e].pc \in {"open", "start"} /\ (At(e, "open") => t[e].kind = "acp")
  /\ \E out \in {"broken", "error"} :
       t' = [t EXCEPT ![e] = Ended(e, None, out)]
  /\ UNCHANGED <<base, cache, recent, store, holder, clis, faults, history>>

\* The turn ends.  Only a failed session/prompt of a fresh ACP session leaves no
\* result and so no session id.
EndTurn(e) ==
  /\ At(e, "running")
  /\ \E out \in {"ok", "broken", "error"} :
       /\ out = "ok" => ~t[e].cancelled
       /\ \E sid \in {t[e].using, None} :
            /\ sid = None => /\ out # "ok" /\ t[e].kind = "acp"
                             /\ t[e].native # t[e].using
            /\ t' = [t EXCEPT ![e] = Ended(e, sid, out)]
  /\ UNCHANGED <<base, cache, recent, store, holder, clis, faults, history>>

----------------------------------------------------------------------------
(* Saving the session id.                                                  *)

\* saveSessionIDEarly notes the id in the invocation; SaveACPSessionID, for it and
\* for the end of the run, first looks for a record, and takes a failed query for
\* none.  The update of the invocation may fail too, and ends the early save.
FindRecord(e) ==
  /\ At(e, "find")
  /\ LET early == t[e].back \in {"prompt", "start"}
         own   == IF early THEN t[e].sid ELSE t[e].own
     IN  \/ /\ t' = [t EXCEPT ![e].own = own, ![e].pc = "write",
                              ![e].row = IF rows = <<>> THEN 0 ELSE Head(rows).id]
            /\ faults' = faults
         \/ /\ Fault
            /\ t' = [t EXCEPT ![e].own = own, ![e].pc = "write", ![e].row = 0]
         \/ /\ early /\ Fault
            /\ t' = [t EXCEPT ![e].own = own, ![e].pc = t[e].back, ![e].back = "idle"]
  /\ UNCHANGED <<base, cache, recent, store, holder, clis, history>>

\* ORDER BY updated_at, in seconds, leaves rows of one second in any order.
Stored(seq, row) == {InsertAt(seq, i, row) : i \in 1 .. Len(seq) + 1}

\* The record found is updated, its agent_type as it was, unless it is gone;
\* without one, a record is created.
WriteRecord(e) ==
  /\ At(e, "write")
  /\ LET found == {i \in DOMAIN rows : rows[i].id = t[e].row}
     IN  \/ /\ t[e].row = 0 /\ rowCount' = rowCount + 1
            /\ rows' \in Stored(rows, [id |-> rowCount + 1, session |-> t[e].sid,
                                       kind |-> t[e].kind, expired |-> FALSE])
            /\ faults' = faults
         \/ /\ t[e].row # 0 /\ rowCount' = rowCount
            /\ IF found = {} THEN rows' = rows
               ELSE \E i \in found, others \in Without(t[e].row) :
                      rows' \in Stored(others,
                                  [rows[i] EXCEPT !.session = t[e].sid, !.expired = FALSE])
            /\ faults' = faults
         \/ Fault /\ UNCHANGED store
  /\ t' = [t EXCEPT ![e].row = 0, ![e].pc = t[e].back, ![e].back = "idle"]
  /\ UNCHANGED <<base, cache, recent, holder, clis, history>>

\* Mutant: the answer for a lost session is not among the known texts.
FallsBackBroken(e) == t[e].out = "broken" /\ t[e].native # None /\ ~t[e].fell

\* An error that looks like a lost session, of a run that had a record.
FallsBack(e) == /\ t[e].out \in {"gone", "broken"}
                /\ t[e].native # None /\ ~t[e].fell

\* Mutant: the fallback keeps the id.
CacheKeepsId(e) ==
  /\ At(e, "cache")
  /\ cache' = IF t[e].sid # None /\ ~t[e].fell THEN t[e].sid ELSE cache
  /\ t' = IF FallsBack(e)
          THEN [t EXCEPT ![e].fell = TRUE, ![e].pc = "open"]
          ELSE [t EXCEPT ![e].id = None, ![e].native = None, ![e].pc = "finish"]
  /\ UNCHANGED <<base, recent, store, holder, clis, faults, history>>

\* The cache gets the session of the first run; the fallback forgets the id and
\* runs a fresh session.
Cache(e) ==
  /\ At(e, "cache")
  /\ cache' = IF t[e].sid # None /\ ~t[e].fell THEN t[e].sid ELSE cache
  /\ t' = IF FallsBack(e)
          THEN [t EXCEPT ![e].fell = TRUE, ![e].id = None, ![e].pc = "open"]
          ELSE [t EXCEPT ![e].id = None, ![e].native = None, ![e].pc = "finish"]
  /\ UNCHANGED <<base, recent, store, holder, clis, faults, history>>

\* The invocation ends with the session id of its result, or with the one saved
\* early; a cancelled one has ended before.
Finish(e) ==
  /\ At(e, "finish")
  /\ LET own == IF t[e].sid # None THEN t[e].sid ELSE t[e].own
     IN  recent' = IF own # None /\ ~t[e].cancelled THEN own ELSE recent
  /\ t' = [t EXCEPT ![e] = [Idle EXCEPT !.pc = "release", !.resume = t[e].resume]]
  /\ cache' = IF t[e].out = "ok" /\ t[e].sid # None THEN t[e].sid ELSE cache
  /\ misses' = IF t[e].out = "gone" /\ Counts(e) THEN misses + 1 ELSE misses
  /\ UNCHANGED <<base, store, holder, clis, faults, turns, told, overlap>>

\* The deferred release of the mutex.
Release(e) ==
  /\ At(e, "release")
  /\ holder' = IF holder = e THEN Free ELSE holder
  /\ t' = [t EXCEPT ![e] = Idle]
  /\ UNCHANGED <<base, cache, recent, store, clis, faults, history>>

Execute(e) ==
  \/ Start(e) \/ LookUp(e) \/ Delete(e) \/ Acquire(e) \/ GiveUp(e)
  \/ Load(e) \/ NewSession(e) \/ PickSession(e) \/ StartClaude(e) \/ Prompt(e)
  \/ Breaks(e) \/ EndTurn(e) \/ FindRecord(e) \/ WriteRecord(e) \/ Cache(e)
  \/ Finish(e) \/ Release(e)

----------------------------------------------------------------------------
(* The rest of the server, and the world.                                  *)

\* CancelAgent: the invocation is finished at once, with the cached id if it has
\* none of its own; the goroutine goes on with a cancelled context.
CancelAgent(e) ==
  /\ t[e].pc \notin {"idle", "release"} /\ ~t[e].cancelled
  /\ LET own == IF t[e].own = None THEN cache ELSE t[e].own
     IN  /\ recent' = IF own # None THEN own ELSE recent
         /\ t' = [t EXCEPT ![e].own = own, ![e].cancelled = TRUE]
  /\ UNCHANGED <<base, cache, store, holder, clis, faults, history>>

\* The server stops and starts again; the reconciler finishes the invocations that
\* were under way.
Restart ==
  /\ Active # {}
  /\ recent' \in LET owns == {t[e].own : e \in Active} \ {None}
                 IN  IF owns = {} THEN {recent} ELSE owns
  /\ cache' = None /\ holder' = Free
  /\ t' = [e \in Exec |-> Idle]
  /\ UNCHANGED <<base, store, clis, faults, history>>

\* Five minutes pass.
Forget ==
  /\ turns < MaxTurns
  /\ recent # None /\ recent' = None
  /\ UNCHANGED <<base, cache, store, holder, t, clis, faults, history>>

\* A week passes with nothing running.
WeekPasses ==
  /\ turns < MaxTurns
  /\ Active = {} /\ rows # <<>>
  /\ rows' = [i \in DOMAIN rows |-> [rows[i] EXCEPT !.expired = TRUE]]
  /\ recent' = None /\ misses' = 0
  /\ UNCHANGED <<base, cache, rowCount, holder, t, clis, faults, turns, told, overlap>>

\* The cleanup task.
DeleteExpiredRecords ==
  /\ \E i \in DOMAIN rows : rows[i].expired
  /\ rows' \in Only({i \in DOMAIN rows : ~rows[i].expired})
  /\ UNCHANGED <<base, cache, recent, rowCount, holder, t, clis, faults, history>>

\* The agent is given another base agent.
SwitchBase ==
  /\ turns < MaxTurns
  /\ base' \in Kinds \ {base} /\ told' = None /\ misses' = 0
  /\ UNCHANGED <<cache, recent, store, holder, t, clis, faults, turns, overlap>>

\* A CLI loses a session nobody has open.
Lose(s) ==
  /\ turns < MaxTurns
  /\ maker[s] # "none" /\ \A e \in Exec : t[e].using # s
  /\ maker' = [maker EXCEPT ![s] = "none"]
  /\ UNCHANGED <<base, cache, recent, store, holder, t, made, faults, history>>

Next == \/ \E e \in Exec : Execute(e) \/ CancelAgent(e)
        \/ Restart \/ Forget \/ WeekPasses \/ DeleteExpiredRecords \/ SwitchBase
        \/ \E s \in Sessions : Lose(s)

Spec == Init /\ [][Next]_vars

----------------------------------------------------------------------------
(* Properties.                                                             *)

\* While executions have not overlapped and the database has not failed, the record an
\* ACP agent will load from never names an older session than the one that got its
\* latest prompt, across failed loads, cancellations and restarts: OnSessionIDAcquired
\* saves the session before its prompt wherever there is a record.  (Claude Code
\* resumes the cached id instead, which a failed fallback leaves behind.)
RecordNotStale ==
  overlap = "none" /\ faults = 0 /\ Active = {} /\ rows # <<>>
     => (Head(rows).kind = "acp" => Head(rows).session >= told)

\* A session its CLI has lost fails at most one turn of an agent, as long as its base
\* stays the same and executions do not overlap, plus one for each failed database
\* call: the fallback of executeAgent replaces it.
GoneOnce == overlap = "none" => misses <= 1 + faults

\* The executions that have the session mutex, or need none.
Running(e) == t[e].pc \in {"open", "find", "write", "start", "prompt", "running", "cache"}

\* Two executions that take the session mutex never run side by side, across
\* cancellations, restarts and the circuit breaker's return, so that no two of them
\* have CLIs on one session.
ResumesAlone ==
  \A a, b \in Exec : a # b /\ t[a].resume /\ t[b].resume => ~(Running(a) /\ Running(b))

\* The session mutex does what it is for, as long as only executions that take it
\* overlap: they run alone, and what they look up and write in two statements leaves
\* the pair one record.
ResumesGuarded ==
  /\ ResumesAlone
  /\ overlap # "any" /\ faults = 0 => Len(rows) <= 1
============================================================================
