----------------------------- MODULE AcpExecution -----------------------------
(***************************************************************************)
(* One execution over the Agent Client Protocol: BaseACPAdapter            *)
(* (plugins/acp/adapter_base.go), its transport (plugins/acp/jsonrpc.go),  *)
(* and the part of ExecutionService that shows a question to the user and  *)
(* takes the answer.                                                       *)
(*                                                                         *)
(* Four parties: the executor, which sends one request after another and   *)
(* sleeps until each is answered; readLoop, the only reader of the CLI's   *)
(* stdout, which handles every line to its end before the next; the HTTP   *)
(* handlers that submit answers; and the CLI, which is external.           *)
(*                                                                         *)
(* A region under one mutex is one step.  Two mutexes are held over more   *)
(* than that: es.mu by a submitter, from its match to its return, and      *)
(* session.mu by readLoop, while it hands an update to broadcastChunk,     *)
(* which takes es.mu.  Who holds them is read off sub and reader.          *)
(***************************************************************************)
EXTENDS Naturals, Sequences, FiniteSets

CONSTANTS
  Submitters,    \* calls of SubmitQuestionAnswer
  Kinds,         \* how the CLI asks: by elicitation/create or by a notification
  Talkative,     \* whether it goes on with its turn while it waits for an answer
  Deaths,        \* whether it can die or be killed
  Faulty,        \* whether it says what the reader cannot take, and outlives a kill
  MaxChunks, MaxReplayed, MaxQuestions   \* bounds on what it says

ASSUME SubmittersAssumption ==
  Submitters \cap {"initialize", "authenticate", "session", "configure", "prompt", "none"} = {}
ASSUME FaultyAssumption == Faulty \in BOOLEAN
ASSUME KindsAssumption == Kinds \subseteq {"elicitation", "notification"}
ASSUME BoundsAssumption == MaxChunks \in Nat /\ MaxReplayed \in Nat /\ MaxQuestions \in Nat

Calls == <<"initialize", "authenticate", "session", "configure", "prompt">>
Optional == {"authenticate", "configure"}

Questions == 1..MaxQuestions

VARIABLES
  \* the executor
  pc,          \* send, wait, cleanup, drain, reap, collect, leave or done
  call,        \* index in Calls of the request it is at
  failed,      \* whether a request of it has failed
  result,      \* the output it returns
  \* acpSession
  replayPhase,
  output,      \* text of the updates, each a number; 0 for one of an earlier turn
  pendingElicitation,   \* the question whose request is to be answered, or 0
  registered,  \* whether a.sessions has the session
  \* the transport
  pending,     \* requests with a channel in t.pending
  delivered,   \* responses in those channels
  closed,      \* whether Close has run: t.ctx is done, stdin closed
  stdin, stdout,
  reader,      \* what readLoop is at
  skipped,     \* the responses and questions in lines it passed over (history)
  \* the execution service
  running,     \* whether runningAgents has the invocation
  awaiting,    \* PendingQuestionID while WaitingForUserInput, else 0
  sub,         \* what each submitter is at, with which question and request id
  \* the CLI
  mode,        \* [kind, resume], fixed
  alive,
  serving,     \* the request it is working on, or "none"
  replayed, emitted, asked,   \* how much it has said
  open,        \* questions whose answer it waits for
  foreign,     \* whether it waits for the answer to a request of an unknown method
  answers      \* the answers it has had (history)

executor == <<pc, call, failed, result>>
session == <<replayPhase, output, pendingElicitation, registered>>
transport == <<pending, delivered, closed, stdin, stdout, reader, skipped>>
service == <<running, awaiting, sub>>
cli == <<alive, serving, replayed, emitted, asked, open, foreign, answers>>
vars == <<executor, session, transport, service, cli, mode>>

Idle == [at |-> "idle", of |-> 0]

Init ==
  /\ pc = "send" /\ call = 1 /\ failed = FALSE /\ result = <<>>
  /\ mode \in [kind : Kinds, resume : BOOLEAN]
  /\ replayPhase = mode.resume /\ output = <<>> /\ pendingElicitation = 0
  /\ registered = TRUE
  /\ pending = {} /\ delivered = {} /\ closed = FALSE /\ stdin = <<>> /\ stdout = <<>> /\ reader = Idle
  /\ skipped = {}
  /\ running = TRUE /\ awaiting = 0
  /\ sub = [s \in Submitters |-> [at |-> "idle", q |-> 0, id |-> 0]]
  /\ alive = TRUE /\ serving = "none" /\ replayed = 0 /\ emitted = 0 /\ asked = 0
  /\ open = {} /\ foreign = FALSE /\ answers = {}

EsMuFree == \A s \in Submitters : sub[s].at \in {"idle", "refused", "done"}
SessionMuFree == reader.at # "chunk"

(* A write to the CLI's stdin succeeds.                                    *)
Writable == alive /\ ~closed

Message(kind, by, q) == [kind |-> kind, by |-> by, q |-> q]
Response(by, ok) == [kind |-> "response", by |-> by, ok |-> ok]

-------------------------------------------------------------------------------
(* The executor: ExecuteWithStream, or ExecuteWithResume when the session  *)
(* is one to resume.                                                       *)

Here == Calls[call]

(* On to the next request; after the last one, or a failed one, clean up.  *)
(* A failed configuration is only logged.  The session is taken out of     *)
(* a.sessions after the prompt, except by ExecuteWithStream when it failed.*)
Proceed(ok) ==
  IF (ok \/ Here = "configure") /\ Here # "prompt"
  THEN pc' = "send" /\ call' = call + 1 /\ UNCHANGED <<failed, registered>>
  ELSE /\ pc' = "cleanup" /\ failed' = ~ok
       /\ registered' = (registered /\ ~ok /\ ~mode.resume)
       /\ UNCHANGED call

(* No gateway is configured, or no option is to be set.                    *)
Skip == /\ pc = "send" /\ Here \in Optional
        /\ call' = call + 1
        /\ UNCHANGED <<pc, failed, result, session, transport, service, cli, mode>>

(* Mutant: the window ends when session/load is sent.                      *)
EndReplayEarly == /\ pc = "send" /\ Here = "session" /\ replayPhase
                  /\ replayPhase' = FALSE
                  /\ UNCHANGED <<executor, output, pendingElicitation, registered, transport, service, cli, mode>>

(* "The replay window ends": session/load has been answered.               *)
EndReplay == /\ pc = "send" /\ Here = "prompt" /\ replayPhase
             /\ replayPhase' = FALSE
             /\ UNCHANGED <<executor, output, pendingElicitation, registered, transport, service, cli, mode>>

(* SendRequest, under writeMu: a channel for the response, then the write. *)
Send == /\ pc = "send"
        /\ Here = "prompt" => ~replayPhase
        /\ IF Writable
           THEN /\ stdin' = Append(stdin, Message("request", Here, 0))
                /\ pending' = pending \cup {Here}
                /\ pc' = "wait"
                /\ UNCHANGED <<call, failed, registered>>
           ELSE Proceed(FALSE) /\ UNCHANGED <<stdin, pending>>
        /\ UNCHANGED <<result, replayPhase, output, pendingElicitation, delivered, closed,
                       stdout, reader, skipped, service, cli, mode>>

(* The rest of SendRequest: the channel is the only thing that wakes it,   *)
(* for t.ctx is done only when the executor itself has called Close.       *)
Return == /\ pc = "wait"
          /\ \E r \in delivered : /\ r.by = Here
                                  /\ delivered' = delivered \ {r}
                                  /\ Proceed(r.ok)
          /\ pending' = pending \ {Here}
          /\ UNCHANGED <<result, replayPhase, output, pendingElicitation, closed, stdin, stdout,
                         reader, skipped, service, cli, mode>>

(* cleanup looks at the session, then Close cancels t.ctx and closes stdin,*)
(* ...                                                                     *)
CloseTransport == /\ pc = "cleanup" /\ SessionMuFree
                  /\ closed' = TRUE
                  /\ pc' = "drain"
                  /\ UNCHANGED <<call, failed, result, session, pending, delivered, stdin,
                                 stdout, reader, skipped, service, cli, mode>>

(* ... waits for readLoop, but not for long, and forgets the requests.     *)
Drain == /\ pc = "drain"
         /\ pending' = {}
         /\ pc' = "reap"
         /\ UNCHANGED <<call, failed, result, session, delivered, closed, stdin, stdout, reader,
                        skipped, service, cli, mode>>

(* cleanup waits for the process, kills it, and waits again, without a     *)
(* limit: it goes on only when the process is dead.                        *)
Reap == /\ pc = "reap"
        /\ alive' = FALSE
        /\ pc' = "collect"
        /\ UNCHANGED <<call, failed, result, session, transport, service, serving, replayed,
                       emitted, asked, open, foreign, answers, mode>>

Collect == /\ pc = "collect" /\ (failed \/ SessionMuFree)
           /\ result' = IF failed THEN <<>> ELSE output
           /\ pc' = "leave"
           /\ UNCHANGED <<call, failed, session, transport, service, cli, mode>>

(* executeAgent's deferred delete from runningAgents.                      *)
Leave == /\ pc = "leave" /\ EsMuFree
         /\ running' = FALSE
         /\ pc' = "done"
         /\ UNCHANGED <<call, failed, result, session, transport, awaiting, sub, cli, mode>>

Executor == Skip \/ EndReplay \/ Send \/ Return \/ CloseTransport \/ Drain \/ Reap
              \/ Collect \/ Leave

-------------------------------------------------------------------------------
(* readLoop and the handlers it calls.                                     *)

StdoutClosed == pc \in {"reap", "collect", "leave", "done"}

NextLine(kind) == /\ reader = Idle /\ stdout # <<>> /\ Head(stdout).kind = kind
                  /\ stdout' = Tail(stdout)

(* session/update: what comes in the replay window is dropped, ...         *)
TakeUpdate == /\ NextLine("update")
              /\ reader' = IF replayPhase THEN Idle ELSE [at |-> "update", of |-> Head(stdout).q]
              /\ UNCHANGED <<executor, session, pending, delivered, closed, stdin, skipped,
                             service, cli, mode>>

(* ... text is added to the output under session.mu, ...                   *)
AppendText == /\ reader.at = "update"
              /\ output' = Append(output, reader.of)
              /\ reader' = [reader EXCEPT !.at = "chunk"]
              /\ UNCHANGED <<executor, replayPhase, pendingElicitation, registered, pending,
                             delivered, closed, stdin, stdout, skipped, service, cli, mode>>

(* ... and onChunk is called before it is unlocked: broadcastChunk takes   *)
(* es.mu.                                                                  *)
BroadcastText == /\ reader.at = "chunk" /\ EsMuFree
                 /\ reader' = Idle
                 /\ UNCHANGED <<executor, session, pending, delivered, closed, stdin, stdout,
                                skipped, service, cli, mode>>

(* elicitation/create and session/request_user_input: the first leaves the *)
(* id of its request for SendToolResult.                                   *)
TakeQuestion == /\ NextLine("question")
                /\ LET q == Head(stdout).q IN
                   /\ reader' = [at |-> "question", of |-> q]
                   /\ pendingElicitation' = IF mode.kind = "elicitation" THEN q ELSE pendingElicitation
                /\ registered' = TRUE
                /\ UNCHANGED <<executor, replayPhase, output, pending, delivered, closed, stdin,
                               skipped, service, cli, mode>>

(* The question chunk reaches broadcastChunk without session.mu.           *)
BroadcastQuestion == /\ reader.at = "question" /\ EsMuFree
                     /\ awaiting' = IF running THEN reader.of ELSE awaiting
                     /\ reader' = Idle
                     /\ UNCHANGED <<executor, session, pending, delivered, closed, stdin,
                                    stdout, skipped, running, sub, cli, mode>>

(* Mutant: updates are handled on a goroutine of their own.                *)
TakeResponseAhead ==
  /\ stdout # <<>> /\ Head(stdout).kind = "response"
  /\ stdout' = Tail(stdout)
  /\ delivered' = IF Head(stdout).by \in pending THEN delivered \cup {Head(stdout)} ELSE delivered
  /\ UNCHANGED <<executor, session, pending, closed, stdin, reader, skipped, service, cli,
                 mode>>

(* Mutant: responses without a result are passed over.                     *)
TakeResult == /\ NextLine("response")
              /\ LET r == Head(stdout) IN
                 delivered' = IF r.by \in pending /\ r.ok THEN delivered \cup {r} ELSE delivered
              /\ UNCHANGED <<executor, session, pending, closed, stdin, reader, skipped,
                             service, cli, mode>>

TakeResponse == /\ NextLine("response")
                /\ LET r == Head(stdout) IN
                   delivered' = IF r.by \in pending THEN delivered \cup {r} ELSE delivered
                /\ UNCHANGED <<executor, session, pending, closed, stdin, reader, skipped,
                               service, cli, mode>>

(* A line that is not JSON, or a response of another shape: passed over,   *)
(* and nobody is told.  (Of an update, nothing is left: emitted counts the *)
(* updates that can be read.)                                              *)
SkipLine == /\ Faulty
            /\ \E kind \in {"response", "question"} : NextLine(kind)
            /\ skipped' = skipped \cup {Head(stdout)}
            /\ UNCHANGED <<executor, session, pending, delivered, closed, stdin, reader,
                           service, cli, mode>>

(* End of file, stdout closed under it, or a line longer than the scanner  *)
(* takes, while the CLI lives: t.done is closed, nobody else is told.      *)
EndOfOutput == /\ reader = Idle
               /\ \/ ~alive /\ stdout = <<>>
                  \/ Faulty /\ stdout # <<>>
                  \/ StdoutClosed
               /\ reader' = [reader EXCEPT !.at = "ended"]
               /\ UNCHANGED <<executor, session, pending, delivered, closed, stdin, stdout,
                              skipped, service, cli, mode>>

ReadLoop == TakeUpdate \/ AppendText \/ BroadcastText \/ TakeQuestion \/ BroadcastQuestion
              \/ TakeResponse \/ SkipLine \/ EndOfOutput

-------------------------------------------------------------------------------
(* SubmitQuestionAnswer and SendToolResult, all of it under es.mu.         *)

Goto(s, at) == sub' = [sub EXCEPT ![s].at = at]

(* Mutant: any agent that waits will do.                                   *)
SubmitAny(s, q) ==
  /\ sub[s].at = "idle" /\ EsMuFree
  /\ LET matches == running /\ awaiting # 0 IN
     /\ sub' = [sub EXCEPT ![s] = [at |-> IF matches THEN "read" ELSE "refused", q |-> q, id |-> 0]]
     /\ awaiting' = IF matches THEN 0 ELSE awaiting
  /\ UNCHANGED <<executor, session, transport, running, cli, mode>>

(* The answer must be to the question the agent waits with; matched, it is *)
(* taken off the agent before it is sent.                                  *)
Submit(s, q) == /\ sub[s].at = "idle" /\ EsMuFree
                /\ LET matches == running /\ awaiting = q IN
                   /\ sub' = [sub EXCEPT ![s] = [at |-> IF matches THEN "read" ELSE "refused", q |-> q, id |-> 0]]
                   /\ awaiting' = IF matches THEN 0 ELSE awaiting
                /\ UNCHANGED <<executor, session, transport, running, cli, mode>>

(* SendToolResult looks for the request to answer; without one, it is the  *)
(* second path.                                                            *)
ReadPending(s) == /\ sub[s].at = "read" /\ SessionMuFree
                  /\ sub' = [sub EXCEPT ![s].id = pendingElicitation,
                                        ![s].at = CASE ~registered -> "done"
                                                    [] registered /\ pendingElicitation = 0 -> "resolve"
                                                    [] OTHER -> "respond"]
                  /\ UNCHANGED <<executor, session, transport, running, awaiting, cli, mode>>

Respond(s) == /\ sub[s].at = "respond"
              /\ IF Writable
                 THEN stdin' = Append(stdin, Message("answer", s, sub[s].id)) /\ Goto(s, "clear")
                 ELSE Goto(s, "done") /\ UNCHANGED stdin
              /\ UNCHANGED <<executor, session, pending, delivered, closed, stdout, reader,
                             skipped, running, awaiting, cli, mode>>

(* Only now is the request forgotten.                                      *)
Clear(s) == /\ sub[s].at = "clear" /\ SessionMuFree
            /\ pendingElicitation' = 0
            /\ Goto(s, "done")
            /\ UNCHANGED <<executor, replayPhase, output, registered, transport,
                           running, awaiting, cli, mode>>

(* OpenCode's HTTP API takes the answer, ...                               *)
ReplyOverHttp(s) == /\ sub[s].at = "resolve" /\ alive /\ mode.kind = "notification"
                    /\ answers' = answers \cup {[by |-> s, q |-> sub[s].q]}
                    /\ open' = open \ {sub[s].q}
                    /\ Goto(s, "done")
                    /\ UNCHANGED <<executor, session, transport, running, awaiting, alive,
                                   serving, replayed, emitted, asked, foreign, mode>>

(* ... or it goes into a request of its own, session/resolve_tool_call, ...*)
SendResolve(s) == /\ sub[s].at = "resolve"
                  /\ IF Writable
                     THEN /\ stdin' = Append(stdin, Message("request", s, sub[s].q))
                          /\ pending' = pending \cup {s}
                          /\ Goto(s, "resolving")
                     ELSE Goto(s, "done") /\ UNCHANGED <<stdin, pending>>
                  /\ UNCHANGED <<executor, session, delivered, closed, stdout, reader, skipped,
                                 running, awaiting, cli, mode>>

(* ... waited for, and if that fails, into a notification.                 *)
Resolved(s) == /\ sub[s].at = "resolving"
               /\ \/ \E r \in delivered :
                       /\ r.by = s
                       /\ delivered' = delivered \ {r}
                       /\ stdin' = IF ~r.ok /\ Writable
                                   THEN Append(stdin, Message("notice", s, sub[s].q)) ELSE stdin
                  \/ closed /\ UNCHANGED <<delivered, stdin>>
               /\ pending' = pending \ {s}
               /\ Goto(s, "done")
               /\ UNCHANGED <<executor, session, closed, stdout, reader, skipped, running,
                              awaiting, cli, mode>>

SendToolResult(s) == ReadPending(s) \/ Respond(s) \/ Clear(s)
                       \/ ReplyOverHttp(s) \/ SendResolve(s) \/ Resolved(s)

(* CancelAgent's region: killChild, which may fail and is not repeated,    *)
(* the CancelFunc, and the map entry.                                      *)
CancelAgent == /\ Deaths /\ running /\ EsMuFree
               /\ running' = FALSE
               /\ alive' = FALSE \/ (Faulty /\ UNCHANGED alive)
               /\ UNCHANGED <<executor, session, transport, awaiting, sub, serving, replayed,
                              emitted, asked, open, foreign, answers, mode>>

-------------------------------------------------------------------------------
(* The CLI.  It answers requests one after another, replays a session      *)
(* before it answers session/load, says all of a turn before it answers    *)
(* session/prompt, and asks one question at a time.                        *)

Say(m) == stdout' = Append(stdout, m)

NextMessage(kind) == /\ alive /\ stdin # <<>> /\ Head(stdin).kind = kind
                     /\ stdin' = Tail(stdin)

CliServe == /\ NextMessage("request") /\ Head(stdin).by \notin Submitters /\ serving = "none"
            /\ serving' = Head(stdin).by
            /\ UNCHANGED <<executor, session, pending, delivered, closed, stdout, reader,
                           skipped, service, alive, replayed, emitted, asked, open, foreign,
                           answers, mode>>

CliReplay == /\ alive /\ serving = "session" /\ mode.resume /\ replayed < MaxReplayed
             /\ Say(Message("update", "cli", 0))
             /\ replayed' = replayed + 1
             /\ UNCHANGED <<executor, session, pending, delivered, closed, stdin, reader,
                            skipped, service, alive, serving, emitted, asked, open, foreign,
                            answers, mode>>

CliUpdate == /\ alive /\ serving = "prompt" /\ emitted < MaxChunks
             /\ Talkative \/ (open = {} /\ ~foreign)
             /\ Say(Message("update", "cli", emitted + 1))
             /\ emitted' = emitted + 1
             /\ UNCHANGED <<executor, session, pending, delivered, closed, stdin, reader,
                            skipped, service, alive, serving, replayed, asked, open, foreign,
                            answers, mode>>

CliAsk == /\ alive /\ serving = "prompt" /\ open = {} /\ asked < MaxQuestions
          /\ Say(Message("question", "cli", asked + 1))
          /\ asked' = asked + 1 /\ open' = {asked + 1}
          /\ UNCHANGED <<executor, session, pending, delivered, closed, stdin, reader, skipped,
                         service, alive, serving, replayed, emitted, answers, foreign, mode>>

CliReply == /\ alive /\ serving # "none" /\ open = {} /\ ~foreign
            /\ \E ok \in BOOLEAN : Say(Response(serving, ok))
            /\ serving' = "none"
            /\ UNCHANGED <<executor, session, pending, delivered, closed, stdin, reader,
                           skipped, service, alive, replayed, emitted, asked, open, foreign,
                           answers, mode>>

Answered(m) == /\ answers' = answers \cup {[by |-> m.by, q |-> m.q]}
               /\ open' = open \ {m.q}

CliTakeAnswer == /\ NextMessage("answer")
                 /\ Answered(Head(stdin))
                 /\ UNCHANGED <<executor, session, pending, delivered, closed, stdout, reader,
                                skipped, service, alive, serving, replayed, emitted, asked,
                                foreign, mode>>

(* session/resolve_tool_call: taken and answered, refused as unknown, or   *)
(* "silently dropped".                                                     *)
CliResolve == /\ NextMessage("request") /\ Head(stdin).by \in Submitters
              /\ LET m == Head(stdin) IN
                 \/ mode.kind = "notification" /\ Answered(m) /\ Say(Response(m.by, TRUE))
                 \/ Say(Response(m.by, FALSE)) /\ UNCHANGED <<answers, open>>
                 \/ mode.kind = "notification" /\ UNCHANGED <<answers, open, stdout>>
              /\ UNCHANGED <<executor, session, pending, delivered, closed, reader, skipped,
                             service, alive, serving, replayed, emitted, asked, foreign, mode>>

(* session/resolve_user_input.                                             *)
CliNotice == /\ NextMessage("notice")
             /\ \/ mode.kind = "notification" /\ Answered(Head(stdin))
                \/ UNCHANGED <<answers, open>>
             /\ UNCHANGED <<executor, session, pending, delivered, closed, stdout, reader,
                            skipped, service, alive, serving, replayed, emitted, asked, foreign,
                            mode>>

(* A request of a method unknown to handleServerRequest: readLoop logs it, *)
(* its line is left out, and no answer is ever sent.                       *)
CliAskUnknown == /\ Faulty
                 /\ alive /\ serving # "none" /\ ~foreign
                 /\ foreign' = TRUE
                 /\ UNCHANGED <<executor, session, transport, service,
                                alive, serving, replayed, emitted, asked, open, answers, mode>>

CliDies == /\ Deaths /\ alive
           /\ alive' = FALSE
           /\ UNCHANGED <<executor, session, transport, service, serving, replayed, emitted,
                          asked, open, foreign, answers, mode>>

Cli == CliServe \/ CliReplay \/ CliUpdate \/ CliAsk \/ CliReply
         \/ CliTakeAnswer \/ CliResolve \/ CliNotice

Next == \/ Executor \/ ReadLoop \/ Cli \/ CliAskUnknown \/ CliDies \/ CancelAgent
        \/ \E s \in Submitters : SendToolResult(s) \/ \E q \in Questions : Submit(s, q)

Spec == Init /\ [][Next]_vars

(* Goroutines run, and a CLI that lives takes what is sent to it and goes  *)
(* on with what it has to say and to answer.  No user has to answer, and   *)
(* nobody has to die: not even, if Faulty, a process that was killed.      *)
Reapable == pc = "reap" /\ Faulty => ~alive

FairSpec == /\ Spec
            /\ WF_vars(Executor /\ Reapable) /\ WF_vars(ReadLoop) /\ WF_vars(Cli)
            /\ \A s \in Submitters : WF_vars(SendToolResult(s))

-------------------------------------------------------------------------------
(* What a turn says is numbered: the output holds the numbers up to its    *)
(* length, so nothing of an earlier turn, nothing twice and nothing out of *)
(* order ("it would pollute this turn's answer").                          *)
OutputInOrder == \A i \in DOMAIN output : output[i] = i

(* "When SendRequest returns, all of the turn's chunks are in the output", *)
(* so that no loop needs to wait for them: an execution that ends well     *)
(* returns everything the CLI has said.                                    *)
OutputComplete == pc \in {"leave", "done"} /\ ~failed => Len(result) = emitted

(* An answer reaches the CLI under the question it was given to, although  *)
(* the request id it is sent to is looked up without its question's id;    *)
(* and a question is answered once, however many users submit.             *)
AnswersMatch ==
  \A a \in answers : /\ a.q = sub[a.by].q
                     /\ \A b \in answers : a.q = b.q => a = b

(* What can keep an execution from ending: ...                             *)
Deadlocked == reader.at = "chunk" /\ \E s \in Submitters : sub[s].at \in {"read", "clear"}
ServiceHeld == \E s \in Submitters : sub[s].at = "resolving"
DeadUnnoticed == ~alive /\ pc = "wait"
AsksUser == awaiting # 0 /\ awaiting \in open
AnswerLost == \E q \in open : \E s \in Submitters : sub[s].at = "done" /\ sub[s].q = q

(* ... and, if Faulty, ...                                                 *)
Unheard == /\ pc = "wait"
           /\ reader.at = "ended" \/ \E m \in skipped : m.kind = "response" /\ m.by = Here
Unshown == \E m \in skipped : m.kind = "question" /\ m.q \in open
Unanswered == foreign /\ alive /\ pc = "wait"
Unkilled == alive /\ (pc = "reap" \/ ~running)

Hung == \/ Deadlocked \/ ServiceHeld \/ DeadUnnoticed \/ AsksUser \/ AnswerLost
        \/ Unheard \/ Unshown \/ Unanswered \/ Unkilled

(* An execution ends, unless for good: a submitter and readLoop each hold  *)
(* the mutex the other wants; a submitter waits for a response with es.mu  *)
(* held; the CLI has died with a request unanswered; the user has not      *)
(* answered; the answer has gone astray; readLoop has given up, or has     *)
(* passed over the response or the question; the CLI waits for the answer  *)
(* to a request the adapter does not know; or it has outlived its kill.    *)
(* That is under FairSpec: a CLI that stops reading, or that falls silent  *)
(* in the middle of a turn, is outside the model.                          *)
EndsOrIsStuck ==
  <>(pc = "done") \/ <>[]Hung

(* "The user answers; the CLI goes on within the same prompt turn": once   *)
(* the CLI has its answer, the execution ends, if no more is asked.        *)
AnsweredTurnEnds == answers # {} ~> pc = "done"
===============================================================================
