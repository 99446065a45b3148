----------------------------- MODULE StreamingCard -----------------------------
(***************************************************************************)
(* internal/service/im, outbound: how the chunks of one invocation come to *)
(* be shown on its streaming card in the chat.                             *)
(*                                                                         *)
(* NotifyChunkListeners starts one goroutine for each chunk, which finds   *)
(* or makes the invocation's card and adds to the card's text; the Feishu  *)
(* adapter's flushLoop, one goroutine a card, sends the whole text when a  *)
(* channel of one slot tells it that the text is dirty.  A chunk is named  *)
(* by its number, and the text is the sequence of the chunks added to it.  *)
(*                                                                         *)
(* handleStatusComplete is left out: nothing in the program sends the      *)
(* status chunk it waits for.                                              *)
(***************************************************************************)
EXTENDS Naturals, Sequences, SequencesExt

CONSTANT MaxChunks   \* bound: chunks of the invocation

ASSUME MaxChunksAssumption == MaxChunks \in Nat

VARIABLES
  at,         \* what the goroutine of each chunk is at
  once,       \* createOnce: "no", "running" or "done"
  failed,     \* no card could be made: text goes to the fallback buffer
  fallback,   \* the fallback buffer
  cards,      \* how many cards were made
  accumulated,
  dirty,      \* the dirty channel is full
  flush,      \* what flushLoop is at
  text,       \* the text flushLoop has read
  lastSent,   \* the text of the last update that went well
  shown,      \* Feishu: the text the card shows
  refused     \* the card's last update failed (history)

card == <<once, failed, fallback, cards>>
loop == <<flush, text, lastSent, shown, refused>>
cardVars == <<at, card, accumulated, dirty, loop>>

Chunks == 1..MaxChunks

CardInit == /\ at = [k \in Chunks |-> "unsent"]
            /\ once = "no" /\ failed = FALSE /\ fallback = <<>> /\ cards = 0
            /\ accumulated = <<>> /\ dirty = FALSE
            /\ flush = "wait" /\ text = <<>> /\ lastSent = <<>>
            /\ shown = <<>> /\ refused = FALSE

Move(k, from, to) == at[k] = from /\ at' = [at EXCEPT ![k] = to]

-------------------------------------------------------------------------------
(* broadcastChunk comes to the chunks in order; from here on each has a    *)
(* goroutine of its own.                                                   *)
Notify(k) == /\ \A j \in 1..k-1 : at[j] # "unsent"
             /\ Move(k, "unsent", "started")
             /\ UNCHANGED <<card, accumulated, dirty, loop>>

(* OnAgentChunk: FindByThreadID finds the chat, or the chunk is dropped.   *)
Route(k) == /\ \E to \in {"routed", "dropped"} : Move(k, "started", to)
            /\ UNCHANGED <<card, accumulated, dirty, loop>>

(* Mutant: without createOnce, a chunk that finds no card makes one.       *)
EachTries(k) == /\ IF once = "done"
                     THEN Move(k, "routed", "append") /\ UNCHANGED once
                     ELSE Move(k, "routed", "creating") /\ once' = "running"
                /\ UNCHANGED <<failed, fallback, cards, accumulated, dirty, loop>>

(* LoadOrStore and createOnce.Do: the first one in makes the card, the     *)
(* others wait until that is done.                                         *)
TryOnce(k) == /\ \/ once = "no" /\ Move(k, "routed", "creating") /\ once' = "running"
                 \/ once = "done" /\ Move(k, "routed", "append") /\ UNCHANGED once
              /\ UNCHANGED <<failed, fallback, cards, accumulated, dirty, loop>>

(* CreateStreamingCard, which starts the card's flushLoop; or it fails, and*)
(* the chunk is put into the buffer, into which it goes again below.       *)
CreateCard(k) == /\ Move(k, "creating", "append")
                 /\ once' = "done"
                 /\ \/ cards' = cards + 1 /\ UNCHANGED <<failed, fallback>>
                    \/ failed' = TRUE /\ fallback' = Append(fallback, k) /\ UNCHANGED cards
                 /\ UNCHANGED <<accumulated, dirty, loop>>

(* Without a card the text goes to the fallback buffer.                    *)
Buffer(k) == /\ failed
             /\ Move(k, "append", "buffered")
             /\ fallback' = Append(fallback, k)
             /\ UNCHANGED <<once, failed, cards, accumulated, dirty, loop>>

(* UpdateStreamingCard adds to the text with state.mu held, ...            *)
AddText(k) == /\ ~failed
              /\ Move(k, "append", "signal")
              /\ accumulated' = Append(accumulated, k)
              /\ UNCHANGED <<card, dirty, loop>>

(* Mutant: the channel has no buffer; it is told only if it listens.       *)
SignalListener(k) == /\ Move(k, "signal", "added")
                     /\ dirty' = (dirty \/ flush = "wait")
                     /\ UNCHANGED <<card, accumulated, loop>>

(* ... then fills the dirty channel, unless it is full.                    *)
Signal(k) == /\ Move(k, "signal", "added")
             /\ dirty' = TRUE
             /\ UNCHANGED <<card, accumulated, loop>>

HandleChunk(k) == Route(k) \/ TryOnce(k) \/ CreateCard(k) \/ Buffer(k)
                    \/ AddText(k) \/ Signal(k)

-------------------------------------------------------------------------------
(* flushLoop takes the token and waits out the throttle, ...               *)
Wakeup == /\ cards > 0 /\ dirty /\ flush = "wait"
          /\ dirty' = FALSE
          /\ flush' = "read"
          /\ UNCHANGED <<at, card, accumulated, text, lastSent, shown, refused>>

(* ... reads the text with state.mu held, ...                              *)
ReadText == /\ flush = "read"
            /\ text' = accumulated
            /\ flush' = IF accumulated \in {<<>>, lastSent} THEN "wait" ELSE "send"
            /\ UNCHANGED <<at, card, accumulated, dirty, lastSent, shown, refused>>

(* Mutant: after an error the card may be set back to what was sent before.*)
SendOrRestore == /\ flush = "send"
                 /\ flush' = "wait"
                 /\ \/ lastSent' = text /\ shown' = text /\ refused' = FALSE
                    \/ refused' = TRUE /\ shown' \in {lastSent, text} /\ UNCHANGED lastSent
                 /\ UNCHANGED <<at, card, accumulated, dirty, text>>

(* ... and sends it.  After an error, the card may show the text or not,   *)
(* and the update is not tried again.                                      *)
SendUpdate == /\ flush = "send"
              /\ flush' = "wait"
              /\ \/ lastSent' = text /\ shown' = text /\ refused' = FALSE
                 \/ refused' = TRUE /\ shown' \in {shown, text} /\ UNCHANGED lastSent
              /\ UNCHANGED <<at, card, accumulated, dirty, text>>

FlushLoop == Wakeup \/ ReadText \/ SendUpdate

CardNext == FlushLoop \/ \E k \in Chunks : Notify(k) \/ HandleChunk(k)

CardSpec == CardInit /\ [][CardNext]_cardVars

(* Goroutines run, and the calls to the database and to Feishu return.     *)
FairCardSpec == /\ CardSpec
                /\ WF_cardVars(FlushLoop)
                /\ \A k \in Chunks : WF_cardVars(HandleChunk(k))

-------------------------------------------------------------------------------
(* "Exactly one card creation attempt", and nobody goes on before it has   *)
(* ended: with a card, every chunk is added to it once and none is in the  *)
(* buffer; without one, all of them are in the buffer.                     *)
OneCard ==
  /\ cards + (IF failed THEN 1 ELSE 0) = (IF once = "done" THEN 1 ELSE 0)
  /\ IsInjective(accumulated)
  /\ \A k \in Chunks :
       /\ at[k] \in {"signal", "added"} <=> k \in Range(accumulated)
       /\ at[k] = "buffered" => failed /\ k \in Range(fallback)

(* The typewriter never goes back: what the card shows is a beginning of   *)
(* the text, and whatever was shown stays, although the updates are made   *)
(* outside the mutex and may fail.                                         *)
Typewriter == [][IsPrefix(shown, shown') /\ IsPrefix(shown', accumulated')]_cardVars

(* The user sees every chunk that was added to the card, although the loop *)
(* is told of it by a channel of one slot that is filled after the fact:   *)
(* the card comes to show it, or its last update failed.                   *)
ShownOrRefused ==
  \A k \in Chunks : at[k] = "added" ~> k \in Range(shown) \/ refused
===============================================================================
