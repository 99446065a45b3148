------------------------ MODULE SessionResumeProofs ------------------------
(***************************************************************************)
(* The three invariants of SessionResume, for every set of executions and  *)
(* every bound.  First that executions which take the session mutex run    *)
(* alone (Inv), then what else is known of the executions and the records  *)
(* (ResumeInv), of which session they have in hand (FreshInv) and of the   *)
(* turns lost sessions have cost (MissInv).                                *)
(***************************************************************************)
EXTENDS SessionResume, FiniteSetTheorems, SequenceTheorems, TLAPS

Fields == {"pc", "resume", "kind", "id", "native", "using", "sid", "own", "row",
           "back", "out", "fell", "cancelled"}

\* Every slot holds an execution's record.
Shape == DOMAIN t = Exec /\ \A e \in Exec : DOMAIN t[e] = Fields

\* An execution that takes the mutex runs only while it holds it.
Holds == \A e \in Exec : t[e].resume /\ Running(e) => holder = e

Inv == Shape /\ Holds

\* The first execution's own steps: nobody else's record changes, and it does not
\* begin to run.
Quiet(e) == /\ holder' = holder
            /\ DOMAIN t' = Exec /\ DOMAIN t'[e] = Fields
            /\ \A x \in Exec \ {e} : t'[x] = t[x]
            /\ t'[e].resume /\ Running(e)' => t[e].resume /\ Running(e)

LEMMA QuietKeepsInv ==
  ASSUME Inv, NEW e \in Exec, Quiet(e) PROVE Inv'
<1>1. Shape'
  BY DEF Inv, Shape, Quiet
<1>2. ASSUME NEW x \in Exec, t'[x].resume, Running(x)' PROVE holder' = x
  <2>1. CASE x = e
    BY <1>2, <2>1 DEF Inv, Holds, Quiet
  <2>2. CASE x # e
    <3>1. t'[x] = t[x]
      BY <2>2 DEF Quiet
    <3>2. t[x].resume /\ Running(x)
      BY <1>2, <3>1 DEF Running
    <3> QED
      BY <3>2 DEF Inv, Holds, Quiet
  <2> QED
    BY <2>1, <2>2
<1> QED
  BY <1>1, <1>2 DEF Inv, Holds

LEMMA InitInv == Init => Inv
BY DEF Init, Inv, Shape, Holds, Fields, Idle, Running

\* The end of a CLI's run leaves the execution running.
LEMMA EndedKeepsInv ==
  ASSUME Inv, NEW e \in Exec, NEW sid, NEW out, Running(e), holder' = holder,
         t' = [t EXCEPT ![e] = Ended(e, sid, out)]
  PROVE  Inv'
<1>1. /\ Ended(e, sid, out).resume = t[e].resume
      /\ DOMAIN Ended(e, sid, out) = Fields
  BY DEF Inv, Shape, Fields, Ended
<1>2. Quiet(e)
  BY <1>1 DEF Inv, Shape, Quiet
<1> QED
  BY <1>2, QuietKeepsInv

LEMMA ExecuteKeepsInv ==
  ASSUME Inv, NEW e \in Exec, Execute(e) PROVE Inv'
<1> USE DEF Inv, Shape, Fields
<1>1. CASE Start(e)
  <2>1. Quiet(e)
    BY <1>1 DEF Start, Quiet, Running, Idle
  <2> QED
    BY <2>1, QuietKeepsInv
<1>2. CASE LookUp(e)
  BY <1>2, QuietKeepsInv DEF LookUp, Quiet, Running, Goto, At, store
<1>3. CASE Delete(e)
  BY <1>3, QuietKeepsInv DEF Delete, Quiet, Running, At
<1>4. CASE Acquire(e)
  <2>1. CASE ~t[e].resume
    <3>1. Quiet(e)
      BY <1>4, <2>1 DEF Acquire, Goto, Quiet, Running
    <3> QED
      BY <3>1, QuietKeepsInv
  <2>2. CASE t[e].resume /\ holder = Free
    <3>1. ASSUME NEW x \in Exec PROVE ~(t[x].resume /\ Running(x))
      BY <2>2, <3>1, SessionResumeAssumption DEF Holds, Free
    <3>2. Shape' /\ \A x \in Exec \ {e} : t'[x] = t[x]
      BY <1>4, <2>2 DEF Acquire, Goto
    <3>3. \A x \in Exec \ {e} : ~(t'[x].resume /\ Running(x)')
      BY <3>1, <3>2 DEF Running
    <3>4. holder' = e \/ ~Running(e)'
      BY <1>4, <2>2 DEF Acquire, Goto, Running
    <3> QED
      BY <3>2, <3>3, <3>4 DEF Holds
  <2> QED
    BY <1>4, <2>1, <2>2 DEF Acquire
<1>5. CASE GiveUp(e)
  BY <1>5, QuietKeepsInv DEF GiveUp, Quiet, Running, At
<1>6. CASE Load(e)
  <2>1. CASE maker[t[e].native] = "acp"
    BY <1>6, <2>1, QuietKeepsInv DEF Load, Quiet, Running, At
  <2>2. CASE maker[t[e].native] # "acp"
    <3>1. t' = [t EXCEPT ![e] = Ended(e, None, "gone")] /\ holder' = holder
      BY <1>6, <2>2 DEF Load
    <3>2. Running(e)
      BY <1>6 DEF Load, Running, At
    <3> HIDE DEF Inv
    <3> QED
      BY <3>1, <3>2, EndedKeepsInv
  <2> QED
    BY <2>1, <2>2
<1>7. CASE NewSession(e)
  BY <1>7, QuietKeepsInv DEF NewSession, Quiet, Running, At
<1>8. CASE PickSession(e)
  BY <1>8, QuietKeepsInv DEF PickSession, Quiet, Running, At
<1>9. CASE StartClaude(e)
  <2> DEFINE Missing == t[e].id # None /\ maker[t[e].sid] # "claude"
  <2>1. CASE Missing
    <3>1. t' = [t EXCEPT ![e] = Ended(e, t[e].sid, "gone")] /\ holder' = holder
      BY <1>9, <2>1 DEF StartClaude
    <3>2. Running(e)
      BY <1>9 DEF StartClaude, Running, At
    <3> HIDE DEF Inv
    <3> QED
      BY <3>1, <3>2, EndedKeepsInv
  <2>2. CASE ~Missing
    BY <1>9, <2>2, QuietKeepsInv DEF StartClaude, Quiet, Running, At
  <2> QED
    BY <2>1, <2>2
<1>10. CASE Prompt(e)
  BY <1>10, QuietKeepsInv DEF Prompt, Goto, Quiet, Running, At
<1>11. CASE Breaks(e)
  BY <1>11, QuietKeepsInv DEF Breaks, Ended, Quiet, Running, At
<1>12. CASE EndTurn(e)
  BY <1>12, QuietKeepsInv DEF EndTurn, Ended, Quiet, Running, At
<1>13. CASE FindRecord(e)
  BY <1>13, QuietKeepsInv DEF FindRecord, Quiet, Running, At
<1>14. CASE WriteRecord(e)
  <2>1. /\ t' = [t EXCEPT ![e].row = 0, ![e].pc = t[e].back, ![e].back = "idle"]
        /\ holder' = holder /\ Running(e)
    BY <1>14 DEF WriteRecord, Running, At
  <2>2. Quiet(e)
    BY <2>1 DEF Quiet
  <2> QED
    BY <2>2, QuietKeepsInv
<1>15. CASE Cache(e)
  <2>1. CASE FallsBack(e)
    BY <1>15, <2>1, QuietKeepsInv DEF Cache, Quiet, Running, At
  <2>2. CASE ~FallsBack(e)
    BY <1>15, <2>2, QuietKeepsInv DEF Cache, Quiet, Running, At
  <2> QED
    BY <2>1, <2>2
<1>16. CASE Finish(e)
  BY <1>16, QuietKeepsInv DEF Finish, Idle, Quiet, Running, At
<1>17. CASE Release(e)
  <2>1. \A x \in Exec \ {e} : t'[x] = t[x]
    BY <1>17 DEF Release
  <2>2. Shape' /\ ~Running(e)'
    BY <1>17 DEF Release, Idle, Running
  <2>3. ASSUME NEW x \in Exec \ {e}, t'[x].resume, Running(x)' PROVE holder' = x
    <3>1. holder = x
      BY <2>1, <2>3 DEF Holds, Running
    <3> QED
      BY <1>17, <3>1 DEF Release
  <2> QED
    BY <2>2, <2>3 DEF Holds
<1> QED
  BY <1>1, <1>2, <1>3, <1>4, <1>5, <1>6, <1>7, <1>8, <1>9, <1>10, <1>11, <1>12,
     <1>13, <1>14, <1>15, <1>16, <1>17 DEF Execute

LEMMA NextKeepsInv == ASSUME Inv, [Next]_vars PROVE Inv'
<1> USE DEF Inv, Shape, Fields
<1>1. ASSUME NEW e \in Exec, CancelAgent(e) PROVE Inv'
  BY <1>1, QuietKeepsInv DEF CancelAgent, Quiet, Running
<1>2. CASE Restart
  BY <1>2 DEF Restart, Holds, Idle, Running
<1>3. CASE UNCHANGED <<t, holder>>
  BY <1>3 DEF Holds, Running
<1>4. CASE Forget \/ WeekPasses \/ DeleteExpiredRecords \/ SwitchBase
           \/ \E s \in Sessions : Lose(s)
  <2>1. UNCHANGED <<t, holder>>
    BY <1>4 DEF Forget, WeekPasses, DeleteExpiredRecords, SwitchBase, Lose
  <2> QED
    BY <1>3, <2>1
<1> QED
  BY <1>1, <1>2, <1>3, <1>4, ExecuteKeepsInv DEF Next, vars

(* Executions that take the session mutex of an agent in a thread run one at a  *)
(* time: the CLI of one, and what it writes, is done before the next begins.    *)
THEOREM ResumesRunAlone == Spec => []ResumesAlone
<1>1. Inv => ResumesAlone
  BY DEF Inv, Holds, ResumesAlone
<1> QED
  BY InitInv, NextKeepsInv, <1>1, PTL DEF Spec

----------------------------------------------------------------------------
(* What is known of the executions and of the records.                     *)

Known  == 0 .. made
Agents == {"acp", "claude"}
Points == {"idle", "lookup", "delete", "acquire", "open", "find", "write", "start",
           "prompt", "running", "cache", "finish", "release"}
Slots == [pc : Points, resume : BOOLEAN, kind : Agents, id : Nat, native : Nat, using : Nat,
          sid : Nat, own : Nat, row : Nat, back : {"idle", "prompt", "start", "cache"},
          out : {"ok", "broken", "error", "gone"}, fell : BOOLEAN, cancelled : BOOLEAN]
Rows  == [id : Nat \ {0}, session : Nat \ {0}, kind : Agents, expired : BOOLEAN]

Ids(seq) == {seq[i].id : i \in DOMAIN seq}

ResumeTypeOK ==
  /\ base \in Agents /\ cache \in Nat /\ recent \in Nat
  /\ rows \in Seq(Rows)
  /\ t \in [Exec -> Slots]
  /\ made \in Nat /\ rowCount \in Nat /\ turns \in Nat /\ faults \in Nat
  /\ told \in Nat /\ misses \in Nat
  /\ overlap \in {"none", "resumes", "any"}

(* No session is named that has not been created.                          *)
SessionsKnown ==
  /\ {cache, recent, told} \subseteq Known
  /\ \A i \in DOMAIN rows : rows[i].session \in Known
  /\ \A e \in Exec : {t[e].id, t[e].native, t[e].using, t[e].sid, t[e].own} \subseteq Known

(* What a running execution has in hand.                                   *)
Saving(e) == t[e].pc \in {"find", "write"}

(* Its CLI has ended.                                                      *)
Over(e) == t[e].pc \in {"cache", "finish"} \/ (Saving(e) /\ t[e].back = "cache")

SlotAgrees(e) ==
  /\ Saving(e) => t[e].sid # None /\ t[e].back # "idle"
  /\ t[e].pc = "start" => t[e].kind = "claude" /\ t[e].sid # None
  /\ t[e].pc = "prompt" => t[e].kind = "acp"
  /\ Saving(e) /\ t[e].back = "prompt" => t[e].kind = "acp" /\ t[e].using = t[e].sid
  /\ Saving(e) /\ t[e].back = "start" => t[e].kind = "claude"
  /\ t[e].pc \in {"lookup", "delete"} => t[e].native = None
  /\ t[e].pc = "delete" => t[e].row # 0
  /\ t[e].pc \notin {"idle", "release"} /\ ~t[e].resume => t[e].id = None
  /\ t[e].pc \in {"lookup", "delete", "acquire"} => ~t[e].fell
  /\ t[e].fell => t[e].native # None \/ t[e].pc = "finish"
  /\ t[e].fell => t[e].id = None
  /\ t[e].pc = "finish" /\ t[e].out = "gone" => t[e].native = None
  /\ t[e].fell /\ Over(e) => t[e].out # "gone"

SlotsAgree == \A e \in Exec : SlotAgrees(e)

(* overlap tells which executions are under way together.                  *)
OverlapKnown ==
  \A a, b \in Active : a # b => /\ overlap # "none"
                                /\ overlap = "resumes" => t[a].resume /\ t[b].resume

(* While no database call has failed, a look-up that finds no record and   *)
(* the write that follows are not disturbed.                               *)
OneRecord ==
  overlap # "any" /\ faults = 0 =>
    /\ Len(rows) <= 1
    /\ \A e \in Exec : t[e].pc = "write" /\ t[e].row = 0 => rows = <<>>

ResumeInv == Inv /\ ResumeTypeOK /\ SessionsKnown /\ SlotsAgree /\ OverlapKnown /\ OneRecord

\* The record an execution looks up is of an ACP session.
AcpRow == rows # <<>> /\ Head(rows).kind = "acp"

\* No session in the hands of an ACP execution is older than the one prompted
\* last.
Loads(e) ==
  t[e].kind = "acp" =>
    /\ t[e].pc \in {"acquire", "open"} /\ t[e].native # None /\ ~t[e].fell => t[e].native >= told
    /\ Saving(e) => t[e].sid >= told
    /\ t[e].pc \in {"prompt", "running"} => t[e].using >= told
    /\ t[e].pc = "prompt" /\ AcpRow => Head(rows).session >= t[e].using

\* Claude Code leaves an ACP record as it is, unless it has been cancelled.
Spares(e) ==
  t[e].kind = "claude" /\ AcpRow /\ (Running(e) \/ t[e].pc = "acquire") =>
    /\ t[e].cancelled /\ t[e].native = None /\ t[e].pc # "running"
    /\ t[e].pc # "acquire" => t[e].id = None
    /\ Saving(e) => t[e].back = "start" /\ t[e].sid >= told

\* Who has found no record finds none later.
FindsNone(e) ==
  t[e].pc \in {"acquire", "open"} /\ t[e].native = None /\ rows # <<>> =>
    /\ t[e].cancelled
    /\ t[e].pc = "open" => ~t[e].resume

\* The record in hand is the only one.
OwnRow(e) ==
  t[e].pc = "delete" \/ (t[e].pc = "write" /\ t[e].row # 0) =>
    \A i \in DOMAIN rows : rows[i].id = t[e].row

FreshInv ==
  overlap = "none" /\ faults = 0 =>
    /\ AcpRow => Head(rows).session >= told
    /\ \A e \in Exec : Loads(e) /\ Spares(e) /\ FindsNone(e) /\ OwnRow(e)

(* Records an execution of a kind does not load from.                      *)
Unfit(seq, kind) == {seq[i].id : i \in {j \in DOMAIN seq : seq[j].kind # kind \/ seq[j].expired}}

(* An execution of Claude Code that has found no record and may come to    *)
(* resume a lost session, and one that has.                                *)
MayMiss(e) ==
  /\ t[e].kind = "claude" /\ t[e].native = None /\ ~t[e].cancelled
  /\ \/ t[e].pc \in {"acquire", "open", "start"}
     \/ Saving(e) /\ t[e].back = "start"
Missed(e) == t[e].out = "gone" /\ t[e].native = None /\ Over(e)

(* Every lost turn, and every record that may yet cost one, is paid for by  *)
(* a failed database call, but for one.                                    *)
PaidBefore(e) == t[e].pc \notin {"idle", "release"} /\ t[e].kind # base => misses = 0

\* Deleting the record in hand leaves no more to pay for than has been paid.
PaidByDelete(e) ==
  t[e].pc = "delete" => misses + Cardinality(Unfit(rows, t[e].kind) \ {t[e].row}) <= faults

\* An execution that may lose its turn, or has, can afford one more.
PaidMiss(e) ==
  MayMiss(e) \/ Missed(e) =>
    /\ misses + Cardinality(Unfit(rows, t[e].kind)) <= faults
    /\ rows = <<>> => \/ misses + 1 <= faults
                      \/ t[e].pc \in {"acquire", "open", "find"}
                      \/ t[e].pc = "write" /\ t[e].row = 0

\* Who is about to create a record although there is one has had a failed query.
PaidByFind(e) ==
  t[e].pc = "write" /\ t[e].row = 0 /\ rows # <<>> =>
    misses + Cardinality(Unfit(rows, base)) <= faults /\ Cardinality(Ids(rows)) <= faults

Paid(e) == PaidBefore(e) /\ PaidByDelete(e) /\ PaidMiss(e) /\ PaidByFind(e)

Balanced ==
  /\ Cardinality(Ids(rows)) <= 1 + faults
  /\ misses + Cardinality(Unfit(rows, base)) <= 1 + faults
  /\ rows = <<>> => misses <= faults

MissInv == overlap = "none" => Balanced /\ \A e \in Exec : Paid(e)

----------------------------------------------------------------------------
(* The records.                                                            *)
\* Some of the records are a sequence of records, shorter unless they are all.
LEMMA SomeRows ==
  ASSUME rows \in Seq(Rows), NEW keep, keep \subseteq DOMAIN rows, NEW s \in Only(keep)
  PROVE  /\ s \in Seq(Rows) /\ Len(s) = Cardinality(keep) /\ Len(s) <= Len(rows)
         /\ \A i \in DOMAIN s : \E j \in keep : s[i] = rows[j]
         /\ s = <<>> <=> keep = {}
         /\ keep # DOMAIN rows => Len(s) < Len(rows)
<1>1. PICK n : n = Cardinality(keep)
  OBVIOUS
<1>2. IsFiniteSet(DOMAIN rows) /\ Cardinality(DOMAIN rows) = Len(rows) /\ Len(rows) \in Nat
  <2>1. PICK l \in Nat : l = Len(rows) /\ DOMAIN rows = 1 .. l
    OBVIOUS
  <2>2. IsFiniteSet(1 .. l) /\ Cardinality(1 .. l) = IF 1 > l THEN 0 ELSE l - 1 + 1
    BY FS_Interval
  <2>3. Cardinality(1 .. l) = l
    BY <2>2
  <2> QED BY <2>1, <2>2, <2>3
<1>3. /\ IsFiniteSet(keep) /\ n \in Nat /\ n <= Len(rows) /\ (n = 0 <=> keep = {})
      /\ n = Len(rows) => keep = DOMAIN rows
  BY <1>1, <1>2, FS_Subset, FS_CardinalityType, FS_EmptySet
<1>4. PICK f \in [1 .. n -> keep] : s = [i \in 1 .. n |-> rows[f[i]]]
  BY <1>1 DEF Only
<1>5. \A i \in 1 .. n : f[i] \in keep /\ s[i] = rows[f[i]] /\ rows[f[i]] \in Rows
  BY <1>4
<1>6. s \in Seq(Rows) /\ DOMAIN s = 1 .. n /\ Len(s) = n
  BY <1>3, <1>4, <1>5
<1> QED BY <1>1, <1>3, <1>5, <1>6

\* A record put somewhere among others makes one more.
LEMMA StoredRow ==
  ASSUME NEW s \in Seq(Rows), NEW r \in Rows, NEW u \in Stored(s, r)
  PROVE  /\ u \in Seq(Rows) /\ Len(u) = Len(s) + 1 /\ u # <<>>
         /\ \A i \in DOMAIN u : u[i] = r \/ \E j \in DOMAIN s : u[i] = s[j]
<1>1. PICK k \in 1 .. Len(s) + 1 : u = SubSeq(s, 1, k - 1) \o <<r>> \o SubSeq(s, k, Len(s))
  BY DEF Stored, InsertAt
<1>2. PICK a, b : a = SubSeq(s, 1, k - 1) /\ b = SubSeq(s, k, Len(s))
  OBVIOUS
<1>3. /\ a \in Seq(Rows) /\ Len(a) = k - 1 /\ \A i \in 1 .. k - 1 : a[i] = s[i]
      /\ b \in Seq(Rows) /\ Len(b) = Len(s) - k + 1 /\ \A i \in 1 .. Len(s) - k + 1 : b[i] = s[k + i - 1]
  BY <1>2
<1>4. PICK c : c = a \o <<r>>
  OBVIOUS
<1>5. /\ c \in Seq(Rows) /\ Len(c) = k /\ c[k] = r /\ \A i \in 1 .. k - 1 : c[i] = s[i]
  BY <1>3, <1>4
<1>6. u = c \o b
  BY <1>1, <1>2, <1>4
<1>7. /\ u \in Seq(Rows) /\ Len(u) = Len(s) + 1
      /\ \A i \in 1 .. k : u[i] = c[i]
      /\ \A i \in k + 1 .. Len(s) + 1 : u[i] = b[i - k]
  BY <1>3, <1>5, <1>6
<1>8. ASSUME NEW i \in DOMAIN u PROVE u[i] = r \/ \E j \in DOMAIN s : u[i] = s[j]
  <2>0. i \in 1 .. Len(s) + 1 /\ Len(s) \in Nat /\ DOMAIN s = 1 .. Len(s)
    BY <1>7
  <2>1. CASE i \in 1 .. k - 1
    BY <1>5, <1>7, <2>0, <2>1
  <2>2. CASE i = k
    BY <1>5, <1>7, <2>2
  <2>3. CASE i \in k + 1 .. Len(s) + 1
    <3>1. u[i] = s[i - 1] /\ i - 1 \in DOMAIN s
      <4>1. i - k \in 1 .. Len(s) - k + 1 /\ k + (i - k) - 1 = i - 1 /\ i - 1 \in 1 .. Len(s)
        BY <2>0, <2>3
      <4>2. u[i] = b[i - k]
        BY <1>7, <2>3
      <4>3. b[i - k] = s[k + (i - k) - 1]
        BY <1>3, <4>1
      <4> QED BY <2>0, <4>1, <4>2, <4>3
    <3> QED BY <3>1
  <2> QED BY <2>0, <2>1, <2>2, <2>3
<1> QED BY <1>7, <1>8

LEMMA IdsFinite ==
  ASSUME NEW s \in Seq(Rows), NEW kind
  PROVE  /\ IsFiniteSet(Ids(s)) /\ Cardinality(Ids(s)) \in Nat
         /\ Unfit(s, kind) \subseteq Ids(s)
         /\ IsFiniteSet(Unfit(s, kind)) /\ Cardinality(Unfit(s, kind)) \in Nat
         /\ Cardinality(Unfit(s, kind)) <= Cardinality(Ids(s))
<1>1. IsFiniteSet(DOMAIN s)
  <2>1. PICK l \in Nat : DOMAIN s = 1 .. l
    OBVIOUS
  <2> QED BY <2>1, FS_Interval
<1>2. PICK f : f = [i \in DOMAIN s |-> s[i].id]
  OBVIOUS
<1>3. f \in Surjection(DOMAIN s, Ids(s))
  BY <1>2 DEF Surjection, Ids, Range
<1>4. IsFiniteSet(Ids(s))
  BY <1>1, <1>3, FS_Surjection
<1>5. Unfit(s, kind) \subseteq Ids(s)
  BY DEF Unfit, Ids
<1> QED BY <1>4, <1>5, FS_Subset, FS_CardinalityType

\* The record an execution creates, and what it makes of one it updates.
Row(e) == [id |-> rowCount + 1, session |-> t[e].sid, kind |-> t[e].kind, expired |-> FALSE]

Updated(row, e) == [row EXCEPT !.session = t[e].sid, !.expired = FALSE]

\* What a write leaves: a record more; nothing changed, the record being gone;
\* the record updated; or an error.
WroteRows(e) ==
  /\ rows' \in Seq(Rows) /\ rowCount' \in Nat
  /\ \/ /\ t[e].row = 0 /\ faults' = faults /\ Len(rows') = Len(rows) + 1 /\ rows' # <<>>
        /\ \A i \in DOMAIN rows' : rows'[i] = Row(e) \/ \E j \in DOMAIN rows : rows'[i] = rows[j]
     \/ /\ t[e].row # 0 /\ faults' = faults /\ rows' = rows
        /\ \A i \in DOMAIN rows : rows[i].id # t[e].row
     \/ /\ t[e].row # 0 /\ faults' = faults /\ Len(rows') <= Len(rows) /\ rows' # <<>> /\ rows # <<>>
        /\ \E h \in DOMAIN rows : /\ rows[h].id = t[e].row
                                  /\ \A i \in DOMAIN rows' :
                                       \/ rows'[i] = Updated(rows[h], e)
                                       \/ \E j \in DOMAIN rows : /\ rows'[i] = rows[j]
                                                                 /\ rows[j].id # t[e].row
     \/ Fault /\ rows' = rows

LEMMA WriteRows ==
  ASSUME ResumeTypeOK, NEW e \in Exec, SlotAgrees(e), WriteRecord(e)
  PROVE  WroteRows(e)
<1>0. /\ rows \in Seq(Rows) /\ rowCount \in Nat /\ t[e].sid \in Nat \ {0} /\ t[e].kind \in Agents
  BY DEF ResumeTypeOK, SlotAgrees, Saving, WriteRecord, At, Slots, None
<1>1. CASE t[e].row = 0 /\ rowCount' = rowCount + 1 /\ rows' \in Stored(rows, Row(e)) /\ faults' = faults
  <2>1. Row(e) \in Rows
    BY <1>0 DEF Row, Rows
  <2> QED BY <1>0, <1>1, <2>1, StoredRow DEF WroteRows
<1>2. CASE /\ t[e].row # 0 /\ rowCount' = rowCount /\ faults' = faults /\ rows' = rows
           /\ {i \in DOMAIN rows : rows[i].id = t[e].row} = {}
  BY <1>0, <1>2 DEF WroteRows
<1>3. ASSUME NEW h \in DOMAIN rows, rows[h].id = t[e].row, t[e].row # 0, rowCount' = rowCount,
             faults' = faults, NEW others \in Without(t[e].row),
             rows' \in Stored(others, Updated(rows[h], e))
      PROVE  WroteRows(e)
  <2> DEFINE keep == {i \in DOMAIN rows : rows[i].id # t[e].row}
  <2>1. /\ others \in Seq(Rows) /\ Len(others) < Len(rows)
        /\ \A i \in DOMAIN others : \E j \in keep : others[i] = rows[j]
    <3>1. others \in Only(keep) /\ keep \subseteq DOMAIN rows /\ keep # DOMAIN rows
      BY <1>3 DEF Without
    <3> HIDE DEF keep
    <3> QED BY <1>0, <3>1, SomeRows
  <2>2. Updated(rows[h], e) \in Rows
    <3>1. rows[h] \in Rows
      BY <1>0, <1>3
    <3> QED BY <1>0, <3>1 DEF Updated, Rows
  <2>3. PICK r : r = Updated(rows[h], e)
    OBVIOUS
  <2>4. /\ rows' \in Seq(Rows) /\ Len(rows') = Len(others) + 1 /\ rows' # <<>>
        /\ \A i \in DOMAIN rows' : rows'[i] = r \/ \E j \in DOMAIN others : rows'[i] = others[j]
    BY <1>3, <2>1, <2>2, <2>3, StoredRow
  <2>5. \A i \in DOMAIN rows' : rows'[i] = r \/ \E j \in DOMAIN rows : rows'[i] = rows[j] /\ rows[j].id # t[e].row
    BY <2>1, <2>4
  <2>6. Len(rows') <= Len(rows) /\ rows # <<>>
    BY <1>0, <2>1, <2>4
  <2> QED BY <1>0, <1>3, <2>3, <2>4, <2>5, <2>6 DEF WroteRows
<1>4. CASE Fault /\ UNCHANGED store
  BY <1>0, <1>4 DEF WroteRows, store
<1> QED BY <1>1, <1>2, <1>3, <1>4 DEF WriteRecord, Row, Updated
----------------------------------------------------------------------------
(* What a step of e does to the executions.                                *)

\* The fields that stay.
Kept(e, fields) == \A f \in Fields \ fields : t'[e][f] = t[e][f]

\* Only e's record changes.
Others(e) == /\ t' = [x \in Exec |-> t'[x]]
             /\ t'[e] = [f \in Fields |-> t'[e][f]]
             /\ \A x \in Exec \ {e} : t'[x] = t[x]

\* The type of a record, field by field.
Typed(s) ==
  /\ s.pc \in Points /\ s.resume \in BOOLEAN /\ s.kind \in Agents
  /\ s.id \in Nat /\ s.native \in Nat /\ s.using \in Nat /\ s.sid \in Nat /\ s.own \in Nat
  /\ s.row \in Nat /\ s.back \in {"idle", "prompt", "start", "cache"}
  /\ s.out \in {"ok", "broken", "error", "gone"} /\ s.fell \in BOOLEAN /\ s.cancelled \in BOOLEAN

LEMMA SlotsFrom ==
  ASSUME NEW s, s = [f \in Fields |-> s[f]], Typed(s) PROVE s \in Slots
BY DEF Slots, Fields, Typed

LEMMA SlotsHave ==
  ASSUME NEW s \in Slots PROVE Typed(s)
BY DEF Slots, Typed

LEMMA SlotFields ==
  ASSUME NEW s \in Slots PROVE DOMAIN s = Fields
BY DEF Slots, Fields

\* The CLI's run ends: the session is saved or it is not.
Ends(e, sid, out) ==
  /\ Others(e) /\ Kept(e, {"using", "sid", "out", "pc", "back"})
  /\ t'[e].using = None /\ t'[e].sid = sid /\ t'[e].out = out
  /\ \/ /\ t'[e].pc = "find" /\ t'[e].back = "cache" /\ sid # None
        /\ ~t[e].cancelled /\ (t[e].fell => out = "ok")
     \/ t'[e].pc = "cache" /\ t'[e].back = "idle"

LEMMA EndedStep ==
  ASSUME t \in [Exec -> Slots], NEW e \in Exec, NEW sid, NEW out,
         t' = [t EXCEPT ![e] = Ended(e, sid, out)]
  PROVE  Ends(e, sid, out)
BY SlotFields DEF Ended, Ends, Others, Kept, Fields

LEMMA IdleFields ==
  /\ Idle = [f \in Fields |-> Idle[f]]
  /\ Idle.pc = "idle" /\ Idle.resume = FALSE /\ Idle.kind = "acp" /\ Idle.id = None
  /\ Idle.native = None /\ Idle.using = None /\ Idle.sid = None /\ Idle.own = None
  /\ Idle.row = 0 /\ Idle.back = "idle" /\ Idle.out = "ok"
  /\ Idle.fell = FALSE /\ Idle.cancelled = FALSE
BY DEF Idle, Fields

Blank(e) == /\ t'[e].native = None /\ t'[e].using = None /\ t'[e].sid = None /\ t'[e].own = None
            /\ t'[e].row = 0 /\ t'[e].back = "idle" /\ t'[e].out = "ok"
            /\ t'[e].fell = FALSE /\ t'[e].cancelled = FALSE

\* What each of the actions does to e's record, and what it found of the rest.
StartMove(e) ==
  /\ Others(e)
  /\ t'[e].pc = "lookup" /\ t'[e].resume \in BOOLEAN /\ t'[e].kind = base
  /\ t'[e].id \in {cache, recent, None} /\ (~t'[e].resume => t'[e].id = None)
  /\ Blank(e)
  /\ overlap' = IF Active = {} THEN overlap
                ELSE IF overlap # "any" /\ t'[e].resume /\ \A a \in Active : t[a].resume
                     THEN "resumes" ELSE "any"

LEMMA StartStep ==
  ASSUME t \in [Exec -> Slots], NEW e \in Exec, Start(e)
  PROVE  StartMove(e)
<1>1. PICK resume \in BOOLEAN, id \in {cache, recent, None} :
        /\ t' = [t EXCEPT ![e] = [Idle EXCEPT !.pc = "lookup", !.resume = resume, !.kind = base, !.id = id]]
        /\ ~resume => id = None
        /\ overlap' = IF Active = {} THEN overlap
                      ELSE IF overlap # "any" /\ resume /\ \A a \in Active : t[a].resume
                           THEN "resumes" ELSE "any"
  BY DEF Start, Resumable
<1>2. /\ t' = [x \in Exec |-> t'[x]] /\ \A x \in Exec \ {e} : t'[x] = t[x]
      /\ t'[e] = [Idle EXCEPT !.pc = "lookup", !.resume = resume, !.kind = base, !.id = id]
  BY <1>1
<1>3. /\ t'[e] = [f \in Fields |-> t'[e][f]]
      /\ t'[e].pc = "lookup" /\ t'[e].resume = resume /\ t'[e].kind = base /\ t'[e].id = id
      /\ Blank(e)
  BY <1>2, IdleFields DEF Fields, Blank
<1> QED BY <1>1, <1>2, <1>3 DEF Others, StartMove

LookUpMove(e) ==
  /\ Others(e)
  /\ \/ /\ t'[e].pc = "acquire" /\ Kept(e, {"pc"})
        /\ \/ rows = <<>> /\ ~t[e].cancelled /\ faults' = faults
           \/ Fault
           \/ t[e].cancelled /\ faults' = faults
     \/ /\ t'[e].pc = "acquire" /\ t'[e].native = Head(rows).session
        /\ Kept(e, {"pc", "native"})
        /\ rows # <<>> /\ faults' = faults /\ Head(rows).kind = t[e].kind
     \/ /\ t'[e].pc = "delete" /\ t'[e].row = Head(rows).id /\ Kept(e, {"pc", "row"})
        /\ rows # <<>> /\ faults' = faults
        /\ Head(rows).kind # t[e].kind \/ Head(rows).expired

LEMMA LookUpStep ==
  ASSUME t \in [Exec -> Slots], NEW e \in Exec, LookUp(e)
  PROVE  LookUpMove(e)
BY SlotFields DEF LookUp, Goto, Others, Kept, Fields, LookUpMove

DeleteMove(e) ==
  Others(e) /\ Kept(e, {"pc", "row"}) /\ t'[e].pc = "acquire" /\ t'[e].row = 0

LEMMA DeleteStep ==
  ASSUME t \in [Exec -> Slots], NEW e \in Exec, Delete(e)
  PROVE  DeleteMove(e)
BY SlotFields DEF Delete, Others, Kept, Fields, DeleteMove

AcquireMove(e) ==
  /\ Others(e)
  /\ \/ t'[e].pc = "open" /\ Kept(e, {"pc"}) /\ (t[e].resume => ~t[e].cancelled)
     \/ t'[e].pc = "finish" /\ t'[e].out = "error" /\ Kept(e, {"pc", "out"})

LEMMA AcquireStep ==
  ASSUME t \in [Exec -> Slots], NEW e \in Exec, Acquire(e) \/ GiveUp(e)
  PROVE  AcquireMove(e)
BY SlotFields DEF Acquire, GiveUp, Goto, Others, Kept, Fields, AcquireMove

LoadMove(e) ==
  \/ /\ Others(e) /\ Kept(e, {"using", "sid", "pc", "back"})
     /\ t'[e].using = t[e].native /\ t'[e].sid = t[e].native
     /\ t'[e].pc = "find" /\ t'[e].back = "prompt"
  \/ Ends(e, None, "gone")

LEMMA LoadStep ==
  ASSUME t \in [Exec -> Slots], NEW e \in Exec, Load(e)
  PROVE  LoadMove(e)
<1>1. CASE maker[t[e].native] = "acp"
  BY <1>1, SlotFields DEF Load, Early, Others, Kept, Fields, LoadMove
<1>2. CASE maker[t[e].native] # "acp"
  BY <1>2, EndedStep DEF Load, LoadMove
<1> QED BY <1>1, <1>2

NewSessionMove(e) ==
  /\ Others(e) /\ Kept(e, {"using", "sid", "pc", "back"})
  /\ t'[e].using = made + 1 /\ t'[e].sid = made + 1
  /\ \/ t'[e].pc = "find" /\ t'[e].back = "prompt" /\ t[e].id = None
     \/ t'[e].pc = "prompt" /\ t'[e].back = "idle" /\ t[e].id # None

LEMMA NewSessionStep ==
  ASSUME t \in [Exec -> Slots], NEW e \in Exec, NewSession(e)
  PROVE  NewSessionMove(e)
BY SlotFields DEF NewSession, Early, Others, Kept, Fields, NewSessionMove

PickSessionMove(e) ==
  /\ Others(e) /\ Kept(e, {"sid", "pc", "back"})
  /\ t'[e].sid = IF t[e].id = None THEN made + 1 ELSE t[e].id
  /\ t'[e].pc = "find" /\ t'[e].back = "start"

LEMMA PickSessionStep ==
  ASSUME t \in [Exec -> Slots], NEW e \in Exec, PickSession(e)
  PROVE  PickSessionMove(e)
BY SlotFields DEF PickSession, Early, Others, Kept, Fields, PickSessionMove

StartClaudeMove(e) ==
  \/ t[e].id # None /\ Ends(e, t[e].sid, "gone") /\ UNCHANGED <<told, misses>>
  \/ /\ Others(e) /\ Kept(e, {"using", "pc"})
     /\ t'[e].using = t[e].sid /\ t'[e].pc = "running" /\ Prompted(e, t[e].sid)

LEMMA StartClaudeStep ==
  ASSUME t \in [Exec -> Slots], NEW e \in Exec, StartClaude(e)
  PROVE  StartClaudeMove(e)
<1>1. CASE t[e].id # None /\ maker[t[e].sid] # "claude"
  BY <1>1, EndedStep DEF StartClaude, StartClaudeMove
<1>2. CASE ~(t[e].id # None /\ maker[t[e].sid] # "claude")
  BY <1>2, SlotFields DEF StartClaude, Others, Kept, Fields, StartClaudeMove
<1> QED BY <1>1, <1>2

PromptMove(e) ==
  Others(e) /\ Kept(e, {"pc"}) /\ t'[e].pc = "running"

LEMMA PromptStep ==
  ASSUME t \in [Exec -> Slots], NEW e \in Exec, Prompt(e)
  PROVE  PromptMove(e)
BY SlotFields DEF Prompt, Goto, Others, Kept, Fields, PromptMove

BreaksMove(e) ==
  \E out \in {"broken", "error"} : Ends(e, None, out)

LEMMA BreaksStep ==
  ASSUME t \in [Exec -> Slots], NEW e \in Exec, Breaks(e)
  PROVE  BreaksMove(e)
BY EndedStep DEF Breaks, BreaksMove

EndTurnMove(e) ==
  \E out \in {"ok", "broken", "error"}, sid \in {t[e].using, None} : Ends(e, sid, out)

LEMMA EndTurnStep ==
  ASSUME t \in [Exec -> Slots], NEW e \in Exec, EndTurn(e)
  PROVE  EndTurnMove(e)
BY EndedStep DEF EndTurn, EndTurnMove

FindRecordMove(e) ==
  /\ Others(e) /\ t'[e].own \in {t[e].own, t[e].sid}
  /\ \/ /\ t'[e].pc = "write" /\ Kept(e, {"own", "pc", "row"})
        /\ \/ rows = <<>> /\ t'[e].row = 0 /\ faults' = faults
           \/ rows # <<>> /\ t'[e].row = Head(rows).id /\ faults' = faults
           \/ t'[e].row = 0 /\ Fault
     \/ /\ t'[e].pc = t[e].back /\ t'[e].back = "idle" /\ Kept(e, {"own", "pc", "back"})
        /\ t[e].back \in {"prompt", "start"} /\ Fault

LEMMA FindRecordStep ==
  ASSUME t \in [Exec -> Slots], NEW e \in Exec, FindRecord(e)
  PROVE  FindRecordMove(e)
BY SlotFields DEF FindRecord, Others, Kept, Fields, FindRecordMove

WriteRecordMove(e) ==
  /\ Others(e) /\ Kept(e, {"row", "pc", "back"})
  /\ t'[e].row = 0 /\ t'[e].pc = t[e].back /\ t'[e].back = "idle"

LEMMA WriteRecordStep ==
  ASSUME t \in [Exec -> Slots], NEW e \in Exec, WriteRecord(e)
  PROVE  WriteRecordMove(e)
<1>1. t' = [t EXCEPT ![e].row = 0, ![e].pc = t[e].back, ![e].back = "idle"]
  BY DEF WriteRecord
<1> QED BY <1>1, SlotFields DEF Others, Kept, Fields, WriteRecordMove

CacheMove(e) ==
  /\ Others(e) /\ t'[e].id = None
  /\ \/ /\ FallsBack(e) /\ Kept(e, {"fell", "id", "pc"})
        /\ t'[e].fell = TRUE /\ t'[e].pc = "open"
     \/ /\ ~FallsBack(e) /\ Kept(e, {"id", "native", "pc"})
        /\ t'[e].native = None /\ t'[e].pc = "finish"

LEMMA CacheStep ==
  ASSUME t \in [Exec -> Slots], NEW e \in Exec, Cache(e)
  PROVE  CacheMove(e)
<1>1. CASE FallsBack(e)
  BY SlotFields DEF Cache, Others, Kept, Fields, CacheMove
<1>2. CASE ~FallsBack(e)
  BY SlotFields DEF Cache, Others, Kept, Fields, CacheMove
<1> QED BY <1>1, <1>2

FinishMove(e) ==
  /\ Others(e) /\ Blank(e) /\ t'[e].id = None /\ t'[e].kind = "acp"
  /\ \/ Finish(e) /\ t'[e].pc = "release" /\ t'[e].resume = t[e].resume
     \/ Release(e) /\ t'[e].pc = "idle" /\ t'[e].resume = FALSE

LEMMA FinishStep ==
  ASSUME t \in [Exec -> Slots], NEW e \in Exec, Finish(e) \/ Release(e)
  PROVE  FinishMove(e)
<1>1. CASE Finish(e)
  <2>1. /\ t' = [x \in Exec |-> t'[x]] /\ \A x \in Exec \ {e} : t'[x] = t[x]
        /\ t'[e] = [Idle EXCEPT !.pc = "release", !.resume = t[e].resume]
    BY <1>1 DEF Finish
  <2>2. /\ t'[e] = [f \in Fields |-> t'[e][f]] /\ Blank(e)
        /\ t'[e].id = None /\ t'[e].kind = "acp" /\ t'[e].pc = "release" /\ t'[e].resume = t[e].resume
    BY <2>1, IdleFields DEF Fields, Blank
  <2> QED BY <1>1, <2>1, <2>2 DEF Others, FinishMove
<1>2. CASE Release(e)
  <2>1. /\ t' = [x \in Exec |-> t'[x]] /\ \A x \in Exec \ {e} : t'[x] = t[x]
        /\ t'[e] = Idle
    BY <1>2 DEF Release
  <2> QED BY <1>2, <2>1, IdleFields DEF Others, Blank, FinishMove
<1> QED BY <1>1, <1>2

CancelMove(e) ==
  /\ Others(e) /\ Kept(e, {"own", "cancelled"}) /\ t'[e].cancelled = TRUE
  /\ t'[e].own \in {t[e].own, cache}

LEMMA CancelStep ==
  ASSUME t \in [Exec -> Slots], NEW e \in Exec, CancelAgent(e)
  PROVE  CancelMove(e)
BY SlotFields DEF CancelAgent, Others, Kept, Fields

LEMMA ExecuteSlot ==
  ASSUME ResumeTypeOK, NEW e \in Exec, SlotAgrees(e), Execute(e) \/ CancelAgent(e)
  PROVE  Others(e) /\ t'[e] \in Slots /\ SlotAgrees(e)'
<1>0. /\ t \in [Exec -> Slots] /\ Typed(t[e]) /\ made \in Nat /\ base \in Agents
      /\ cache \in Nat /\ recent \in Nat
      /\ rows # <<>> => Head(rows) \in Rows
  BY SlotsHave DEF ResumeTypeOK
<1>1. CASE Start(e)
  <2>0. StartMove(e)
    BY <1>0, <1>1, StartStep
  <2>1. Others(e)
    BY <2>0 DEF StartMove
  <2>2. Typed(t'[e])
    <3>1. /\ t'[e].resume \in BOOLEAN /\ t'[e].kind \in Agents
          /\ t'[e].fell \in BOOLEAN /\ t'[e].cancelled \in BOOLEAN
      BY <1>0, <2>0 DEF StartMove, Blank
    <3>2. /\ t'[e].pc \in Points /\ t'[e].id \in Nat /\ t'[e].native \in Nat /\ t'[e].using \in Nat
          /\ t'[e].sid \in Nat /\ t'[e].own \in Nat /\ t'[e].row \in Nat
      BY <1>0, <2>0 DEF StartMove, Points, Blank, None
    <3>3. /\ t'[e].back \in {"idle", "prompt", "start", "cache"}
          /\ t'[e].out \in {"ok", "broken", "error", "gone"}
      BY <2>0 DEF StartMove, Blank
    <3> QED BY <3>1, <3>2, <3>3 DEF Typed
  <2>3. SlotAgrees(e)'
    BY <2>0 DEF StartMove, SlotAgrees, Saving, Blank
  <2> QED BY <2>1, <2>2, <2>3, SlotsFrom DEF Others
<1>2. CASE LookUp(e)
  <2>0. LookUpMove(e)
    BY <1>0, <1>2, LookUpStep
  <2>1. Others(e)
    BY <2>0 DEF LookUpMove
  <2>2. Typed(t'[e])
    BY <1>0, <1>2, <2>0 DEF Typed, LookUpMove, Kept, Fields, Points, Rows
  <2>3. SlotAgrees(e)'
    BY <1>0, <1>2, <2>0 DEF LookUpMove, SlotAgrees, Saving, Kept, Fields, LookUp, At, Rows
  <2> QED BY <2>1, <2>2, <2>3, SlotsFrom DEF Others
<1>3. CASE Delete(e)
  <2>0. DeleteMove(e)
    BY <1>0, <1>3, DeleteStep
  <2>1. Others(e)
    BY <2>0 DEF DeleteMove
  <2>2. Typed(t'[e])
    BY <1>0, <1>3, <2>0 DEF Typed, DeleteMove, Kept, Fields, Points
  <2>3. SlotAgrees(e)'
    BY <1>0, <1>3 DEF SlotAgrees, Saving, Delete, At
  <2> QED BY <2>1, <2>2, <2>3, SlotsFrom DEF Others
<1>4. CASE Acquire(e)
  <2>0. AcquireMove(e)
    BY <1>0, <1>4, AcquireStep
  <2>1. Others(e)
    BY <2>0 DEF AcquireMove
  <2>2. Typed(t'[e])
    BY <1>0, <2>0 DEF Typed, AcquireMove, Kept, Fields, Points
  <2>3. SlotAgrees(e)'
    BY <1>4, <2>0 DEF AcquireMove, SlotAgrees, Saving, Kept, Fields, Acquire, At
  <2> QED BY <2>1, <2>2, <2>3, SlotsFrom DEF Others
<1>5. CASE GiveUp(e)
  <2>0. AcquireMove(e)
    BY <1>0, <1>5, AcquireStep
  <2>1. Others(e)
    BY <2>0 DEF AcquireMove
  <2>2. Typed(t'[e])
    BY <1>0, <2>0 DEF Typed, AcquireMove, Kept, Fields, Points
  <2>3. SlotAgrees(e)'
    BY <1>0, <1>5 DEF SlotAgrees, Saving, GiveUp
  <2> QED BY <2>1, <2>2, <2>3, SlotsFrom DEF Others
<1>6. CASE Load(e)
  <2>0. LoadMove(e)
    BY <1>0, <1>6, LoadStep
  <2>1. Others(e)
    BY <2>0 DEF LoadMove, Ends
  <2>2. Typed(t'[e])
    BY <1>0, <2>0 DEF Typed, LoadMove, Kept, Fields, Points, Ends, None
  <2>3. SlotAgrees(e)'
    BY <1>6, <2>0 DEF LoadMove, SlotAgrees, Saving, Kept, Fields, Load, At, Ends
  <2> QED BY <2>1, <2>2, <2>3, SlotsFrom DEF Others
<1>7. CASE NewSession(e)
  <2>0. NewSessionMove(e)
    BY <1>0, <1>7, NewSessionStep
  <2>1. Others(e)
    BY <2>0 DEF NewSessionMove
  <2>2. Typed(t'[e])
    BY <1>0, <2>0 DEF Typed, NewSessionMove, Kept, Fields, Points, None
  <2>3. SlotAgrees(e)'
    <3>1. t[e].pc = "open" /\ t[e].kind = "acp" /\ made + 1 # None
      BY <1>0, <1>7 DEF NewSession, At, None
    <3> QED BY <1>0, <2>0, <3>1 DEF NewSessionMove, SlotAgrees, Saving, Over, Kept, Fields
  <2> QED BY <2>1, <2>2, <2>3, SlotsFrom DEF Others
<1>8. CASE PickSession(e)
  <2>0. PickSessionMove(e)
    BY <1>0, <1>8, PickSessionStep
  <2>1. Others(e)
    BY <2>0 DEF PickSessionMove
  <2>2. Typed(t'[e])
    BY <1>0, <2>0 DEF Typed, PickSessionMove, Kept, Fields, Points
  <2>3. SlotAgrees(e)'
    BY <1>0, <1>8, <2>0 DEF PickSessionMove, SlotAgrees, Over, PickSession, At, None
  <2> QED BY <2>1, <2>2, <2>3, SlotsFrom DEF Others
<1>9. CASE StartClaude(e)
  <2>0. StartClaudeMove(e)
    BY <1>0, <1>9, StartClaudeStep
  <2>1. Others(e)
    BY <2>0 DEF StartClaudeMove, Ends
  <2>2. Typed(t'[e])
    BY <1>0, <2>0 DEF Typed, StartClaudeMove, Kept, Fields, Ends, None, Points
  <2>3. SlotAgrees(e)'
    BY <1>9, <2>0 DEF StartClaudeMove, SlotAgrees, Saving, Over, Kept, Fields, StartClaude,
       At, Ends
  <2> QED BY <2>1, <2>2, <2>3, SlotsFrom DEF Others
<1>10. CASE Prompt(e)
  <2>0. PromptMove(e)
    BY <1>0, <1>10, PromptStep
  <2>1. Others(e)
    BY <2>0 DEF PromptMove
  <2>2. Typed(t'[e])
    BY <1>0, <2>0 DEF Typed, PromptMove, Kept, Fields, Points
  <2>3. SlotAgrees(e)'
    BY <1>10, <2>0 DEF PromptMove, SlotAgrees, Saving, Over, Kept, Fields, Prompt, At
  <2> QED BY <2>1, <2>2, <2>3, SlotsFrom DEF Others
<1>11. CASE Breaks(e)
  <2>0. BreaksMove(e)
    BY <1>0, <1>11, BreaksStep
  <2>1. Others(e)
    BY <2>0 DEF BreaksMove, Ends
  <2>2. Typed(t'[e])
    BY <1>0, <1>11, <2>0 DEF Typed, BreaksMove, Kept, Fields, Ends, None, Points
  <2>3. SlotAgrees(e)'
    BY <1>11, <2>0 DEF BreaksMove, SlotAgrees, Saving, Kept, Fields, Breaks, Ends
  <2> QED BY <2>1, <2>2, <2>3, SlotsFrom DEF Others
<1>12. CASE EndTurn(e)
  <2>0. EndTurnMove(e)
    BY <1>0, <1>12, EndTurnStep
  <2>1. Others(e)
    BY <2>0 DEF EndTurnMove, Ends
  <2>2. Typed(t'[e])
    BY <1>0, <1>12, <2>0 DEF Typed, EndTurnMove, Kept, Fields, Ends, None, Points
  <2>3. SlotAgrees(e)'
    BY <1>12, <2>0 DEF EndTurnMove, SlotAgrees, Saving, Kept, Fields, EndTurn, At, Ends
  <2> QED BY <2>1, <2>2, <2>3, SlotsFrom DEF Others
<1>13. CASE FindRecord(e)
  <2>0. FindRecordMove(e)
    BY <1>0, <1>13, FindRecordStep
  <2>1. Others(e)
    BY <2>0 DEF FindRecordMove
  <2>2. Typed(t'[e])
    BY <1>0, <1>13, <2>0 DEF Typed, FindRecordMove, Kept, Fields, Points, Rows
  <2>3. SlotAgrees(e)'
    <3>1. t[e].pc = "find"
      BY <1>13 DEF FindRecord, At
    <3> QED BY <2>0, <3>1 DEF FindRecordMove, SlotAgrees, Saving, Over, Kept, Fields
  <2> QED BY <2>1, <2>2, <2>3, SlotsFrom DEF Others
<1>14. CASE WriteRecord(e)
  <2>0. WriteRecordMove(e)
    BY <1>0, <1>14, WriteRecordStep
  <2>1. Others(e)
    BY <2>0 DEF WriteRecordMove
  <2>2. Typed(t'[e])
    BY <1>0, <1>14, <2>0 DEF Typed, WriteRecordMove, Kept, Fields, Points
  <2>3. SlotAgrees(e)'
    <3>1. /\ t[e].pc = "write" /\ t[e].back \in {"prompt", "start", "cache"}
          /\ t'[e].pc = t[e].back /\ t'[e].back = "idle"
          /\ t'[e].kind = t[e].kind /\ t'[e].sid = t[e].sid /\ t'[e].using = t[e].using
          /\ t'[e].native = t[e].native /\ t'[e].id = t[e].id /\ t'[e].resume = t[e].resume
          /\ t'[e].fell = t[e].fell /\ t'[e].out = t[e].out
      BY <1>0, <1>14, <2>0 DEF WriteRecordMove, WriteRecord, At, Kept, Fields, Typed,
         SlotAgrees, Saving
    <3> QED BY <3>1 DEF SlotAgrees, Saving, Over
  <2> QED BY <2>1, <2>2, <2>3, SlotsFrom DEF Others
<1>15. CASE Cache(e)
  <2>0. CacheMove(e)
    BY <1>0, <1>15, CacheStep
  <2>1. Others(e)
    BY <2>0 DEF CacheMove
  <2>2. Typed(t'[e])
    <3>1. /\ t'[e].resume \in BOOLEAN /\ t'[e].kind \in Agents
          /\ t'[e].fell \in BOOLEAN /\ t'[e].cancelled \in BOOLEAN
      BY <1>0, <2>0 DEF CacheMove, Kept, Fields, Typed
    <3>2. /\ t'[e].pc \in Points /\ t'[e].id \in Nat /\ t'[e].native \in Nat /\ t'[e].using \in Nat
          /\ t'[e].sid \in Nat /\ t'[e].own \in Nat /\ t'[e].row \in Nat
      BY <1>0, <2>0 DEF CacheMove, Kept, Fields, Typed, Points, None
    <3>3. /\ t'[e].back \in {"idle", "prompt", "start", "cache"}
          /\ t'[e].out \in {"ok", "broken", "error", "gone"}
      BY <1>0, <2>0 DEF CacheMove, Kept, Fields, Typed
    <3> QED BY <3>1, <3>2, <3>3 DEF Typed
  <2>3. SlotAgrees(e)'
    BY <1>0, <1>15 DEF SlotAgrees, Saving, Over, Cache, At, FallsBack
  <2> QED BY <2>1, <2>2, <2>3, SlotsFrom DEF Others
<1>16. CASE Finish(e)
  <2>0. FinishMove(e)
    BY <1>0, <1>16, FinishStep
  <2>1. Others(e)
    BY <2>0 DEF FinishMove
  <2>2. Typed(t'[e])
    <3>1. /\ t'[e].resume \in BOOLEAN /\ t'[e].kind \in Agents
          /\ t'[e].fell \in BOOLEAN /\ t'[e].cancelled \in BOOLEAN
      BY <1>0, <2>0 DEF FinishMove, Typed, Blank, Agents
    <3>2. /\ t'[e].pc \in Points /\ t'[e].id \in Nat /\ t'[e].native \in Nat /\ t'[e].using \in Nat
          /\ t'[e].sid \in Nat /\ t'[e].own \in Nat /\ t'[e].row \in Nat
      BY <2>0 DEF FinishMove, Points, Blank, None
    <3>3. /\ t'[e].back \in {"idle", "prompt", "start", "cache"}
          /\ t'[e].out \in {"ok", "broken", "error", "gone"}
      BY <2>0 DEF FinishMove, Blank
    <3> QED BY <3>1, <3>2, <3>3 DEF Typed
  <2>3. SlotAgrees(e)'
    BY <2>0 DEF FinishMove, SlotAgrees, Saving, Blank
  <2> QED BY <2>1, <2>2, <2>3, SlotsFrom DEF Others
<1>17. CASE Release(e)
  <2>0. FinishMove(e)
    BY <1>0, <1>17, FinishStep
  <2>1. Others(e)
    BY <2>0 DEF FinishMove
  <2>2. Typed(t'[e])
    <3>1. /\ t'[e].resume \in BOOLEAN /\ t'[e].kind \in Agents
          /\ t'[e].fell \in BOOLEAN /\ t'[e].cancelled \in BOOLEAN
      BY <1>0, <2>0 DEF FinishMove, Typed, Blank, Agents
    <3>2. /\ t'[e].pc \in Points /\ t'[e].id \in Nat /\ t'[e].native \in Nat /\ t'[e].using \in Nat
          /\ t'[e].sid \in Nat /\ t'[e].own \in Nat /\ t'[e].row \in Nat
      BY <2>0 DEF FinishMove, Points, Blank, None
    <3>3. /\ t'[e].back \in {"idle", "prompt", "start", "cache"}
          /\ t'[e].out \in {"ok", "broken", "error", "gone"}
      BY <2>0 DEF FinishMove, Blank
    <3> QED BY <3>1, <3>2, <3>3 DEF Typed
  <2>3. SlotAgrees(e)'
    BY <2>0 DEF FinishMove, SlotAgrees, Saving, Blank
  <2> QED BY <2>1, <2>2, <2>3, SlotsFrom DEF Others
<1>18. CASE CancelAgent(e)
  <2>0. CancelMove(e)
    BY <1>0, <1>18, CancelStep
  <2>1. Others(e)
    BY <2>0 DEF CancelMove
  <2>2. Typed(t'[e])
    BY <1>0, <2>0 DEF Typed, CancelMove, Kept, Fields
  <2>3. SlotAgrees(e)'
    BY <2>0 DEF CancelMove, SlotAgrees, Saving, Over, Kept, Fields
  <2> QED BY <2>1, <2>2, <2>3, SlotsFrom DEF Others
<1> QED BY <1>1, <1>2, <1>3, <1>4, <1>5, <1>6, <1>7, <1>8, <1>9, <1>10, <1>11, <1>12, <1>13,
           <1>14, <1>15, <1>16, <1>17, <1>18 DEF Execute

LEMMA ExecuteSlots ==
  ASSUME ResumeTypeOK, SlotsAgree, NEW e \in Exec, Execute(e) \/ CancelAgent(e)
  PROVE  t' \in [Exec -> Slots] /\ SlotsAgree'
<1>1. Others(e) /\ t'[e] \in Slots /\ SlotAgrees(e)'
  BY ExecuteSlot DEF SlotsAgree
<1>2. t' \in [Exec -> Slots]
  BY <1>1 DEF Others, ResumeTypeOK
<1>3. ASSUME NEW x \in Exec \ {e} PROVE SlotAgrees(x)'
  BY <1>1 DEF Others, SlotsAgree, SlotAgrees, Saving, Over
<1> QED BY <1>1, <1>2, <1>3 DEF SlotsAgree

\* The types of what is not an execution's.
Counters == /\ base \in Agents /\ cache \in Nat /\ recent \in Nat /\ made \in Nat
            /\ turns \in Nat /\ faults \in Nat /\ told \in Nat /\ misses \in Nat
            /\ overlap \in {"none", "resumes", "any"}

LEMMA ExecuteTypes ==
  ASSUME ResumeTypeOK, SlotsAgree, NEW e \in Exec, Execute(e) \/ CancelAgent(e)
  PROVE  ResumeTypeOK'
<1>0. /\ Counters /\ rowCount \in Nat /\ rows \in Seq(Rows)
      /\ t[e].id \in Nat /\ t[e].native \in Nat /\ t[e].using \in Nat /\ t[e].sid \in Nat /\ t[e].own \in Nat
  BY DEF ResumeTypeOK, Counters, Slots
<1>a. t' \in [Exec -> Slots]
  BY ExecuteSlots
<1>b. ASSUME Counters', rows' \in Seq(Rows), rowCount' \in Nat PROVE ResumeTypeOK'
  BY <1>a, <1>b DEF ResumeTypeOK, Counters
<1>1. CASE Start(e)
  <2>1. UNCHANGED <<rows, rowCount>>
    BY <1>1 DEF Start, store
  <2>2. Counters'
    BY <1>0, <1>1 DEF Counters, Start, clis, None
  <2> QED BY <1>0, <1>b, <2>1, <2>2
<1>2. CASE LookUp(e)
  <2>1. UNCHANGED <<rows, rowCount>>
    BY <1>2 DEF LookUp, store
  <2>2. Counters'
    BY <1>0, <1>2 DEF Counters, LookUp, Fault, clis, history
  <2> QED BY <1>0, <1>b, <2>1, <2>2
<1>3. CASE Delete(e)
  <2>1. rows' \in Seq(Rows)
    BY <1>0, <1>3, SomeRows DEF Delete, Without
  <2>2. Counters' /\ rowCount' \in Nat
    BY <1>0, <1>3 DEF Counters, Delete, Fault, clis, history
  <2> QED BY <1>b, <2>1, <2>2
<1>4. CASE Acquire(e)
  <2>1. UNCHANGED <<rows, rowCount>>
    BY <1>4 DEF Acquire, store
  <2>2. Counters'
    BY <1>0, <1>4 DEF Counters, Acquire, clis, history
  <2> QED BY <1>0, <1>b, <2>1, <2>2
<1>5. CASE GiveUp(e)
  <2>1. UNCHANGED <<rows, rowCount>>
    BY <1>5 DEF GiveUp, store
  <2>2. Counters'
    BY <1>0, <1>5 DEF Counters, GiveUp, clis, history
  <2> QED BY <1>0, <1>b, <2>1, <2>2
<1>6. CASE Load(e)
  <2>1. UNCHANGED <<rows, rowCount>>
    BY <1>6 DEF Load, store
  <2>2. Counters'
    BY <1>0, <1>6 DEF Counters, Load, clis, history
  <2> QED BY <1>0, <1>b, <2>1, <2>2
<1>7. CASE NewSession(e)
  <2>1. UNCHANGED <<rows, rowCount>>
    BY <1>7 DEF NewSession, store
  <2>2. Counters'
    BY <1>0, <1>7 DEF Counters, NewSession, history
  <2> QED BY <1>0, <1>b, <2>1, <2>2
<1>8. CASE PickSession(e)
  <2>1. UNCHANGED <<rows, rowCount>>
    BY <1>8 DEF PickSession, store
  <2>2. Counters'
    BY <1>0, <1>8 DEF Counters, PickSession, history
  <2> QED BY <1>0, <1>b, <2>1, <2>2
<1>9. CASE StartClaude(e)
  <2>1. UNCHANGED <<rows, rowCount>>
    BY <1>9 DEF StartClaude, store
  <2>2. Counters'
    BY <1>0, <1>9 DEF Counters, StartClaude, Prompted
  <2> QED BY <1>0, <1>b, <2>1, <2>2
<1>10. CASE Prompt(e)
  <2>1. UNCHANGED <<rows, rowCount>>
    BY <1>10 DEF Prompt, store
  <2>2. Counters'
    BY <1>0, <1>10 DEF Counters, Prompt, clis, Prompted
  <2> QED BY <1>0, <1>b, <2>1, <2>2
<1>11. CASE Breaks(e)
  <2>1. UNCHANGED <<rows, rowCount>>
    BY <1>11 DEF Breaks, store
  <2>2. Counters'
    BY <1>0, <1>11 DEF Counters, Breaks, clis, history
  <2> QED BY <1>0, <1>b, <2>1, <2>2
<1>12. CASE EndTurn(e)
  <2>1. UNCHANGED <<rows, rowCount>>
    BY <1>12 DEF EndTurn, store
  <2>2. Counters'
    BY <1>0, <1>12 DEF Counters, EndTurn, clis, history
  <2> QED BY <1>0, <1>b, <2>1, <2>2
<1>13. CASE FindRecord(e)
  <2>1. UNCHANGED <<rows, rowCount>>
    BY <1>13 DEF FindRecord, store
  <2>2. Counters'
    BY <1>0, <1>13 DEF Counters, FindRecord, Fault, clis, history
  <2> QED BY <1>0, <1>b, <2>1, <2>2
<1>14. CASE WriteRecord(e)
  <2>1. rows' \in Seq(Rows) /\ rowCount' \in Nat
    BY <1>14, WriteRows DEF SlotsAgree, WroteRows
  <2>2. UNCHANGED <<base, cache, recent, clis, history>>
    BY <1>14 DEF WriteRecord
  <2>3. faults' \in Nat
    BY <1>0, <1>14, WriteRows DEF SlotsAgree, WroteRows, Fault, Counters
  <2>4. Counters'
    BY <1>0, <2>2, <2>3 DEF Counters, clis, history
  <2> QED BY <1>b, <2>1, <2>4
<1>15. CASE Cache(e)
  <2>1. UNCHANGED <<rows, rowCount>>
    BY <1>15 DEF Cache, store
  <2>2. Counters'
    BY <1>0, <1>15 DEF Counters, Cache, clis, history
  <2> QED BY <1>0, <1>b, <2>1, <2>2
<1>16. CASE Finish(e)
  <2>1. UNCHANGED <<rows, rowCount>>
    BY <1>16 DEF Finish, store
  <2>2. Counters'
    BY <1>0, <1>16 DEF Counters, Finish, clis
  <2> QED BY <1>0, <1>b, <2>1, <2>2
<1>17. CASE Release(e)
  <2>1. UNCHANGED <<rows, rowCount>>
    BY <1>17 DEF Release, store
  <2>2. Counters'
    BY <1>0, <1>17 DEF Counters, Release, clis, history
  <2> QED BY <1>0, <1>b, <2>1, <2>2
<1>18. CASE CancelAgent(e)
  <2>1. UNCHANGED <<rows, rowCount>>
    BY <1>18 DEF CancelAgent, store
  <2>2. Counters'
    BY <1>0, <1>18 DEF Counters, CancelAgent, clis, history
  <2> QED BY <1>0, <1>b, <2>1, <2>2
<1> QED BY <1>1, <1>2, <1>3, <1>4, <1>5, <1>6, <1>7, <1>8, <1>9, <1>10, <1>11, <1>12, <1>13,
           <1>14, <1>15, <1>16, <1>17, <1>18 DEF Execute

\* The sessions an execution's record names.
Names(s, known) == s.id \in known /\ s.native \in known /\ s.using \in known /\ s.sid \in known /\ s.own \in known

LEMMA ExecuteSessions ==
  ASSUME ResumeTypeOK, SlotsAgree, SessionsKnown, NEW e \in Exec, Execute(e) \/ CancelAgent(e)
  PROVE  SessionsKnown'
<1>0. /\ t \in [Exec -> Slots] /\ None \in Known /\ Names(t[e], Known)
      /\ cache \in Known /\ recent \in Known /\ told \in Known
      /\ \A i \in DOMAIN rows : rows[i].session \in Known
  BY DEF ResumeTypeOK, SessionsKnown, Known, None, Names
<1>1. rows # <<>> => Head(rows).session \in Known
  <2>1. rows # <<>> => 1 \in DOMAIN rows /\ Head(rows) = rows[1]
    BY DEF ResumeTypeOK
  <2> QED BY <1>0, <2>1
<1>2. Others(e)
  BY ExecuteSlot DEF SlotsAgree
<1>3. ASSUME Known \subseteq Known', Names(t'[e], Known'), cache' \in Known', recent' \in Known', told' \in Known',
             \A i \in DOMAIN rows' : rows'[i].session \in Known'
      PROVE  SessionsKnown'
  <2>1. ASSUME NEW x \in Exec PROVE Names(t'[x], Known')
    <3>1. CASE x = e
      BY <1>3, <3>1
    <3>2. CASE x # e
      BY <1>2, <1>3, <3>2 DEF Others, SessionsKnown, Names
    <3> QED BY <3>1, <3>2
  <2> QED BY <1>3, <2>1 DEF SessionsKnown, Names
<1>4. CASE Start(e)
  <2>1. StartMove(e)
    BY <1>0, <1>4, StartStep
  <2>2. Known \subseteq Known'
    BY <1>4 DEF Start, clis, Known
  <2>3. Names(t'[e], Known')
    BY <1>0, <2>1, <2>2 DEF StartMove, Names, Blank
  <2>4. cache' \in Known' /\ recent' \in Known' /\ told' \in Known'
    BY <1>0, <1>4, <2>2 DEF Start, history
  <2>5. \A i \in DOMAIN rows' : rows'[i].session \in Known'
    <3>1. rows' = rows
      BY <1>4 DEF Start, store
    <3> QED BY <1>0, <2>2, <3>1
  <2> QED BY <1>3, <2>2, <2>3, <2>4, <2>5
<1>5. CASE LookUp(e)
  <2>1. LookUpMove(e)
    BY <1>0, <1>5, LookUpStep
  <2>2. Known \subseteq Known'
    BY <1>5 DEF LookUp, clis, Known
  <2>3. Names(t'[e], Known')
    BY <1>0, <1>1, <2>1, <2>2 DEF LookUpMove, Names, Kept, Fields
  <2>4. cache' \in Known' /\ recent' \in Known' /\ told' \in Known'
    BY <1>0, <1>5, <2>2 DEF LookUp, history
  <2>5. \A i \in DOMAIN rows' : rows'[i].session \in Known'
    <3>1. rows' = rows
      BY <1>5 DEF LookUp, store
    <3> QED BY <1>0, <2>2, <3>1
  <2> QED BY <1>3, <2>2, <2>3, <2>4, <2>5
<1>6. CASE Delete(e)
  <2>1. DeleteMove(e)
    BY <1>0, <1>6, DeleteStep
  <2>2. Known \subseteq Known'
    BY <1>6 DEF Delete, clis, Known
  <2>3. Names(t'[e], Known')
    BY <1>0, <2>1, <2>2 DEF DeleteMove, Names, Kept, Fields
  <2>4. cache' \in Known' /\ recent' \in Known' /\ told' \in Known'
    BY <1>0, <1>6, <2>2 DEF Delete, history
  <2>5. \A i \in DOMAIN rows' : rows'[i].session \in Known'
    <3>1. \A i \in DOMAIN rows' : \E j \in DOMAIN rows : rows'[i] = rows[j]
      BY <1>6, SomeRows DEF Delete, Without, ResumeTypeOK
    <3> QED BY <1>0, <2>2, <3>1
  <2> QED BY <1>3, <2>2, <2>3, <2>4, <2>5
<1>7. CASE Acquire(e)
  <2>1. AcquireMove(e)
    BY <1>0, <1>7, AcquireStep
  <2>2. Known \subseteq Known'
    BY <1>7 DEF Acquire, clis, Known
  <2>3. Names(t'[e], Known')
    BY <1>0, <2>1, <2>2 DEF AcquireMove, Names, Kept, Fields
  <2>4. cache' \in Known' /\ recent' \in Known' /\ told' \in Known'
    BY <1>0, <1>7, <2>2 DEF Acquire, history
  <2>5. \A i \in DOMAIN rows' : rows'[i].session \in Known'
    <3>1. rows' = rows
      BY <1>7 DEF Acquire, store
    <3> QED BY <1>0, <2>2, <3>1
  <2> QED BY <1>3, <2>2, <2>3, <2>4, <2>5
<1>8. CASE GiveUp(e)
  <2>1. AcquireMove(e)
    BY <1>0, <1>8, AcquireStep
  <2>2. Known \subseteq Known'
    BY <1>8 DEF GiveUp, clis, Known
  <2>3. Names(t'[e], Known')
    BY <1>0, <2>1, <2>2 DEF AcquireMove, Names, Kept, Fields
  <2>4. cache' \in Known' /\ recent' \in Known' /\ told' \in Known'
    BY <1>0, <1>8, <2>2 DEF GiveUp, history
  <2>5. \A i \in DOMAIN rows' : rows'[i].session \in Known'
    <3>1. rows' = rows
      BY <1>8 DEF GiveUp, store
    <3> QED BY <1>0, <2>2, <3>1
  <2> QED BY <1>3, <2>2, <2>3, <2>4, <2>5
<1>9. CASE Load(e)
  <2>1. LoadMove(e)
    BY <1>0, <1>9, LoadStep
  <2>2. Known \subseteq Known'
    BY <1>9 DEF Load, clis, Known
  <2>3. Names(t'[e], Known')
    BY <1>0, <2>1, <2>2 DEF LoadMove, Names, Kept, Fields, Ends
  <2>4. cache' \in Known' /\ recent' \in Known' /\ told' \in Known'
    BY <1>0, <1>9, <2>2 DEF Load, history
  <2>5. \A i \in DOMAIN rows' : rows'[i].session \in Known'
    <3>1. rows' = rows
      BY <1>9 DEF Load, store
    <3> QED BY <1>0, <2>2, <3>1
  <2> QED BY <1>3, <2>2, <2>3, <2>4, <2>5
<1>10. CASE NewSession(e)
  <2>1. NewSessionMove(e)
    BY <1>0, <1>10, NewSessionStep
  <2>2. Known \subseteq Known' /\ made + 1 \in Known'
    BY <1>10 DEF NewSession, Known, ResumeTypeOK
  <2>3. Names(t'[e], Known')
    BY <1>0, <2>1, <2>2 DEF NewSessionMove, Names, Kept, Fields
  <2>4. cache' \in Known' /\ recent' \in Known' /\ told' \in Known'
    BY <1>0, <1>10, <2>2 DEF NewSession, history
  <2>5. \A i \in DOMAIN rows' : rows'[i].session \in Known'
    <3>1. rows' = rows
      BY <1>10 DEF NewSession, store
    <3> QED BY <1>0, <2>2, <3>1
  <2> QED BY <1>3, <2>2, <2>3, <2>4, <2>5
<1>11. CASE PickSession(e)
  <2>1. PickSessionMove(e)
    BY <1>0, <1>11, PickSessionStep
  <2>2. Known \subseteq Known' /\ (t[e].id = None => made + 1 \in Known')
    BY <1>11 DEF PickSession, Known, ResumeTypeOK
  <2>3. Names(t'[e], Known')
    BY <1>0, <2>1, <2>2 DEF PickSessionMove, Names, Kept, Fields
  <2>4. cache' \in Known' /\ recent' \in Known' /\ told' \in Known'
    BY <1>0, <1>11, <2>2 DEF PickSession, history
  <2>5. \A i \in DOMAIN rows' : rows'[i].session \in Known'
    <3>1. rows' = rows
      BY <1>11 DEF PickSession, store
    <3> QED BY <1>0, <2>2, <3>1
  <2> QED BY <1>3, <2>2, <2>3, <2>4, <2>5
<1>12. CASE StartClaude(e)
  <2>1. StartClaudeMove(e)
    BY <1>0, <1>12, StartClaudeStep
  <2>2. Known \subseteq Known'
    BY <1>12 DEF StartClaude, clis, Known
  <2>3. Names(t'[e], Known')
    BY <1>0, <2>1, <2>2 DEF StartClaudeMove, Names, Kept, Fields, Ends
  <2>4. cache' \in Known' /\ recent' \in Known' /\ told' \in Known'
    BY <1>0, <1>12, <2>2 DEF StartClaude, Names, Prompted
  <2>5. \A i \in DOMAIN rows' : rows'[i].session \in Known'
    <3>1. rows' = rows
      BY <1>12 DEF StartClaude, store
    <3> QED BY <1>0, <2>2, <3>1
  <2> QED BY <1>3, <2>2, <2>3, <2>4, <2>5
<1>13. CASE Prompt(e)
  <2>1. PromptMove(e)
    BY <1>0, <1>13, PromptStep
  <2>2. Known \subseteq Known'
    BY <1>13 DEF Prompt, clis, Known
  <2>3. Names(t'[e], Known')
    BY <1>0, <2>1, <2>2 DEF PromptMove, Names, Kept, Fields
  <2>4. cache' \in Known' /\ recent' \in Known' /\ told' \in Known'
    BY <1>0, <1>13, <2>2 DEF Prompt, Names, Prompted
  <2>5. \A i \in DOMAIN rows' : rows'[i].session \in Known'
    <3>1. rows' = rows
      BY <1>13 DEF Prompt, store
    <3> QED BY <1>0, <2>2, <3>1
  <2> QED BY <1>3, <2>2, <2>3, <2>4, <2>5
<1>14. CASE Breaks(e)
  <2>1. BreaksMove(e)
    BY <1>0, <1>14, BreaksStep
  <2>2. Known \subseteq Known'
    BY <1>14 DEF Breaks, clis, Known
  <2>3. Names(t'[e], Known')
    BY <1>0, <2>1, <2>2 DEF BreaksMove, Names, Kept, Fields, Ends
  <2>4. cache' \in Known' /\ recent' \in Known' /\ told' \in Known'
    BY <1>0, <1>14, <2>2 DEF Breaks, history
  <2>5. \A i \in DOMAIN rows' : rows'[i].session \in Known'
    <3>1. rows' = rows
      BY <1>14 DEF Breaks, store
    <3> QED BY <1>0, <2>2, <3>1
  <2> QED BY <1>3, <2>2, <2>3, <2>4, <2>5
<1>15. CASE EndTurn(e)
  <2>1. EndTurnMove(e)
    BY <1>0, <1>15, EndTurnStep
  <2>2. Known \subseteq Known'
    BY <1>15 DEF EndTurn, clis, Known
  <2>3. Names(t'[e], Known')
    BY <1>0, <2>1, <2>2 DEF EndTurnMove, Names, Kept, Fields, Ends
  <2>4. cache' \in Known' /\ recent' \in Known' /\ told' \in Known'
    BY <1>0, <1>15, <2>2 DEF EndTurn, history
  <2>5. \A i \in DOMAIN rows' : rows'[i].session \in Known'
    <3>1. rows' = rows
      BY <1>15 DEF EndTurn, store
    <3> QED BY <1>0, <2>2, <3>1
  <2> QED BY <1>3, <2>2, <2>3, <2>4, <2>5
<1>16. CASE FindRecord(e)
  <2>1. FindRecordMove(e)
    BY <1>0, <1>16, FindRecordStep
  <2>2. Known \subseteq Known'
    BY <1>16 DEF FindRecord, clis, Known
  <2>3. Names(t'[e], Known')
    BY <1>0, <2>1, <2>2 DEF FindRecordMove, Names, Kept, Fields
  <2>4. cache' \in Known' /\ recent' \in Known' /\ told' \in Known'
    BY <1>0, <1>16, <2>2 DEF FindRecord, history
  <2>5. \A i \in DOMAIN rows' : rows'[i].session \in Known'
    <3>1. rows' = rows
      BY <1>16 DEF FindRecord, store
    <3> QED BY <1>0, <2>2, <3>1
  <2> QED BY <1>3, <2>2, <2>3, <2>4, <2>5
<1>17. CASE WriteRecord(e)
  <2>1. WriteRecordMove(e)
    BY <1>0, <1>17, WriteRecordStep
  <2>2. Known \subseteq Known'
    BY <1>17 DEF WriteRecord, clis, Known
  <2>3. Names(t'[e], Known')
    BY <1>0, <2>1, <2>2 DEF WriteRecordMove, Names, Kept, Fields
  <2>4. cache' \in Known' /\ recent' \in Known' /\ told' \in Known'
    <3>1. UNCHANGED <<cache, recent, told>>
      BY <1>17 DEF WriteRecord, history
    <3> QED BY <1>0, <2>2, <3>1
  <2>5. \A i \in DOMAIN rows' : rows'[i].session \in Known'
    <3>1. WroteRows(e)
      BY <1>17, WriteRows DEF SlotsAgree
    <3>2. /\ Row(e).session = t[e].sid
          /\ \A i \in DOMAIN rows : Updated(rows[i], e).session = t[e].sid
      <4>1. \A i \in DOMAIN rows : rows[i] \in Rows
        BY DEF ResumeTypeOK
      <4> QED BY <4>1 DEF Row, Updated, Rows
    <3> QED BY <1>0, <2>2, <3>1, <3>2 DEF WroteRows, Names
  <2> QED BY <1>3, <2>2, <2>3, <2>4, <2>5
<1>18. CASE Cache(e)
  <2>1. CacheMove(e)
    BY <1>0, <1>18, CacheStep
  <2>2. Known \subseteq Known'
    BY <1>18 DEF Cache, clis, Known
  <2>3. Names(t'[e], Known')
    BY <1>0, <2>1, <2>2 DEF CacheMove, Names, Kept, Fields
  <2>4. cache' \in Known' /\ recent' \in Known' /\ told' \in Known'
    BY <1>0, <1>18, <2>2 DEF Cache, history, Names
  <2>5. \A i \in DOMAIN rows' : rows'[i].session \in Known'
    <3>1. rows' = rows
      BY <1>18 DEF Cache, store
    <3> QED BY <1>0, <2>2, <3>1
  <2> QED BY <1>3, <2>2, <2>3, <2>4, <2>5
<1>19. CASE Finish(e)
  <2>1. FinishMove(e)
    BY <1>0, <1>19, FinishStep
  <2>2. Known \subseteq Known'
    BY <1>19 DEF Finish, clis, Known
  <2>3. Names(t'[e], Known')
    BY <1>0, <2>1, <2>2 DEF FinishMove, Names, Blank
  <2>4. cache' \in Known' /\ recent' \in Known' /\ told' \in Known'
    BY <1>0, <1>19, <2>2 DEF Finish, history, Names
  <2>5. \A i \in DOMAIN rows' : rows'[i].session \in Known'
    <3>1. rows' = rows
      BY <1>19 DEF Finish, store
    <3> QED BY <1>0, <2>2, <3>1
  <2> QED BY <1>3, <2>2, <2>3, <2>4, <2>5
<1>20. CASE Release(e)
  <2>1. FinishMove(e)
    BY <1>0, <1>20, FinishStep
  <2>2. Known \subseteq Known'
    BY <1>20 DEF Release, clis, Known
  <2>3. Names(t'[e], Known')
    BY <1>0, <2>1, <2>2 DEF FinishMove, Names, Blank
  <2>4. cache' \in Known' /\ recent' \in Known' /\ told' \in Known'
    BY <1>0, <1>20, <2>2 DEF Release, history
  <2>5. \A i \in DOMAIN rows' : rows'[i].session \in Known'
    <3>1. rows' = rows
      BY <1>20 DEF Release, store
    <3> QED BY <1>0, <2>2, <3>1
  <2> QED BY <1>3, <2>2, <2>3, <2>4, <2>5
<1>21. CASE CancelAgent(e)
  <2>1. CancelMove(e)
    BY <1>0, <1>21, CancelStep
  <2>2. Known \subseteq Known'
    BY <1>21 DEF CancelAgent, clis, Known
  <2>3. Names(t'[e], Known')
    BY <1>0, <2>1, <2>2 DEF CancelMove, Names, Kept, Fields
  <2>4. cache' \in Known' /\ recent' \in Known' /\ told' \in Known'
    BY <1>0, <1>21, <2>2 DEF CancelAgent, history, Names
  <2>5. \A i \in DOMAIN rows' : rows'[i].session \in Known'
    <3>1. rows' = rows
      BY <1>21 DEF CancelAgent, store
    <3> QED BY <1>0, <2>2, <3>1
  <2> QED BY <1>3, <2>2, <2>3, <2>4, <2>5
<1> QED BY <1>4, <1>5, <1>6, <1>7, <1>8, <1>9, <1>10, <1>11, <1>12, <1>13, <1>14, <1>15,
           <1>16, <1>17, <1>18, <1>19, <1>20, <1>21 DEF Execute

\* A step of e begins an execution, or goes on with one.
GoesOn(e) ==
  /\ base' = base /\ (faults' = faults \/ Fault)
  /\ \/ Start(e) /\ faults' = faults
     \/ /\ t[e].pc # "idle" /\ overlap' = overlap
        /\ t'[e].pc = "idle" \/ t'[e].resume = t[e].resume

LEMMA ExecuteGoesOn ==
  ASSUME ResumeTypeOK, NEW e \in Exec, Execute(e) \/ CancelAgent(e)
  PROVE  GoesOn(e)
<1>0. t \in [Exec -> Slots]
  BY DEF ResumeTypeOK
<1>1. CASE Start(e)
  BY <1>1 DEF Start, GoesOn
<1>2. CASE LookUp(e)
  <2>1. LookUpMove(e)
    BY <1>0, <1>2, LookUpStep
  <2>2. t'[e].pc = "idle" \/ t'[e].resume = t[e].resume
    BY <2>1 DEF LookUpMove, Kept, Fields
  <2>3. base' = base /\ overlap' = overlap /\ (faults' = faults \/ Fault) /\ t[e].pc # "idle"
    BY <1>2 DEF LookUp, At, history
  <2> QED BY <2>2, <2>3 DEF GoesOn
<1>3. CASE Delete(e)
  <2>1. DeleteMove(e)
    BY <1>0, <1>3, DeleteStep
  <2>2. t'[e].pc = "idle" \/ t'[e].resume = t[e].resume
    BY <2>1 DEF DeleteMove, Kept, Fields
  <2>3. base' = base /\ overlap' = overlap /\ (faults' = faults \/ Fault) /\ t[e].pc # "idle"
    BY <1>3 DEF Delete, At, history
  <2> QED BY <2>2, <2>3 DEF GoesOn
<1>4. CASE Acquire(e)
  <2>1. AcquireMove(e)
    BY <1>0, <1>4, AcquireStep
  <2>2. t'[e].pc = "idle" \/ t'[e].resume = t[e].resume
    BY <2>1 DEF AcquireMove, Kept, Fields
  <2>3. base' = base /\ overlap' = overlap /\ (faults' = faults \/ Fault) /\ t[e].pc # "idle"
    BY <1>4 DEF Acquire, At, history
  <2> QED BY <2>2, <2>3 DEF GoesOn
<1>5. CASE GiveUp(e)
  <2>1. AcquireMove(e)
    BY <1>0, <1>5, AcquireStep
  <2>2. t'[e].pc = "idle" \/ t'[e].resume = t[e].resume
    BY <2>1 DEF AcquireMove, Kept, Fields
  <2>3. base' = base /\ overlap' = overlap /\ (faults' = faults \/ Fault) /\ t[e].pc # "idle"
    BY <1>5 DEF GiveUp, At, history
  <2> QED BY <2>2, <2>3 DEF GoesOn
<1>6. CASE Load(e)
  <2>1. LoadMove(e)
    BY <1>0, <1>6, LoadStep
  <2>2. t'[e].pc = "idle" \/ t'[e].resume = t[e].resume
    BY <2>1 DEF LoadMove, Kept, Fields, Ends
  <2>3. base' = base /\ overlap' = overlap /\ (faults' = faults \/ Fault) /\ t[e].pc # "idle"
    BY <1>6 DEF Load, At, history
  <2> QED BY <2>2, <2>3 DEF GoesOn
<1>7. CASE NewSession(e)
  <2>1. NewSessionMove(e)
    BY <1>0, <1>7, NewSessionStep
  <2>2. t'[e].pc = "idle" \/ t'[e].resume = t[e].resume
    BY <2>1 DEF NewSessionMove, Kept, Fields
  <2>3. base' = base /\ overlap' = overlap /\ (faults' = faults \/ Fault) /\ t[e].pc # "idle"
    BY <1>7 DEF NewSession, At, history
  <2> QED BY <2>2, <2>3 DEF GoesOn
<1>8. CASE PickSession(e)
  <2>1. PickSessionMove(e)
    BY <1>0, <1>8, PickSessionStep
  <2>2. t'[e].pc = "idle" \/ t'[e].resume = t[e].resume
    BY <2>1 DEF PickSessionMove, Kept, Fields
  <2>3. base' = base /\ overlap' = overlap /\ (faults' = faults \/ Fault) /\ t[e].pc # "idle"
    BY <1>8 DEF PickSession, At, history
  <2> QED BY <2>2, <2>3 DEF GoesOn
<1>9. CASE StartClaude(e)
  <2>1. StartClaudeMove(e)
    BY <1>0, <1>9, StartClaudeStep
  <2>2. t'[e].pc = "idle" \/ t'[e].resume = t[e].resume
    BY <2>1 DEF StartClaudeMove, Kept, Fields, Ends
  <2>3. base' = base /\ overlap' = overlap /\ (faults' = faults \/ Fault) /\ t[e].pc # "idle"
    BY <1>9 DEF StartClaude, At, history
  <2> QED BY <2>2, <2>3 DEF GoesOn
<1>10. CASE Prompt(e)
  <2>1. PromptMove(e)
    BY <1>0, <1>10, PromptStep
  <2>2. t'[e].pc = "idle" \/ t'[e].resume = t[e].resume
    BY <2>1 DEF PromptMove, Kept, Fields
  <2>3. base' = base /\ overlap' = overlap /\ (faults' = faults \/ Fault) /\ t[e].pc # "idle"
    BY <1>10 DEF Prompt, At, history
  <2> QED BY <2>2, <2>3 DEF GoesOn
<1>11. CASE Breaks(e)
  <2>1. BreaksMove(e)
    BY <1>0, <1>11, BreaksStep
  <2>2. t'[e].pc = "idle" \/ t'[e].resume = t[e].resume
    BY <2>1 DEF BreaksMove, Kept, Fields, Ends
  <2>3. base' = base /\ overlap' = overlap /\ (faults' = faults \/ Fault) /\ t[e].pc # "idle"
    BY <1>11 DEF Breaks, At, history
  <2> QED BY <2>2, <2>3 DEF GoesOn
<1>12. CASE EndTurn(e)
  <2>1. EndTurnMove(e)
    BY <1>0, <1>12, EndTurnStep
  <2>2. t'[e].pc = "idle" \/ t'[e].resume = t[e].resume
    BY <2>1 DEF EndTurnMove, Kept, Fields, Ends
  <2>3. base' = base /\ overlap' = overlap /\ (faults' = faults \/ Fault) /\ t[e].pc # "idle"
    BY <1>12 DEF EndTurn, At, history
  <2> QED BY <2>2, <2>3 DEF GoesOn
<1>13. CASE FindRecord(e)
  <2>1. FindRecordMove(e)
    BY <1>0, <1>13, FindRecordStep
  <2>2. t'[e].pc = "idle" \/ t'[e].resume = t[e].resume
    BY <2>1 DEF FindRecordMove, Kept, Fields
  <2>3. base' = base /\ overlap' = overlap /\ (faults' = faults \/ Fault) /\ t[e].pc # "idle"
    BY <1>13 DEF FindRecord, At, history
  <2> QED BY <2>2, <2>3 DEF GoesOn
<1>14. CASE WriteRecord(e)
  <2>1. WriteRecordMove(e)
    BY <1>0, <1>14, WriteRecordStep
  <2>2. t'[e].pc = "idle" \/ t'[e].resume = t[e].resume
    BY <2>1 DEF WriteRecordMove, Kept, Fields
  <2>3. base' = base /\ overlap' = overlap /\ (faults' = faults \/ Fault) /\ t[e].pc # "idle"
    BY <1>14 DEF WriteRecord, At, history
  <2> QED BY <2>2, <2>3 DEF GoesOn
<1>15. CASE Cache(e)
  <2>1. CacheMove(e)
    BY <1>0, <1>15, CacheStep
  <2>2. t'[e].pc = "idle" \/ t'[e].resume = t[e].resume
    BY <2>1 DEF CacheMove, Kept, Fields
  <2>3. base' = base /\ overlap' = overlap /\ (faults' = faults \/ Fault) /\ t[e].pc # "idle"
    BY <1>15 DEF Cache, At, history
  <2> QED BY <2>2, <2>3 DEF GoesOn
<1>16. CASE Finish(e)
  <2>1. FinishMove(e)
    BY <1>0, <1>16, FinishStep
  <2>2. t'[e].pc = "idle" \/ t'[e].resume = t[e].resume
    BY <2>1 DEF FinishMove, Kept, Fields
  <2>3. base' = base /\ overlap' = overlap /\ (faults' = faults \/ Fault) /\ t[e].pc # "idle"
    BY <1>16 DEF Finish, At, history
  <2> QED BY <2>2, <2>3 DEF GoesOn
<1>17. CASE Release(e)
  <2>1. FinishMove(e)
    BY <1>0, <1>17, FinishStep
  <2>2. t'[e].pc = "idle" \/ t'[e].resume = t[e].resume
    BY <2>1 DEF FinishMove, Kept, Fields
  <2>3. base' = base /\ overlap' = overlap /\ (faults' = faults \/ Fault) /\ t[e].pc # "idle"
    BY <1>17 DEF Release, At, history
  <2> QED BY <2>2, <2>3 DEF GoesOn
<1>18. CASE CancelAgent(e)
  <2>1. CancelMove(e)
    BY <1>0, <1>18, CancelStep
  <2>2. t'[e].pc = "idle" \/ t'[e].resume = t[e].resume
    BY <2>1 DEF CancelMove, Kept, Fields
  <2>3. base' = base /\ overlap' = overlap /\ (faults' = faults \/ Fault) /\ t[e].pc # "idle"
    BY <1>18 DEF CancelAgent, At, history
  <2> QED BY <2>2, <2>3 DEF GoesOn
<1> QED BY <1>1, <1>2, <1>3, <1>4, <1>5, <1>6, <1>7, <1>8, <1>9, <1>10, <1>11, <1>12, <1>13,
           <1>14, <1>15, <1>16, <1>17, <1>18 DEF Execute

LEMMA ExecuteOverlaps ==
  ASSUME ResumeTypeOK, SlotsAgree, OverlapKnown, NEW e \in Exec, Execute(e) \/ CancelAgent(e)
  PROVE  OverlapKnown'
<1>0. Others(e) /\ GoesOn(e) /\ overlap \in {"none", "resumes", "any"}
  BY ExecuteSlot, ExecuteGoesOn DEF SlotsAgree, ResumeTypeOK
<1> SUFFICES ASSUME NEW a \in Active', NEW b \in Active', a # b
             PROVE  overlap' # "none" /\ (overlap' = "resumes" => t'[a].resume /\ t'[b].resume)
  BY DEF OverlapKnown
<1>1. a \in Exec /\ b \in Exec /\ t'[a].pc # "idle" /\ t'[b].pc # "idle"
  BY DEF Active
<1>2. CASE Start(e)
  <2>1. overlap' = IF Active = {} THEN overlap
                   ELSE IF overlap # "any" /\ t'[e].resume /\ \A c \in Active : t[c].resume
                        THEN "resumes" ELSE "any"
    BY <1>2, StartStep DEF ResumeTypeOK, StartMove
  <2>2. \A c \in {a, b} \ {e} : c \in Active /\ t'[c] = t[c]
    BY <1>0, <1>1 DEF Active, Others
  <2>3. Active # {}
    BY <2>2
  <2> QED BY <2>1, <2>2, <2>3
<1>3. CASE ~Start(e)
  <2>1. a \in Active /\ b \in Active /\ overlap' = overlap
    BY <1>0, <1>1, <1>3 DEF Active, Others, GoesOn
  <2>2. t'[a].resume = t[a].resume /\ t'[b].resume = t[b].resume
    BY <1>0, <1>1, <1>3 DEF Others, GoesOn
  <2> QED BY <2>1, <2>2 DEF OverlapKnown
<1> QED BY <1>2, <1>3

\* As long as only executions that take the mutex overlap, nobody runs next to
\* one that runs.
LEMMA RunsAlone ==
  ASSUME ResumeInv, overlap # "any", NEW a \in Exec, NEW b \in Exec, Running(a), Running(b)
  PROVE  a = b
<1>1. a \in Active /\ b \in Active
  BY DEF Active, Running
<1>2. CASE a # b
  <2>1. t[a].resume /\ t[b].resume
    BY <1>1, <1>2 DEF ResumeInv, OverlapKnown, ResumeTypeOK
  <2> QED BY <2>1 DEF ResumeInv, Inv, Holds
<1> QED BY <1>2

LEMMA ExecuteOneRecord ==
  ASSUME ResumeInv, NEW e \in Exec, Execute(e) \/ CancelAgent(e)
  PROVE  OneRecord'
<1>0. /\ t \in [Exec -> Slots] /\ Others(e) /\ GoesOn(e) /\ rows \in Seq(Rows) /\ faults \in Nat
      /\ SlotAgrees(e) /\ ResumeTypeOK
  BY ExecuteSlot, ExecuteGoesOn DEF ResumeInv, SlotsAgree, ResumeTypeOK
<1> SUFFICES ASSUME overlap' # "any", faults' = 0
             PROVE  /\ Len(rows') <= 1
                    /\ \A x \in Exec : t'[x].pc = "write" /\ t'[x].row = 0 => rows' = <<>>
  BY DEF OneRecord
<1>a. overlap # "any" /\ faults = 0 /\ faults' = faults /\ ~Fault
  <2>1. CASE Start(e)
    <3>1. overlap # "any"
      BY <1>0, <2>1, StartStep DEF StartMove
    <3> QED BY <1>0, <3>1 DEF GoesOn, Fault
  <2> QED BY <1>0, <2>1 DEF GoesOn, Fault
<1>b. Len(rows) <= 1 /\ \A x \in Exec : t[x].pc = "write" /\ t[x].row = 0 => rows = <<>>
  BY <1>a DEF ResumeInv, OneRecord
<1>c. ASSUME rows' = rows, t'[e].pc = "write" /\ t'[e].row = 0 => rows = <<>>
      PROVE  /\ Len(rows') <= 1
             /\ \A x \in Exec : t'[x].pc = "write" /\ t'[x].row = 0 => rows' = <<>>
  BY <1>0, <1>b, <1>c DEF Others
<1>1. CASE Start(e)
  <2>1. StartMove(e) /\ rows' = rows
    BY <1>0, <1>1, StartStep DEF Start, store
  <2>2. t'[e].pc = "write" /\ t'[e].row = 0 => rows = <<>>
    BY <2>1 DEF StartMove
  <2> QED BY <1>c, <2>1, <2>2
<1>2. CASE LookUp(e)
  <2>1. LookUpMove(e) /\ rows' = rows
    BY <1>0, <1>2, LookUpStep DEF LookUp, store
  <2>2. t'[e].pc = "write" /\ t'[e].row = 0 => rows = <<>>
    BY <2>1 DEF LookUpMove
  <2> QED BY <1>c, <2>1, <2>2
<1>3. CASE Delete(e)
  <2>1. Len(rows') <= Len(rows) /\ rows' \in Seq(Rows)
    BY <1>0, <1>3, SomeRows DEF Delete, Without
  <2>2. DeleteMove(e)
    BY <1>0, <1>3, DeleteStep
  <2>3. rows = <<>> => rows' = <<>>
    BY <1>0, <2>1
  <2>4. \A x \in Exec : t'[x].pc = "write" => x # e /\ t'[x] = t[x]
    BY <1>0, <2>2 DEF DeleteMove, Others
  <2> QED BY <1>0, <1>b, <2>1, <2>3, <2>4
<1>4. CASE Acquire(e)
  <2>1. AcquireMove(e) /\ rows' = rows
    BY <1>0, <1>4, AcquireStep DEF Acquire, store
  <2>2. t'[e].pc = "write" /\ t'[e].row = 0 => rows = <<>>
    BY <2>1 DEF AcquireMove
  <2> QED BY <1>c, <2>1, <2>2
<1>5. CASE GiveUp(e)
  <2>1. AcquireMove(e) /\ rows' = rows
    BY <1>0, <1>5, AcquireStep DEF GiveUp, store
  <2>2. t'[e].pc = "write" /\ t'[e].row = 0 => rows = <<>>
    BY <2>1 DEF AcquireMove
  <2> QED BY <1>c, <2>1, <2>2
<1>6. CASE Load(e)
  <2>1. LoadMove(e) /\ rows' = rows
    BY <1>0, <1>6, LoadStep DEF Load, store
  <2>2. t'[e].pc = "write" /\ t'[e].row = 0 => rows = <<>>
    BY <2>1 DEF LoadMove, Ends
  <2> QED BY <1>c, <2>1, <2>2
<1>7. CASE NewSession(e)
  <2>1. NewSessionMove(e) /\ rows' = rows
    BY <1>0, <1>7, NewSessionStep DEF NewSession, store
  <2>2. t'[e].pc = "write" /\ t'[e].row = 0 => rows = <<>>
    BY <2>1 DEF NewSessionMove
  <2> QED BY <1>c, <2>1, <2>2
<1>8. CASE PickSession(e)
  <2>1. PickSessionMove(e) /\ rows' = rows
    BY <1>0, <1>8, PickSessionStep DEF PickSession, store
  <2>2. t'[e].pc = "write" /\ t'[e].row = 0 => rows = <<>>
    BY <2>1 DEF PickSessionMove
  <2> QED BY <1>c, <2>1, <2>2
<1>9. CASE StartClaude(e)
  <2>1. StartClaudeMove(e) /\ rows' = rows
    BY <1>0, <1>9, StartClaudeStep DEF StartClaude, store
  <2>2. t'[e].pc = "write" /\ t'[e].row = 0 => rows = <<>>
    BY <2>1 DEF StartClaudeMove, Ends
  <2> QED BY <1>c, <2>1, <2>2
<1>10. CASE Prompt(e)
  <2>1. PromptMove(e) /\ rows' = rows
    BY <1>0, <1>10, PromptStep DEF Prompt, store
  <2>2. t'[e].pc = "write" /\ t'[e].row = 0 => rows = <<>>
    BY <2>1 DEF PromptMove
  <2> QED BY <1>c, <2>1, <2>2
<1>11. CASE Breaks(e)
  <2>1. BreaksMove(e) /\ rows' = rows
    BY <1>0, <1>11, BreaksStep DEF Breaks, store
  <2>2. t'[e].pc = "write" /\ t'[e].row = 0 => rows = <<>>
    BY <2>1 DEF BreaksMove, Ends
  <2> QED BY <1>c, <2>1, <2>2
<1>12. CASE EndTurn(e)
  <2>1. EndTurnMove(e) /\ rows' = rows
    BY <1>0, <1>12, EndTurnStep DEF EndTurn, store
  <2>2. t'[e].pc = "write" /\ t'[e].row = 0 => rows = <<>>
    BY <2>1 DEF EndTurnMove, Ends
  <2> QED BY <1>c, <2>1, <2>2
<1>13. CASE FindRecord(e)
  <2>1. FindRecordMove(e) /\ rows' = rows
    BY <1>0, <1>13, FindRecordStep DEF FindRecord, store
  <2>0. rows # <<>> => Head(rows).id # 0
    <3>1. rows # <<>> => Head(rows) \in Rows
      BY <1>0
    <3> QED BY <3>1 DEF Rows
  <2>2. t'[e].pc = "write" /\ t'[e].row = 0 => rows = <<>>
    BY <1>a, <2>0, <2>1 DEF FindRecordMove
  <2> QED BY <1>c, <2>1, <2>2
<1>14. CASE WriteRecord(e)
  <2>1. WroteRows(e) /\ WriteRecordMove(e)
    BY <1>0, <1>14, WriteRows, WriteRecordStep
  <2>2. rows' \in Seq(Rows) /\ Len(rows') <= 1
    <3>1. rows' \in Seq(Rows) /\ (t[e].row = 0 => rows = <<>>)
      BY <1>14, <1>b, <2>1 DEF WroteRows, WriteRecord, At
    <3>2. CASE t[e].row = 0
      BY <1>b, <2>1, <3>1 DEF WroteRows
    <3>3. CASE t[e].row # 0
      BY <1>b, <2>1, <3>1 DEF WroteRows
    <3> QED BY <3>1, <3>2, <3>3
  <2>3. ASSUME NEW x \in Exec, t'[x].pc = "write" PROVE FALSE
    <3>1. x # e
      BY <1>0, <2>1, <2>3 DEF WriteRecordMove, Slots
    <3>2. Running(x) /\ Running(e)
      BY <1>0, <1>14, <2>3 DEF Running, WriteRecord, At
    <3> QED BY <1>a, <3>1, <3>2, RunsAlone
  <2> QED BY <2>2, <2>3
<1>15. CASE Cache(e)
  <2>1. CacheMove(e) /\ rows' = rows
    BY <1>0, <1>15, CacheStep DEF Cache, store
  <2>2. t'[e].pc = "write" /\ t'[e].row = 0 => rows = <<>>
    BY <2>1 DEF CacheMove
  <2> QED BY <1>c, <2>1, <2>2
<1>16. CASE Finish(e)
  <2>1. FinishMove(e) /\ rows' = rows
    BY <1>0, <1>16, FinishStep DEF Finish, store
  <2>2. t'[e].pc = "write" /\ t'[e].row = 0 => rows = <<>>
    BY <2>1 DEF FinishMove
  <2> QED BY <1>c, <2>1, <2>2
<1>17. CASE Release(e)
  <2>1. FinishMove(e) /\ rows' = rows
    BY <1>0, <1>17, FinishStep DEF Release, store
  <2>2. t'[e].pc = "write" /\ t'[e].row = 0 => rows = <<>>
    BY <2>1 DEF FinishMove
  <2> QED BY <1>c, <2>1, <2>2
<1>18. CASE CancelAgent(e)
  <2>1. CancelMove(e) /\ rows' = rows
    BY <1>0, <1>18, CancelStep DEF CancelAgent, store
  <2>2. t'[e].pc = "write" /\ t'[e].row = 0 => rows = <<>>
    BY <1>b, <2>1 DEF CancelMove, Kept, Fields
  <2> QED BY <1>c, <2>1, <2>2
<1> QED BY <1>1, <1>2, <1>3, <1>4, <1>5, <1>6, <1>7, <1>8, <1>9, <1>10, <1>11, <1>12, <1>13,
           <1>14, <1>15, <1>16, <1>17, <1>18 DEF Execute

LEMMA IdleTyped == Idle \in Slots
<1>1. /\ Idle.resume \in BOOLEAN /\ Idle.fell \in BOOLEAN /\ Idle.cancelled \in BOOLEAN
      /\ Idle.kind \in Agents /\ Idle.back \in {"idle", "prompt", "start", "cache"}
      /\ Idle.out \in {"ok", "broken", "error", "gone"} /\ Idle.pc \in Points
  BY IdleFields DEF Points, Agents
<1>2. /\ Idle.id \in Nat /\ Idle.native \in Nat /\ Idle.using \in Nat /\ Idle.sid \in Nat
      /\ Idle.own \in Nat /\ Idle.row \in Nat
  BY IdleFields DEF None
<1>3. Typed(Idle)
  BY <1>1, <1>2 DEF Typed
<1> QED BY <1>3, IdleFields, SlotsFrom

(* What changes no execution keeps what is known of them.                  *)
LEMMA RestResume ==
  ASSUME ResumeInv, \/ Restart \/ Forget \/ WeekPasses \/ DeleteExpiredRecords \/ SwitchBase
                    \/ \E s \in Sessions : Lose(s)
  PROVE  ResumeTypeOK' /\ SessionsKnown' /\ SlotsAgree' /\ OverlapKnown' /\ OneRecord'
<1>0. /\ ResumeTypeOK /\ SessionsKnown /\ SlotsAgree /\ OverlapKnown /\ OneRecord /\ rows \in Seq(Rows)
  BY DEF ResumeInv, ResumeTypeOK
<1>1. made' = made /\ overlap' = overlap /\ faults' = faults /\ rowCount' = rowCount /\ turns' = turns
  BY DEF Restart, Forget, WeekPasses, DeleteExpiredRecords, SwitchBase, Lose, clis, history,
     store
<1>2. rows' \in Seq(Rows) /\ Len(rows') <= Len(rows) /\ \A i \in DOMAIN rows' : rows'[i].session \in Known
  <2>1. CASE WeekPasses
    <3>1. \A i \in DOMAIN rows : /\ [rows[i] EXCEPT !.expired = TRUE] \in Rows
                                 /\ [rows[i] EXCEPT !.expired = TRUE].session = rows[i].session
      <4>1. \A i \in DOMAIN rows : rows[i] \in Rows
        BY <1>0
      <4> QED BY <4>1 DEF Rows
    <3>2. rows' = [i \in DOMAIN rows |-> [rows[i] EXCEPT !.expired = TRUE]]
      BY <2>1 DEF WeekPasses
    <3>3. rows' \in Seq(Rows) /\ Len(rows') = Len(rows) /\ DOMAIN rows' = DOMAIN rows
      BY <1>0, <3>1, <3>2
    <3>4. \A i \in DOMAIN rows' : rows'[i].session = rows[i].session
      BY <3>1, <3>2, <3>3
    <3> QED BY <1>0, <3>3, <3>4 DEF SessionsKnown
  <2>2. CASE DeleteExpiredRecords
    BY <1>0, <2>2, SomeRows DEF DeleteExpiredRecords, SessionsKnown
  <2>3. CASE rows' = rows
    BY <1>0, <2>3 DEF SessionsKnown
  <2> QED BY <2>1, <2>2, <2>3 DEF Restart, Forget, SwitchBase, Lose, store
<1>3. CASE Restart
  <2>1. Idle \in Slots
    BY IdleTyped
  <2>2. \A x \in Exec : t'[x] = Idle
    BY <1>3 DEF Restart
  <2>3. t' \in [Exec -> Slots]
    BY <1>3, <2>1 DEF Restart
  <2>4. UNCHANGED <<base, told, misses, rows>> /\ cache' = None
    BY <1>3 DEF Restart, history, store
  <2>5. recent' \in Known
    <3> DEFINE owns == {t[x].own : x \in Active} \ {None}
    <3>1. recent' \in IF owns = {} THEN {recent} ELSE owns
      BY <1>3 DEF Restart
    <3>2. owns \subseteq Known /\ recent \in Known
      BY <1>0 DEF SessionsKnown, Active
    <3> QED BY <3>1, <3>2
  <2>6. ResumeTypeOK'
    BY <1>0, <1>1, <2>3, <2>4, <2>5 DEF ResumeTypeOK, Known, None
  <2>7. SessionsKnown'
    <3>1. Known' = Known /\ None \in Known /\ told \in Known
      BY <1>0, <1>1 DEF Known, None, ResumeTypeOK, SessionsKnown
    <3>2. \A x \in Exec : {t'[x].id, t'[x].native, t'[x].using, t'[x].sid, t'[x].own} = {None}
      BY <2>2, IdleFields
    <3>3. {cache', recent', told'} \subseteq Known'
      BY <2>4, <2>5, <3>1
    <3> QED BY <1>2, <3>1, <3>2, <3>3 DEF SessionsKnown
  <2>8. SlotsAgree'
    BY <2>2, IdleFields DEF SlotsAgree, SlotAgrees, Saving
  <2>9. OverlapKnown'
    BY <2>2, IdleFields DEF OverlapKnown, Active
  <2>10. OneRecord'
    BY <1>0, <1>1, <2>2, <2>4, IdleFields DEF OneRecord
  <2> QED BY <2>6, <2>7, <2>8, <2>9, <2>10
<1>4. CASE ~Restart
  <2>1. t' = t
    BY <1>4 DEF Forget, WeekPasses, DeleteExpiredRecords, SwitchBase, Lose
  <2>2. /\ base' \in Agents /\ cache' = cache /\ recent' \in {recent, None} /\ told' \in {told, None}
        /\ misses' \in {misses, 0}
    BY <1>0, <1>4, SessionResumeAssumption
       DEF Forget, WeekPasses, DeleteExpiredRecords, SwitchBase, Lose, history, ResumeTypeOK, Agents
  <2>3. ResumeTypeOK'
    BY <1>0, <1>1, <1>2, <2>1, <2>2 DEF ResumeTypeOK, None
  <2>4. SessionsKnown'
    BY <1>0, <1>1, <1>2, <2>1, <2>2 DEF SessionsKnown, ResumeTypeOK, Known, None
  <2>5. SlotsAgree'
    BY <1>0, <2>1 DEF SlotsAgree, SlotAgrees, Saving, Over
  <2>6. OverlapKnown'
    BY <1>0, <1>1, <2>1 DEF OverlapKnown, Active
  <2>7. OneRecord'
    <3>1. rows = <<>> => rows' = <<>>
      BY <1>0, <1>2
    <3>2. Len(rows) <= 1 => Len(rows') <= 1
      BY <1>0, <1>2
    <3> QED BY <1>0, <1>1, <2>1, <3>1, <3>2 DEF OneRecord
  <2> QED BY <2>3, <2>4, <2>5, <2>6, <2>7
<1> QED BY <1>3, <1>4

LEMMA NextResume == ASSUME ResumeInv, [Next]_vars PROVE ResumeInv'
<1>0. Inv' /\ ResumeTypeOK /\ SlotsAgree /\ SessionsKnown /\ OverlapKnown
  BY NextKeepsInv DEF ResumeInv
<1>1. ASSUME NEW e \in Exec, Execute(e) \/ CancelAgent(e) PROVE ResumeInv'
  <2>1. ResumeTypeOK' /\ SlotsAgree'
    BY <1>0, <1>1, ExecuteTypes, ExecuteSlots
  <2>2. SessionsKnown' /\ OverlapKnown' /\ OneRecord'
    BY <1>0, <1>1, ExecuteSessions, ExecuteOverlaps, ExecuteOneRecord
  <2> QED BY <1>0, <2>1, <2>2 DEF ResumeInv
<1>2. CASE \/ Restart \/ Forget \/ WeekPasses \/ DeleteExpiredRecords \/ SwitchBase
           \/ \E s \in Sessions : Lose(s)
  BY <1>0, <1>2, RestResume DEF ResumeInv
<1>3. CASE UNCHANGED vars
  BY <1>0, <1>3 DEF vars, ResumeInv, ResumeTypeOK, SessionsKnown, Known, SlotsAgree,
     SlotAgrees, Saving, Over, OverlapKnown, Active, OneRecord
<1> QED BY <1>1, <1>2, <1>3 DEF Next

LEMMA InitResume == Init => ResumeInv
<1> SUFFICES ASSUME Init PROVE ResumeInv
  OBVIOUS
<1>1. Idle \in Slots
  BY IdleTyped
<1>2. \A x \in Exec : t[x] = Idle
  BY DEF Init
<1>3. ResumeTypeOK
  BY <1>1, SessionResumeAssumption DEF Init, ResumeTypeOK, Agents, None
<1>4. SessionsKnown
  BY <1>2, IdleFields DEF Init, SessionsKnown, Known, None
<1>5. SlotsAgree
  BY <1>2, IdleFields DEF SlotsAgree, SlotAgrees, Saving
<1>6. OverlapKnown /\ OneRecord
  BY <1>2, IdleFields DEF Init, OverlapKnown, Active, OneRecord
<1> QED BY <1>3, <1>4, <1>5, <1>6, InitInv DEF ResumeInv

(* What a look-up reads and what the later write is based on are the pair's *)
(* only record, as long as only executions overlap that take the session    *)
(* mutex and the database does not fail; and the mutex keeps them apart.    *)
THEOREM ResumesAlwaysGuarded == Spec => []ResumesGuarded
<1>1. ResumeInv => ResumesGuarded
  BY DEF ResumeInv, Inv, Holds, OneRecord, ResumesGuarded, ResumesAlone
<1> QED BY InitResume, NextResume, <1>1, PTL DEF Spec

----------------------------------------------------------------------------
(* The record is not stale.                                                *)
\* While no executions overlap, all but the one that steps are idle.
LEMMA StepsAlone ==
  ASSUME ResumeInv, NEW e \in Exec, Execute(e) \/ CancelAgent(e), overlap' = "none"
  PROVE  /\ overlap = "none" /\ Others(e) /\ GoesOn(e) /\ SlotAgrees(e)
         /\ \A x \in Exec \ {e} : t[x].pc = "idle" /\ t'[x].pc = "idle"
         /\ Start(e) => Active = {}
<1>1. Others(e) /\ GoesOn(e) /\ SlotAgrees(e) /\ t \in [Exec -> Slots]
  BY ExecuteSlot, ExecuteGoesOn DEF ResumeInv, SlotsAgree, ResumeTypeOK
<1>2. CASE Start(e)
  <2>1. overlap = "none" /\ Active = {}
    BY <1>1, <1>2, StartStep DEF StartMove
  <2> QED BY <1>1, <2>1 DEF Active, Others
<1>3. CASE ~Start(e)
  <2>1. overlap = "none" /\ e \in Active
    BY <1>1, <1>3 DEF GoesOn, Active
  <2>2. \A x \in Exec \ {e} : x \notin Active
    BY <2>1 DEF ResumeInv, OverlapKnown
  <2> QED BY <1>1, <1>3, <2>1, <2>2 DEF Active, Others
<1> QED BY <1>2, <1>3

HeadNew == AcpRow => Head(rows).session >= told

Fresh(e) == Loads(e) /\ Spares(e) /\ FindsNone(e) /\ OwnRow(e)

LEMMA FreshAtRest ==
  /\ \A x \in Exec : t[x].pc = "idle" => Fresh(x)
  /\ \A x \in Exec : t'[x].pc = "idle" => Fresh(x)'
BY DEF Fresh, Loads, Spares, FindsNone, OwnRow, Saving, Running

LEMMA ExecuteFresh ==
  ASSUME ResumeInv, FreshInv, NEW e \in Exec, Execute(e) \/ CancelAgent(e)
  PROVE  FreshInv'
<1> SUFFICES ASSUME overlap' = "none", faults' = 0
             PROVE  HeadNew' /\ \A x \in Exec : Fresh(x)'
  BY DEF FreshInv, HeadNew, Fresh
<1>a. /\ overlap = "none" /\ Others(e) /\ GoesOn(e) /\ SlotAgrees(e) /\ t \in [Exec -> Slots]
      /\ \A x \in Exec \ {e} : t'[x].pc = "idle"
  BY StepsAlone DEF ResumeInv, ResumeTypeOK
<1>b. faults = 0 /\ faults' = faults /\ ~Fault
  BY <1>a DEF GoesOn, Fault, ResumeInv, ResumeTypeOK
<1>c. /\ HeadNew /\ Loads(e) /\ Spares(e) /\ FindsNone(e) /\ OwnRow(e)
      /\ rows \in Seq(Rows) /\ Len(rows) <= 1 /\ Typed(t[e]) /\ told \in Nat /\ made \in Nat /\ told <= made
      /\ t[e].pc = "write" /\ t[e].row = 0 => rows = <<>>
  BY <1>a, <1>b, SlotsHave DEF FreshInv, HeadNew, ResumeInv, OneRecord, ResumeTypeOK,
     SessionsKnown, Known
<1>d. /\ rows # <<>> => Head(rows) \in Rows
      /\ rows # <<>> => \A i \in DOMAIN rows : rows[i] = Head(rows)
  BY <1>c
<1>e. SUFFICES HeadNew' /\ Fresh(e)'
  BY <1>a, FreshAtRest
<1>1. CASE Start(e)
  <2>1. StartMove(e) /\ rows' = rows /\ told' = told
    BY <1>1, <1>a, StartStep, StepsAlone DEF Start, store
  <2>2. HeadNew'
    BY <1>c, <2>1 DEF HeadNew, AcpRow
  <2>3. Loads(e)'
    BY <2>1 DEF StartMove, Loads, Saving
  <2>4. Spares(e)'
    BY <2>1 DEF StartMove, Spares, Running
  <2>5. FindsNone(e)' /\ OwnRow(e)'
    BY <2>1 DEF StartMove, FindsNone, OwnRow
  <2> QED BY <2>2, <2>3, <2>4, <2>5 DEF Fresh
<1>2. CASE LookUp(e)
  <2>1. LookUpMove(e) /\ rows' = rows /\ told' = told
    BY <1>2, <1>a, LookUpStep DEF LookUp, store, history
  <2>2. HeadNew'
    BY <1>c, <2>1 DEF HeadNew, AcpRow
  <2>3. Loads(e)'
    BY <1>2, <1>a, <1>c, <2>1 DEF LookUp, At, LookUpMove, Loads, Saving, AcpRow, HeadNew,
       Kept, Fields, SlotAgrees
  <2>4. Spares(e)'
    BY <1>2, <1>a, <1>b, <2>1 DEF LookUp, At, LookUpMove, Spares, Saving, Running, AcpRow,
       Kept, Fields, SlotAgrees
  <2>5. FindsNone(e)' /\ OwnRow(e)'
    BY <1>b, <1>d, <2>1 DEF LookUpMove, FindsNone, OwnRow, Kept, Fields, Rows, None
  <2> QED BY <2>2, <2>3, <2>4, <2>5 DEF Fresh
<1>3. CASE Delete(e)
  <2>1. DeleteMove(e) /\ told' = told /\ t[e].pc = "delete" /\ rows' \in Without(t[e].row)
    BY <1>3, <1>a, <1>b, DeleteStep DEF Delete, At, history
  <2>2. rows' = <<>>
    <3>1. {i \in DOMAIN rows : rows[i].id # t[e].row} = {}
      BY <1>c, <2>1 DEF OwnRow
    <3> QED BY <1>c, <2>1, <3>1, SomeRows DEF Without
  <2>3. HeadNew'
    BY <2>2 DEF HeadNew, AcpRow
  <2>4. t'[e].pc = "acquire" /\ t'[e].native = None
    BY <1>a, <2>1 DEF DeleteMove, Kept, Fields, SlotAgrees
  <2>5. Fresh(e)'
    BY <2>2, <2>4 DEF Fresh, Loads, Spares, FindsNone, OwnRow, AcpRow, Saving
  <2> QED BY <2>3, <2>5
<1>4. CASE Acquire(e)
  <2>1. AcquireMove(e) /\ rows' = rows /\ told' = told
    BY <1>4, <1>a, AcquireStep DEF Acquire, store, history
  <2>2. HeadNew'
    BY <1>c, <2>1 DEF HeadNew, AcpRow
  <2>3. Loads(e)'
    BY <1>4, <1>c, <2>1 DEF Acquire, At, AcquireMove, Loads, Saving, Kept, Fields
  <2>4. Spares(e)'
    BY <1>4, <1>a, <1>c, <2>1 DEF Acquire, At, AcquireMove, Spares, Saving, AcpRow, Kept,
       Fields, SlotAgrees
  <2>5. FindsNone(e)' /\ OwnRow(e)'
    BY <1>4, <1>c, <2>1 DEF Acquire, At, AcquireMove, FindsNone, OwnRow, Kept, Fields
  <2> QED BY <2>2, <2>3, <2>4, <2>5 DEF Fresh
<1>5. CASE GiveUp(e)
  <2>1. AcquireMove(e) /\ rows' = rows /\ told' = told
    BY <1>5, <1>a, AcquireStep DEF GiveUp, store, history
  <2>2. HeadNew'
    BY <1>c, <2>1 DEF HeadNew, AcpRow
  <2>3. Loads(e)'
    BY <1>5, <1>a DEF GiveUp, Loads, Saving
  <2>4. Spares(e)'
    BY <1>5, <1>a DEF GiveUp, Spares, Running
  <2>5. FindsNone(e)' /\ OwnRow(e)'
    BY <1>5, <1>a DEF GiveUp, FindsNone, OwnRow
  <2> QED BY <2>2, <2>3, <2>4, <2>5 DEF Fresh
<1>6. CASE Load(e)
  <2>1. LoadMove(e) /\ rows' = rows /\ told' = told
    BY <1>6, <1>a, LoadStep DEF Load, store, history
  <2>2. HeadNew'
    BY <1>c, <2>1 DEF HeadNew, AcpRow
  <2>3. Loads(e)'
    BY <1>6, <1>c, <2>1 DEF Load, At, LoadMove, Loads, Saving, Ends
  <2>4. Spares(e)'
    BY <1>6, <2>1 DEF Load, LoadMove, Spares, Kept, Fields, Ends
  <2>5. FindsNone(e)' /\ OwnRow(e)'
    BY <2>1 DEF LoadMove, FindsNone, OwnRow, Ends
  <2> QED BY <2>2, <2>3, <2>4, <2>5 DEF Fresh
<1>7. CASE NewSession(e)
  <2>1. NewSessionMove(e) /\ rows' = rows /\ told' = told
    BY <1>7, <1>a, NewSessionStep DEF NewSession, store, history
  <2>2. HeadNew'
    BY <1>c, <2>1 DEF HeadNew, AcpRow
  <2>3. Loads(e)'
    BY <1>7, <1>a, <1>c, <2>1 DEF NewSession, At, Loads, AcpRow, SlotAgrees, FindsNone
  <2>4. Spares(e)'
    BY <1>7, <1>a DEF NewSession, Spares
  <2>5. FindsNone(e)' /\ OwnRow(e)'
    BY <1>7, <1>a DEF NewSession, FindsNone, OwnRow
  <2> QED BY <2>2, <2>3, <2>4, <2>5 DEF Fresh
<1>8. CASE PickSession(e)
  <2>1. PickSessionMove(e) /\ rows' = rows /\ told' = told
    BY <1>8, <1>a, PickSessionStep DEF PickSession, store, history
  <2>2. HeadNew'
    BY <1>c, <2>1 DEF HeadNew, AcpRow
  <2>3. Loads(e)'
    BY <1>8, <1>a DEF PickSession, Loads
  <2>4. Spares(e)'
    BY <1>8, <1>a, <1>c, <2>1 DEF PickSession, At, PickSessionMove, Spares, Running, AcpRow
  <2>5. FindsNone(e)' /\ OwnRow(e)'
    BY <1>8, <1>a DEF PickSession, FindsNone, OwnRow
  <2> QED BY <2>2, <2>3, <2>4, <2>5 DEF Fresh
<1>9. CASE StartClaude(e)
  <2>1. StartClaudeMove(e) /\ rows' = rows
    BY <1>9, <1>a, StartClaudeStep DEF StartClaude, store
  <2>0. ~AcpRow /\ t[e].kind = "claude" /\ ~t[e].cancelled
    BY <1>9, <1>a, <1>c DEF StartClaude, At, Spares, SlotAgrees, Running
  <2>2. HeadNew'
    BY <2>0, <2>1 DEF HeadNew, AcpRow
  <2>3. Loads(e)'
    BY <2>1, <2>0 DEF StartClaudeMove, Loads, Kept, Fields, Ends
  <2>4. Spares(e)'
    BY <2>1, <2>0 DEF Spares, AcpRow
  <2>5. FindsNone(e)' /\ OwnRow(e)'
    BY <2>1 DEF StartClaudeMove, FindsNone, OwnRow, Ends
  <2> QED BY <2>2, <2>3, <2>4, <2>5 DEF Fresh
<1>10. CASE Prompt(e)
  <2>1. PromptMove(e) /\ rows' = rows
    BY <1>10, <1>a, PromptStep DEF Prompt, store
  <2>0. told' \in {told, t[e].using} /\ t[e].pc = "prompt" /\ t[e].kind = "acp"
    BY <1>10, <1>a DEF Prompt, At, Prompted, SlotAgrees
  <2>2. HeadNew'
    BY <1>c, <2>0, <2>1 DEF HeadNew, AcpRow, Loads
  <2>3. Loads(e)'
    BY <1>c, <2>1, <2>0 DEF PromptMove, Loads, Saving, Kept, Fields, Typed
  <2>4. Spares(e)'
    BY <2>1, <2>0 DEF PromptMove, Spares, Kept, Fields
  <2>5. FindsNone(e)' /\ OwnRow(e)'
    BY <2>1 DEF PromptMove, FindsNone, OwnRow
  <2> QED BY <2>2, <2>3, <2>4, <2>5 DEF Fresh
<1>11. CASE Breaks(e)
  <2>1. BreaksMove(e) /\ rows' = rows /\ told' = told
    BY <1>11, <1>a, BreaksStep DEF Breaks, store, history
  <2>2. HeadNew'
    BY <1>c, <2>1 DEF HeadNew, AcpRow
  <2>3. Loads(e)'
    BY <2>1 DEF BreaksMove, Loads, Saving, Ends
  <2>4. Spares(e)'
    BY <1>11, <1>c, <2>1 DEF Breaks, BreaksMove, Spares, Saving, Running, AcpRow, Kept,
       Fields, Ends
  <2>5. FindsNone(e)' /\ OwnRow(e)'
    BY <2>1 DEF BreaksMove, FindsNone, OwnRow, Ends
  <2> QED BY <2>2, <2>3, <2>4, <2>5 DEF Fresh
<1>12. CASE EndTurn(e)
  <2>1. EndTurnMove(e) /\ rows' = rows /\ told' = told
    BY <1>12, <1>a, EndTurnStep DEF EndTurn, store, history
  <2>2. HeadNew'
    BY <1>c, <2>1 DEF HeadNew, AcpRow
  <2>3. Loads(e)'
    BY <1>12, <1>c, <2>1 DEF EndTurn, At, EndTurnMove, Loads, Saving, Kept, Fields, Ends
  <2>4. Spares(e)'
    BY <1>12, <1>c, <2>1 DEF EndTurn, At, EndTurnMove, Spares, Running, AcpRow, Kept,
       Fields, Ends
  <2>5. FindsNone(e)' /\ OwnRow(e)'
    BY <2>1 DEF EndTurnMove, FindsNone, OwnRow, Ends
  <2> QED BY <2>2, <2>3, <2>4, <2>5 DEF Fresh
<1>13. CASE FindRecord(e)
  <2>1. FindRecordMove(e) /\ rows' = rows /\ told' = told
    BY <1>13, <1>a, FindRecordStep DEF FindRecord, store, history
  <2>2. HeadNew'
    BY <1>c, <2>1 DEF HeadNew, AcpRow
  <2>3. Loads(e)'
    BY <1>13, <1>b, <1>c, <2>1 DEF FindRecord, At, FindRecordMove, Loads, Saving, Kept,
       Fields
  <2>4. Spares(e)'
    BY <1>13, <1>c, <2>1 DEF FindRecord, At, FindRecordMove, Spares, Saving, Running,
       AcpRow, Kept, Fields
  <2>5. FindsNone(e)' /\ OwnRow(e)'
    BY <1>c, <2>1 DEF FindRecordMove, FindsNone, OwnRow
  <2> QED BY <2>2, <2>3, <2>4, <2>5 DEF Fresh
<1>14. CASE WriteRecord(e)
  <2>1. WroteRows(e) /\ WriteRecordMove(e)
    BY <1>14, <1>a, WriteRows, WriteRecordStep DEF ResumeInv
  <2>2. told' = told /\ t[e].pc = "write" /\ Saving(e) /\ Running(e)
    BY <1>14 DEF WriteRecord, At, history, Saving, Running
  <2>3. /\ t'[e].pc = t[e].back /\ t[e].back \in {"prompt", "start", "cache"}
        /\ t'[e].kind = t[e].kind /\ t'[e].using = t[e].using /\ t'[e].sid = t[e].sid
        /\ t'[e].id = t[e].id /\ t'[e].native = t[e].native /\ t'[e].cancelled = t[e].cancelled
    BY <1>a, <1>c, <2>1, <2>2 DEF WriteRecordMove, Kept, Fields, SlotAgrees, Typed
  <2>4. rows' \in Seq(Rows) /\ (rows' # <<>> => Head(rows') = rows'[1] /\ 1 \in DOMAIN rows')
    BY <2>1 DEF WroteRows
  (* The record written, if there is one, is of this session, and of the kind *)
  (* of the execution or, if it was there before, of its own.                *)
  <2>5. AcpRow' => /\ Head(rows').session = t[e].sid
                   /\ t[e].kind = "acp" \/ AcpRow
    <3>1. CASE t[e].row = 0
      <4>1. rows = <<>> /\ rows' # <<>> /\ DOMAIN rows = {}
        BY <1>b, <1>c, <2>1, <2>2, <3>1 DEF WroteRows
      <4>2. rows'[1] = Row(e)
        BY <1>b, <2>1, <2>4, <3>1, <4>1 DEF WroteRows
      <4> QED BY <2>4, <4>1, <4>2 DEF AcpRow, Row
    <3>2. CASE t[e].row # 0 /\ rows' = rows /\ \A i \in DOMAIN rows : rows[i].id # t[e].row
      <4>1. rows' = <<>>
        BY <1>c, <2>2, <2>4, <3>2 DEF OwnRow
      <4> QED BY <4>1 DEF AcpRow
    <3>3. ASSUME t[e].row # 0, rows' # <<>>, rows # <<>>, NEW h \in DOMAIN rows, rows[h].id = t[e].row,
                 \A i \in DOMAIN rows' : \/ rows'[i] = Updated(rows[h], e)
                                         \/ \E j \in DOMAIN rows : rows'[i] = rows[j] /\ rows[j].id # t[e].row
          PROVE  AcpRow' => Head(rows').session = t[e].sid /\ AcpRow
      <4>1. rows'[1] = Updated(rows[h], e)
        BY <1>c, <2>2, <2>4, <3>3 DEF OwnRow
      <4>2. rows[h] = Head(rows) /\ Head(rows) \in Rows
        BY <1>d, <3>3
      <4>3. Updated(rows[h], e).session = t[e].sid /\ Updated(rows[h], e).kind = rows[h].kind
        BY <4>2 DEF Updated, Rows
      <4> QED BY <2>4, <3>3, <4>1, <4>2, <4>3 DEF AcpRow
    <3> QED BY <1>b, <2>1, <3>1, <3>2, <3>3 DEF WroteRows
  <2>6. AcpRow' => t[e].sid >= told
    BY <1>c, <2>2, <2>5 DEF Loads, Spares, Typed, Agents
  <2>7. HeadNew'
    BY <2>2, <2>5, <2>6 DEF HeadNew
  <2>8. Loads(e)'
    <3>1. t[e].back = "prompt" => t[e].using = t[e].sid
      BY <1>a, <2>2 DEF SlotAgrees
    <3> QED BY <1>c, <2>2, <2>3, <2>5, <3>1 DEF Loads, Typed
  <2>9. Spares(e)'
    BY <1>c, <2>2, <2>3, <2>5 DEF Spares, Saving
  <2>10. FindsNone(e)' /\ OwnRow(e)'
    BY <2>3 DEF FindsNone, OwnRow
  <2> QED BY <2>7, <2>8, <2>9, <2>10 DEF Fresh
<1>15. CASE Cache(e)
  <2>1. CacheMove(e) /\ rows' = rows /\ told' = told
    BY <1>15, <1>a, CacheStep DEF Cache, store, history
  <2>2. HeadNew'
    BY <1>c, <2>1 DEF HeadNew, AcpRow
  <2>3. Loads(e)'
    BY <1>15, <1>a DEF Cache, Loads, Saving
  <2>4. Spares(e)'
    BY <1>15, <1>a, <1>c, <2>1 DEF Cache, At, Spares, Saving, Running, AcpRow
  <2>5. FindsNone(e)' /\ OwnRow(e)'
    BY <1>15, <1>a DEF Cache, FindsNone, OwnRow, FallsBack
  <2> QED BY <2>2, <2>3, <2>4, <2>5 DEF Fresh
<1>16. CASE Finish(e)
  <2>1. FinishMove(e) /\ rows' = rows /\ told' = told
    BY <1>16, <1>a, FinishStep DEF Finish, store
  <2>2. HeadNew'
    BY <1>c, <2>1 DEF HeadNew, AcpRow
  <2>3. Loads(e)'
    BY <2>1 DEF FinishMove, Loads, Saving
  <2>4. Spares(e)'
    BY <2>1 DEF FinishMove, Spares
  <2>5. FindsNone(e)' /\ OwnRow(e)'
    BY <2>1 DEF FinishMove, FindsNone, OwnRow
  <2> QED BY <2>2, <2>3, <2>4, <2>5 DEF Fresh
<1>17. CASE Release(e)
  <2>1. FinishMove(e) /\ rows' = rows /\ told' = told
    BY <1>17, <1>a, FinishStep DEF Release, store, history
  <2>2. HeadNew'
    BY <1>c, <2>1 DEF HeadNew, AcpRow
  <2>3. Loads(e)'
    BY <2>1 DEF FinishMove, Loads, Saving
  <2>4. Spares(e)'
    BY <2>1 DEF FinishMove, Spares
  <2>5. FindsNone(e)' /\ OwnRow(e)'
    BY <2>1 DEF FinishMove, FindsNone, OwnRow
  <2> QED BY <2>2, <2>3, <2>4, <2>5 DEF Fresh
<1>18. CASE CancelAgent(e)
  <2>1. CancelMove(e) /\ rows' = rows /\ told' = told
    BY <1>18, <1>a, CancelStep DEF CancelAgent, store, history
  <2>2. HeadNew'
    BY <1>c, <2>1 DEF HeadNew, AcpRow
  <2>3. Loads(e)'
    BY <1>18, <1>a, <1>c, <2>1 DEF CancelAgent, Loads, Saving, AcpRow
  <2>4. Spares(e)'
    BY <1>18, <1>a, <1>c, <2>1 DEF CancelAgent, Spares, Running, AcpRow
  <2>5. FindsNone(e)' /\ OwnRow(e)'
    BY <1>18, <1>a, <1>c, <2>1 DEF CancelAgent, FindsNone, OwnRow
  <2> QED BY <2>2, <2>3, <2>4, <2>5 DEF Fresh
<1> QED BY <1>1, <1>2, <1>3, <1>4, <1>5, <1>6, <1>7, <1>8, <1>9, <1>10, <1>11, <1>12, <1>13,
           <1>14, <1>15, <1>16, <1>17, <1>18 DEF Execute

LEMMA RestFresh ==
  ASSUME ResumeInv, FreshInv, \/ Restart \/ Forget \/ WeekPasses \/ DeleteExpiredRecords \/ SwitchBase
                              \/ \E s \in Sessions : Lose(s)
  PROVE  FreshInv'
<1> SUFFICES ASSUME overlap' = "none", faults' = 0
             PROVE  HeadNew' /\ \A x \in Exec : Fresh(x)'
  BY DEF FreshInv, HeadNew, Fresh
<1>0. overlap = "none" /\ faults = 0 /\ HeadNew /\ \A x \in Exec : Fresh(x)
  BY DEF Restart, Forget, WeekPasses, DeleteExpiredRecords, SwitchBase, Lose, history,
     FreshInv, HeadNew, Fresh
<1>1. rows \in Seq(Rows) /\ Len(rows) <= 1 /\ told \in Nat
  BY <1>0 DEF ResumeInv, OneRecord, ResumeTypeOK
<1>2. CASE Restart
  <2>1. \A x \in Exec : t'[x].pc = "idle"
    BY <1>2, IdleFields DEF Restart
  <2>2. HeadNew'
    BY <1>0, <1>2 DEF Restart, history, store, HeadNew, AcpRow
  <2> QED BY <2>1, <2>2, FreshAtRest
<1>3. CASE WeekPasses
  <2>1. \A x \in Exec : t'[x].pc = "idle"
    BY <1>3 DEF WeekPasses, Active
  <2>2. told' = told /\ rows' = [i \in DOMAIN rows |-> [rows[i] EXCEPT !.expired = TRUE]] /\ rows # <<>>
    BY <1>3 DEF WeekPasses
  <2>3. 1 \in DOMAIN rows /\ rows[1] \in Rows /\ Head(rows) = rows[1]
    BY <1>1, <2>2
  <2>4. rows'[1] = [rows[1] EXCEPT !.expired = TRUE] /\ Head(rows') = rows'[1]
    BY <1>1, <2>2, <2>3
  <2>5. Head(rows').kind = Head(rows).kind /\ Head(rows').session = Head(rows).session
    BY <2>3, <2>4 DEF Rows
  <2>6. HeadNew'
    BY <1>0, <2>2, <2>5 DEF HeadNew, AcpRow
  <2> QED BY <2>1, <2>6, FreshAtRest
<1>4. CASE DeleteExpiredRecords
  <2>1. t' = t
    BY <1>4 DEF DeleteExpiredRecords
  <2>2. rows' = <<>>
    <3>1. PICK i \in DOMAIN rows : rows[i].expired
      BY <1>4 DEF DeleteExpiredRecords
    <3>2. \A j \in DOMAIN rows : j = i
      BY <1>1, <3>1
    <3>3. {j \in DOMAIN rows : ~rows[j].expired} = {}
      BY <3>1, <3>2
    <3> QED BY <1>1, <1>4, <3>3, SomeRows DEF DeleteExpiredRecords
  <2>3. told' = told
    BY <1>4 DEF DeleteExpiredRecords, history
  <2>4. HeadNew' /\ ~AcpRow'
    BY <2>2 DEF HeadNew, AcpRow
  <2>5. ASSUME NEW x \in Exec PROVE Fresh(x)'
    <3>1. Loads(x)'
      BY <1>0, <2>1, <2>3, <2>4 DEF Fresh, Loads, Saving
    <3>2. Spares(x)'
      BY <2>4 DEF Spares
    <3>3. FindsNone(x)' /\ OwnRow(x)'
      BY <2>2 DEF FindsNone, OwnRow
    <3> QED BY <3>1, <3>2, <3>3 DEF Fresh
  <2> QED BY <2>4, <2>5
<1>5. CASE Forget \/ \E s \in Sessions : Lose(s)
  <2>1. UNCHANGED <<t, rows, told>>
    BY <1>5 DEF Forget, Lose, history, store
  <2> QED BY <1>0, <2>1 DEF HeadNew, Fresh, Loads, Spares, FindsNone, OwnRow, AcpRow,
             Saving, Running
<1>6. CASE SwitchBase
  <2>1. t' = t /\ rows' = rows /\ told' = 0
    BY <1>6 DEF SwitchBase, store, None
  <2>2. HeadNew'
    <3>1. AcpRow => Head(rows) \in Rows
      BY <1>1 DEF AcpRow
    <3> QED BY <2>1, <3>1 DEF HeadNew, AcpRow, Rows
  <2>3. ASSUME NEW x \in Exec PROVE Fresh(x)'
    <3>1. Typed(t[x])
      BY SlotsHave DEF ResumeInv, ResumeTypeOK
    <3>2. Loads(x)'
      BY <1>0, <2>1, <3>1 DEF Fresh, Loads, AcpRow, Typed
    <3>3. Spares(x)'
      BY <1>0, <2>1, <3>1 DEF Fresh, Spares, Saving, Running, AcpRow, Typed
    <3>4. FindsNone(x)' /\ OwnRow(x)'
      BY <1>0, <2>1 DEF Fresh, FindsNone, OwnRow
    <3> QED BY <3>2, <3>3, <3>4 DEF Fresh
  <2> QED BY <2>2, <2>3
<1> QED BY <1>2, <1>3, <1>4, <1>5, <1>6

LEMMA NextFresh == ASSUME ResumeInv, FreshInv, [Next]_vars PROVE FreshInv'
<1>1. CASE UNCHANGED vars
  BY <1>1 DEF vars, FreshInv, Loads, Spares, FindsNone, OwnRow, AcpRow, Saving, Running
<1> QED BY <1>1, ExecuteFresh, RestFresh DEF Next

(* While executions do not overlap and the database does not fail, the      *)
(* record an ACP agent loads from is of the session that got its last       *)
(* prompt or a later one, however executions are cancelled, restarted,      *)
(* fall back or expire.                                                     *)
THEOREM RecordNeverStale == Spec => []RecordNotStale
<1>1. Init => FreshInv
  <2> SUFFICES ASSUME Init PROVE HeadNew /\ \A x \in Exec : Fresh(x)
    BY DEF FreshInv, HeadNew, Fresh
  <2>1. HeadNew
    BY DEF Init, HeadNew, AcpRow
  <2>2. \A x \in Exec : t[x].pc = "idle"
    BY IdleFields DEF Init
  <2> QED BY <2>1, <2>2, FreshAtRest
<1>2. FreshInv => RecordNotStale
  BY DEF FreshInv, RecordNotStale, AcpRow
<1>3. ResumeInv /\ FreshInv /\ [Next]_vars => ResumeInv' /\ FreshInv'
  BY NextResume, NextFresh
<1> QED BY InitResume, <1>1, <1>2, <1>3, PTL DEF Spec

----------------------------------------------------------------------------
(* A lost session costs one turn.                                          *)
LEMMA PaidAtRest ==
  /\ \A x \in Exec : t[x].pc = "idle" => Paid(x)
  /\ \A x \in Exec : t'[x].pc = "idle" => Paid(x)'
BY DEF Paid, PaidBefore, PaidByDelete, PaidMiss, PaidByFind, MayMiss, Missed, Saving, Over

(* Fewer records cost no more.                                             *)
LEMMA FewerRows ==
  ASSUME NEW r \in Seq(Rows), NEW s \in Seq(Rows), NEW kind, NEW row,
         \A i \in DOMAIN s : \E j \in DOMAIN r : s[i] = r[j]
  PROVE  /\ Cardinality(Ids(s)) <= Cardinality(Ids(r))
         /\ Cardinality(Unfit(s, kind)) <= Cardinality(Unfit(r, kind))
         /\ (\A i \in DOMAIN s : s[i].id # row) =>
              Cardinality(Unfit(s, kind)) <= Cardinality(Unfit(r, kind) \ {row})
<1>1. Ids(s) \subseteq Ids(r)
  BY DEF Ids
<1>2. Unfit(s, kind) \subseteq Unfit(r, kind)
  BY DEF Unfit
<1>3. (\A i \in DOMAIN s : s[i].id # row) => Unfit(s, kind) \subseteq Unfit(r, kind) \ {row}
  BY <1>2 DEF Unfit
<1>4. IsFiniteSet(Ids(r)) /\ IsFiniteSet(Unfit(r, kind)) /\ IsFiniteSet(Unfit(r, kind) \ {row})
  BY IdsFinite, FS_RemoveElement
<1> QED BY <1>1, <1>2, <1>3, <1>4, FS_Subset

\* One record counts for one.
LEMMA LessOne ==
  ASSUME NEW s \in Seq(Rows), NEW kind, NEW row
  PROVE  /\ Cardinality(Unfit(s, kind) \ {row}) \in Nat
         /\ Cardinality(Unfit(s, kind)) <= Cardinality(Unfit(s, kind) \ {row}) + 1
         /\ row \in Unfit(s, kind) => Cardinality(Unfit(s, kind) \ {row}) = Cardinality(Unfit(s, kind)) - 1
         /\ row \in Ids(s) => Cardinality(Unfit(s, kind) \ {row}) <= Cardinality(Ids(s)) - 1
<1>1. /\ IsFiniteSet(Ids(s)) /\ IsFiniteSet(Unfit(s, kind)) /\ Unfit(s, kind) \subseteq Ids(s)
      /\ Cardinality(Unfit(s, kind)) \in Nat /\ Cardinality(Ids(s)) \in Nat
  BY IdsFinite
<1>2. /\ IsFiniteSet(Unfit(s, kind) \ {row})
      /\ Cardinality(Unfit(s, kind) \ {row}) =
           IF row \in Unfit(s, kind) THEN Cardinality(Unfit(s, kind)) - 1 ELSE Cardinality(Unfit(s, kind))
  BY <1>1, FS_RemoveElement
<1>3. /\ IsFiniteSet(Ids(s) \ {row})
      /\ row \in Ids(s) => Cardinality(Ids(s) \ {row}) = Cardinality(Ids(s)) - 1
  BY <1>1, FS_RemoveElement
<1>4. Cardinality(Unfit(s, kind) \ {row}) <= Cardinality(Ids(s) \ {row})
  <2>1. Unfit(s, kind) \ {row} \subseteq Ids(s) \ {row}
    BY <1>1
  <2> QED BY <1>3, <2>1, FS_Subset
<1>5. Cardinality(Unfit(s, kind) \ {row}) \in Nat
  BY <1>2, FS_CardinalityType
<1> QED BY <1>1, <1>2, <1>3, <1>4, <1>5

LEMMA ExecuteMisses ==
  ASSUME ResumeInv, MissInv, NEW e \in Exec, Execute(e) \/ CancelAgent(e)
  PROVE  MissInv'
<1> SUFFICES ASSUME overlap' = "none"
             PROVE  Balanced' /\ \A x \in Exec : Paid(x)'
  BY DEF MissInv
<1>a. /\ overlap = "none" /\ Others(e) /\ GoesOn(e) /\ SlotAgrees(e) /\ t \in [Exec -> Slots]
      /\ \A x \in Exec \ {e} : t'[x].pc = "idle"
  BY StepsAlone DEF ResumeInv, ResumeTypeOK
<1>b. /\ Balanced /\ PaidBefore(e) /\ PaidByDelete(e) /\ PaidMiss(e) /\ PaidByFind(e)
      /\ rows \in Seq(Rows) /\ Typed(t[e]) /\ faults \in Nat /\ misses \in Nat
      /\ base' = base /\ (faults' = faults \/ faults' = faults + 1)
  BY <1>a, SlotsHave DEF MissInv, Paid, ResumeInv, ResumeTypeOK, GoesOn, Fault
<1> DEFINE N == Cardinality(Ids(rows))
           U(k) == Cardinality(Unfit(rows, k))
<1>c. /\ N \in Nat /\ U(base) \in Nat /\ U(t[e].kind) \in Nat
      /\ U(base) <= N /\ U(t[e].kind) <= N
  BY <1>b, IdsFinite
<1>d. /\ N <= 1 + faults /\ misses + U(base) <= 1 + faults
      /\ rows = <<>> => misses <= faults
  BY <1>b DEF Balanced
<1>e. rows = <<>> => U(t[e].kind) = 0 /\ U(base) = 0
  <2>1. rows = <<>> => Unfit(rows, t[e].kind) = {} /\ Unfit(rows, base) = {}
    BY DEF Unfit
  <2> QED BY <2>1, FS_EmptySet
<1>f. SUFFICES Balanced' /\ PaidBefore(e)' /\ PaidByDelete(e)' /\ PaidMiss(e)' /\ PaidByFind(e)'
  BY <1>a, PaidAtRest DEF Paid
<1>g. ASSUME rows' = rows, misses' \in Nat, misses' <= misses PROVE Balanced'
  BY <1>b, <1>c, <1>d, <1>g DEF Balanced
<1>h. ASSUME rows' = rows, faults' = faults, misses' \in {misses, 0}, t'[e].kind = t[e].kind,
             MayMiss(e)' \/ Missed(e)' =>
               /\ MayMiss(e) \/ Missed(e)
               /\ rows = <<>> => \/ t[e].pc \notin {"acquire", "open", "find", "write"}
                                 \/ t'[e].pc \in {"acquire", "open", "find"}
      PROVE  PaidMiss(e)'
  <2>1. MayMiss(e)' \/ Missed(e)' =>
          /\ misses + U(t[e].kind) <= faults
          /\ rows = <<>> => misses + 1 <= faults \/ t'[e].pc \in {"acquire", "open", "find"}
    BY <1>b, <1>h DEF PaidMiss
  <2>2. \A n \in Nat : misses + n <= faults => misses' + n <= faults
    <3>1. CASE misses' = misses
      BY <3>1
    <3>2. CASE misses' = 0
      <4>1. misses \in Nat /\ faults \in Nat
        BY <1>b
      <4> QED BY <3>2, <4>1
    <3> QED BY <1>h, <3>1, <3>2
  <2>3. misses + 1 <= faults => misses' + 1 <= faults
    BY <2>2
  <2>4. misses + U(t[e].kind) <= faults => misses' + U(t[e].kind) <= faults
    BY <1>c, <2>2
  <2> QED BY <1>h, <2>1, <2>3, <2>4 DEF PaidMiss
<1>1. CASE Start(e)
  <2>1. StartMove(e) /\ rows' = rows /\ faults' = faults /\ misses' = misses
    BY <1>1, <1>a, StartStep, StepsAlone DEF Start, store
  <2>2. Balanced'
    BY <1>b, <1>g, <2>1
  <2>3. PaidBefore(e)' /\ PaidByDelete(e)' /\ PaidMiss(e)' /\ PaidByFind(e)'
    BY <1>b, <2>1 DEF StartMove, Blank, PaidBefore, PaidByDelete, PaidMiss, PaidByFind,
       MayMiss, Missed
  <2> QED BY <2>2, <2>3
<1>2. CASE LookUp(e)
  <2>1. LookUpMove(e) /\ rows' = rows /\ misses' = misses /\ t[e].pc = "lookup"
    BY <1>2, <1>a, LookUpStep DEF LookUp, At, store, history
  <2>2. /\ t'[e].kind = t[e].kind /\ t'[e].out = t[e].out /\ t'[e].cancelled = t[e].cancelled
        /\ t'[e].pc \in {"acquire", "delete"}
    BY <2>1 DEF LookUpMove, Kept, Fields
  <2>3. Balanced'
    BY <1>b, <1>g, <2>1
  <2>4. PaidBefore(e)'
    BY <1>b, <2>1, <2>2 DEF PaidBefore
  <2>5. PaidByDelete(e)'
    <3>0. t'[e].pc = "delete" => faults' = faults
      BY <2>1 DEF LookUpMove
    <3>1. SUFFICES ASSUME t'[e].pc = "delete"
                   PROVE  misses + Cardinality(Unfit(rows, t[e].kind) \ {t'[e].row}) <= faults
      BY <2>1, <2>2, <3>0 DEF PaidByDelete
    <3>2. /\ t'[e].row = Head(rows).id /\ rows # <<>>
          /\ Head(rows).kind # t[e].kind \/ Head(rows).expired
      BY <2>1, <3>1 DEF LookUpMove
    <3>3. t'[e].row \in Unfit(rows, t[e].kind) /\ t'[e].row \in Ids(rows)
      <4>1. 1 \in DOMAIN rows /\ Head(rows) = rows[1]
        BY <1>b, <3>2
      <4> QED BY <3>2, <4>1 DEF Unfit, Ids
    <3>4. /\ Cardinality(Unfit(rows, t[e].kind) \ {t'[e].row}) = U(t[e].kind) - 1
          /\ Cardinality(Unfit(rows, t[e].kind) \ {t'[e].row}) <= N - 1
      BY <1>b, <3>3, LessOne
    <3>5. CASE t[e].kind = base
      BY <1>b, <1>c, <1>d, <3>4, <3>5
    <3>6. CASE t[e].kind # base
      BY <1>b, <1>c, <1>d, <2>1, <3>4 DEF PaidBefore
    <3> QED BY <3>5, <3>6
  <2>6. PaidMiss(e)'
    <3>1. SUFFICES ASSUME MayMiss(e)' \/ Missed(e)' PROVE misses + U(t[e].kind) <= faults' /\ t'[e].pc = "acquire"
      BY <2>1, <2>2 DEF PaidMiss
    <3>2. t'[e].pc = "acquire" /\ t'[e].native = None /\ ~t[e].cancelled
      BY <2>2, <3>1 DEF MayMiss, Missed, Saving, Over
    <3>3. rows = <<>> \/ Fault
      <4>1. rows # <<>> => Head(rows).session # None
        <5>1. rows # <<>> => Head(rows) \in Rows
          BY <1>b
        <5> QED BY <5>1 DEF Rows, None
      <4> QED BY <2>1, <3>2, <4>1 DEF LookUpMove
    <3>4. CASE rows = <<>>
      BY <1>b, <1>c, <1>d, <1>e, <3>2, <3>4
    <3>5. CASE Fault /\ t[e].kind = base
      BY <1>b, <1>c, <1>d, <3>2, <3>5 DEF Fault
    <3>6. CASE Fault /\ t[e].kind # base
      BY <1>b, <1>c, <1>d, <2>1, <3>2, <3>6 DEF Fault, PaidBefore
    <3> QED BY <3>2, <3>3, <3>4, <3>5, <3>6
  <2>7. PaidByFind(e)'
    BY <2>2 DEF PaidByFind
  <2> QED BY <2>3, <2>4, <2>5, <2>6, <2>7
<1>3. CASE Delete(e)
  <2>1. DeleteMove(e) /\ misses' = misses /\ t[e].pc = "delete"
    BY <1>3, <1>a, DeleteStep DEF Delete, At, history
  <2>2. /\ t'[e].kind = t[e].kind /\ t'[e].out = t[e].out /\ t'[e].cancelled = t[e].cancelled
        /\ t'[e].pc = "acquire"
    BY <2>1 DEF DeleteMove, Kept, Fields
  <2>3. misses + Cardinality(Unfit(rows, t[e].kind) \ {t[e].row}) <= faults
    BY <1>b, <2>1 DEF PaidByDelete
  <2>4. /\ Cardinality(Unfit(rows, t[e].kind) \ {t[e].row}) \in Nat
        /\ U(t[e].kind) <= Cardinality(Unfit(rows, t[e].kind) \ {t[e].row}) + 1
    BY <1>b, LessOne
  <2>5. misses <= faults
    BY <1>b, <2>3, <2>4
  <2>6. PaidBefore(e)' /\ PaidByDelete(e)' /\ PaidByFind(e)'
    BY <1>b, <2>1, <2>2 DEF PaidBefore, PaidByDelete, PaidByFind
  <2>7. CASE Fault /\ rows' = rows
    <3>1. misses + U(t[e].kind) <= faults'
      BY <1>b, <1>c, <2>3, <2>4, <2>7 DEF Fault
    <3>2. PaidMiss(e)'
      BY <2>1, <2>2, <2>7, <3>1 DEF PaidMiss
    <3> QED BY <1>b, <1>g, <2>1, <2>6, <2>7, <3>2
  <2>8. CASE rows' \in Without(t[e].row) /\ faults' = faults
    <3> DEFINE keep == {i \in DOMAIN rows : rows[i].id # t[e].row}
    <3>1. rows' \in Seq(Rows) /\ \A i \in DOMAIN rows' : \E j \in keep : rows'[i] = rows[j]
      <4>1. rows' \in Only(keep) /\ keep \subseteq DOMAIN rows
        BY <2>8 DEF Without
      <4> HIDE DEF keep
      <4> QED BY <1>b, <4>1, SomeRows
    <3>2. /\ \A i \in DOMAIN rows' : \E j \in DOMAIN rows : rows'[i] = rows[j]
          /\ \A i \in DOMAIN rows' : rows'[i].id # t[e].row
      BY <3>1
    <3>3. /\ Cardinality(Ids(rows')) <= N /\ Cardinality(Unfit(rows', base)) <= U(base)
          /\ Cardinality(Unfit(rows', t[e].kind)) <= Cardinality(Unfit(rows, t[e].kind) \ {t[e].row})
      BY <1>b, <3>1, <3>2, FewerRows
    <3>4. /\ Cardinality(Ids(rows')) \in Nat /\ Cardinality(Unfit(rows', base)) \in Nat
          /\ Cardinality(Unfit(rows', t[e].kind)) \in Nat
      BY <3>1, IdsFinite
    <3>5. Balanced'
      BY <1>b, <1>c, <2>1, <2>5, <3>3, <3>4 DEF Balanced
    <3>6. misses + Cardinality(Unfit(rows', t[e].kind)) <= faults
      BY <1>b, <2>3, <2>4, <3>3, <3>4
    <3>7. PaidMiss(e)'
      BY <2>1, <2>2, <2>8, <3>6 DEF PaidMiss
    <3> QED BY <2>6, <3>5, <3>7
  <2> QED BY <1>3, <2>7, <2>8 DEF Delete, Fault
<1>4. CASE Acquire(e)
  <2>1. AcquireMove(e) /\ rows' = rows /\ faults' = faults /\ misses' = misses
    BY <1>4, <1>a, AcquireStep DEF Acquire, store, history
  <2>2. Balanced'
    BY <1>b, <1>g, <2>1
  <2>3. t'[e].kind = t[e].kind /\ t[e].pc \notin {"idle", "release"}
    BY <1>4, <2>1 DEF Acquire, At, AcquireMove, Kept, Fields
  <2>4. PaidBefore(e)'
    BY <1>b, <2>1, <2>3 DEF PaidBefore
  <2>5. PaidByDelete(e)' /\ PaidByFind(e)'
    BY <2>1 DEF AcquireMove, PaidByDelete, PaidByFind
  <2>6. PaidMiss(e)'
    <3>1. SUFFICES ASSUME MayMiss(e)' \/ Missed(e)'
                   PROVE  /\ MayMiss(e) \/ Missed(e)
                          /\ rows = <<>> => \/ t[e].pc \notin {"acquire", "open", "find", "write"}
                                            \/ t'[e].pc \in {"acquire", "open", "find"}
      BY <1>b, <1>h, <2>1, <2>3
    <3> QED BY <1>4, <2>1, <3>1 DEF Acquire, At, AcquireMove, MayMiss, Missed, Saving, Over,
               Kept, Fields
  <2> QED BY <2>2, <2>4, <2>5, <2>6
<1>5. CASE GiveUp(e)
  <2>1. AcquireMove(e) /\ rows' = rows /\ faults' = faults /\ misses' = misses
    BY <1>5, <1>a, AcquireStep DEF GiveUp, store, history
  <2>2. Balanced'
    BY <1>b, <1>g, <2>1
  <2>3. t'[e].kind = t[e].kind /\ t[e].pc \notin {"idle", "release"}
    BY <1>5, <2>1 DEF GiveUp, At, AcquireMove, Kept, Fields
  <2>4. PaidBefore(e)'
    BY <1>b, <2>1, <2>3 DEF PaidBefore
  <2>5. PaidByDelete(e)' /\ PaidByFind(e)'
    BY <2>1 DEF AcquireMove, PaidByDelete, PaidByFind
  <2>6. PaidMiss(e)'
    <3>1. SUFFICES ASSUME MayMiss(e)' \/ Missed(e)'
                   PROVE  /\ MayMiss(e) \/ Missed(e)
                          /\ rows = <<>> => \/ t[e].pc \notin {"acquire", "open", "find", "write"}
                                            \/ t'[e].pc \in {"acquire", "open", "find"}
      BY <1>b, <1>h, <2>1, <2>3
    <3> QED BY <1>5, <1>a, <3>1 DEF GiveUp, MayMiss, Missed
  <2> QED BY <2>2, <2>4, <2>5, <2>6
<1>6. CASE Load(e)
  <2>1. LoadMove(e) /\ rows' = rows /\ faults' = faults /\ misses' = misses
    BY <1>6, <1>a, LoadStep DEF Load, store, history
  <2>2. Balanced'
    BY <1>b, <1>g, <2>1
  <2>3. t'[e].kind = t[e].kind /\ t[e].pc \notin {"idle", "release"}
    BY <1>6, <2>1 DEF Load, At, LoadMove, Ends, Kept, Fields
  <2>4. PaidBefore(e)'
    BY <1>b, <2>1, <2>3 DEF PaidBefore
  <2>5. PaidByDelete(e)' /\ PaidByFind(e)'
    BY <2>1 DEF LoadMove, Ends, PaidByDelete, PaidByFind
  <2>6. PaidMiss(e)'
    <3>1. SUFFICES ASSUME MayMiss(e)' \/ Missed(e)'
                   PROVE  /\ MayMiss(e) \/ Missed(e)
                          /\ rows = <<>> => \/ t[e].pc \notin {"acquire", "open", "find", "write"}
                                            \/ t'[e].pc \in {"acquire", "open", "find"}
      BY <1>b, <1>h, <2>1, <2>3
    <3> QED BY <1>6, <2>1, <3>1 DEF Load, LoadMove, Ends, MayMiss, Missed, Kept, Fields
  <2> QED BY <2>2, <2>4, <2>5, <2>6
<1>7. CASE NewSession(e)
  <2>1. NewSessionMove(e) /\ rows' = rows /\ faults' = faults /\ misses' = misses
    BY <1>7, <1>a, NewSessionStep DEF NewSession, store, history
  <2>2. Balanced'
    BY <1>b, <1>g, <2>1
  <2>3. t'[e].kind = t[e].kind /\ t[e].pc \notin {"idle", "release"}
    BY <1>7, <2>1 DEF NewSession, At, NewSessionMove, Kept, Fields
  <2>4. PaidBefore(e)'
    BY <1>b, <2>1, <2>3 DEF PaidBefore
  <2>5. PaidByDelete(e)' /\ PaidByFind(e)'
    BY <2>1 DEF NewSessionMove, PaidByDelete, PaidByFind
  <2>6. PaidMiss(e)'
    <3>1. SUFFICES ASSUME MayMiss(e)' \/ Missed(e)'
                   PROVE  /\ MayMiss(e) \/ Missed(e)
                          /\ rows = <<>> => \/ t[e].pc \notin {"acquire", "open", "find", "write"}
                                            \/ t'[e].pc \in {"acquire", "open", "find"}
      BY <1>b, <1>h, <2>1, <2>3
    <3> QED BY <2>1, <3>1 DEF NewSessionMove, MayMiss, Missed, Over
  <2> QED BY <2>2, <2>4, <2>5, <2>6
<1>8. CASE PickSession(e)
  <2>1. PickSessionMove(e) /\ rows' = rows /\ faults' = faults /\ misses' = misses
    BY <1>8, <1>a, PickSessionStep DEF PickSession, store, history
  <2>2. Balanced'
    BY <1>b, <1>g, <2>1
  <2>3. t'[e].kind = t[e].kind /\ t[e].pc \notin {"idle", "release"}
    BY <1>8, <2>1 DEF PickSession, At, PickSessionMove, Kept, Fields
  <2>4. PaidBefore(e)'
    BY <1>b, <2>1, <2>3 DEF PaidBefore
  <2>5. PaidByDelete(e)' /\ PaidByFind(e)'
    BY <2>1 DEF PickSessionMove, PaidByDelete, PaidByFind
  <2>6. PaidMiss(e)'
    <3>1. SUFFICES ASSUME MayMiss(e)' \/ Missed(e)'
                   PROVE  /\ MayMiss(e) \/ Missed(e)
                          /\ rows = <<>> => \/ t[e].pc \notin {"acquire", "open", "find", "write"}
                                            \/ t'[e].pc \in {"acquire", "open", "find"}
      BY <1>b, <1>h, <2>1, <2>3
    <3> QED BY <1>8, <1>a, <2>1, <3>1 DEF PickSession, At, PickSessionMove, MayMiss, Missed,
               Over
  <2> QED BY <2>2, <2>4, <2>5, <2>6
<1>9. CASE StartClaude(e)
  <2>1. StartClaudeMove(e) /\ rows' = rows /\ faults' = faults /\ misses' \in {misses, 0}
    BY <1>9, <1>a, StartClaudeStep DEF StartClaude, store, Prompted
  <2>2. Balanced'
    BY <1>b, <1>g, <2>1
  <2>3. t'[e].kind = t[e].kind /\ t[e].pc \notin {"idle", "release"}
    BY <1>9, <2>1 DEF StartClaude, At, StartClaudeMove, Ends, Kept, Fields
  <2>4. PaidBefore(e)'
    BY <1>b, <2>1, <2>3 DEF PaidBefore
  <2>5. PaidByDelete(e)' /\ PaidByFind(e)'
    BY <2>1 DEF StartClaudeMove, Ends, PaidByDelete, PaidByFind
  <2>6. PaidMiss(e)'
    <3>1. SUFFICES ASSUME MayMiss(e)' \/ Missed(e)'
                   PROVE  /\ MayMiss(e) \/ Missed(e)
                          /\ rows = <<>> => \/ t[e].pc \notin {"acquire", "open", "find", "write"}
                                            \/ t'[e].pc \in {"acquire", "open", "find"}
      BY <1>b, <1>h, <2>1, <2>3
    <3> QED BY <1>9, <1>a, <2>1, <3>1 DEF StartClaude, At, StartClaudeMove, Ends, MayMiss,
               Missed, Kept, Fields, SlotAgrees
  <2> QED BY <2>2, <2>4, <2>5, <2>6
<1>10. CASE Prompt(e)
  <2>1. PromptMove(e) /\ rows' = rows /\ faults' = faults /\ misses' \in {misses, 0}
    BY <1>10, <1>a, PromptStep DEF Prompt, store, Prompted
  <2>2. Balanced'
    BY <1>b, <1>g, <2>1
  <2>3. t'[e].kind = t[e].kind /\ t[e].pc \notin {"idle", "release"}
    BY <1>10, <2>1 DEF Prompt, At, PromptMove, Kept, Fields
  <2>4. PaidBefore(e)'
    BY <1>b, <2>1, <2>3 DEF PaidBefore
  <2>5. PaidByDelete(e)' /\ PaidByFind(e)'
    BY <2>1 DEF PromptMove, PaidByDelete, PaidByFind
  <2>6. PaidMiss(e)'
    <3>1. SUFFICES ASSUME MayMiss(e)' \/ Missed(e)'
                   PROVE  /\ MayMiss(e) \/ Missed(e)
                          /\ rows = <<>> => \/ t[e].pc \notin {"acquire", "open", "find", "write"}
                                            \/ t'[e].pc \in {"acquire", "open", "find"}
      BY <1>b, <1>h, <2>1, <2>3
    <3> QED BY <2>1, <3>1 DEF PromptMove, MayMiss, Missed, Saving, Over
  <2> QED BY <2>2, <2>4, <2>5, <2>6
<1>11. CASE Breaks(e)
  <2>1. BreaksMove(e) /\ rows' = rows /\ faults' = faults /\ misses' = misses
    BY <1>11, <1>a, BreaksStep DEF Breaks, store, history
  <2>2. Balanced'
    BY <1>b, <1>g, <2>1
  <2>3. t'[e].kind = t[e].kind /\ t[e].pc \notin {"idle", "release"}
    BY <1>11, <2>1 DEF Breaks, BreaksMove, Ends, Kept, Fields
  <2>4. PaidBefore(e)'
    BY <1>b, <2>1, <2>3 DEF PaidBefore
  <2>5. PaidByDelete(e)' /\ PaidByFind(e)'
    BY <2>1 DEF BreaksMove, Ends, PaidByDelete, PaidByFind
  <2>6. PaidMiss(e)'
    <3>1. SUFFICES ASSUME MayMiss(e)' \/ Missed(e)'
                   PROVE  /\ MayMiss(e) \/ Missed(e)
                          /\ rows = <<>> => \/ t[e].pc \notin {"acquire", "open", "find", "write"}
                                            \/ t'[e].pc \in {"acquire", "open", "find"}
      BY <1>b, <1>h, <2>1, <2>3
    <3> QED BY <2>1, <3>1 DEF BreaksMove, Ends, MayMiss, Missed
  <2> QED BY <2>2, <2>4, <2>5, <2>6
<1>12. CASE EndTurn(e)
  <2>1. EndTurnMove(e) /\ rows' = rows /\ faults' = faults /\ misses' = misses
    BY <1>12, <1>a, EndTurnStep DEF EndTurn, store, history
  <2>2. Balanced'
    BY <1>b, <1>g, <2>1
  <2>3. t'[e].kind = t[e].kind /\ t[e].pc \notin {"idle", "release"}
    BY <1>12, <2>1 DEF EndTurn, At, EndTurnMove, Ends, Kept, Fields
  <2>4. PaidBefore(e)'
    BY <1>b, <2>1, <2>3 DEF PaidBefore
  <2>5. PaidByDelete(e)' /\ PaidByFind(e)'
    BY <2>1 DEF EndTurnMove, Ends, PaidByDelete, PaidByFind
  <2>6. PaidMiss(e)'
    <3>1. SUFFICES ASSUME MayMiss(e)' \/ Missed(e)'
                   PROVE  /\ MayMiss(e) \/ Missed(e)
                          /\ rows = <<>> => \/ t[e].pc \notin {"acquire", "open", "find", "write"}
                                            \/ t'[e].pc \in {"acquire", "open", "find"}
      BY <1>b, <1>h, <2>1, <2>3
    <3> QED BY <2>1, <3>1 DEF EndTurnMove, Ends, MayMiss, Missed
  <2> QED BY <2>2, <2>4, <2>5, <2>6
<1>13. CASE FindRecord(e)
  <2>1. FindRecordMove(e) /\ rows' = rows /\ misses' = misses /\ t[e].pc = "find"
    BY <1>13, <1>a, FindRecordStep DEF FindRecord, At, store, history
  <2>2. /\ t'[e].kind = t[e].kind /\ t'[e].out = t[e].out /\ t'[e].cancelled = t[e].cancelled
        /\ t'[e].native = t[e].native
    BY <2>1 DEF FindRecordMove, Kept, Fields
  <2>3. \/ /\ t'[e].pc = "write" /\ t'[e].back = t[e].back /\ faults' = faults
           /\ t'[e].row = 0 <=> rows = <<>>
        \/ t'[e].pc = "write" /\ t'[e].back = t[e].back /\ t'[e].row = 0 /\ Fault
        \/ t'[e].pc \in {"prompt", "start"} /\ t'[e].pc = t[e].back /\ Fault
    <3>1. rows # <<>> => Head(rows).id # 0
      <4>1. rows # <<>> => Head(rows) \in Rows
        BY <1>b
      <4> QED BY <4>1 DEF Rows
    <3>2. CASE t'[e].pc = "write" /\ Kept(e, {"own", "pc", "row"})
      <4>1. t'[e].back = t[e].back
        BY <3>2 DEF Kept, Fields
      <4> QED BY <2>1, <3>1, <3>2, <4>1 DEF FindRecordMove
    <3>3. CASE t'[e].pc = t[e].back /\ t[e].back \in {"prompt", "start"} /\ Fault
      BY <3>3
    <3> QED BY <2>1, <3>2, <3>3 DEF FindRecordMove
  <2>4. Balanced'
    BY <1>b, <1>g, <2>1
  <2>5. PaidBefore(e)' /\ PaidByDelete(e)'
    BY <1>b, <2>1, <2>2, <2>3 DEF PaidBefore, PaidByDelete
  <2>6. PaidMiss(e)'
    <3>1. SUFFICES ASSUME MayMiss(e)' \/ Missed(e)'
                   PROVE  /\ misses + U(t[e].kind) <= faults'
                          /\ rows = <<>> => misses + 1 <= faults' \/ (t'[e].pc = "write" /\ t'[e].row = 0)
      BY <2>1, <2>2 DEF PaidMiss
    <3>2. MayMiss(e) \/ Missed(e)
      BY <2>1, <2>2, <2>3, <3>1 DEF MayMiss, Missed, Saving, Over
    <3>3. misses + U(t[e].kind) <= faults
      BY <1>b, <3>2 DEF PaidMiss
    <3> QED BY <1>b, <1>c, <1>d, <2>3, <3>3 DEF Fault
  <2>7. PaidByFind(e)'
    <3>1. t'[e].pc = "write" /\ t'[e].row = 0 /\ rows # <<>> => faults' = faults + 1
      BY <2>3 DEF Fault
    <3> QED BY <1>b, <1>c, <1>d, <2>1, <3>1 DEF PaidByFind
  <2> QED BY <2>4, <2>5, <2>6, <2>7
<1>14. CASE WriteRecord(e)
  <2>1. WroteRows(e) /\ WriteRecordMove(e)
    BY <1>14, <1>a, WriteRows, WriteRecordStep DEF ResumeInv
  <2>2. misses' = misses /\ t[e].pc = "write"
    BY <1>14 DEF WriteRecord, At, history
  <2>3. /\ t'[e].pc = t[e].back /\ t[e].back \in {"prompt", "start", "cache"}
        /\ t'[e].kind = t[e].kind /\ t'[e].out = t[e].out
        /\ t'[e].native = t[e].native /\ t'[e].cancelled = t[e].cancelled
    BY <1>a, <1>b, <2>1, <2>2 DEF WriteRecordMove, Kept, Fields, SlotAgrees, Saving, Typed
  <2>4. PaidBefore(e)' /\ PaidByDelete(e)' /\ PaidByFind(e)'
    BY <1>b, <2>2, <2>3 DEF PaidBefore, PaidByDelete, PaidByFind
  <2>5. MayMiss(e)' \/ Missed(e)' => MayMiss(e) \/ Missed(e)
    BY <2>2, <2>3 DEF MayMiss, Missed, Saving, Over
  <2>6. MayMiss(e) \/ Missed(e) =>
          /\ misses + U(t[e].kind) <= faults
          /\ rows = <<>> => misses + 1 <= faults \/ t[e].row = 0
    BY <1>b, <2>2 DEF PaidMiss
  <2>7. rows' \in Seq(Rows) /\ t[e].kind \in Agents
    BY <1>b, <2>1 DEF WroteRows, Typed
  <2>8. /\ Cardinality(Ids(rows')) \in Nat /\ Cardinality(Unfit(rows', base)) \in Nat
        /\ Cardinality(Unfit(rows', t[e].kind)) \in Nat
    BY <2>7, IdsFinite
  <2>9. CASE rows' = rows /\ (Fault \/ (t[e].row # 0 /\ faults' = faults))
    <3>1. PaidMiss(e)'
      BY <1>b, <1>c, <2>2, <2>3, <2>5, <2>9 DEF PaidMiss, Fault
    <3> QED BY <1>b, <1>g, <2>2, <2>4, <2>9, <3>1
  (* A record is created.                                                    *)
  <2>10. CASE /\ t[e].row = 0 /\ faults' = faults /\ rows' # <<>>
              /\ \A i \in DOMAIN rows' : rows'[i] = Row(e) \/ \E j \in DOMAIN rows : rows'[i] = rows[j]
    <3> DEFINE new == rowCount + 1
    <3>1. Row(e).id = new /\ Row(e).kind = t[e].kind /\ ~Row(e).expired
      BY DEF Row
    <3>2. /\ Ids(rows') \subseteq Ids(rows) \cup {new}
          /\ Unfit(rows', base) \subseteq Unfit(rows, base) \cup {new}
          /\ Unfit(rows', t[e].kind) \subseteq Unfit(rows, t[e].kind)
          /\ t[e].kind = base => Unfit(rows', base) \subseteq Unfit(rows, base)
      BY <2>10, <3>1 DEF Ids, Unfit
    <3>3. /\ IsFiniteSet(Ids(rows)) /\ IsFiniteSet(Unfit(rows, base)) /\ IsFiniteSet(Unfit(rows, t[e].kind))
      BY <1>b, IdsFinite
    <3>4. /\ IsFiniteSet(Ids(rows) \cup {new}) /\ Cardinality(Ids(rows) \cup {new}) <= N + 1
          /\ IsFiniteSet(Unfit(rows, base) \cup {new}) /\ Cardinality(Unfit(rows, base) \cup {new}) <= U(base) + 1
          /\ Cardinality(Ids(rows) \cup {new}) \in Nat /\ Cardinality(Unfit(rows, base) \cup {new}) \in Nat
      <4>1. ASSUME NEW S, IsFiniteSet(S)
            PROVE  /\ IsFiniteSet(S \cup {new}) /\ Cardinality(S \cup {new}) \in Nat
                   /\ Cardinality(S \cup {new}) <= Cardinality(S) + 1
        BY <4>1, FS_AddElement, FS_CardinalityType
      <4> QED BY <3>3, <4>1
    <3>5. /\ Cardinality(Ids(rows')) <= Cardinality(Ids(rows) \cup {new})
          /\ Cardinality(Unfit(rows', base)) <= Cardinality(Unfit(rows, base) \cup {new})
          /\ Cardinality(Unfit(rows', t[e].kind)) <= U(t[e].kind)
          /\ t[e].kind = base => Cardinality(Unfit(rows', base)) <= U(base)
      BY <3>2, <3>3, <3>4, FS_Subset
    <3>6. /\ Cardinality(Ids(rows')) <= N + 1
          /\ Cardinality(Unfit(rows', base)) <= U(base) + 1
      BY <1>c, <2>8, <3>4, <3>5
    <3>7. Balanced'
      <4>1. CASE rows # <<>>
        <5>1. misses + U(base) <= faults /\ N <= faults
          BY <1>b, <2>2, <2>10, <4>1 DEF PaidByFind
        <5> QED BY <1>b, <1>c, <2>2, <2>8, <3>6, <5>1 DEF Balanced
      <4>2. CASE rows = <<>>
        <5>1. N = 0
          <6>1. Ids(rows) = {}
            BY <4>2 DEF Ids
          <6> QED BY <6>1, FS_EmptySet
        <5>2. misses + Cardinality(Unfit(rows', base)) <= 1 + faults
          <6>1. CASE t[e].kind = base
            BY <1>b, <1>c, <1>d, <2>8, <3>5, <6>1
          <6>2. CASE t[e].kind # base
            BY <1>b, <1>e, <2>2, <2>8, <3>6, <4>2, <6>2 DEF PaidBefore
          <6> QED BY <6>1, <6>2
        <5> QED BY <1>b, <2>2, <2>8, <2>10, <3>6, <5>1, <5>2 DEF Balanced
      <4> QED BY <4>1, <4>2
    <3>8. PaidMiss(e)'
      <4>1. MayMiss(e)' \/ Missed(e)' => misses + Cardinality(Unfit(rows', t[e].kind)) <= faults
        BY <1>b, <1>c, <2>5, <2>6, <2>8, <3>5
      <4> QED BY <2>2, <2>3, <2>10, <4>1 DEF PaidMiss
    <3> QED BY <2>4, <3>7, <3>8
  (* A record is updated.                                                    *)
  <2>11. ASSUME faults' = faults, rows' # <<>>, rows # <<>>, NEW h \in DOMAIN rows, rows[h].id = t[e].row,
                \A i \in DOMAIN rows' : \/ rows'[i] = Updated(rows[h], e)
                                        \/ \E j \in DOMAIN rows : rows'[i] = rows[j] /\ rows[j].id # t[e].row
         PROVE  Balanced' /\ PaidMiss(e)'
    <3>1. rows[h] \in Rows
      BY <1>b
    <3>2. PICK r : /\ r = Updated(rows[h], e) /\ r.id = rows[h].id /\ r.kind = rows[h].kind /\ ~r.expired
      <4>1. /\ Updated(rows[h], e).id = rows[h].id /\ Updated(rows[h], e).kind = rows[h].kind
            /\ Updated(rows[h], e).expired = FALSE
        BY <3>1 DEF Updated, Rows
      <4> QED BY <4>1
    <3>3. /\ Ids(rows') \subseteq Ids(rows)
          /\ Unfit(rows', base) \subseteq Unfit(rows, base)
          /\ Unfit(rows', t[e].kind) \subseteq Unfit(rows, t[e].kind)
      BY <2>11, <3>2 DEF Ids, Unfit
    <3>4. /\ Cardinality(Ids(rows')) <= N /\ Cardinality(Unfit(rows', base)) <= U(base)
          /\ Cardinality(Unfit(rows', t[e].kind)) <= U(t[e].kind)
      BY <1>b, <3>3, IdsFinite, FS_Subset
    <3>5. Balanced'
      BY <1>b, <1>c, <2>2, <2>8, <2>11, <3>4 DEF Balanced
    <3>6. MayMiss(e)' \/ Missed(e)' => misses + Cardinality(Unfit(rows', t[e].kind)) <= faults
      BY <1>b, <1>c, <2>5, <2>6, <2>8, <3>4
    <3> QED BY <2>2, <2>3, <2>11, <3>5, <3>6 DEF PaidMiss
  <2> QED BY <2>1, <2>4, <2>9, <2>10, <2>11 DEF WroteRows
<1>15. CASE Cache(e)
  <2>1. CacheMove(e) /\ rows' = rows /\ faults' = faults /\ misses' = misses
    BY <1>15, <1>a, CacheStep DEF Cache, store, history
  <2>2. Balanced'
    BY <1>b, <1>g, <2>1
  <2>3. t'[e].kind = t[e].kind /\ t[e].pc \notin {"idle", "release"}
    BY <1>15, <2>1 DEF Cache, At, CacheMove, Kept, Fields
  <2>4. PaidBefore(e)'
    BY <1>b, <2>1, <2>3 DEF PaidBefore
  <2>5. PaidByDelete(e)' /\ PaidByFind(e)'
    BY <2>1 DEF CacheMove, PaidByDelete, PaidByFind
  <2>6. PaidMiss(e)'
    <3>1. SUFFICES ASSUME MayMiss(e)' \/ Missed(e)'
                   PROVE  /\ MayMiss(e) \/ Missed(e)
                          /\ rows = <<>> => \/ t[e].pc \notin {"acquire", "open", "find", "write"}
                                            \/ t'[e].pc \in {"acquire", "open", "find"}
      BY <1>b, <1>h, <2>1, <2>3
    <3> QED BY <1>15, <1>a, <3>1 DEF Cache, At, MayMiss, Missed, Saving, Over, SlotAgrees,
               FallsBack
  <2> QED BY <2>2, <2>4, <2>5, <2>6
<1>16. CASE Finish(e)
  <2>1. /\ t'[e].pc = "release" /\ rows' = rows /\ faults' = faults /\ t[e].pc = "finish"
        /\ misses' = IF t[e].out = "gone" /\ Counts(e) THEN misses + 1 ELSE misses
    <3>1. FinishMove(e)
      BY <1>16, <1>a, FinishStep
    <3> QED BY <1>16, <3>1 DEF FinishMove, Finish, At, store
  <2>2. Balanced'
    <3>1. CASE t[e].out = "gone" /\ Counts(e)
      <4>1. Missed(e) /\ t[e].kind = base
        BY <1>a, <2>1, <3>1 DEF Missed, Over, Counts, SlotAgrees
      <4>2. misses + U(base) <= faults /\ (rows = <<>> => misses + 1 <= faults)
        BY <1>b, <2>1, <4>1 DEF PaidMiss
      <4> QED BY <1>b, <1>c, <2>1, <4>2 DEF Balanced
    <3>2. CASE ~(t[e].out = "gone" /\ Counts(e))
      BY <1>b, <1>g, <2>1, <3>2
    <3> QED BY <3>1, <3>2
  <2>3. PaidBefore(e)' /\ PaidByDelete(e)' /\ PaidMiss(e)' /\ PaidByFind(e)'
    BY <2>1 DEF PaidBefore, PaidByDelete, PaidMiss, PaidByFind, MayMiss, Missed, Saving,
       Over
  <2> QED BY <2>2, <2>3
<1>17. CASE Release(e)
  <2>1. FinishMove(e) /\ rows' = rows /\ faults' = faults /\ misses' = misses
    BY <1>17, <1>a, FinishStep DEF Release, store, history
  <2>2. Balanced'
    BY <1>b, <1>g, <2>1
  <2>3. PaidBefore(e)' /\ PaidByDelete(e)' /\ PaidMiss(e)' /\ PaidByFind(e)'
    <3>1. t'[e].pc = "idle"
      BY <1>17, <2>1 DEF FinishMove, Finish, Release, At
    <3> QED BY <3>1 DEF PaidBefore, PaidByDelete, PaidMiss, PaidByFind, MayMiss, Missed,
               Saving, Over
  <2> QED BY <2>2, <2>3
<1>18. CASE CancelAgent(e)
  <2>1. CancelMove(e) /\ rows' = rows /\ faults' = faults /\ misses' = misses
    BY <1>18, <1>a, CancelStep DEF CancelAgent, store, history
  <2>2. Balanced'
    BY <1>b, <1>g, <2>1
  <2>3. t'[e].kind = t[e].kind /\ t[e].pc \notin {"idle", "release"}
    BY <1>18, <2>1 DEF CancelAgent, CancelMove, Kept, Fields
  <2>4. PaidBefore(e)'
    BY <1>b, <2>1, <2>3 DEF PaidBefore
  <2>5. PaidByDelete(e)' /\ PaidByFind(e)'
    BY <1>b, <2>1 DEF CancelMove, Kept, Fields, PaidByDelete, PaidByFind
  <2>6. PaidMiss(e)'
    BY <1>b, <2>1 DEF CancelMove, Kept, Fields, PaidMiss, MayMiss, Missed, Saving, Over
  <2> QED BY <2>2, <2>4, <2>5, <2>6
<1> QED BY <1>1, <1>2, <1>3, <1>4, <1>5, <1>6, <1>7, <1>8, <1>9, <1>10, <1>11, <1>12, <1>13,
           <1>14, <1>15, <1>16, <1>17, <1>18 DEF Execute

LEMMA RestMisses ==
  ASSUME ResumeInv, MissInv, \/ Restart \/ Forget \/ WeekPasses \/ DeleteExpiredRecords \/ SwitchBase
                             \/ \E s \in Sessions : Lose(s)
  PROVE  MissInv'
<1> SUFFICES ASSUME overlap' = "none"
             PROVE  Balanced' /\ \A x \in Exec : Paid(x)'
  BY DEF MissInv
<1>0. /\ overlap = "none" /\ faults' = faults /\ Balanced /\ \A x \in Exec : Paid(x)
      /\ rows \in Seq(Rows) /\ misses \in Nat /\ faults \in Nat
      /\ \A x \in Exec : Typed(t[x])
  BY SlotsHave DEF Restart, Forget, WeekPasses, DeleteExpiredRecords, SwitchBase, Lose,
     history, MissInv, ResumeInv, ResumeTypeOK
<1>1. ASSUME NEW k PROVE /\ Cardinality(Unfit(rows, k)) \in Nat /\ Cardinality(Ids(rows)) \in Nat
                         /\ Cardinality(Unfit(rows, k)) <= Cardinality(Ids(rows))
  BY <1>0, IdsFinite
<1>2. CASE Restart
  <2>1. \A x \in Exec : t'[x].pc = "idle"
    BY <1>2, IdleFields DEF Restart
  <2>2. Balanced'
    BY <1>0, <1>2 DEF Restart, history, store, Balanced
  <2> QED BY <2>1, <2>2, PaidAtRest
<1>3. CASE Forget \/ \E s \in Sessions : Lose(s)
  <2>1. UNCHANGED <<t, rows, misses, base>>
    BY <1>3 DEF Forget, Lose, history, store
  <2> QED BY <1>0, <2>1 DEF Balanced, Paid, PaidBefore, PaidByDelete, PaidMiss, PaidByFind,
             MayMiss, Missed, Saving, Over
<1>4. CASE WeekPasses
  <2>1. \A x \in Exec : t'[x].pc = "idle"
    BY <1>4 DEF WeekPasses, Active
  <2>2. misses' = 0 /\ rows' = [i \in DOMAIN rows |-> [rows[i] EXCEPT !.expired = TRUE]] /\ rows # <<>>
    BY <1>4 DEF WeekPasses
  <2>3. \A i \in DOMAIN rows : rows[i] \in Rows
    BY <1>0
  <2>4. PICK f : f = [i \in DOMAIN rows |-> [rows[i] EXCEPT !.expired = TRUE]]
    OBVIOUS
  <2>5. /\ rows' \in Seq(Rows) /\ DOMAIN rows' = DOMAIN rows
        /\ \A i \in DOMAIN rows : rows'[i].id = rows[i].id
    <3>1. \A i \in DOMAIN rows : f[i] = [rows[i] EXCEPT !.expired = TRUE]
      BY <2>4
    <3>2. \A i \in DOMAIN rows : f[i] \in Rows /\ f[i].id = rows[i].id
      BY <2>3, <3>1 DEF Rows
    <3>3. PICK n \in Nat : DOMAIN rows = 1 .. n
      BY <1>0
    <3>4. f = [i \in 1 .. n |-> f[i]]
      BY <2>4, <3>3
    <3>5. f \in [1 .. n -> Rows]
      BY <3>2, <3>3, <3>4
    <3>6. f \in Seq(Rows)
      BY <3>5
    <3> QED BY <2>2, <2>4, <3>2, <3>6
  <2>6. Ids(rows') = Ids(rows)
    BY <2>5 DEF Ids
  <2>7. Cardinality(Unfit(rows', base')) \in Nat /\ Cardinality(Unfit(rows', base')) <= Cardinality(Ids(rows))
    BY <2>5, <2>6, IdsFinite
  <2>8. Balanced'
    BY <1>0, <1>1, <2>2, <2>6, <2>7 DEF Balanced
  <2> QED BY <2>1, <2>8, PaidAtRest
<1>5. CASE DeleteExpiredRecords
  <2>1. UNCHANGED <<t, misses, base>>
    BY <1>5 DEF DeleteExpiredRecords, history
  <2>2. PICK h \in DOMAIN rows : rows[h].expired
    BY <1>5 DEF DeleteExpiredRecords
  <2>3. PICK left : left = {i \in DOMAIN rows : ~rows[i].expired}
    OBVIOUS
  <2>4. /\ rows' \in Seq(Rows)
        /\ \A i \in DOMAIN rows' : \E j \in left : rows'[i] = rows[j]
    BY <1>0, <1>5, <2>3, SomeRows DEF DeleteExpiredRecords
  <2>5. \A i \in DOMAIN rows' : \E j \in DOMAIN rows : rows'[i] = rows[j] /\ ~rows[j].expired
    BY <2>3, <2>4
  <2>6. ASSUME NEW k
        PROVE  /\ Cardinality(Ids(rows')) <= Cardinality(Ids(rows))
               /\ Cardinality(Unfit(rows', k)) <= Cardinality(Unfit(rows, k))
               /\ Cardinality(Unfit(rows', k)) \in Nat /\ Cardinality(Ids(rows')) \in Nat
               /\ Cardinality(Unfit(rows, k)) >= 1
    <3>1. /\ Cardinality(Ids(rows')) <= Cardinality(Ids(rows))
          /\ Cardinality(Unfit(rows', k)) <= Cardinality(Unfit(rows, k))
      BY <1>0, <2>4, <2>5, FewerRows
    <3>2. Cardinality(Unfit(rows', k)) \in Nat /\ Cardinality(Ids(rows')) \in Nat
      BY <2>4, IdsFinite
    <3>3. rows[h].id \in Unfit(rows, k)
      BY <2>2 DEF Unfit
    <3>4. Cardinality(Unfit(rows, k)) # 0
      BY <1>0, <3>3, IdsFinite, FS_EmptySet
    <3> QED BY <1>1, <3>1, <3>2, <3>4
  <2>7. Balanced'
    BY <1>0, <1>1, <2>1, <2>6 DEF Balanced
  <2>8. ASSUME NEW x \in Exec PROVE Paid(x)'
    <3>1. PaidBefore(x)'
      BY <1>0, <2>1 DEF Paid, PaidBefore
    <3>2. PaidByDelete(x)'
      <4>1. IsFiniteSet(Unfit(rows, t[x].kind) \ {t[x].row}) /\ Cardinality(Unfit(rows, t[x].kind) \ {t[x].row}) \in Nat
        BY <1>0, IdsFinite, FS_RemoveElement, LessOne
      <4>2. Unfit(rows', t[x].kind) \ {t[x].row} \subseteq Unfit(rows, t[x].kind) \ {t[x].row}
        BY <2>5 DEF Unfit
      <4>3. /\ Cardinality(Unfit(rows', t[x].kind) \ {t[x].row}) <= Cardinality(Unfit(rows, t[x].kind) \ {t[x].row})
            /\ Cardinality(Unfit(rows', t[x].kind) \ {t[x].row}) \in Nat
        BY <4>1, <4>2, FS_Subset, <2>4, LessOne
      <4>4. t[x].pc = "delete" => misses + Cardinality(Unfit(rows, t[x].kind) \ {t[x].row}) <= faults
        BY <1>0 DEF Paid, PaidByDelete
      <4>5. t[x].pc = "delete" => misses + Cardinality(Unfit(rows', t[x].kind) \ {t[x].row}) <= faults
        BY <1>0, <4>1, <4>3, <4>4
      <4> QED BY <1>0, <2>1, <4>5 DEF PaidByDelete
    <3>3. PaidMiss(x)'
      <4>1. MayMiss(x)' \/ Missed(x)' => MayMiss(x) \/ Missed(x)
        BY <2>1 DEF MayMiss, Missed, Saving, Over
      <4>2. MayMiss(x) \/ Missed(x) => misses + Cardinality(Unfit(rows, t[x].kind)) <= faults
        BY <1>0 DEF Paid, PaidMiss
      <4>3. MayMiss(x) \/ Missed(x) => /\ misses + Cardinality(Unfit(rows', t[x].kind)) <= faults
                                       /\ misses + 1 <= faults
        BY <1>0, <1>1, <2>6, <4>2
      <4> QED BY <1>0, <2>1, <4>1, <4>3 DEF PaidMiss
    <3>4. PaidByFind(x)'
      BY <1>0, <1>1, <2>1, <2>6 DEF Paid, PaidByFind
    <3> QED BY <3>1, <3>2, <3>3, <3>4 DEF Paid
  <2> QED BY <2>7, <2>8
<1>6. CASE SwitchBase
  <2>1. t' = t /\ rows' = rows /\ misses' = 0
    BY <1>6 DEF SwitchBase, store
  <2>2. Cardinality(Unfit(rows, base')) \in Nat /\ Cardinality(Unfit(rows, base')) <= Cardinality(Ids(rows))
    BY <1>1
  <2>3. Balanced'
    BY <1>0, <1>1, <2>1, <2>2 DEF Balanced
  <2>4. ASSUME NEW x \in Exec PROVE Paid(x)'
    <3>1. PaidBefore(x)'
      BY <2>1 DEF PaidBefore
    <3>2. PaidByDelete(x)'
      <4>1. Cardinality(Unfit(rows, t[x].kind) \ {t[x].row}) \in Nat
        BY <1>0, LessOne
      <4>2. t[x].pc = "delete" => misses + Cardinality(Unfit(rows, t[x].kind) \ {t[x].row}) <= faults
        BY <1>0 DEF Paid, PaidByDelete
      <4>3. t[x].pc = "delete" => 0 + Cardinality(Unfit(rows, t[x].kind) \ {t[x].row}) <= faults
        BY <1>0, <4>1, <4>2
      <4> QED BY <1>0, <2>1, <4>3 DEF PaidByDelete
    <3>3. PaidMiss(x)'
      BY <1>0, <1>1, <2>1 DEF Paid, PaidMiss, MayMiss, Missed, Saving, Over
    <3>4. PaidByFind(x)'
      BY <1>0, <1>1, <2>1, <2>2 DEF Paid, PaidByFind
    <3> QED BY <3>1, <3>2, <3>3, <3>4 DEF Paid
  <2> QED BY <2>3, <2>4
<1> QED BY <1>2, <1>3, <1>4, <1>5, <1>6

LEMMA NextMisses == ASSUME ResumeInv, MissInv, [Next]_vars PROVE MissInv'
<1>1. CASE UNCHANGED vars
  BY <1>1 DEF vars, MissInv, Balanced, Paid, PaidBefore, PaidByDelete, PaidMiss, PaidByFind,
     MayMiss, Missed, Saving, Over
<1> QED BY <1>1, ExecuteMisses, RestMisses DEF Next

(* A session its CLI has lost fails one turn of an agent whose base stays   *)
(* the same and whose executions do not overlap, and one more for each      *)
(* database call that has failed: every other turn falls back to a fresh    *)
(* session, whose record replaces the lost one.                             *)
THEOREM LostOnlyOnce == Spec => []GoneOnce
<1>1. Init => MissInv
  <2> SUFFICES ASSUME Init PROVE Balanced /\ \A x \in Exec : Paid(x)
    BY DEF MissInv
  <2>1. rows = <<>> /\ misses = 0 /\ faults = 0
    BY DEF Init
  <2>2. Ids(rows) = {} /\ Unfit(rows, base) = {}
    BY <2>1 DEF Ids, Unfit
  <2>3. Balanced
    BY <2>1, <2>2, FS_EmptySet DEF Balanced
  <2>4. \A x \in Exec : t[x].pc = "idle"
    BY IdleFields DEF Init
  <2> QED BY <2>3, <2>4, PaidAtRest
<1>2. ResumeInv /\ MissInv => GoneOnce
  <2>1. ResumeInv => Cardinality(Unfit(rows, base)) \in Nat /\ misses \in Nat /\ faults \in Nat
    BY IdsFinite DEF ResumeInv, ResumeTypeOK
  <2> QED BY <2>1 DEF MissInv, Balanced, GoneOnce
<1>3. ResumeInv /\ MissInv /\ [Next]_vars => ResumeInv' /\ MissInv'
  BY NextResume, NextMisses
<1> QED BY InitResume, <1>1, <1>2, <1>3, PTL DEF Spec
============================================================================
