--------------------------- MODULE SessionChainProofs ---------------------------
(***************************************************************************)
(* Safety of SessionChain for any keys, sessions, executions, capacity and *)
(* threshold.  What the indexes promise is stated of the store as a value, *)
(* so that the steps of Create can be taken one by one.                    *)
(***************************************************************************)
EXTENDS SessionChain, TLAPS, SequenceTheorems, FiniteSetTheorems

Ascending(c) == \A i, j \in DOMAIN c : i < j => c[i] < c[j]

(* The parts of a store st whose ids are among 1..n: what they hold, ...   *)
Typed(st, n) ==
  /\ DOMAIN st.records \subseteq 1..n
  /\ \A id \in DOMAIN st.records : st.records[id] \in Record
  /\ st.chains \in [Keys -> Seq(1..n)]
  /\ st.activeIndex \in [Keys -> 0..n]
  /\ st.cliIndex \in [Sessions -> 0..n]

(* ... that a session's entry names the newest of its records, ...         *)
CliNewest(st) ==
  \A s \in Sessions : st.cliIndex[s] # None =>
    /\ st.cliIndex[s] \in DOMAIN st.records
    /\ st.records[st.cliIndex[s]].cli = s
    /\ \A id \in DOMAIN st.records : st.records[id].cli = s => id <= st.cliIndex[s]

(* ... a chain lists the records of its key, oldest first, ...             *)
ChainsList(st) ==
  \A k \in Keys :
    /\ ToSet(st.chains[k]) = {id \in DOMAIN st.records : st.records[id].key = k}
    /\ Ascending(st.chains[k])

(* ... and the session a key would resume is active and its own.           *)
ActiveOwn(st) ==
  \A k \in Keys : st.activeIndex[k] # None =>
    /\ st.activeIndex[k] \in DOMAIN st.records
    /\ st.records[st.activeIndex[k]].status = "active"
    /\ st.records[st.activeIndex[k]].key = k

Good(st, n) == Typed(st, n) /\ CliNewest(st) /\ ChainsList(st) /\ ActiveOwn(st)

ExecRecord(n) == [stage : Stage, cli : Sessions \cup {None}, resumed : BOOLEAN,
                  id : 0..n, overflow : BOOLEAN]

(* Who does anything has a session, and who waits for the mutex or asks    *)
(* the breaker wants to resume.                                            *)
Resuming == {"contended", "waiting", "handed", "checking", "tripped"}
Going(x) == /\ x.stage # "idle" => x.cli \in Sessions
            /\ x.stage \in Resuming => x.resumed

ExecType == /\ finalizing \subseteq 1..created
            /\ held \subseteq Keys
            /\ exec \in [Executions -> ExecRecord(created)]

ExecOK == \A e \in Executions : Going(exec[e])

StoreInv == /\ created \in 0..MaxCreated
            /\ Good(Store, created)
            /\ CapacityKept

Inv == StoreInv /\ ExecType /\ ExecOK

-------------------------------------------------------------------------------
(* Taking the k-th element out of a sequence.                              *)
LEMMA RemoveAtProperties ==
  ASSUME NEW S, NEW s \in Seq(S), NEW k \in DOMAIN s
  PROVE  /\ RemoveAt(s, k) \in Seq(S)
         /\ DOMAIN RemoveAt(s, k) = 1..(Len(s) - 1)
         /\ \A i \in 1..(Len(s) - 1) :
              RemoveAt(s, k)[i] = s[IF i < k THEN i ELSE i + 1]
<1>1. /\ k \in Int /\ 1 <= k /\ k <= Len(s) /\ Len(s) \in Nat
      /\ DOMAIN s = 1..Len(s)
      /\ \A i \in 1..Len(s) : s[i] \in S
  BY LenProperties, ElementOfSeq
<1> DEFINE a == SubSeq(s, 1, k - 1)
           b == SubSeq(s, k + 1, Len(s))
<1>2. /\ a \in Seq(S) /\ Len(a) = k - 1
      /\ \A i \in 1..(k - 1) : a[i] = s[i]
  <2>1. \A i \in 1..(k - 1) : s[i] \in S
    BY <1>1
  <2> QED BY <1>1, <2>1, SubSeqProperties
<1>3. /\ b \in Seq(S) /\ Len(b) = Len(s) - k
      /\ \A i \in 1..(Len(s) - k) : b[i] = s[k + i]
  <2>1. \A i \in (k + 1)..Len(s) : s[i] \in S
    BY <1>1
  <2> QED BY <1>1, <2>1, SubSeqProperties
<1> HIDE DEF a, b
<1>4. RemoveAt(s, k) = a \o b
  BY DEF RemoveAt, a, b
<1>5. /\ a \o b \in Seq(S) /\ Len(a \o b) = Len(s) - 1
      /\ DOMAIN (a \o b) = 1..(Len(s) - 1)
      /\ \A i \in 1..(Len(s) - 1) :
            (a \o b)[i] = IF i <= k - 1 THEN a[i] ELSE b[i - (k - 1)]
  <2>1. /\ a \o b \in Seq(S) /\ Len(a \o b) = Len(a) + Len(b)
        /\ \A i \in 1..(Len(a) + Len(b)) :
             (a \o b)[i] = IF i <= Len(a) THEN a[i] ELSE b[i - Len(a)]
    BY <1>2, <1>3, ConcatProperties
  <2>2. Len(a) + Len(b) = Len(s) - 1
    BY <1>1, <1>2, <1>3
  <2>3. DOMAIN (a \o b) = 1..Len(a \o b)
    BY <2>1, LenProperties
  <2> QED BY <1>2, <2>1, <2>2, <2>3
<1>6. ASSUME NEW i \in 1..(Len(s) - 1)
      PROVE  (a \o b)[i] = s[IF i < k THEN i ELSE i + 1]
  <2>1. CASE i < k
    <3>1. i \in 1..(k - 1) /\ i <= k - 1
      BY <1>1, <2>1
    <3> QED BY <1>2, <1>5, <2>1, <3>1
  <2>2. CASE ~(i < k)
    <3>1. /\ i - (k - 1) \in 1..(Len(s) - k)
          /\ k + (i - (k - 1)) = i + 1
          /\ ~(i <= k - 1)
      BY <1>1, <2>2
    <3>2. (a \o b)[i] = b[i - (k - 1)]
      BY <1>5, <3>1
    <3>3. b[i - (k - 1)] = s[k + (i - (k - 1))]
      BY <1>3, <3>1
    <3> QED BY <2>2, <3>1, <3>2, <3>3
  <2> QED BY <2>1, <2>2
<1> QED BY <1>4, <1>5, <1>6

(* An ascending chain loses an element and nothing else.                   *)
LEMMA RemoveAtAscending ==
  ASSUME NEW S, S \subseteq Nat, NEW c \in Seq(S), Ascending(c), NEW k \in DOMAIN c
  PROVE  /\ RemoveAt(c, k) \in Seq(S)
         /\ Ascending(RemoveAt(c, k))
         /\ ToSet(RemoveAt(c, k)) = ToSet(c) \ {c[k]}
<1>1. /\ k \in Nat /\ 1 <= k /\ k <= Len(c) /\ Len(c) \in Nat
      /\ DOMAIN c = 1..Len(c)
      /\ \A i \in 1..Len(c) : c[i] \in Nat
  <2>1. Len(c) \in Nat /\ DOMAIN c = 1..Len(c)
    BY LenProperties
  <2>2. ASSUME NEW i \in 1..Len(c) PROVE c[i] \in Nat
    <3>1. c[i] \in S
      BY ElementOfSeq
    <3> QED BY <3>1
  <2>3. k \in Nat /\ 1 <= k /\ k <= Len(c)
    BY <2>1
  <2> QED BY <2>1, <2>2, <2>3
<1> DEFINE r == RemoveAt(c, k)
           at(i) == IF i < k THEN i ELSE i + 1
<1>2. /\ r \in Seq(S) /\ DOMAIN r = 1..(Len(c) - 1)
      /\ \A i \in 1..(Len(c) - 1) : r[i] = c[at(i)]
  BY RemoveAtProperties
<1> HIDE DEF r
<1>3. \A i \in 1..(Len(c) - 1) : at(i) \in 1..Len(c) /\ at(i) # k
  BY <1>1
<1>4. Ascending(r)
  <2> SUFFICES ASSUME NEW i \in 1..(Len(c) - 1), NEW j \in 1..(Len(c) - 1), i < j
               PROVE  r[i] < r[j]
    BY <1>2 DEF Ascending
  <2>1. at(i) < at(j)
    BY <1>1
  <2> QED BY <1>1, <1>2, <1>3, <2>1 DEF Ascending
<1>5. \A j \in 1..Len(c) : j # k => c[j] # c[k]
  BY <1>1 DEF Ascending
<1>6. \A j \in 1..Len(c) : j # k => \E i \in 1..(Len(c) - 1) : at(i) = j
  <2> SUFFICES ASSUME NEW j \in 1..Len(c), j # k
               PROVE  \E i \in 1..(Len(c) - 1) : at(i) = j
    OBVIOUS
  <2>1. CASE j < k
    BY <1>1, <2>1
  <2>2. CASE j > k
    <3>1. j - 1 \in 1..(Len(c) - 1) /\ at(j - 1) = j
      BY <1>1, <2>2
    <3> QED BY <3>1
  <2> QED BY <1>1, <2>1, <2>2
<1> HIDE DEF at
<1>7. ToSet(r) = ToSet(c) \ {c[k]}
  <2>1. ToSet(r) = {c[at(i)] : i \in 1..(Len(c) - 1)}
    BY <1>2 DEF ToSet
  <2>2. ToSet(c) = {c[j] : j \in 1..Len(c)}
    BY <1>1 DEF ToSet
  <2> QED BY <1>3, <1>5, <1>6, <2>1, <2>2
<1> QED BY <1>2, <1>4, <1>7 DEF r

LEMMA RemoveFirstAscending ==
  ASSUME NEW S, S \subseteq Nat, NEW c \in Seq(S), Ascending(c), NEW v \in ToSet(c)
  PROVE  /\ RemoveFirst(c, v) \in Seq(S)
         /\ Ascending(RemoveFirst(c, v))
         /\ ToSet(RemoveFirst(c, v)) = ToSet(c) \ {v}
<1>1. Len(c) \in Nat /\ DOMAIN c = 1..Len(c)
  BY LenProperties
<1>2. PICK k \in 1..Len(c) : c[k] = v
  BY <1>1 DEF ToSet
<1>3. \A i \in 1..Len(c) : c[i] = v => i = k
  <2> SUFFICES ASSUME NEW i \in 1..Len(c), i # k PROVE c[i] # c[k]
    BY <1>2
  <2>1. c[i] \in Nat /\ c[k] \in Nat
    BY ElementOfSeq
  <2>2. c[i] < c[k] \/ c[k] < c[i]
    BY <1>1 DEF Ascending
  <2> QED BY <2>1, <2>2
<1>4. SelectInSeq(c, LAMBDA x : x = v) = k
  <2>1. {i \in 1..Len(c) : c[i] = v} = {k}
    BY <1>2, <1>3
  <2>2. Min({k}) = k
    BY <1>2 DEF Min
  <2> QED BY <2>1, <2>2 DEF SelectInSeq
<1>5. RemoveFirst(c, v) = RemoveAt(c, k)
  BY <1>2, <1>4 DEF RemoveFirst
<1>6. k \in DOMAIN c
  BY <1>1
<1>7. /\ RemoveAt(c, k) \in Seq(S)
      /\ Ascending(RemoveAt(c, k))
      /\ ToSet(RemoveAt(c, k)) = ToSet(c) \ {c[k]}
  BY <1>6, RemoveAtAscending
<1> QED BY <1>2, <1>5, <1>7

-------------------------------------------------------------------------------
(* A record inserted is the newest of its session and the last of its      *)
(* chain; the one its key pointed to is superseded.                        *)
LEMMA InsertGood ==
  ASSUME NEW st, NEW n \in Nat, Good(st, n), NEW s \in Sessions
  PROVE  /\ Good(insert(st, n + 1, s), n + 1)
         /\ DOMAIN insert(st, n + 1, s).records = DOMAIN st.records \cup {n + 1}
         /\ insert(st, n + 1, s).activeIndex = [st.activeIndex EXCEPT ![Owner[s]] = n + 1]
<1> DEFINE k == Owner[s]
           new == [key |-> k, cli |-> s, seq |-> Len(st.chains[k]),
                   status |-> "active", failures |-> 0]
           ins == insert(st, n + 1, s)
<1>1. /\ ins.records = [i \in DOMAIN st.records \cup {n + 1} |->
                           IF i = n + 1 THEN new ELSE st.records[i]]
      /\ ins.chains = [st.chains EXCEPT ![k] = Append(@, n + 1)]
      /\ ins.activeIndex = [st.activeIndex EXCEPT ![k] = n + 1]
      /\ ins.cliIndex = [st.cliIndex EXCEPT ![s] = n + 1]
  BY DEF insert
<1>2. k \in Keys
  BY OwnerAssumption
<1>3. /\ DOMAIN st.records \subseteq 1..n
      /\ \A id \in DOMAIN st.records : st.records[id] \in Record
      /\ st.chains \in [Keys -> Seq(1..n)]
      /\ st.activeIndex \in [Keys -> 0..n]
      /\ st.cliIndex \in [Sessions -> 0..n]
  BY DEF Good, Typed
<1>4. /\ DOMAIN ins.records = DOMAIN st.records \cup {n + 1}
      /\ ins.records[n + 1] = new
      /\ \A id \in DOMAIN st.records : id # n + 1 /\ ins.records[id] = st.records[id]
  BY <1>1, <1>3
<1>5. new \in Record
  <2>1. Len(st.chains[k]) \in Nat
    BY <1>2, <1>3, LenProperties
  <2> QED BY <1>2, <2>1 DEF Record
<1> HIDE DEF new, ins
<1>6. Typed(ins, n + 1)
  <2>1. DOMAIN ins.records \subseteq 1..(n + 1)
    BY <1>3, <1>4
  <2>2. \A id \in DOMAIN ins.records : ins.records[id] \in Record
    BY <1>3, <1>4, <1>5
  <2>3. ins.chains \in [Keys -> Seq(1..(n + 1))]
    <3>1. 1..n \subseteq 1..(n + 1)
      OBVIOUS
    <3>2. \A c \in Seq(1..n) : c \in Seq(1..(n + 1))
      BY <3>1
    <3>3. Append(st.chains[k], n + 1) \in Seq(1..(n + 1))
      BY <1>2, <1>3, <3>2, AppendProperties
    <3> QED BY <1>1, <1>3, <3>2, <3>3
  <2>4. ins.activeIndex \in [Keys -> 0..(n + 1)]
    <3>1. n + 1 \in 0..(n + 1) /\ \A x \in Keys : st.activeIndex[x] \in 0..(n + 1)
      BY <1>3
    <3> QED BY <1>1, <1>3, <3>1
  <2>5. ins.cliIndex \in [Sessions -> 0..(n + 1)]
    BY <1>1, <1>3
  <2> QED BY <2>1, <2>2, <2>3, <2>4, <2>5 DEF Typed
<1>7. CliNewest(ins)
  <2> SUFFICES ASSUME NEW x \in Sessions, ins.cliIndex[x] # None
               PROVE  /\ ins.cliIndex[x] \in DOMAIN ins.records
                      /\ ins.records[ins.cliIndex[x]].cli = x
                      /\ \A id \in DOMAIN ins.records :
                           ins.records[id].cli = x => id <= ins.cliIndex[x]
    BY DEF CliNewest
  <2>1. CASE x = s
    <3>1. ins.cliIndex[x] = n + 1
      BY <1>1, <1>3, <2>1
    <3>2. \A id \in DOMAIN ins.records : id <= n + 1
      BY <1>3, <1>4
    <3> QED BY <1>4, <2>1, <3>1, <3>2 DEF new
  <2>2. CASE x # s
    <3>1. ins.cliIndex[x] = st.cliIndex[x]
      BY <1>1, <1>3, <2>2
    <3>2. ins.records[n + 1].cli # x
      BY <1>4, <2>2 DEF new
    <3> QED BY <1>4, <3>1, <3>2 DEF Good, CliNewest
  <2> QED BY <2>1, <2>2
<1>8. ChainsList(ins)
  <2> SUFFICES ASSUME NEW x \in Keys
               PROVE  /\ ToSet(ins.chains[x]) = {id \in DOMAIN ins.records : ins.records[id].key = x}
                      /\ Ascending(ins.chains[x])
    BY DEF ChainsList
  <2>1. /\ ToSet(st.chains[x]) = {id \in DOMAIN st.records : st.records[id].key = x}
        /\ Ascending(st.chains[x])
    BY DEF Good, ChainsList
  <2>2. CASE x = k
    <3> DEFINE c == st.chains[k]
    <3>1. ins.chains[x] = Append(c, n + 1)
      BY <1>1, <1>2, <1>3, <2>2
    <3>2. c \in Seq(1..n)
      BY <1>2, <1>3
    <3> HIDE DEF c
    <3>3. /\ Len(c) \in Nat /\ DOMAIN c = 1..Len(c)
          /\ \A i \in 1..Len(c) : c[i] \in 1..n
      <4>1. Len(c) \in Nat /\ DOMAIN c = 1..Len(c)
        BY <3>2, LenProperties
      <4>2. \A i \in 1..Len(c) : c[i] \in 1..n
        BY <3>2, ElementOfSeq
      <4> QED BY <4>1, <4>2
    <3>4. /\ DOMAIN Append(c, n + 1) = 1..(Len(c) + 1)
          /\ \A i \in 1..Len(c) : Append(c, n + 1)[i] = c[i]
          /\ Append(c, n + 1)[Len(c) + 1] = n + 1
      <4>1. c \in Seq(Nat)
        BY <3>2
      <4> QED BY <3>3, <4>1, AppendProperties, LenProperties
    <3>5. Ascending(Append(c, n + 1))
      <4> SUFFICES ASSUME NEW i \in 1..(Len(c) + 1), NEW j \in 1..(Len(c) + 1), i < j
                   PROVE  Append(c, n + 1)[i] < Append(c, n + 1)[j]
        BY <3>4 DEF Ascending
      <4>1. i \in 1..Len(c) /\ Append(c, n + 1)[i] = c[i] /\ c[i] \in 1..n
        BY <3>3, <3>4
      <4>2. CASE j = Len(c) + 1
        BY <3>4, <4>1, <4>2
      <4>3. CASE j # Len(c) + 1
        <5>1. j \in 1..Len(c) /\ Append(c, n + 1)[j] = c[j]
          BY <3>3, <3>4, <4>3
        <5>2. Ascending(c)
          BY <2>1, <2>2 DEF c
        <5> QED BY <3>3, <4>1, <5>1, <5>2 DEF Ascending
      <4> QED BY <4>2, <4>3
    <3>6. ToSet(Append(c, n + 1)) = ToSet(c) \cup {n + 1}
      BY <3>3, <3>4 DEF ToSet
    <3>7. ins.records[n + 1].key = k
      BY <1>4 DEF new
    <3> QED BY <1>4, <2>1, <2>2, <3>1, <3>5, <3>6, <3>7 DEF c
  <2>3. CASE x # k
    <3>1. ins.chains[x] = st.chains[x]
      BY <1>1, <1>3, <2>3
    <3>2. ins.records[n + 1].key # x
      BY <1>4, <2>3 DEF new
    <3> QED BY <1>4, <2>1, <3>1, <3>2
  <2> QED BY <2>2, <2>3
<1>9. ActiveOwn(ins)
  <2> SUFFICES ASSUME NEW x \in Keys, ins.activeIndex[x] # None
               PROVE  /\ ins.activeIndex[x] \in DOMAIN ins.records
                      /\ ins.records[ins.activeIndex[x]].status = "active"
                      /\ ins.records[ins.activeIndex[x]].key = x
    BY DEF ActiveOwn
  <2>1. CASE x = k
    <3>1. ins.activeIndex[x] = n + 1
      BY <1>1, <1>3, <2>1
    <3> QED BY <1>4, <2>1, <3>1 DEF new
  <2>2. CASE x # k
    <3>1. ins.activeIndex[x] = st.activeIndex[x]
      BY <1>1, <1>3, <2>2
    <3> QED BY <1>4, <3>1 DEF Good, ActiveOwn
  <2> QED BY <2>1, <2>2
<1> QED BY <1>1, <1>4, <1>6, <1>7, <1>8, <1>9 DEF Good, ins

(* A record removed takes its entries with it, and those of its session.   *)
LEMMA RemoveGood ==
  ASSUME NEW st, NEW n \in Nat, Good(st, n), NEW v \in DOMAIN st.records
  PROVE  /\ Good(removeRecord(st, v), n)
         /\ DOMAIN removeRecord(st, v).records = DOMAIN st.records \ {v}
         /\ \A k \in Keys : removeRecord(st, v).activeIndex[k] =
                             IF st.activeIndex[k] = v THEN None ELSE st.activeIndex[k]
<1> DEFINE r == st.records[v]
           rem == removeRecord(st, v)
<1>1. /\ rem.records = [i \in DOMAIN st.records \ {v} |-> st.records[i]]
      /\ rem.chains = [st.chains EXCEPT ![r.key] = RemoveFirst(@, v)]
      /\ rem.activeIndex = [st.activeIndex EXCEPT ![r.key] = IF @ = v THEN None ELSE @]
      /\ rem.cliIndex = [st.cliIndex EXCEPT ![r.cli] = None]
  BY DEF removeRecord
<1>2. /\ DOMAIN st.records \subseteq 1..n
      /\ \A id \in DOMAIN st.records : st.records[id] \in Record
      /\ st.chains \in [Keys -> Seq(1..n)]
      /\ st.activeIndex \in [Keys -> 0..n]
      /\ st.cliIndex \in [Sessions -> 0..n]
  BY DEF Good, Typed
<1>3. r.key \in Keys /\ r.cli \in Sessions
  BY <1>2 DEF Record
<1>4. /\ DOMAIN rem.records = DOMAIN st.records \ {v}
      /\ \A id \in DOMAIN rem.records : id \in DOMAIN st.records /\ rem.records[id] = st.records[id]
  BY <1>1
<1>5. \A k \in Keys : rem.activeIndex[k] = IF st.activeIndex[k] = v THEN None ELSE st.activeIndex[k]
  <2> SUFFICES ASSUME NEW k \in Keys
               PROVE  rem.activeIndex[k] = IF st.activeIndex[k] = v THEN None ELSE st.activeIndex[k]
    OBVIOUS
  <2>1. CASE k = r.key
    BY <1>1, <1>2, <1>3, <2>1
  <2>2. CASE k # r.key
    <3>1. rem.activeIndex[k] = st.activeIndex[k]
      BY <1>1, <1>2, <2>2
    <3>2. st.activeIndex[k] # v
      BY <1>2, <2>2 DEF Good, ActiveOwn, None
    <3> QED BY <3>1, <3>2
  <2> QED BY <2>1, <2>2
<1>6. /\ RemoveFirst(st.chains[r.key], v) \in Seq(1..n)
      /\ Ascending(RemoveFirst(st.chains[r.key], v))
      /\ ToSet(RemoveFirst(st.chains[r.key], v)) = ToSet(st.chains[r.key]) \ {v}
  <2>1. st.chains[r.key] \in Seq(1..n) /\ Ascending(st.chains[r.key])
    BY <1>2, <1>3 DEF Good, ChainsList
  <2>2. v \in ToSet(st.chains[r.key])
    BY <1>3 DEF Good, ChainsList
  <2>3. 1..n \subseteq Nat
    OBVIOUS
  <2> QED BY <2>1, <2>2, <2>3, RemoveFirstAscending
<1> HIDE DEF r, rem
<1>7. Typed(rem, n)
  <2>1. /\ DOMAIN rem.records \subseteq 1..n
        /\ \A id \in DOMAIN rem.records : rem.records[id] \in Record
    BY <1>2, <1>4
  <2>2. rem.chains \in [Keys -> Seq(1..n)]
    BY <1>1, <1>2, <1>6
  <2>3. rem.activeIndex \in [Keys -> 0..n]
    <3>1. \A k \in Keys : rem.activeIndex[k] \in 0..n
      BY <1>2, <1>5 DEF None
    <3>2. rem.activeIndex = [k \in Keys |-> rem.activeIndex[k]]
      BY <1>1, <1>2
    <3> QED BY <3>1, <3>2
  <2>4. rem.cliIndex \in [Sessions -> 0..n]
    <3>1. None \in 0..n
      BY DEF None
    <3> QED BY <1>1, <1>2, <3>1
  <2> QED BY <2>1, <2>2, <2>3, <2>4 DEF Typed
<1>8. CliNewest(rem)
  <2> SUFFICES ASSUME NEW x \in Sessions, rem.cliIndex[x] # None
               PROVE  /\ rem.cliIndex[x] \in DOMAIN rem.records
                      /\ rem.records[rem.cliIndex[x]].cli = x
                      /\ \A id \in DOMAIN rem.records :
                           rem.records[id].cli = x => id <= rem.cliIndex[x]
    BY DEF CliNewest
  <2>1. x # r.cli /\ rem.cliIndex[x] = st.cliIndex[x]
    BY <1>1, <1>2, <1>3
  <2>2. /\ st.cliIndex[x] \in DOMAIN st.records
        /\ st.records[st.cliIndex[x]].cli = x
        /\ \A id \in DOMAIN st.records : st.records[id].cli = x => id <= st.cliIndex[x]
    BY <2>1 DEF Good, CliNewest
  <2>3. st.cliIndex[x] # v
    BY <2>1, <2>2 DEF r
  <2> QED BY <1>4, <2>1, <2>2, <2>3
<1>9. ChainsList(rem)
  <2> SUFFICES ASSUME NEW x \in Keys
               PROVE  /\ ToSet(rem.chains[x]) = {id \in DOMAIN rem.records : rem.records[id].key = x}
                      /\ Ascending(rem.chains[x])
    BY DEF ChainsList
  <2>1. /\ ToSet(st.chains[x]) = {id \in DOMAIN st.records : st.records[id].key = x}
        /\ Ascending(st.chains[x])
    BY DEF Good, ChainsList
  <2>2. CASE x = r.key
    <3>1. rem.chains[x] = RemoveFirst(st.chains[x], v)
      BY <1>1, <1>2, <2>2
    <3> QED BY <1>4, <1>6, <2>1, <2>2, <3>1
  <2>3. CASE x # r.key
    <3>1. rem.chains[x] = st.chains[x]
      BY <1>1, <1>2, <2>3
    <3>2. v \notin {id \in DOMAIN st.records : st.records[id].key = x}
      BY <2>3 DEF r
    <3> QED BY <1>4, <2>1, <3>1, <3>2
  <2> QED BY <2>2, <2>3
<1>10. ActiveOwn(rem)
  <2> SUFFICES ASSUME NEW x \in Keys, rem.activeIndex[x] # None
               PROVE  /\ rem.activeIndex[x] \in DOMAIN rem.records
                      /\ rem.records[rem.activeIndex[x]].status = "active"
                      /\ rem.records[rem.activeIndex[x]].key = x
    BY DEF ActiveOwn
  <2>1. rem.activeIndex[x] = st.activeIndex[x] /\ st.activeIndex[x] # v
    BY <1>5
  <2> QED BY <1>4, <2>1 DEF Good, ActiveOwn
<1> QED BY <1>4, <1>5, <1>7, <1>8, <1>9, <1>10 DEF Good, rem

-------------------------------------------------------------------------------
LEMMA BecomesGood ==
  ASSUME NEW st, NEW n, Good(st, n), Becomes(st)
  PROVE  Good(Store', n)
<1>1. /\ Store'.records = st.records /\ Store'.chains = st.chains
      /\ Store'.activeIndex = st.activeIndex /\ Store'.cliIndex = st.cliIndex
  BY DEF Becomes, Store
<1> QED BY <1>1 DEF Good, Typed, CliNewest, ChainsList, ActiveOwn

(* What evictOne may choose is a record no key points to.                  *)
LEMMA VictimSpares ==
  ASSUME NEW st, NEW n, Good(st, n), NEW v \in victims(st)
  PROVE  v \in DOMAIN st.records /\ \A k \in Keys : st.activeIndex[k] # v
<1>1. v \in DOMAIN st.records
  BY DEF victims
<1>2. ASSUME NEW k \in Keys, st.activeIndex[k] = v PROVE FALSE
  <2>1. v # None
    BY <1>1 DEF Good, Typed, None
  <2>2. st.records[v].status = "active"
    BY <1>2, <2>1 DEF Good, ActiveOwn
  <2> QED BY <1>2, <2>2 DEF victims
<1> QED BY <1>1, <1>2

(* A key loses its record only to a newer one.                              *)
CurrentStays ==
  \A k \in Keys :
    activeIndex[k] # None /\ activeIndex[k] \notin DOMAIN records' =>
      activeIndex'[k] \notin {None, activeIndex[k]}

LEMMA StoreFacts ==
  ASSUME Good(Store, created)
  PROVE  /\ DOMAIN records \subseteq 1..created
         /\ \A id \in DOMAIN records : records[id] \in Record
         /\ activeIndex \in [Keys -> 0..created]
         /\ cliIndex \in [Sessions -> 0..created]
         /\ \A k \in Keys : activeIndex[k] # None => activeIndex[k] \in DOMAIN records
         /\ \A s \in Sessions : cliIndex[s] # None => cliIndex[s] \in DOMAIN records
BY DEF Good, Typed, CliNewest, ActiveOwn, Store

LEMMA SameStore ==
  ASSUME StoreInv, UNCHANGED store
  PROVE  StoreInv' /\ created' = created /\ CurrentStays
<1>1. UNCHANGED <<records, chains, activeIndex, cliIndex, created>>
  BY DEF store
<1>2. Store' = Store
  BY <1>1 DEF Store
<1> QED BY <1>1, <1>2, StoreFacts DEF StoreInv, CapacityKept, CurrentStays

(* Create keeps to the capacity: it makes room for what it inserts, or     *)
(* takes it out again.                                                     *)
LEMMA CreatedKeeps ==
  ASSUME StoreInv, NEW s \in Sessions, NEW id, Created(s, id)
  PROVE  /\ StoreInv' /\ created' = created + 1 /\ CurrentStays
         /\ id \in 0..created'
<1> DEFINE n == created + 1
           st == insert(Store, n, s)
<1>1. /\ created \in Nat /\ created' = n /\ created' \in 0..MaxCreated
  BY BoundAssumption DEF StoreInv, Created
<1>2. Store.records = records /\ Store.activeIndex = activeIndex
  BY DEF Store
<1>3. /\ Good(st, n)
      /\ DOMAIN st.records = DOMAIN records \cup {n}
      /\ st.activeIndex = [activeIndex EXCEPT ![Owner[s]] = n]
  BY <1>1, <1>2, InsertGood DEF StoreInv
<1>4. /\ DOMAIN records \subseteq 1..created
      /\ activeIndex \in [Keys -> 0..created]
      /\ \A k \in Keys : activeIndex[k] # None => activeIndex[k] \in DOMAIN records
  BY StoreFacts DEF StoreInv
<1>5. /\ IsFiniteSet(DOMAIN records) /\ IsFiniteSet(DOMAIN st.records)
      /\ Cardinality(DOMAIN records) \in Nat
      /\ Cardinality(DOMAIN records) <= maxRecords
      /\ Cardinality(DOMAIN st.records) = Cardinality(DOMAIN records) + 1
  <2>1. IsFiniteSet(DOMAIN records)
    BY <1>1, <1>4, FS_Interval, FS_Subset
  <2>2. n \notin DOMAIN records
    BY <1>1, <1>4
  <2> QED BY <1>3, <2>1, <2>2, FS_AddElement, FS_CardinalityType DEF StoreInv, CapacityKept
<1> HIDE DEF st
<1>6. \/ Cardinality(DOMAIN st.records) <= maxRecords /\ Becomes(st) /\ id = n
      \/ \E v \in victims(st) : Becomes(removeRecord(st, v)) /\ id = n
      \/ Becomes(removeRecord(st, n)) /\ id = None
  BY DEF Created, st
<1>7. CASE Cardinality(DOMAIN st.records) <= maxRecords /\ Becomes(st) /\ id = n
  <2>1. Good(Store', created')
    BY <1>1, <1>3, <1>7, BecomesGood
  <2>2. DOMAIN records' = DOMAIN st.records
    BY <1>7 DEF Becomes
  <2>3. CapacityKept'
    BY <1>7, <2>2 DEF CapacityKept
  <2>4. CurrentStays
    BY <1>3, <1>4, <2>2 DEF CurrentStays
  <2> QED BY <1>1, <1>7, <2>1, <2>3, <2>4 DEF StoreInv
<1>8. ASSUME NEW v \in victims(st), Becomes(removeRecord(st, v)), id = n
      PROVE  /\ StoreInv' /\ created' = created + 1 /\ CurrentStays
             /\ id \in 0..created'
  <2>1. v \in DOMAIN st.records /\ \A k \in Keys : st.activeIndex[k] # v
    BY <1>3, VictimSpares
  <2>2. /\ Good(removeRecord(st, v), n)
        /\ DOMAIN removeRecord(st, v).records = DOMAIN st.records \ {v}
        /\ \A k \in Keys : removeRecord(st, v).activeIndex[k] =
                             IF st.activeIndex[k] = v THEN None ELSE st.activeIndex[k]
    <3>1. n \in Nat /\ Good(st, n) /\ v \in DOMAIN st.records
      BY <1>1, <1>3, <2>1
    <3> HIDE DEF n
    <3> QED BY <3>1, RemoveGood, Zenon
  <2>3. /\ DOMAIN records' = DOMAIN st.records \ {v}
        /\ \A k \in Keys : activeIndex'[k] = st.activeIndex[k]
    BY <1>8, <2>1, <2>2 DEF Becomes
  <2>4. Good(Store', created')
    BY <1>1, <1>8, <2>2, BecomesGood
  <2>5. CapacityKept'
    <3>1. Cardinality(DOMAIN st.records \ {v}) = Cardinality(DOMAIN st.records) - 1
      BY <1>5, <2>1, FS_RemoveElement
    <3> QED BY <1>5, <2>3, <3>1 DEF CapacityKept
  <2>6. CurrentStays
    <3> SUFFICES ASSUME NEW k \in Keys, activeIndex[k] # None, activeIndex[k] \notin DOMAIN records'
                 PROVE  activeIndex'[k] \notin {None, activeIndex[k]}
      BY DEF CurrentStays
    <3>1. activeIndex[k] = v
      BY <1>3, <1>4, <2>3
    <3>2. k = Owner[s] /\ activeIndex'[k] = n
      BY <1>3, <1>4, <2>1, <2>3, <3>1
    <3> QED BY <1>1, <1>4, <3>2 DEF None
  <2> QED BY <1>1, <1>8, <2>4, <2>5, <2>6 DEF StoreInv
<1>9. CASE Becomes(removeRecord(st, n)) /\ id = None
  <2>1. n \in DOMAIN st.records /\ n \notin DOMAIN records
    BY <1>1, <1>3, <1>4
  <2>2. /\ Good(removeRecord(st, n), n)
        /\ DOMAIN removeRecord(st, n).records = DOMAIN st.records \ {n}
    BY <1>1, <1>3, <2>1, RemoveGood
  <2>3. DOMAIN records' = DOMAIN records
    BY <1>3, <1>9, <2>1, <2>2 DEF Becomes
  <2>4. Good(Store', created')
    BY <1>1, <1>9, <2>2, BecomesGood
  <2> QED BY <1>1, <1>4, <1>5, <1>9, <2>3, <2>4 DEF StoreInv, CapacityKept, CurrentStays, None
<1> QED BY <1>6, <1>7, <1>8, <1>9

(* A record that changes its status is no longer what its key points to.   *)
LEMMA UpdateKeeps ==
  ASSUME StoreInv, NEW id, NEW status \in {"sealing", "sealed"}, Update(id, status)
  PROVE  StoreInv' /\ created' = created /\ CurrentStays /\ DOMAIN records' = DOMAIN records
<1>1. CASE id \notin DOMAIN records
  <2>1. UNCHANGED store
    BY <1>1 DEF Update
  <2> QED BY <2>1, SameStore DEF store
<1>2. CASE id \in DOMAIN records
  <2>1. /\ records' = [records EXCEPT ![id].status = status]
        /\ activeIndex' = [k \in Keys |-> IF activeIndex[k] = id THEN None ELSE activeIndex[k]]
        /\ UNCHANGED <<chains, cliIndex, created>>
    BY <1>2 DEF Update
  <2>2. /\ DOMAIN records' = DOMAIN records
        /\ \A i \in DOMAIN records :
             /\ records'[i].key = records[i].key /\ records'[i].cli = records[i].cli
             /\ records'[i] \in Record
             /\ i # id => records'[i].status = records[i].status
    BY <2>1, StoreFacts DEF StoreInv, Record
  <2>3. Good(Store', created')
    <3> USE DEF Store
    <3>1. Typed(Store, created) /\ CliNewest(Store) /\ ChainsList(Store) /\ ActiveOwn(Store)
      BY DEF StoreInv, Good
    <3>2. Typed(Store', created')
      <4>1. created \in Nat /\ activeIndex \in [Keys -> 0..created]
        BY <3>1, BoundAssumption DEF Typed, StoreInv
      <4>2. activeIndex' \in [Keys -> 0..created]
        BY <2>1, <4>1 DEF None
      <4> QED BY <2>1, <2>2, <3>1, <4>2 DEF Typed
    <3>3. CliNewest(Store')
      BY <2>1, <2>2, <3>1 DEF CliNewest
    <3>4. ChainsList(Store')
      BY <2>1, <2>2, <3>1 DEF ChainsList
    <3>5. ActiveOwn(Store')
      BY <2>1, <2>2, <3>1 DEF ActiveOwn
    <3> QED BY <3>2, <3>3, <3>4, <3>5 DEF Good
  <2> QED BY <2>1, <2>2, <2>3, StoreFacts DEF StoreInv, CapacityKept, CurrentStays
<1> QED BY <1>1, <1>2

LEMMA SetFailuresKeeps ==
  ASSUME StoreInv, NEW s \in Sessions, NEW n \in Nat, SetFailures(s, n)
  PROVE  StoreInv' /\ created' = created /\ CurrentStays
<1>1. /\ DOMAIN records' = DOMAIN records
      /\ \A i \in DOMAIN records :
           /\ records'[i].key = records[i].key /\ records'[i].cli = records[i].cli
           /\ records'[i].status = records[i].status
           /\ records'[i] \in Record
  BY StoreFacts DEF StoreInv, SetFailures, Record
<1>2. UNCHANGED <<chains, activeIndex, cliIndex, created>>
  BY DEF SetFailures
<1>3. Good(Store', created')
  <2> USE DEF Store
  <2>1. Typed(Store, created) /\ CliNewest(Store) /\ ChainsList(Store) /\ ActiveOwn(Store)
    BY DEF StoreInv, Good
  <2>2. Typed(Store', created')
    BY <1>1, <1>2, <2>1 DEF Typed
  <2>3. CliNewest(Store')
    BY <1>1, <1>2, <2>1 DEF CliNewest
  <2>4. ChainsList(Store')
    BY <1>1, <1>2, <2>1 DEF ChainsList
  <2>5. ActiveOwn(Store')
    BY <1>1, <1>2, <2>1 DEF ActiveOwn
  <2> QED BY <2>2, <2>3, <2>4, <2>5 DEF Good
<1> QED BY <1>1, <1>2, <1>3, StoreFacts DEF StoreInv, CapacityKept, CurrentStays

-------------------------------------------------------------------------------
LEMMA InitInv == Init => Inv
<1> SUFFICES ASSUME Init PROVE Inv
  OBVIOUS
<1> USE BoundAssumption DEF Init, Store, None
<1>1. DOMAIN records = {}
  OBVIOUS
<1>2. Typed(Store, created)
  <2>1. \A k \in Keys : chains[k] \in Seq(1..0)
    BY EmptySeq
  <2> QED BY <1>1, <2>1 DEF Typed
<1>3. CliNewest(Store) /\ ActiveOwn(Store)
  BY DEF CliNewest, ActiveOwn
<1>4. ChainsList(Store)
  <2>1. \A k \in Keys : chains[k] = <<>> /\ DOMAIN chains[k] = {}
    OBVIOUS
  <2> QED BY <1>1, <2>1 DEF ChainsList, ToSet, Ascending
<1>5. CapacityKept
  BY <1>1, FS_EmptySet DEF CapacityKept
<1>6. ExecType /\ ExecOK
  BY DEF ExecType, ExecRecord, ExecOK, Going, Idle, Stage, Resuming
<1> QED BY <1>2, <1>3, <1>4, <1>5, <1>6 DEF Inv, StoreInv, Good

(* One execution moves; ids that were handed out stay so.                  *)
LEMMA MoveExec ==
  ASSUME Inv, created <= created', created' \in Nat,
         NEW e \in Executions, NEW x \in ExecRecord(created'), Going(x),
         exec' = [exec EXCEPT ![e] = x],
         finalizing' \subseteq 1..created', held' \subseteq Keys
  PROVE  ExecType' /\ ExecOK'
<1>1. created \in Nat
  BY BoundAssumption DEF Inv, StoreInv
<1>2. \A y \in ExecRecord(created) : y \in ExecRecord(created')
  BY <1>1 DEF ExecRecord
<1>3. \A d \in Executions : exec'[d] = IF d = e THEN x ELSE exec[d]
  BY DEF Inv, ExecType
<1>4. \A d \in Executions : exec'[d] \in ExecRecord(created') /\ Going(exec'[d])
  BY <1>2, <1>3 DEF Inv, ExecType, ExecOK
<1>5. exec' = [d \in Executions |-> exec'[d]]
  BY DEF Inv, ExecType
<1> QED BY <1>4, <1>5 DEF ExecType, ExecOK

(* What is known of an execution that is about to move.                    *)
LEMMA ExecFacts ==
  ASSUME Inv, NEW e \in Executions
  PROVE  /\ exec[e] \in ExecRecord(created) /\ created \in Nat
         /\ exec[e].stage # "idle" => exec[e].cli \in Sessions /\ Owner[exec[e].cli] \in Keys
         /\ exec[e].stage \in Resuming => exec[e].resumed
         /\ finalizing \subseteq 1..created /\ held \subseteq Keys
         /\ Idle \in ExecRecord(created) /\ Going(Idle)
         /\ exec[e].stage # "idle" => failures(exec[e].cli) \in Nat
<1>1. exec[e] \in ExecRecord(created) /\ created \in Nat
  BY BoundAssumption DEF Inv, StoreInv, ExecType
<1>2. /\ exec[e].stage # "idle" => exec[e].cli \in Sessions /\ Owner[exec[e].cli] \in Keys
      /\ exec[e].stage \in Resuming => exec[e].resumed
  BY OwnerAssumption DEF Inv, ExecOK, Going
<1>3. exec[e].stage # "idle" => failures(exec[e].cli) \in Nat
  BY <1>2, StoreFacts DEF Inv, StoreInv, failures, Record
<1> QED BY <1>1, <1>2, <1>3 DEF Inv, ExecType, ExecRecord, Going, Idle, Stage, Resuming, None

(* A step of one execution that keeps the store keeps everything.          *)
LEMMA StepDone ==
  ASSUME Inv, StoreInv', CurrentStays, created' \in {created, created + 1},
         NEW e \in Executions, NEW y, y \in ExecRecord(created') /\ Going(y),
         exec' = [exec EXCEPT ![e] = y],
         finalizing' \subseteq 1..created' /\ held' \subseteq Keys
  PROVE  Inv' /\ CurrentStays
<1>1. created <= created' /\ created' \in Nat
  BY BoundAssumption DEF Inv, StoreInv
<1>2. ExecType' /\ ExecOK'
  BY <1>1, MoveExec
<1> QED BY <1>2 DEF Inv

(* An execution goes on to a stage, with a record id.                      *)
Goes(e, stage, id, overflow) ==
  exec' = [exec EXCEPT ![e] = [@ EXCEPT !.stage = stage, !.id = id, !.overflow = overflow]]

LEMMA GoesDone ==
  ASSUME Inv, StoreInv', CurrentStays, created' \in {created, created + 1},
         NEW e \in Executions, exec[e].cli \in Sessions,
         NEW stage \in Stage, stage \in Resuming => exec[e].resumed,
         NEW id \in 0..created', NEW overflow \in BOOLEAN, Goes(e, stage, id, overflow),
         finalizing' \subseteq 1..created' /\ held' \subseteq Keys
  PROVE  Inv' /\ CurrentStays
<1> DEFINE y == [exec[e] EXCEPT !.stage = stage, !.id = id, !.overflow = overflow]
<1>1. exec[e] \in ExecRecord(created) /\ created \in Nat
  BY ExecFacts
<1>2. y \in ExecRecord(created') /\ y.stage = stage /\ y.cli = exec[e].cli
      /\ y.resumed = exec[e].resumed
  BY <1>1 DEF ExecRecord
<1>3. exec' = [exec EXCEPT ![e] = y]
  BY DEF Goes
<1> HIDE DEF y
<1>4. Going(y)
  BY <1>2 DEF Going
<1> QED BY <1>2, <1>3, <1>4, StepDone

(* So does a return, whether the mutex is freed or handed to a waiter.     *)
LEMMA ReturnDone ==
  ASSUME Inv, StoreInv', CurrentStays, created' = created,
         NEW e \in Executions, exec[e].stage \notin {"idle", "waiting"}, Return(e),
         finalizing' = finalizing
  PROVE  Inv' /\ CurrentStays
<1>1. /\ exec[e].cli \in Sessions /\ finalizing \subseteq 1..created /\ held \subseteq Keys
      /\ Idle \in ExecRecord(created) /\ Going(Idle)
  BY ExecFacts
<1>2. exec \in [Executions -> ExecRecord(created)]
  BY DEF Inv, ExecType
<1>3. CASE exec' = [exec EXCEPT ![e] = Idle] /\ held' \subseteq held
  <2>1. finalizing' \subseteq 1..created' /\ held' \subseteq Keys
    BY <1>1, <1>3
  <2> QED BY StepDone, <1>1, <1>3, <2>1
<1>4. ASSUME NEW w \in Waiting(Owner[exec[e].cli]),
             exec' = [exec EXCEPT ![e] = Idle, ![w].stage = "handed"], held' = held
      PROVE  Inv' /\ CurrentStays
  <2> DEFINE z == [exec[w] EXCEPT !.stage = "handed"]
  <2>1. w \in Executions /\ exec[w].stage = "waiting" /\ w # e
    BY DEF Waiting
  <2>2. exec[w] \in ExecRecord(created) /\ exec[w].cli \in Sessions /\ exec[w].resumed
    <3>1. exec[w].stage \in Resuming /\ exec[w].stage # "idle"
      BY <2>1 DEF Resuming
    <3> QED BY <2>1, <3>1, ExecFacts
  <2>3. /\ z \in ExecRecord(created) /\ z.cli = exec[w].cli /\ z.resumed = exec[w].resumed
    BY <2>2 DEF ExecRecord, Stage
  <2>4. exec' = [exec EXCEPT ![e] = Idle, ![w] = z]
    BY <1>2, <1>4, <2>1
  <2> HIDE DEF z
  <2>5. Going(z)
    BY <2>2, <2>3 DEF Going
  <2>6. \A d \in Executions : exec[d] \in ExecRecord(created) /\ Going(exec[d])
    BY <1>2 DEF Inv, ExecOK
  <2>7. \A d \in Executions : exec'[d] \in ExecRecord(created) /\ Going(exec'[d])
    BY <1>1, <1>2, <2>1, <2>3, <2>4, <2>5, <2>6
  <2>8. exec' \in [Executions -> ExecRecord(created)]
    BY <1>2, <2>4, <2>7
  <2> QED BY <1>1, <1>4, <2>7, <2>8 DEF Inv, ExecType, ExecOK
<1> QED BY <1>3, <1>4 DEF Return

LEMMA StepKeeps ==
  ASSUME Inv, NEW e \in Executions, Step(e)
  PROVE  Inv' /\ CurrentStays
<1> DEFINE x == exec[e]
<1>0. /\ x \in ExecRecord(created) /\ created \in Nat
      /\ x.stage # "idle" => x.cli \in Sessions /\ Owner[x.cli] \in Keys
      /\ x.stage \in Resuming => x.resumed
      /\ finalizing \subseteq 1..created /\ held \subseteq Keys
      /\ Idle \in ExecRecord(created) /\ Going(Idle)
      /\ x.stage # "idle" => failures(x.cli) \in Nat
  BY ExecFacts
<1>a. StoreInv
  BY DEF Inv
<1>b. exec \in [Executions -> ExecRecord(created)]
  BY DEF Inv, ExecType
<1>1. ASSUME NEW s \in Sessions, BeginResume(e, s) PROVE Inv' /\ CurrentStays
  <2> DEFINE st == IF Owner[s] \notin held THEN "checking" ELSE "contended"
             y == [Idle EXCEPT !.stage = st, !.cli = s, !.resumed = TRUE]
  <2>1. StoreInv' /\ created' = created /\ CurrentStays
    BY <1>1, <1>a, SameStore DEF BeginResume
  <2>2. y \in ExecRecord(created') /\ Going(y)
    BY <1>0, <2>1 DEF ExecRecord, Going, Idle, Stage, Resuming
  <2>3. held' \subseteq Keys
    BY <1>0, <1>1, OwnerAssumption DEF BeginResume
  <2>4. exec' = [exec EXCEPT ![e] = y] /\ finalizing' \subseteq 1..created'
    BY <1>0, <1>1, <2>1 DEF BeginResume
  <2> HIDE DEF y
  <2> QED BY StepDone, <2>1, <2>2, <2>3, <2>4
<1>2. ASSUME NEW s \in Sessions, BeginUnlocked(e, s) PROVE Inv' /\ CurrentStays
  <2> DEFINE y == [Idle EXCEPT !.stage = "running", !.cli = s]
  <2>1. StoreInv' /\ created' = created /\ CurrentStays
    BY <1>2, <1>a, SameStore DEF BeginUnlocked
  <2>2. y \in ExecRecord(created') /\ Going(y)
    BY <1>0, <2>1 DEF ExecRecord, Going, Idle, Stage, Resuming
  <2> HIDE DEF y
  <2>3. exec' = [exec EXCEPT ![e] = y] /\ finalizing' \subseteq 1..created' /\ held' \subseteq Keys
    BY <1>0, <1>2, <2>1 DEF BeginUnlocked, y
  <2> QED BY StepDone, <2>1, <2>2, <2>3
<1>3. CASE CheckBreaker(e)
  <2>1. StoreInv' /\ created' = created /\ CurrentStays
    BY <1>3, <1>a, SameStore DEF CheckBreaker
  <2> DEFINE id == getActive(Owner[x.cli])
             tripped == id # None /\ records[id].failures >= MaxConsecutiveFailures
             stage == IF tripped THEN "tripped" ELSE "running"
             i == IF tripped THEN id ELSE None
  <2>2. x.stage = "checking" /\ exec' = [exec EXCEPT ![e].stage = stage, ![e].id = i]
    BY <1>3 DEF CheckBreaker
  <2>3. x.cli \in Sessions /\ x.resumed /\ Owner[x.cli] \in Keys
    BY <1>0, <2>2 DEF Resuming
  <2>4. i \in 0..created /\ stage \in Stage
    BY <1>0, <1>a, <2>3, StoreFacts DEF StoreInv, getActive, Stage, None
  <2> HIDE DEF stage, i
  <2>5. Goes(e, stage, i, x.overflow) /\ x.overflow \in BOOLEAN
    BY <1>0, <1>b, <2>2 DEF Goes, ExecRecord
  <2>6. finalizing' \subseteq 1..created' /\ held' \subseteq Keys
    BY <1>0, <1>3, <2>1 DEF CheckBreaker
  <2> QED BY GoesDone, <2>1, <2>3, <2>4, <2>5, <2>6
<1>4. CASE TripBreaker(e)
  <2>1. StoreInv' /\ created' = created /\ CurrentStays
    BY <1>4, <1>a, UpdateKeeps DEF TripBreaker
  <2>2. x.stage = "tripped" /\ finalizing' \subseteq 1..created' /\ held' \subseteq Keys
    BY <1>0, <1>4, <2>1 DEF TripBreaker
  <2>3. CASE x.id \in DOMAIN records
    <3>1. exec' = [exec EXCEPT ![e] = Idle]
      BY <1>4, <2>3 DEF TripBreaker
    <3> QED BY <1>0, StepDone, <2>1, <2>2, <3>1
  <2>4. CASE x.id \notin DOMAIN records
    <3>1. exec' = [exec EXCEPT ![e] = [@ EXCEPT !.stage = "running", !.id = None]]
      BY <1>4, <2>4 DEF TripBreaker
    <3>2. Goes(e, "running", None, x.overflow) /\ x.overflow \in BOOLEAN
      BY <1>0, <1>b, <3>1 DEF Goes, ExecRecord
    <3>3. /\ "running" \in Stage /\ "running" \notin Resuming
          /\ None \in 0..created' /\ x.cli \in Sessions
      BY <1>0, <2>1, <2>2 DEF Stage, Resuming, None
    <3> QED BY GoesDone, <2>1, <2>2, <3>2, <3>3
  <2> QED BY <2>3, <2>4
<1>5. CASE Abandon(e)
  <2>1. StoreInv' /\ created' = created /\ CurrentStays
    BY <1>5, <1>a, SameStore DEF Abandon
  <2>2. Return(e) /\ finalizing' = finalizing /\ x.stage = "running"
    BY <1>5 DEF Abandon
  <2> QED BY ReturnDone, <2>1, <2>2
<1>6. CASE RecordSuccessful(e)
  <2> DEFINE y == [x EXCEPT !.stage = "resetting"]
  <2>1. StoreInv' /\ created' = created + 1 /\ CurrentStays
    BY <1>0, <1>6, <1>a, CreatedKeeps DEF RecordSuccessful
  <2>2. y \in ExecRecord(created') /\ Going(y)
    BY <1>0, <1>6, <2>1 DEF ExecRecord, Going, Stage, Resuming, RecordSuccessful
  <2> HIDE DEF y
  <2>3. exec' = [exec EXCEPT ![e] = y] /\ finalizing' \subseteq 1..created' /\ held' \subseteq Keys
    BY <1>0, <1>6, <2>1 DEF RecordSuccessful, y
  <2> QED BY StepDone, <2>1, <2>2, <2>3
<1>7. CASE ResetConsecutiveFailures(e)
  <2>1. StoreInv' /\ created' = created /\ CurrentStays
    BY <1>0, <1>7, <1>a, SetFailuresKeeps DEF ResetConsecutiveFailures
  <2>2. Return(e) /\ finalizing' = finalizing /\ x.stage = "resetting"
    BY <1>7 DEF ResetConsecutiveFailures
  <2> QED BY ReturnDone, <2>1, <2>2
<1>8. ASSUME NEW overflow \in BOOLEAN, RecordFailed(e, overflow) PROVE Inv' /\ CurrentStays
  <2>1. PICK i : /\ Created(x.cli, i)
                 /\ exec' = [exec EXCEPT ![e].stage = IF i = None THEN "counting" ELSE "recorded",
                                         ![e].id = i, ![e].overflow = overflow]
    BY <1>8 DEF RecordFailed
  <2> DEFINE stage == IF i = None THEN "counting" ELSE "recorded"
  <2>2. x.stage = "running" /\ x.cli \in Sessions
    BY <1>0, <1>8 DEF RecordFailed
  <2>3. StoreInv' /\ created' = created + 1 /\ CurrentStays /\ i \in 0..created'
    BY <1>a, <2>1, <2>2, CreatedKeeps
  <2>4. stage \in Stage /\ stage \notin Resuming
    BY DEF Stage, Resuming
  <2>5. exec' = [exec EXCEPT ![e].stage = stage, ![e].id = i, ![e].overflow = overflow]
    BY <2>1
  <2> HIDE DEF stage
  <2>6. Goes(e, stage, i, overflow)
    BY <1>0, <1>b, <2>5 DEF Goes, ExecRecord
  <2>7. finalizing' \subseteq 1..created' /\ held' \subseteq Keys
    BY <1>0, <1>8, <2>3 DEF RecordFailed
  <2> QED BY GoesDone, <2>2, <2>3, <2>4, <2>6, <2>7
<1>9. CASE RequestSeal(e)
  <2>1. StoreInv' /\ created' = created /\ CurrentStays
    BY <1>9, <1>a, SameStore DEF RequestSeal
  <2> DEFINE sealable == x.id \in DOMAIN records /\ records[x.id].status = "active"
             stage == IF sealable THEN "sealable" ELSE "counting"
             i == IF sealable THEN x.id ELSE None
  <2>2. x.stage = "recorded" /\ exec' = [exec EXCEPT ![e].stage = stage, ![e].id = i]
    BY <1>9 DEF RequestSeal
  <2>3. /\ x.cli \in Sessions /\ i \in 0..created
        /\ stage \in Stage /\ stage \notin Resuming
    BY <1>0, <2>2 DEF Stage, Resuming, ExecRecord, None
  <2> HIDE DEF stage, i
  <2>4. Goes(e, stage, i, x.overflow) /\ x.overflow \in BOOLEAN
    BY <1>0, <1>b, <2>2 DEF Goes, ExecRecord
  <2>5. finalizing' \subseteq 1..created' /\ held' \subseteq Keys
    BY <1>0, <1>9, <2>1 DEF RequestSeal
  <2> QED BY GoesDone, <2>1, <2>3, <2>4, <2>5
<1>10. CASE Seal(e)
  <2>1. StoreInv' /\ created' = created /\ CurrentStays
    BY <1>10, <1>a, UpdateKeeps DEF Seal
  <2>2. x.stage = "sealable" /\ exec' = [exec EXCEPT ![e].stage = "counting", ![e].id = None]
    BY <1>10 DEF Seal
  <2>3. /\ x.cli \in Sessions /\ None \in 0..created'
        /\ "counting" \in Stage /\ "counting" \notin Resuming
    BY <1>0, <2>1, <2>2 DEF Stage, Resuming, None
  <2>4. Goes(e, "counting", None, x.overflow) /\ x.overflow \in BOOLEAN
    BY <1>0, <1>b, <2>2 DEF Goes, ExecRecord
  <2>5. finalizing' \subseteq 1..created' /\ held' \subseteq Keys
    <3>1. DOMAIN records \subseteq 1..created
      BY <1>a, StoreFacts DEF StoreInv
    <3> QED BY <1>0, <1>10, <2>1, <3>1 DEF Seal
  <2> QED BY GoesDone, <2>1, <2>3, <2>4, <2>5
<1>11. CASE CountFailure(e)
  <2>1. StoreInv' /\ created' = created /\ CurrentStays
    <3>1. x.stage = "counting" /\ failures(x.cli) + 1 \in Nat
      BY <1>0, <1>11 DEF CountFailure
    <3>2. CASE x.overflow
      <4>1. SetFailures(x.cli, failures(x.cli) + 1)
        BY <1>11, <3>2 DEF CountFailure
      <4> QED BY <1>0, <1>a, <3>1, <4>1, SetFailuresKeeps
    <3>3. CASE ~x.overflow
      BY <1>11, <1>a, <3>3, SameStore DEF CountFailure
    <3> QED BY <3>2, <3>3
  <2>2. Return(e) /\ finalizing' = finalizing /\ x.stage = "counting"
    BY <1>11 DEF CountFailure
  <2> QED BY ReturnDone, <2>1, <2>2
<1>12. CASE Enqueue(e) \/ Acquired(e)
  <2>1. StoreInv' /\ created' = created /\ CurrentStays
    BY <1>12, <1>a, SameStore DEF Enqueue, Acquired
  <2>2. PICK stage \in {"waiting", "checking"} :
          /\ x.stage \in {"contended", "handed"}
          /\ exec' = [exec EXCEPT ![e].stage = stage]
    BY <1>12 DEF Enqueue, Acquired
  <2>3. x.cli \in Sessions /\ x.resumed /\ stage \in Stage
    BY <1>0, <2>2 DEF Resuming, Stage
  <2>4. /\ Goes(e, stage, x.id, x.overflow)
        /\ x.overflow \in BOOLEAN /\ x.id \in 0..created'
    BY <1>0, <1>b, <2>1, <2>2 DEF Goes, ExecRecord
  <2>5. finalizing' \subseteq 1..created' /\ held' \subseteq Keys
    BY <1>0, <1>12, <2>1 DEF Enqueue, Acquired
  <2> QED BY GoesDone, <2>1, <2>3, <2>4, <2>5
<1>13. CASE AcquireFailed(e)
  <2>1. StoreInv' /\ created' = created /\ CurrentStays
    BY <1>13, <1>a, SameStore DEF AcquireFailed
  <2>2. exec' = [exec EXCEPT ![e] = Idle] /\ finalizing' \subseteq 1..created' /\ held' \subseteq Keys
    BY <1>0, <1>13, <2>1 DEF AcquireFailed
  <2> QED BY <1>0, StepDone, <2>1, <2>2
<1> QED BY <1>1, <1>2, <1>3, <1>4, <1>5, <1>6, <1>7, <1>8, <1>9, <1>10, <1>11, <1>12, <1>13 DEF Step

LEMMA NextKeeps == Inv /\ [Next]_vars => Inv' /\ CurrentStays
<1> SUFFICES ASSUME Inv, [Next]_vars PROVE Inv' /\ CurrentStays
  OBVIOUS
<1>1. ASSUME NEW i \in finalizing, Finalize(i) PROVE Inv' /\ CurrentStays
  <2>1. StoreInv' /\ created' = created /\ CurrentStays
    <3>1. StoreInv
      BY DEF Inv
    <3>2. Update(i, "sealed") \/ UNCHANGED store
      BY <1>1 DEF Finalize
    <3> QED BY <3>1, <3>2, UpdateKeeps, SameStore
  <2>2. ExecType' /\ ExecOK'
    BY <1>1, <2>1 DEF Finalize, Inv, ExecType, ExecOK
  <2> QED BY <2>1, <2>2 DEF Inv
<1>2. CASE UNCHANGED vars
  <2>1. StoreInv' /\ created' = created /\ CurrentStays
    BY <1>2, SameStore DEF vars, store, Inv
  <2>2. ExecType' /\ ExecOK'
    BY <1>2, <2>1 DEF vars, Inv, ExecType, ExecOK
  <2> QED BY <2>1, <2>2 DEF Inv
<1> QED BY <1>1, <1>2, StepKeeps DEF Next

LEMMA InvInvariant == Spec => []Inv
<1> QED BY InitInv, NextKeeps, PTL DEF Spec

-------------------------------------------------------------------------------
(* The store's maps, the executions and the sealer's goroutines keep their *)
(* shape: no id is kept anywhere that was not handed out.                  *)
THEOREM TypeCorrect == Spec => []TypeOK
<1>1. Inv => TypeOK
  BY DEF Inv, StoreInv, Good, Typed, Store, ExecType, ExecRecord, TypeOK
<1> QED BY <1>1, InvInvariant, PTL

(* However many keys and executions there are, the three indexes of the    *)
(* store describe its records, and each other.                             *)
THEOREM IndexesAlwaysAgree == Spec => []IndexesAgree
<1>1. ASSUME Inv PROVE IndexesAgree
  <2>1. /\ CliNewest(Store) /\ ChainsList(Store) /\ ActiveOwn(Store)
        /\ DOMAIN records \subseteq Nat
    BY <1>1 DEF Inv, StoreInv, Good, Typed, Store
  <2>2. ASSUME NEW s \in Sessions, cliIndex[s] # None
        PROVE  /\ cliIndex[s] \in DOMAIN records
               /\ cliIndex[s] = Max({id \in DOMAIN records : records[id].cli = s})
    <3> DEFINE ids == {id \in DOMAIN records : records[id].cli = s}
    <3>1. /\ ids \subseteq Nat /\ cliIndex[s] \in ids
          /\ \A id \in ids : cliIndex[s] >= id
      BY <2>1, <2>2 DEF CliNewest, Store
    <3> HIDE DEF ids
    <3>2. ASSUME NEW m \in ids, \A id \in ids : m >= id PROVE m = cliIndex[s]
      <4>1. m \in Nat /\ cliIndex[s] \in Nat /\ m >= cliIndex[s] /\ cliIndex[s] >= m
        BY <3>1, <3>2
      <4> QED BY <4>1
    <3>3. Max(ids) = cliIndex[s]
      BY <3>1, <3>2 DEF Max
    <3> QED BY <2>1, <2>2, <3>3 DEF CliNewest, Store, ids
  <2>3. ASSUME NEW k \in Keys
        PROVE  /\ ToSet(chains[k]) = {id \in DOMAIN records : records[id].key = k}
               /\ \A i, j \in DOMAIN chains[k] : i < j => chains[k][i] < chains[k][j]
               /\ activeIndex[k] # None =>
                    /\ activeIndex[k] \in DOMAIN records
                    /\ records[activeIndex[k]].status = "active"
                    /\ records[activeIndex[k]].key = k
    BY <2>1 DEF ChainsList, ActiveOwn, Ascending, Store
  <2> QED BY <2>2, <2>3 DEF IndexesAgree
<1> QED BY <1>1, InvInvariant, PTL

(* Once Create has returned there are at most maxRecords records.          *)
THEOREM CapacityAlwaysKept == Spec => []CapacityKept
<1>1. Inv => CapacityKept
  BY DEF Inv, StoreInv
<1> QED BY <1>1, InvInvariant, PTL

(* Eviction and roll-back take no record that its key still points to.     *)
THEOREM CurrentAlwaysSurvives == Spec => CurrentSurvives
<1>1. Inv /\ [Next]_vars => CurrentStays
  BY NextKeeps
<1>2. CurrentStays => [CurrentStays]_vars
  OBVIOUS
<1> QED BY <1>1, InvInvariant, PTL DEF Spec, CurrentSurvives, CurrentStays
-------------------------------------------------------------------------------
(* A mutex is held by who has got or been handed it; who holds one after a *)
(* step of e: nobody else is moved, but a waiter e may hand its own to.    *)
Holding(x) == x.resumed /\ x.stage \notin {"contended", "waiting"}
Same(x, y) == /\ Holding(y) <=> Holding(x)
              /\ Holding(x) => y.cli = x.cli

(* e takes a free one, keeps what it has, leaves it behind in one of the   *)
(* two ways, frees it or hands it over.                                    *)
Takes(e) == \E s \in Sessions : /\ Owner[s] \notin held /\ held' = held \cup {Owner[s]}
                                /\ Holding(exec'[e]) /\ exec'[e].cli = s /\ ~Holding(exec[e])
Keeps(e) == held' = held /\ Same(exec[e], exec'[e])
Loses(e) == /\ held' = held /\ ~Holding(exec'[e])
            /\ \/ exec[e].stage = "tripped" /\ records'[exec[e].id].status = "sealed"
               \/ exec[e].stage = "handed" /\ exec'[e] = Idle
Frees(e) == /\ Holding(exec[e]) /\ ~Holding(exec'[e])
            /\ held' = held \ {Owner[exec[e].cli]}
Hands(e, w) == /\ Holding(exec[e]) /\ ~Holding(exec'[e]) /\ held' = held
               /\ Holding(exec'[w]) /\ ~Holding(exec[w]) /\ w # e
               /\ Owner[exec'[w].cli] = Owner[exec[e].cli]

Others(e, w) == \A d \in Executions \ {e, w} : exec'[d] = exec[d]
Moves(e) == /\ Others(e, e)
            /\ Takes(e) \/ Keeps(e) \/ Loses(e) \/ Frees(e)

LEMMA ReturnHolds ==
  ASSUME Inv, NEW e \in Executions, Return(e), exec[e].stage \in {"running", "resetting", "counting"}
  PROVE  Moves(e) \/ \E w \in Executions : Hands(e, w) /\ Others(e, w)
<1>1. exec \in [Executions -> ExecRecord(created)]
  BY DEF Inv, ExecType
<1>2. CASE exec' = [exec EXCEPT ![e] = Idle] /\ ~exec[e].resumed /\ held' = held
  BY <1>1, <1>2 DEF Moves, Others, Keeps, Same, Holding, Idle
<1>3. CASE /\ exec' = [exec EXCEPT ![e] = Idle] /\ exec[e].resumed
           /\ held' = held \ {Owner[exec[e].cli]}
  BY <1>1, <1>3 DEF Moves, Others, Frees, Holding, Idle
<1>4. ASSUME NEW w \in Waiting(Owner[exec[e].cli]), exec[e].resumed, held' = held,
             exec' = [exec EXCEPT ![e] = Idle, ![w].stage = "handed"]
      PROVE  w \in Executions /\ Hands(e, w) /\ Others(e, w)
  <2>1. /\ w \in Executions /\ w # e /\ exec[w].stage = "waiting"
        /\ Owner[exec[w].cli] = Owner[exec[e].cli]
    BY DEF Waiting
  <2>2. exec[w] \in ExecRecord(created) /\ exec[w].resumed
    BY <1>1, <2>1, ExecFacts DEF Resuming
  <2>3. /\ exec'[e] = Idle /\ exec'[w] = [exec[w] EXCEPT !.stage = "handed"]
        /\ Others(e, w)
    BY <1>1, <1>4, <2>1 DEF Others
  <2>4. exec'[w].stage = "handed" /\ exec'[w].cli = exec[w].cli /\ exec'[w].resumed
    BY <2>2, <2>3 DEF ExecRecord
  <2> QED BY <1>4, <2>1, <2>3, <2>4 DEF Hands, Holding, Idle
<1> QED BY <1>2, <1>3, <1>4 DEF Return

LEMMA StepHolds ==
  ASSUME Inv, NEW e \in Executions, Step(e)
  PROVE  Moves(e) \/ \E w \in Executions : Hands(e, w) /\ Others(e, w)
<1>1. exec \in [Executions -> ExecRecord(created)]
  BY DEF Inv, ExecType
<1>2. ASSUME NEW s \in Sessions, BeginResume(e, s) PROVE Moves(e)
  <2> DEFINE st == IF Owner[s] \notin held THEN "checking" ELSE "contended"
  <2>1. /\ exec[e] = Idle /\ held' = held \cup {Owner[s]}
        /\ exec' = [exec EXCEPT ![e] = [Idle EXCEPT !.stage = st, !.cli = s, !.resumed = TRUE]]
    BY <1>2 DEF BeginResume
  <2> HIDE DEF st
  <2>2. exec'[e].stage = st /\ exec'[e].cli = s /\ exec'[e].resumed /\ Others(e, e)
    BY <1>1, <2>1 DEF Others, Idle
  <2>3. CASE Owner[s] \notin held
    BY <2>1, <2>2, <2>3 DEF st, Moves, Takes, Holding, Idle
  <2>4. CASE Owner[s] \in held
    <3>1. held' = held /\ st = "contended"
      BY <2>1, <2>4 DEF st
    <3> QED BY <2>1, <2>2, <3>1 DEF Moves, Keeps, Same, Holding, Idle
  <2> QED BY <2>3, <2>4
<1>3. ASSUME NEW s \in Sessions, BeginUnlocked(e, s) PROVE Moves(e)
  BY <1>1, <1>3 DEF BeginUnlocked, Moves, Others, Keeps, Same, Holding, Idle
<1>4. CASE CheckBreaker(e) \/ (\E overflow \in BOOLEAN : RecordFailed(e, overflow))
             \/ RequestSeal(e) \/ Seal(e) \/ RecordSuccessful(e) \/ Enqueue(e) \/ Acquired(e)
  <2>1. held' = held
    BY <1>4 DEF CheckBreaker, RecordFailed, RequestSeal, Seal, RecordSuccessful, Enqueue, Acquired
  <2> DEFINE aside == {"contended", "waiting"}
  <2>2. PICK stage, i, o :
          /\ stage \in aside <=> exec[e].stage \in aside
          /\ \/ exec' = [exec EXCEPT ![e].stage = stage]
             \/ exec' = [exec EXCEPT ![e].stage = stage, ![e].id = i]
             \/ exec' = [exec EXCEPT ![e].stage = stage, ![e].id = i, ![e].overflow = o]
    <3>1. CASE CheckBreaker(e)
      <4> DEFINE id == getActive(Owner[exec[e].cli])
                 tripped == id # None /\ records[id].failures >= MaxConsecutiveFailures
                 st == IF tripped THEN "tripped" ELSE "running"
                 j == IF tripped THEN id ELSE None
      <4>1. exec' = [exec EXCEPT ![e].stage = st, ![e].id = j] /\ exec[e].stage = "checking"
        BY <3>1 DEF CheckBreaker
      <4>2. st \notin aside
        OBVIOUS
      <4> HIDE DEF st, j
      <4> QED BY <4>1, <4>2
    <3>2. CASE \E overflow \in BOOLEAN : RecordFailed(e, overflow)
      <4>1. PICK overflow, id :
              /\ exec[e].stage = "running"
              /\ exec' = [exec EXCEPT ![e].stage = IF id = None THEN "counting" ELSE "recorded",
                                      ![e].id = id, ![e].overflow = overflow]
        BY <3>2 DEF RecordFailed
      <4> DEFINE st == IF id = None THEN "counting" ELSE "recorded"
      <4>2. exec' = [exec EXCEPT ![e].stage = st, ![e].id = id, ![e].overflow = overflow]
        BY <4>1
      <4>3. st \in aside <=> exec[e].stage \in aside
        BY <4>1
      <4> HIDE DEF st, aside
      <4> QED BY <4>2, <4>3
    <3>3. CASE RequestSeal(e)
      <4> DEFINE sealable == exec[e].id \in DOMAIN records /\ records[exec[e].id].status = "active"
                 st == IF sealable THEN "sealable" ELSE "counting"
                 j == IF sealable THEN exec[e].id ELSE None
      <4>1. exec' = [exec EXCEPT ![e].stage = st, ![e].id = j] /\ exec[e].stage = "recorded"
        BY <3>3 DEF RequestSeal
      <4>2. st \notin aside
        OBVIOUS
      <4> HIDE DEF st, j
      <4> QED BY <4>1, <4>2
    <3>4. CASE Seal(e)
      BY <3>4 DEF Seal
    <3>5. CASE RecordSuccessful(e)
      BY <3>5 DEF RecordSuccessful
    <3>6. CASE Enqueue(e)
      BY <3>6 DEF Enqueue
    <3>7. CASE Acquired(e)
      BY <3>7 DEF Acquired
    <3> QED BY <1>4, <3>1, <3>2, <3>3, <3>4, <3>5, <3>6, <3>7
  <2>3. /\ exec'[e].resumed = exec[e].resumed /\ exec'[e].cli = exec[e].cli
        /\ exec'[e].stage = stage /\ Others(e, e)
    BY <1>1, <2>2 DEF ExecRecord, Others
  <2> QED BY <2>1, <2>2, <2>3 DEF Moves, Keeps, Same, Holding
<1>5. CASE TripBreaker(e)
  <2>1. CASE exec[e].id \in DOMAIN records
    <3>1. exec' = [exec EXCEPT ![e] = Idle] /\ exec[e].stage = "tripped" /\ held' = held
      BY <1>5, <2>1 DEF TripBreaker
    <3>2. records' = [records EXCEPT ![exec[e].id].status = "sealed"]
      BY <1>5, <2>1 DEF TripBreaker, Update
    <3>3. records[exec[e].id] \in Record
      BY <2>1, StoreFacts DEF Inv, StoreInv
    <3>4. records'[exec[e].id].status = "sealed"
      BY <2>1, <3>2, <3>3 DEF Record
    <3> QED BY <1>1, <3>1, <3>4 DEF Moves, Others, Loses, Holding, Idle
  <2>2. CASE exec[e].id \notin DOMAIN records
    <3>1. /\ held' = held /\ exec[e].stage = "tripped"
          /\ exec' = [exec EXCEPT ![e] = [@ EXCEPT !.stage = "running", !.id = None]]
      BY <1>5, <2>2 DEF TripBreaker
    <3> QED BY <1>1, <3>1 DEF Moves, Others, Keeps, Same, Holding, ExecRecord
  <2> QED BY <2>1, <2>2
<1>6. CASE AcquireFailed(e)
  <2>1. /\ exec' = [exec EXCEPT ![e] = Idle] /\ held' = held
        /\ exec[e].stage \in {"waiting", "handed"}
    BY <1>6 DEF AcquireFailed
  <2>2. exec'[e] = Idle /\ Others(e, e) /\ ~Holding(exec'[e])
    BY <1>1, <2>1 DEF Others, Holding, Idle
  <2>3. CASE exec[e].stage = "handed"
    BY <2>1, <2>2, <2>3 DEF Moves, Loses
  <2>4. CASE exec[e].stage = "waiting"
    BY <2>1, <2>2, <2>4 DEF Moves, Keeps, Same, Holding
  <2> QED BY <2>1, <2>3, <2>4
<1>7. CASE Abandon(e) \/ ResetConsecutiveFailures(e) \/ CountFailure(e)
  BY <1>7, ReturnHolds DEF Abandon, ResetConsecutiveFailures, CountFailure
<1> QED BY <1>2, <1>3, <1>4, <1>5, <1>6, <1>7 DEF Step

OrphansStay == \A k \in Keys : /\ Orphaned(k) => Orphaned(k)'
                               /\ Orphaned(k)' /\ ~Orphaned(k) => LostBy(k)

LEMMA NextOrphans == Inv /\ [Next]_vars => OrphansStay
<1> SUFFICES ASSUME Inv, [Next]_vars, NEW k \in Keys
             PROVE  /\ Orphaned(k) => Orphaned(k)'
                    /\ Orphaned(k)' /\ ~Orphaned(k) => LostBy(k)
  BY DEF OrphansStay
<1> DEFINE Goal == /\ Orphaned(k) => Orphaned(k)'
                   /\ Orphaned(k)' /\ ~Orphaned(k) => LostBy(k)
<1>0. /\ \A d : d \in Holders(k) <=>
               d \in Executions /\ Holding(exec[d]) /\ Owner[exec[d].cli] = k
      /\ \A d : d \in Holders(k)' <=>
               d \in Executions /\ Holding(exec'[d]) /\ Owner[exec'[d].cli] = k
  BY DEF Holders, Holding
<1>1. ASSUME NEW e \in Executions, Moves(e) PROVE Goal
  <2>1. \A d \in Executions \ {e} : d \in Holders(k)' <=> d \in Holders(k)
    BY <1>0, <1>1 DEF Moves, Others
  <2>2. CASE Takes(e)
    <3>1. PICK s \in Sessions : /\ Owner[s] \notin held /\ held' = held \cup {Owner[s]}
                                /\ Holding(exec'[e]) /\ exec'[e].cli = s /\ ~Holding(exec[e])
      BY <2>2 DEF Takes
    <3>2. CASE Owner[s] = k
      <4>1. k \notin held /\ e \in Holders(k)'
        BY <1>0, <3>1, <3>2
      <4> QED BY <4>1 DEF Orphaned
    <3>3. CASE Owner[s] # k
      <4>1. e \notin Holders(k)' /\ e \notin Holders(k) /\ (k \in held' <=> k \in held)
        BY <1>0, <3>1, <3>3
      <4>2. Holders(k)' = Holders(k)
        BY <1>0, <2>1, <4>1
      <4> QED BY <4>1, <4>2 DEF Orphaned
    <3> QED BY <3>2, <3>3
  <2>3. CASE Keeps(e)
    <3>1. e \in Holders(k)' <=> e \in Holders(k)
      BY <1>0, <2>3 DEF Keeps, Same
    <3>2. Holders(k)' = Holders(k) /\ held' = held
      BY <1>0, <2>1, <2>3, <3>1 DEF Keeps
    <3> QED BY <3>2 DEF Orphaned
  <2>4. CASE Frees(e)
    <3>1. e \notin Holders(k)'
      BY <1>0, <2>4 DEF Frees
    <3>2. CASE e \in Holders(k)
      <4>1. k \notin held'
        BY <1>0, <2>4, <3>2 DEF Frees
      <4> QED BY <3>2, <4>1 DEF Orphaned
    <3>3. CASE e \notin Holders(k)
      <4>1. Holders(k)' = Holders(k)
        BY <1>0, <2>1, <3>1, <3>3
      <4>2. Owner[exec[e].cli] # k
        BY <1>0, <2>4, <3>3 DEF Frees
      <4>3. k \in held' <=> k \in held
        BY <2>4, <4>2 DEF Frees
      <4> QED BY <4>1, <4>3 DEF Orphaned
    <3> QED BY <3>2, <3>3
  <2>5. CASE Loses(e)
    <3>1. e \notin Holders(k)'
      BY <1>0, <2>5 DEF Loses
    <3>2. CASE e \in Holders(k)
      BY <2>5, <3>2 DEF Loses, Orphaned, LostBy
    <3>3. CASE e \notin Holders(k)
      <4>1. Holders(k)' = Holders(k) /\ held' = held
        BY <1>0, <2>1, <2>5, <3>1, <3>3 DEF Loses
      <4> QED BY <4>1 DEF Orphaned
    <3> QED BY <3>2, <3>3
  <2> QED BY <1>1, <2>2, <2>3, <2>4, <2>5 DEF Moves
<1>2. ASSUME NEW e \in Executions, NEW w \in Executions, Hands(e, w), Others(e, w) PROVE Goal
  <2>1. CASE Owner[exec[e].cli] = k
    <3>1. e \in Holders(k) /\ w \in Holders(k)'
      BY <1>0, <1>2, <2>1 DEF Hands
    <3> QED BY <3>1 DEF Orphaned
  <2>2. CASE Owner[exec[e].cli] # k
    <3>1. /\ e \notin Holders(k) /\ e \notin Holders(k)'
          /\ w \notin Holders(k) /\ w \notin Holders(k)'
      BY <1>0, <1>2, <2>2 DEF Hands
    <3>2. \A d \in Executions \ {e, w} : d \in Holders(k)' <=> d \in Holders(k)
      BY <1>0, <1>2 DEF Others
    <3>3. Holders(k)' = Holders(k) /\ held' = held
      BY <1>0, <1>2, <3>1, <3>2 DEF Hands
    <3> QED BY <3>3 DEF Orphaned
  <2> QED BY <2>1, <2>2
<1>3. ASSUME NEW e \in Executions, Step(e) PROVE Goal
  <2> HIDE DEF Goal
  <2> QED BY <1>1, <1>2, <1>3, StepHolds
<1>4. CASE UNCHANGED <<exec, held>>
  BY <1>4 DEF Orphaned, Holders
<1>5. ASSUME NEW i \in finalizing, Finalize(i) PROVE UNCHANGED <<exec, held>>
  BY <1>5 DEF Finalize
<1>6. UNCHANGED vars => UNCHANGED <<exec, held>>
  BY DEF vars
<1> QED BY <1>3, <1>4, <1>5, <1>6 DEF Next

(* However many executions there are, a session mutex without a holder is  *)
(* what a breaker that sealed its record left behind, or a waiter that was *)
(* handed it and gave up; and it stays without one.                        *)
THEOREM OrphanedOnlyTwoWays == Spec => OrphanedTwoWays
<1>1. Inv /\ [Next]_vars => OrphansStay
  BY NextOrphans
<1> QED BY <1>1, InvInvariant, PTL DEF Spec, OrphanedTwoWays, OrphansStay
===============================================================================
