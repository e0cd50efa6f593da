---------------------- MODULE ViralStorageEngineProofs ----------------------
(***************************************************************************)
(* Proofs about the storage engine, for any number of threads, videos,     *)
(* records and keys, for any batches, and for any number of calls,         *)
(* failing statements and crashes.                                         *)
(***************************************************************************)
EXTENDS ViralStorageEngine, SequenceTheorems, TLAPS

USE DEF dbVars, countVars

(* The statements a call can have before it. *)
Entry == [size : Sizes, last : Nat]

Statement ==
    {Begin, Commit, CacheClear}
    \cup [op : {"INSERT", "UPDATE"}, table : Tables, id : Ids, value : {0, 1}]
    \cup [op : {"DELETE"}, table : Tables]
    \cup [op : {"CACHE"}, key : Keys, entry : Entry]
    \cup [op : {"TOUCH"}, key : Keys, last : Nat]

Call == [name : Names, rest : Seq(Statement), key : Keys \cup {None}, batch : Seq(Videos),
         alone : BOOLEAN, newest : BOOLEAN]

(* What is left of a call has the shape of its program: a BEGIN is only     *)
(* ever the first statement left of a saveFeedVideos and its last one is    *)
(* the COMMIT; no other call opens or closes a transaction, and the insert  *)
(* into the cache is all of a registerCacheEntry.                           *)
CallShape(k) ==
    /\ k.rest = <<>> <=> k.name \in {"none", "measure", "evict"}
    /\ k.name = "saveFeedVideos" =>
           /\ k.rest[Len(k.rest)] = Commit
           /\ \A i \in 2 .. Len(k.rest) : k.rest[i] # Begin
    /\ k.name # "saveFeedVideos" =>
           \A i \in DOMAIN k.rest : k.rest[i] # Begin /\ k.rest[i] # Commit
    /\ k.name = "registerCacheEntry" => Len(k.rest) = 1
    /\ \A i \in DOMAIN k.rest : k.rest[i].op = "CACHE" => k.name = "registerCacheEntry"

CallInv == call \in [Callers -> Call] /\ \A c \in Callers : CallShape(call[c])

(* The tables and the disk differ only inside the transaction, and the      *)
(* transaction is open only while a saveFeedVideos is past its BEGIN.       *)
RiskInv ==
    /\ ~open => db = disk
    /\ open => \E c \in Callers : InTransaction(c)

StorageInv == TypeOK /\ CallInv /\ RiskInv

-----------------------------------------------------------------------------
(* Operators of the model *)

(* A statement that succeeds leaves tables. *)
LEMMA EffectTyped ==
    ASSUME NEW s \in Statement, NEW d \in Image
    PROVE  Effect(s, d) \in Image
<1>0. d.rows \in [Tables -> [Ids -> {None, 0, 1}]]
      /\ d.cache \in [Keys -> [size : Sizes, last : Nat] \cup {NoEntry}]
      /\ d = [rows |-> d.rows, cache |-> d.cache]
  BY DEF Image
<1>1. CASE s \in {Begin, Commit}
  BY <1>1 DEF Effect, Begin, Commit
<1>2. CASE s = CacheClear
  BY <1>2, <1>0 DEF Effect, CacheClear, Image
<1>3. CASE s \in [op : {"INSERT", "UPDATE"}, table : Tables, id : Ids, value : {0, 1}]
  <2>1. [d EXCEPT !.rows[s.table][s.id] = s.value] \in Image
    BY <1>0, <1>3 DEF Image
  <2>2. QED
    BY <1>3, <2>1 DEF Effect
<1>4. CASE s \in [op : {"DELETE"}, table : Tables]
  <2>1. [d EXCEPT !.rows[s.table] = NoRows] \in Image
    BY <1>0, <1>4 DEF Image, NoRows
  <2>2. QED
    BY <1>4, <2>1 DEF Effect
<1>5. CASE s \in [op : {"CACHE"}, key : Keys, entry : Entry]
  <2>1. [d EXCEPT !.cache[s.key] = s.entry] \in Image
    BY <1>0, <1>5 DEF Image, Entry
  <2>2. QED
    BY <1>5, <2>1 DEF Effect
<1>6. CASE s \in [op : {"TOUCH"}, key : Keys, last : Nat]
  <2>1. ASSUME d.cache[s.key] # NoEntry
        PROVE  [d EXCEPT !.cache[s.key].last = s.last] \in Image
    <3>1. d.cache[s.key] \in [size : Sizes, last : Nat]
      BY <1>0, <1>6, <2>1
    <3>2. [d.cache[s.key] EXCEPT !.last = s.last] \in [size : Sizes, last : Nat]
      BY <1>6, <3>1
    <3>3. QED
      BY <1>0, <1>6, <3>2 DEF Image
  <2>2. QED
    BY <1>6, <2>1 DEF Effect
<1>7. QED
  BY <1>1, <1>2, <1>3, <1>4, <1>5, <1>6 DEF Statement

(* The value of a thread in no call. *)
LEMMA ReturnedShape == Returned \in Call /\ CallShape(Returned)
BY DEF Returned, Call, CallShape, Names

(* Whether it was disturbed is no part of a call's shape. *)
LEMMA DisturbedShape ==
    ASSUME NEW k \in Call, CallShape(k), NEW b \in BOOLEAN
    PROVE  [k EXCEPT !.alone = b] \in Call /\ CallShape([k EXCEPT !.alone = b])
BY DEF Call, CallShape

(* A call with statements left has a first one, which is a statement. *)
LEMMA HeadTyped ==
    ASSUME NEW k \in Call, k.rest # <<>>
    PROVE  /\ Head(k.rest) \in Statement
           /\ Head(k.rest) = k.rest[1]
           /\ Len(k.rest) \in Nat /\ Len(k.rest) >= 1
BY DEF Call

(* The rest of a sequence of two elements or more. *)
LEMMA TailElements ==
    ASSUME NEW S, NEW s \in Seq(S), Len(s) > 1
    PROVE  /\ Tail(s) \in Seq(S)
           /\ Len(Tail(s)) = Len(s) - 1
           /\ DOMAIN Tail(s) = 1 .. Len(s) - 1
           /\ \A i \in 1 .. Len(s) - 1 : Tail(s)[i] = s[i + 1]
           /\ Tail(s) # <<>>
           /\ Head(Tail(s)) = s[2]
<1>1. Tail(s) \in Seq(S) /\ Len(Tail(s)) = Len(s) - 1 /\ Len(s) \in Nat
  OBVIOUS
<1>2. \A i \in 1 .. Len(s) - 1 : Tail(s)[i] = s[i + 1]
  OBVIOUS
<1>3. Tail(s) # <<>>
  <2>1. Len(<<>>) = 0 /\ Len(Tail(s)) # 0
    BY <1>1
  <2>2. QED
    BY <2>1
<1>4. Head(Tail(s)) = Tail(s)[1]
  BY <1>1, <1>3
<1>5. QED
  BY <1>1, <1>2, <1>3, <1>4

(* A statement done, the call that is left has its shape again; a           *)
(* saveFeedVideos is over after its COMMIT only.                            *)
LEMMA AfterShape ==
    ASSUME CallInv, NEW c \in Callers, call[c].rest # <<>>
    PROVE  /\ After(c) \in Call /\ CallShape(After(c))
           /\ call[c].name = "saveFeedVideos" /\ Head(call[c].rest) # Commit =>
                  /\ After(c).name = "saveFeedVideos"
                  /\ Head(After(c).rest) # Begin
<1>0. call[c] \in Call /\ CallShape(call[c])
  BY DEF CallInv
<1>1. /\ call[c] \in Call /\ CallShape(call[c])
      /\ call[c].rest \in Seq(Statement)
      /\ Len(call[c].rest) \in Nat /\ Len(call[c].rest) >= 1
  BY <1>0, HeadTyped DEF Call
<1>2. CASE Len(call[c].rest) > 1
  <2>0. After(c) = [call[c] EXCEPT !.rest = Tail(call[c].rest)]
    BY <1>2 DEF After
  <2>1. /\ Tail(call[c].rest) \in Seq(Statement)
        /\ Len(Tail(call[c].rest)) = Len(call[c].rest) - 1
        /\ DOMAIN Tail(call[c].rest) = 1 .. Len(call[c].rest) - 1
        /\ \A i \in 1 .. Len(call[c].rest) - 1 : Tail(call[c].rest)[i] = call[c].rest[i + 1]
    BY <1>1, <1>2, TailElements
  <2>2. After(c) \in Call /\ After(c).name = call[c].name /\ After(c).rest = Tail(call[c].rest)
    BY <1>1, <2>0, <2>1 DEF Call
  <2>3. Tail(call[c].rest) # <<>> /\ Head(Tail(call[c].rest)) = call[c].rest[2]
    BY <1>1, <1>2, TailElements
  <2>4. CallShape(After(c))
    <3>1. call[c].name # "registerCacheEntry"
      BY <1>1, <1>2 DEF CallShape
    <3>2. QED
      BY <1>1, <1>2, <2>1, <2>2, <2>3, <3>1 DEF CallShape
  <2>5. QED
    BY <1>1, <1>2, <2>2, <2>3, <2>4 DEF CallShape
<1>3. CASE Len(call[c].rest) = 1 /\ call[c].name = "registerCacheEntry"
  <2>1. After(c) = [[call[c] EXCEPT !.rest = <<>>] EXCEPT !.name = "measure"]
    BY <1>1, <1>3 DEF After, Call
  <2>2. /\ After(c) \in Call
        /\ After(c).name = "measure" /\ After(c).rest = <<>>
    <3>0. ASSUME NEW e \in Seq(Statement) PROVE [call[c] EXCEPT !.rest = e] \in Call
      BY <1>0 DEF Call
    <3>1. [call[c] EXCEPT !.rest = <<>>] \in Call
      <4>1. <<>> \in Seq(Statement)
        OBVIOUS
      <4>2. QED
        BY <3>0, <4>1, Zenon
    <3>2. QED
      BY <2>1, <3>1 DEF Call, Names
  <2>3. QED
    BY <1>3, <2>2 DEF CallShape
<1>4. CASE Len(call[c].rest) = 1 /\ call[c].name # "registerCacheEntry"
  <2>1. call[c].name = "saveFeedVideos" => Head(call[c].rest) = Commit
    BY <1>1, <1>4 DEF CallShape
  <2>2. QED
    BY <1>4, <2>1, ReturnedShape DEF After
<1>5. Len(call[c].rest) > 1 \/ Len(call[c].rest) = 1
  <2>1. \A n \in Nat : n >= 1 => n > 1 \/ n = 1
    OBVIOUS
  <2>2. Len(call[c].rest) \in Nat /\ Len(call[c].rest) >= 1
    BY <1>1
  <2>3. QED
    BY <2>1, <2>2, Zenon
<1>6. QED
  BY <1>2, <1>3, <1>4, <1>5

(* Which statements are a BEGIN or a COMMIT shows in op. *)
LEMMA StatementOps ==
    ASSUME NEW s \in Statement
    PROVE  /\ s.op = "BEGIN" <=> s = Begin
           /\ s.op = "COMMIT" <=> s = Commit
BY DEF Statement, Begin, Commit, CacheClear

(* A statement keeps the types, and outside a transaction the disk follows  *)
(* the tables; only a BEGIN opens a transaction.                            *)
LEMMA ExecSafe ==
    ASSUME TypeOK, RiskInv, NEW s \in Statement, Exec(s)
    PROVE  /\ db' \in Image /\ disk' \in Image /\ open' \in BOOLEAN
           /\ ~open' => db' = disk'
           /\ s # Begin /\ open' => open
           /\ s = Commit => ~open'
<1>1. CASE s = Begin
  BY <1>1 DEF Exec, Begin, Commit, TypeOK, RiskInv
<1>2. CASE s = Commit
  BY <1>2 DEF Exec, Begin, Commit, TypeOK, RiskInv
<1>3. CASE s # Begin /\ s # Commit
  <2>1. Apply(Effect(s, db))
    BY <1>3, StatementOps DEF Exec
  <2>2. Effect(s, db) \in Image
    BY EffectTyped DEF TypeOK
  <2>3. QED
    BY <1>3, <2>1, <2>2 DEF Apply, TypeOK, RiskInv
<1>4. QED
  BY <1>1, <1>2, <1>3

(* The program of saveFeedVideos. *)
Program(b) == <<Begin>> \o [i \in DOMAIN b |-> Insert("feed_videos", b[i], 0)] \o <<Commit>>

LEMMA ProgramShape ==
    ASSUME NEW b \in Seq(Videos)
    PROVE  /\ Program(b) \in Seq(Statement)
           /\ Len(Program(b)) = Len(b) + 2
           /\ Program(b)[1] = Begin
           /\ Program(b)[Len(b) + 2] = Commit
           /\ \A i \in 2 .. Len(b) + 1 :
                  Program(b)[i] = Insert("feed_videos", b[i - 1], 0)
<1> DEFINE rows == [i \in DOMAIN b |-> Insert("feed_videos", b[i], 0)]
<1>1. \A i \in DOMAIN b : Insert("feed_videos", b[i], 0) \in Statement
  BY DEF Insert, Statement, Tables, Ids
<1>2. rows \in Seq(Statement) /\ Len(rows) = Len(b)
  BY <1>1
<1>3. <<Begin>> \in Seq(Statement) /\ <<Commit>> \in Seq(Statement)
  BY DEF Statement
<1>4. \A i \in 1 .. Len(b) : rows[i] = Insert("feed_videos", b[i], 0)
  OBVIOUS
<1> HIDE DEF rows
<1>5. /\ <<Begin>> \o rows \in Seq(Statement)
      /\ Len(<<Begin>> \o rows) = Len(b) + 1
      /\ (<<Begin>> \o rows)[1] = Begin
      /\ \A i \in 2 .. Len(b) + 1 : (<<Begin>> \o rows)[i] = rows[i - 1]
  BY <1>2, <1>3
<1> DEFINE first == <<Begin>> \o rows
<1> HIDE DEF first
<1>6. /\ first \in Seq(Statement)
      /\ Len(first) = Len(b) + 1
      /\ first[1] = Begin
      /\ \A i \in 2 .. Len(b) + 1 : first[i] = rows[i - 1]
  BY <1>5 DEF first
<1>7. /\ first \o <<Commit>> \in Seq(Statement)
      /\ Len(first \o <<Commit>>) = Len(b) + 2
      /\ (first \o <<Commit>>)[Len(b) + 2] = Commit
      /\ \A i \in 1 .. Len(b) + 1 : (first \o <<Commit>>)[i] = first[i]
  BY <1>3, <1>6
<1>8. Program(b) = first \o <<Commit>>
  BY DEF Program, first, rows
<1>9. \A i \in 2 .. Len(b) + 1 : i \in 1 .. Len(b) + 1 /\ i - 1 \in 1 .. Len(b)
  OBVIOUS
<1>10. QED
  BY <1>4, <1>6, <1>7, <1>8, <1>9

-----------------------------------------------------------------------------
(* The types, the shape of the calls and the transaction *)

(* A step in which the other calls go on unchanged, but for alone, and the  *)
(* one of c becomes k.                                                      *)
CallBecomes(c, k) ==
    /\ call' \in [Callers -> Call]
    /\ call'[c] = k
    /\ \A d \in Callers \ {c} : call'[d].name = call[d].name /\ call'[d].rest = call[d].rest

LEMMA CallBecomesShape ==
    ASSUME CallInv, NEW c \in Callers, NEW k \in Call, CallShape(k), CallBecomes(c, k)
    PROVE  /\ CallInv'
           /\ \A d \in Callers \ {c} : InTransaction(d) => InTransaction(d)'
BY DEF CallInv, CallBecomes, CallShape, InTransaction

(* The two ways call changes: one call goes on, and all are disturbed. *)
LEMMA OneGoesOn ==
    ASSUME CallInv, NEW c \in Callers, NEW k \in Call, call' = [call EXCEPT ![c] = k]
    PROVE  CallBecomes(c, k)
BY DEF CallInv, CallBecomes

LEMMA OneDisturbs ==
    ASSUME CallInv, NEW c \in Callers, NEW k \in Call, call' = [Disturbed EXCEPT ![c] = k]
    PROVE  CallBecomes(c, k)
<1>1. \A d \in Callers : Disturbed[d] \in Call /\ Disturbed[d].name = call[d].name
                         /\ Disturbed[d].rest = call[d].rest
  BY DEF CallInv, Disturbed, Call
<1>2. DOMAIN Disturbed = Callers /\ Disturbed = [d \in Callers |-> Disturbed[d]]
  BY DEF Disturbed
<1>3. Disturbed \in [Callers -> Call]
  BY <1>1, <1>2
<1> HIDE DEF Disturbed
<1>4. QED
  BY <1>1, <1>3 DEF CallBecomes

LEMMA AllDisturbed ==
    ASSUME CallInv, call' = Disturbed
    PROVE  /\ CallInv'
           /\ \A d \in Callers : InTransaction(d) => InTransaction(d)'
<1>1. ASSUME NEW d \in Callers
      PROVE  call'[d] \in Call /\ CallShape(call'[d]) /\ call'[d].name = call[d].name
             /\ call'[d].rest = call[d].rest
  <2>1. call[d] \in Call /\ CallShape(call[d])
    BY DEF CallInv
  <2>2. call'[d] = [call[d] EXCEPT !.alone = FALSE]
    BY DEF Disturbed
  <2>3. QED
    BY <2>1, <2>2, DisturbedShape DEF Call
<1>2. DOMAIN call' = Callers /\ call' = [d \in Callers |-> call'[d]]
  BY DEF Disturbed
<1>3. QED
  BY <1>1, <1>2 DEF CallInv, InTransaction

(* A call of several statements begins. *)
LEMMA StartInv ==
    ASSUME StorageInv, NEW c \in Callers, NEW k \in Call, CallShape(k), Start(c, k),
           UNCHANGED <<dbVars, now, lapsed>>
    PROVE  StorageInv'
<1> DEFINE w == [k EXCEPT !.alone = \A d \in Callers : Idle(d)]
<1>0. CallInv /\ TypeOK /\ RiskInv
  BY DEF StorageInv
<1>1. w \in Call /\ CallShape(w)
  <2>1. (\A d \in Callers : Idle(d)) \in BOOLEAN
    OBVIOUS
  <2>2. QED
    BY <2>1, DisturbedShape
<1>2. call' = [Disturbed EXCEPT ![c] = w]
  BY DEF Start
<1> HIDE DEF w
<1>3. CallBecomes(c, w)
  BY <1>0, <1>1, <1>2, OneDisturbs
<1>4. CallInv' /\ \A d \in Callers \ {c} : InTransaction(d) => InTransaction(d)'
  BY <1>0, <1>1, <1>3, CallBecomesShape
<1>5. ~InTransaction(c)
  BY DEF Start, Idle, InTransaction
<1>6. RiskInv'
  BY <1>0, <1>4, <1>5 DEF RiskInv
<1>7. TypeOK'
  <2>1. calls' \in 0 .. MaxCalls
    BY <1>0, StorageAssumption DEF Start, TypeOK
  <2>2. QED
    BY <1>0, <1>4, <2>1 DEF TypeOK, Start, CallInv, CallShape, Call
<1>8. QED
  BY <1>4, <1>6, <1>7 DEF StorageInv

(* A call of one statement, which no transaction depends on. *)
LEMMA SingleInv ==
    ASSUME StorageInv, NEW c \in Callers, NEW s \in Statement, s # Begin, s # Commit,
           Single(c, s)
    PROVE  StorageInv'
<1>0. CallInv /\ TypeOK /\ RiskInv
  BY DEF StorageInv
<1>1. CallInv' /\ \A d \in Callers : InTransaction(d) => InTransaction(d)'
  BY <1>0, AllDisturbed DEF Single
<1>2. /\ db' \in Image /\ disk' \in Image /\ open' \in BOOLEAN
      /\ ~open' => db' = disk'
      /\ open' => open
  BY <1>0, ExecSafe DEF Single
<1>3. RiskInv'
  BY <1>0, <1>1, <1>2 DEF RiskInv
<1>4. calls' \in 0 .. MaxCalls
  BY <1>0, StorageAssumption DEF Single, TypeOK
<1>5. TypeOK'
  BY <1>0, <1>1, <1>2, <1>4 DEF TypeOK, Single, CallInv, CallShape, Call
<1>6. QED
  BY <1>1, <1>3, <1>5 DEF StorageInv

(* What the calls of several statements begin with. *)
SaveCall(b) ==
    [Returned EXCEPT !.name = "saveFeedVideos", !.batch = b, !.rest = Program(b)]

IsNewest(k, size) ==
    size <= m_maxCacheBytes /\ \A l \in Cached(db) \ {k} : db.cache[l].last < now

RegisterCall(k, size) ==
    [Returned EXCEPT !.name = "registerCacheEntry", !.key = k,
                     !.rest = <<CacheInsert(k, size, now)>>, !.newest = IsNewest(k, size)]

LookupCall(k) ==
    [Returned EXCEPT !.name = "getCachedPath", !.rest = <<CacheTouch(k, now)>>]

ClearProgram ==
    <<DeleteAll("feed_videos"), DeleteAll("user_profiles"), DeleteAll("chat_messages"),
      CacheClear, DeleteAll("settings")>>

ClearCall == [Returned EXCEPT !.name = "clearAll", !.rest = ClearProgram]

LEMMA SaveBegins ==
    ASSUME NEW b \in Batches
    PROVE  /\ b \in Seq(Videos)
           /\ SaveCall(b) \in Call /\ CallShape(SaveCall(b))
           /\ SaveCall(b).name = "saveFeedVideos" /\ SaveCall(b).rest = Program(b)
           /\ SaveCall(b).batch = b /\ ~SaveCall(b).newest
<1> DEFINE k == SaveCall(b)
<1>0. b \in Seq(Videos) /\ Len(b) \in Nat
  BY StorageAssumption
<1>1. k \in Call /\ k.name = "saveFeedVideos" /\ k.rest = Program(b) /\ k.batch = b
      /\ k.newest = Returned.newest
  <2>1. "saveFeedVideos" \in Names /\ Program(b) \in Seq(Statement) /\ Returned \in Call
    BY <1>0, ProgramShape, ReturnedShape DEF Names
  <2>2. QED
    BY <1>0, <2>1 DEF Call, SaveCall
<1> HIDE DEF k
<1>2. CallShape(k)
  <2>1. \A i \in 2 .. Len(b) + 2 : Program(b)[i] # Begin /\ Program(b)[i].op # "CACHE"
    <3>1. ASSUME NEW i \in 2 .. Len(b) + 1
          PROVE  Program(b)[i] # Begin /\ Program(b)[i].op # "CACHE"
      <4>1. Program(b)[i] = Insert("feed_videos", b[i - 1], 0)
        BY <1>0, ProgramShape
      <4>2. QED
        BY <4>1 DEF Begin, Insert
    <3>2. Program(b)[Len(b) + 2] # Begin /\ Program(b)[Len(b) + 2].op # "CACHE"
      BY <1>0, ProgramShape DEF Begin, Commit
    <3>3. QED
      BY <1>0, <3>1, <3>2
  <2>2. Program(b)[1].op # "CACHE"
    BY <1>0, ProgramShape DEF Begin
  <2>3. Program(b) # <<>> /\ DOMAIN Program(b) = 1 .. Len(b) + 2
    BY <1>0, ProgramShape
  <2>4. QED
    BY <1>0, <1>1, <2>1, <2>2, <2>3, ProgramShape DEF CallShape
<1>3. QED
  BY <1>0, <1>1, <1>2 DEF k, Returned

LEMMA RegisterBegins ==
    ASSUME TypeOK, NEW k \in Keys, NEW size \in Sizes
    PROVE  /\ RegisterCall(k, size) \in Call /\ CallShape(RegisterCall(k, size))
           /\ RegisterCall(k, size).name = "registerCacheEntry"
           /\ RegisterCall(k, size).key = k
           /\ RegisterCall(k, size).rest = <<CacheInsert(k, size, now)>>
           /\ RegisterCall(k, size).newest = IsNewest(k, size)
<1> DEFINE s == CacheInsert(k, size, now)
           w == RegisterCall(k, size)
<1>1. s \in Statement /\ s.op = "CACHE" /\ s # Begin /\ s # Commit
  <2>1. now \in Nat
    BY StorageAssumption DEF TypeOK
  <2>2. QED
    BY <2>1 DEF CacheInsert, Statement, Entry, Begin, Commit
<1>2. IsNewest(k, size) \in BOOLEAN
  BY DEF IsNewest
<1> HIDE DEF s
<1>3. w \in Call /\ w.name = "registerCacheEntry" /\ w.key = k /\ w.rest = <<s>>
      /\ w.newest = IsNewest(k, size)
  <2>1. "registerCacheEntry" \in Names /\ <<s>> \in Seq(Statement) /\ Returned \in Call
    BY <1>1, ReturnedShape DEF Names
  <2>2. w = [Returned EXCEPT !.name = "registerCacheEntry", !.key = k, !.rest = <<s>>,
                             !.newest = IsNewest(k, size)]
    BY DEF RegisterCall, s
  <2> HIDE DEF w
  <2>3. QED
    BY <1>2, <2>1, <2>2 DEF Call
<1> HIDE DEF w
<1>4. CallShape(w)
  BY <1>1, <1>3 DEF CallShape
<1>5. QED
  BY <1>3, <1>4 DEF s, w

LEMMA LookupBegins ==
    ASSUME TypeOK, NEW k \in Keys
    PROVE  /\ LookupCall(k) \in Call /\ CallShape(LookupCall(k))
           /\ LookupCall(k).name = "getCachedPath" /\ ~LookupCall(k).newest
<1> DEFINE s == CacheTouch(k, now)
           w == LookupCall(k)
<1>1. s \in Statement /\ s.op # "CACHE" /\ s # Begin /\ s # Commit
  <2>1. now \in Nat
    BY StorageAssumption DEF TypeOK
  <2>2. QED
    BY <2>1 DEF CacheTouch, Statement, Begin, Commit
<1> HIDE DEF s
<1>2. w \in Call /\ w.name = "getCachedPath" /\ w.rest = <<s>> /\ w.newest = Returned.newest
  <2>1. "getCachedPath" \in Names /\ <<s>> \in Seq(Statement) /\ Returned \in Call
    BY <1>1, ReturnedShape DEF Names
  <2>2. QED
    BY <2>1 DEF Call, LookupCall, s
<1> HIDE DEF w
<1>3. CallShape(w)
  BY <1>1, <1>2 DEF CallShape
<1>4. QED
  BY <1>2, <1>3 DEF w, Returned

LEMMA ClearBegins ==
    /\ ClearCall \in Call /\ CallShape(ClearCall)
    /\ ClearCall.name = "clearAll" /\ ClearCall.rest = ClearProgram /\ ~ClearCall.newest
<1> DEFINE r == ClearProgram
           w == ClearCall
<1>1. /\ r \in Seq(Statement) /\ Len(r) = 5 /\ r # <<>>
      /\ \A i \in DOMAIN r : r[i].op # "CACHE" /\ r[i] # Begin /\ r[i] # Commit
  <2>1. ASSUME NEW t \in Tables
        PROVE  DeleteAll(t) \in Statement /\ DeleteAll(t).op # "CACHE"
               /\ DeleteAll(t) # Begin /\ DeleteAll(t) # Commit
    BY DEF DeleteAll, Statement, Begin, Commit
  <2>2. CacheClear \in Statement /\ CacheClear.op # "CACHE" /\ CacheClear # Begin
        /\ CacheClear # Commit
    BY DEF CacheClear, Statement, Begin, Commit
  <2>3. QED
    BY <2>1, <2>2 DEF Tables, ClearProgram
<1> HIDE DEF r
<1>2. w \in Call /\ w.name = "clearAll" /\ w.rest = r /\ w.newest = Returned.newest
  <2>1. "clearAll" \in Names /\ r \in Seq(Statement) /\ Returned \in Call
    BY <1>1, ReturnedShape DEF Names
  <2>2. QED
    BY <2>1 DEF Call, ClearCall, r
<1> HIDE DEF w
<1>3. CallShape(w)
  BY <1>1, <1>2 DEF CallShape
<1>4. QED
  BY <1>2, <1>3 DEF r, w, Returned

(* Which call begins, or which statement runs by itself. *)
Begins(c, w) == Start(c, w) /\ UNCHANGED <<dbVars, now, lapsed>>

LEMMA CallingBegins ==
    ASSUME TypeOK, NEW c \in Callers, Calling(c)
    PROVE  \/ \E b \in Batches : Begins(c, SaveCall(b))
           \/ \E k \in Keys, size \in Sizes : Begins(c, RegisterCall(k, size))
           \/ \E k \in Keys : Begins(c, LookupCall(k))
           \/ Begins(c, ClearCall)
           \/ \E s \in Statement :
                  s # Begin /\ s # Commit /\ s.op # "CACHE" /\ Single(c, s)
<1>1. CASE \E b \in Batches : SaveFeedVideos(c, b)
  BY <1>1 DEF SaveFeedVideos, Begins, SaveCall, Program
<1>2. CASE \E k \in Keys, size \in Sizes : RegisterCacheEntry(c, k, size)
  BY <1>2 DEF RegisterCacheEntry, Begins, RegisterCall, IsNewest
<1>3. CASE \E k \in Keys : GetCachedPath(c, k)
  BY <1>3 DEF GetCachedPath, Begins, LookupCall
<1>4. CASE ClearAll(c)
  BY <1>4 DEF ClearAll, Begins, ClearCall, ClearProgram
<1>5. ASSUME NEW t \in Tables, NEW i \in Ids, NEW v \in {0, 1}
      PROVE  /\ Update(t, i, v) \in Statement /\ Update(t, i, v).op # "CACHE"
             /\ Update(t, i, v) # Begin /\ Update(t, i, v) # Commit
             /\ Insert(t, i, v) \in Statement /\ Insert(t, i, v).op # "CACHE"
             /\ Insert(t, i, v) # Begin /\ Insert(t, i, v) # Commit
  BY DEF Update, Insert, Statement, Begin, Commit
<1>6. CASE ClearFeedCache(c)
  <2>1. DeleteAll("feed_videos") \in Statement /\ DeleteAll("feed_videos").op # "CACHE"
        /\ DeleteAll("feed_videos") # Begin /\ DeleteAll("feed_videos") # Commit
    BY DEF DeleteAll, Statement, Tables, Begin, Commit
  <2>2. QED
    BY <1>6, <2>1 DEF ClearFeedCache
<1>7. CASE \E v \in Videos : SetVideoLiked(c, v, 1)
  BY <1>5, <1>7 DEF SetVideoLiked, Tables, Ids
<1>8. CASE \E i \in Records : \/ SaveUserProfile(c, i, 0) \/ SetFollowing(c, i, 1)
                              \/ SaveMessage(c, i, 0) \/ UpdateMessageStatus(c, i, 1)
                              \/ SetSetting(c, i, 0)
  BY <1>5, <1>8 DEF SaveUserProfile, SetFollowing, SaveMessage, UpdateMessageStatus,
     SetSetting, Tables, Ids
<1>9. QED
  BY <1>1, <1>2, <1>3, <1>4, <1>6, <1>7, <1>8 DEF Calling

(* The calls of the application keep the invariant. *)
LEMMA CallingInv ==
    ASSUME StorageInv, NEW c \in Callers, Calling(c)
    PROVE  StorageInv'
<1>0. TypeOK
  BY DEF StorageInv
<1>1. ASSUME NEW w \in Call, CallShape(w), Begins(c, w) PROVE StorageInv'
  BY <1>1, StartInv DEF Begins
<1>2. CASE \E b \in Batches : Begins(c, SaveCall(b))
  BY <1>1, <1>2, SaveBegins
<1>3. CASE \E k \in Keys, size \in Sizes : Begins(c, RegisterCall(k, size))
  BY <1>0, <1>1, <1>3, RegisterBegins
<1>4. CASE \E k \in Keys : Begins(c, LookupCall(k))
  BY <1>0, <1>1, <1>4, LookupBegins
<1>5. CASE Begins(c, ClearCall)
  BY <1>1, <1>5, ClearBegins
<1>6. CASE \E s \in Statement : s # Begin /\ s # Commit /\ s.op # "CACHE" /\ Single(c, s)
  BY <1>6, SingleInv
<1>7. QED
  BY <1>0, <1>2, <1>3, <1>4, <1>5, <1>6, CallingBegins

(* A statement of a call runs: the BEGIN of a saveFeedVideos opens the      *)
(* transaction behind it, its COMMIT closes it.                             *)
LEMMA ExecuteInv ==
    ASSUME StorageInv, NEW c \in Callers, Execute(c)
    PROVE  StorageInv'
<1> DEFINE s == Head(call[c].rest)
<1>0. CallInv /\ TypeOK /\ RiskInv /\ call[c] \in Call /\ CallShape(call[c])
      /\ call[c].rest # <<>>
  BY DEF StorageInv, CallInv, Execute
<1>1. s \in Statement /\ s = call[c].rest[1] /\ 1 \in DOMAIN call[c].rest
  <2>1. call[c].rest \in Seq(Statement)
    BY <1>0 DEF Call
  <2>2. QED
    BY <1>0, <2>1
<1>2. /\ After(c) \in Call /\ CallShape(After(c))
      /\ call[c].name = "saveFeedVideos" /\ s # Commit =>
             After(c).name = "saveFeedVideos" /\ Head(After(c).rest) # Begin
  BY <1>0, AfterShape
<1> HIDE DEF s
<1>3. Exec(s)
  BY DEF Execute, s
<1>4. /\ db' \in Image /\ disk' \in Image /\ open' \in BOOLEAN
      /\ ~open' => db' = disk'
      /\ s # Begin /\ open' => open
      /\ s = Commit => ~open'
  BY <1>0, <1>1, <1>3, ExecSafe
<1>5. CallBecomes(c, After(c))
  BY <1>0, <1>2, OneGoesOn DEF Execute
<1>6. CallInv' /\ \A d \in Callers \ {c} : InTransaction(d) => InTransaction(d)'
  BY <1>0, <1>2, <1>5, CallBecomesShape
<1>7. call[c].name = "saveFeedVideos" /\ s # Commit => InTransaction(c)'
  BY <1>2, <1>5 DEF CallBecomes, InTransaction
<1>8. s \in {Begin, Commit} => call[c].name = "saveFeedVideos"
  BY <1>0, <1>1 DEF CallShape
<1>9. Begin # Commit
  BY DEF Begin, Commit
<1>10. RiskInv'
  <2>1. CASE s = Begin
    BY <1>4, <1>7, <1>8, <1>9, <2>1 DEF RiskInv
  <2>2. CASE s = Commit
    BY <1>4, <2>2 DEF RiskInv
  <2>3. CASE s # Begin /\ s # Commit
    BY <1>0, <1>4, <1>6, <1>7, <2>3 DEF RiskInv, InTransaction
  <2>4. QED
    BY <2>1, <2>2, <2>3
<1>11. TypeOK'
  BY <1>0, <1>4, <1>6 DEF TypeOK, Execute, CallInv, CallShape, Call
<1>12. QED
  BY <1>6, <1>10, <1>11 DEF StorageInv

(* A rollback ends the transaction with what the disk has. *)
LEMMA RollbackSafe ==
    ASSUME TypeOK, Rollback
    PROVE  /\ db' \in Image /\ disk' \in Image /\ open' = FALSE /\ lapsed' = TRUE
           /\ db' = disk'
BY DEF TypeOK, Rollback

(* A statement of a call fails. *)
LEMMA FailInv ==
    ASSUME StorageInv, NEW c \in Callers, Fail(c)
    PROVE  StorageInv'
<1> DEFINE k == [After(c) EXCEPT !.alone = FALSE]
<1>0. CallInv /\ TypeOK /\ RiskInv /\ call[c] \in Call /\ CallShape(call[c])
      /\ call[c].rest # <<>>
  BY DEF StorageInv, CallInv, Fail
<1>1. /\ After(c) \in Call /\ CallShape(After(c))
      /\ call[c].name = "saveFeedVideos" /\ Head(call[c].rest) # Commit =>
             After(c).name = "saveFeedVideos" /\ Head(After(c).rest) # Begin
  BY <1>0, AfterShape
<1>2. k \in Call /\ CallShape(k) /\ k.name = After(c).name /\ k.rest = After(c).rest
  <2>1. k \in Call /\ CallShape(k)
    BY <1>1, DisturbedShape
  <2>2. QED
    BY <1>1, <2>1 DEF Call
<1>3. call' = [Disturbed EXCEPT ![c] = k]
  BY DEF Fail
<1> HIDE DEF k
<1>4. CallBecomes(c, k)
  BY <1>0, <1>2, <1>3, OneDisturbs
<1>5. CallInv' /\ \A d \in Callers \ {c} : InTransaction(d) => InTransaction(d)'
  BY <1>0, <1>2, <1>4, CallBecomesShape
<1>6. /\ db' \in Image /\ disk' \in Image /\ open' \in BOOLEAN /\ lapsed' \in BOOLEAN
      /\ RiskInv'
  <2>1. CASE Rollback
    BY <1>0, <2>1, RollbackSafe DEF RiskInv
  <2>2. CASE Head(call[c].rest) # Commit /\ UNCHANGED <<dbVars, lapsed>>
    <3>1. InTransaction(c) => InTransaction(c)'
      BY <1>1, <1>2, <1>4, <2>2 DEF CallBecomes, InTransaction
    <3>2. QED
      BY <1>0, <1>5, <2>2, <3>1 DEF RiskInv, TypeOK
  <2>3. QED
    BY <2>1, <2>2 DEF Fail
<1>7. faults' \in 0 .. MaxFaults
  BY <1>0, StorageAssumption DEF Fail, TypeOK
<1>8. TypeOK'
  BY <1>0, <1>5, <1>6, <1>7 DEF TypeOK, Fail, CallInv, CallShape, Call
<1>9. QED
  BY <1>5, <1>6, <1>8 DEF StorageInv

(* The eviction of c goes on to another place, or returns. *)
LEMMA EvictPlaces ==
    ASSUME CallInv, NEW c \in Callers, call[c].name \in {"measure", "evict"},
           NEW n \in {"measure", "evict"}
    PROVE  /\ [call[c] EXCEPT !.name = n] \in Call
           /\ CallShape([call[c] EXCEPT !.name = n])
           /\ ~InTransaction(c)
<1> DEFINE k == [call[c] EXCEPT !.name = n]
<1>1. call[c] \in Call /\ CallShape(call[c])
  BY DEF CallInv
<1>2. k \in Call /\ k.name = n /\ k.rest = call[c].rest
  BY <1>1 DEF Call, Names
<1> HIDE DEF k
<1>3. CallShape(k)
  BY <1>1, <1>2 DEF CallShape
<1> QED BY <1>2, <1>3 DEF k, InTransaction

LEMMA EvictInv ==
    ASSUME StorageInv, NEW c \in Callers,
           EvictTest(c) \/ EvictOldest(c) \/ EvictFails(c) \/ MeasureFails(c)
    PROVE  StorageInv'
<1>0. CallInv /\ TypeOK /\ RiskInv /\ call[c].name \in {"measure", "evict"}
  BY DEF StorageInv, EvictTest, EvictOldest, EvictFails, MeasureFails
<1>1. CASE MeasureFails(c) /\ call' = Disturbed
  <2>1. CallInv' /\ \A d \in Callers : InTransaction(d) => InTransaction(d)'
    BY <1>0, <1>1, AllDisturbed
  <2>2. /\ db' \in Image /\ disk' \in Image /\ open' \in BOOLEAN /\ lapsed' \in BOOLEAN
        /\ RiskInv'
    <3>1. CASE UNCHANGED dbVars
      <4>1. lapsed' = lapsed \/ lapsed' = TRUE
        BY <1>1 DEF MeasureFails, Rollback
      <4>2. QED
        BY <1>0, <2>1, <3>1, <4>1 DEF TypeOK, RiskInv
    <3>2. CASE Rollback
      BY <1>0, <3>2, RollbackSafe DEF RiskInv
    <3>3. QED
      BY <1>1, <3>1, <3>2 DEF MeasureFails
  <2>3. faults' \in 0 .. MaxFaults /\ UNCHANGED <<now, calls, crashes>>
    BY <1>0, <1>1, StorageAssumption DEF MeasureFails, TypeOK
  <2>4. TypeOK'
    BY <1>0, <2>1, <2>2, <2>3 DEF TypeOK, CallInv, CallShape, Call
  <2>5. QED
    BY <2>1, <2>2, <2>4 DEF StorageInv
<1> SUFFICES ASSUME ~(MeasureFails(c) /\ call' = Disturbed) PROVE StorageInv'
  BY <1>1
<1>2. PICK k \in Call : CallShape(k) /\ CallBecomes(c, k)
  <2>1. CASE EvictTest(c)
    <3>1. call' = [call EXCEPT ![c] = [call[c] EXCEPT !.name = "evict"]]
          \/ call' = [call EXCEPT ![c] = Returned]
      BY <2>1 DEF EvictTest
    <3>2. QED
      BY <1>0, <3>1, EvictPlaces, ReturnedShape, OneGoesOn
  <2>2. CASE EvictOldest(c)
    <3>1. call' = [call EXCEPT ![c] = [call[c] EXCEPT !.name = "measure"]]
      BY <2>2 DEF EvictOldest
    <3>2. QED
      BY <1>0, <3>1, EvictPlaces, OneGoesOn
  <2>3. CASE EvictFails(c)
    <3> DEFINE w == [[call[c] EXCEPT !.name = "measure"] EXCEPT !.alone = FALSE]
    <3>1. w \in Call /\ CallShape(w)
      BY <1>0, EvictPlaces, DisturbedShape
    <3>2. call' = [Disturbed EXCEPT ![c] = w]
      <4>1. [Disturbed[c] EXCEPT !.name = "measure"] = w
        BY <1>0 DEF Disturbed, CallInv, Call
      <4>2. QED
        BY <2>3, <4>1 DEF EvictFails
    <3> HIDE DEF w
    <3>3. QED
      BY <1>0, <3>1, <3>2, OneDisturbs
  <2>4. CASE MeasureFails(c)
    <3> DEFINE w == [[call[c] EXCEPT !.name = "evict"] EXCEPT !.alone = FALSE]
    <3>1. w \in Call /\ CallShape(w)
      BY <1>0, EvictPlaces, DisturbedShape
    <3>2. call' = [Disturbed EXCEPT ![c] = w] \/ call' = [Disturbed EXCEPT ![c] = Returned]
      <4>1. [call[c] EXCEPT !.name = "evict", !.alone = FALSE] = w
        BY <1>0 DEF CallInv, Call
      <4>2. QED
        BY <2>4, <4>1 DEF MeasureFails
    <3> HIDE DEF w
    <3>3. QED
      BY <1>0, <3>1, <3>2, ReturnedShape, OneDisturbs
  <2>5. QED
    BY <2>1, <2>2, <2>3, <2>4
<1>3. CallInv' /\ \A d \in Callers \ {c} : InTransaction(d) => InTransaction(d)'
  BY <1>0, <1>2, CallBecomesShape
<1>4. ~InTransaction(c)
  BY <1>0 DEF InTransaction
<1>5. /\ db' \in Image /\ disk' \in Image /\ open' \in BOOLEAN /\ lapsed' \in BOOLEAN
      /\ RiskInv'
  <2>1. CASE UNCHANGED dbVars /\ lapsed' \in BOOLEAN
    BY <1>0, <1>3, <1>4, <2>1 DEF TypeOK, RiskInv
  <2>2. CASE Rollback
    BY <1>0, <2>2, RollbackSafe DEF RiskInv
  <2>3. ASSUME NEW e \in Oldest(db), Apply([db EXCEPT !.cache[e] = NoEntry]), UNCHANGED lapsed
        PROVE  /\ db' \in Image /\ disk' \in Image /\ open' \in BOOLEAN /\ lapsed' \in BOOLEAN
               /\ RiskInv'
    <3>1. [db EXCEPT !.cache[e] = NoEntry] \in Image
      BY <1>0, <2>3 DEF TypeOK, Image, Oldest, Cached
    <3>2. QED
      BY <1>0, <1>3, <1>4, <2>3, <3>1 DEF Apply, TypeOK, RiskInv
  <2>4. CASE EvictTest(c)
    <3>1. UNCHANGED dbVars /\ (lapsed' = lapsed \/ lapsed' = FALSE)
      BY <2>4 DEF EvictTest
    <3>2. QED
      BY <1>0, <2>1, <3>1 DEF TypeOK
  <2>5. CASE EvictOldest(c)
    BY <1>0, <2>1, <2>3, <2>5 DEF EvictOldest, TypeOK
  <2>6. CASE EvictFails(c)
    BY <1>0, <2>1, <2>2, <2>6 DEF EvictFails, TypeOK
  <2>7. CASE MeasureFails(c)
    BY <1>0, <2>1, <2>2, <2>7 DEF MeasureFails, TypeOK
  <2>8. QED
    BY <2>4, <2>5, <2>6, <2>7
<1>6. TypeOK'
  <2>1. faults' \in 0 .. MaxFaults
    BY <1>0, StorageAssumption DEF EvictTest, EvictOldest, EvictFails, MeasureFails, TypeOK
  <2>2. UNCHANGED <<now, calls, crashes>>
    BY DEF EvictTest, EvictOldest, EvictFails, MeasureFails
  <2>3. QED
    BY <1>0, <1>3, <1>5, <2>1, <2>2 DEF TypeOK, CallInv, CallShape, Call
<1>7. QED
  BY <1>3, <1>5, <1>6 DEF StorageInv

(* The process is killed. *)
LEMMA CrashInv ==
    ASSUME StorageInv, Crash
    PROVE  StorageInv'
<1>0. TypeOK
  BY DEF StorageInv
<1>1. CallInv'
  BY ReturnedShape DEF Crash, CallInv
<1>2. RiskInv'
  BY DEF Crash, RiskInv
<1>3. crashes' \in 0 .. MaxCrashes
  BY <1>0, StorageAssumption DEF Crash, TypeOK
<1>4. TypeOK'
  <2>1. db' \in Image /\ disk' \in Image /\ open' \in BOOLEAN /\ lapsed' \in BOOLEAN
    BY <1>0 DEF Crash, TypeOK
  <2>2. QED
    BY <1>0, <1>1, <1>3, <2>1 DEF Crash, TypeOK, CallInv, CallShape, Call
<1>5. QED
  BY <1>1, <1>2, <1>4 DEF StorageInv

LEMMA StorageInit == Init => StorageInv
<1> SUFFICES ASSUME Init PROVE StorageInv
  OBVIOUS
<1>1. Empty \in Image
  BY DEF Empty, Image, NoRows
<1>2. CallInv
  BY ReturnedShape DEF Init, CallInv
<1>3. TypeOK
  <2>1. open \in BOOLEAN /\ lapsed \in BOOLEAN
    BY DEF Init
  <2>2. QED
    BY <1>1, <1>2, <2>1, StorageAssumption DEF Init, TypeOK, CallInv, CallShape, Call
<1>4. RiskInv
  BY DEF Init, RiskInv
<1>5. QED
  BY <1>2, <1>3, <1>4 DEF StorageInv

LEMMA StorageStep == StorageInv /\ [Next]_vars => StorageInv'
<1> SUFFICES ASSUME StorageInv, [Next]_vars PROVE StorageInv'
  OBVIOUS
<1>1. ASSUME NEW c \in Callers, Calling(c) \/ Working(c) \/ Fail(c) \/ EvictFails(c)
                                   \/ MeasureFails(c)
      PROVE  StorageInv'
  BY <1>1, CallingInv, ExecuteInv, EvictInv, FailInv DEF Working
<1>2. CASE Crash
  BY <1>2, CrashInv
<1>3. CASE SetClock
  BY <1>3 DEF StorageInv, SetClock, TypeOK, CallInv, RiskInv, InTransaction
<1>4. CASE UNCHANGED vars
  BY <1>4 DEF StorageInv, vars, TypeOK, CallInv, RiskInv, InTransaction
<1>5. QED
  BY <1>1, <1>2, <1>3, <1>4 DEF Next, Quiet

(* Every reachable state satisfies the inductive invariant. *)
THEOREM StorageInvariant == Spec => []StorageInv
BY StorageInit, StorageStep, PTL DEF Spec

(* The tables keep their rows in their types, the calls are always at a     *)
(* known place, and no bound is passed.                                     *)
THEOREM StorageTypeCorrect == Spec => []TypeOK
<1>1. StorageInv => TypeOK
  BY DEF StorageInv
<1>2. QED
  BY <1>1, StorageInvariant, PTL

(* A transaction is open, or what readers see is not yet on the disk, only  *)
(* while a saveFeedVideos is past its BEGIN, in every interleaving of the   *)
(* calls' statements and whichever of them fail.                            *)
THEOREM OnlySavesRisk == Spec => []OnlySavesAtRisk
<1>1. StorageInv => OnlySavesAtRisk
  BY DEF StorageInv, RiskInv, OnlySavesAtRisk
<1>2. QED
  BY <1>1, StorageInvariant, PTL

-----------------------------------------------------------------------------
(* The limit of the cache *)

(* The sum over no rows, and over one. *)
LEMMA EmptySum ==
    ASSUME NEW f, DOMAIN f = {}
    PROVE  SumFunction(f) = 0
<1> DEFINE F(g) == [s \in SUBSET {} |-> IF s = {} THEN 0
                     ELSE LET x == CHOOSE x \in s : TRUE IN f[x] + g[s \ {x}]]
<1> DEFINE g == CHOOSE h : h = F(h)
<1>1. SumFunction(f) = g[{}]
  BY DEF SumFunction, SumFunctionOnSet, FoldFunctionOnSet, MapThenFoldSet
<1>2. \E h : h = F(h)
  <2>1. [s \in SUBSET {} |-> 0] = F([s \in SUBSET {} |-> 0])
    OBVIOUS
  <2>2. QED
    BY <2>1, Zenon
<1>3. g = F(g)
  BY <1>2, Zenon
<1> HIDE DEF g
<1>4. F(g)[{}] = 0
  OBVIOUS
<1>5. g[{}] = 0
  BY <1>3, <1>4, Zenon
<1>6. QED
  BY <1>1, <1>5

LEMMA OneSum ==
    ASSUME NEW x, NEW f, DOMAIN f = {x}, f[x] \in Int
    PROVE  SumFunction(f) = f[x]
<1> DEFINE F(g) == [s \in SUBSET {x} |-> IF s = {} THEN 0
                     ELSE LET y == CHOOSE y \in s : TRUE IN f[y] + g[s \ {y}]]
<1> DEFINE g == CHOOSE h : h = F(h)
<1>1. SumFunction(f) = g[{x}]
  BY DEF SumFunction, SumFunctionOnSet, FoldFunctionOnSet, MapThenFoldSet
<1>2. \E h : h = F(h)
  <2> DEFINE h0 == [s \in SUBSET {x} |-> IF s = {} THEN 0 ELSE f[x]]
  <2>0. (CHOOSE y \in {x} : TRUE) = x
    OBVIOUS
  <2>1. \A s \in SUBSET {x} : s = {} \/ s = {x}
    OBVIOUS
  <2>2. h0 = F(h0)
    <3>1. \A s \in SUBSET {x} : h0[s] = F(h0)[s]
      <4>1. h0[{}] = F(h0)[{}]
        OBVIOUS
      <4>2. h0[{x}] = F(h0)[{x}]
        BY <2>0
      <4>3. QED
        BY <2>1, <4>1, <4>2
    <3>2. QED
      BY <3>1
  <2>3. QED
    BY <2>2, Zenon
<1>3. g = F(g)
  BY <1>2, Zenon
<1> HIDE DEF g
<1>4. F(g)[{}] = 0
  OBVIOUS
<1>5. g[{}] = 0
  BY <1>3, <1>4, Zenon
<1>6. F(g)[{x}] = f[x] + g[{}]
  <2>1. (CHOOSE y \in {x} : TRUE) = x /\ {x} \ {x} = {} /\ {x} # {}
    OBVIOUS
  <2>2. QED
    BY <2>1
<1>7. g[{x}] = f[x] + g[{}]
  BY <1>3, <1>6, Zenon
<1>8. QED
  BY <1>1, <1>5, <1>7

(* A limit that fits an int is the limit that was asked for. *)
LEMMA LimitFits ==
    ASSUME maxCacheMB * MB < IntRange
    PROVE  m_maxCacheBytes = maxCacheMB * MB /\ m_maxCacheBytes \in Nat
<1> DEFINE p == maxCacheMB * MB
<1>1. p \in Nat /\ IntRange \in Nat \ {0}
  BY StorageAssumption
<1>2. m_maxCacheBytes = ((p + IntRange) % (2 * IntRange)) - IntRange
  BY DEF m_maxCacheBytes
<1>3. p < IntRange
  OBVIOUS
<1> HIDE DEF p
<1>4. ((p + IntRange) % (2 * IntRange)) - IntRange = p
  BY <1>1, <1>3
<1>5. m_maxCacheBytes = p /\ m_maxCacheBytes \in Nat
  BY <1>1, <1>2, <1>4
<1>6. QED
  BY <1>5 DEF p

(* No statement but the insert of registerCacheEntry makes the cache        *)
(* larger: touching an entry keeps its size, clearing leaves nothing.       *)
LEMMA OnlyInsertsGrow ==
    ASSUME NEW s \in Statement, s.op # "CACHE", NEW d \in Image
    PROVE  CacheSize(Effect(s, d)) \in {0, CacheSize(d)}
<1>0. /\ d.cache \in [Keys -> [size : Sizes, last : Nat] \cup {NoEntry}]
      /\ d = [rows |-> d.rows, cache |-> d.cache]
      /\ Effect(s, d) \in Image
  BY EffectTyped DEF Image
<1>1. ASSUME NEW e \in Image, \A k \in Keys : e.cache[k] = NoEntry
      PROVE  CacheSize(e) = 0
  <2>1. DOMAIN [k \in Cached(e) |-> e.cache[k].size] = {}
    BY <1>1 DEF Cached
  <2>2. QED
    BY <2>1, EmptySum DEF CacheSize
<1>2. ASSUME NEW e \in Image,
             \A k \in Keys : /\ e.cache[k].size = d.cache[k].size
                             /\ e.cache[k] = NoEntry <=> d.cache[k] = NoEntry
      PROVE  CacheSize(e) = CacheSize(d)
  <2>1. Cached(e) = Cached(d) /\ \A k \in Cached(d) : e.cache[k].size = d.cache[k].size
    BY <1>2 DEF Cached
  <2>2. [k \in Cached(e) |-> e.cache[k].size] = [k \in Cached(d) |-> d.cache[k].size]
    BY <2>1
  <2>3. QED
    BY <2>2 DEF CacheSize
<1>3. CASE s.op = "CLEAR"
  <2>1. \A k \in Keys : Effect(s, d).cache[k] = NoEntry
    BY <1>0, <1>3 DEF Effect
  <2>2. QED
    BY <1>0, <1>1, <2>1
<1>4. CASE s.op = "TOUCH"
  <2>0. s.key \in Keys /\ s.last \in Nat
    BY <1>4 DEF Statement, Begin, Commit, CacheClear
  <2>1. CASE d.cache[s.key] = NoEntry
    BY <1>4, <2>1 DEF Effect
  <2>2. CASE d.cache[s.key] # NoEntry
    <3>1. d.cache[s.key] \in [size : Sizes, last : Nat]
      BY <1>0, <2>0, <2>2
    <3>2. Effect(s, d).cache
            = [d.cache EXCEPT ![s.key] = [d.cache[s.key] EXCEPT !.last = s.last]]
      BY <1>0, <1>4, <2>2 DEF Effect
    <3>3. /\ [d.cache[s.key] EXCEPT !.last = s.last] # NoEntry
          /\ [d.cache[s.key] EXCEPT !.last = s.last].size = d.cache[s.key].size
      <4>1. [d.cache[s.key] EXCEPT !.last = s.last].last \in Nat
        BY <2>0, <3>1
      <4>2. NoEntry.last \notin Nat
        BY DEF NoEntry, None
      <4>3. QED
        BY <3>1, <4>1, <4>2
    <3>4. QED
      BY <1>0, <1>2, <2>0, <2>2, <3>2, <3>3
  <2>3. QED
    BY <2>1, <2>2
<1>5. CASE s.op \notin {"CLEAR", "TOUCH"}
  <2>1. Effect(s, d).cache = d.cache
    BY <1>0, <1>5 DEF Effect
  <2>2. QED
    BY <1>0, <1>2, <2>1
<1>6. QED
  BY <1>3, <1>4, <1>5

Evicting(c) == call[c].name \in {"measure", "evict"}

(* The state of the cache and its limit, as CacheWithinLimit has it. *)
LEMMA LimitStep ==
    ASSUME maxCacheMB * MB < IntRange, StorageInv, CacheWithinLimit, [Next]_vars
    PROVE  CacheWithinLimit'
<1> USE DEF Evicting
<1>0. TypeOK /\ CallInv /\ RiskInv
  BY DEF StorageInv
<1>1. ASSUME CacheSize(db') = CacheSize(db) \/ CacheSize(db') = 0, lapsed' = lapsed,
             \A c \in Callers : Evicting(c) => Evicting(c)'
      PROVE  CacheWithinLimit'
  <2>1. CASE CacheSize(db') = CacheSize(db)
    BY <1>1, <2>1 DEF CacheWithinLimit
  <2>2. CASE CacheSize(db') = 0
    BY <2>2, LimitFits DEF CacheWithinLimit
  <2>3. QED
    BY <1>1, <2>1, <2>2
<1>2. ASSUME \E c \in Callers : Evicting(c)' PROVE CacheWithinLimit'
  BY <1>2 DEF CacheWithinLimit
<1>3. ASSUME lapsed' = TRUE PROVE CacheWithinLimit'
  BY <1>3 DEF CacheWithinLimit
<1>4. ASSUME NEW s \in Statement, s.op # "CACHE", Exec(s)
      PROVE  CacheSize(db') = CacheSize(db) \/ CacheSize(db') = 0
  <2>1. db' = db \/ db' = Effect(s, db)
    BY <1>4 DEF Exec, Apply
  <2>2. db \in Image
    BY <1>0 DEF TypeOK
  <2>3. QED
    BY <1>4, <2>1, <2>2, OnlyInsertsGrow
<1>5. ASSUME NEW c \in Callers, NEW w, Start(c, w), UNCHANGED <<dbVars, now, lapsed>>
      PROVE  CacheWithinLimit'
  <2>1. \A d \in Callers : Evicting(d) => Evicting(d)'
    BY <1>0, <1>5 DEF Start, Disturbed, Idle, CallInv, Call
  <2>2. QED
    BY <1>1, <1>5, <2>1
<1>6. ASSUME NEW c \in Callers, NEW s \in Statement, s.op # "CACHE", Single(c, s)
      PROVE  CacheWithinLimit'
  <2>1. \A d \in Callers : Evicting(d) => Evicting(d)'
    BY <1>0, <1>6 DEF Single, Disturbed, CallInv, Call
  <2>2. QED
    BY <1>1, <1>4, <1>6, <2>1 DEF Single
<1>7. ASSUME NEW c \in Callers, Calling(c) PROVE CacheWithinLimit'
  BY <1>0, <1>5, <1>6, <1>7, CallingBegins DEF Begins
<1>8. ASSUME NEW c \in Callers, Execute(c) PROVE CacheWithinLimit'
  <2>0. /\ call[c] \in Call /\ CallShape(call[c]) /\ call[c].rest # <<>>
        /\ Head(call[c].rest) \in Statement
        /\ Head(call[c].rest) = call[c].rest[1] /\ 1 \in DOMAIN call[c].rest
    <3>1. call[c] \in Call /\ CallShape(call[c]) /\ call[c].rest # <<>>
      BY <1>0, <1>8 DEF CallInv, Execute
    <3>2. call[c].rest \in Seq(Statement)
      BY <3>1 DEF Call
    <3>3. QED
      BY <3>1, <3>2
  <2>1. CASE Head(call[c].rest).op = "CACHE"
    <3>1. call[c].name = "registerCacheEntry" /\ Len(call[c].rest) = 1
      BY <2>0, <2>1 DEF CallShape
    <3>2. call'[c].name = "measure"
      BY <1>0, <1>8, <3>1, <2>0 DEF Execute, After, CallInv, Call
    <3>3. QED
      BY <1>2, <3>2
  <2>2. CASE Head(call[c].rest).op # "CACHE"
    <3>1. \A d \in Callers : Evicting(d) => Evicting(d)'
      BY <1>0, <1>8, <2>0 DEF Execute, CallInv, CallShape
    <3>2. QED
      BY <1>1, <1>4, <1>8, <2>0, <2>2, <3>1 DEF Execute
  <2>3. QED
    BY <2>1, <2>2
<1>9. ASSUME NEW c \in Callers, Fail(c) PROVE CacheWithinLimit'
  <2>1. CASE Rollback
    BY <1>3, <2>1 DEF Rollback
  <2>2. CASE UNCHANGED <<dbVars, lapsed>>
    <3>1. \A d \in Callers : Evicting(d) => Evicting(d)'
      BY <1>0, <1>9 DEF Fail, Disturbed, CallInv, Call, CallShape
    <3>2. QED
      BY <1>1, <2>2, <3>1
  <2>3. QED
    BY <1>9, <2>1, <2>2 DEF Fail
<1>10. ASSUME NEW c \in Callers, EvictTest(c) PROVE CacheWithinLimit'
  <2>1. CASE CacheSize(db) > m_maxCacheBytes
    <3>1. call'[c].name = "evict"
      BY <1>0, <1>10, <2>1 DEF EvictTest, CallInv, Call
    <3>2. QED
      BY <1>2, <3>1
  <2>2. CASE ~(CacheSize(db) > m_maxCacheBytes)
    BY <1>10, <2>2 DEF EvictTest, CacheWithinLimit
  <2>3. QED
    BY <2>1, <2>2
<1>11. ASSUME NEW c \in Callers, EvictOldest(c) \/ EvictFails(c) PROVE CacheWithinLimit'
  <2>1. call'[c].name = "measure"
    BY <1>0, <1>11 DEF EvictOldest, EvictFails, Disturbed, CallInv, Call
  <2>2. QED
    BY <1>2, <2>1
<1>12. ASSUME NEW c \in Callers, MeasureFails(c) PROVE CacheWithinLimit'
  <2>1. CASE lapsed' = TRUE
    BY <1>3, <2>1
  <2>2. CASE call' = Disturbed
    <3>1. call'[c].name = "measure"
      BY <1>0, <1>12, <2>2 DEF MeasureFails, Disturbed, CallInv, Call
    <3>2. QED
      BY <1>2, <3>1
  <2>3. QED
    BY <1>12, <2>1, <2>2 DEF MeasureFails
<1>13. CASE Crash
  BY <1>3, <1>13 DEF Crash
<1>14. CASE SetClock \/ UNCHANGED vars
  BY <1>14 DEF SetClock, vars, CacheWithinLimit
<1>15. QED
  BY <1>7, <1>8, <1>9, <1>10, <1>11, <1>12, <1>13, <1>14 DEF Next, Working, Quiet

(* The cache is over its limit only while a thread evicts, or after an      *)
(* eviction that a crash or a rollback took back or that was given up       *)
(* because getCacheSizeBytes failed, until the next eviction that ends:     *)
(* no interleaving of registrations, lookups and failing statements leaves  *)
(* it over the limit otherwise.  For limits of less than 2048 MB: beyond,   *)
(* the limit overflows.                                                     *)
THEOREM CacheLimited ==
    ASSUME maxCacheMB * MB < IntRange
    PROVE  Spec => []CacheWithinLimit
<1>1. Init => CacheWithinLimit
  <2> SUFFICES ASSUME Init PROVE ~(CacheSize(db) > m_maxCacheBytes)
    BY DEF CacheWithinLimit
  <2>1. DOMAIN [k \in Cached(db) |-> db.cache[k].size] = {}
    BY DEF Init, Empty, Cached
  <2>2. CacheSize(db) = 0
    BY <2>1, EmptySum DEF CacheSize
  <2>3. QED
    BY <2>2, LimitFits
<1>2. StorageInv /\ CacheWithinLimit /\ [Next]_vars => CacheWithinLimit'
  BY LimitStep
<1>3. QED
  BY <1>1, <1>2, StorageInvariant, PTL DEF Spec
=============================================================================
