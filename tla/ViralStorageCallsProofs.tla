---------------------- MODULE ViralStorageCallsProofs ----------------------
(***************************************************************************)
(* Proofs about the calls of the storage engine that have the database for *)
(* themselves: a batch is saved as a whole, clearAll leaves nothing, and a *)
(* file that was just registered is not the one evicted.                   *)
(***************************************************************************)
EXTENDS ViralStorageEngineProofs

USE DEF dbVars, countVars

(* While a call is alone all other threads are in no call. *)
AloneInv ==
    \A c \in Callers : call[c].alone => ~Idle(c) /\ \A d \in Callers \ {c} : Idle(d)

-----------------------------------------------------------------------------
(* How far a call that is alone has come, and what it has done so far.     *)

Feed(d) == d.rows["feed_videos"]

(* saveFeedVideos: what is left is the end of its program, and inside the   *)
(* transaction the tables differ from the disk by the videos it has stored. *)
Stored(c) == Len(call[c].batch) + 1 - Len(call[c].rest)

SaveAt(c) ==
    /\ Len(call[c].rest) \in 1 .. Len(call[c].batch) + 2
    /\ \A i \in 1 .. Len(call[c].rest) :
           call[c].rest[i] = Program(call[c].batch)[Stored(c) + 1 + i]
    /\ Stored(c) >= 0 =>
           /\ open
           /\ \A v \in Ids : Feed(db)[v] = IF \E j \in 1 .. Stored(c) : call[c].batch[j] = v
                                          THEN 0 ELSE Feed(disk)[v]

(* clearAll: the tables before the statement that comes next are empty. *)
ClearAt(c) ==
    /\ Len(call[c].rest) \in 1 .. 5
    /\ \A i \in 1 .. Len(call[c].rest) :
           call[c].rest[i] = ClearProgram[5 - Len(call[c].rest) + i]
    /\ Len(call[c].rest) <= 4 => Feed(db) = NoRows
    /\ Len(call[c].rest) <= 3 => db.rows["user_profiles"] = NoRows
    /\ Len(call[c].rest) <= 2 => db.rows["chat_messages"] = NoRows
    /\ Len(call[c].rest) <= 1 => \A k \in Keys : db.cache[k] = NoEntry

(* registerCacheEntry of the entry used last: it fits, all others are       *)
(* older, and there are others whenever something is evicted.               *)
RegisterAt(c) ==
    /\ call[c].key \in Keys
    /\ call[c].name \in {"registerCacheEntry", "measure", "evict"}
    /\ call[c].name = "registerCacheEntry" =>
           \E size \in Sizes, t \in 0 .. MaxNow :
               /\ call[c].rest = <<CacheInsert(call[c].key, size, t)>>
               /\ size <= m_maxCacheBytes
               /\ \A l \in Cached(db) \ {call[c].key} : db.cache[l].last < t
    /\ call[c].name \in {"measure", "evict"} =>
           /\ call[c].key \in Cached(db)
           /\ db.cache[call[c].key].size <= m_maxCacheBytes
           /\ \A l \in Cached(db) \ {call[c].key} :
                  db.cache[l].last < db.cache[call[c].key].last
    /\ call[c].name = "evict" => Cached(db) # {call[c].key}

ProgressInv ==
    \A c \in Callers :
        call[c].alone =>
            /\ call[c].name = "saveFeedVideos" => SaveAt(c)
            /\ call[c].name = "clearAll" => ClearAt(c)
            /\ call[c].newest => RegisterAt(c)

CallsInv == StorageInv /\ AloneInv /\ ProgressInv

-----------------------------------------------------------------------------
(* Who moves *)

(* A measurement that fails leaves no call alone. *)
LEMMA MeasureDisturbs ==
    ASSUME StorageInv, NEW d \in Callers, MeasureFails(d)
    PROVE  \A c \in Callers : ~call'[c].alone
<1>0. \A c \in Callers : call[c] \in Call /\ Disturbed[c].alone = FALSE /\ c \in DOMAIN Disturbed
  BY DEF StorageInv, CallInv, Disturbed, Call
<1>1. CASE call' = Disturbed
  BY <1>0, <1>1
<1>2. ASSUME NEW k, k.alone = FALSE, call' = [Disturbed EXCEPT ![d] = k]
      PROVE  \A c \in Callers : ~call'[c].alone
  BY <1>0, <1>2
<1>3. [call[d] EXCEPT !.name = "evict", !.alone = FALSE].alone = FALSE /\ Returned.alone = FALSE
  BY <1>0 DEF Call, Returned
<1>4. QED
  BY <1>1, <1>2, <1>3 DEF MeasureFails

(* What can happen next to a call that is alone: a step of its own, nothing *)
(* that touches it, another call, a failure, or the end of the process.     *)
LEMMA WhoMoves ==
    ASSUME StorageInv, AloneInv, [Next]_vars, NEW c \in Callers, call[c].alone
    PROVE  \/ Execute(c) /\ UNCHANGED countVars
           \/ (EvictTest(c) \/ EvictOldest(c)) /\ UNCHANGED countVars
           \/ UNCHANGED <<dbVars, call, countVars>>
           \/ ~call'[c].alone /\ call'[c].name # "none"
           \/ ~call'[c].alone /\ faults' # faults
           \/ ~call'[c].alone /\ crashes' # crashes /\ UNCHANGED disk
<1>0. /\ TypeOK /\ CallInv /\ ~Idle(c) /\ \A d \in Callers \ {c} : Idle(d)
      /\ \A d \in Callers : call[d] \in Call /\ CallShape(call[d])
  BY DEF StorageInv, AloneInv, CallInv
<1>1. ASSUME NEW d \in Callers, Calling(d) PROVE ~call'[c].alone /\ call'[c].name # "none"
  <2>1. ASSUME NEW w, Start(d, w) PROVE ~call'[c].alone /\ call'[c].name # "none"
    BY <1>0, <2>1 DEF Start, Disturbed, Idle, CallInv, Call
  <2>2. ASSUME NEW s, Single(d, s) PROVE ~call'[c].alone /\ call'[c].name # "none"
    BY <1>0, <2>2 DEF Single, Disturbed, Idle, CallInv, Call
  <2>3. QED
    BY <1>0, <1>1, <2>1, <2>2, CallingBegins DEF Begins
<1>2. ASSUME NEW d \in Callers, Working(d)
      PROVE  /\ Execute(c) \/ EvictTest(c) \/ EvictOldest(c)
             /\ UNCHANGED countVars
  <2>1. ~Idle(d)
    BY <1>0, <1>2 DEF Working, Execute, EvictTest, EvictOldest, Idle, CallShape
  <2>2. d = c
    BY <1>0, <2>1
  <2>3. QED
    BY <1>2, <2>2 DEF Working, Execute, EvictTest, EvictOldest
<1>3. ASSUME NEW d \in Callers, Fail(d) \/ EvictFails(d) \/ MeasureFails(d)
      PROVE  ~call'[c].alone /\ faults' # faults
  <2>1. faults' # faults
    BY <1>0, <1>3 DEF Fail, EvictFails, MeasureFails, TypeOK
  <2>2. CASE Fail(d)
    <3>1. After(d) \in Call
      BY <1>0, <2>2, AfterShape DEF Fail
    <3>2. [After(d) EXCEPT !.alone = FALSE].alone = FALSE
      BY <3>1 DEF Call
    <3>3. Disturbed[c].alone = FALSE /\ c \in DOMAIN Disturbed /\ d \in DOMAIN Disturbed
      BY <1>0 DEF Disturbed, Call
    <3>4. QED
      BY <2>1, <2>2, <3>2, <3>3 DEF Fail
  <2>3. CASE EvictFails(d)
    BY <1>0, <2>1, <2>3 DEF EvictFails, Disturbed, CallInv, Call
  <2>4. CASE MeasureFails(d)
    BY <2>1, <2>4, MeasureDisturbs
  <2>5. QED
    BY <1>3, <2>2, <2>3, <2>4
<1>4. CASE Crash
  BY <1>0, <1>4 DEF Crash, TypeOK, Returned
<1>5. CASE SetClock \/ UNCHANGED vars
  BY <1>5 DEF SetClock, vars
<1>6. QED
  BY <1>1, <1>2, <1>3, <1>4, <1>5 DEF Next, Quiet

(* A call becomes alone only by its own beginning, when all are idle. *)
LEMMA WhoBegins ==
    ASSUME StorageInv, [Next]_vars, NEW c \in Callers, ~call[c].alone, call'[c].alone
    PROVE  /\ \A d \in Callers : Idle(d)
           /\ \E w \in Call :
                  /\ call' = [Disturbed EXCEPT ![c] = [w EXCEPT !.alone = TRUE]]
                  /\ UNCHANGED <<dbVars, now>>
                  /\ \/ \E b \in Batches : w = SaveCall(b)
                     \/ \E k \in Keys, size \in Sizes : w = RegisterCall(k, size)
                     \/ \E k \in Keys : w = LookupCall(k)
                     \/ w = ClearCall
<1>0. /\ TypeOK /\ CallInv
      /\ \A d \in Callers : call[d] \in Call /\ CallShape(call[d])
  BY DEF StorageInv, CallInv
<1>1. ASSUME NEW d \in Callers, NEW w \in Call, Begins(d, w)
      PROVE  /\ \A e \in Callers : Idle(e)
             /\ call' = [Disturbed EXCEPT ![c] = [w EXCEPT !.alone = TRUE]]
             /\ UNCHANGED <<dbVars, now>>
  <2>1. d = c
    BY <1>0, <1>1 DEF Begins, Start, Disturbed, Call
  <2>2. \A e \in Callers : Idle(e)
    BY <1>0, <1>1, <2>1 DEF Begins, Start, Disturbed, Call
  <2>3. QED
    BY <1>1, <2>1, <2>2 DEF Begins, Start
<1>2. ASSUME NEW d \in Callers, NEW s, Single(d, s) PROVE FALSE
  BY <1>0, <1>2 DEF Single, Disturbed, Call
<1>3. ASSUME NEW d \in Callers, Working(d) \/ Fail(d) \/ EvictFails(d) \/ MeasureFails(d)
      PROVE  FALSE
  <2>1. ASSUME call[d].rest # <<>> PROVE After(d) \in Call /\ (After(d).alone => call[d].alone)
    <3>1. After(d) \in Call
      BY <1>0, <2>1, AfterShape
    <3>2. QED
      BY <1>0, <3>1 DEF After, Call, Returned
  <2>2. CASE Execute(d)
    BY <1>0, <2>1, <2>2 DEF Execute, CallInv
  <2>3. CASE EvictTest(d) \/ EvictOldest(d)
    <3>1. \/ call' = [call EXCEPT ![d] = [call[d] EXCEPT !.name = "evict"]]
          \/ call' = [call EXCEPT ![d] = [call[d] EXCEPT !.name = "measure"]]
          \/ call' = [call EXCEPT ![d] = Returned]
      BY <2>3 DEF EvictTest, EvictOldest
    <3>2. \A n : [call[d] EXCEPT !.name = n].alone = call[d].alone
      BY <1>0 DEF Call
    <3>3. Returned.alone = FALSE
      BY DEF Returned
    <3>4. ASSUME NEW k, call' = [call EXCEPT ![d] = k], k.alone = FALSE \/ k.alone = call[d].alone
          PROVE  FALSE
      BY <1>0, <3>4 DEF CallInv
    <3>5. QED
      BY <3>1, <3>2, <3>3, <3>4
  <2>4. CASE Fail(d)
    <3>1. [After(d) EXCEPT !.alone = FALSE].alone = FALSE
      BY <2>1, <2>4 DEF Fail, Call
    <3>2. Disturbed[c].alone = FALSE /\ c \in DOMAIN Disturbed /\ d \in DOMAIN Disturbed
      BY <1>0 DEF Disturbed, Call
    <3>3. QED
      BY <2>4, <3>1, <3>2 DEF Fail
  <2>5. CASE EvictFails(d)
    BY <1>0, <2>5 DEF EvictFails, Disturbed, CallInv, Call
  <2>6. CASE MeasureFails(d)
    BY <2>6, MeasureDisturbs
  <2>7. QED
    BY <1>3, <2>2, <2>3, <2>4, <2>5, <2>6 DEF Working
<1>4. ASSUME Crash \/ SetClock \/ UNCHANGED vars PROVE FALSE
  BY <1>4 DEF Crash, SetClock, vars, Returned
<1>5. PICK d \in Callers : Calling(d)
  BY <1>3, <1>4 DEF Next, Quiet
<1>6. QED
  BY <1>0, <1>1, <1>2, <1>5, CallingBegins, SaveBegins, RegisterBegins, LookupBegins, ClearBegins

-----------------------------------------------------------------------------
(* A call that is alone is the only one *)

(* How a call that is alone and stays alone goes on. *)
LEMMA GoesOn ==
    ASSUME StorageInv, AloneInv, [Next]_vars, NEW c \in Callers, call[c].alone, call'[c].alone
    PROVE  \/ /\ Execute(c) /\ call'[c] = After(c) /\ After(c) # Returned
              /\ \/ Len(call[c].rest) > 1
                 \/ call[c].name = "registerCacheEntry" /\ Len(call[c].rest) = 1
           \/ /\ EvictTest(c) /\ CacheSize(db) > m_maxCacheBytes
              /\ call'[c] = [call[c] EXCEPT !.name = "evict"]
           \/ EvictOldest(c) /\ call'[c] = [call[c] EXCEPT !.name = "measure"]
           \/ UNCHANGED <<dbVars, call>>
<1>0. call[c] \in Call /\ CallShape(call[c]) /\ DOMAIN call = Callers /\ Returned.alone = FALSE
  BY DEF StorageInv, CallInv, Returned
<1>1. CASE Execute(c)
  <2>1. call'[c] = After(c) /\ After(c) # Returned
    BY <1>0, <1>1 DEF Execute
  <2>2. Len(call[c].rest) \in Nat /\ Len(call[c].rest) >= 1
    BY <1>0, <1>1, HeadTyped DEF Execute
  <2>3. Len(call[c].rest) > 1 \/ Len(call[c].rest) = 1
    <3>1. \A n \in Nat : n >= 1 => n > 1 \/ n = 1
      OBVIOUS
    <3>2. QED
      BY <2>2, <3>1, Zenon
  <2>4. Len(call[c].rest) > 1 \/ call[c].name = "registerCacheEntry"
    BY <2>1 DEF After
  <2>5. QED
    BY <1>1, <2>1, <2>3, <2>4
<1>2. CASE EvictTest(c)
  <2>1. CASE CacheSize(db) > m_maxCacheBytes
    BY <1>0, <1>2, <2>1 DEF EvictTest
  <2>2. CASE ~(CacheSize(db) > m_maxCacheBytes)
    BY <1>0, <1>2, <2>2 DEF EvictTest
  <2>3. QED
    BY <2>1, <2>2
<1>3. CASE EvictOldest(c)
  BY <1>0, <1>3 DEF EvictOldest
<1>4. QED
  BY <1>1, <1>2, <1>3, WhoMoves

LEMMA AloneStep ==
    ASSUME StorageInv, AloneInv, [Next]_vars
    PROVE  AloneInv'
<1> SUFFICES ASSUME NEW c \in Callers, call'[c].alone
             PROVE  ~Idle(c)' /\ \A d \in Callers \ {c} : Idle(d)'
  BY DEF AloneInv
<1>0. \A d \in Callers : call[d] \in Call /\ CallShape(call[d]) /\ DOMAIN call = Callers
  BY DEF StorageInv, CallInv
<1>1. CASE ~call[c].alone
  <2>1. PICK w \in Call :
          /\ call' = [Disturbed EXCEPT ![c] = [w EXCEPT !.alone = TRUE]]
          /\ w.name # "none"
    BY <1>1, WhoBegins, SaveBegins, RegisterBegins, LookupBegins, ClearBegins DEF StorageInv
  <2>2. \A d \in Callers : Idle(d)
    BY <1>1, WhoBegins
  <2>3. QED
    BY <1>0, <2>1, <2>2 DEF Disturbed, Idle, Call
<1>2. CASE call[c].alone
  <2>0. ~Idle(c) /\ \A d \in Callers \ {c} : Idle(d)
    BY <1>2 DEF AloneInv
  <2>1. CASE UNCHANGED call
    BY <2>0, <2>1 DEF Idle
  <2>2. ASSUME NEW w, call' = [call EXCEPT ![c] = w], w.name # "none"
        PROVE  ~Idle(c)' /\ \A d \in Callers \ {c} : Idle(d)'
    BY <1>0, <2>0, <2>2 DEF Idle
  <2>3. CASE Execute(c)
    <3>1. call' = [call EXCEPT ![c] = After(c)]
      BY <2>3 DEF Execute
    <3>2. After(c).name # "none"
      <4>1. After(c) # Returned
        BY <1>0, <3>1 DEF Returned
      <4>2. QED
        BY <1>0, <2>0, <4>1 DEF After, Call, Idle
    <3>3. QED
      BY <2>2, <3>1, <3>2
  <2>4. CASE EvictTest(c) \/ EvictOldest(c)
    <3>1. \/ call' = [call EXCEPT ![c] = [call[c] EXCEPT !.name = "evict"]]
          \/ call' = [call EXCEPT ![c] = [call[c] EXCEPT !.name = "measure"]]
          \/ call' = [call EXCEPT ![c] = Returned]
      BY <2>4 DEF EvictTest, EvictOldest
    <3>2. call' # [call EXCEPT ![c] = Returned]
      BY <1>0 DEF Returned
    <3>3. [call[c] EXCEPT !.name = "evict"].name # "none"
          /\ [call[c] EXCEPT !.name = "measure"].name # "none"
      BY <1>0 DEF Call
    <3>4. QED
      BY <2>2, <3>1, <3>2, <3>3
  <2>5. QED
    BY <1>2, <2>1, <2>3, <2>4, WhoMoves
<1>3. QED
  BY <1>1, <1>2

-----------------------------------------------------------------------------
(* saveFeedVideos *)

(* At its BEGIN a call that is alone finds no transaction. *)
LEMMA AloneOutside ==
    ASSUME StorageInv, AloneInv, NEW c \in Callers, call[c].alone, ~InTransaction(c)
    PROVE  ~open /\ db = disk
BY DEF StorageInv, AloneInv, RiskInv, InTransaction, Idle

(* The statement that comes next, by the number of statements left. *)
LEMMA SaveNext ==
    ASSUME StorageInv, NEW c \in Callers, call[c].name = "saveFeedVideos", SaveAt(c)
    PROVE  /\ call[c].batch \in Seq(Videos) /\ Len(call[c].batch) \in Nat
           /\ call[c].rest \in Seq(Statement) /\ Len(call[c].rest) \in Nat
           /\ Stored(c) \in -1 .. Len(call[c].batch)
           /\ Len(call[c].rest) = Len(call[c].batch) + 1 - Stored(c)
           /\ Stored(c) = -1 => Head(call[c].rest) = Begin
           /\ Stored(c) \in 0 .. Len(call[c].batch) - 1 =>
                  Head(call[c].rest) = Insert("feed_videos", call[c].batch[Stored(c) + 1], 0)
           /\ Stored(c) = Len(call[c].batch) => Head(call[c].rest) = Commit
<1> DEFINE b == call[c].batch
           r == call[c].rest
<1>1. b \in Seq(Videos) /\ r \in Seq(Statement) /\ Len(b) \in Nat /\ Len(r) \in Nat
      /\ r # <<>> /\ Head(r) = r[1]
  BY DEF StorageInv, CallInv, Call, CallShape
<1>2. Len(r) \in 1 .. Len(b) + 2 /\ r[1] = Program(b)[Stored(c) + 2]
  <2>1. Stored(c) + 1 + 1 = Stored(c) + 2
    BY <1>1 DEF Stored
  <2>2. QED
    BY <1>1, <2>1 DEF SaveAt
<1>3. Stored(c) = Len(b) + 1 - Len(r)
  BY DEF Stored
<1> HIDE DEF b, r
<1>4. /\ Stored(c) \in -1 .. Len(b)
      /\ Len(r) = Len(b) + 1 - Stored(c)
  BY <1>1, <1>2, <1>3
<1>5. Stored(c) = -1 => r[1] = Begin
  BY <1>1, <1>2, ProgramShape
<1>6. Stored(c) = Len(b) => r[1] = Commit
  BY <1>1, <1>2, ProgramShape
<1>7. Stored(c) \in 0 .. Len(b) - 1 => r[1] = Insert("feed_videos", b[Stored(c) + 1], 0)
  <2> SUFFICES ASSUME Stored(c) \in 0 .. Len(b) - 1
               PROVE  r[1] = Insert("feed_videos", b[Stored(c) + 1], 0)
    OBVIOUS
  <2>1. Stored(c) + 2 \in 2 .. Len(b) + 1 /\ (Stored(c) + 2) - 1 = Stored(c) + 1
    BY <1>1
  <2>2. QED
    BY <1>1, <1>2, <2>1, ProgramShape
<1>8. QED
  BY <1>1, <1>4, <1>5, <1>6, <1>7 DEF b, r

(* Storing a video. *)
LEMMA InsertFeed ==
    ASSUME NEW d \in Image, NEW v \in Videos
    PROVE  LET e == Effect(Insert("feed_videos", v, 0), d) IN
           \A i \in Ids : Feed(e)[i] = IF i = v THEN 0 ELSE Feed(d)[i]
BY DEF Effect, Insert, Image, Feed, Tables, Ids

LEMMA SaveProgress ==
    ASSUME StorageInv, AloneInv, NEW c \in Callers, call[c].alone, SaveAt(c),
           call[c].name = "saveFeedVideos", Execute(c), Len(call[c].rest) > 1
    PROVE  SaveAt(c)' /\ UNCHANGED disk
<1> DEFINE b == call[c].batch
           r == call[c].rest
           n == Stored(c)
<1>0. /\ TypeOK /\ CallInv /\ call[c] \in Call /\ DOMAIN call = Callers
      /\ b \in Seq(Videos) /\ Len(b) \in Nat /\ r \in Seq(Statement) /\ Len(r) \in Nat
      /\ n \in -1 .. Len(b) /\ Len(r) = Len(b) + 1 - n
  BY SaveNext DEF StorageInv, CallInv
<1>1. call'[c].batch = b /\ call'[c].rest = Tail(r) /\ call'[c].name = "saveFeedVideos"
  BY <1>0 DEF Execute, After, Call
<1>2. n < Len(b) /\ Len(Tail(r)) = Len(r) - 1 /\ Stored(c)' = n + 1
  <2>1. Len(Tail(r)) = Len(r) - 1
    BY <1>0
  <2>2. Stored(c)' = Len(b) + 1 - Len(Tail(r))
    BY <1>1 DEF Stored
  <2>4. Len(b) \in Int /\ Len(r) \in Int /\ n \in Int /\ Len(r) > 1
    BY <1>0
  <2> HIDE DEF b, r, n
  <2>5. n < Len(b) /\ Len(b) + 1 - (Len(r) - 1) = n + 1
    <3> DEFINE l == Len(b)
               m == Len(r)
    <3>1. m = l + 1 - n /\ l \in Int /\ m \in Int /\ n \in Int /\ m > 1
      BY <1>0, <2>4
    <3> HIDE DEF l, m
    <3>2. n < l /\ l + 1 - (m - 1) = n + 1
      BY <3>1
    <3> QED BY <3>2 DEF l, m
  <2>6. Stored(c)' = Len(b) + 1 - (Len(r) - 1)
    BY <2>1, <2>2, Zenon
  <2>7. QED
    BY <2>1, <2>5, <2>6, Zenon
<1>3. \A i \in 1 .. Len(Tail(r)) : Tail(r)[i] = Program(b)[(n + 1) + 1 + i]
  <2> SUFFICES ASSUME NEW i \in 1 .. Len(Tail(r))
               PROVE  Tail(r)[i] = Program(b)[(n + 1) + 1 + i]
    OBVIOUS
  <2>1. Tail(r)[i] = r[i + 1] /\ i + 1 \in 1 .. Len(r)
    BY <1>0, <1>2, TailElements
  <2>2. r[i + 1] = Program(b)[n + 1 + (i + 1)]
    BY <2>1 DEF SaveAt
  <2>3. n + 1 + (i + 1) = (n + 1) + 1 + i
    BY <1>0
  <2>4. QED
    BY <2>1, <2>2, <2>3
<1>4. /\ open' /\ UNCHANGED disk
      /\ \A v \in Ids : Feed(db')[v] = IF \E j \in 1 .. n + 1 : b[j] = v
                                       THEN 0 ELSE Feed(disk)[v]
  <2>1. CASE n = -1
    <3>1. Head(r) = Begin
      BY <2>1, SaveNext
    <3>2. open' = TRUE /\ UNCHANGED <<db, disk>>
      BY <3>1 DEF Execute, Exec, Begin
    <3>3. db = disk
      BY <3>1, AloneOutside DEF InTransaction
    <3>4. \A j \in 1 .. n + 1 : FALSE
      BY <2>1
    <3>5. QED
      BY <3>2, <3>3, <3>4
  <2>2. CASE n >= 0
    <3>1. n \in 0 .. Len(b) - 1
      BY <1>0, <1>2, <2>2
    <3>2. Head(r) = Insert("feed_videos", b[n + 1], 0)
      BY <3>1, SaveNext
    <3>3. b[n + 1] \in Videos
      BY <1>0, <3>1
    <3>4. open /\ \A v \in Ids : Feed(db)[v] = IF \E j \in 1 .. n : b[j] = v
                                               THEN 0 ELSE Feed(disk)[v]
      BY <2>2 DEF SaveAt
    <3>5. /\ db' = Effect(Insert("feed_videos", b[n + 1], 0), db)
          /\ UNCHANGED <<disk, open>>
      <4>1. Apply(Effect(Insert("feed_videos", b[n + 1], 0), db))
        BY <3>2 DEF Execute, Exec, Insert
      <4>2. QED
        BY <3>4, <4>1 DEF Apply
    <3>6. db \in Image
      BY <1>0 DEF TypeOK
    <3>7. \A v \in Ids : Feed(db')[v] = IF v = b[n + 1] THEN 0 ELSE Feed(db)[v]
      BY <3>3, <3>5, <3>6, InsertFeed
    <3> HIDE DEF b, r, n
    <3>8. \A v : (\E j \in 1 .. n + 1 : b[j] = v) <=> (\E j \in 1 .. n : b[j] = v) \/ b[n + 1] = v
      BY <3>1
    <3>9. QED
      BY <3>4, <3>5, <3>7, <3>8
  <2>3. QED
    BY <1>0, <2>1, <2>2
<1>5. Len(Tail(r)) \in 1 .. Len(b) + 2
  <2>1. \A l, m \in Nat, k \in Int :
            m = l + 1 - k /\ k >= -1 /\ k < l => m - 1 \in 1 .. l + 2
    OBVIOUS
  <2>2. n \in Int /\ n >= -1
    BY <1>0
  <2> HIDE DEF b, r, n
  <2>3. Len(r) - 1 \in 1 .. Len(b) + 2
    BY <1>0, <1>2, <2>1, <2>2, Zenon
  <2>4. QED
    BY <1>2, <2>3, Zenon
<1>6. QED
  BY <1>1, <1>2, <1>3, <1>4, <1>5 DEF SaveAt

(* The last statement of a save that was alone commits the whole batch. *)
LEMMA SaveEnds ==
    ASSUME StorageInv, AloneInv, NEW c \in Callers, call[c].alone, SaveAt(c),
           call[c].name = "saveFeedVideos", Execute(c), Len(call[c].rest) = 1
    PROVE  Feed(disk') = Saved(Feed(disk), call[c].batch)
<1> DEFINE b == call[c].batch
           n == Stored(c)
<1>0. /\ TypeOK /\ b \in Seq(Videos) /\ Len(b) \in Nat
      /\ n \in -1 .. Len(b) /\ Len(call[c].rest) = Len(b) + 1 - n
      /\ n = Len(b) => Head(call[c].rest) = Commit
  BY SaveNext DEF StorageInv
<1>1. n = Len(b)
  <2>1. \A l, k \in Int : 1 = l + 1 - k => k = l
    OBVIOUS
  <2>2. Len(b) \in Int /\ n \in Int
    BY <1>0
  <2> HIDE DEF b, n
  <2>3. QED
    BY <1>0, <2>1, <2>2
<1>2. disk' = db
  BY <1>0, <1>1 DEF Execute, Exec, Commit
<1>3. \A v \in Ids : Feed(db)[v] = IF \E j \in 1 .. Len(b) : b[j] = v THEN 0 ELSE Feed(disk)[v]
  BY <1>0, <1>1 DEF SaveAt
<1>4. Feed(db) \in [Ids -> {None, 0, 1}] /\ DOMAIN b = 1 .. Len(b)
  BY <1>0 DEF TypeOK, Image, Feed, Tables
<1>5. Feed(db) = [v \in Ids |-> IF \E j \in DOMAIN b : b[j] = v THEN 0 ELSE Feed(disk)[v]]
  BY <1>3, <1>4
<1>6. QED
  BY <1>2, <1>5 DEF Saved

-----------------------------------------------------------------------------
(* clearAll *)

LEMMA ClearNext ==
    ASSUME StorageInv, NEW c \in Callers, call[c].name = "clearAll", ClearAt(c)
    PROVE  /\ call[c].rest \in Seq(Statement)
           /\ Len(call[c].rest) \in 1 .. 5
           /\ Head(call[c].rest) = ClearProgram[6 - Len(call[c].rest)]
<1> DEFINE r == call[c].rest
<1>1. r \in Seq(Statement) /\ r # <<>> /\ Head(r) = r[1] /\ Len(r) \in 1 .. 5
  <2>1. r \in Seq(Statement) /\ r # <<>>
    BY DEF StorageInv, CallInv, Call, CallShape
  <2>2. QED
    BY <2>1 DEF ClearAt
<1>2. 1 \in 1 .. Len(r) /\ 5 - Len(r) + 1 = 6 - Len(r)
  BY <1>1
<1>3. r[1] = ClearProgram[5 - Len(r) + 1]
  BY <1>2 DEF ClearAt
<1>4. QED
  BY <1>1, <1>2, <1>3

(* What one statement of clearAll leaves, by the number of those left. *)
LEMMA ClearStatement ==
    ASSUME StorageInv, AloneInv, NEW c \in Callers, call[c].alone, ClearAt(c),
           call[c].name = "clearAll", Execute(c)
    PROVE  /\ db' \in Image /\ disk' = db'
           /\ Feed(db') = NoRows
           /\ Len(call[c].rest) <= 4 => db'.rows["user_profiles"] = NoRows
           /\ Len(call[c].rest) <= 3 => db'.rows["chat_messages"] = NoRows
           /\ Len(call[c].rest) <= 2 => \A k \in Keys : db'.cache[k] = NoEntry
           /\ Len(call[c].rest) <= 1 => db'.rows["settings"] = NoRows
<1> DEFINE l == Len(call[c].rest)
           s == Head(call[c].rest)
<1>0. /\ TypeOK /\ db \in Image /\ l \in 1 .. 5 /\ s \in Statement
      /\ s = ClearProgram[6 - l]
  <2>1. call[c] \in Call /\ call[c].rest # <<>>
    BY DEF StorageInv, CallInv, Execute
  <2>2. QED
    BY <2>1, ClearNext, HeadTyped DEF StorageInv, TypeOK
<1>1. ~open
  BY AloneOutside DEF InTransaction
<1>2. /\ l = 5 => s = DeleteAll("feed_videos")
      /\ l = 4 => s = DeleteAll("user_profiles")
      /\ l = 3 => s = DeleteAll("chat_messages")
      /\ l = 2 => s = CacheClear
      /\ l = 1 => s = DeleteAll("settings")
  <2> HIDE DEF l, s
  <2>1. QED
    BY <1>0 DEF ClearProgram
<1>3. Apply(Effect(s, db))
  <2>1. s.op # "BEGIN" /\ s.op # "COMMIT"
    <3> HIDE DEF l, s
    <3>1. QED
      BY <1>0, <1>2 DEF DeleteAll, CacheClear
  <2>2. QED
    BY <2>1 DEF Execute, Exec
<1>4. db' = Effect(s, db) /\ disk' = db' /\ db' \in Image
  BY <1>0, <1>1, <1>3, EffectTyped DEF Apply
<1>5. /\ db.rows \in [Tables -> [Ids -> {None, 0, 1}]]
      /\ db.cache \in [Keys -> [size : Sizes, last : Nat] \cup {NoEntry}]
      /\ db = [rows |-> db.rows, cache |-> db.cache]
  BY <1>0 DEF Image
<1>6. /\ l <= 4 => Feed(db) = NoRows
      /\ l <= 3 => db.rows["user_profiles"] = NoRows
      /\ l <= 2 => db.rows["chat_messages"] = NoRows
      /\ l <= 1 => \A k \in Keys : db.cache[k] = NoEntry
  BY DEF ClearAt
<1> HIDE DEF l, s
<1>7. ASSUME NEW t \in Tables, s = DeleteAll(t)
      PROVE  /\ db'.rows = [db.rows EXCEPT ![t] = NoRows]
             /\ db'.cache = db.cache
  BY <1>4, <1>5, <1>7 DEF Effect, DeleteAll
<1>8. ASSUME s = CacheClear
      PROVE  db'.rows = db.rows /\ \A k \in Keys : db'.cache[k] = NoEntry
  BY <1>4, <1>5, <1>8 DEF Effect, CacheClear
<1>9. CASE l = 5
  BY <1>2, <1>4, <1>5, <1>7, <1>9 DEF Feed, Tables, l
<1>10. CASE l = 4
  BY <1>2, <1>4, <1>5, <1>6, <1>7, <1>10 DEF Feed, Tables, l
<1>11. CASE l = 3
  BY <1>2, <1>4, <1>5, <1>6, <1>7, <1>11 DEF Feed, Tables, l
<1>12. CASE l = 2
  BY <1>2, <1>4, <1>5, <1>6, <1>8, <1>12 DEF Feed, Tables, l
<1>13. CASE l = 1
  BY <1>2, <1>4, <1>5, <1>6, <1>7, <1>13 DEF Feed, Tables, l
<1>14. QED
  BY <1>0, <1>9, <1>10, <1>11, <1>12, <1>13

LEMMA ClearProgress ==
    ASSUME StorageInv, AloneInv, NEW c \in Callers, call[c].alone, ClearAt(c),
           call[c].name = "clearAll", Execute(c), Len(call[c].rest) > 1
    PROVE  ClearAt(c)'
<1> DEFINE r == call[c].rest
<1>0. call[c] \in Call /\ DOMAIN call = Callers
  BY DEF StorageInv, CallInv
<1>1. r \in Seq(Statement) /\ Len(r) \in 2 .. 5
  <2>1. \A m \in 1 .. 5 : m > 1 => m \in 2 .. 5
    OBVIOUS
  <2>2. QED
    BY <2>1, ClearNext, Zenon
<1>2. call'[c].rest = Tail(r)
  BY <1>0 DEF Execute, After, Call
<1>3. Len(Tail(r)) = Len(r) - 1 /\ Len(Tail(r)) \in 1 .. 5
  BY <1>1
<1>4. \A i \in 1 .. Len(Tail(r)) : Tail(r)[i] = ClearProgram[5 - Len(Tail(r)) + i]
  <2> SUFFICES ASSUME NEW i \in 1 .. Len(Tail(r))
               PROVE  Tail(r)[i] = ClearProgram[5 - Len(Tail(r)) + i]
    OBVIOUS
  <2>1. Tail(r)[i] = r[i + 1] /\ i + 1 \in 1 .. Len(r)
    BY <1>1, <1>3, TailElements
  <2>2. r[i + 1] = ClearProgram[5 - Len(r) + (i + 1)]
    BY <2>1 DEF ClearAt
  <2>3. 5 - Len(r) + (i + 1) = 5 - Len(Tail(r)) + i
    <3>1. \A m, j \in Int : 5 - m + (j + 1) = 5 - (m - 1) + j
      OBVIOUS
    <3>2. Len(r) \in Int /\ i \in Int
      BY <1>1
    <3>3. QED
      BY <1>3, <3>1, <3>2, Zenon
  <2>4. QED
    BY <2>1, <2>2, <2>3
<1>5. /\ Len(Tail(r)) <= 3 <=> Len(r) <= 4
      /\ Len(Tail(r)) <= 2 <=> Len(r) <= 3
      /\ Len(Tail(r)) <= 1 <=> Len(r) <= 2
  BY <1>1, <1>3
<1>6. QED
  BY <1>2, <1>3, <1>4, <1>5, ClearStatement DEF ClearAt

(* The last statement of clearAll leaves the database empty. *)
LEMMA ClearEnds ==
    ASSUME StorageInv, AloneInv, NEW c \in Callers, call[c].alone, ClearAt(c),
           call[c].name = "clearAll", Execute(c), Len(call[c].rest) = 1
    PROVE  db' = Empty /\ disk' = Empty
<1>1. /\ db' \in Image /\ disk' = db'
      /\ Feed(db') = NoRows /\ db'.rows["user_profiles"] = NoRows
      /\ db'.rows["chat_messages"] = NoRows /\ db'.rows["settings"] = NoRows
      /\ \A k \in Keys : db'.cache[k] = NoEntry
  <2>1. 1 <= 4 /\ 1 <= 3 /\ 1 <= 2 /\ 1 <= 1
    OBVIOUS
  <2>2. QED
    BY <2>1, ClearStatement, Zenon
<1>2. db'.rows = [t \in Tables |-> NoRows]
  BY <1>1 DEF Image, Tables, Feed
<1>3. db'.cache = [k \in Keys |-> NoEntry]
  BY <1>1 DEF Image
<1>4. db' = [rows |-> db'.rows, cache |-> db'.cache]
  BY <1>1 DEF Image
<1>5. QED
  BY <1>1, <1>2, <1>3, <1>4 DEF Empty

-----------------------------------------------------------------------------
(* registerCacheEntry and the eviction *)

LEMMA LimitTyped == m_maxCacheBytes \in Int
<1>1. \A p, r \in Nat : r # 0 => ((p + r) % (2 * r)) - r \in Int
  OBVIOUS
<1>2. maxCacheMB * MB \in Nat /\ IntRange \in Nat /\ IntRange # 0
  BY StorageAssumption
<1>3. QED
  BY <1>1, <1>2 DEF m_maxCacheBytes

LEMMA RegisterProgress ==
    ASSUME StorageInv, NEW c \in Callers, call[c].name = "registerCacheEntry",
           RegisterAt(c), Execute(c)
    PROVE  /\ call'[c].name = "measure" /\ call'[c].key = call[c].key
           /\ RegisterAt(c)'
<1> DEFINE key == call[c].key
<1>0. /\ TypeOK /\ db \in Image /\ call[c] \in Call /\ DOMAIN call = Callers
      /\ Len(call[c].rest) = 1
  BY DEF StorageInv, TypeOK, CallInv, CallShape
<1>1. call'[c].name = "measure" /\ call'[c].key = key
  BY <1>0 DEF Execute, After, Call
<1>2. PICK size \in Sizes, t \in 0 .. MaxNow :
          /\ call[c].rest = <<CacheInsert(key, size, t)>>
          /\ size <= m_maxCacheBytes
          /\ \A l \in Cached(db) \ {key} : db.cache[l].last < t
  BY DEF RegisterAt
<1>3. Head(call[c].rest) = CacheInsert(key, size, t)
  BY <1>2
<1>4. db' = Effect(CacheInsert(key, size, t), db)
  BY <1>3 DEF Execute, Exec, Apply, CacheInsert
<1>5. key \in Keys /\ t \in Nat /\ db.cache \in [Keys -> Entry \cup {NoEntry}]
      /\ db = [rows |-> db.rows, cache |-> db.cache]
  BY <1>0, StorageAssumption DEF RegisterAt, Image, Entry
<1> DEFINE entry == [size |-> size, last |-> t]
<1>6. db'.cache = [db.cache EXCEPT ![key] = entry]
  BY <1>4, <1>5 DEF Effect, CacheInsert
<1>7. entry # NoEntry /\ entry.size = size /\ entry.last = t
  BY <1>5 DEF NoEntry, None
<1> HIDE DEF entry, key
<1>8. /\ db'.cache[key] = entry /\ key \in Cached(db')
      /\ \A l \in Cached(db') \ {key} : l \in Cached(db) \ {key} /\ db'.cache[l] = db.cache[l]
  BY <1>5, <1>6, <1>7 DEF Cached
<1>9. /\ key \in Cached(db')
      /\ db'.cache[key].size <= m_maxCacheBytes
      /\ \A l \in Cached(db') \ {key} : db'.cache[l].last < db'.cache[key].last
  BY <1>2, <1>7, <1>8
<1>10. QED
  BY <1>1, <1>5, <1>9 DEF RegisterAt, key

LEMMA MeasureProgress ==
    ASSUME StorageInv, NEW c \in Callers, call[c].name = "measure", RegisterAt(c),
           CacheSize(db) > m_maxCacheBytes, UNCHANGED db,
           call'[c] = [call[c] EXCEPT !.name = "evict"]
    PROVE  RegisterAt(c)'
<1> DEFINE key == call[c].key
<1>0. /\ db \in Image /\ call[c] \in Call
  BY DEF StorageInv, TypeOK, CallInv
<1>1. call'[c].name = "evict" /\ call'[c].key = key
  BY <1>0 DEF Call
<1>2. key \in Keys /\ key \in Cached(db) /\ db.cache[key].size <= m_maxCacheBytes
      /\ \A l \in Cached(db) \ {key} : db.cache[l].last < db.cache[key].last
  BY DEF RegisterAt
<1> HIDE DEF key
<1>3. db.cache[key].size \in Int
  BY <1>0, <1>2, StorageAssumption DEF Image, Cached
<1>4. ASSUME Cached(db) = {key} PROVE FALSE
  <2> DEFINE f == [k \in Cached(db) |-> db.cache[k].size]
  <2>1. DOMAIN f = {key} /\ f[key] = db.cache[key].size
    BY <1>4
  <2>2. CacheSize(db) = SumFunction(f)
    BY DEF CacheSize
  <2> HIDE DEF f
  <2>3. CacheSize(db) = db.cache[key].size
    BY <1>3, <2>1, <2>2, OneSum
  <2>4. QED
    BY <1>2, <1>3, <2>3, LimitTyped
<1>5. QED
  BY <1>1, <1>2, <1>4 DEF RegisterAt

LEMMA EvictProgress ==
    ASSUME StorageInv, NEW c \in Callers, RegisterAt(c), EvictOldest(c),
           call'[c] = [call[c] EXCEPT !.name = "measure"]
    PROVE  RegisterAt(c)'
<1> DEFINE key == call[c].key
<1>0. /\ db \in Image /\ call[c] \in Call /\ call[c].name = "evict"
  BY DEF StorageInv, TypeOK, CallInv, EvictOldest
<1>1. call'[c].name = "measure" /\ call'[c].key = key
  BY <1>0 DEF Call
<1>2. /\ key \in Keys /\ key \in Cached(db) /\ db.cache[key].size <= m_maxCacheBytes
      /\ \A l \in Cached(db) \ {key} : db.cache[l].last < db.cache[key].last
      /\ Cached(db) # {key}
  BY <1>0 DEF RegisterAt
<1> HIDE DEF key
<1>3. PICK k \in Oldest(db) : db' = [db EXCEPT !.cache[k] = NoEntry]
  BY <1>2 DEF EvictOldest, Apply
<1>4. /\ db.cache \in [Keys -> Entry \cup {NoEntry}]
      /\ db = [rows |-> db.rows, cache |-> db.cache]
      /\ \A l \in Cached(db) : l \in Keys /\ db.cache[l] \in Entry /\ db.cache[l].last \in Nat
  BY <1>0 DEF Image, Entry, Cached
<1>5. k # key
  <2>1. PICK l \in Cached(db) : l # key
    BY <1>2
  <2>2. ASSUME k = key PROVE FALSE
    <3>1. db.cache[key].last <= db.cache[l].last /\ db.cache[l].last < db.cache[key].last
      BY <1>2, <2>1, <2>2 DEF Oldest
    <3>2. db.cache[key].last \in Nat /\ db.cache[l].last \in Nat
      BY <1>2, <1>4
    <3>3. QED
      BY <3>1, <3>2
  <2>3. QED
    BY <2>2
<1>6. db'.cache = [db.cache EXCEPT ![k] = NoEntry]
  BY <1>3, <1>4
<1>7. \A l \in Keys : l # k => db'.cache[l] = db.cache[l]
  BY <1>4, <1>6
<1>8. /\ key \in Cached(db') /\ db'.cache[key] = db.cache[key]
      /\ \A l \in Cached(db') : l \in Cached(db) /\ db'.cache[l] = db.cache[l]
  BY <1>2, <1>4, <1>5, <1>6, <1>7 DEF Cached, Oldest
<1>9. QED
  BY <1>1, <1>2, <1>8 DEF RegisterAt

-----------------------------------------------------------------------------
(* The invariant and what follows from it *)

(* A call that has just begun has everything before it. *)
LEMMA BeginProgress ==
    ASSUME StorageInv, [Next]_vars, NEW c \in Callers, ~call[c].alone, call'[c].alone
    PROVE  /\ call'[c].name = "saveFeedVideos" => SaveAt(c)'
           /\ call'[c].name = "clearAll" => ClearAt(c)'
           /\ call'[c].newest => RegisterAt(c)'
<1>0. TypeOK /\ call \in [Callers -> Call] /\ now \in 0 .. MaxNow
  BY DEF StorageInv, CallInv, TypeOK
<1>1. PICK w \in Call :
          /\ call' = [Disturbed EXCEPT ![c] = [w EXCEPT !.alone = TRUE]]
          /\ UNCHANGED <<dbVars, now>>
          /\ \/ \E b \in Batches : w = SaveCall(b)
             \/ \E k \in Keys, size \in Sizes : w = RegisterCall(k, size)
             \/ \E k \in Keys : w = LookupCall(k)
             \/ w = ClearCall
  BY WhoBegins
<1>2. /\ call'[c].name = w.name /\ call'[c].rest = w.rest /\ call'[c].key = w.key
      /\ call'[c].batch = w.batch /\ call'[c].newest = w.newest
  BY <1>1 DEF Disturbed, Call
<1>3. ASSUME NEW b \in Batches, w = SaveCall(b) PROVE SaveAt(c)'
  <2>1. b \in Seq(Videos) /\ Len(b) \in Nat /\ call'[c].rest = Program(b) /\ call'[c].batch = b
    BY <1>2, <1>3, SaveBegins
  <2>2. Len(Program(b)) = Len(b) + 2
    BY <2>1, ProgramShape
  <2>3. Stored(c)' = -1
    <3>1. Stored(c)' = Len(b) + 1 - (Len(b) + 2)
      BY <2>1, <2>2 DEF Stored
    <3>2. QED
      BY <2>1, <3>1
  <2>4. \A i \in 1 .. Len(Program(b)) : i = Stored(c)' + 1 + i
    BY <2>1, <2>2, <2>3
  <2>5. Len(Program(b)) \in 1 .. Len(b) + 2
    BY <2>1, <2>2
  <2>6. QED
    BY <2>1, <2>3, <2>4, <2>5 DEF SaveAt
<1>4. ASSUME w = ClearCall PROVE ClearAt(c)'
  <2>1. call'[c].rest = ClearProgram /\ Len(ClearProgram) = 5
    BY <1>2, <1>4, ClearBegins DEF ClearProgram
  <2>2. QED
    BY <2>1 DEF ClearAt
<1>5. ASSUME NEW k \in Keys, NEW size \in Sizes, w = RegisterCall(k, size), call'[c].newest
      PROVE  RegisterAt(c)'
  <2>1. /\ call'[c].name = "registerCacheEntry" /\ call'[c].key = k
        /\ call'[c].rest = <<CacheInsert(k, size, now)>> /\ IsNewest(k, size)
    BY <1>0, <1>2, <1>5, RegisterBegins
  <2>2. QED
    BY <1>0, <1>1, <2>1 DEF RegisterAt, IsNewest, CacheInsert
<1>6. QED
  BY <1>0, <1>1, <1>2, <1>3, <1>4, <1>5, SaveBegins, RegisterBegins, LookupBegins, ClearBegins

LEMMA ProgressStep ==
    ASSUME CallsInv, [Next]_vars
    PROVE  ProgressInv'
<1> SUFFICES ASSUME NEW c \in Callers, call'[c].alone
             PROVE  /\ call'[c].name = "saveFeedVideos" => SaveAt(c)'
                    /\ call'[c].name = "clearAll" => ClearAt(c)'
                    /\ call'[c].newest => RegisterAt(c)'
  BY DEF ProgressInv
<1>0. StorageInv /\ AloneInv /\ ProgressInv /\ call[c] \in Call /\ CallShape(call[c])
  BY DEF CallsInv, StorageInv, CallInv
<1>1. CASE ~call[c].alone
  BY <1>0, <1>1, BeginProgress
<1>2. CASE call[c].alone
  <2>0. /\ call[c].name = "saveFeedVideos" => SaveAt(c)
        /\ call[c].name = "clearAll" => ClearAt(c)
        /\ call[c].newest => RegisterAt(c)
    BY <1>0, <1>2 DEF ProgressInv
  <2>1. CASE Execute(c) /\ call'[c] = After(c) /\ Len(call[c].rest) > 1
    <3>1. call'[c].name = call[c].name /\ call'[c].newest = call[c].newest
          /\ call[c].name # "registerCacheEntry" /\ call[c].name \notin {"measure", "evict"}
      BY <1>0, <2>1 DEF After, Call, CallShape
    <3>2. ~call[c].newest
      BY <2>0, <3>1 DEF RegisterAt
    <3>3. QED
      BY <1>0, <1>2, <2>0, <2>1, <3>1, <3>2, SaveProgress, ClearProgress
  <2>2. CASE Execute(c) /\ call[c].name = "registerCacheEntry"
             /\ call'[c] = After(c) /\ Len(call[c].rest) = 1
    <3>1. call'[c].newest = call[c].newest /\ call'[c].name = "measure"
      BY <1>0, <2>2 DEF After, Call
    <3>2. QED
      BY <1>0, <2>0, <2>2, <3>1, RegisterProgress
  <2>3. CASE EvictTest(c) /\ CacheSize(db) > m_maxCacheBytes
             /\ call'[c] = [call[c] EXCEPT !.name = "evict"]
    <3>1. call'[c].newest = call[c].newest /\ call'[c].name = "evict"
      BY <1>0, <2>3 DEF Call
    <3>2. UNCHANGED db /\ call[c].name = "measure"
      BY <2>3 DEF EvictTest
    <3>3. QED
      BY <1>0, <2>0, <2>3, <3>1, <3>2, MeasureProgress
  <2>4. CASE EvictOldest(c) /\ call'[c] = [call[c] EXCEPT !.name = "measure"]
    <3>1. call'[c].newest = call[c].newest /\ call'[c].name = "measure"
      BY <1>0, <2>4 DEF Call
    <3>2. QED
      BY <1>0, <2>0, <2>4, <3>1, EvictProgress
  <2>5. CASE UNCHANGED <<dbVars, call>>
    BY <2>0, <2>5 DEF SaveAt, Stored, ClearAt, RegisterAt, Feed, Cached
  <2>6. QED
    BY <1>0, <1>2, <2>1, <2>2, <2>3, <2>4, <2>5, GoesOn
<1>3. QED
  BY <1>1, <1>2

(* Every call that is alone is where it should be in its program, and has   *)
(* done what its statements so far say.                                     *)
THEOREM CallsInvariant == Spec => []CallsInv
<1>1. Init => CallsInv
  <2> SUFFICES ASSUME Init PROVE CallsInv
    OBVIOUS
  <2>1. \A c \in Callers : call[c].alone = FALSE
    BY DEF Init, Returned
  <2>2. QED
    BY <2>1, StorageInit DEF CallsInv, AloneInv, ProgressInv
<1>2. CallsInv /\ [Next]_vars => CallsInv'
  BY StorageStep, AloneStep, ProgressStep DEF CallsInv
<1>3. QED
  BY <1>1, <1>2, PTL DEF Spec

(* What a call that was alone and not disturbed did in this step. *)
LEMMA UndisturbedStep ==
    ASSUME CallsInv, [Next]_vars, NEW c \in Callers, Undisturbed(c)
    PROVE  \/ Execute(c) /\ UNCHANGED countVars
           \/ (EvictTest(c) \/ EvictOldest(c)) /\ UNCHANGED countVars
           \/ UNCHANGED <<dbVars, call, countVars>>
           \/ crashes' # crashes /\ UNCHANGED disk
BY WhoMoves DEF Undisturbed, CallsInv

(* A batch that a thread saves while it has the database for itself is on   *)
(* the disk as a whole when saveFeedVideos returns, and not a video of it   *)
(* before: no crash leaves half of it.  For batches of any length.          *)
THEOREM SavesWhole == Spec => SavedWhole
<1>1. ASSUME CallsInv, [Next]_vars, NEW c \in Callers, call[c].name = "saveFeedVideos",
             Undisturbed(c)
      PROVE  disk'.rows["feed_videos"] =
                 IF call'[c].name = "none" /\ crashes' = crashes
                 THEN Saved(disk.rows["feed_videos"], call[c].batch)
                 ELSE disk.rows["feed_videos"]
  <2>0. /\ StorageInv /\ AloneInv /\ call[c].alone /\ SaveAt(c)
        /\ call \in [Callers -> Call] /\ CallShape(call[c])
    BY <1>1 DEF CallsInv, ProgressInv, Undisturbed, StorageInv, CallInv
  <2>1. CASE Execute(c) /\ UNCHANGED countVars
    <3>0. Len(call[c].rest) > 1 \/ Len(call[c].rest) = 1
      <4>1. Len(call[c].rest) \in Nat /\ Len(call[c].rest) >= 1
        BY <2>0, <2>1, HeadTyped DEF Execute
      <4>2. \A n \in Nat : n >= 1 => n > 1 \/ n = 1
        OBVIOUS
      <4>3. QED
        BY <4>1, <4>2, Zenon
    <3>1. CASE Len(call[c].rest) > 1
      <4>1. call'[c].name # "none"
        BY <1>1, <2>0, <2>1, <3>1 DEF Execute, After, Call
      <4>2. QED
        BY <1>1, <2>0, <2>1, <3>1, <4>1, SaveProgress
    <3>2. CASE Len(call[c].rest) = 1
      <4>1. call'[c].name = "none"
        BY <1>1, <2>0, <2>1, <3>2 DEF Execute, After, Returned
      <4>2. QED
        BY <1>1, <2>0, <2>1, <3>2, <4>1, SaveEnds DEF Feed
    <3>3. QED
      BY <3>0, <3>1, <3>2
  <2>2. CASE UNCHANGED <<dbVars, call, countVars>>
    BY <1>1, <2>2
  <2>3. CASE crashes' # crashes /\ UNCHANGED disk
    BY <2>3
  <2>4. ~EvictTest(c) /\ ~EvictOldest(c)
    BY <1>1 DEF EvictTest, EvictOldest
  <2>5. QED
    BY <1>1, <2>1, <2>2, <2>3, <2>4, UndisturbedStep
<1>2. CallsInv /\ [Next]_vars =>
        [\A c \in Callers :
            call[c].name = "saveFeedVideos" /\ Undisturbed(c) =>
                disk'.rows["feed_videos"] =
                    IF call'[c].name = "none" /\ crashes' = crashes
                    THEN Saved(disk.rows["feed_videos"], call[c].batch)
                    ELSE disk.rows["feed_videos"]]_vars
  BY <1>1
<1>3. QED
  BY <1>2, CallsInvariant, PTL DEF Spec, SavedWhole

(* When a clearAll that no other call overlaps returns, every table is      *)
(* empty, for the application and on the disk.                              *)
THEOREM ClearsWhole == Spec => ClearedWhole
<1>1. ASSUME CallsInv, [Next]_vars, NEW c \in Callers, call[c].name = "clearAll",
             Undisturbed(c), call'[c].name = "none", crashes' = crashes
      PROVE  db' = Empty /\ disk' = Empty
  <2>0. /\ StorageInv /\ AloneInv /\ call[c].alone /\ ClearAt(c)
        /\ call \in [Callers -> Call] /\ CallShape(call[c])
    BY <1>1 DEF CallsInv, ProgressInv, Undisturbed, StorageInv, CallInv
  <2>1. Execute(c)
    BY <1>1, UndisturbedStep DEF EvictTest, EvictOldest
  <2>2. Len(call[c].rest) \in 1 .. 5
    BY <1>1, <2>0, ClearNext
  <2>3. CASE Len(call[c].rest) > 1
    BY <1>1, <2>0, <2>1, <2>3 DEF Execute, After, Call
  <2>4. CASE Len(call[c].rest) = 1
    BY <1>1, <2>0, <2>1, <2>4, ClearEnds
  <2>5. \A n \in 1 .. 5 : n > 1 \/ n = 1
    OBVIOUS
  <2>6. QED
    BY <2>2, <2>3, <2>4, <2>5, Zenon
<1>2. CallsInv /\ [Next]_vars =>
        [\A c \in Callers :
            call[c].name = "clearAll" /\ Undisturbed(c)
              /\ call'[c].name = "none" /\ crashes' = crashes
            => db' = Empty /\ disk' = Empty]_vars
  BY <1>1
<1>3. QED
  BY <1>2, CallsInvariant, PTL DEF Spec, ClearedWhole

(* A file that fits and was used last is still cached when the call that    *)
(* registered it returns: the eviction it sets off takes others, however    *)
(* many there are and whatever their sizes.                                 *)
THEOREM JustCachedIsKept == Spec => JustCachedStays
<1>1. ASSUME CallsInv, [Next]_vars, NEW c \in Callers, call[c].name = "measure",
             call[c].newest, Undisturbed(c), call'[c].name = "none", crashes' = crashes
      PROVE  call[c].key \in Cached(db')
  <2>1. call[c].alone /\ RegisterAt(c) /\ CallShape(call[c])
    BY <1>1 DEF CallsInv, ProgressInv, Undisturbed, StorageInv, CallInv
  <2>2. call[c].key \in Cached(db)
    BY <1>1, <2>1 DEF RegisterAt
  <2>3. ~Execute(c) /\ ~EvictOldest(c)
    BY <1>1, <2>1 DEF Execute, EvictOldest, CallShape
  <2>4. UNCHANGED db
    BY <1>1, <2>3, UndisturbedStep DEF EvictTest
  <2>5. QED
    BY <2>2, <2>4
<1>2. CallsInv /\ [Next]_vars =>
        [\A c \in Callers :
            call[c].name = "measure" /\ call[c].newest /\ Undisturbed(c)
              /\ call'[c].name = "none" /\ crashes' = crashes
            => call[c].key \in Cached(db')]_vars
  BY <1>1
<1>3. QED
  BY <1>2, CallsInvariant, PTL DEF Spec, JustCachedStays

=============================================================================
