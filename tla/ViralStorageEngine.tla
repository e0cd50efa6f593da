------------------------- MODULE ViralStorageEngine -------------------------
(***************************************************************************)
(* The storage engine of ViralEngine/core/ViralStorageEngine.cpp: five     *)
(* tables of one SQLite database behind one connection that every thread   *)
(* of the application uses.  SQLite runs one statement at a time; nothing  *)
(* in the engine keeps the statements of a call together, so the calls of  *)
(* several threads interleave statement by statement and share the one     *)
(* transaction the connection can have open.                               *)
(*                                                                         *)
(* A call is the sequence of statements it still has to run.  Of a row the *)
(* model keeps what some call updates: is_liked, is_following, status, the *)
(* value of a setting, size and last_access.                               *)
(***************************************************************************)
EXTENDS Integers, Sequences, Functions

CONSTANTS
    Callers,      \* the application threads
    Videos,       \* ids of feed videos
    Batches,      \* the batches the server answers with: sequences of videos
    Records,      \* ids of a profile, a message, a setting
    Keys,         \* keys of cached files
    Sizes,        \* their sizes in bytes
    maxCacheMB,   \* argument of the constructor
    MB,           \* bytes in a megabyte: 2^20
    IntRange,     \* values of an int below zero: 2^31
    MaxNow,       \* bound: readings of the clock
    MaxCalls,     \* bound: calls of the application
    MaxFaults,    \* bound: statements that fail
    MaxCrashes    \* bound: times the process is killed

ASSUME StorageAssumption ==
    /\ Batches \subseteq Seq(Videos)
    /\ Sizes \subseteq Nat
    /\ maxCacheMB \in Nat /\ MB \in Nat /\ IntRange \in Nat \ {0}
    /\ MaxNow \in Nat /\ MaxCalls \in Nat /\ MaxFaults \in Nat /\ MaxCrashes \in Nat

VARIABLES
    db,        \* the tables as the connection shows them
    disk,      \* the tables as the last commit left them
    open,      \* is a transaction open on the connection
    call,      \* what each thread is doing
    now,       \* the system clock; it may be set back
    lapsed,    \* history: an eviction may have been undone or given up
    calls, faults, crashes

dbVars    == <<db, disk, open>>
countVars == <<calls, faults, crashes>>
vars == <<dbVars, call, now, lapsed, countVars>>

None == -1

Tables == {"feed_videos", "user_profiles", "chat_messages", "settings"}

Ids == Videos \cup Records

NoRows  == [i \in Ids |-> None]
NoEntry == [size |-> None, last |-> None]

Empty ==
    [rows  |-> [t \in Tables |-> NoRows],
     cache |-> [k \in Keys |-> NoEntry]]

(* m_maxCacheBytes: the product is computed in int. *)
m_maxCacheBytes == ((maxCacheMB * MB + IntRange) % (2 * IntRange)) - IntRange

Cached(d) == {k \in Keys : d.cache[k] # NoEntry}

(* getCacheSizeBytes: the sum over no rows is NULL, read as 0. *)
CacheSize(d) == SumFunction([k \in Cached(d) |-> d.cache[k].size])

-----------------------------------------------------------------------------
(* Statements. *)

Begin == [op |-> "BEGIN"]
Commit == [op |-> "COMMIT"]
Insert(t, i, v) == [op |-> "INSERT", table |-> t, id |-> i, value |-> v]
Update(t, i, v) == [op |-> "UPDATE", table |-> t, id |-> i, value |-> v]
DeleteAll(t)    == [op |-> "DELETE", table |-> t]
CacheInsert(k, size, t) == [op |-> "CACHE", key |-> k, entry |-> [size |-> size, last |-> t]]
CacheTouch(k, t) == [op |-> "TOUCH", key |-> k, last |-> t]
CacheClear == [op |-> "CLEAR"]

(* The tables after a statement that succeeds.  INSERT OR REPLACE stores    *)
(* the row whatever was there, UPDATE only changes a row that exists.       *)
Effect(s, d) ==
    CASE s.op = "INSERT" -> [d EXCEPT !.rows[s.table][s.id] = s.value]
      [] s.op = "UPDATE" -> IF d.rows[s.table][s.id] = None THEN d
                            ELSE [d EXCEPT !.rows[s.table][s.id] = s.value]
      [] s.op = "DELETE" -> [d EXCEPT !.rows[s.table] = NoRows]
      [] s.op = "CACHE"  -> [d EXCEPT !.cache[s.key] = s.entry]
      [] s.op = "TOUCH"  -> IF d.cache[s.key] = NoEntry THEN d
                            ELSE [d EXCEPT !.cache[s.key].last = s.last]
      [] s.op = "CLEAR"  -> [d EXCEPT !.cache = [k \in Keys |-> NoEntry]]
      [] OTHER -> d

(* A statement outside a transaction is committed by itself. *)
Apply(d) ==
    /\ db' = d
    /\ disk' = IF open THEN disk ELSE d
    /\ UNCHANGED open

(* exec: BEGIN fails inside a transaction and COMMIT outside one; nobody    *)
(* looks at what exec returns.                                              *)
Exec(s) ==
    CASE s.op = "BEGIN"  -> open' = TRUE /\ UNCHANGED <<db, disk>>
      [] s.op = "COMMIT" -> open' = FALSE /\ disk' = db /\ UNCHANGED db
      [] OTHER -> Apply(Effect(s, db))

-----------------------------------------------------------------------------
(* Calls. *)

(* rest: statements to run; batch: the videos saved; key: the key being     *)
(* registered; alone: nothing else ran or failed since the call began;      *)
(* newest: the entry was the last used one when it was registered.          *)
Returned == [name |-> "none", rest |-> <<>>, key |-> None, batch |-> <<>>,
             alone |-> FALSE, newest |-> FALSE]

Idle(c) == call[c].name = "none"

Init ==
    /\ db = Empty
    /\ disk = Empty
    /\ open = FALSE
    /\ call = [c \in Callers |-> Returned]
    /\ now = 0
    /\ lapsed = FALSE
    /\ calls = 0 /\ faults = 0 /\ crashes = 0

Disturbed == [d \in Callers |-> [call[d] EXCEPT !.alone = FALSE]]

(* A call of several statements begins. *)
Start(c, what) ==
    /\ Idle(c)
    /\ calls < MaxCalls
    /\ calls' = calls + 1
    /\ call' = [Disturbed EXCEPT ![c] = [what EXCEPT !.alone = \A d \in Callers : Idle(d)]]
    /\ UNCHANGED <<faults, crashes>>

(* A call of one statement. *)
Single(c, s) ==
    /\ Idle(c)
    /\ calls < MaxCalls
    /\ calls' = calls + 1
    /\ call' = Disturbed
    /\ Exec(s)
    /\ UNCHANGED <<now, lapsed, faults, crashes>>

(* Mutant: the batch is saved without a transaction. *)
SaveUnguarded(c, b) ==
    /\ Start(c, [Returned EXCEPT !.name = "saveFeedVideos", !.batch = b,
                    !.rest = [i \in DOMAIN b |-> Insert("feed_videos", b[i], 0)] \o <<Commit>>])
    /\ UNCHANGED <<dbVars, now, lapsed>>

(* Mutant: the transaction is not committed. *)
SaveUncommitted(c, b) ==
    /\ Start(c, [Returned EXCEPT !.name = "saveFeedVideos", !.batch = b,
                    !.rest = <<Begin>> \o [i \in DOMAIN b |-> Insert("feed_videos", b[i], 0)]])
    /\ UNCHANGED <<dbVars, now, lapsed>>

SaveFeedVideos(c, b) ==
    /\ Start(c, [Returned EXCEPT !.name = "saveFeedVideos", !.batch = b,
                    !.rest = <<Begin>>
                             \o [i \in DOMAIN b |-> Insert("feed_videos", b[i], 0)]
                             \o <<Commit>>])
    /\ UNCHANGED <<dbVars, now, lapsed>>

SetVideoLiked(c, v, liked)       == Single(c, Update("feed_videos", v, liked))
ClearFeedCache(c)                == Single(c, DeleteAll("feed_videos"))
SaveUserProfile(c, i, following) == Single(c, Insert("user_profiles", i, following))
SetFollowing(c, i, following)    == Single(c, Update("user_profiles", i, following))
SaveMessage(c, i, status)        == Single(c, Insert("chat_messages", i, status))
UpdateMessageStatus(c, i, status) == Single(c, Update("chat_messages", i, status))
SetSetting(c, i, value)          == Single(c, Insert("settings", i, value))

(* The file is there before its key is registered.  nowMs() is read when    *)
(* the text of the statement is made.                                       *)
RegisterCacheEntry(c, k, size) ==
    /\ Start(c, [Returned EXCEPT !.name = "registerCacheEntry", !.key = k,
                    !.rest = <<CacheInsert(k, size, now)>>,
                    !.newest = size <= m_maxCacheBytes
                               /\ \A l \in Cached(db) \ {k} : db.cache[l].last < now])
    /\ UNCHANGED <<dbVars, now, lapsed>>

(* The row is read, then its last_access is stored. *)
GetCachedPath(c, k) ==
    /\ k \in Cached(db)
    /\ Start(c, [Returned EXCEPT !.name = "getCachedPath", !.rest = <<CacheTouch(k, now)>>])
    /\ UNCHANGED <<dbVars, now, lapsed>>

(* Mutant: the messages are left. *)
ClearMost(c) ==
    /\ Start(c, [Returned EXCEPT !.name = "clearAll",
                    !.rest = <<DeleteAll("feed_videos"), DeleteAll("user_profiles"),
                               CacheClear, DeleteAll("settings")>>])
    /\ UNCHANGED <<dbVars, now, lapsed>>

ClearAll(c) ==
    /\ Start(c, [Returned EXCEPT !.name = "clearAll",
                    !.rest = <<DeleteAll("feed_videos"), DeleteAll("user_profiles"),
                               DeleteAll("chat_messages"), CacheClear,
                               DeleteAll("settings")>>])
    /\ UNCHANGED <<dbVars, now, lapsed>>

-----------------------------------------------------------------------------
(* The statements of a call. *)

(* Mutant: registering does not evict. *)
AfterAll(c) ==
    IF Len(call[c].rest) > 1 THEN [call[c] EXCEPT !.rest = Tail(@)]
    ELSE [call[c] EXCEPT !.rest = <<>>]

(* A thread whose statements have run returns, or goes on to evict. *)
After(c) ==
    IF Len(call[c].rest) > 1 THEN [call[c] EXCEPT !.rest = Tail(@)]
    ELSE IF call[c].name = "registerCacheEntry"
         THEN [call[c] EXCEPT !.rest = <<>>, !.name = "measure"]
         ELSE Returned

Execute(c) ==
    /\ call[c].rest # <<>>
    /\ Exec(Head(call[c].rest))
    /\ call' = [call EXCEPT ![c] = After(c)]
    /\ UNCHANGED <<now, lapsed, countVars>>

(* A statement fails: the disk is full, an I/O error.  Nobody notices.      *)
(* SQLite may roll the open transaction back, and does so when the COMMIT   *)
(* fails for such a reason.  A COMMIT refused as busy would leave it open:  *)
(* that takes a second connection to the file, and no WAL; the engine has   *)
(* one connection.                                                          *)
Rollback ==
    /\ open
    /\ open' = FALSE
    /\ db' = disk
    /\ UNCHANGED disk
    /\ lapsed' = TRUE

Fail(c) ==
    /\ call[c].rest # <<>>
    /\ faults < MaxFaults
    /\ faults' = faults + 1
    /\ call' = [Disturbed EXCEPT ![c] = [After(c) EXCEPT !.alone = FALSE]]
    /\ \/ Rollback
       \/ /\ Head(call[c].rest) # Commit
          /\ UNCHANGED <<dbVars, lapsed>>
    /\ UNCHANGED <<now, calls, crashes>>

(* Mutant: one entry at most is evicted. *)
EvictOnce(c) ==
    /\ call[c].name \in {"measure"}
    /\ IF CacheSize(db) > m_maxCacheBytes
       THEN /\ \E k \in Keys : k \in Cached(db) /\ Apply([db EXCEPT !.cache[k] = NoEntry])
            /\ UNCHANGED lapsed
       ELSE /\ UNCHANGED dbVars
            /\ lapsed' = FALSE
    /\ call' = [call EXCEPT ![c] = Returned]
    /\ UNCHANGED <<now, countVars>>

(* evictIfNeeded: the test of its loop. *)
EvictTest(c) ==
    /\ call[c].name = "measure"
    /\ IF CacheSize(db) > m_maxCacheBytes
       THEN /\ call' = [call EXCEPT ![c].name = "evict"]
            /\ UNCHANGED lapsed
       ELSE /\ call' = [call EXCEPT ![c] = Returned]
            /\ lapsed' = FALSE
    /\ UNCHANGED <<dbVars, now, countVars>>

(* Mutant: the order of the eviction is reversed. *)
Newest(d) == {k \in Cached(d) : \A l \in Cached(d) : d.cache[k].last >= d.cache[l].last}

(* The row with the least last_access; any of them when several have it. *)
Oldest(d) == {k \in Cached(d) : \A l \in Cached(d) : d.cache[k].last <= d.cache[l].last}

(* Mutant: an entry used this very millisecond is not evicted. *)
EvictOlder(c) ==
    /\ call[c].name = "evict"
    /\ call' = [call EXCEPT ![c].name = "measure"]
    /\ \/ \E k \in Oldest(db) : db.cache[k].last < now /\ Apply([db EXCEPT !.cache[k] = NoEntry])
       \/ (\A k \in Oldest(db) : db.cache[k].last >= now) /\ UNCHANGED dbVars
    /\ UNCHANGED <<now, lapsed, countVars>>

(* evictIfNeeded: the body of its loop.  The file stays. *)
EvictOldest(c) ==
    /\ call[c].name = "evict"
    /\ call' = [call EXCEPT ![c].name = "measure"]
    /\ \/ \E k \in Oldest(db) : Apply([db EXCEPT !.cache[k] = NoEntry])
       \/ Cached(db) = {} /\ UNCHANGED dbVars
    /\ UNCHANGED <<now, lapsed, countVars>>

EvictFails(c) ==
    /\ call[c].name = "evict"
    /\ faults < MaxFaults
    /\ faults' = faults + 1
    /\ call' = [Disturbed EXCEPT ![c].name = "measure"]
    /\ Rollback \/ UNCHANGED <<dbVars, lapsed>>
    /\ UNCHANGED <<now, calls, crashes>>

(* getCacheSizeBytes fails.  It runs its query twice and looks at the       *)
(* second run only; when that fails the size is taken to be 0, and the      *)
(* eviction is given up.                                                    *)
MeasureFails(c) ==
    /\ call[c].name = "measure"
    /\ faults < MaxFaults
    /\ faults' = faults + 1
    /\ \/ /\ call' = Disturbed
          /\ Rollback \/ UNCHANGED <<dbVars, lapsed>>
       \/ /\ call' = [Disturbed EXCEPT ![c] =
                          IF 0 > m_maxCacheBytes
                          THEN [call[c] EXCEPT !.name = "evict", !.alone = FALSE]
                          ELSE Returned]
          /\ Rollback \/ UNCHANGED dbVars
          /\ lapsed' = TRUE
    /\ UNCHANGED <<now, calls, crashes>>

(* The process is killed and started again: the constructor finds what was  *)
(* committed and creates no table that exists.                              *)
Crash ==
    /\ crashes < MaxCrashes
    /\ crashes' = crashes + 1
    /\ db' = disk
    /\ open' = FALSE
    /\ call' = [c \in Callers |-> Returned]
    /\ lapsed' = TRUE
    /\ UNCHANGED <<disk, now, calls, faults>>

SetClock == \E t \in 0 .. MaxNow :
    /\ t # now
    /\ now' = t
    /\ UNCHANGED <<dbVars, call, lapsed, countVars>>

Working(c) == Execute(c) \/ EvictTest(c) \/ EvictOldest(c)

(* What is saved is stored as 0, what is updated later as 1: the values     *)
(* themselves decide nothing.                                               *)
Calling(c) ==
    \/ \E b \in Batches : SaveFeedVideos(c, b)
    \/ \E v \in Videos : SetVideoLiked(c, v, 1)
    \/ ClearFeedCache(c)
    \/ \E i \in Records : \/ SaveUserProfile(c, i, 0)
                         \/ SetFollowing(c, i, 1)
                         \/ SaveMessage(c, i, 0)
                         \/ UpdateMessageStatus(c, i, 1)
                         \/ SetSetting(c, i, 0)
    \/ \E k \in Keys, size \in Sizes : RegisterCacheEntry(c, k, size)
    \/ \E k \in Keys : GetCachedPath(c, k)
    \/ ClearAll(c)

(* No call is under way and the application makes no more. *)
Quiet == (\A c \in Callers : Idle(c)) /\ UNCHANGED vars

Next ==
    \/ \E c \in Callers : Calling(c) \/ Working(c) \/ Fail(c) \/ EvictFails(c)
                         \/ MeasureFails(c)
    \/ Crash
    \/ SetClock
    \/ Quiet

Spec == Init /\ [][Next]_vars

(* A thread inside a call is scheduled; nobody has to call. *)
FairSpec == Spec /\ \A c \in Callers : WF_vars(Working(c))

-----------------------------------------------------------------------------
(* Properties *)

Image == [rows : [Tables -> [Ids -> {None, 0, 1}]],
          cache : [Keys -> [size : Sizes, last : Nat] \cup {NoEntry}]]

Names == {"none", "saveFeedVideos", "registerCacheEntry", "getCachedPath", "clearAll",
          "measure", "evict"}

TypeOK ==
    /\ db \in Image /\ disk \in Image
    /\ open \in BOOLEAN
    /\ \A c \in Callers :
           /\ call[c].name \in Names
           /\ call[c].rest = <<>> <=> call[c].name \in {"none", "measure", "evict"}
    /\ now \in 0 .. MaxNow
    /\ lapsed \in BOOLEAN
    /\ calls \in 0 .. MaxCalls /\ faults \in 0 .. MaxFaults /\ crashes \in 0 .. MaxCrashes

(* saveFeedVideos past its BEGIN. *)
InTransaction(c) ==
    /\ call[c].name = "saveFeedVideos"
    /\ Head(call[c].rest) # Begin

(* What readers see and a crash would take back exists only while a         *)
(* saveFeedVideos is under way: no interleaving of two of them, with        *)
(* statements that fail and nobody looks at, leaves the transaction open    *)
(* behind them.                                                             *)
OnlySavesAtRisk ==
    open \/ db # disk => \E c \in Callers : InTransaction(c)

(* The cache exceeds its limit only while somebody evicts, unless an        *)
(* eviction was taken back by a crash or a rollback, or given up because    *)
(* the size could not be read, and none has ended within the limit since:   *)
(* the next registration makes up for it.                                   *)
CacheWithinLimit ==
    CacheSize(db) > m_maxCacheBytes =>
        lapsed \/ \E c \in Callers : call[c].name \in {"measure", "evict"}

(* The call was alone with the database until this step and in it, and all  *)
(* its statements succeeded.                                                *)
Undisturbed(c) ==
    /\ call[c].alone
    /\ call'[c].alone \/ call'[c].name = "none"
    /\ faults' = faults

Saved(feed, b) ==
    [i \in Ids |-> IF \E j \in DOMAIN b : b[j] = i THEN 0 ELSE feed[i]]

(* A batch saved by a thread that has the database for itself reaches the   *)
(* disk as a whole, when the call returns; killing the process before       *)
(* leaves nothing of it.                                                    *)
SavedWhole ==
    [][\A c \in Callers :
          call[c].name = "saveFeedVideos" /\ Undisturbed(c) =>
              disk'.rows["feed_videos"] =
                  IF call'[c].name = "none" /\ crashes' = crashes
                  THEN Saved(disk.rows["feed_videos"], call[c].batch)
                  ELSE disk.rows["feed_videos"]]_vars

(* clearAll that no other call overlaps has left nothing, in the tables or  *)
(* on the disk, when it returns.                                            *)
ClearedWhole ==
    [][\A c \in Callers :
          call[c].name = "clearAll" /\ Undisturbed(c)
            /\ call'[c].name = "none" /\ crashes' = crashes
          => db' = Empty /\ disk' = Empty]_vars

(* A file that was just downloaded stays cached: registering it evicts      *)
(* others, when it fits and the clock has moved on since the others were    *)
(* used.                                                                    *)
JustCachedStays ==
    [][\A c \in Callers :
          call[c].name = "measure" /\ call[c].newest /\ Undisturbed(c)
            /\ call'[c].name = "none" /\ crashes' = crashes
          => call[c].key \in Cached(db')]_vars

(* Every call returns: the eviction ends, with other threads registering    *)
(* and looking up and with a clock that is set back.                        *)
CallReturns ==
    \A c \in Callers : ~Idle(c) ~> Idle(c)
====
