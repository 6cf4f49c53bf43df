-------------------------------- MODULE Store --------------------------------
(***************************************************************************)
(* Class Store's register lookup (src/src/Store.cpp) with the two classes  *)
(* below it, MemcachedController and DBI_Apns: read the cache, else ask    *)
(* the database and fill the cache, with a circuit breaker that keeps a    *)
(* worker off memcached for a minute after an error.                       *)
(*                                                                         *)
(* Every worker thread has a Store of its own; memcached and the database  *)
(* are shared, external, and modelled from their use: an item may vanish   *)
(* at any time, any call may fail, a write that reports failure may have   *)
(* been done.  Time is a counter of seconds, scaled down.                  *)
(***************************************************************************)
EXTENDS Integers, FiniteSets

CONSTANTS Workers,
          Callsigns,    \* targets, upper-cased by the worker
          LongCalls,    \* those that make a key of more than 255 characters
          Rows,         \* rows of apns_register
          OddRows,      \* rows with one stray comma in a field
          Answers,      \* sets of active rows a callsign may have
          Expire,       \* 3600: lifetime of an item in memcached
          FailHold,     \* 60: isMemcachedOk() is false that long after an error
          MaxLookup,    \* a lookup takes at most that long (timeouts below us)
          MaxTime,      \* bound on the clock
          NoItem, NoAnswer

ASSUME CallAssumption == Callsigns # {} /\ LongCalls \subseteq Callsigns
\* One or two stray commas never make the number of fields a multiple of 3.
ASSUME RowAssumption ==
  /\ OddRows \subseteq Rows /\ IsFiniteSet(OddRows) /\ Cardinality(OddRows) <= 2
  /\ Answers \subseteq SUBSET Rows /\ {} \in Answers
ASSUME TimeAssumption ==
  /\ Expire \in Nat \ {0} /\ FailHold \in Nat
  /\ MaxLookup \in Nat /\ MaxTime \in Nat /\ MaxTime > FailHold
ASSUME NothingAssumption ==
  /\ NoItem \notin [rows : Answers, expires : Int]
  /\ NoAnswer \notin [call : Callsigns, rows : Answers, begun : Int]
  /\ NoAnswer \notin [call : Callsigns, begun : Int]

VARIABLES
  now,        \* time(NULL)
  db,         \* per callsign: its active rows
  item,       \* per callsign: what memcached holds
  pc,         \* per worker: "idle", "sql", "put"
  call,       \* per worker: the callsign of its lookup
  begun,      \* per worker: when that lookup began, 0 when there is none
  got,        \* per worker: what the database answered, not cached yet
  failAt,     \* per worker: _last_cache_fail_at
  answer,     \* the lookup that returned in the last step, if one did
  \* history
  lastTrue,   \* per callsign and set of rows: when it was last the truth
  lastError   \* per callsign: when a query for it last failed

memory == <<pc, call, begun, got, failAt>>
truth == <<db, lastTrue>>
vars == <<now, db, item, pc, call, begun, got, failAt, answer,
          lastTrue, lastError>>

\* The clock starts late enough for "never failed" to be long ago; a time
\* before that stands for "never".
Epoch == FailHold + 1
Never == -(Expire + MaxLookup)

Init ==
  /\ now = Epoch
  /\ db \in [Callsigns -> Answers]
  /\ item = [c \in Callsigns |-> NoItem]
  /\ pc = [w \in Workers |-> "idle"]
  /\ call \in [Workers -> {CHOOSE c \in Callsigns : TRUE}]
  /\ begun = [w \in Workers |-> 0]
  /\ got = [w \in Workers |-> {}]
  /\ failAt = [w \in Workers |-> 0]
  /\ answer = NoAnswer
  /\ lastTrue = [c \in Callsigns |->
                  [S \in Answers |-> IF S = db[c] THEN Epoch ELSE Never]]
  /\ lastError = [c \in Callsigns |-> Never]

-----------------------------------------------------------------------------
(* The clock, the database and memcached                                   *)

\* Lookups in progress end in time.
Tick ==
  /\ now < MaxTime
  /\ \A w \in Workers : pc[w] # "idle" => now - begun[w] < MaxLookup
  /\ now' = now + 1
  /\ lastTrue' = [c \in Callsigns |-> [lastTrue[c] EXCEPT ![db[c]] = now + 1]]
  /\ answer' = NoAnswer
  /\ UNCHANGED <<db, item, lastError, memory>>

\* Somebody registers or deactivates devices of c.
Register(c, S) ==
  /\ S \in Answers \ {db[c]}
  /\ db' = [db EXCEPT ![c] = S]
  /\ lastTrue' = [lastTrue EXCEPT ![c][S] = now]
  /\ answer' = NoAnswer
  /\ UNCHANGED <<now, item, lastError, memory>>

\* Eviction, or memcached is restarted.
Evict(c) ==
  /\ item[c] # NoItem
  /\ item' = [item EXCEPT ![c] = NoItem]
  /\ answer' = NoAnswer
  /\ UNCHANGED <<now, lastError, truth, memory>>

Live(c) == item[c] # NoItem /\ now < item[c].expires

-----------------------------------------------------------------------------
(* getApnsRegisterFromMemcached and the part of the lookup that reads it   *)

\* _last_cache_fail_at < time(NULL) - 60
isMemcachedOk(w) == failAt[w] < now - FailHold

\* The cache does not answer: the lookup goes on with the database.
GoSql(w, c) ==
  /\ pc[w] = "idle"
  /\ pc' = [pc EXCEPT ![w] = "sql"]
  /\ call' = [call EXCEPT ![w] = c]
  /\ begun' = [begun EXCEPT ![w] = now]
  /\ answer' = NoAnswer

\* A memcached call threw: the worker stays away for FailHold seconds.
Trip(w) == failAt' = [failAt EXCEPT ![w] = now]

GetSkipped(w, c) ==
  /\ GoSql(w, c)
  /\ ~isMemcachedOk(w)
  /\ UNCHANGED <<now, failAt, item, got, lastError, truth>>

\* get() throws: the key is too long, or memcached reports an error.
GetFails(w, c) ==
  /\ GoSql(w, c)
  /\ isMemcachedOk(w)
  /\ Trip(w)
  /\ UNCHANGED <<now, item, got, lastError, truth>>

GetMisses(w, c) ==
  /\ GoSql(w, c)
  /\ isMemcachedOk(w) /\ c \notin LongCalls
  /\ ~Live(c)
  /\ UNCHANGED <<now, failAt, item, got, lastError, truth>>

\* fnd is 1, but the fields of bdy do not come in threes: ask the database.
GetUnparsable(w, c) ==
  /\ GoSql(w, c)
  /\ isMemcachedOk(w) /\ c \notin LongCalls
  /\ Live(c) /\ item[c].rows \cap OddRows # {}
  /\ UNCHANGED <<now, failAt, item, got, lastError, truth>>

\* Faulty variant: a hit renews the item, so that it never grows old.
GetHitsAndRenews(w, c) ==
  /\ pc[w] = "idle"
  /\ isMemcachedOk(w) /\ c \notin LongCalls
  /\ Live(c) /\ item[c].rows \cap OddRows = {}
  /\ answer' = [call |-> c, rows |-> item[c].rows, begun |-> now]
  /\ item' = [item EXCEPT ![c].expires = now + Expire]
  /\ UNCHANGED <<now, failAt, pc, call, begun, got, lastError, truth>>

\* fnd is 0, or fnd is 1 and bdy parses: the lookup ends here.
GetHits(w, c) ==
  /\ pc[w] = "idle"
  /\ isMemcachedOk(w) /\ c \notin LongCalls
  /\ Live(c) /\ item[c].rows \cap OddRows = {}
  /\ answer' = [call |-> c, rows |-> item[c].rows, begun |-> now]
  /\ UNCHANGED <<now, failAt, item, pc, call, begun, got, lastError, truth>>

-----------------------------------------------------------------------------
(* DBI_Apns::getApnsRegisterByCallsign                                     *)

Query(w, S) ==
  /\ pc[w] = "sql"
  /\ pc' = [pc EXCEPT ![w] = "put"]
  /\ got' = [got EXCEPT ![w] = S]
  /\ answer' = NoAnswer
  /\ UNCHANGED <<now, item, call, begun, failAt, truth>>

Sql(w) ==
  /\ Query(w, db[call[w]])
  /\ UNCHANGED lastError

\* The exception is logged and swallowed: numRows stays 0.
SqlFails(w) ==
  /\ Query(w, {})
  /\ lastError' = [lastError EXCEPT ![call[w]] = now]

-----------------------------------------------------------------------------
(* setApnsRegisterInMemcached and the return of the lookup                 *)

\* Faulty variant: answers what memcached holds, if it holds anything.
ReturnItem(w) ==
  LET c == call[w] IN
  /\ pc[w] = "put"
  /\ pc' = [pc EXCEPT ![w] = "idle"]
  /\ answer' = [call |-> c, begun |-> begun[w],
                rows |-> IF item[c] = NoItem THEN got[w] ELSE item[c].rows]
  /\ got' = [got EXCEPT ![w] = {}]
  /\ begun' = [begun EXCEPT ![w] = 0]
  /\ UNCHANGED <<now, call, lastError, truth>>

Return(w) ==
  /\ pc[w] = "put"
  /\ pc' = [pc EXCEPT ![w] = "idle"]
  /\ answer' = [call |-> call[w], rows |-> got[w], begun |-> begun[w]]
  /\ got' = [got EXCEPT ![w] = {}]
  /\ begun' = [begun EXCEPT ![w] = 0]
  /\ UNCHANGED <<now, call, lastError, truth>>

\* Faulty variant: an expiry of 0, which memcached takes as "never".
SetForEver(w) ==
  item' = [item EXCEPT ![call[w]] =
             [rows |-> got[w], expires |-> MaxTime + Expire + 1]]

\* memcached_set
Set(w) ==
  item' = [item EXCEPT ![call[w]] = [rows |-> got[w], expires |-> now + Expire]]

\* Faulty variant: the breaker is not looked at again before the put.
PutFailsAnyway(w) ==
  /\ Return(w)
  /\ UNCHANGED item
  /\ Trip(w)

PutSkipped(w) ==
  /\ Return(w)
  /\ ~isMemcachedOk(w)
  /\ UNCHANGED <<item, failAt>>

\* put() throws.  If memcached reported the error the item may be there.
PutFails(w) ==
  /\ Return(w)
  /\ isMemcachedOk(w)
  /\ UNCHANGED item \/ (call[w] \notin LongCalls /\ Set(w))
  /\ Trip(w)

Put(w) ==
  /\ Return(w)
  /\ isMemcachedOk(w) /\ call[w] \notin LongCalls
  /\ Set(w)
  /\ UNCHANGED failAt

-----------------------------------------------------------------------------
Lookup(w) ==
  \/ \E c \in Callsigns :
       \/ GetSkipped(w, c) \/ GetFails(w, c) \/ GetMisses(w, c)
       \/ GetUnparsable(w, c) \/ GetHits(w, c)
  \/ Sql(w) \/ SqlFails(w)
  \/ PutSkipped(w) \/ PutFails(w) \/ Put(w)

Environment ==
  \/ Tick
  \/ \E c \in Callsigns : Evict(c) \/ \E S \in Answers : Register(c, S)

Next == (\E w \in Workers : Lookup(w)) \/ Environment

Spec == Init /\ [][Next]_vars

-----------------------------------------------------------------------------
(* Properties                                                              *)

\* Types; nothing failed in the future, and no item outlives its lifetime.
TypeOK ==
  /\ now \in Epoch .. MaxTime
  /\ db \in [Callsigns -> Answers]
  /\ item \in [Callsigns -> [rows : Answers, expires : 0 .. now + Expire]
                          \cup {NoItem}]
  /\ pc \in [Workers -> {"idle", "sql", "put"}]
  /\ call \in [Workers -> Callsigns] /\ begun \in [Workers -> 0 .. now]
  /\ got \in [Workers -> Answers] /\ failAt \in [Workers -> 0 .. now]
  /\ answer \in [call : Callsigns, rows : Answers, begun : 0 .. now] \cup {NoAnswer}
  /\ lastTrue \in [Callsigns -> [Answers -> Int]]
  /\ lastError \in [Callsigns -> Int]

\* Rows S were the truth about c, or a failed query made it look so, at some
\* time after t.
TrueAfter(c, S, t) == lastTrue[c][S] > t \/ (S = {} /\ lastError[c] > t)

\* However the workers' lookups and the changes of the register interleave,
\* and although a slow lookup may overwrite a newer item with an older one, no
\* lookup returns rows that were last true an item's lifetime plus one lookup
\* ago, unless a query failed meanwhile (Store.cpp:370, 416, 447).
BoundedStaleness ==
  answer # NoAnswer =>
    TrueAfter(answer.call, answer.rows, answer.begun - (Expire + MaxLookup))

\* The lookup each worker waits for.
asked ==
  [w \in Workers |-> IF pc[w] = "idle" THEN NoAnswer
                                      ELSE [call |-> call[w], begun |-> begun[w]]]

Lookups == INSTANCE Directory WITH Window <- Expire + MaxLookup, Nothing <- NoAnswer

\* To the workers Store is a Directory.  An answer that took a query is not
\* merely within the window: those rows were the truth while the lookup
\* lasted, or its query failed, whatever the other workers put into the cache
\* meanwhile; one of the cache takes no time (Store.cpp:370-376, 416-447).
DirectorySpec == Lookups!Spec

\* "got not found from memcached", "setting not found in memcached"
\* (Store.cpp:376, 424): an item that says so stands for a register that had
\* no rows.  A failed query breaks this: it is cached as not found.
NotFoundIsTrue ==
  \A c \in Callsigns :
    item[c] # NoItem /\ item[c].rows = {} =>
      lastTrue[c][{}] > item[c].expires - (Expire + MaxLookup) - 1
=============================================================================
