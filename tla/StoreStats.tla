----------------------------- MODULE StoreStats -----------------------------
(***************************************************************************)
(* The counters class Store keeps about its register lookups, on top of    *)
(* the lookups of module Store: cache_register and sql_register of _stats, *)
(* reported and cleared by try_stats() (Store.cpp:142-190).  _stompstats   *)
(* counts the same events and differs in its interval only, so one record  *)
(* per worker stands for either.  Worker::run calls try_stats() before it  *)
(* takes a frame, hence between two lookups.                               *)
(*                                                                         *)
(* mcr (Store.cpp:224) is not initialised: when get() throws, the test     *)
(* that follows (Store.cpp:248) reads an indeterminate value, and the      *)
(* event is counted as a hit or as a miss.                                 *)
(***************************************************************************)
EXTENDS Store

CONSTANT MaxLookups   \* bound on the lookups of a worker

VARIABLES stats,      \* per worker: _stats
          lookups,    \* per worker: lookups begun
          items,      \* per worker: items memcached returned in this window
          failures    \* per worker: memcached errors during this lookup

statsVars == <<now, db, item, pc, call, begun, got, failAt, answer, lastTrue,
               lastError, stats, lookups, items, failures>>

NoStats == [tries |-> 0, hits |-> 0, misses |-> 0, stored |-> 0,
            sqlTries |-> 0, sqlHits |-> 0, sqlMisses |-> 0]

StatsInit ==
  /\ Init
  /\ stats = [w \in Workers |-> NoStats]
  /\ lookups = [w \in Workers |-> 0]
  /\ items = [w \in Workers |-> 0]
  /\ failures = [w \in Workers |-> 0]

\* Adds one to each of the named counters of w.
Count(w, names) ==
  stats' = [stats EXCEPT ![w] =
              [n \in DOMAIN NoStats |-> @[n] + (IF n \in names THEN 1 ELSE 0)]]

\* A lookup begins.  What does not end in the cache goes on to the database
\* and is counted there (sqlTries) before the query is made.
Begins(w) ==
  /\ lookups[w] < MaxLookups
  /\ lookups' = [lookups EXCEPT ![w] = @ + 1]

\* The memcached errors of the lookup so far.
Errors(w, n) == failures' = [failures EXCEPT ![w] = n]

CountGetSkipped(w, c) ==
  /\ GetSkipped(w, c) /\ Errors(w, 0)
  /\ Count(w, {"sqlTries"})
  /\ UNCHANGED items

CountGetThrown(w, c) ==
  /\ GetFails(w, c) /\ Errors(w, 1)
  /\ \E outcome \in {"hits", "misses"} : Count(w, {"tries", outcome, "sqlTries"})
  /\ UNCHANGED items

CountGetMiss(w, c) ==
  /\ GetMisses(w, c) /\ Errors(w, 0)
  /\ Count(w, {"tries", "misses", "sqlTries"})
  /\ UNCHANGED items

CountGetUnparsable(w, c) ==
  /\ GetUnparsable(w, c) /\ Errors(w, 0)
  /\ Count(w, {"tries", "hits", "sqlTries"})
  /\ items' = [items EXCEPT ![w] = @ + 1]

CountGetHit(w, c) ==
  /\ GetHits(w, c) /\ Errors(w, 0)
  /\ Count(w, {"tries", "hits"})
  /\ items' = [items EXCEPT ![w] = @ + 1]

\* A query that failed and one that found nothing are the same to the caller.
CountQuery(w) ==
  /\ Sql(w) \/ SqlFails(w)
  /\ Count(w, IF got'[w] = {} THEN {"sqlMisses"} ELSE {"sqlHits"})
  /\ UNCHANGED <<lookups, items, failures>>

CountPut(w) ==
  /\ \/ Put(w) /\ Count(w, {"stored"}) /\ UNCHANGED failures
     \/ PutSkipped(w) /\ UNCHANGED <<stats, failures>>
     \/ PutFails(w) /\ Errors(w, failures[w] + 1) /\ UNCHANGED stats
  /\ UNCHANGED <<lookups, items>>

\* Faulty variant: a timer of its own clears the counters at any time.
TryStatsByTimer(w) ==
  /\ stats[w] # NoStats
  /\ stats' = [stats EXCEPT ![w] = NoStats]
  /\ items' = [items EXCEPT ![w] = 0]
  /\ UNCHANGED <<vars, lookups, failures>>

\* The report interval is over: log and clear.
TryStats(w) ==
  /\ pc[w] = "idle"
  /\ stats[w] # NoStats
  /\ stats' = [stats EXCEPT ![w] = NoStats]
  /\ items' = [items EXCEPT ![w] = 0]
  /\ UNCHANGED <<vars, lookups, failures>>

StatsNext ==
  \/ \E w \in Workers :
       \/ \E c \in Callsigns :
            /\ Begins(w)
            /\ \/ CountGetSkipped(w, c) \/ CountGetThrown(w, c)
               \/ CountGetMiss(w, c) \/ CountGetUnparsable(w, c)
               \/ CountGetHit(w, c)
       \/ CountQuery(w) \/ CountPut(w) \/ TryStats(w)
  \/ Environment /\ UNCHANGED <<stats, lookups, items, failures>>

StatsSpec == StatsInit /\ [][StatsNext]_statsVars

-----------------------------------------------------------------------------
(* Properties                                                              *)

\* What a report says adds up, in every window and although errors, skipped
\* calls and unparsable items take different ways through the lookup: each
\* try of the cache was a hit or a miss, each query one or the other (but for
\* the one in progress), every miss led to a query and nothing was stored
\* that was not queried.
StatsReconcile ==
  \A w \in Workers :
    LET s == stats[w] IN
    /\ s.tries = s.hits + s.misses
    /\ s.sqlTries = s.sqlHits + s.sqlMisses + (IF pc[w] = "sql" THEN 1 ELSE 0)
    /\ s.misses <= s.sqlTries
    /\ s.stored + (IF pc[w] = "idle" THEN 0 ELSE 1) <= s.sqlTries

\* A lookup that lasts no longer than the breaker holds has at most one
\* memcached error: the put does not try again what the get saw fail
\* (Store.cpp:227, 273, Store.h:93).
OneFailurePerLookup ==
  MaxLookup <= FailHold => \A w \in Workers : failures[w] <= 1

\* "num hits - register" (Store.cpp:124): no more hits are counted than items
\* were returned.  Broken when get() throws and mcr happens to be SUCCESS.
HitsAreHits == \A w \in Workers : stats[w].hits <= items[w]
=============================================================================
