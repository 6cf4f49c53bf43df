----------------------------- MODULE StoreProofs -----------------------------
(***************************************************************************)
(* Proofs about Store for any number of workers and callsigns and every    *)
(* lifetime, hold and timeout: type correctness, the bound on how old the  *)
(* answer of a lookup can be, the refinement of Directory; and about the   *)
(* counters of StoreStats: that a report adds up, and that a lookup has    *)
(* one memcached error at most.                                            *)
(***************************************************************************)
EXTENDS StoreStats, TLAPS

-----------------------------------------------------------------------------
(* Type correctness                                                        *)

LEMMA Times ==
  /\ Expire \in Nat /\ Expire >= 1 /\ MaxLookup \in Nat /\ FailHold \in Nat
  /\ Epoch \in Nat /\ Epoch >= 1 /\ Epoch <= MaxTime /\ MaxTime \in Nat
  /\ Never \in Int /\ Never <= 0
  BY TimeAssumption DEF Epoch, Never

LEMMA Nothing ==
  /\ \A n \in Nat : NoItem \notin [rows : Answers, expires : 0 .. n]
  /\ \A n \in Nat : NoAnswer \notin [call : Callsigns, rows : Answers, begun : 0 .. n]
<1>1. ASSUME NEW n \in Nat, NoItem \in [rows : Answers, expires : 0 .. n]  PROVE FALSE
  <2>1. NoItem \in [rows : Answers, expires : Int]  BY <1>1
  <2>. QED  BY <2>1, NothingAssumption
<1>2. ASSUME NEW n \in Nat,
             NoAnswer \in [call : Callsigns, rows : Answers, begun : 0 .. n]
      PROVE  FALSE
  <2>1. NoAnswer \in [call : Callsigns, rows : Answers, begun : Int]  BY <1>2
  <2>. QED  BY <2>1, NothingAssumption
<1>. QED  BY <1>1, <1>2

LEMMA InitTypeOK == Init => TypeOK
<1>. SUFFICES ASSUME Init  PROVE TypeOK
  OBVIOUS
<1>. USE Times DEF Init
<1>1. call \in [Workers -> Callsigns]
  <2>1. (CHOOSE c \in Callsigns : TRUE) \in Callsigns  BY CallAssumption
  <2>. QED  BY <2>1
<1>2. got \in [Workers -> Answers]  BY RowAssumption
<1>3. lastTrue \in [Callsigns -> [Answers -> Int]]
  OBVIOUS
<1>4. now \in Epoch .. MaxTime /\ begun \in [Workers -> 0 .. now] /\ failAt \in [Workers -> 0 .. now]
  OBVIOUS
<1>. QED  BY <1>1, <1>2, <1>3, <1>4 DEF TypeOK

\* The ways a lookup ends or goes on, and what becomes of the cache.
LEMMA GoSqlTypes ==
  ASSUME TypeOK, NEW w \in Workers, NEW c \in Callsigns, GoSql(w, c),
         UNCHANGED <<now, item, got, lastError, truth>>,
         failAt' = failAt \/ Trip(w)
  PROVE  TypeOK'
<1>1. now \in 0 .. now  BY Times DEF TypeOK
<1>2. failAt' \in [Workers -> 0 .. now]  BY <1>1 DEF TypeOK, Trip
<1>. QED  BY <1>1, <1>2 DEF TypeOK, GoSql, truth

LEMMA QueryTypes ==
  ASSUME TypeOK, NEW w \in Workers, NEW S \in Answers, Query(w, S),
         \/ lastError' = lastError
         \/ lastError' = [lastError EXCEPT ![call[w]] = now]
  PROVE  TypeOK'
<1>1. lastError' \in [Callsigns -> Int]  BY Times DEF TypeOK
<1>. QED  BY <1>1 DEF TypeOK, Query, truth

LEMMA SetTypes ==
  ASSUME TypeOK, NEW w \in Workers, Set(w)
  PROVE  item' \in [Callsigns -> [rows : Answers, expires : 0 .. now + Expire]
                                   \cup {NoItem}]
<1>1. now + Expire \in 0 .. now + Expire  BY Times DEF TypeOK
<1>2. [rows |-> got[w], expires |-> now + Expire]
         \in [rows : Answers, expires : 0 .. now + Expire]
  BY <1>1 DEF TypeOK
<1>. QED  BY <1>2 DEF TypeOK, Set

LEMMA ReturnTypes ==
  ASSUME TypeOK, NEW w \in Workers, Return(w),
         item' = item \/ Set(w), failAt' = failAt \/ Trip(w)
  PROVE  TypeOK'
<1>1. now \in 0 .. now /\ 0 \in 0 .. now  BY Times DEF TypeOK
<1>2. failAt' \in [Workers -> 0 .. now]  BY <1>1 DEF TypeOK, Trip
<1>3. item' \in [Callsigns -> [rows : Answers, expires : 0 .. now + Expire]
                                \cup {NoItem}]
  BY SetTypes DEF TypeOK
<1>4. answer' \in [call : Callsigns, rows : Answers, begun : 0 .. now]
  BY DEF TypeOK, Return
<1>5. got' \in [Workers -> Answers] /\ begun' \in [Workers -> 0 .. now]
  BY <1>1, RowAssumption DEF TypeOK, Return
<1>. QED  BY <1>2, <1>3, <1>4, <1>5 DEF TypeOK, Return, truth

LEMMA TypeStep == TypeOK /\ [Next]_vars => TypeOK'
<1>. SUFFICES ASSUME TypeOK, [Next]_vars  PROVE TypeOK'
  OBVIOUS
<1>1. CASE Tick
  <2>1. now' = now + 1 /\ now' \in Epoch .. MaxTime /\ now \in Nat
    BY <1>1, Times DEF Tick, TypeOK
  <2>2. /\ 0 .. now \subseteq 0 .. now'
        /\ 0 .. now + Expire \subseteq 0 .. now' + Expire
    BY <2>1, Times
  <2>3. lastTrue' \in [Callsigns -> [Answers -> Int]]
    BY <1>1, <2>1 DEF Tick, TypeOK
  <2>4. item' \in [Callsigns -> [rows : Answers, expires : 0 .. now' + Expire]
                                  \cup {NoItem}]
    BY <1>1, <2>2 DEF Tick, TypeOK
  <2>5. begun' \in [Workers -> 0 .. now'] /\ failAt' \in [Workers -> 0 .. now']
    BY <1>1, <2>2 DEF Tick, TypeOK, memory
  <2>. QED  BY <1>1, <2>1, <2>3, <2>4, <2>5 DEF Tick, TypeOK, memory
<1>2. ASSUME NEW c \in Callsigns, NEW S \in Answers, Register(c, S)  PROVE TypeOK'
  <2>1. lastTrue' \in [Callsigns -> [Answers -> Int]]
    BY <1>2, Times DEF Register, TypeOK
  <2>. QED  BY <1>2, <2>1 DEF Register, TypeOK, memory
<1>3. ASSUME NEW c \in Callsigns, Evict(c)  PROVE TypeOK'
  BY <1>3 DEF Evict, TypeOK, memory, truth
<1>4. ASSUME NEW w \in Workers, NEW c \in Callsigns,
             GetSkipped(w, c) \/ GetFails(w, c) \/ GetMisses(w, c) \/ GetUnparsable(w, c)
      PROVE  TypeOK'
  BY <1>4, GoSqlTypes DEF GetSkipped, GetFails, GetMisses, GetUnparsable
<1>5. ASSUME NEW w \in Workers, NEW c \in Callsigns, GetHits(w, c)  PROVE TypeOK'
  <2>1. item[c] \in [rows : Answers, expires : 0 .. now + Expire] /\ now \in 0 .. now
    BY <1>5, Times DEF GetHits, Live, TypeOK
  <2>2. answer' \in [call : Callsigns, rows : Answers, begun : 0 .. now]
    BY <1>5, <2>1 DEF GetHits
  <2>. QED  BY <1>5, <2>2 DEF GetHits, TypeOK, truth
<1>6. ASSUME NEW w \in Workers, Sql(w)  PROVE TypeOK'
  <2>1. db[call[w]] \in Answers  BY DEF TypeOK
  <2>. QED  BY <1>6, <2>1, QueryTypes DEF Sql
<1>7. ASSUME NEW w \in Workers, SqlFails(w)  PROVE TypeOK'
  BY <1>7, RowAssumption, QueryTypes DEF SqlFails
<1>8. ASSUME NEW w \in Workers, PutSkipped(w) \/ PutFails(w) \/ Put(w)  PROVE TypeOK'
  BY <1>8, ReturnTypes DEF PutSkipped, PutFails, Put
<1>9. CASE UNCHANGED vars  BY <1>9 DEF vars, TypeOK
<1>. QED
  BY <1>1, <1>2, <1>3, <1>4, <1>5, <1>6, <1>7, <1>8, <1>9
  DEF Next, Lookup, Environment

-----------------------------------------------------------------------------
(* How old an answer can be                                                *)

\* The present truth, and that the past does not change.
Present ==
  /\ \A c \in Callsigns : lastTrue[c][db[c]] = now /\ lastError[c] <= now
  /\ \A c \in Callsigns, S \in Answers : lastTrue[c][S] <= now

PastKept ==
  /\ now \in Int /\ now' \in Int /\ now <= now'
  /\ \A c \in Callsigns : lastError[c] <= lastError'[c]
  /\ \A c \in Callsigns, S \in Answers : lastTrue[c][S] <= lastTrue'[c][S]

LEMMA PresentStep ==
  TypeOK /\ Present /\ [Next]_vars => Present' /\ PastKept
<1>. SUFFICES ASSUME TypeOK, Present, [Next]_vars  PROVE Present' /\ PastKept
  OBVIOUS
<1>. USE DEF Present, PastKept
<1>1. now \in Nat /\ lastTrue \in [Callsigns -> [Answers -> Int]]
      /\ lastError \in [Callsigns -> Int] /\ db \in [Callsigns -> Answers]
  BY Times DEF TypeOK
<1>2. CASE Tick
  <2>1. /\ now' = now + 1 /\ UNCHANGED <<db, lastError>>
        /\ \A c \in Callsigns, S \in Answers :
             lastTrue'[c][S] = IF S = db[c] THEN now + 1 ELSE lastTrue[c][S]
    BY <1>1, <1>2 DEF Tick
  <2>. QED  BY <1>1, <2>1
<1>3. ASSUME NEW d \in Callsigns, NEW T \in Answers, Register(d, T)
      PROVE  Present' /\ PastKept
  <2>1. /\ now' = now /\ lastError' = lastError
        /\ \A c \in Callsigns : db'[c] = IF c = d THEN T ELSE db[c]
        /\ \A c \in Callsigns, S \in Answers :
             lastTrue'[c][S] = IF c = d /\ S = T THEN now ELSE lastTrue[c][S]
    BY <1>1, <1>3 DEF Register
  <2>. QED  BY <1>1, <2>1
<1>4. ASSUME NEW w \in Workers, SqlFails(w)  PROVE Present' /\ PastKept
  <2>1. UNCHANGED <<now, db, lastTrue>>  BY <1>4 DEF SqlFails, Query, truth
  <2>2. \A c \in Callsigns : lastError'[c] = IF c = call[w] THEN now ELSE lastError[c]
    BY <1>1, <1>4 DEF SqlFails
  <2>. QED  BY <1>1, <2>1, <2>2
<1>5. CASE UNCHANGED <<now, db, lastTrue, lastError>>
  BY <1>1, <1>5
<1>6. ASSUME NEW c \in Callsigns, Evict(c)  PROVE UNCHANGED <<now, db, lastTrue, lastError>>
  BY <1>6 DEF Evict, truth
<1>7. ASSUME NEW w \in Workers, NEW c \in Callsigns,
             \/ GetSkipped(w, c) \/ GetFails(w, c) \/ GetMisses(w, c)
             \/ GetUnparsable(w, c) \/ GetHits(w, c)
      PROVE  UNCHANGED <<now, db, lastTrue, lastError>>
  BY <1>7 DEF GetSkipped, GetFails, GetMisses, GetUnparsable, GetHits, truth
<1>8. ASSUME NEW w \in Workers, Sql(w) \/ PutSkipped(w) \/ PutFails(w) \/ Put(w)
      PROVE  UNCHANGED <<now, db, lastTrue, lastError>>
  BY <1>8 DEF Sql, Query, PutSkipped, PutFails, Put, Return, truth
<1>9. CASE UNCHANGED vars  BY <1>5, <1>9 DEF vars
<1>. QED
  BY <1>2, <1>3, <1>4, <1>5, <1>6, <1>7, <1>8, <1>9 DEF Next, Lookup, Environment

LEMMA InitPresent == Init => Present
  BY Times DEF Init, Present

\* What was true after t stays so, and was true after any earlier time.
LEMMA Later ==
  ASSUME TypeOK, TypeOK', PastKept, NEW c \in Callsigns, NEW S \in Answers,
         NEW t \in Int, NEW u \in Int, u <= t, TrueAfter(c, S, t)
  PROVE  lastTrue'[c][S] > u \/ (S = {} /\ lastError'[c] > u)
<1>1. /\ lastTrue[c][S] \in Int /\ lastTrue'[c][S] \in Int
      /\ lastError[c] \in Int /\ lastError'[c] \in Int
  BY DEF TypeOK
<1>. QED  BY <1>1 DEF PastKept, TrueAfter

\* An item was written no later than one lookup after its rows were true.
ItemInv ==
  \A c \in Callsigns :
    item[c] # NoItem =>
      TrueAfter(c, item[c].rows, item[c].expires - (Expire + MaxLookup) - 1)

\* What a worker is about to write was true when its lookup had begun.
LookupInv ==
  \A w \in Workers :
    /\ pc[w] # "idle" => now <= begun[w] + MaxLookup
    /\ pc[w] = "put" => TrueAfter(call[w], got[w], begun[w] - 1)

IInv == TypeOK /\ Present /\ ItemInv /\ LookupInv /\ BoundedStaleness

LEMMA InitIInv == Init => IInv
<1>. SUFFICES ASSUME Init  PROVE ItemInv /\ LookupInv /\ BoundedStaleness
  BY InitTypeOK, InitPresent DEF IInv
<1>. QED  BY DEF Init, ItemInv, LookupInv, BoundedStaleness

LEMMA SetItem ==
  ASSUME TypeOK, TypeOK', PastKept, LookupInv, NEW w \in Workers, pc[w] = "put", Set(w),
         now' = now
  PROVE  LET c == call[w] IN
         /\ item'[c] # NoItem
         /\ \A d \in Callsigns \ {c} : item'[d] = item[d]
         /\ LET t == item'[c].expires - (Expire + MaxLookup) - 1 IN
              lastTrue'[c][got[w]] > t \/ (got[w] = {} /\ lastError'[c] > t)
         /\ item'[c].rows = got[w]
<1>. DEFINE c == call[w]
            t == now - MaxLookup - 1
<1>1. c \in Callsigns /\ got[w] \in Answers /\ now \in Nat /\ begun[w] \in Int
  BY Times DEF TypeOK
<1>2. /\ item'[c] = [rows |-> got[w], expires |-> now + Expire]
      /\ \A d \in Callsigns \ {c} : item'[d] = item[d]
  BY <1>1 DEF Set, TypeOK
<1>3. item'[c].rows = got[w] /\ item'[c].expires = now + Expire  BY <1>2
<1>4. item'[c] # NoItem
  <2>1. now + Expire \in 0 .. now + Expire /\ now + Expire \in Nat  BY <1>1, Times
  <2>. QED  BY <1>1, <1>2, <2>1, Nothing
<1>5. t <= begun[w] - 1 /\ TrueAfter(c, got[w], begun[w] - 1)
  BY <1>1, Times DEF LookupInv
<1>6. lastTrue'[c][got[w]] > t \/ (got[w] = {} /\ lastError'[c] > t)
  BY <1>1, <1>5, Times, Later
<1>7. item'[c].expires - (Expire + MaxLookup) - 1 = t
  <2>. DEFINE e == item'[c].expires
  <2>1. e = now + Expire  BY <1>3
  <2>. HIDE DEF e
  <2>2. e - (Expire + MaxLookup) - 1 = t  BY <1>1, <2>1, Times
  <2>. QED  BY <2>2 DEF e
<1>. HIDE DEF t
<1>. QED  BY <1>2, <1>3, <1>4, <1>6, <1>7

LEMMA ItemStep ==
  TypeOK /\ TypeOK' /\ PastKept /\ ItemInv /\ LookupInv /\ [Next]_vars => ItemInv'
<1>. SUFFICES ASSUME TypeOK, TypeOK', PastKept, ItemInv, LookupInv, [Next]_vars,
                     NEW c \in Callsigns, item'[c] # NoItem
              PROVE  LET S == item'[c].rows
                         t == item'[c].expires - (Expire + MaxLookup) - 1 IN
                     lastTrue'[c][S] > t \/ (S = {} /\ lastError'[c] > t)
  BY DEF ItemInv, TrueAfter
<1>1. CASE item'[c] = item[c]
  <2>1. item[c] \in [rows : Answers, expires : 0 .. now + Expire]
    BY <1>1 DEF TypeOK
  <2>2. item[c].expires - (Expire + MaxLookup) - 1 \in Int /\ item[c].rows \in Answers
    BY <2>1, Times
  <2>. QED  BY <1>1, <2>2, Later DEF ItemInv
<1>2. CASE \E w \in Workers : pc[w] = "put" /\ Set(w) /\ now' = now
  BY <1>1, <1>2, SetItem
<1>3. ASSUME NEW w \in Workers, PutSkipped(w) \/ PutFails(w) \/ Put(w)
      PROVE  UNCHANGED item \/ (pc[w] = "put" /\ Set(w) /\ now' = now)
  BY <1>3 DEF PutSkipped, PutFails, Put, Return
<1>4. ASSUME NEW d \in Callsigns, Evict(d)  PROVE item'[c] = item[c]
  BY <1>4 DEF Evict, TypeOK
<1>5. ASSUME NEW w \in Workers, NEW d \in Callsigns,
             \/ GetSkipped(w, d) \/ GetFails(w, d) \/ GetMisses(w, d)
             \/ GetUnparsable(w, d) \/ GetHits(w, d)
      PROVE  UNCHANGED item
  BY <1>5 DEF GetSkipped, GetFails, GetMisses, GetUnparsable, GetHits
<1>6. ASSUME NEW w \in Workers, Sql(w) \/ SqlFails(w)  PROVE UNCHANGED item
  BY <1>6 DEF Sql, SqlFails, Query
<1>7. ASSUME NEW d \in Callsigns, NEW S \in Answers, Register(d, S)  PROVE UNCHANGED item
  BY <1>7 DEF Register
<1>8. CASE Tick \/ UNCHANGED vars
  BY <1>1, <1>8 DEF Tick, vars
<1>. QED
  BY <1>1, <1>2, <1>3, <1>4, <1>5, <1>6, <1>7, <1>8 DEF Next, Lookup, Environment

LEMMA LookupStep ==
  /\ TypeOK /\ TypeOK' /\ Present /\ Present' /\ PastKept /\ LookupInv /\ [Next]_vars
  => LookupInv'
<1>. SUFFICES ASSUME TypeOK, TypeOK', Present, Present', PastKept, LookupInv, [Next]_vars,
                     NEW v \in Workers
              PROVE  /\ pc'[v] # "idle" => now' <= begun'[v] + MaxLookup
                     /\ pc'[v] = "put" =>
                          LET t == begun'[v] - 1 IN
                          \/ lastTrue'[call'[v]][got'[v]] > t
                          \/ got'[v] = {} /\ lastError'[call'[v]] > t
  BY DEF LookupInv, TrueAfter
<1>1. /\ now \in Nat /\ begun[v] \in Int /\ begun[v] <= now
      /\ call[v] \in Callsigns /\ got[v] \in Answers
  BY Times DEF TypeOK
\* The lookup of v stays where it is.
<1>2. ASSUME pc'[v] = pc[v], call'[v] = call[v], got'[v] = got[v], begun'[v] = begun[v],
             pc[v] # "idle" => now' <= begun[v] + MaxLookup
      PROVE  /\ pc'[v] # "idle" => now' <= begun'[v] + MaxLookup
             /\ pc'[v] = "put" =>
                  LET t == begun'[v] - 1 IN
                  \/ lastTrue'[call'[v]][got'[v]] > t
                  \/ got'[v] = {} /\ lastError'[call'[v]] > t
  BY <1>1, <1>2, Later DEF LookupInv
<1>3. CASE UNCHANGED memory /\ now' = now
  BY <1>2, <1>3 DEF memory, LookupInv
<1>4. CASE Tick
  <2>1. pc[v] # "idle" => now' <= begun[v] + MaxLookup
    BY <1>1, <1>4, Times DEF Tick
  <2>. QED  BY <1>2, <1>4, <2>1 DEF Tick, memory
<1>5. ASSUME NEW w \in Workers, NEW c \in Callsigns, GoSql(w, c), now' = now, got' = got
      PROVE  /\ pc'[v] # "idle" => now' <= begun'[v] + MaxLookup
             /\ pc'[v] = "put" =>
                  LET t == begun'[v] - 1 IN
                  \/ lastTrue'[call'[v]][got'[v]] > t
                  \/ got'[v] = {} /\ lastError'[call'[v]] > t
  <2>1. CASE v = w
    <3>1. pc'[v] = "sql" /\ begun'[v] = now
      BY <1>5, <2>1 DEF GoSql, TypeOK
    <3>. QED  BY <1>1, <1>5, <3>1, Times
  <2>2. CASE v # w
    BY <1>2, <1>5, <2>2 DEF GoSql, TypeOK, LookupInv
  <2>. QED  BY <2>1, <2>2
<1>6. ASSUME NEW w \in Workers, Sql(w) \/ SqlFails(w)
      PROVE  /\ pc'[v] # "idle" => now' <= begun'[v] + MaxLookup
             /\ pc'[v] = "put" =>
                  LET t == begun'[v] - 1 IN
                  \/ lastTrue'[call'[v]][got'[v]] > t
                  \/ got'[v] = {} /\ lastError'[call'[v]] > t
  <2>1. CASE v = w
    <3>1. pc[v] = "sql" /\ UNCHANGED <<now, begun, call, db>>
      BY <1>6, <2>1 DEF Sql, SqlFails, Query, truth
    <3>2. now' <= begun'[v] + MaxLookup  BY <3>1 DEF LookupInv
    <3>3. CASE Sql(w)
      <4>1. got'[v] = db'[call'[v]]  BY <2>1, <3>1, <3>3 DEF Sql, Query, TypeOK
      <4>2. lastTrue'[call'[v]][got'[v]] = now  BY <1>1, <3>1, <4>1 DEF Present
      <4>. QED  BY <1>1, <3>1, <3>2, <4>2
    <3>4. CASE SqlFails(w)
      <4>1. got'[v] = {}  BY <2>1, <3>4 DEF SqlFails, Query, TypeOK
      <4>2. lastError'[call'[v]] = now
        BY <1>1, <2>1, <3>1, <3>4 DEF SqlFails, TypeOK
      <4>. QED  BY <1>1, <3>1, <3>2, <4>1, <4>2
    <3>. QED  BY <1>6, <3>3, <3>4
  <2>2. CASE v # w
    BY <1>2, <1>6, <2>2 DEF Sql, SqlFails, Query, TypeOK, LookupInv
  <2>. QED  BY <2>1, <2>2
<1>7. ASSUME NEW w \in Workers, Return(w)
      PROVE  /\ pc'[v] # "idle" => now' <= begun'[v] + MaxLookup
             /\ pc'[v] = "put" =>
                  LET t == begun'[v] - 1 IN
                  \/ lastTrue'[call'[v]][got'[v]] > t
                  \/ got'[v] = {} /\ lastError'[call'[v]] > t
  <2>1. CASE v = w
    BY <1>7, <2>1 DEF Return, TypeOK
  <2>2. CASE v # w
    BY <1>2, <1>7, <2>2 DEF Return, TypeOK, LookupInv
  <2>. QED  BY <2>1, <2>2
<1>8. ASSUME NEW w \in Workers, NEW c \in Callsigns,
             GetSkipped(w, c) \/ GetFails(w, c) \/ GetMisses(w, c) \/ GetUnparsable(w, c)
      PROVE  GoSql(w, c) /\ now' = now /\ got' = got
  BY <1>8 DEF GetSkipped, GetFails, GetMisses, GetUnparsable
<1>9. ASSUME NEW w \in Workers, PutSkipped(w) \/ PutFails(w) \/ Put(w)  PROVE Return(w)
  BY <1>9 DEF PutSkipped, PutFails, Put
<1>10. ASSUME NEW c \in Callsigns,
              \/ Evict(c)
              \/ \E S \in Answers : Register(c, S)
              \/ \E w \in Workers : GetHits(w, c)
       PROVE  UNCHANGED memory /\ now' = now
  BY <1>10 DEF Evict, Register, GetHits, memory
<1>11. CASE UNCHANGED vars
  BY <1>3, <1>11 DEF vars, memory
<1>. QED
  BY <1>3, <1>4, <1>5, <1>6, <1>7, <1>8, <1>9, <1>10, <1>11
  DEF Next, Lookup, Environment

LEMMA AnswerStep ==
  TypeOK /\ TypeOK' /\ PastKept /\ ItemInv /\ LookupInv /\ BoundedStaleness /\ [Next]_vars
    => BoundedStaleness'
<1>. SUFFICES ASSUME TypeOK, TypeOK', PastKept, ItemInv, LookupInv, BoundedStaleness,
                     [Next]_vars, answer' # NoAnswer
              PROVE  LET t == answer'.begun - (Expire + MaxLookup) IN
                     \/ lastTrue'[answer'.call][answer'.rows] > t
                     \/ answer'.rows = {} /\ lastError'[answer'.call] > t
  BY DEF BoundedStaleness, TrueAfter
<1>1. now \in Nat  BY Times DEF TypeOK
\* The cache answers.
<1>2. ASSUME NEW w \in Workers, NEW c \in Callsigns, GetHits(w, c)
      PROVE  LET t == answer'.begun - (Expire + MaxLookup) IN
             \/ lastTrue'[answer'.call][answer'.rows] > t
             \/ answer'.rows = {} /\ lastError'[answer'.call] > t
  <2>. DEFINE u == item[c].expires - (Expire + MaxLookup) - 1
              t == now - (Expire + MaxLookup)
  <2>1. /\ item[c] \in [rows : Answers, expires : 0 .. now + Expire]
        /\ item[c] # NoItem /\ now < item[c].expires
        /\ answer'.call = c /\ answer'.rows = item[c].rows /\ answer'.begun = now
    BY <1>2 DEF GetHits, Live, TypeOK
  <2>2. t \in Int /\ u \in Int /\ t <= u /\ item[c].rows \in Answers
    BY <1>1, <2>1, Times
  <2>3. TrueAfter(c, item[c].rows, u)  BY <2>1 DEF ItemInv
  <2>4. lastTrue'[c][item[c].rows] > t \/ (item[c].rows = {} /\ lastError'[c] > t)
    BY <2>2, <2>3, Later
  <2>. QED  BY <2>1, <2>4
\* The database answered.
<1>3. ASSUME NEW w \in Workers, Return(w)
      PROVE  LET t == answer'.begun - (Expire + MaxLookup) IN
             \/ lastTrue'[answer'.call][answer'.rows] > t
             \/ answer'.rows = {} /\ lastError'[answer'.call] > t
  <2>. DEFINE u == begun[w] - 1
              t == begun[w] - (Expire + MaxLookup)
  <2>1. /\ answer'.call = call[w] /\ answer'.rows = got[w] /\ answer'.begun = begun[w]
        /\ pc[w] = "put"
    BY <1>3 DEF Return
  <2>2. /\ t \in Int /\ u \in Int /\ t <= u
        /\ call[w] \in Callsigns /\ got[w] \in Answers
    BY <1>1, Times DEF TypeOK
  <2>3. TrueAfter(call[w], got[w], u)  BY <2>1 DEF LookupInv
  <2>4. lastTrue'[call[w]][got[w]] > t \/ (got[w] = {} /\ lastError'[call[w]] > t)
    BY <2>2, <2>3, Later
  <2>. QED  BY <2>1, <2>4
<1>4. ASSUME NEW w \in Workers, PutSkipped(w) \/ PutFails(w) \/ Put(w)  PROVE Return(w)
  BY <1>4 DEF PutSkipped, PutFails, Put
\* The other steps return nothing.
<1>5. ASSUME NEW w \in Workers, NEW c \in Callsigns,
             GetSkipped(w, c) \/ GetFails(w, c) \/ GetMisses(w, c) \/ GetUnparsable(w, c)
      PROVE  FALSE
  BY <1>5 DEF GetSkipped, GetFails, GetMisses, GetUnparsable, GoSql
<1>6. ASSUME NEW w \in Workers, Sql(w) \/ SqlFails(w)  PROVE FALSE
  BY <1>6 DEF Sql, SqlFails, Query
<1>7. ~Environment
  BY DEF Environment, Tick, Evict, Register
<1>8. CASE UNCHANGED vars
  <2>1. answer \in [call : Callsigns, rows : Answers, begun : 0 .. now]
    BY <1>8 DEF vars, TypeOK
  <2>. QED  BY <1>8, <2>1 DEF vars, BoundedStaleness, TrueAfter
<1>. QED  BY <1>2, <1>3, <1>4, <1>5, <1>6, <1>7, <1>8 DEF Next, Lookup

LEMMA IInvStep == IInv /\ [Next]_vars => IInv'
  BY TypeStep, PresentStep, ItemStep, LookupStep, AnswerStep DEF IInv

LEMMA Inductive == Spec => []IInv
  BY InitIInv, IInvStep, PTL DEF Spec

-----------------------------------------------------------------------------
(* Directory                                                               *)

LEMMA Waiting ==
  ASSUME TypeOK, NEW w \in Workers
  PROVE  /\ pc[w] = "idle" <=> asked[w] = NoAnswer
         /\ pc[w] # "idle" => /\ asked[w] = [call |-> call[w], begun |-> begun[w]]
                             /\ asked[w].call = call[w] /\ asked[w].begun = begun[w]
<1>1. [call |-> call[w], begun |-> begun[w]] \in [call : Callsigns, begun : Int]
  BY Times DEF TypeOK
<1>2. pc[w] # "idle" => asked[w] = [call |-> call[w], begun |-> begun[w]]
  BY DEF asked
<1>3. pc[w] # "idle" => asked[w].call = call[w] /\ asked[w].begun = begun[w]
  BY <1>2
<1>. QED  BY <1>1, <1>2, <1>3, NothingAssumption DEF asked

LEMMA InitDirectory == Init => Lookups!Init
<1>. SUFFICES ASSUME Init  PROVE Lookups!Init
  OBVIOUS
<1>1. asked = [w \in Workers |-> NoAnswer]  BY DEF Init, asked
<1>2. Never <= now - (Expire + MaxLookup)  BY Times DEF Init, Never
<1>3. TypeOK /\ Present  BY InitTypeOK, InitPresent
<1>4. \A c \in Callsigns :
        /\ lastTrue[c][db[c]] = now /\ lastError[c] = Never
        /\ \A S \in Answers \ {db[c]} : lastTrue[c][S] = Never
  BY <1>3 DEF Init, Present
<1>. QED  BY <1>1, <1>2, <1>4 DEF Lookups!Init, Init

\* A lookup begins, does not end, or returns.
LEMMA AskStep ==
  ASSUME NEW w \in Workers, NEW c \in Callsigns, TypeOK, GoSql(w, c),
         UNCHANGED <<now, lastError, truth>>
  PROVE  Lookups!Ask(w, c)
<1>1. asked[w] = NoAnswer  BY Waiting DEF GoSql
<1>2. asked' = [asked EXCEPT ![w] = [call |-> c, begun |-> now]]
  BY DEF GoSql, asked, TypeOK
<1>. QED  BY <1>1, <1>2 DEF Lookups!Ask, GoSql, truth

LEMMA QueryQuiet ==
  ASSUME NEW w \in Workers, NEW S, TypeOK, Query(w, S)
  PROVE  UNCHANGED <<now, db, asked, lastTrue>> /\ answer' = NoAnswer
<1>1. \A v \in Workers : pc'[v] = "idle" <=> pc[v] = "idle"
  BY DEF Query, TypeOK
<1>2. asked' = asked  BY <1>1 DEF Query, asked
<1>. QED  BY <1>2 DEF Query, truth

LEMMA ReturnStep ==
  ASSUME NEW w \in Workers, TypeOK, LookupInv, Return(w)
  PROVE  got[w] \in Answers /\ Lookups!Fresh(w, got[w])
<1>1. asked[w] = [call |-> call[w], begun |-> begun[w]] /\ asked[w] # NoAnswer
  BY Waiting DEF Return
<1>2. asked[w].call = call[w] /\ asked[w].begun = begun[w]  BY <1>1
<1>3. Lookups!TrueSince(call[w], got[w], begun[w])
  <2>1. /\ lastTrue[call[w]][got[w]] \in Int /\ lastError[call[w]] \in Int
        /\ begun[w] \in Int
    BY Times DEF TypeOK
  <2>2. TrueAfter(call[w], got[w], begun[w] - 1)  BY DEF LookupInv, Return
  <2>. QED  BY <2>1, <2>2 DEF TrueAfter, Lookups!TrueSince
<1>4. asked' = [asked EXCEPT ![w] = NoAnswer]  BY DEF Return, asked, TypeOK
<1>5. answer' = [call |-> call[w], rows |-> got[w], begun |-> begun[w]]  BY DEF Return
<1>. QED  BY <1>1, <1>2, <1>3, <1>4, <1>5 DEF Lookups!Fresh, Return, truth, TypeOK

LEMMA HitStep ==
  ASSUME NEW w \in Workers, NEW c \in Callsigns, TypeOK, ItemInv, GetHits(w, c)
  PROVE  item[c].rows \in Answers /\ Lookups!Cached(w, c, item[c].rows)
<1>1. /\ item[c] \in [rows : Answers, expires : 0 .. now + Expire]
      /\ item[c] # NoItem /\ now < item[c].expires
  BY DEF GetHits, Live, TypeOK
<1>2. Lookups!TrueSince(c, item[c].rows, now - (Expire + MaxLookup) + 1)
  <2>1. /\ lastTrue[c][item[c].rows] \in Int /\ lastError[c] \in Int
        /\ now \in Int /\ item[c].expires \in Int
    BY <1>1, Times DEF TypeOK
  <2>2. TrueAfter(c, item[c].rows, item[c].expires - (Expire + MaxLookup) - 1)
    BY <1>1 DEF ItemInv
  <2>. QED  BY <1>1, <2>1, <2>2, Times DEF TrueAfter, Lookups!TrueSince
<1>3. asked[w] = NoAnswer  BY Waiting DEF GetHits
<1>4. asked' = asked  BY DEF GetHits, asked
<1>. QED  BY <1>1, <1>2, <1>3, <1>4 DEF Lookups!Cached, GetHits, truth

LEMMA DirectoryStep == IInv /\ [Next]_vars => [Lookups!Next]_(Lookups!dirVars)
<1>. SUFFICES ASSUME IInv, [Next]_vars  PROVE [Lookups!Next]_(Lookups!dirVars)
  OBVIOUS
<1>0. TypeOK /\ ItemInv /\ LookupInv  BY DEF IInv
<1>1. CASE Tick
  <2>1. \A w \in Workers : asked[w] # NoAnswer => now - asked[w].begun < MaxLookup
    <3>1. ASSUME NEW w \in Workers, asked[w] # NoAnswer
          PROVE  now - asked[w].begun < MaxLookup
      <4>1. pc[w] # "idle" /\ asked[w].begun = begun[w]  BY <1>0, <3>1, Waiting
      <4>. QED  BY <1>1, <4>1 DEF Tick
    <3>. QED  BY <3>1
  <2>2. asked' = asked  BY <1>1 DEF Tick, memory, asked
  <2>3. Lookups!Tick  BY <1>1, <2>1, <2>2 DEF Tick, Lookups!Tick
  <2>. QED  BY <2>3 DEF Lookups!Next
<1>2. ASSUME NEW c \in Callsigns, NEW S \in Answers, Register(c, S)
      PROVE  Lookups!Next
  <2>1. asked' = asked  BY <1>2 DEF Register, memory, asked
  <2>2. Lookups!Change(c, S)  BY <1>2, <2>1 DEF Register, Lookups!Change
  <2>. QED  BY <2>2 DEF Lookups!Next
<1>3. ASSUME NEW c \in Callsigns, Evict(c)  PROVE Lookups!Next
  <2>1. asked' = asked  BY <1>3 DEF Evict, memory, asked
  <2>2. Lookups!Quiet  BY <1>3, <2>1 DEF Evict, truth, Lookups!Quiet
  <2>. QED  BY <2>2 DEF Lookups!Next
<1>4. ASSUME NEW w \in Workers, NEW c \in Callsigns,
             GetSkipped(w, c) \/ GetFails(w, c) \/ GetMisses(w, c) \/ GetUnparsable(w, c)
      PROVE  Lookups!Next
  <2>1. Lookups!Ask(w, c)
    BY <1>0, <1>4, AskStep DEF GetSkipped, GetFails, GetMisses, GetUnparsable
  <2>. QED  BY <2>1 DEF Lookups!Next
<1>5. ASSUME NEW w \in Workers, NEW c \in Callsigns, GetHits(w, c)  PROVE Lookups!Next
  BY <1>0, <1>5, HitStep DEF Lookups!Next
<1>6. ASSUME NEW w \in Workers, Sql(w)  PROVE Lookups!Next
  <2>1. Lookups!Quiet  BY <1>0, <1>6, QueryQuiet DEF Sql, Lookups!Quiet
  <2>. QED  BY <2>1 DEF Lookups!Next
<1>7. ASSUME NEW w \in Workers, SqlFails(w)  PROVE Lookups!Next
  <2>1. pc[w] # "idle"  BY <1>7 DEF SqlFails, Query
  <2>2. asked[w] # NoAnswer /\ asked[w].call = call[w]  BY <1>0, <2>1, Waiting
  <2>3. Lookups!Fail(w)
    BY <1>0, <1>7, <2>2, QueryQuiet DEF SqlFails, Lookups!Fail
  <2>. QED  BY <2>3 DEF Lookups!Next
<1>8. ASSUME NEW w \in Workers, PutSkipped(w) \/ PutFails(w) \/ Put(w)
      PROVE  Lookups!Next
  <2>1. Return(w)  BY <1>8 DEF PutSkipped, PutFails, Put
  <2>. QED  BY <1>0, <2>1, ReturnStep DEF Lookups!Next
<1>9. CASE UNCHANGED vars  BY <1>9 DEF vars, Lookups!dirVars, asked
<1>. QED
  BY <1>1, <1>2, <1>3, <1>4, <1>5, <1>6, <1>7, <1>8, <1>9
  DEF Next, Lookup, Environment

-----------------------------------------------------------------------------
(* The theorems                                                            *)

\* The variables have their types, nothing failed in the future and no item
\* outlives its lifetime, for any number of workers.
THEOREM TypeCorrect == Spec => []TypeOK
<1>1. IInv => TypeOK  BY DEF IInv
<1>. QED  BY <1>1, Inductive, PTL

\* No lookup returns rows that were last true an item's lifetime plus one
\* lookup ago, unless a query failed meanwhile: however many workers share the
\* cache and whatever the lifetime (3600 s) and the timeouts are.
THEOREM AnswersNotStale == Spec => []BoundedStaleness
<1>1. IInv => BoundedStaleness  BY DEF IInv
<1>. QED  BY <1>1, Inductive, PTL

\* To the workers, however many they are, Store is a Directory: an answer that
\* took a query was true while its lookup lasted, or that query failed, and
\* one of the cache was true within the window (Store.cpp:370-376, 416-447).
THEOREM ImplementsDirectory == Spec => DirectorySpec
  BY InitDirectory, DirectoryStep, Inductive, PTL
  DEF Spec, DirectorySpec, Lookups!Spec

-----------------------------------------------------------------------------
(* The counters                                                            *)

LEMMA StatsBegins == StatsInit => Init
  BY DEF StatsInit

LEMMA StatsSteps == [StatsNext]_statsVars => [Next]_vars
<1>. SUFFICES ASSUME [StatsNext]_statsVars  PROVE [Next]_vars
  OBVIOUS
<1>1. CASE UNCHANGED statsVars  BY <1>1 DEF statsVars, vars
<1>2. ASSUME NEW w \in Workers, NEW c \in Callsigns,
             \/ CountGetSkipped(w, c) \/ CountGetThrown(w, c) \/ CountGetMiss(w, c)
             \/ CountGetUnparsable(w, c) \/ CountGetHit(w, c)
      PROVE  Next
  BY <1>2 DEF CountGetSkipped, CountGetThrown, CountGetMiss, CountGetUnparsable,
              CountGetHit, Next, Lookup
<1>3. ASSUME NEW w \in Workers, CountQuery(w) \/ CountPut(w)  PROVE Next
  BY <1>3 DEF CountQuery, CountPut, Next, Lookup
<1>4. ASSUME NEW w \in Workers, TryStats(w)  PROVE UNCHANGED vars
  BY <1>4 DEF TryStats
<1>5. CASE Environment  BY <1>5 DEF Next
<1>. QED  BY <1>1, <1>2, <1>3, <1>4, <1>5 DEF StatsNext

LEMMA StoreInvariant == StatsSpec => []IInv
  BY StatsBegins, StatsSteps, InitIInv, IInvStep, PTL DEF StatsSpec

-----------------------------------------------------------------------------
(* The counters                                                            *)

Names == {"tries", "hits", "misses", "stored", "sqlTries", "sqlHits", "sqlMisses"}

LEMMA NoStatsFields ==
  /\ DOMAIN NoStats = Names
  /\ NoStats \in [Names -> Nat]
  /\ \A n \in Names : NoStats[n] = 0
  BY DEF NoStats, Names

Counters ==
  /\ stats \in [Workers -> [Names -> Nat]]
  /\ failures \in [Workers -> Nat]

LEMMA CountOnce ==
  ASSUME Counters, NEW w \in Workers, NEW names, Count(w, names)
  PROVE  /\ stats' \in [Workers -> [Names -> Nat]]
         /\ \A v \in Workers : v # w => stats'[v] = stats[v]
         /\ \A n \in Names : stats'[w][n] = stats[w][n] + (IF n \in names THEN 1 ELSE 0)
<1>. DEFINE f == [n \in Names |-> stats[w][n] + (IF n \in names THEN 1 ELSE 0)]
<1>1. stats' = [stats EXCEPT ![w] = f]  BY NoStatsFields DEF Count
<1>2. f \in [Names -> Nat]  BY DEF Counters
<1>. HIDE DEF f
<1>3. stats' \in [Workers -> [Names -> Nat]] /\ stats'[w] = f
      /\ \A v \in Workers : v # w => stats'[v] = stats[v]
  BY <1>1, <1>2 DEF Counters
<1>. QED  BY <1>3 DEF f

\* StatsReconcile of one worker.
Reconciled(w) ==
  LET s == stats[w] IN
  /\ s["tries"] = s["hits"] + s["misses"]
  /\ s["sqlTries"] = s["sqlHits"] + s["sqlMisses"] + (IF pc[w] = "sql" THEN 1 ELSE 0)
  /\ s["misses"] <= s["sqlTries"]
  /\ s["stored"] + (IF pc[w] = "idle" THEN 0 ELSE 1) <= s["sqlTries"]

LEMMA ReconciledAll == StatsReconcile <=> \A w \in Workers : Reconciled(w)
  BY DEF StatsReconcile, Reconciled

\* How the place of w in its lookup changes.
LEMMA Places ==
  ASSUME TypeOK, NEW w \in Workers
  PROVE  /\ \A c \in Callsigns : GoSql(w, c) => pc[w] = "idle" /\ pc' = [pc EXCEPT ![w] = "sql"]
         /\ Sql(w) \/ SqlFails(w) => pc[w] = "sql" /\ pc' = [pc EXCEPT ![w] = "put"]
         /\ Return(w) => pc[w] = "put" /\ pc' = [pc EXCEPT ![w] = "idle"]
         /\ \A x : /\ [pc EXCEPT ![w] = x][w] = x
                   /\ \A v \in Workers : v # w => [pc EXCEPT ![w] = x][v] = pc[v]
  BY DEF TypeOK, GoSql, Sql, SqlFails, Query, Return

\* The memcached errors of the lookup in progress.
OneError(w) ==
  MaxLookup <= FailHold =>
    /\ failures[w] <= 1
    /\ pc[w] # "idle" /\ failures[w] # 0 => begun[w] <= failAt[w]

StatsInv ==
  /\ Counters
  /\ \A w \in Workers : Reconciled(w) /\ OneError(w)

LEMMA InitStatsInv == StatsInit => StatsInv
<1>. SUFFICES ASSUME StatsInit  PROVE StatsInv
  OBVIOUS
<1>1. Counters  BY NoStatsFields DEF StatsInit, Counters
<1>2. ASSUME NEW w \in Workers  PROVE Reconciled(w)
  <2>1. stats[w] = NoStats /\ pc[w] = "idle"  BY DEF StatsInit, Init
  <2>2. \A n \in Names : stats[w][n] = 0  BY <2>1, NoStatsFields
  <2>. QED  BY <2>1, <2>2 DEF Names, Reconciled
<1>3. ASSUME NEW w \in Workers  PROVE OneError(w)
  BY DEF StatsInit, OneError
<1>. QED  BY <1>1, <1>2, <1>3 DEF StatsInv

LEMMA CountersStep == TypeOK /\ Counters /\ [StatsNext]_statsVars => Counters'
<1>. SUFFICES ASSUME TypeOK, Counters, [StatsNext]_statsVars  PROVE Counters'
  OBVIOUS
<1>. USE DEF Errors
<1>1. ASSUME NEW w \in Workers, NEW c \in Callsigns,
             \/ CountGetSkipped(w, c) \/ CountGetThrown(w, c) \/ CountGetMiss(w, c)
             \/ CountGetUnparsable(w, c) \/ CountGetHit(w, c)
      PROVE  Counters'
  <2>1. \E names : Count(w, names)
    BY <1>1 DEF CountGetSkipped, CountGetThrown, CountGetMiss, CountGetUnparsable,
                CountGetHit
  <2>2. \E n \in {0, 1} : failures' = [failures EXCEPT ![w] = n]
    BY <1>1 DEF CountGetSkipped, CountGetThrown, CountGetMiss, CountGetUnparsable,
                CountGetHit
  <2>. QED  BY <2>1, <2>2, CountOnce DEF Counters
<1>2. ASSUME NEW w \in Workers, CountQuery(w)  PROVE Counters'
  <2>1. (\E names : Count(w, names)) /\ failures' = failures
    BY <1>2 DEF CountQuery
  <2>. QED  BY <2>1, CountOnce DEF Counters
<1>3. ASSUME NEW w \in Workers, CountPut(w)  PROVE Counters'
  <2>1. stats' = stats \/ \E names : Count(w, names)  BY <1>3 DEF CountPut
  <2>2. stats' \in [Workers -> [Names -> Nat]]  BY <2>1, CountOnce DEF Counters
  <2>3. failures' = failures \/ failures' = [failures EXCEPT ![w] = failures[w] + 1]
    BY <1>3 DEF CountPut
  <2>. QED  BY <2>2, <2>3 DEF Counters
<1>4. ASSUME NEW w \in Workers, TryStats(w)  PROVE Counters'
  BY <1>4, NoStatsFields DEF TryStats, Counters
<1>5. CASE UNCHANGED <<stats, failures>>  BY <1>5 DEF Counters
<1>6. CASE UNCHANGED statsVars  BY <1>5, <1>6 DEF statsVars
<1>. QED  BY <1>1, <1>2, <1>3, <1>4, <1>5, <1>6 DEF StatsNext

\* A step of w that counts names, seen from worker v.
LEMMA ReconciledStep ==
  ASSUME TypeOK, Counters, Counters', NEW v \in Workers, Reconciled(v),
         [StatsNext]_statsVars
  PROVE  Reconciled(v)'
<1>. DEFINE s == stats[v]
            s1 == stats'[v]
<1>1. \A n \in Names : s[n] \in Nat  BY DEF Counters
<1>2. CASE UNCHANGED <<stats, pc>>  BY <1>2 DEF Reconciled
<1>3. CASE s1 = s /\ pc'[v] = pc[v]  BY <1>3 DEF Reconciled
<1>4. ASSUME NEW w \in Workers, NEW names, NEW x, v # w,
             Count(w, names) \/ stats' = stats,
             pc' = [pc EXCEPT ![w] = x] \/ pc' = pc
      PROVE  Reconciled(v)'
  <2>1. s1 = s  BY <1>4, CountOnce
  <2>2. pc'[v] = pc[v]  BY <1>4, Places
  <2>. QED  BY <1>3, <2>1, <2>2
<1>5. ASSUME NEW c \in Callsigns, CountGetSkipped(v, c)  PROVE Reconciled(v)'
  <2>1. pc[v] = "idle" /\ pc'[v] = "sql" /\ Count(v, {"sqlTries"})
    BY <1>5, Places DEF CountGetSkipped, GetSkipped
  <2>2. \A n \in Names : s1[n] = s[n] + (IF n = "sqlTries" THEN 1 ELSE 0)
    BY <2>1, CountOnce
  <2>. QED  BY <1>1, <2>1, <2>2 DEF Names, Reconciled
<1>6. ASSUME NEW c \in Callsigns, CountGetThrown(v, c)  PROVE Reconciled(v)'
  <2>1. pc[v] = "idle" /\ pc'[v] = "sql"
    BY <1>6, Places DEF CountGetThrown, GetFails
  <2>2. PICK o \in {"hits", "misses"} : Count(v, {"tries", o, "sqlTries"})
    BY <1>6 DEF CountGetThrown
  <2>3. \A n \in Names :
          s1[n] = s[n] + (IF n \in {"tries", o, "sqlTries"} THEN 1 ELSE 0)
    BY <2>2, CountOnce
  <2>4. CASE o = "hits"  BY <1>1, <2>1, <2>3, <2>4 DEF Names, Reconciled
  <2>5. CASE o = "misses"  BY <1>1, <2>1, <2>3, <2>5 DEF Names, Reconciled
  <2>. QED  BY <2>4, <2>5
<1>7. ASSUME NEW c \in Callsigns, CountGetMiss(v, c)  PROVE Reconciled(v)'
  <2>1. /\ pc[v] = "idle" /\ pc'[v] = "sql"
        /\ Count(v, {"tries", "misses", "sqlTries"})
    BY <1>7, Places DEF CountGetMiss, GetMisses
  <2>2. \A n \in Names :
          s1[n] = s[n] + (IF n \in {"tries", "misses", "sqlTries"} THEN 1 ELSE 0)
    BY <2>1, CountOnce
  <2>. QED  BY <1>1, <2>1, <2>2 DEF Names, Reconciled
<1>8. ASSUME NEW c \in Callsigns, CountGetUnparsable(v, c)  PROVE Reconciled(v)'
  <2>1. /\ pc[v] = "idle" /\ pc'[v] = "sql"
        /\ Count(v, {"tries", "hits", "sqlTries"})
    BY <1>8, Places DEF CountGetUnparsable, GetUnparsable
  <2>2. \A n \in Names :
          s1[n] = s[n] + (IF n \in {"tries", "hits", "sqlTries"} THEN 1 ELSE 0)
    BY <2>1, CountOnce
  <2>. QED  BY <1>1, <2>1, <2>2 DEF Names, Reconciled
<1>9. ASSUME NEW c \in Callsigns, CountGetHit(v, c)  PROVE Reconciled(v)'
  <2>1. pc' = pc /\ Count(v, {"tries", "hits"})
    BY <1>9 DEF CountGetHit, GetHits
  <2>2. \A n \in Names : s1[n] = s[n] + (IF n \in {"tries", "hits"} THEN 1 ELSE 0)
    BY <2>1, CountOnce
  <2>. QED  BY <1>1, <2>1, <2>2 DEF Names, Reconciled
<1>10. ASSUME CountQuery(v)  PROVE Reconciled(v)'
  <2>1. pc[v] = "sql" /\ pc'[v] = "put"
    BY <1>10, Places DEF CountQuery
  <2>2. PICK o \in {"sqlHits", "sqlMisses"} : Count(v, {o})
    BY <1>10 DEF CountQuery
  <2>3. \A n \in Names : s1[n] = s[n] + (IF n = o THEN 1 ELSE 0)
    BY <2>2, CountOnce
  <2>4. CASE o = "sqlHits"  BY <1>1, <2>1, <2>3, <2>4 DEF Names, Reconciled
  <2>5. CASE o = "sqlMisses"  BY <1>1, <2>1, <2>3, <2>5 DEF Names, Reconciled
  <2>. QED  BY <2>4, <2>5
<1>11. ASSUME CountPut(v)  PROVE Reconciled(v)'
  <2>1. pc[v] = "put" /\ pc'[v] = "idle"
    BY <1>11, Places DEF CountPut, Put, PutSkipped, PutFails
  <2>2. CASE Count(v, {"stored"})
    <3>1. \A n \in Names : s1[n] = s[n] + (IF n = "stored" THEN 1 ELSE 0)
      BY <2>2, CountOnce
    <3>. QED  BY <1>1, <2>1, <3>1 DEF Names, Reconciled
  <2>3. CASE stats' = stats  BY <1>1, <2>1, <2>3 DEF Names, Reconciled
  <2>. QED  BY <1>11, <2>2, <2>3 DEF CountPut
<1>12. ASSUME TryStats(v)  PROVE Reconciled(v)'
  <2>1. pc'[v] = "idle" /\ s1 = NoStats
    BY <1>12 DEF TryStats, vars, Counters
  <2>2. \A n \in Names : s1[n] = 0  BY <2>1, NoStatsFields
  <2>. QED  BY <2>1, <2>2 DEF Names, Reconciled
\* The other workers and the environment.
<1>13. ASSUME NEW w \in Workers, NEW c \in Callsigns, v # w,
              \/ CountGetSkipped(w, c) \/ CountGetThrown(w, c) \/ CountGetMiss(w, c)
              \/ CountGetUnparsable(w, c) \/ CountGetHit(w, c)
       PROVE  Reconciled(v)'
  <2>1. \E names : Count(w, names)
    BY <1>13 DEF CountGetSkipped, CountGetThrown, CountGetMiss, CountGetUnparsable,
                 CountGetHit
  <2>2. pc' = [pc EXCEPT ![w] = "sql"] \/ pc' = pc
    BY <1>13 DEF CountGetSkipped, CountGetThrown, CountGetMiss, CountGetUnparsable,
                 CountGetHit, GetSkipped, GetFails, GetMisses, GetUnparsable, GetHits,
                 GoSql
  <2>. QED  BY <1>4, <1>13, <2>1, <2>2
<1>14. ASSUME NEW w \in Workers, v # w, CountQuery(w) \/ CountPut(w)
       PROVE  Reconciled(v)'
  <2>1. stats' = stats \/ \E names : Count(w, names)
    BY <1>14 DEF CountQuery, CountPut
  <2>2. \E x : pc' = [pc EXCEPT ![w] = x]
    BY <1>14 DEF CountQuery, CountPut, Sql, SqlFails, Query, Put, PutSkipped, PutFails,
                 Return
  <2>. QED  BY <1>4, <1>14, <2>1, <2>2
<1>15. ASSUME NEW w \in Workers, v # w, TryStats(w)  PROVE Reconciled(v)'
  <2>1. s1 = s /\ pc'[v] = pc[v]  BY <1>15 DEF TryStats, vars, Counters
  <2>. QED  BY <1>3, <2>1
<1>16. CASE Environment /\ UNCHANGED <<stats, lookups, items, failures>>
  <2>1. pc' = pc  BY <1>16 DEF Environment, Tick, Evict, Register, memory
  <2>. QED  BY <1>2, <1>16, <2>1
<1>17. CASE UNCHANGED statsVars  BY <1>2, <1>17 DEF statsVars
<1>. QED
  BY <1>5, <1>6, <1>7, <1>8, <1>9, <1>10, <1>11, <1>12, <1>13, <1>14, <1>15,
     <1>16, <1>17
  DEF StatsNext

LEMMA OneErrorStep ==
  ASSUME IInv, TypeOK', Counters, NEW v \in Workers, OneError(v), [StatsNext]_statsVars
  PROVE  OneError(v)'
<1>. SUFFICES ASSUME MaxLookup <= FailHold
              PROVE  /\ failures'[v] <= 1
                     /\ pc'[v] # "idle" /\ failures'[v] # 0 => begun'[v] <= failAt'[v]
  BY DEF OneError
<1>. USE DEF Errors
<1>1. /\ TypeOK /\ LookupInv /\ failures[v] \in Nat /\ now \in Nat
      /\ begun[v] \in Nat /\ failAt[v] \in Nat
      /\ failures[v] <= 1
      /\ pc[v] # "idle" /\ failures[v] # 0 => begun[v] <= failAt[v]
  BY Times DEF IInv, Counters, OneError, TypeOK
<1>2. CASE /\ failures'[v] = failures[v] /\ begun'[v] = begun[v]
           /\ failAt'[v] = failAt[v] /\ (pc'[v] = pc[v] \/ pc[v] # "idle")
  BY <1>1, <1>2
<1>3. CASE UNCHANGED <<failures, memory>>  BY <1>2, <1>3 DEF memory
<1>4. ASSUME NEW w \in Workers, NEW c \in Callsigns,
             \/ CountGetSkipped(w, c) \/ CountGetThrown(w, c) \/ CountGetMiss(w, c)
             \/ CountGetUnparsable(w, c)
      PROVE  /\ failures'[v] <= 1
             /\ pc'[v] # "idle" /\ failures'[v] # 0 => begun'[v] <= failAt'[v]
  <2>1. GoSql(w, c)
    BY <1>4 DEF CountGetSkipped, CountGetThrown, CountGetMiss, CountGetUnparsable,
                GetSkipped, GetFails, GetMisses, GetUnparsable
  <2>2. \/ failures' = [failures EXCEPT ![w] = 0] /\ failAt' = failAt
        \/ failures' = [failures EXCEPT ![w] = 1] /\ failAt' = [failAt EXCEPT ![w] = now]
    BY <1>4 DEF CountGetSkipped, CountGetThrown, CountGetMiss, CountGetUnparsable,
                GetSkipped, GetFails, GetMisses, GetUnparsable, Trip
  <2>3. CASE v = w
    <3>1. begun'[v] = now  BY <1>1, <2>1, <2>3 DEF GoSql, TypeOK
    <3>. QED  BY <1>1, <2>2, <2>3, <3>1 DEF Counters, TypeOK
  <2>4. CASE v # w
    BY <1>1, <1>2, <2>1, <2>2, <2>4 DEF GoSql, Counters, TypeOK
  <2>. QED  BY <2>3, <2>4
<1>5. ASSUME NEW w \in Workers, NEW c \in Callsigns, CountGetHit(w, c)
      PROVE  /\ failures'[v] <= 1
             /\ pc'[v] # "idle" /\ failures'[v] # 0 => begun'[v] <= failAt'[v]
  <2>1. /\ failures' = [failures EXCEPT ![w] = 0] /\ UNCHANGED <<pc, begun, failAt>>
        /\ pc[w] = "idle"
    BY <1>5 DEF CountGetHit, GetHits
  <2>. QED  BY <1>1, <2>1 DEF Counters
<1>6. ASSUME NEW w \in Workers, CountQuery(w)
      PROVE  /\ failures'[v] <= 1
             /\ pc'[v] # "idle" /\ failures'[v] # 0 => begun'[v] <= failAt'[v]
  <2>1. /\ UNCHANGED <<failures, begun, failAt>>
        /\ pc[w] = "sql" /\ pc' = [pc EXCEPT ![w] = "put"]
    BY <1>6 DEF CountQuery, Sql, SqlFails, Query
  <2>. QED  BY <1>1, <1>2, <2>1 DEF TypeOK
<1>7. ASSUME NEW w \in Workers, CountPut(w)
      PROVE  /\ failures'[v] <= 1
             /\ pc'[v] # "idle" /\ failures'[v] # 0 => begun'[v] <= failAt'[v]
  <2>1. /\ Return(w)
        /\ \/ UNCHANGED <<failures, failAt>>
           \/ /\ isMemcachedOk(w)
              /\ failures' = [failures EXCEPT ![w] = failures[w] + 1]
              /\ failAt' = [failAt EXCEPT ![w] = now]
    BY <1>7 DEF CountPut, Put, PutSkipped, PutFails, Trip
  <2>2. CASE v = w
    <3>1. pc[v] = "put" /\ pc'[v] = "idle"  BY <1>1, <2>1, <2>2 DEF Return, TypeOK
    <3>2. isMemcachedOk(v) => failures[v] = 0
      BY <1>1, <3>1, Times DEF isMemcachedOk, LookupInv
    <3>. QED  BY <1>1, <2>1, <2>2, <3>1, <3>2 DEF Counters
  <2>3. CASE v # w
    BY <1>1, <1>2, <2>1, <2>3 DEF Return, Counters, TypeOK
  <2>. QED  BY <2>2, <2>3
<1>8. ASSUME NEW w \in Workers, TryStats(w)  PROVE UNCHANGED <<failures, memory>>
  BY <1>8 DEF TryStats, vars, memory
<1>9. CASE Environment /\ UNCHANGED <<stats, lookups, items, failures>>
  BY <1>3, <1>9 DEF Environment, Tick, Evict, Register, memory
<1>10. CASE UNCHANGED statsVars  BY <1>3, <1>10 DEF statsVars, memory
<1>. QED
  BY <1>3, <1>4, <1>5, <1>6, <1>7, <1>8, <1>9, <1>10 DEF StatsNext

LEMMA StatsInvStep == IInv /\ IInv' /\ StatsInv /\ [StatsNext]_statsVars => StatsInv'
<1>. SUFFICES ASSUME IInv, IInv', StatsInv, [StatsNext]_statsVars  PROVE StatsInv'
  OBVIOUS
<1>1. TypeOK /\ TypeOK' /\ Counters  BY DEF IInv, StatsInv
<1>2. Counters'  BY <1>1, CountersStep
<1>3. ASSUME NEW v \in Workers  PROVE Reconciled(v)' /\ OneError(v)'
  <2>1. Reconciled(v) /\ OneError(v)  BY DEF StatsInv
  <2>. QED  BY <1>1, <1>2, <2>1, ReconciledStep, OneErrorStep
<1>. QED  BY <1>2, <1>3 DEF StatsInv

LEMMA StatsInductive == StatsSpec => []StatsInv
  BY InitStatsInv, StatsInvStep, StoreInvariant, PTL DEF StatsSpec

-----------------------------------------------------------------------------
(* The theorems                                                            *)

\* In every window between two reports, tries are hits and misses, queries are
\* hits, misses and the one in progress, every miss led to a query and nothing
\* was stored that was not queried, for any number of workers.
THEOREM ReportsAddUp == StatsSpec => []StatsReconcile
<1>1. StatsInv => StatsReconcile  BY ReconciledAll DEF StatsInv
<1>. QED  BY <1>1, StatsInductive, PTL

\* A lookup no longer than the breaker holds has at most one memcached error,
\* whatever the two times are (Store.cpp:227, 273).
THEOREM BreakerHolds == StatsSpec => []OneFailurePerLookup
<1>1. StatsInv => OneFailurePerLookup  BY DEF StatsInv, OneError, OneFailurePerLookup
<1>. QED  BY <1>1, StatsInductive, PTL
=============================================================================
