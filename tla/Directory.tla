------------------------------ MODULE Directory ------------------------------
(***************************************************************************)
(* What class Store promises the worker that looks up a callsign: an       *)
(* answer from the cache comes at once and was true within Window, one     *)
(* that took a query was true while the lookup lasted, and either may be   *)
(* an empty one that stands for a query that failed then.  There is no     *)
(* cache here: how it is kept, and by how many, does not show.             *)
(***************************************************************************)
EXTENDS Integers

CONSTANTS Workers, Callsigns, Answers,
          Window,     \* how old an answer of the cache may be
          MaxLookup,  \* how long a lookup may last
          Nothing

VARIABLES now, db,    \* the clock, and per callsign its active rows
          asked,      \* per worker: the lookup it waits for, or Nothing
          answer,     \* the answer given in the last step, or Nothing
          lastTrue,   \* history: when a set of rows was last the truth
          lastError   \* history: when a query last failed

dirVars == <<now, db, asked, answer, lastTrue, lastError>>

\* At t or later the rows were the truth, or a failed query made it look so.
TrueSince(c, S, t) == lastTrue[c][S] >= t \/ (S = {} /\ lastError[c] >= t)

Init ==
  /\ asked = [w \in Workers |-> Nothing] /\ answer = Nothing
  /\ \A c \in Callsigns :
       /\ lastTrue[c][db[c]] = now /\ lastError[c] <= now - Window
       /\ \A S \in Answers \ {db[c]} : lastTrue[c][S] <= now - Window

Tick ==
  /\ \A w \in Workers : asked[w] # Nothing => now - asked[w].begun < MaxLookup
  /\ now' = now + 1
  /\ lastTrue' = [c \in Callsigns |-> [lastTrue[c] EXCEPT ![db[c]] = now + 1]]
  /\ answer' = Nothing
  /\ UNCHANGED <<db, asked, lastError>>

Change(c, S) ==
  /\ db' = [db EXCEPT ![c] = S]
  /\ lastTrue' = [lastTrue EXCEPT ![c][S] = now]
  /\ answer' = Nothing
  /\ UNCHANGED <<now, asked, lastError>>

Ask(w, c) ==
  /\ asked[w] = Nothing
  /\ asked' = [asked EXCEPT ![w] = [call |-> c, begun |-> now]]
  /\ answer' = Nothing
  /\ UNCHANGED <<now, db, lastTrue, lastError>>

\* The query of a lookup in progress fails.
Fail(w) ==
  /\ asked[w] # Nothing
  /\ lastError' = [lastError EXCEPT ![asked[w].call] = now]
  /\ answer' = Nothing
  /\ UNCHANGED <<now, db, asked, lastTrue>>

Fresh(w, S) ==
  /\ asked[w] # Nothing
  /\ TrueSince(asked[w].call, S, asked[w].begun)
  /\ answer' = [call |-> asked[w].call, rows |-> S, begun |-> asked[w].begun]
  /\ asked' = [asked EXCEPT ![w] = Nothing]
  /\ UNCHANGED <<now, db, lastTrue, lastError>>

Cached(w, c, S) ==
  /\ asked[w] = Nothing
  /\ TrueSince(c, S, now - Window + 1)
  /\ answer' = [call |-> c, rows |-> S, begun |-> now]
  /\ UNCHANGED <<now, db, asked, lastTrue, lastError>>

\* Work of which nothing shows.
Quiet == answer' = Nothing /\ UNCHANGED <<now, db, asked, lastTrue, lastError>>

Next ==
  \/ Tick \/ Quiet
  \/ \E c \in Callsigns, S \in Answers : Change(c, S)
  \/ \E w \in Workers :
       \/ Fail(w)
       \/ \E c \in Callsigns : Ask(w, c)
       \/ \E S \in Answers : Fresh(w, S) \/ \E c \in Callsigns : Cached(w, c, S)

Spec == Init /\ [][Next]_dirVars
=============================================================================
