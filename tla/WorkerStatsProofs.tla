-------------------------- MODULE WorkerStatsProofs --------------------------
(***************************************************************************)
(* A proof about WorkerStats: the counters of connections and of lost      *)
(* connections agree, for any number of messages, failures and windows.    *)
(***************************************************************************)
EXTENDS WorkerStats, TLAPS

\* A link that is believed to be up has been counted as connected after the
\* last loss of this window, and frames are read only from such a link.
StatsInv ==
  /\ stats \in [connects : Nat, disconnects : Nat, frames_in : Nat]
  /\ pc = "read" => connected
  /\ connected => stats.disconnects <= stats.connects
  /\ DisconnectsCountedOnce

LEMMA AddOne ==
  ASSUME stats \in [connects : Nat, disconnects : Nat, frames_in : Nat],
         NEW name \in {"connects", "disconnects", "frames_in"}, NEW n \in Nat,
         Add(name, n)
  PROVE  /\ stats' \in [connects : Nat, disconnects : Nat, frames_in : Nat]
         /\ stats'.connects = stats.connects + (IF name = "connects" THEN n ELSE 0)
         /\ stats'.disconnects =
              stats.disconnects + (IF name = "disconnects" THEN n ELSE 0)
<1>1. CASE name = "connects"  BY <1>1 DEF Add
<1>2. CASE name = "disconnects"  BY <1>2 DEF Add
<1>3. CASE name = "frames_in"  BY <1>3 DEF Add
<1>. QED  BY <1>1, <1>2, <1>3

LEMMA StatsStep == StatsInv /\ [StatsNext]_statsVars => StatsInv'
<1>. SUFFICES ASSUME StatsInv, [StatsNext]_statsVars  PROVE StatsInv'
  OBVIOUS
<1>. USE DEF StatsInv, DisconnectsCountedOnce, Goto, broker, process, history, counts
<1>1. CASE CountRun
  BY <1>1 DEF CountRun, Run, NoStats
<1>2. CASE CountSubscribe
  <2>1. Add("connects", 1)  BY <1>2 DEF CountSubscribe
  <2>2. /\ stats' \in [connects : Nat, disconnects : Nat, frames_in : Nat]
        /\ stats'.connects = stats.connects + 1
        /\ stats'.disconnects = stats.disconnects
    BY <2>1, AddOne
  <2>3. pc' = "read" => connected'
    BY <1>2 DEF CountSubscribe, Subscribe, SubscribeFails
  <2>. QED  BY <2>2, <2>3
<1>3. CASE CountRead
  <2>1. PICK n \in Nat : Add("frames_in", n)  BY <1>3 DEF CountRead
  <2>2. /\ stats' \in [connects : Nat, disconnects : Nat, frames_in : Nat]
        /\ stats'.connects = stats.connects
        /\ stats'.disconnects = stats.disconnects
    BY <2>1, AddOne
  <2>3. pc' = "usable" /\ connected' = connected  BY <1>3 DEF CountRead, Read
  <2>. QED  BY <2>2, <2>3
<1>4. CASE CountThrow
  <2>1. Add("disconnects", 1)  BY <1>4 DEF CountThrow
  <2>2. /\ stats' \in [connects : Nat, disconnects : Nat, frames_in : Nat]
        /\ stats'.connects = stats.connects
        /\ stats'.disconnects = stats.disconnects + 1
    BY <2>1, AddOne
  <2>3. connected /\ ~connected' /\ pc' = "idle"
    BY <1>4 DEF CountThrow, ReadThrows
  <2>. QED  BY <2>2, <2>3
<1>5. CASE Forget
  BY <1>5 DEF Forget, Exit, Crash, Die, NoStats
<1>6. CASE NotCounted
  <2>1. stats' = stats  BY <1>6 DEF NotCounted
  <2>2. connected' = connected /\ (pc' = pc \/ pc' # "read")
    <3>1. CASE ReadNothing \/ Release \/ Ignore \/ Start
      BY <3>1 DEF ReadNothing, Release, Ignore, Start
    <3>2. CASE \E S \in SUBSET Rows : Lookup(S)
      BY <3>2 DEF Lookup
    <3>3. CASE Reject \/ Push \/ Ack \/ \E r \in Rows : Record(r)
      BY <3>3 DEF Reject, Push, Ack, Record, PopRow
    <3>4. CASE \/ SendNoise \/ Drop \/ Sigint
               \/ \E m \in Messages : Publish(m) \/ Send(m)
      BY <3>4 DEF SendNoise, Drop, Sigint, Publish, Send
    <3>. QED  BY <1>6, <3>1, <3>2, <3>3, <3>4 DEF NotCounted
  <2>. QED  BY <2>1, <2>2
<1>7. CASE UNCHANGED statsVars  BY <1>7 DEF statsVars
<1>. QED  BY <1>1, <1>2, <1>3, <1>4, <1>5, <1>6, <1>7 DEF StatsNext

\* In every window at most one more loss than connects is reported, however
\* often run() is called on a lost link (Worker.cpp:190-211).
THEOREM LossesCountedOnce == StatsSpec => []DisconnectsCountedOnce
<1>1. StatsInit => StatsInv
  BY DEF StatsInit, Init, NoStats, StatsInv, DisconnectsCountedOnce
<1>2. StatsInv => DisconnectsCountedOnce  BY DEF StatsInv
<1>. QED  BY <1>1, <1>2, StatsStep, PTL DEF StatsSpec
=============================================================================
